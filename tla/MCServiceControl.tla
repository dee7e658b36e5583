-------------------------- MODULE MCServiceControl ----------------------------
(***************************************************************************)
(* Instances of ServiceControl for TLC.                                    *)
(***************************************************************************)
EXTENDS ServiceControl

CONSTANTS s1, p1, p2
=============================================================================
