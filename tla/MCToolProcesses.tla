--------------------------- MODULE MCToolProcesses ---------------------------
(***************************************************************************)
(* Instances of ToolProcesses for TLC.                                     *)
(***************************************************************************)
EXTENDS ToolProcesses

CONSTANTS r1, r2, p1, p2, c1, c2
=============================================================================
