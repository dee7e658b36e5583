--------------------------- MODULE MCDurableFile ------------------------------
(***************************************************************************)
(* Instances of DurableFile for TLC.                                       *)
(***************************************************************************)
EXTENDS DurableFile, TLC

CONSTANTS w1, i1, i2, i3

InodeSymmetry == Permutations(Inodes)
=============================================================================
