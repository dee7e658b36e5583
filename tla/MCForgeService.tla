-------------------------- MODULE MCForgeService ----------------------------
(***************************************************************************)
(* Instances of ForgeService for TLC.                                      *)
(***************************************************************************)
EXTENDS ForgeService, TLC

CONSTANTS a, b, t1, t2, r1, id1, id2, v1, v2

TaskSymmetry == Permutations(Tasks)

(* Every source has an id of its own, or all share one.                     *)
OwnIds == [s \in {a, b} |-> IF s = a THEN id1 ELSE id2]
SharedId == [s \in {a, b} |-> id1]
SingleId == [s \in {a} |-> id1]
=============================================================================
