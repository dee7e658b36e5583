-------------------------- MODULE MCBuildLifecycle --------------------------
(***************************************************************************)
(* Instances of BuildLifecycle for TLC.                                    *)
(***************************************************************************)
EXTENDS BuildLifecycle, TLC

CONSTANTS a, b, t1, t2, id1, id2, v1, v2

TaskSymmetry == Permutations(Tasks)

(* Every source has an id of its own; all sources share one.                *)
OwnIds == [s \in {a, b} |-> IF s = a THEN id1 ELSE id2]
SharedId == [s \in {a, b} |-> id1]
SingleId == [s \in {a} |-> id1]
=============================================================================
