-------------------------- MODULE ToolProcesses_proofs --------------------------
(***************************************************************************)
(* Theorems about ToolProcesses, for any number of runs, process numbers,    *)
(* health requests and threads, and any ttl.  Fairness is not used.          *)
(***************************************************************************)
EXTENDS ToolProcesses, TLAPS

-----------------------------------------------------------------------------
(* Runs and process groups.                                                 *)

(* A run whose child has not been waited for.                                *)
HasChild(r) == run[r].pc \in {"waiting", "killing", "reaping"}

RunTypes ==
  /\ run \in [Runs -> [pc : Points, pid : Pids \union {None}, late : BOOLEAN, result : Results]]
  /\ os \in [Pids -> [owner : Runs \union {None}, leader : {"running", "zombie", "gone"},
                      helper : BOOLEAN]]
  /\ \A p \in Pids : os[p].owner = None <=> os[p] = NoGroup

(* The number a run holds is that of its own group, whose leader has not been *)
(* reaped; before the last wait nothing of the group is left but the zombie.  *)
ChildIsOwn ==
  \A r \in Runs : HasChild(r) =>
    /\ run[r].pid \in Pids
    /\ os[run[r].pid].owner = r
    /\ os[run[r].pid].leader # "gone"
    /\ run[r].pc = "reaping" =>
         os[run[r].pid] = [owner |-> r, leader |-> "zombie", helper |-> FALSE]

(* A run has no other group, and none before its tool is started or after it  *)
(* has reported a timeout.                                                   *)
GroupsAreHeld ==
  \A p \in Pids : os[p].owner # None =>
    LET r == os[p].owner IN
    \/ HasChild(r) /\ run[r].pid = p
    \/ run[r].pc = "over" /\ run[r].result \in {"ended", "dropped"}

(* Only a run that is over has a result.                                     *)
ResultsAreFinal == \A r \in Runs : run[r].pc # "over" => run[r].result = "none"

Supervised == RunTypes /\ ChildIsOwn /\ GroupsAreHeld /\ ResultsAreFinal

LEMMA SupervisedInit == Init => Supervised
BY ToolAssumption
DEF Init, Supervised, RunTypes, ChildIsOwn, GroupsAreHeld, ResultsAreFinal, HasChild, NoGroup,
    Fresh, Points, Results

RunRecord == [pc : Points, pid : Pids \union {None}, late : BOOLEAN, result : Results]

Group == [owner : Runs \union {None}, leader : {"running", "zombie", "gone"}, helper : BOOLEAN]

(* A run that is not over changes its own record and its own group.           *)
LEMMA RunChanges ==
  ASSUME Supervised, NEW r \in Runs, NEW p \in Pids, NEW x \in RunRecord, NEW g \in Group,
         run' = [run EXCEPT ![r] = x], os' = [os EXCEPT ![p] = g],
         run[r].pc # "over", HasChild(r) => run[r].pid = p,
         os[p].owner \in {r, None}, g.owner \in {r, None}, g.owner = None <=> g = NoGroup,
         x.pc # "over" => x.result = "none",
         x.pc \in {"waiting", "killing", "reaping"} =>
           /\ x.pid = p /\ g.owner = r /\ g.leader # "gone"
           /\ x.pc = "reaping" => g = [owner |-> r, leader |-> "zombie", helper |-> FALSE],
         g.owner = r => \/ x.pc \in {"waiting", "killing", "reaping"}
                        \/ x.pc = "over" /\ x.result \in {"ended", "dropped"}
  PROVE  Supervised'
<1> USE ToolAssumption DEF RunRecord, Group, HasChild
<1>0. /\ run'[r] = x /\ os'[p] = g
      /\ \A u \in Runs \ {r} : run'[u] = run[u]
      /\ \A q \in Pids \ {p} : os'[q] = os[q]
  BY DEF Supervised, RunTypes
<1>1. RunTypes'
  BY <1>0 DEF Supervised, RunTypes, NoGroup
<1>2. ChildIsOwn'
  <2> SUFFICES ASSUME NEW u \in Runs, run'[u].pc \in {"waiting", "killing", "reaping"}
               PROVE  /\ run'[u].pid \in Pids
                      /\ os'[run'[u].pid].owner = u
                      /\ os'[run'[u].pid].leader # "gone"
                      /\ run'[u].pc = "reaping" =>
                           os'[run'[u].pid] = [owner |-> u, leader |-> "zombie", helper |-> FALSE]
    BY DEF ChildIsOwn
  <2>1. CASE u = r
    <3>1. run'[u] = x /\ x.pc \in {"waiting", "killing", "reaping"}
      BY <1>0, <2>1
    <3>2. run'[u].pid = p /\ os'[run'[u].pid] = g
      BY <1>0, <3>1
    <3> QED BY <2>1, <3>1, <3>2
  <2>2. CASE u # r
    <3>1. /\ run[u].pid \in Pids /\ os[run[u].pid].owner = u /\ os[run[u].pid].leader # "gone"
          /\ run[u].pc = "reaping" =>
               os[run[u].pid] = [owner |-> u, leader |-> "zombie", helper |-> FALSE]
      BY <1>0, <2>2 DEF Supervised, ChildIsOwn
    <3>2. run[u].pid # p
      BY <2>2, <3>1
    <3> QED BY <1>0, <2>2, <3>1, <3>2
  <2> QED BY <2>1, <2>2
<1>3. GroupsAreHeld'
  <2> SUFFICES ASSUME NEW q \in Pids, NEW u, u = os'[q].owner, u # None
               PROVE  \/ run'[u].pc \in {"waiting", "killing", "reaping"} /\ run'[u].pid = q
                      \/ run'[u].pc = "over" /\ run'[u].result \in {"ended", "dropped"}
    BY DEF GroupsAreHeld
  <2>1. CASE q = p
    BY <1>0, <2>1
  <2>2. CASE q # p
    <3>1. os'[q] = os[q]
      BY <1>0, <2>2
    <3>2. \/ HasChild(u) /\ run[u].pid = q
          \/ run[u].pc = "over" /\ run[u].result \in {"ended", "dropped"}
      BY <3>1 DEF Supervised, GroupsAreHeld
    <3>3. u # r /\ u \in Runs
      BY <2>2, <3>1, <3>2 DEF Supervised, RunTypes
    <3> QED BY <1>0, <3>1, <3>2, <3>3
  <2> QED BY <2>1, <2>2
<1>4. ResultsAreFinal'
  BY <1>0 DEF Supervised, ResultsAreFinal
<1> QED BY <1>1, <1>2, <1>3, <1>4 DEF Supervised

(* The operating system changes a group, which keeps its owner or vanishes.   *)
LEMMA GroupChanges ==
  ASSUME Supervised, NEW p \in Pids, NEW g \in Group, os[p].owner # None,
         run' = run, os' = [os EXCEPT ![p] = g],
         g.owner = os[p].owner \/ g = NoGroup,
         HasChild(os[p].owner) /\ run[os[p].owner].pid = p =>
           /\ g.owner = os[p].owner /\ g.leader # "gone"
           /\ run[os[p].owner].pc = "reaping" => g = os[p]
  PROVE  Supervised'
<1> USE ToolAssumption DEF Group, HasChild, NoGroup
<1>0. os'[p] = g /\ \A q \in Pids \ {p} : os'[q] = os[q]
  BY DEF Supervised, RunTypes
<1>1. RunTypes'
  <2>1. os[p].owner \in Runs
    BY DEF Supervised, RunTypes
  <2>2. g.owner = None <=> g = NoGroup
    BY <2>1
  <2> QED BY <1>0, <2>2 DEF Supervised, RunTypes
<1>2. ChildIsOwn'
  BY <1>0 DEF Supervised, ChildIsOwn
<1>3. GroupsAreHeld'
  BY <1>0 DEF Supervised, GroupsAreHeld
<1>4. ResultsAreFinal'
  BY DEF Supervised, ResultsAreFinal
<1> QED BY <1>1, <1>2, <1>3, <1>4 DEF Supervised

(* A step of a run that leaves the operating system alone.                   *)
LEMMA RunMoves ==
  ASSUME Supervised, NEW r \in Runs, NEW x \in RunRecord,
         run' = [run EXCEPT ![r] = x], os' = os, run[r].pc # "over",
         x.pc # "over" => x.result = "none", HasChild(r) \/ x.pc # "reaping",
         \/ x.pc \in {"waiting", "killing"} /\ HasChild(r) /\ x.pid = run[r].pid
         \/ x.pc = "over" /\ (HasChild(r) => x.result \in {"ended", "dropped"})
         \/ x.pc \in {"probing", "spawning"} /\ ~HasChild(r)
  PROVE  Supervised'
<1>1. CASE HasChild(r)
  <2> DEFINE p == run[r].pid
  <2>1. p \in Pids /\ os[p].owner = r /\ os[p].leader # "gone" /\ os[p] \in Group
    BY <1>1 DEF Supervised, ChildIsOwn, RunTypes, Group
  <2>2. os' = [os EXCEPT ![p] = os[p]] /\ os[p] # NoGroup
    BY <2>1, ToolAssumption DEF Supervised, RunTypes, NoGroup
  <2> QED BY <1>1, <2>1, <2>2, RunChanges, ToolAssumption DEF HasChild
<1>2. CASE ~HasChild(r)
  <2>1. run'[r] = x /\ \A u \in Runs \ {r} : run'[u] = run[u]
    BY DEF Supervised, RunTypes
  <2>2. \A p \in Pids : os[p].owner # r
    BY <1>2, ToolAssumption DEF Supervised, GroupsAreHeld
  <2>3. RunTypes'
    BY <2>1 DEF Supervised, RunTypes, RunRecord, NoGroup
  <2>4. ChildIsOwn' /\ ResultsAreFinal'
    BY <1>2, <2>1 DEF Supervised, ChildIsOwn, ResultsAreFinal, HasChild
  <2>5. GroupsAreHeld'
    BY <2>1, <2>2 DEF Supervised, GroupsAreHeld, HasChild, RunTypes
  <2> QED BY <2>3, <2>4, <2>5 DEF Supervised
<1> QED BY <1>1, <1>2

LEMMA SupervisedNext == Supervised /\ [Next]_vars => Supervised'
<1> SUFFICES ASSUME Supervised, [Next]_vars PROVE Supervised'
  OBVIOUS
<1> USE ToolAssumption
<1>0. /\ \A r \in Runs : run[r] \in RunRecord
      /\ \A p \in Pids : os[p] \in Group
  BY DEF Supervised, RunTypes, RunRecord, Group
<1>20. \A p \in Pids : os[p].owner # None /\ HasChild(os[p].owner) /\ run[os[p].owner].pid = p =>
         /\ os[p].leader # "gone"
         /\ run[os[p].owner].pc = "reaping" => os[p].leader = "zombie" /\ os[p].helper = FALSE
  <2> SUFFICES ASSUME NEW p \in Pids, NEW u \in Runs, u = os[p].owner, HasChild(u),
                      run[u].pid = p
               PROVE  /\ os[p].leader # "gone"
                      /\ run[u].pc = "reaping" => os[p].leader = "zombie" /\ os[p].helper = FALSE
    BY <1>0 DEF Group
  <2>1. os[p].leader # "gone"
    BY DEF Supervised, ChildIsOwn
  <2>2. run[u].pc = "reaping" => os[p] = [owner |-> u, leader |-> "zombie", helper |-> FALSE]
    BY DEF Supervised, ChildIsOwn
  <2> QED BY <2>1, <2>2
<1>1. ASSUME NEW r \in Runs, NEW point \in {"probing", "spawning"},
             run[r].pc \in {"idle", "probing"}, Goto(r, point), os' = os
      PROVE  Supervised'
  <2>1. [run[r] EXCEPT !.pc = point] \in RunRecord
    BY <1>0 DEF RunRecord, Points
  <2> QED
    BY <1>0, <1>1, <2>1, RunMoves DEF Goto, HasChild, Supervised, ResultsAreFinal, RunRecord
<1>2. ASSUME NEW r \in Runs, Spawn(r) PROVE Supervised'
  <2>1. run[r].pc = "spawning" /\ run[r].result = "none" /\ ~HasChild(r)
    BY <1>2 DEF Spawn, HasChild, Supervised, ResultsAreFinal
  <2>2. ASSUME NEW p \in Pids, Unused(p),
               os' = [os EXCEPT ![p] = [owner |-> r, leader |-> "running", helper |-> FALSE]],
               run' = [run EXCEPT ![r].pc = "waiting", ![r].pid = p]
        PROVE  Supervised'
    <3> DEFINE x == [run[r] EXCEPT !.pc = "waiting", !.pid = p]
               g == [owner |-> r, leader |-> "running", helper |-> FALSE]
    <3>1. run' = [run EXCEPT ![r] = x]
      BY <1>0, <2>2 DEF RunRecord, Supervised, RunTypes
    <3>2. /\ x \in RunRecord /\ x.pc = "waiting" /\ x.pid = p /\ x.result = "none"
          /\ g \in Group /\ g.owner = r /\ g.leader = "running" /\ g # NoGroup
      BY <1>0, <2>1 DEF RunRecord, Group, Points, NoGroup
    <3>3. os[p].owner = None
      BY <2>2 DEF Unused, NoGroup
    <3> HIDE DEF x, g
    <3>4. os' = [os EXCEPT ![p] = g]
      BY <2>2 DEF g
    <3> QED BY <2>1, <3>1, <3>2, <3>3, <3>4, RunChanges
  <2>3. ASSUME Over(r, "error"), os' = os PROVE Supervised'
    <3> DEFINE x == [Fresh EXCEPT !.pc = "over", !.result = "error"]
    <3>1. x \in RunRecord /\ x.pc = "over"
      BY DEF RunRecord, Fresh, Points, Results
    <3> QED BY <2>1, <2>3, <3>1, RunMoves DEF Over
  <2> QED BY <1>2, <2>2, <2>3 DEF Spawn
<1>3. ASSUME NEW r \in Runs, Elapse(r) PROVE Supervised'
  <2> DEFINE x == [run[r] EXCEPT !.late = TRUE]
  <2>1. run' = [run EXCEPT ![r] = x] /\ os' = os
    BY <1>0, <1>3 DEF Elapse, RunRecord, Supervised, RunTypes
  <2>2. run[r].pc = "waiting" /\ run[r].result = "none" /\ HasChild(r)
    BY <1>3 DEF Elapse, HasChild, Supervised, ResultsAreFinal
  <2>3. /\ x \in RunRecord /\ x.pc = "waiting" /\ x.pid = run[r].pid /\ x.result = "none"
    BY <1>0, <2>2 DEF RunRecord
  <2> HIDE DEF x
  <2> QED BY <2>1, <2>2, <2>3, RunMoves
<1>4. ASSUME NEW r \in Runs, Ended(r) PROVE Supervised'
  <2> DEFINE p == run[r].pid
             g == Reaped(os[p])
             x == [Fresh EXCEPT !.pc = "over", !.result = "ended"]
  <2>1. HasChild(r) /\ p \in Pids /\ os[p].owner = r /\ run[r].pc # "over"
    BY <1>4 DEF Ended, HasChild, Supervised, ChildIsOwn
  <2>2. g \in Group /\ (g.owner = r \/ g = NoGroup)
    BY <1>0, <2>1 DEF Reaped, Settled, Group, NoGroup
  <2>3. x \in RunRecord /\ x.pc = "over" /\ x.result = "ended"
    BY DEF RunRecord, Fresh, Points, Results
  <2>4. g.owner \in {r, None} /\ (g.owner = None <=> g = NoGroup)
    BY <2>2 DEF NoGroup
  <2>5. run' = [run EXCEPT ![r] = x] /\ os' = [os EXCEPT ![p] = g]
    BY <1>4 DEF Ended, Over
  <2> HIDE DEF p, g, x
  <2>6. HasChild(r) => run[r].pid = p
    BY DEF p
  <2> QED BY <2>1, <2>2, <2>3, <2>4, <2>5, <2>6, RunChanges
<1>5. ASSUME NEW r \in Runs, TimesOut(r) PROVE Supervised'
  <2> DEFINE x == [run[r] EXCEPT !.pc = "killing", !.late = FALSE]
  <2>1. run' = [run EXCEPT ![r] = x] /\ os' = os
    BY <1>0, <1>5 DEF TimesOut, Advance, After, RunRecord, Supervised, RunTypes
  <2>2. run[r].pc = "waiting" /\ run[r].result = "none" /\ HasChild(r)
    BY <1>5 DEF TimesOut, HasChild, Supervised, ResultsAreFinal
  <2>3. /\ x \in RunRecord /\ x.pc = "killing" /\ x.pid = run[r].pid /\ x.result = "none"
    BY <1>0, <2>2 DEF RunRecord, Points
  <2> HIDE DEF x
  <2> QED BY <2>1, <2>2, <2>3, RunMoves
<1>6. ASSUME NEW r \in Runs, KillGroup(r) PROVE Supervised'
  <2> DEFINE p == run[r].pid
             g == Struck(os[p])
             x == [run[r] EXCEPT !.pc = "reaping", !.late = FALSE]
  <2>1. /\ HasChild(r) /\ p \in Pids /\ os[p].owner = r /\ os[p].leader # "gone"
        /\ run[r].pc = "killing" /\ run[r].result = "none"
    BY <1>6 DEF KillGroup, HasChild, Supervised, ChildIsOwn, ResultsAreFinal
  <2>2. os[p].leader \in {"running", "zombie"}
    BY <1>0, <2>1 DEF Group
  <2>3. g = [owner |-> r, leader |-> "zombie", helper |-> FALSE]
    BY <1>0, <2>1, <2>2 DEF Struck, Settled, Group
  <2>4. g \in Group /\ g.owner = r /\ g.leader = "zombie" /\ g # NoGroup
    BY <2>3 DEF Group, NoGroup
  <2>5. /\ x \in RunRecord /\ x.pc = "reaping" /\ x.pid = p /\ x.result = "none"
    BY <1>0, <2>1 DEF RunRecord, Points
  <2>6. run' = [run EXCEPT ![r] = x] /\ os' = [os EXCEPT ![p] = g]
    BY <1>0, <1>6, <2>1 DEF KillGroup, Advance, After, RunRecord, Supervised, RunTypes
  <2> HIDE DEF p, g, x
  <2>7. HasChild(r) => run[r].pid = p
    BY DEF p
  <2> QED BY <2>1, <2>3, <2>4, <2>5, <2>6, <2>7, RunChanges
<1>7. ASSUME NEW r \in Runs, KillAndReap(r) PROVE Supervised'
  <2> DEFINE p == run[r].pid
             x == [Fresh EXCEPT !.pc = "over", !.result = "timed_out"]
  <2>1. /\ HasChild(r) /\ p \in Pids /\ os[p].owner = r /\ run[r].pc = "reaping"
        /\ os[p] = [owner |-> r, leader |-> "zombie", helper |-> FALSE]
    BY <1>7 DEF KillAndReap, HasChild, Supervised, ChildIsOwn
  <2>2. Reaped(os[p]) = NoGroup
    BY <2>1 DEF Reaped, Settled
  <2>3. NoGroup \in Group /\ NoGroup.owner = None
    BY DEF Group, NoGroup
  <2>4. x \in RunRecord /\ x.pc = "over"
    BY DEF RunRecord, Fresh, Points, Results
  <2>5. run' = [run EXCEPT ![r] = x] /\ os' = [os EXCEPT ![p] = NoGroup]
    BY <1>7, <2>1, <2>2 DEF KillAndReap, Advance, After, Over
  <2> HIDE DEF p, x
  <2>6. HasChild(r) => run[r].pid = p
    BY DEF p
  <2> QED BY <2>1, <2>3, <2>4, <2>5, <2>6, RunChanges
<1>8. ASSUME NEW r \in Runs, Drop(r) PROVE Supervised'
  <2> DEFINE x == [Fresh EXCEPT !.pc = "over", !.result = "dropped"]
  <2>1. x \in RunRecord /\ x.pc = "over" /\ x.result = "dropped"
    BY DEF RunRecord, Fresh, Points, Results
  <2>2. run' = [run EXCEPT ![r] = x] /\ os' = os /\ HasChild(r) /\ run[r].pc # "over"
    BY <1>8 DEF Drop, Over, HasChild
  <2> HIDE DEF x
  <2> QED BY <2>1, <2>2, RunMoves
<1>9. ASSUME NEW p \in Pids, LeaderExits(p) PROVE Supervised'
  <2> DEFINE g == [os[p] EXCEPT !.leader = "zombie"]
  <2>1. os[p].leader = "running" /\ os[p].owner # None /\ run' = run
    BY <1>9 DEF LeaderExits, Supervised, RunTypes, NoGroup
  <2>2. g \in Group /\ g.owner = os[p].owner /\ g.leader = "zombie"
    BY <1>0 DEF Group
  <2>3. os' = [os EXCEPT ![p] = g]
    BY <1>0, <1>9 DEF LeaderExits, Group, Supervised, RunTypes
  <2>4. HasChild(os[p].owner) /\ run[os[p].owner].pid = p => run[os[p].owner].pc # "reaping"
    BY <2>1, <1>20
  <2> HIDE DEF g
  <2> QED BY <2>1, <2>2, <2>3, <2>4, GroupChanges
<1>10. ASSUME NEW p \in Pids, HelperStarts(p) PROVE Supervised'
  <2> DEFINE g == [os[p] EXCEPT !.helper = TRUE]
  <2>1. os[p].leader = "running" /\ os[p].owner # None /\ run' = run
    BY <1>10 DEF HelperStarts, Supervised, RunTypes, NoGroup
  <2>2. g \in Group /\ g.owner = os[p].owner /\ g.leader = "running"
    BY <1>0, <2>1 DEF Group
  <2>3. os' = [os EXCEPT ![p] = g]
    BY <1>0, <1>10 DEF HelperStarts, Group, Supervised, RunTypes
  <2>4. HasChild(os[p].owner) /\ run[os[p].owner].pid = p => run[os[p].owner].pc # "reaping"
    BY <2>1, <1>20
  <2> HIDE DEF g
  <2> QED BY <2>1, <2>2, <2>3, <2>4, GroupChanges
<1>11. ASSUME NEW p \in Pids, HelperExits(p) PROVE Supervised'
  <2> DEFINE g == Settled([os[p] EXCEPT !.helper = FALSE])
  <2>1. os[p].helper = TRUE /\ os[p].owner # None /\ run' = run
    BY <1>0, <1>11 DEF HelperExits, Supervised, RunTypes, NoGroup, Group
  <2>2. /\ g \in Group /\ (g.owner = os[p].owner \/ g = NoGroup)
        /\ os[p].leader # "gone" => g.owner = os[p].owner /\ g.leader = os[p].leader
    BY <1>0 DEF Group, Settled, NoGroup
  <2>3. os' = [os EXCEPT ![p] = g]
    BY <1>0, <1>11 DEF HelperExits, Supervised, RunTypes
  <2>4. HasChild(os[p].owner) /\ run[os[p].owner].pid = p =>
          run[os[p].owner].pc # "reaping" /\ os[p].leader # "gone"
    BY <2>1, <1>20
  <2> HIDE DEF g
  <2> QED BY <2>1, <2>2, <2>3, <2>4, GroupChanges
<1>12. ASSUME NEW p \in Pids, OrphanReaped(p) PROVE Supervised'
  <2> DEFINE g == Reaped(os[p])
  <2>1. /\ os[p].leader = "zombie" /\ os[p].owner # None /\ run' = run
        /\ run[os[p].owner].result = "dropped"
    BY <1>12 DEF OrphanReaped, Supervised, RunTypes, NoGroup
  <2>2. g \in Group /\ (g.owner = os[p].owner \/ g = NoGroup)
    BY <1>0 DEF Group, Reaped, Settled, NoGroup
  <2>3. os' = [os EXCEPT ![p] = g]
    BY <1>12 DEF OrphanReaped
  <2>4. os[p].owner \in Runs
    BY <1>0, <2>1 DEF Group
  <2>5. ~HasChild(os[p].owner)
    BY <2>1, <2>4 DEF Supervised, ResultsAreFinal, HasChild
  <2> HIDE DEF g
  <2> QED BY <2>1, <2>2, <2>3, <2>5, GroupChanges
<1>13. ASSUME UNCHANGED runVars PROVE Supervised'
  BY <1>13
  DEF runVars, Supervised, RunTypes, ChildIsOwn, GroupsAreHeld, ResultsAreFinal, HasChild
<1> QED
  BY <1>1, <1>2, <1>3, <1>4, <1>5, <1>6, <1>7, <1>8, <1>9, <1>10, <1>11, <1>12, <1>13
  DEF Next, RunNext, RunStep, ProbeStarts, ProbeEnds, HealthNext, HealthStep, Tick, vars

LEMMA RunsAreSupervised == Spec => []Supervised
BY SupervisedInit, SupervisedNext, PTL DEF Spec

(* When run_command_with_timeout reports a timeout, the tool and everything it *)
(* has started in its process group are gone.                                *)
THEOREM TimedOutGroupIsGone == Spec => []TimedOutIsGone
<1>1. Supervised => TimedOutIsGone
  <2> SUFFICES ASSUME Supervised, NEW r \in Runs, run[r].result = "timed_out", NEW p \in Pids,
                      os[p].owner = r
               PROVE  FALSE
    BY DEF TimedOutIsGone
  <2>1. run[r].pc = "over"
    BY DEF Supervised, ResultsAreFinal
  <2> QED BY <2>1, ToolAssumption DEF Supervised, GroupsAreHeld, HasChild
<1> QED BY <1>1, RunsAreSupervised, PTL

(* kill(-pid, 9) reaches no process of another run, although the operating    *)
(* system may give a number again as soon as its group is gone.              *)
THEOREM SignalsStayInTheGroup == Spec => KillsOnlyItsOwn
<1> DEFINE Own ==
      \A r \in Runs : run[r].pc = "killing" /\ run'[r].pc # "killing" =>
        \A p \in Pids : os'[p] # os[p] => os[p].owner = r
<1>1. Supervised /\ [Next]_vars => Own
  <2> SUFFICES ASSUME Supervised, [Next]_vars, NEW r \in Runs, run[r].pc = "killing",
                      run'[r].pc # "killing", NEW p \in Pids, os'[p] # os[p]
               PROVE  os[p].owner = r
    OBVIOUS
  <2>1. PICK u \in Runs : \/ ProbeStarts(u) \/ RunStep(u) \/ Elapse(u) \/ Drop(u)
    BY DEF Next, RunNext, HealthNext, HealthStep, Tick, vars, runVars,
           LeaderExits, HelperStarts, HelperExits, OrphanReaped
  <2>2. u = r
    BY <2>1 DEF Supervised, RunTypes, RunStep, ProbeStarts, ProbeEnds, Spawn, Elapse, Ended,
                TimesOut, KillGroup, KillAndReap, Drop, Goto, Over, Advance
  <2>3. KillGroup(r)
    BY <2>1, <2>2 DEF RunStep, ProbeStarts, ProbeEnds, Spawn, Elapse, Ended, TimesOut,
                      KillAndReap, Drop
  <2>4. run[r].pid \in Pids /\ os[run[r].pid].owner = r
    BY DEF Supervised, ChildIsOwn, HasChild
  <2>5. p = run[r].pid
    BY <2>3, <2>4 DEF KillGroup, Supervised, RunTypes
  <2> QED BY <2>4, <2>5
<1>2. Supervised /\ [Next]_vars => [Own]_vars
  BY <1>1
<1> QED BY <1>2, RunsAreSupervised, PTL DEF Spec, KillsOnlyItsOwn

-----------------------------------------------------------------------------
(* The health cache.                                                        *)

(* Only the holder of the mutex probes, and only while the cache has nothing  *)
(* fresh.                                                                    *)
Rationed ==
  /\ health \in [Clients -> {"idle", "locking", "probing"}]
  /\ holder \in Clients \union {None}
  /\ cache \in 0..MaxTime \union {None}
  /\ now \in 0..MaxTime
  /\ \A c \in Clients : health[c] = "probing" =>
       holder = c /\ (cache # None => now - cache >= Ttl)

LEMMA RationedInit == Init => Rationed
BY ToolAssumption DEF Init, Rationed

LEMMA RationedNext == Rationed /\ [Next]_vars => Rationed'
<1> SUFFICES ASSUME Rationed, [Next]_vars PROVE Rationed'
  OBVIOUS
<1> USE ToolAssumption
<1>1. ASSUME NEW c \in Clients, Ask(c) \/ Leave(c), now' = now PROVE Rationed'
  BY <1>1 DEF Ask, Leave, Rationed
<1>2. ASSUME NEW c \in Clients, Enter(c), now' = now PROVE Rationed'
  <2>1. CASE IsCached
    BY <1>2, <2>1 DEF Enter, Rationed
  <2>2. CASE ~IsCached
    <3>1. cache # None => now - cache >= Ttl
      BY <2>2 DEF IsCached, Rationed
    <3>2. /\ health' = [health EXCEPT ![c] = "probing"] /\ holder' = c /\ holder = None
          /\ cache' = cache
      BY <1>2, <2>2 DEF Enter, HolderWhileProbing
    <3> QED BY <1>2, <3>1, <3>2 DEF Rationed
  <2> QED BY <2>1, <2>2
<1>3. ASSUME NEW c \in Clients, Probed(c), now' = now PROVE Rationed'
  BY <1>3 DEF Probed, HolderAfterProbe, Rationed
<1>4. ASSUME Tick PROVE Rationed'
  BY <1>4 DEF Tick, healthVars, Rationed
<1>5. ASSUME UNCHANGED <<healthVars, now>> PROVE Rationed'
  BY <1>5 DEF healthVars, Rationed
<1> QED
  BY <1>1, <1>2, <1>3, <1>4, <1>5 DEF Next, RunNext, HealthNext, HealthStep, vars

(* The ends of two probes for health requests are at least the ttl apart,     *)
(* however many requests wait, come and leave while one is made.             *)
THEOREM ProbesAreSpaced == Spec => ProbesAreRationed
<1> DEFINE Spaced ==
      \A c \in Clients : health[c] = "probing" /\ health'[c] # "probing" /\ cache # None
        => cache' - cache >= Ttl
<1>1. Rationed /\ [Next]_vars => Spaced
  <2> SUFFICES ASSUME Rationed, [Next]_vars, NEW c \in Clients,
                      health[c] = "probing", health'[c] # "probing", cache # None
               PROVE  cache' - cache >= Ttl
    OBVIOUS
  <2>1. ASSUME NEW d \in Clients, Ask(d) \/ Leave(d) \/ Enter(d) PROVE FALSE
    BY <2>1, ToolAssumption DEF Ask, Leave, Enter, Rationed
  <2>2. ASSUME NEW d \in Clients, Probed(d) PROVE cache' = now
    BY <2>2 DEF Probed
  <2>3. health' # health
    OBVIOUS
  <2>4. cache' = now
    BY <2>1, <2>2, <2>3
    DEF Next, RunNext, HealthNext, HealthStep, Tick, vars, healthVars
  <2> QED BY <2>4 DEF Rationed
<1>2. Rationed /\ [Next]_vars => [Spaced]_vars
  BY <1>1
<1> QED BY <1>2, RationedInit, RationedNext, PTL DEF Spec, ProbesAreRationed

(* The variables keep their types; a number without an owner has no process.  *)
THEOREM ToolTypeCorrect == Spec => []ToolTypeOK
<1>1. Supervised /\ Rationed => ToolTypeOK
  BY DEF Supervised, RunTypes, Rationed, ToolTypeOK
<1> QED BY <1>1, RunsAreSupervised, RationedInit, RationedNext, PTL DEF Spec

=============================================================================
