------------------------ MODULE BuildLifecycle_proofs ------------------------
(***************************************************************************)
(* Theorems about BuildLifecycle, for any number of tasks, sources, builds,*)
(* toolchains and slots and any bound.                                     *)
(***************************************************************************)
EXTENDS BuildLifecycle, FiniteSetTheorems, TLAPS

USE DEF Building, InSlot, InLock, Control, Id

-----------------------------------------------------------------------------
(* Types.                                                                   *)

(* TypeOK without the upper bound of free, and which of a task's records are *)
(* there at which control point.                                             *)
Types ==
  /\ pc \in [Tasks -> Control]
  /\ request \in [Tasks -> Requests \union {None}]
  /\ ctx \in [Tasks -> Contexts \union {None}]
  /\ out \in [Tasks -> Artifacts \union {None}]
  /\ reply \in [Tasks -> Replies]
  /\ holder \in [Ids -> Tasks \union {None}]
  /\ free \in Nat
  /\ meta \in [Ids -> Metadata \union {None}]
  /\ artifact \in [Ids -> Artifacts \union {None}]
  /\ tmp \subseteq {"dir", "signed"} \X Nat
  /\ children \subseteq Nat
  /\ now \in Nat
  /\ toolchain \in Tools \union {Unavailable}
  /\ issued \subseteq Links
  /\ requests \in Nat
  /\ crashes \in Nat
  /\ \A t \in Tasks :
       /\ pc[t] # "idle" => request[t] \in Requests
       /\ pc[t] \in InLock \ {"loading"} => ctx[t] \in Contexts
       /\ pc[t] \in InLock \ {"loading", "probing"} => ctx[t].toolchain \in Tools
       /\ pc[t] \in Building \union {"persisting"} => out[t] \in Artifacts

LEMMA TypesInit == Init => Types
BY SlotAssumption DEF Init, Types, Replies

(* The metadata a task saves is metadata.                                   *)
LEMMA SavedTypes ==
  ASSUME NEW r \in Requests, NEW c \in Contexts, c.toolchain \in Tools
  PROVE  /\ ReadyMetadata(r, c) \in Metadata
         /\ FailedMetadata(r, c) \in Metadata
         /\ Link(r, c) \in Links
<1>1. CreatedAt(c) \in Nat
  BY NoneAssumption DEF CreatedAt, Contexts, Metadata
<1>2. PrunedDownloadTokens(c) \subseteq Tokens
  BY NoneAssumption DEF PrunedDownloadTokens, PruneTokens, Contexts, Metadata
<1>3. NewToken(r, c) \in Tokens
  BY DEF NewToken, Tokens, Requests, Contexts
<1>4. c.expires_at \in Nat /\ r.src \in Sources
  BY DEF Requests, Contexts
<1> QED
  BY <1>1, <1>2, <1>3, <1>4
  DEF ReadyMetadata, FailedMetadata, BuildMetadata, Metadata, Link, Links, Requests

(* A step that ends a submission keeps the types of the tasks and of the     *)
(* locks.                                                                    *)
LEMMA ReleaseTypes ==
  ASSUME Types, NEW t \in Tasks, pc[t] # "idle", Release(t)
  PROVE  /\ pc' \in [Tasks -> Control] /\ pc'[t] = "idle"
         /\ \A u \in Tasks \ {t} : pc'[u] = pc[u] /\ request'[u] = request[u]
                                   /\ ctx'[u] = ctx[u] /\ out'[u] = out[u]
         /\ request' \in [Tasks -> Requests \union {None}]
         /\ ctx' \in [Tasks -> Contexts \union {None}]
         /\ out' \in [Tasks -> Artifacts \union {None}]
         /\ holder' \in [Ids -> Tasks \union {None}]
         /\ free' \in Nat
<1>1. free' \in Nat
  BY DEF Types, Release, FreeAfter
<1>2. holder' \in [Ids -> Tasks \union {None}]
  BY DEF Types, Release, Unlock
<1>3. /\ request' \in [Tasks -> Requests \union {None}]
      /\ ctx' \in [Tasks -> Contexts \union {None}]
      /\ out' \in [Tasks -> Artifacts \union {None}]
  BY DEF Types, Release
<1>4. pc' \in [Tasks -> Control] /\ pc'[t] = "idle"
  BY DEF Types, Release
<1> QED
  BY <1>1, <1>2, <1>3, <1>4 DEF Types, Release

LEMMA TypesNext == Types /\ [Next]_vars => Types'
<1> SUFFICES ASSUME Types, [Next]_vars PROVE Types'
  OBVIOUS
<1> USE IdAssumption, TtlAssumption, BoundAssumption
<1>1. ASSUME NEW t \in Tasks, NEW s \in Sources, NEW ttl \in Ttls, Submit(t, s, ttl)
      PROVE Types'
  <2>1. [n |-> requests + 1, src |-> s, ttl |-> ttl] \in Requests
    BY <1>1 DEF Types, Requests
  <2> QED BY <1>1, <2>1 DEF Types, Submit, Replies, disk
<1>2. ASSUME NEW t \in Tasks, Lock(t) PROVE Types'
  <2>1. Id(t) \in Ids
    BY <1>2 DEF Lock, Types, Requests
  <2> QED BY <1>2, <2>1 DEF Types, Lock, disk, env
<1>3. ASSUME NEW t \in Tasks, Load(t) PROVE Types'
  <2>1. CASE Answer(t, "INTERNAL_ERROR")
    BY <1>3, <2>1, ReleaseTypes DEF Types, Load, Answer, Replies, disk, env
  <2>2. CASE ctx' = [ctx EXCEPT ![t] = [existing |-> meta[Id(t)], now |-> now,
                       expires_at |-> now + request[t].ttl, toolchain |-> None]]
             /\ Goto(t, "probing") /\ UNCHANGED <<out, free>>
    <3>1. meta[Id(t)] \in Metadata \union {None} /\ now \in Nat /\ request[t].ttl \in Nat
      BY <1>3 DEF Load, Types, Requests
    <3>2. [existing |-> meta[Id(t)], now |-> now,
           expires_at |-> now + request[t].ttl, toolchain |-> None] \in Contexts
      BY <3>1 DEF Contexts
    <3> QED BY <1>3, <2>2, <3>2 DEF Types, Load, Goto, disk, env
  <2> QED BY <1>3, <2>1, <2>2 DEF Load
<1>4. ASSUME NEW t \in Tasks, Probe(t) PROVE Types'
  <2>1. CASE Answer(t, "TOOL_UNAVAILABLE")
    BY <1>4, <2>1, ReleaseTypes DEF Types, Probe, Answer, Replies, disk, env
  <2>2. CASE toolchain # Unavailable
    <3> DEFINE c == [ctx[t] EXCEPT !.toolchain = toolchain]
    <3>1. c \in Contexts /\ c.toolchain \in Tools
      BY <1>4, <2>2 DEF Probe, Types, Contexts
    <3>2. ctx' = [ctx EXCEPT ![t] = c]
      BY <1>4, <2>2 DEF Probe
    <3>3. PICK l \in {"acquiring", "renewing"} : Goto(t, l)
      BY <1>4, <2>2 DEF Probe
    <3> HIDE DEF c
    <3>4. UNCHANGED <<out, free, disk, children, issued, env>>
      BY <1>4, <2>2 DEF Probe
    <3> QED BY <1>4, <3>1, <3>2, <3>3, <3>4 DEF Types, Goto, disk, env, Probe
  <2> QED BY <1>4, <2>1, <2>2 DEF Probe
<1>5. ASSUME NEW t \in Tasks, Refuse(t) PROVE Types'
  BY <1>5, ReleaseTypes DEF Types, Refuse, Answer, Replies, disk, env
<1>6. ASSUME NEW t \in Tasks, StartBuild(t) PROVE Types'
  <2>1. CASE Goto(t, "failing") /\ UNCHANGED <<out, tmp, children>>
    BY <1>6, <2>1 DEF Types, StartBuild, SlotIsFree, Goto, env
  <2>2. CASE /\ toolchain # Unavailable
             /\ out' = [out EXCEPT ![t] = [src |-> request[t].src, tool |-> toolchain]]
             /\ tmp' = tmp \union {<<"dir", request[t].n>>}
             /\ children' = children \union {request[t].n}
             /\ Goto(t, "compiling")
    <3>1. [src |-> request[t].src, tool |-> toolchain] \in Artifacts /\ request[t].n \in Nat
      BY <1>6, <2>2 DEF Types, StartBuild, Artifacts, Requests
    <3> QED BY <1>6, <2>2, <3>1 DEF Types, StartBuild, SlotIsFree, Goto, env
  <2> QED BY <1>6, <2>1, <2>2 DEF StartBuild
<1>7. ASSUME NEW t \in Tasks, CompileEnds(t) PROVE Types'
  BY <1>7 DEF Types, CompileEnds, Goto, disk, env
<1>8. ASSUME NEW t \in Tasks, SignEnds(t) PROVE Types'
  <2>1. request[t].n \in Nat
    BY <1>8 DEF Types, SignEnds, Requests
  <2>2. tmp' \subseteq {"dir", "signed"} \X Nat
    <3>1. <<"signed", request[t].n>> \in {"dir", "signed"} \X Nat
      BY <2>1
    <3> QED BY <1>8, <3>1 DEF Types, SignEnds, RemoveDir
  <2> QED BY <1>8, <2>2 DEF Types, SignEnds, Goto, env
<1>9. ASSUME NEW t \in Tasks, BuildFails(t) PROVE Types'
  BY <1>9 DEF Types, BuildFails, RemoveDir, Goto, env
<1>10. ASSUME NEW t \in Tasks, PersistArtifact(t) PROVE Types'
  <2>1. Id(t) \in Ids /\ out[t] \in Artifacts
    BY <1>10 DEF Types, PersistArtifact, Requests
  <2>2. artifact' \in [Ids -> Artifacts \union {None}] /\ tmp' \subseteq tmp
    BY <1>10, <2>1 DEF Types, PersistArtifact
  <2>3. CASE Goto(t, "publishing") /\ UNCHANGED <<ctx, out, free>>
    BY <1>10, <2>2, <2>3 DEF Types, PersistArtifact, Goto, env
  <2>4. CASE Answer(t, "INTERNAL_ERROR")
    BY <1>10, <2>2, <2>4, ReleaseTypes DEF Types, PersistArtifact, Answer, Replies, env
  <2> QED BY <1>10, <2>3, <2>4 DEF PersistArtifact
<1>11. ASSUME NEW t \in Tasks, SaveReady(t) PROVE Types'
  <2>1. Id(t) \in Ids
    BY <1>11 DEF Types, SaveReady, Requests
  <2>2. ReadyMetadata(request[t], ctx[t]) \in Metadata /\ Link(request[t], ctx[t]) \in Links
    BY <1>11, SavedTypes DEF Types, SaveReady
  <2>3. meta' \in [Ids -> Metadata \union {None}] /\ issued' \subseteq Links
    BY <1>11, <2>1, <2>2 DEF Types, SaveReady
  <2>4. PICK code \in Replies : Answer(t, code)
    BY <1>11 DEF SaveReady, Replies
  <2> QED BY <1>11, <2>3, <2>4, ReleaseTypes DEF Types, SaveReady, Answer, env
<1>12. ASSUME NEW t \in Tasks, RemoveArtifact(t) PROVE Types'
  <2>1. artifact' \in [Ids -> Artifacts \union {None}]
    BY <1>12 DEF Types, RemoveArtifact
  <2> QED BY <1>12, <2>1 DEF Types, RemoveArtifact, Goto, env
<1>13. ASSUME NEW t \in Tasks, SaveFailed(t) PROVE Types'
  <2>1. Id(t) \in Ids
    BY <1>13 DEF Types, SaveFailed, Requests
  <2>2. FailedMetadata(request[t], ctx[t]) \in Metadata
    BY <1>13, SavedTypes DEF Types, SaveFailed
  <2>3. meta' \in [Ids -> Metadata \union {None}]
    BY <1>13, <2>1, <2>2 DEF Types, SaveFailed
  <2>4. PICK code \in Replies : Answer(t, code)
    BY <1>13 DEF SaveFailed, Replies
  <2> QED BY <1>13, <2>3, <2>4, ReleaseTypes DEF Types, SaveFailed, Answer, env
<1>14. ASSUME NEW t \in Tasks, LeaveQueue(t) PROVE Types'
  BY <1>14 DEF Types, LeaveQueue, disk, env
<1>15. ASSUME NEW t \in Tasks, LeaveBuild(t) PROVE Types'
  BY <1>15, ReleaseTypes DEF Types, LeaveBuild, RemoveDir, env
<1>16. ASSUME NEW n \in children, OrphanEnds(n) PROVE Types'
  BY <1>16 DEF Types, OrphanEnds, tasks, disk, env
<1>17. ASSUME Crash PROVE Types'
  BY <1>17, SlotAssumption DEF Types, Crash, disk, Replies
<1>18. ASSUME Tick PROVE Types'
  BY <1>18 DEF Types, Tick, tasks, disk
<1>19. ASSUME ChangeTools PROVE Types'
  BY <1>19 DEF Types, ChangeTools, tasks, disk
<1>20. ASSUME UNCHANGED vars PROVE Types'
  BY <1>20 DEF Types, vars, tasks, disk, env
<1> QED
  BY <1>1, <1>2, <1>3, <1>4, <1>5, <1>6, <1>7, <1>8, <1>9, <1>10, <1>11, <1>12, <1>13,
     <1>14, <1>15, <1>16, <1>17, <1>18, <1>19, <1>20
  DEF Next, TaskNext, Progress

-----------------------------------------------------------------------------
(* Build slots.                                                             *)

Holders == {t \in Tasks : pc[t] \in InSlot}

LEMMA HoldersFinite == IsFiniteSet(Holders) /\ Cardinality(Holders) \in Nat
BY TaskAssumption, FS_Subset, FS_CardinalityType DEF Holders

(* A step that moves nobody into or out of a slot.                           *)
LEMMA SameSlots ==
  ASSUME SlotsConserved, free' = free,
         \A t \in Tasks : pc'[t] \in InSlot <=> pc[t] \in InSlot
  PROVE  SlotsConserved'
<1>1. Holders' = Holders
  BY DEF Holders
<1> QED
  BY <1>1 DEF SlotsConserved, Holders

(* A step that ends a submission returns the permit it held, if any.         *)
LEMMA ReleaseSlots ==
  ASSUME Types, SlotsConserved, NEW t \in Tasks, pc[t] # "idle", Release(t)
  PROVE  SlotsConserved'
<1>1. CASE pc[t] \in InSlot
  <2>1. Holders' = Holders \ {t} /\ t \in Holders
    BY <1>1, ReleaseTypes DEF Holders
  <2>2. Cardinality(Holders') = Cardinality(Holders) - 1
    BY <2>1, HoldersFinite, FS_RemoveElement
  <2>3. free' = free + 1
    BY <1>1 DEF Release, FreeAfter
  <2> QED
    BY <2>2, <2>3, HoldersFinite, SlotAssumption DEF SlotsConserved, Holders, Types
<1>2. CASE pc[t] \notin InSlot
  <2>1. free' = free
    BY <1>2 DEF Release, FreeAfter
  <2>2. \A u \in Tasks : pc'[u] \in InSlot <=> pc[u] \in InSlot
    BY <1>2, ReleaseTypes
  <2> QED BY <2>1, <2>2, SameSlots
<1> QED BY <1>1, <1>2

LEMMA SlotsInit == Init => SlotsConserved
<1> SUFFICES ASSUME Init PROVE SlotsConserved
  OBVIOUS
<1>1. Holders = {}
  BY DEF Init, Holders
<1> QED
  BY <1>1, FS_EmptySet, SlotAssumption DEF Init, SlotsConserved, Holders

LEMMA SlotsNext == Types /\ SlotsConserved /\ [Next]_vars => SlotsConserved'
<1> SUFFICES ASSUME Types, SlotsConserved, [Next]_vars PROVE SlotsConserved'
  OBVIOUS
<1>1. ASSUME NEW t \in Tasks, pc[t] # "idle", Release(t) PROVE SlotsConserved'
  BY <1>1, ReleaseSlots
<1>2. ASSUME NEW t \in Tasks, NEW l \in Control,
             Goto(t, l), free' = free, l \in InSlot <=> pc[t] \in InSlot
      PROVE  SlotsConserved'
  BY <1>2, SameSlots DEF Goto, Types
<1>3. ASSUME NEW t \in Tasks, StartBuild(t) PROVE SlotsConserved'
  <2>1. Holders' = Holders \union {t} /\ t \notin Holders
    BY <1>3 DEF StartBuild, Goto, Holders, Types
  <2>2. Cardinality(Holders') = Cardinality(Holders) + 1
    BY <2>1, HoldersFinite, FS_AddElement
  <2>3. free' = free - 1
    BY <1>3 DEF StartBuild
  <2> QED
    BY <2>2, <2>3, HoldersFinite, SlotAssumption DEF SlotsConserved, Holders, Types
<1>4. ASSUME NEW t \in Tasks, NEW s \in Sources, NEW ttl \in Ttls, Submit(t, s, ttl)
      PROVE SlotsConserved'
  BY <1>4, SameSlots DEF Submit, Types
<1>5. ASSUME NEW t \in Tasks, Lock(t) PROVE SlotsConserved'
  BY <1>5, SameSlots DEF Lock, Types
<1>6. ASSUME NEW t \in Tasks, LeaveQueue(t) PROVE SlotsConserved'
  BY <1>6, SameSlots DEF LeaveQueue, Types
<1>7. ASSUME NEW t \in Tasks, LeaveBuild(t) PROVE SlotsConserved'
  BY <1>7, <1>1 DEF LeaveBuild
<1>8. ASSUME NEW t \in Tasks, Load(t) PROVE SlotsConserved'
  BY <1>8, <1>1, <1>2 DEF Load, Answer
<1>9. ASSUME NEW t \in Tasks, Probe(t) PROVE SlotsConserved'
  BY <1>9, <1>1, <1>2 DEF Probe, Answer
<1>10. ASSUME NEW t \in Tasks, Refuse(t) PROVE SlotsConserved'
  BY <1>10, <1>1 DEF Refuse, Answer
<1>11. ASSUME NEW t \in Tasks, CompileEnds(t) \/ SignEnds(t) \/ BuildFails(t) \/ RemoveArtifact(t)
       PROVE SlotsConserved'
  BY <1>11, <1>2 DEF CompileEnds, SignEnds, BuildFails, RemoveArtifact
<1>12. ASSUME NEW t \in Tasks, PersistArtifact(t) PROVE SlotsConserved'
  BY <1>12, <1>1, <1>2 DEF PersistArtifact, Answer
<1>13. ASSUME NEW t \in Tasks, SaveReady(t) \/ SaveFailed(t) PROVE SlotsConserved'
  BY <1>13, <1>1 DEF SaveReady, SaveFailed, Answer
<1>14. ASSUME Crash PROVE SlotsConserved'
  <2>1. Holders' = {}
    BY <1>14 DEF Crash, Holders
  <2>2. Cardinality(Holders') = 0
    BY <2>1, FS_EmptySet
  <2>3. free' = MaxConcurrency
    BY <1>14 DEF Crash
  <2> QED BY <2>2, <2>3, SlotAssumption DEF SlotsConserved, Holders
<1>15. ASSUME UNCHANGED <<pc, free>> PROVE SlotsConserved'
  BY <1>15, SameSlots
<1> QED
  BY <1>3, <1>4, <1>5, <1>6, <1>7, <1>8, <1>9, <1>10, <1>11, <1>12, <1>13, <1>14, <1>15
  DEF Next, TaskNext, Progress, OrphanEnds, Tick, ChangeTools, vars, tasks

(* Every variable keeps its type, free included: a permit is never returned  *)
(* twice and never taken when there is none.                                 *)
THEOREM TypeCorrect == Spec => []TypeOK
<1>1. Types /\ SlotsConserved => TypeOK
  BY HoldersFinite, SlotAssumption DEF Types, SlotsConserved, TypeOK, Holders
<1> QED BY <1>1, TypesInit, TypesNext, SlotsInit, SlotsNext, PTL DEF Spec

(* However submissions end (answers, errors, disconnects, crashes), every    *)
(* permit is either available or held by exactly one task.                   *)
THEOREM NoSlotLeaks == Spec => []SlotsConserved
BY TypesInit, TypesNext, SlotsInit, SlotsNext, PTL DEF Spec

-----------------------------------------------------------------------------
(* The per-build lock.                                                      *)

(* A task between decide and its answer holds the lock of its build.         *)
Locked == \A t \in Tasks : pc[t] \in InLock => holder[Id(t)] = t

LEMMA LockedExcludes == Types /\ Locked => MutualExclusion
BY DEF Types, Locked, MutualExclusion

(* What a step does to the tasks and the locks.                              *)
LEMMA Shapes ==
  ASSUME Types, [Next]_vars
  PROVE  \/ \E t \in Tasks : pc[t] \in InLock /\ Release(t)
         \/ \E t \in Tasks, l \in InLock : pc[t] \in InLock /\ Goto(t, l)
         \/ \E t \in Tasks, s \in Sources, ttl \in Ttls : Submit(t, s, ttl)
         \/ \E t \in Tasks : Lock(t)
         \/ \E t \in Tasks : LeaveQueue(t)
         \/ Crash
         \/ UNCHANGED <<pc, request, holder>>
<1>1. ASSUME NEW t \in Tasks, Progress(t)
      PROVE  \/ pc[t] \in InLock /\ Release(t)
             \/ \E l \in InLock : pc[t] \in InLock /\ Goto(t, l)
  BY <1>1
  DEF Progress, Load, Probe, Refuse, StartBuild, CompileEnds, SignEnds, BuildFails,
      PersistArtifact, SaveReady, RemoveArtifact, SaveFailed, Answer
<1>2. ASSUME NEW t \in Tasks, LeaveBuild(t) PROVE pc[t] \in InLock /\ Release(t)
  BY <1>2 DEF LeaveBuild
<1> QED
  BY <1>1, <1>2 DEF Next, TaskNext, OrphanEnds, Tick, ChangeTools, vars, tasks

LEMMA LockedInit == Init => Locked
BY DEF Init, Locked

LEMMA LockedNext == Types /\ Locked /\ [Next]_vars => Locked'
<1> SUFFICES ASSUME Types, Locked, [Next]_vars PROVE Locked'
  OBVIOUS
<1>1. ASSUME NEW t \in Tasks, pc[t] \in InLock, Release(t) PROVE Locked'
  <2>1. Id(t) \in Ids /\ holder' = [holder EXCEPT ![Id(t)] = None]
    BY <1>1, IdAssumption DEF Release, Unlock, Types, Requests
  <2>2. ASSUME NEW u \in Tasks, pc'[u] \in InLock PROVE holder'[Id(u)'] = u
    <3>1. u # t /\ pc'[u] = pc[u] /\ request'[u] = request[u]
      BY <1>1, <2>2, ReleaseTypes
    <3>2. holder[Id(u)] = u /\ holder[Id(t)] = t
      BY <1>1, <2>2, <3>1 DEF Locked
    <3> QED BY <2>1, <3>1, <3>2
  <2> QED BY <2>2 DEF Locked
<1>2. ASSUME NEW t \in Tasks, NEW l \in InLock, pc[t] \in InLock, Goto(t, l) PROVE Locked'
  BY <1>2 DEF Goto, Locked, Types
<1>3. ASSUME NEW t \in Tasks, NEW s \in Sources, NEW ttl \in Ttls, Submit(t, s, ttl)
      PROVE Locked'
  BY <1>3 DEF Submit, Locked, Types
<1>4. ASSUME NEW t \in Tasks, Lock(t) PROVE Locked'
  <2>1. Id(t) \in Ids
    BY <1>4, IdAssumption DEF Lock, Types, Requests
  <2>2. ASSUME NEW u \in Tasks, pc'[u] \in InLock PROVE holder'[Id(u)'] = u
    <3>1. CASE u = t
      BY <1>4, <2>1, <3>1 DEF Lock, Types
    <3>2. CASE u # t
      <4>1. pc[u] \in InLock /\ holder[Id(u)] = u
        BY <1>4, <2>2, <3>2 DEF Lock, Locked, Types
      <4>2. Id(u) # Id(t)
        BY <1>4, <4>1, TaskAssumption DEF Lock, CanLock
      <4> QED BY <1>4, <2>1, <4>1, <4>2 DEF Lock, Types
    <3> QED BY <3>1, <3>2
  <2> QED BY <2>2 DEF Locked
<1>5. ASSUME NEW t \in Tasks, LeaveQueue(t) PROVE Locked'
  BY <1>5 DEF LeaveQueue, Locked, Types
<1>6. ASSUME Crash PROVE Locked'
  BY <1>6 DEF Crash, Locked
<1>7. ASSUME UNCHANGED <<pc, request, holder>> PROVE Locked'
  BY <1>7 DEF Locked
<1> QED BY <1>1, <1>2, <1>3, <1>4, <1>5, <1>6, <1>7, Shapes

(* No two tasks decide, build or save for the same build at the same time.  *)
THEOREM OneTaskPerBuild == Spec => []MutualExclusion
BY TypesInit, TypesNext, LockedInit, LockedNext, LockedExcludes, PTL DEF Spec

-----------------------------------------------------------------------------
(* The private directories.                                                  *)

(* SourceIsCleanedUp, of numbers that are still to be drawn too.             *)
Tidy ==
  crashes = 0 => \A n \in Nat : <<"dir", n>> \in tmp =>
    \E t \in Tasks : pc[t] \in Building /\ request[t].n = n

LEMMA TidyInit == Init => Tidy
BY DEF Init, Tidy

(* A task that leaves its pipeline takes its directory with it.              *)
LEMMA TidyNext == Types /\ Tidy /\ [Next]_vars => Tidy'
<1> SUFFICES ASSUME Types, Tidy, [Next]_vars, crashes' = 0, NEW n \in Nat, <<"dir", n>> \in tmp'
             PROVE  \E t \in Tasks : pc'[t] \in Building /\ request'[t].n = n
  BY DEF Tidy
<1>1. crashes = 0
  <2>1. crashes' = crashes \/ crashes' = crashes + 1
    BY DEF Next, TaskNext, Progress, Submit, Lock, Load, Probe, Refuse, StartBuild,
           CompileEnds, SignEnds, BuildFails, PersistArtifact, SaveReady, RemoveArtifact,
           SaveFailed, LeaveQueue, LeaveBuild, OrphanEnds, Crash, Tick, ChangeTools, vars, env
  <2> QED BY <2>1 DEF Types
<1>2. ASSUME <<"dir", n>> \in tmp,
             \A u \in Tasks : pc[u] \in Building =>
               (pc'[u] \in Building /\ request'[u] = request[u]) \/ request[u].n # n
      PROVE  \E t \in Tasks : pc'[t] \in Building /\ request'[t].n = n
  <2>1. PICK t \in Tasks : pc[t] \in Building /\ request[t].n = n
    BY <1>1, <1>2 DEF Tidy
  <2> QED BY <1>2, <2>1
<1>3. ASSUME NEW t \in Tasks, SignEnds(t) \/ BuildFails(t) \/ LeaveBuild(t)
      PROVE  \E u \in Tasks : pc'[u] \in Building /\ request'[u].n = n
  <2>1. <<"dir", n>> \in tmp /\ request[t].n # n
    BY <1>3 DEF SignEnds, BuildFails, LeaveBuild, RemoveDir
  <2>2. \A u \in Tasks \ {t} : pc'[u] = pc[u] /\ request'[u] = request[u]
    BY <1>3 DEF SignEnds, BuildFails, LeaveBuild, Goto, Release, Types
  <2> QED BY <1>2, <2>1, <2>2
<1>4. ASSUME NEW t \in Tasks, StartBuild(t)
      PROVE  \E u \in Tasks : pc'[u] \in Building /\ request'[u].n = n
  <2>1. /\ \A u \in Tasks \ {t} : pc'[u] = pc[u] /\ request'[u] = request[u]
        /\ pc[t] \notin Building
    BY <1>4 DEF StartBuild, Goto, Types
  <2>2. \/ <<"dir", n>> \in tmp
        \/ n = request[t].n /\ pc'[t] = "compiling" /\ request'[t] = request[t]
    BY <1>4 DEF StartBuild, Goto, Types
  <2> QED BY <1>2, <2>1, <2>2
<1>5. CASE UNCHANGED tmp /\ \A u \in Tasks : pc[u] \in Building =>
             pc'[u] \in Building /\ request'[u] = request[u]
  BY <1>2, <1>5
<1>6. ASSUME NEW t \in Tasks, TaskNext(t), ~SignEnds(t), ~BuildFails(t), ~LeaveBuild(t),
             ~StartBuild(t)
      PROVE  \E u \in Tasks : pc'[u] \in Building /\ request'[u].n = n
  <2>1. <<"dir", n>> \in tmp
    BY <1>6
    DEF TaskNext, Progress, Submit, Lock, Load, Probe, Refuse, CompileEnds, PersistArtifact,
        SaveReady, RemoveArtifact, SaveFailed, LeaveQueue, disk
  <2>2. \A u \in Tasks : pc[u] \in Building => pc'[u] \in Building /\ request'[u] = request[u]
    <3>1. CASE CompileEnds(t)
      BY <3>1 DEF CompileEnds, Goto, Types
    <3>2. CASE Lock(t) \/ LeaveQueue(t) \/ \E s \in Sources, ttl \in Ttls : Submit(t, s, ttl)
      BY <3>2 DEF Lock, LeaveQueue, Submit, Types
    <3>3. CASE Progress(t) /\ ~CompileEnds(t)
      BY <1>6, <3>3
      DEF Progress, Load, Probe, Refuse, PersistArtifact, SaveReady, RemoveArtifact,
          SaveFailed, Answer, Goto, Release, Types
    <3> QED BY <1>6, <3>1, <3>2, <3>3 DEF TaskNext
  <2> QED BY <1>2, <2>1, <2>2
<1>7. ~Crash
  BY DEF Crash, Types
<1> QED
  BY <1>3, <1>4, <1>5, <1>6, <1>7
  DEF Next, OrphanEnds, Tick, ChangeTools, vars, tasks, disk

(* However an attempt ends, its directory with the source is removed with it, *)
(* as long as the server does not die.                                       *)
THEOREM SourcesAreCleanedUp == Spec => []SourceIsCleanedUp
<1>1. Types /\ Tidy => SourceIsCleanedUp
  BY DEF Types, Tidy, SourceIsCleanedUp
<1> QED BY <1>1, TypesInit, TypesNext, TidyInit, TidyNext, PTL DEF Spec

=============================================================================
