------------------------- MODULE BuildRecords_proofs -------------------------
(***************************************************************************)
(* Theorems about the files of a build: what a submission may assume when  *)
(* it saves, what becomes of links, and the refinement of BuildRegistry.   *)
(***************************************************************************)
EXTENDS BuildLifecycle_proofs

USE DEF Building, InSlot, InLock, Control, Id

-----------------------------------------------------------------------------
(* Who changes which file.                                                  *)

(* The metadata of a build changes only when a task saves it.               *)
LEMMA MetaChanges ==
  ASSUME Types, [Next]_vars
  PROVE  \/ meta' = meta
         \/ \E t \in Tasks :
              /\ pc[t] \in {"renewing", "publishing", "recording"}
              /\ Release(t)
              /\ \E m \in {ReadyMetadata(request[t], ctx[t]), FailedMetadata(request[t], ctx[t])} :
                   /\ meta' = [meta EXCEPT ![Id(t)] = m]
                   /\ pc[t] = "recording" => m = FailedMetadata(request[t], ctx[t])
              /\ UNCHANGED <<artifact, now>>
BY DEF Next, TaskNext, Progress, Submit, Lock, Load, Probe, Refuse, StartBuild, CompileEnds,
       SignEnds, BuildFails, PersistArtifact, SaveReady, RemoveArtifact, SaveFailed,
       LeaveQueue, LeaveBuild, OrphanEnds, Crash, Tick, ChangeTools, Answer, vars, disk, env

(* The record a task has made is one that the step has not touched, except   *)
(* in decide itself.                                                         *)
LEMMA CtxChanges ==
  ASSUME Types, [Next]_vars, NEW t \in Tasks, pc'[t] \in InLock \ {"loading"}
  PROVE  /\ request'[t] = request[t] /\ pc[t] \in InLock
         /\ \/ pc[t] # "loading" /\ ctx'[t].existing = ctx[t].existing
               /\ ctx'[t].now = ctx[t].now /\ ctx'[t].expires_at = ctx[t].expires_at
            \/ /\ pc[t] = "loading" /\ ~Collides(meta[Id(t)], request[t].src)
               /\ ctx'[t] = [existing |-> meta[Id(t)], now |-> now,
                             expires_at |-> now + request[t].ttl, toolchain |-> None]
<1>1. ASSUME NEW u \in Tasks, Release(u), pc[u] \in InLock
      PROVE  u # t /\ UNCHANGED <<request[t], ctx[t], pc[t]>>
  BY <1>1, ReleaseTypes
<1>2. ASSUME NEW u \in Tasks, Progress(u), ~Release(u), u # t
      PROVE  UNCHANGED <<request[t], ctx[t], pc[t]>>
  BY <1>2
  DEF Types, Progress, Load, Probe, Refuse, StartBuild, CompileEnds, SignEnds, BuildFails,
      PersistArtifact, SaveReady, RemoveArtifact, SaveFailed, Answer, Goto
<1>3. CASE Progress(t) /\ ~Release(t)
  <2>1. CASE Load(t)
    BY <1>3, <2>1 DEF Types, Load, Answer, Goto
  <2>2. CASE Probe(t)
    BY <1>3, <2>2 DEF Types, Probe, Answer, Goto, Contexts
  <2>3. CASE ~Load(t) /\ ~Probe(t)
    <3>1. ctx' = ctx /\ request' = request /\ pc[t] \in InLock \ {"loading"}
      BY <1>3, <2>3
      DEF Progress, Refuse, StartBuild, CompileEnds, SignEnds, BuildFails,
          PersistArtifact, SaveReady, RemoveArtifact, SaveFailed, Answer, Goto
    <3> QED BY <3>1
  <2> QED BY <2>1, <2>2, <2>3
<1>4. CASE \E u \in Tasks : LeaveQueue(u) \/ Lock(u)
  BY <1>4 DEF LeaveQueue, Lock, Types
<1>5. CASE \E u \in Tasks, s \in Sources, ttl \in Ttls : Submit(u, s, ttl)
  BY <1>5 DEF Submit, Types
<1>6. CASE Crash
  BY <1>6 DEF Crash
<1>7. CASE UNCHANGED tasks
  BY <1>7 DEF tasks
<1>8. ASSUME NEW u \in Tasks, Progress(u) \/ LeaveBuild(u) PROVE pc[u] \in InLock
  BY <1>8
  DEF Progress, Load, Probe, Refuse, StartBuild, CompileEnds, SignEnds, BuildFails,
      PersistArtifact, SaveReady, RemoveArtifact, SaveFailed, LeaveBuild
<1>9. CASE \E u \in Tasks : Progress(u) \/ LeaveBuild(u)
  <2>1. PICK u \in Tasks : Progress(u) \/ LeaveBuild(u)
    BY <1>9
  <2>2. CASE Release(u)
    BY <1>1, <1>8, <2>1, <2>2
  <2>3. CASE ~Release(u)
    BY <1>2, <1>3, <2>1, <2>3 DEF LeaveBuild
  <2> QED BY <2>2, <2>3
<1> QED
  BY <1>4, <1>5, <1>6, <1>7, <1>9 DEF Next, TaskNext, OrphanEnds, Tick, ChangeTools, vars

-----------------------------------------------------------------------------
(* What a task has read.                                                    *)

(* After decide, the record of a task holds the metadata that is on disk, of *)
(* the source it works on, and the time it was decided at.                   *)
Current ==
  \A t \in Tasks : pc[t] \in InLock \ {"loading"} =>
    /\ ctx[t].existing = meta[Id(t)]
    /\ meta[Id(t)] # None => meta[Id(t)].src = request[t].src
    /\ ctx[t].now <= now
    /\ ctx[t].expires_at = ctx[t].now + request[t].ttl

LEMMA CurrentInit == Init => Current
BY DEF Init, Current

(* A step leaves what a task works on alone, unless it is the read of decide  *)
(* itself: only the holder of the lock writes.                               *)
LEMMA ReadChanges ==
  ASSUME Types, Locked, [Next]_vars, NEW t \in Tasks, pc'[t] \in InLock \ {"loading"}
  PROVE  /\ request'[t] = request[t] /\ pc[t] \in InLock
         /\ meta'[Id(t)] = meta[Id(t)]
         /\ \/ /\ pc[t] # "loading"
               /\ now <= now' /\ (ctx[t].now <= now => ctx[t].now <= now')
               /\ ctx'[t].existing = ctx[t].existing
               /\ ctx'[t].now = ctx[t].now /\ ctx'[t].expires_at = ctx[t].expires_at
            \/ /\ ctx'[t].existing = meta[Id(t)]
               /\ meta[Id(t)] # None => meta[Id(t)].src = request[t].src
               /\ ctx'[t].now <= now'
               /\ ctx'[t].expires_at = ctx'[t].now + request[t].ttl
<1>1. now \in Nat /\ now' \in Nat /\ now <= now'
  <2>1. now' = now \/ now' = now + 1
    BY DEF Next, TaskNext, Progress, Submit, Lock, Load, Probe, Refuse, StartBuild,
         CompileEnds, SignEnds, BuildFails, PersistArtifact, SaveReady, RemoveArtifact,
         SaveFailed, LeaveQueue, LeaveBuild, OrphanEnds, Crash, Tick, ChangeTools, vars, env
  <2> QED BY <2>1 DEF Types
<1>2. request'[t] = request[t] /\ pc[t] \in InLock
  BY CtxChanges
<1>3. meta'[Id(t)] = meta[Id(t)]
  <2>1. CASE meta' = meta
    BY <2>1
  <2>2. ASSUME NEW u \in Tasks, pc[u] \in InLock, Release(u), NEW m,
               meta' = [meta EXCEPT ![Id(u)] = m]
        PROVE  meta'[Id(t)] = meta[Id(t)]
    <3>1. u # t
      BY <2>2, ReleaseTypes
    <3>2. Id(u) # Id(t)
      BY <1>2, <2>2, <3>1 DEF Locked
    <3> QED BY <2>2, <3>2 DEF Types
  <2> QED BY <2>1, <2>2, MetaChanges
<1>4. CASE pc[t] # "loading" /\ ctx'[t].existing = ctx[t].existing
           /\ ctx'[t].now = ctx[t].now /\ ctx'[t].expires_at = ctx[t].expires_at
  <2>1. ctx[t].now \in Nat
    BY <1>2, <1>4 DEF Types, Contexts
  <2> QED BY <1>1, <1>2, <1>3, <1>4, <2>1
<1>5. CASE /\ ~Collides(meta[Id(t)], request[t].src)
           /\ ctx'[t] = [existing |-> meta[Id(t)], now |-> now,
                         expires_at |-> now + request[t].ttl, toolchain |-> None]
  BY <1>1, <1>2, <1>3, <1>5 DEF Collides, Types
<1> QED BY <1>4, <1>5, CtxChanges

LEMMA CurrentNext == Types /\ Locked /\ Current /\ [Next]_vars => Current'
<1> SUFFICES ASSUME Types, Locked, Current, [Next]_vars,
                    NEW t \in Tasks, pc'[t] \in InLock \ {"loading"}
             PROVE  /\ ctx'[t].existing = meta'[Id(t)']
                    /\ meta'[Id(t)'] # None => meta'[Id(t)'].src = request'[t].src
                    /\ ctx'[t].now <= now'
                    /\ ctx'[t].expires_at = ctx'[t].now + request'[t].ttl
  BY DEF Current
<1>1. Id(t)' = Id(t)
  BY ReadChanges
<1> QED BY <1>1, ReadChanges DEF Current

LEMMA CurrentInvariant == Spec => [](Types /\ Locked /\ Current)
BY TypesInit, TypesNext, LockedInit, LockedNext, CurrentInit, CurrentNext, PTL DEF Spec

(* Whatever time passes between decide and the answer, what a task has read  *)
(* of its build is what is on disk.                                          *)
THEOREM ReadsAreCurrent == Spec => []ContextIsCurrent
<1>1. Types /\ Locked /\ Current => ContextIsCurrent
  BY DEF Current, ContextIsCurrent
<1> QED BY <1>1, CurrentInvariant, PTL

(* No step gives a build another source or another created_at, although two  *)
(* sources may have the same id and a rebuild may last.                      *)
THEOREM IdentityNeverChanges == Spec => IdentityIsStable
<1> DEFINE Stable ==
      \A id \in Ids : meta[id] # None =>
        /\ meta'[id] # None
        /\ meta'[id].src = meta[id].src
        /\ meta'[id].created_at = meta[id].created_at
<1>1. Types /\ Locked /\ Current /\ [Next]_vars => Stable
  <2> SUFFICES ASSUME Types, Locked, Current, [Next]_vars, NEW id \in Ids, meta[id] # None
               PROVE  /\ meta'[id] # None
                      /\ meta'[id].src = meta[id].src
                      /\ meta'[id].created_at = meta[id].created_at
    OBVIOUS
  <2>1. CASE meta' = meta
    BY <2>1
  <2>2. ASSUME NEW t \in Tasks, pc[t] \in {"renewing", "publishing", "recording"},
               NEW m \in {ReadyMetadata(request[t], ctx[t]), FailedMetadata(request[t], ctx[t])},
               meta' = [meta EXCEPT ![Id(t)] = m], id = Id(t)
        PROVE  /\ meta'[id] # None
               /\ meta'[id].src = meta[id].src
               /\ meta'[id].created_at = meta[id].created_at
    <3>1. m \in Metadata
      BY <2>2, SavedTypes DEF Types
    <3>2. meta'[id] = m
      BY <2>2 DEF Types
    <3>3. ctx[t].existing = meta[id] /\ meta[id].src = request[t].src
      BY <2>2 DEF Current
    <3>4. m.src = request[t].src /\ m.created_at = CreatedAt(ctx[t])
      BY <2>2 DEF ReadyMetadata, FailedMetadata, BuildMetadata
    <3> QED BY <3>1, <3>2, <3>3, <3>4, NoneAssumption DEF CreatedAt
  <2>3. ASSUME NEW t \in Tasks, NEW m, meta' = [meta EXCEPT ![Id(t)] = m], id # Id(t)
        PROVE  meta'[id] = meta[id]
    BY <2>3 DEF Types
  <2> QED BY <2>1, <2>2, <2>3, MetaChanges
<1>2. Types /\ Locked /\ Current /\ [Next]_vars => [Stable]_vars
  BY <1>1
<1> QED BY <1>2, CurrentInvariant, PTL DEF Spec, IdentityIsStable

(* Links are lost only to expiry and to failed rebuilds.                    *)
THEOREM LinksAreKept == Spec => LinksSurvive
<1> DEFINE Kept ==
      \A l \in issued : Recorded(l) /\ ~Recorded(l)' =>
        l.expires_at <= now \/ meta'[IdOf[l.src]].status = "failed"
<1>1. Types /\ Locked /\ Current /\ [Next]_vars => Kept
  <2> SUFFICES ASSUME Types, Locked, Current, [Next]_vars,
                      NEW l \in issued, Recorded(l), ~Recorded(l)'
               PROVE  l.expires_at <= now \/ meta'[IdOf[l.src]].status = "failed"
    OBVIOUS
  <2> DEFINE tk == [hash |-> l.hash, expires_at |-> l.expires_at]
             id == IdOf[l.src]
  <2>1. meta' # meta
    BY DEF Recorded
  <2>2. PICK t \in Tasks :
          /\ pc[t] \in {"renewing", "publishing", "recording"}
          /\ \E m \in {ReadyMetadata(request[t], ctx[t]), FailedMetadata(request[t], ctx[t])} :
               meta' = [meta EXCEPT ![Id(t)] = m]
    BY <2>1, MetaChanges
  <2> PICK m \in {ReadyMetadata(request[t], ctx[t]), FailedMetadata(request[t], ctx[t])} :
          meta' = [meta EXCEPT ![Id(t)] = m]
    BY <2>2
  <2>3. id \in Ids /\ l.expires_at \in Nat
    BY IdAssumption DEF Types, Links
  <2>4. id = Id(t) /\ meta'[id] = m
    BY <2>2, <2>3 DEF Recorded, Types
  <2>5. CASE m = FailedMetadata(request[t], ctx[t])
    BY <2>4, <2>5 DEF FailedMetadata, BuildMetadata
  <2>6. CASE m = ReadyMetadata(request[t], ctx[t])
    <3>1. m \in Metadata /\ m # None
      BY <2>2, SavedTypes, NoneAssumption DEF Types
    <3>2. tk \notin m.tokens
      BY <2>4, <3>1 DEF Recorded
    <3>3. tk \notin PrunedDownloadTokens(ctx[t])
      BY <2>6, <3>2 DEF ReadyMetadata, BuildMetadata
    <3>4. ctx[t].existing = meta[id] /\ ctx[t].now <= now /\ ctx[t].now \in Nat /\ now \in Nat
      BY <2>2, <2>4 DEF Current, Types, Contexts
    <3>5. meta[id] # None /\ tk \in meta[id].tokens
      BY DEF Recorded
    <3>6. ~(tk.expires_at > ctx[t].now)
      BY <3>3, <3>4, <3>5 DEF PrunedDownloadTokens, PruneTokens
    <3> QED BY <2>3, <3>4, <3>6
  <2> QED BY <2>2, <2>5, <2>6
<1>2. Types /\ Locked /\ Current /\ [Next]_vars => [Kept]_vars
  BY <1>1
<1> QED BY <1>2, CurrentInvariant, PTL DEF Spec, LinksSurvive

-----------------------------------------------------------------------------
(* Fresh links.                                                             *)

Active(t) == pc[t] # "idle"

(* The token of a submission in progress is not one that was ever recorded   *)
(* or handed out.                                                            *)
Fresh ==
  /\ requests <= MaxRequests
  /\ \A t \in Tasks : Active(t) => request[t].n \in 1..requests
  /\ \A t, u \in Tasks : Active(t) /\ Active(u) /\ t # u => request[t].n # request[u].n
  /\ \A id \in Ids : meta[id] # None => \A tk \in meta[id].tokens :
       tk.hash <= requests /\ \A t \in Tasks : Active(t) => request[t].n # tk.hash
  /\ \A l \in issued :
       l.hash <= requests /\ \A t \in Tasks : Active(t) => request[t].n # l.hash

LEMMA FreshInit == Init => Fresh
BY BoundAssumption DEF Init, Fresh, Active

(* A submission in progress keeps its number; a new one takes the next.      *)
LEMMA NumberChanges ==
  ASSUME Types, [Next]_vars
  PROVE  \/ /\ requests' = requests
            /\ \A t \in Tasks : Active(t)' => Active(t) /\ request'[t] = request[t]
         \/ /\ requests' = requests + 1 /\ requests < MaxRequests
            /\ UNCHANGED <<meta, issued>>
            /\ \E t \in Tasks :
                 /\ request'[t].n = requests + 1
                 /\ \A u \in Tasks \ {t} : Active(u)' => Active(u) /\ request'[u] = request[u]
<1>1. CASE \E t \in Tasks, s \in Sources, ttl \in Ttls : Submit(t, s, ttl)
  BY <1>1 DEF Submit, Types, Active, disk
<1>2. CASE ~\E t \in Tasks, s \in Sources, ttl \in Ttls : Submit(t, s, ttl)
  <2>1. requests' = requests
    BY <1>2 DEF Next, TaskNext, Progress, Lock, Load, Probe, Refuse, StartBuild,
         CompileEnds, SignEnds, BuildFails, PersistArtifact, SaveReady, RemoveArtifact,
         SaveFailed, LeaveQueue, LeaveBuild, OrphanEnds, Crash, Tick, ChangeTools, vars, env
  <2>2. ASSUME NEW t \in Tasks, pc[t] \in InLock, Release(t), NEW u \in Tasks, Active(u)'
        PROVE  Active(u) /\ request'[u] = request[u]
    BY <2>2, ReleaseTypes DEF Active
  <2>3. ASSUME NEW t \in Tasks, NEW l \in InLock, pc[t] \in InLock, Goto(t, l),
               NEW u \in Tasks, Active(u)'
        PROVE  Active(u) /\ request'[u] = request[u]
    BY <2>3 DEF Goto, Active, Types
  <2>4. ASSUME NEW t \in Tasks, Lock(t) \/ LeaveQueue(t), NEW u \in Tasks, Active(u)'
        PROVE  Active(u) /\ request'[u] = request[u]
    BY <2>4 DEF Lock, LeaveQueue, Active, Types
  <2>5. ASSUME Crash \/ UNCHANGED <<pc, request, holder>>, NEW u \in Tasks, Active(u)'
        PROVE  Active(u) /\ request'[u] = request[u]
    BY <2>5 DEF Crash, Active
  <2> QED BY <1>2, <2>1, <2>2, <2>3, <2>4, <2>5, Shapes
<1> QED BY <1>1, <1>2

(* The tokens a task saves were recorded already, but for the one it draws.  *)
LEMMA SavedTokens ==
  ASSUME Types, Current, NEW t \in Tasks, pc[t] \in {"renewing", "publishing", "recording"},
         NEW m \in {ReadyMetadata(request[t], ctx[t]), FailedMetadata(request[t], ctx[t])},
         NEW tk \in m.tokens
  PROVE  \/ meta[Id(t)] # None /\ tk \in meta[Id(t)].tokens
         \/ tk.hash = request[t].n
<1>1. ctx[t].existing = meta[Id(t)]
  BY DEF Current
<1>2. tk \in PrunedDownloadTokens(ctx[t]) \/ tk = NewToken(request[t], ctx[t])
  BY DEF ReadyMetadata, FailedMetadata, BuildMetadata
<1> QED BY <1>1, <1>2 DEF PrunedDownloadTokens, PruneTokens, NewToken

(* A link is handed out only for the token of the submission that ends.      *)
LEMMA IssuedChanges ==
  ASSUME [Next]_vars
  PROVE  \/ issued' = issued
         \/ \E t \in Tasks : /\ pc[t] \in {"renewing", "publishing"} /\ Release(t)
                              /\ issued' = issued \union {Link(request[t], ctx[t])}
BY DEF Next, TaskNext, Progress, Submit, Lock, Load, Probe, Refuse, StartBuild, CompileEnds,
       SignEnds, BuildFails, PersistArtifact, SaveReady, RemoveArtifact, SaveFailed,
       LeaveQueue, LeaveBuild, OrphanEnds, Crash, Tick, ChangeTools, Answer, vars

LEMMA FreshNext == Types /\ Current /\ Fresh /\ [Next]_vars => Fresh'
<1> SUFFICES ASSUME Types, Current, Fresh, [Next]_vars PROVE Fresh'
  OBVIOUS
<1>0. \A t \in Tasks : Active(t) => request[t].n \in Nat
  BY DEF Types, Active, Requests
<1>1. CASE /\ requests' = requests + 1 /\ requests < MaxRequests
           /\ UNCHANGED <<meta, issued>>
           /\ \E t \in Tasks :
                /\ request'[t].n = requests + 1
                /\ \A u \in Tasks \ {t} : Active(u)' => Active(u) /\ request'[u] = request[u]
  <2>1. PICK t \in Tasks :
          /\ request'[t].n = requests + 1
          /\ \A u \in Tasks \ {t} : Active(u)' => Active(u) /\ request'[u] = request[u]
    BY <1>1
  <2>2. requests' \in Nat /\ requests \in Nat /\ requests' <= MaxRequests
    BY <1>1, BoundAssumption DEF Types
  <2>3. \A u \in Tasks : Active(u)' => request'[u].n \in 1..requests'
    BY <1>1, <2>1, <2>2 DEF Fresh
  <2>4. \A u, v \in Tasks : Active(u)' /\ Active(v)' /\ u # v => request'[u].n # request'[v].n
    BY <1>1, <2>1, <2>2 DEF Fresh
  <2>5. \A id \in Ids : meta'[id] # None => \A tk \in meta'[id].tokens :
          tk.hash <= requests' /\ \A u \in Tasks : Active(u)' => request'[u].n # tk.hash
    <3>1. \A id \in Ids : meta[id] # None => \A tk \in meta[id].tokens : tk.hash \in Nat
      BY DEF Types, Metadata, Tokens
    <3> QED BY <1>1, <2>1, <2>2, <3>1 DEF Fresh
  <2>6. \A l \in issued' :
          l.hash <= requests' /\ \A u \in Tasks : Active(u)' => request'[u].n # l.hash
    <3>1. \A l \in issued : l.hash \in Nat
      BY DEF Types, Links
    <3> QED BY <1>1, <2>1, <2>2, <3>1 DEF Fresh
  <2> QED BY <2>2, <2>3, <2>4, <2>5, <2>6 DEF Fresh
<1>2. CASE /\ requests' = requests
           /\ \A t \in Tasks : Active(t)' => Active(t) /\ request'[t] = request[t]
  <2>1. /\ requests' <= MaxRequests
        /\ \A t \in Tasks : Active(t)' => request'[t].n \in 1..requests'
        /\ \A t, u \in Tasks : Active(t)' /\ Active(u)' /\ t # u => request'[t].n # request'[u].n
    BY <1>2 DEF Fresh
  <2>2. ASSUME NEW id \in Ids, meta'[id] # None, NEW tk \in meta'[id].tokens
        PROVE  tk.hash <= requests' /\ \A u \in Tasks : Active(u)' => request'[u].n # tk.hash
    <3>1. CASE meta'[id] = meta[id]
      BY <1>2, <2>2, <3>1 DEF Fresh
    <3>2. CASE meta'[id] # meta[id]
      <4>1. PICK t \in Tasks :
              /\ pc[t] \in {"renewing", "publishing", "recording"} /\ Release(t)
              /\ \E m \in {ReadyMetadata(request[t], ctx[t]), FailedMetadata(request[t], ctx[t])} :
                   meta' = [meta EXCEPT ![Id(t)] = m]
        BY <3>2, MetaChanges
      <4>2. PICK m \in {ReadyMetadata(request[t], ctx[t]), FailedMetadata(request[t], ctx[t])} :
              meta' = [meta EXCEPT ![Id(t)] = m]
        BY <4>1
      <4>3. id = Id(t) /\ meta'[id] = m
        BY <3>2, <4>2 DEF Types
      <4>4. CASE meta[id] # None /\ tk \in meta[id].tokens
        BY <1>2, <4>4 DEF Fresh
      <4>5. CASE tk.hash = request[t].n
        <5>1. ~Active(t)' /\ Active(t)
          BY <4>1, ReleaseTypes DEF Active
        <5> QED BY <1>0, <1>2, <4>5, <5>1 DEF Fresh, Types
      <4> QED BY <2>2, <4>1, <4>3, <4>4, <4>5, SavedTokens
    <3> QED BY <3>1, <3>2
  <2>3. ASSUME NEW l \in issued'
        PROVE  l.hash <= requests' /\ \A u \in Tasks : Active(u)' => request'[u].n # l.hash
    <3>1. CASE l \in issued
      BY <1>2, <3>1 DEF Fresh
    <3>2. CASE l \notin issued
      <4>1. PICK t \in Tasks : /\ pc[t] \in {"renewing", "publishing"} /\ Release(t)
                               /\ l = Link(request[t], ctx[t])
        BY <2>3, <3>2, IssuedChanges
      <4>2. ~Active(t)' /\ Active(t) /\ l.hash = request[t].n
        BY <4>1, ReleaseTypes DEF Active, Link
      <4> QED BY <1>0, <1>2, <4>2 DEF Fresh, Types
    <3> QED BY <3>1, <3>2
  <2> QED BY <2>1, <2>2, <2>3 DEF Fresh
<1> QED BY <1>1, <1>2, NumberChanges

LEMMA FreshInvariant == Spec => [](Types /\ Locked /\ Current /\ Fresh)
BY TypesInit, TypesNext, LockedInit, LockedNext, CurrentInit, CurrentNext,
   FreshInit, FreshNext, PTL DEF Spec

(* No step records a link again: what a task saves it has just read, and the    *)
(* token it adds is a fresh one.                                             *)
LEMMA NoRevival ==
  Types /\ Locked /\ Current /\ Fresh /\ [Next]_vars
    => \A l \in issued : ~Recorded(l) => ~Recorded(l)'
<1> SUFFICES ASSUME Types, Locked, Current, Fresh, [Next]_vars,
                    NEW l \in issued, ~Recorded(l), Recorded(l)'
             PROVE  FALSE
  OBVIOUS
<1> DEFINE tk == [hash |-> l.hash, expires_at |-> l.expires_at]
           id == IdOf[l.src]
<1>1. id \in Ids
  BY IdAssumption DEF Types, Links
<1>2. meta'[id] # None /\ tk \in meta'[id].tokens /\ meta'[id] # meta[id]
  BY DEF Recorded
<1>3. PICK t \in Tasks :
        /\ pc[t] \in {"renewing", "publishing", "recording"}
        /\ \E m \in {ReadyMetadata(request[t], ctx[t]), FailedMetadata(request[t], ctx[t])} :
             meta' = [meta EXCEPT ![Id(t)] = m]
  BY <1>2, MetaChanges
<1>4. PICK m \in {ReadyMetadata(request[t], ctx[t]), FailedMetadata(request[t], ctx[t])} :
        meta' = [meta EXCEPT ![Id(t)] = m]
  BY <1>3
<1>5. id = Id(t) /\ meta'[id] = m
  BY <1>1, <1>2, <1>4 DEF Types
<1>6. (meta[id] # None /\ tk \in meta[id].tokens) \/ l.hash = request[t].n
  BY <1>2, <1>3, <1>5, SavedTokens
<1>7. l.hash # request[t].n
  BY <1>3 DEF Fresh, Active
<1> QED BY <1>6, <1>7 DEF Recorded

(* A link that was revoked by a failed rebuild never comes back.             *)
THEOREM RevocationIsFinal == Spec => RevokedStaysRevoked
<1>1. Types /\ Locked /\ Current /\ Fresh /\ [Next]_vars
        => [\A l \in issued : ~Recorded(l) => ~Recorded(l)']_vars
  BY NoRevival
<1> QED BY <1>1, FreshInvariant, PTL DEF Spec, RevokedStaysRevoked

-----------------------------------------------------------------------------
(* Whose file a build offers.                                               *)

(* Along its pipeline a task carries the output of its own source, and when *)
(* it saves a ready build the file of that source is in place.              *)
Owned ==
  /\ ArtifactIsOwn
  /\ \A id \in Ids : meta[id] # None => IdOf[meta[id].src] = id
  /\ \A t \in Tasks :
       /\ pc[t] \in Building \union {"persisting"} => out[t].src = request[t].src
       /\ pc[t] \in {"renewing", "publishing"} =>
            artifact[Id(t)] # None /\ artifact[Id(t)].src = request[t].src

LEMMA OwnedInit == Init => Owned
BY DEF Init, Owned, ArtifactIsOwn

(* The file of a build changes only when a task puts or removes it.          *)
LEMMA FileChanges ==
  ASSUME Types, [Next]_vars
  PROVE  \/ artifact' = artifact
         \/ \E t \in Tasks :
              /\ UNCHANGED <<meta, now>>
              /\ \/ pc[t] = "persisting" /\ artifact' = [artifact EXCEPT ![Id(t)] = out[t]]
                 \/ pc[t] = "failing" /\ artifact' = [artifact EXCEPT ![Id(t)] = None]
              /\ pc' = [pc EXCEPT ![t] = pc'[t]]
              /\ pc'[t] \in {"publishing", "idle", "recording"}
              /\ pc'[t] = "publishing" => artifact' = [artifact EXCEPT ![Id(t)] = out[t]]
                                          /\ pc[t] = "persisting"
              /\ request'[t] = request[t] \/ pc'[t] = "idle"
              /\ \A u \in Tasks \ {t} : request'[u] = request[u]
<1>1. ASSUME NEW t \in Tasks, PersistArtifact(t) \/ RemoveArtifact(t), artifact' # artifact
      PROVE  /\ UNCHANGED <<meta, now>>
             /\ \/ pc[t] = "persisting" /\ artifact' = [artifact EXCEPT ![Id(t)] = out[t]]
                \/ pc[t] = "failing" /\ artifact' = [artifact EXCEPT ![Id(t)] = None]
             /\ pc' = [pc EXCEPT ![t] = pc'[t]]
             /\ pc'[t] \in {"publishing", "idle", "recording"}
             /\ pc'[t] = "publishing" => artifact' = [artifact EXCEPT ![Id(t)] = out[t]]
                                         /\ pc[t] = "persisting"
             /\ request'[t] = request[t] \/ pc'[t] = "idle"
             /\ \A u \in Tasks \ {t} : request'[u] = request[u]
  <2>1. CASE RemoveArtifact(t)
    BY <1>1, <2>1 DEF RemoveArtifact, Goto, Types, env
  <2>2. CASE PersistArtifact(t)
    BY <1>1, <2>2 DEF PersistArtifact, Goto, Answer, Release, Types, env
  <2> QED BY <1>1, <2>1, <2>2
<1>2. CASE \A t \in Tasks : ~PersistArtifact(t) /\ ~RemoveArtifact(t)
  BY <1>2
  DEF Next, TaskNext, Progress, Submit, Lock, Load, Probe, Refuse, StartBuild, CompileEnds,
      SignEnds, BuildFails, SaveReady, SaveFailed, LeaveQueue, LeaveBuild, OrphanEnds, Crash,
      Tick, ChangeTools, vars, disk
<1> QED BY <1>1, <1>2

(* How a task gets to the control points Owned speaks of.                    *)
LEMMA PipelineChanges ==
  ASSUME Types, [Next]_vars, NEW t \in Tasks
  PROVE  /\ pc'[t] \in Building \union {"persisting"} =>
              /\ request'[t] = request[t]
              /\ \/ pc[t] \in Building \union {"persisting"} /\ out'[t] = out[t]
                 \/ out'[t] = [src |-> request[t].src, tool |-> toolchain]
         /\ pc'[t] \in {"renewing", "publishing"} =>
              /\ request'[t] = request[t]
              /\ \/ pc[t] = pc'[t]
                 \/ pc[t] = "persisting" /\ PersistArtifact(t)
                 \/ pc[t] = "probing" /\ meta[Id(t)] = meta'[Id(t)] /\ artifact' = artifact
                    /\ artifact[Id(t)] # None
                    /\ ctx[t].existing # None /\ ctx[t].existing.status = "ready"
         /\ pc'[t] = "probing" => pc[t] \in {"loading", "probing"}
<1>1. ASSUME NEW u \in Tasks, Release(u), pc[u] \in InLock
      PROVE  pc'[t] = "idle" \/ UNCHANGED <<request[t], out[t], pc[t]>>
  BY <1>1, ReleaseTypes
<1>2. ASSUME NEW u \in Tasks, Progress(u), ~Release(u), u # t
      PROVE  UNCHANGED <<request[t], out[t], pc[t]>>
  BY <1>2
  DEF Types, Progress, Load, Probe, Refuse, StartBuild, CompileEnds, SignEnds, BuildFails,
      PersistArtifact, SaveReady, RemoveArtifact, SaveFailed, Answer, Goto
<1>3. CASE Progress(t) /\ ~Release(t)
  <2>1. CASE Load(t) \/ RemoveArtifact(t) \/ BuildFails(t)
    BY <1>3, <2>1 DEF Types, Load, RemoveArtifact, BuildFails, Answer, Goto
  <2>2. CASE Probe(t)
    <3>1. RequiresRebuild([ctx[t] EXCEPT !.toolchain = toolchain], artifact[Id(t)])
            <=> pc'[t] = "acquiring"
      BY <1>3, <2>2 DEF Types, Probe, Answer, Goto
    <3>2. ctx[t] \in Contexts
      BY <2>2 DEF Probe, Types
    <3> QED BY <1>3, <2>2, <3>1, <3>2
            DEF Types, Probe, Answer, Goto, RequiresRebuild, Contexts, disk
  <2>3. CASE StartBuild(t)
    BY <2>3 DEF Types, StartBuild, Goto
  <2>4. CASE CompileEnds(t) \/ SignEnds(t)
    BY <2>4 DEF Types, CompileEnds, SignEnds, Goto
  <2>5. CASE PersistArtifact(t)
    BY <1>3, <2>5 DEF Types, PersistArtifact, Answer, Goto
  <2> QED BY <1>3, <2>1, <2>2, <2>3, <2>4, <2>5 DEF Progress, Refuse, SaveReady, SaveFailed, Answer
<1>4. CASE \E u \in Tasks : LeaveQueue(u) \/ Lock(u)
  BY <1>4 DEF LeaveQueue, Lock, Types
<1>5. CASE \E u \in Tasks, s \in Sources, ttl \in Ttls : Submit(u, s, ttl)
  BY <1>5 DEF Submit, Types
<1>6. CASE Crash
  BY <1>6 DEF Crash
<1>7. CASE UNCHANGED tasks
  BY <1>7 DEF tasks
<1>8. ASSUME NEW u \in Tasks, Progress(u) \/ LeaveBuild(u) PROVE pc[u] \in InLock
  BY <1>8
  DEF Progress, Load, Probe, Refuse, StartBuild, CompileEnds, SignEnds, BuildFails,
      PersistArtifact, SaveReady, RemoveArtifact, SaveFailed, LeaveBuild
<1>9. CASE \E u \in Tasks : Progress(u) \/ LeaveBuild(u)
  <2>1. PICK u \in Tasks : Progress(u) \/ LeaveBuild(u)
    BY <1>9
  <2>2. CASE Release(u)
    BY <1>1, <1>8, <2>1, <2>2
  <2>3. CASE ~Release(u)
    BY <1>2, <1>3, <2>1, <2>3 DEF LeaveBuild
  <2> QED BY <2>2, <2>3
<1> QED
  BY <1>4, <1>5, <1>6, <1>7, <1>9 DEF Next, TaskNext, OrphanEnds, Tick, ChangeTools, vars

LEMMA OwnedNext == Types /\ Locked /\ Current /\ Owned /\ [Next]_vars => Owned'
<1> SUFFICES ASSUME Types, Locked, Current, Owned, [Next]_vars PROVE Owned'
  OBVIOUS
<1>0. \A t \in Tasks : pc[t] \in InLock => Id(t) \in Ids
  BY IdAssumption DEF Types, Requests
<1>1. ASSUME NEW id \in Ids, meta'[id] # None, meta'[id].status = "ready", artifact'[id] # None
      PROVE  artifact'[id].src = meta'[id].src
  <2>1. CASE meta' = meta /\ artifact' = artifact
    BY <1>1, <2>1 DEF Owned, ArtifactIsOwn
  <2>2. CASE meta' # meta
    <3>1. PICK t \in Tasks :
            /\ pc[t] \in {"renewing", "publishing", "recording"}
            /\ \E m \in {ReadyMetadata(request[t], ctx[t]), FailedMetadata(request[t], ctx[t])} :
                 /\ meta' = [meta EXCEPT ![Id(t)] = m]
                 /\ pc[t] = "recording" => m = FailedMetadata(request[t], ctx[t])
            /\ artifact' = artifact
      BY <2>2, MetaChanges
    <3>2. CASE id # Id(t)
      BY <1>1, <3>1, <3>2 DEF Types, Owned, ArtifactIsOwn
    <3>3. CASE id = Id(t)
      <4>1. meta'[id] = ReadyMetadata(request[t], ctx[t]) /\ pc[t] # "recording"
        BY <1>1, <3>1, <3>3 DEF Types, FailedMetadata, BuildMetadata
      <4>2. meta'[id].src = request[t].src
        BY <4>1 DEF ReadyMetadata, BuildMetadata
      <4> QED BY <3>1, <3>3, <4>1, <4>2 DEF Owned
    <3> QED BY <3>2, <3>3
  <2>3. CASE artifact' # artifact
    <3>1. PICK t \in Tasks :
            /\ meta' = meta
            /\ \/ pc[t] = "persisting" /\ artifact' = [artifact EXCEPT ![Id(t)] = out[t]]
               \/ pc[t] = "failing" /\ artifact' = [artifact EXCEPT ![Id(t)] = None]
      BY <2>3, FileChanges
    <3>2. CASE id # Id(t)
      BY <1>1, <3>1, <3>2 DEF Types, Owned, ArtifactIsOwn
    <3>3. CASE id = Id(t)
      <4>1. pc[t] = "persisting" /\ artifact'[id] = out[t]
        BY <1>1, <3>1, <3>3 DEF Types
      <4>2. out[t].src = request[t].src /\ meta[id].src = request[t].src
        BY <1>1, <3>1, <3>3, <4>1 DEF Owned, Current
      <4> QED BY <3>1, <4>1, <4>2
    <3> QED BY <3>2, <3>3
  <2> QED BY <2>1, <2>2, <2>3
<1>2. ASSUME NEW id \in Ids, meta'[id] # None PROVE IdOf[meta'[id].src] = id
  <2>1. CASE meta'[id] = meta[id]
    BY <1>2, <2>1 DEF Owned
  <2>2. CASE meta'[id] # meta[id]
    <3>1. PICK t \in Tasks :
            /\ pc[t] \in {"renewing", "publishing", "recording"}
            /\ \E m \in {ReadyMetadata(request[t], ctx[t]), FailedMetadata(request[t], ctx[t])} :
                 meta' = [meta EXCEPT ![Id(t)] = m]
      BY <2>2, MetaChanges
    <3>2. id = Id(t) /\ meta'[id].src = request[t].src
      BY <2>2, <3>1 DEF Types, ReadyMetadata, FailedMetadata, BuildMetadata
    <3> QED BY <3>2
  <2> QED BY <2>1, <2>2
<1>3. ASSUME NEW t \in Tasks, pc'[t] \in Building \union {"persisting"}
      PROVE  out'[t].src = request'[t].src
  <2>1. request'[t] = request[t]
    BY <1>3, PipelineChanges
  <2>2. CASE pc[t] \in Building \union {"persisting"} /\ out'[t] = out[t]
    BY <2>1, <2>2 DEF Owned
  <2>3. CASE out'[t] = [src |-> request[t].src, tool |-> toolchain]
    BY <2>1, <2>3
  <2> QED BY <1>3, <2>2, <2>3, PipelineChanges
<1>4. ASSUME NEW t \in Tasks, pc'[t] \in {"renewing", "publishing"}
      PROVE  artifact'[Id(t)'] # None /\ artifact'[Id(t)'].src = request'[t].src
  <2>1. request'[t] = request[t]
    BY <1>4, PipelineChanges
  <2>2. CASE pc[t] = pc'[t]
    <3>1. artifact'[Id(t)] = artifact[Id(t)]
      <4>1. ASSUME NEW u \in Tasks, pc[u] \in {"persisting", "failing"}, NEW f,
                   artifact' = [artifact EXCEPT ![Id(u)] = f]
            PROVE  artifact'[Id(t)] = artifact[Id(t)]
        <5>1. Id(u) # Id(t)
          BY <1>4, <2>2, <4>1 DEF Locked
        <5> QED BY <4>1, <5>1 DEF Types
      <4> QED BY <4>1, FileChanges
    <3> QED BY <1>4, <2>1, <2>2, <3>1 DEF Owned
  <2>3. CASE pc[t] = "persisting" /\ PersistArtifact(t)
    <3>1. artifact' = [artifact EXCEPT ![Id(t)] = out[t]]
      BY <1>4, <2>3 DEF PersistArtifact, Answer, Release, Types
    <3>2. out[t] \in Artifacts /\ out[t].src = request[t].src
      BY <2>3 DEF Owned, Types
    <3> QED BY <1>0, <2>1, <2>3, <3>1, <3>2, NoneAssumption DEF Types
  <2>4. CASE pc[t] = "probing" /\ artifact' = artifact /\ artifact[Id(t)] # None
             /\ ctx[t].existing # None /\ ctx[t].existing.status = "ready"
    <3>1. meta[Id(t)] = ctx[t].existing /\ meta[Id(t)].src = request[t].src
      BY <2>4 DEF Current
    <3>2. artifact[Id(t)].src = meta[Id(t)].src
      BY <1>0, <2>4, <3>1 DEF Owned, ArtifactIsOwn
    <3> QED BY <2>1, <2>4, <3>1, <3>2
  <2> QED BY <1>4, <2>2, <2>3, <2>4, PipelineChanges
<1> QED BY <1>1, <1>2, <1>3, <1>4 DEF Owned, ArtifactIsOwn

LEMMA OwnedInvariant == Spec => [](Types /\ Locked /\ Current /\ Owned)
BY TypesInit, TypesNext, LockedInit, LockedNext, CurrentInit, CurrentNext,
   OwnedInit, OwnedNext, PTL DEF Spec

(* A ready build offers the signed output of its own source, whatever other *)
(* source has the same id.                                                  *)
THEOREM FilesAreOwn == Spec => []ArtifactIsOwn
<1>1. Owned => ArtifactIsOwn
  BY DEF Owned
<1> QED BY <1>1, OwnedInvariant, PTL

(* Only a saved ready build is answered with OK, and its file is in place.     *)
LEMMA OkStep ==
  Types /\ Locked /\ Current /\ Owned /\ [Next]_vars =>
    \A t \in Tasks : reply'[t] = "OK" /\ reply[t] # "OK" =>
     LET id == Id(t) IN
     /\ meta'[id] # None /\ meta'[id].status = "ready" /\ meta'[id].src = request[t].src
     /\ artifact'[id] # None /\ artifact'[id].src = request[t].src
     /\ \E l \in issued' : l.hash = request[t].n /\ l.src = request[t].src /\ Recorded(l)'
<1> SUFFICES ASSUME Types, Locked, Current, Owned, [Next]_vars,
                    NEW t \in Tasks, reply'[t] = "OK", reply[t] # "OK"
             PROVE
     /\ meta'[Id(t)] # None /\ meta'[Id(t)].status = "ready" /\ meta'[Id(t)].src = request[t].src
     /\ artifact'[Id(t)] # None /\ artifact'[Id(t)].src = request[t].src
     /\ \E l \in issued' : l.hash = request[t].n /\ l.src = request[t].src /\ Recorded(l)'
  OBVIOUS
<1>1. /\ pc[t] \in {"renewing", "publishing"}
      /\ meta' = [meta EXCEPT ![Id(t)] = ReadyMetadata(request[t], ctx[t])]
      /\ issued' = issued \union {Link(request[t], ctx[t])}
      /\ artifact' = artifact
  <2>1. ASSUME NEW u \in Tasks, TaskNext(u), u # t PROVE reply'[t] = reply[t]
    BY <2>1
    DEF Types, TaskNext, Progress, Submit, Lock, Load, Probe, Refuse, StartBuild,
        CompileEnds, SignEnds, BuildFails, PersistArtifact, SaveReady, RemoveArtifact,
        SaveFailed, LeaveQueue, LeaveBuild, Answer, Goto
  <2>2. TaskNext(t)
    BY <2>1 DEF Next, Crash, OrphanEnds, Tick, ChangeTools, vars, tasks
  <2>3. SaveReady(t)
    BY <2>2
    DEF Types, TaskNext, Progress, Submit, Lock, Load, Probe, Refuse, StartBuild,
        CompileEnds, SignEnds, BuildFails, PersistArtifact, RemoveArtifact,
        SaveFailed, LeaveQueue, LeaveBuild, Answer, Goto
  <2> QED BY <2>3 DEF SaveReady, Answer, Types
<1>2. Id(t) \in Ids
  BY <1>1, IdAssumption DEF Types, Requests
<1>3. meta'[Id(t)] = ReadyMetadata(request[t], ctx[t]) /\ meta'[Id(t)] \in Metadata
  BY <1>1, <1>2, SavedTypes DEF Types
<1>4. /\ meta'[Id(t)].status = "ready" /\ meta'[Id(t)].src = request[t].src
      /\ [hash |-> request[t].n, expires_at |-> ctx[t].expires_at] \in meta'[Id(t)].tokens
  BY <1>3 DEF ReadyMetadata, BuildMetadata, NewToken
<1>5. PICK l \in issued' : l = Link(request[t], ctx[t])
  BY <1>1
<1>6. l.hash = request[t].n /\ l.src = request[t].src /\ l.expires_at = ctx[t].expires_at
  BY <1>5 DEF Link
<1>7. Recorded(l)'
  BY <1>3, <1>4, <1>6, NoneAssumption DEF Recorded
<1> QED BY <1>1, <1>3, <1>4, <1>6, <1>7, NoneAssumption DEF Owned

(* A 200 is only given for a build that can be served at that moment.        *)
THEOREM OkIsKept == Spec => OkIsHonest
<1> DEFINE Honest ==
      \A t \in Tasks : reply'[t] = "OK" /\ reply[t] # "OK" =>
       LET id == Id(t) IN
       /\ meta'[id] # None /\ meta'[id].status = "ready" /\ meta'[id].src = request[t].src
       /\ artifact'[id] # None /\ artifact'[id].src = request[t].src
       /\ \E l \in issued' : l.hash = request[t].n /\ l.src = request[t].src /\ Recorded(l)'
<1>1. Types /\ Locked /\ Current /\ Owned /\ [Next]_vars => [Honest]_vars
  BY OkStep
<1> QED BY <1>1, OwnedInvariant, PTL DEF Spec, OkIsHonest

-----------------------------------------------------------------------------
(* The refinement of BuildRegistry.                                         *)

LEMMA TimeChanges ==
  ASSUME [Next]_vars
  PROVE  now' = now \/ (now' = now + 1 /\ UNCHANGED <<meta, artifact>>)
BY DEF Next, TaskNext, Progress, Submit, Lock, Load, Probe, Refuse, StartBuild, CompileEnds,
       SignEnds, BuildFails, PersistArtifact, SaveReady, RemoveArtifact, SaveFailed,
       LeaveQueue, LeaveBuild, OrphanEnds, Crash, Tick, ChangeTools, vars, env, disk

(* Saving a ready build is Issue, although the task read the build long ago. *)
LEMMA SaveIsIssue ==
  ASSUME Types, Current, Owned, Fresh,
         NEW t \in Tasks, pc[t] \in {"renewing", "publishing"},
         meta' = [meta EXCEPT ![Id(t)] = ReadyMetadata(request[t], ctx[t])],
         UNCHANGED <<artifact, now>>
  PROVE  Registry!Issue(Id(t))
<1> DEFINE r == request[t]
           c == ctx[t]
           id == Id(t)
<1>1. /\ r.src \in Sources /\ r.ttl \in Ttls /\ r.n \in 1..MaxRequests
      /\ c.toolchain \in Tools /\ c.now \in 0..now
  <2>1. r \in Requests /\ c \in Contexts /\ c.toolchain \in Tools
    BY DEF Types
  <2>2. r.n \in 1..requests /\ requests <= MaxRequests /\ requests \in Nat
    BY DEF Types, Fresh, Active
  <2>3. c.now <= now /\ c.now \in Nat /\ now \in Nat
    BY <2>1 DEF Types, Current, Contexts
  <2> QED BY <2>1, <2>2, <2>3, BoundAssumption DEF Requests
<1>2. /\ c.existing = meta[id] /\ c.expires_at = c.now + r.ttl
      /\ meta[id] # None => meta[id].src = r.src
  BY DEF Current
<1>3. Registry!Owns(id, r.src)
  BY <1>2 DEF Registry!Owns
<1>4. artifact[id] # None /\ artifact[id].src = r.src
  BY DEF Owned
<1>5. id \in Ids
  BY <1>1, IdAssumption
<1>6. \A tk \in Registry!OldTokens(id) : tk.hash # r.n
  BY <1>5 DEF Registry!OldTokens, Fresh, Active
<1>7. PrunedDownloadTokens(c) = {tk \in Registry!OldTokens(id) : tk.expires_at > c.now}
  BY <1>2 DEF PrunedDownloadTokens, PruneTokens, Registry!OldTokens
<1>8. ReadyMetadata(r, c) =
        Registry!Changed(id, r.src, "ready",
          {tk \in Registry!OldTokens(id) : tk.expires_at > c.now}
            \union {[hash |-> r.n, expires_at |-> c.now + r.ttl]},
          c.toolchain, c.now, r.ttl)
  BY <1>2, <1>7 DEF ReadyMetadata, BuildMetadata, NewToken, CreatedAt, Registry!Changed
<1> HIDE DEF r, c, id
<1>9. meta' = [meta EXCEPT ![id] =
        Registry!Changed(id, r.src, "ready",
          {tk \in Registry!OldTokens(id) : tk.expires_at > c.now}
            \union {[hash |-> r.n, expires_at |-> c.now + r.ttl]},
          c.toolchain, c.now, r.ttl)]
  BY <1>8 DEF r, c, id
<1>10. Registry!Issue(id)
  <2> USE <1>1 DEF Registry!Issue
  <2> WITNESS r.src \in Sources, c.toolchain \in Tools, c.now \in 0..now,
              r.ttl \in Ttls, r.n \in 1..MaxRequests
  <2> QED BY <1>3, <1>4, <1>6, <1>9
<1> QED BY <1>10 DEF id

LEMMA SaveIsFail ==
  ASSUME Types, Current, NEW t \in Tasks, pc[t] \in InLock \ {"loading", "probing"},
         meta' = [meta EXCEPT ![Id(t)] = FailedMetadata(request[t], ctx[t])],
         UNCHANGED <<artifact, now>>
  PROVE  Registry!Fail(Id(t))
<1> DEFINE r == request[t]
           c == ctx[t]
           id == Id(t)
<1>1. r.src \in Sources /\ r.ttl \in Ttls /\ c.toolchain \in Tools /\ c.now \in 0..now
  BY DEF Types, Requests, Contexts, Current
<1>2. /\ c.existing = meta[id] /\ c.expires_at = c.now + r.ttl
      /\ meta[id] # None => meta[id].src = r.src
  BY DEF Current
<1>3. Registry!Owns(id, r.src)
  BY <1>2 DEF Registry!Owns
<1>4. FailedMetadata(r, c) =
        Registry!Changed(id, r.src, "failed", {}, c.toolchain, c.now, r.ttl)
  BY <1>2 DEF FailedMetadata, BuildMetadata, CreatedAt, Registry!Changed
<1> QED BY <1>1, <1>3, <1>4 DEF Registry!Fail

LEMMA StepRefines ==
  Types /\ Locked /\ Current /\ Owned /\ Fresh /\ [Next]_vars => [Registry!Next]_(Registry!vars)
<1> SUFFICES ASSUME Types, Locked, Current, Owned, Fresh, [Next]_vars
             PROVE  Registry!Next \/ UNCHANGED Registry!vars
  OBVIOUS
<1>0. \A t \in Tasks : pc[t] \in InLock => Id(t) \in Ids
  BY IdAssumption DEF Types, Requests
<1>1. CASE meta' # meta
  <2>1. PICK t \in Tasks :
          /\ pc[t] \in {"renewing", "publishing", "recording"}
          /\ \E m \in {ReadyMetadata(request[t], ctx[t]), FailedMetadata(request[t], ctx[t])} :
               /\ meta' = [meta EXCEPT ![Id(t)] = m]
               /\ pc[t] = "recording" => m = FailedMetadata(request[t], ctx[t])
          /\ UNCHANGED <<artifact, now>>
    BY <1>1, MetaChanges
  <2>2. Registry!Issue(Id(t)) \/ Registry!Fail(Id(t))
    BY <2>1, SaveIsIssue, SaveIsFail
  <2> QED BY <1>0, <2>1, <2>2 DEF Registry!Next
<1>2. CASE artifact' # artifact
  <2>1. PICK t \in Tasks :
          /\ UNCHANGED <<meta, now>>
          /\ \/ pc[t] = "persisting" /\ artifact' = [artifact EXCEPT ![Id(t)] = out[t]]
             \/ pc[t] = "failing" /\ artifact' = [artifact EXCEPT ![Id(t)] = None]
    BY <1>2, FileChanges
  <2>2. CASE pc[t] = "persisting" /\ artifact' = [artifact EXCEPT ![Id(t)] = out[t]]
    <3>1. /\ out[t] \in Artifacts /\ out[t].src = request[t].src
          /\ request[t].src \in Sources
      BY <2>2 DEF Types, Owned, Requests
    <3>2. PICK s \in Sources, tool \in Tools : out[t] = [src |-> s, tool |-> tool]
      BY <3>1 DEF Artifacts
    <3>3. Registry!Owns(Id(t), s)
      BY <2>2, <3>1, <3>2 DEF Registry!Owns, Current
    <3>4. Registry!PutFile(Id(t))
      BY <2>1, <2>2, <3>2, <3>3 DEF Registry!PutFile
    <3> QED BY <1>0, <2>2, <3>4 DEF Registry!Next
  <2>3. CASE pc[t] = "failing" /\ artifact' = [artifact EXCEPT ![Id(t)] = None]
    BY <1>0, <2>1, <2>3 DEF Registry!DropFile, Registry!Next
  <2> QED BY <2>1, <2>2, <2>3
<1>3. CASE meta' = meta /\ artifact' = artifact
  BY <1>3, TimeChanges DEF Registry!Pass, Registry!Next, Registry!vars
<1> QED BY <1>1, <1>2, <1>3

(* The concurrent, crash-prone submissions implement BuildRegistry: every    *)
(* change of a build is one atomic step computed from the build as it is.    *)
THEOREM LifecycleRefinesRegistry == Spec => RefinesRegistry
<1>1. Init => Registry!Init
  BY DEF Init, Registry!Init
<1> QED
  BY <1>1, StepRefines, FreshInvariant, OwnedInvariant, PTL DEF Spec, RefinesRegistry, Registry!Spec

=============================================================================
