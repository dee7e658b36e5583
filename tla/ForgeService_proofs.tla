-------------------------- MODULE ForgeService_proofs --------------------------
(***************************************************************************)
(* Theorems about ForgeService: downloads and gc beside the submissions, for *)
(* any number of readers, submissions, builds and sources.                   *)
(***************************************************************************)
EXTENDS ForgeService, BuildRecords_proofs

USE DEF Building, InSlot, InLock, Control, Id

-----------------------------------------------------------------------------
(* Types.                                                                   *)

GcTypes ==
  /\ gc \in GcStates /\ gcRuns \in 0..MaxGcRuns
  /\ gc.left # {} => gc.dir # None
  /\ gc.dir # None => gc.phase = "removing"
  /\ gc.phase # "idle" => gcRuns > 0

GetTypes ==
  /\ get \in [Readers -> GetStates]
  /\ served \in [Readers -> Results]
  /\ steady \in [Readers -> BOOLEAN]
  /\ \A r \in Readers :
       /\ get[r].link = None <=> get[r].phase = "idle"
       /\ get[r].phase = "opening" => get[r].id \in get[r].scan
       /\ get[r].phase = "reading" => get[r].found # None

LEMMA ServiceTypesInit == ServiceInit => Types /\ Locked /\ GcTypes /\ GetTypes
BY TypesInit, LockedInit, ServiceAssumption
DEF ServiceInit, GcTypes, GetTypes, GcStates, GetStates, NoGc, NoGet, Results, Types

(* A step of the service is one of the submissions or one of gc.             *)
LEMMA ServiceSteps ==
  ASSUME [ServiceNext]_serviceVars
  PROVE  \/ [Next]_vars /\ UNCHANGED gcVars
         \/ GcNext
BY DEF ServiceNext, ServerNext, GetNext, serviceVars

(* gc takes files away and leaves everything else alone.                     *)
LEMMA GcSteps ==
  ASSUME Types, GcTypes, GcNext
  PROVE  /\ UNCHANGED <<pc, request, ctx, out, reply, holder, free, tmp, children, issued,
                        now, toolchain, requests, crashes, get, served>>
         /\ meta' \in [Ids -> Metadata \union {None}]
         /\ artifact' \in [Ids -> Artifacts \union {None}]
         /\ \A id \in Ids : /\ meta'[id] = meta[id] \/ (meta'[id] = None /\ gc.dir = id)
                            /\ artifact'[id] = artifact[id] \/ artifact'[id] = None
<1>1. UNCHANGED <<pc, request, ctx, out, reply, holder, free, tmp, children, issued,
                  now, toolchain, requests, crashes, get, served>>
  BY DEF GcNext, tasks, env, getVars
<1>2. CASE UNCHANGED <<meta, artifact>>
  BY <1>1, <1>2 DEF Types
<1>3. ASSUME NEW f \in Files, GcUnlink(f)
      PROVE  \/ meta' = [meta EXCEPT ![gc.dir] = None] /\ artifact' = artifact
             \/ artifact' = [artifact EXCEPT ![gc.dir] = None] /\ meta' = meta
  BY <1>3 DEF GcUnlink
<1>4. CASE \E f \in Files : GcUnlink(f)
  <2>1. \/ meta' = [meta EXCEPT ![gc.dir] = None] /\ artifact' = artifact
        \/ artifact' = [artifact EXCEPT ![gc.dir] = None] /\ meta' = meta
    BY <1>3, <1>4
  <2> QED BY <1>1, <2>1 DEF Types
<1> QED
  BY <1>2, <1>4 DEF GcNext, GcStart, GcScan, GcScanned, GcList, GcRemoved, GcEnds

LEMMA BaseTypesNext ==
  Types /\ Locked /\ GcTypes /\ [ServiceNext]_serviceVars => Types' /\ Locked'
<1> SUFFICES ASSUME Types, Locked, GcTypes, [ServiceNext]_serviceVars PROVE Types' /\ Locked'
  OBVIOUS
<1>1. CASE [Next]_vars
  BY <1>1, TypesNext, LockedNext
<1>2. CASE GcNext
  <2>1. Types'
    BY <1>2, GcSteps DEF Types
  <2>2. Locked'
    BY <1>2, GcSteps DEF Locked
  <2> QED BY <2>1, <2>2
<1> QED BY <1>1, <1>2, ServiceSteps

LEMMA GcTypesNext == Types /\ GcTypes /\ [ServiceNext]_serviceVars => GcTypes'
<1> SUFFICES ASSUME Types, GcTypes, [ServiceNext]_serviceVars PROVE GcTypes'
  OBVIOUS
<1> USE ServiceAssumption
<1>1. CASE UNCHANGED gcVars
  BY <1>1 DEF GcTypes, gcVars
<1>2. CASE GcStart
  <2>1. PICK age \in Ages :
          gc' = [NoGc EXCEPT !.phase = "scanning", !.threshold = GcThreshold(age), !.scan = Ids]
    BY <1>2 DEF GcStart
  <2>2. GcThreshold(age) \in Int
    BY <2>1 DEF GcThreshold, Types
  <2>3. gc' \in GcStates /\ gc'.left = {} /\ gc'.dir = None
    BY <2>1, <2>2 DEF GcStates, NoGc
  <2>4. gcRuns' \in 0..MaxGcRuns
    BY <1>2 DEF GcStart, GcTypes
  <2>5. gcRuns' > 0
    BY <1>2 DEF GcStart, GcTypes
  <2> QED BY <2>3, <2>4, <2>5 DEF GcTypes
<1>3. CASE GcScan
  <2>1. PICK id \in gc.scan :
          gc' = [gc EXCEPT !.scan = @ \ {id},
                           !.victims = IF meta[id] # None /\ meta[id].expires_at < gc.threshold
                                         THEN @ \union {id} ELSE @]
    BY <1>3 DEF GcScan
  <2>2. PICK victims \in SUBSET Ids :
          gc' = [gc EXCEPT !.scan = @ \ {id}, !.victims = victims]
    BY <2>1 DEF GcTypes, GcStates
  <2>3. gc' \in GcStates /\ gc'.left = gc.left /\ gc'.dir = gc.dir /\ gc'.phase = gc.phase
    BY <2>2 DEF GcTypes, GcStates
  <2>4. gcRuns' = gcRuns
    BY <1>3 DEF GcScan
  <2> QED BY <2>3, <2>4 DEF GcTypes
<1>4. CASE GcScanned
  BY <1>4 DEF GcTypes, GcStates, GcScanned
<1>5. CASE GcList
  <2>1. PICK id \in gc.victims :
          gc' = [gc EXCEPT !.dir = id, !.victims = @ \ {id},
                           !.left = {f \in Files : IF f = "metadata" THEN meta[id] # None
                                                                     ELSE artifact[id] # None}]
    BY <1>5 DEF GcList
  <2>2. id \in Ids /\ id # None
    BY <2>1 DEF GcTypes, GcStates
  <2> QED BY <1>5, <2>1, <2>2 DEF GcTypes, GcStates, GcList
<1>6. ASSUME NEW f \in Files, GcUnlink(f) PROVE GcTypes'
  BY <1>6 DEF GcTypes, GcStates, GcUnlink
<1>7. CASE GcRemoved
  BY <1>7 DEF GcTypes, GcStates, GcRemoved
<1>8. CASE GcEnds
  BY <1>8 DEF GcTypes, GcStates, GcEnds, NoGc
<1> QED
  BY <1>1, <1>2, <1>3, <1>4, <1>5, <1>6, <1>7, <1>8, ServiceSteps DEF GcNext

(* The steps of downloads.                                                   *)
LEMMA GetSteps ==
  ASSUME [ServiceNext]_serviceVars
  PROVE  \/ UNCHANGED getVars
         \/ /\ get' = [r \in Readers |-> NoGet] /\ served' = [r \in Readers |-> "none"]
            /\ crashes' # crashes
         \/ /\ UNCHANGED <<vars, gcVars>>
            /\ \E r \in Readers :
                 \/ \E l \in issued : GetStart(r, l)
                 \/ GetVisit(r) \/ GetOpen(r) \/ GetResolve(r) \/ GetRead(r)
BY DEF ServiceNext, ServerNext, GetNext, GcNext, serviceVars, getVars

LEMMA GetTypesNext == Types /\ GetTypes /\ [ServiceNext]_serviceVars => GetTypes'
<1> SUFFICES ASSUME Types, GetTypes, [ServiceNext]_serviceVars PROVE GetTypes'
  OBVIOUS
<1> USE ServiceAssumption
<1>1. steady' \in [Readers -> BOOLEAN]
  BY DEF ServiceNext, Watch, serviceVars, GetTypes
<1>2. NoGet \in GetStates /\ NoGet.link = None /\ NoGet.phase = "idle"
  BY DEF NoGet, GetStates
<1>3. CASE UNCHANGED getVars
  BY <1>1, <1>3 DEF GetTypes, getVars
<1>4. CASE get' = [r \in Readers |-> NoGet] /\ served' = [r \in Readers |-> "none"]
  BY <1>1, <1>2, <1>4 DEF GetTypes, Results
<1>5. ASSUME NEW r \in Readers, NEW g \in GetStates, get' = [get EXCEPT ![r] = g],
             g.link = None <=> g.phase = "idle",
             g.phase = "opening" => g.id \in g.scan, g.phase = "reading" => g.found # None,
             NEW result \in Results, served' = [served EXCEPT ![r] = result]
      PROVE  GetTypes'
  BY <1>1, <1>5 DEF GetTypes
<1>6. ASSUME NEW r \in Readers, NEW result \in Results, GetEnds(r, result) PROVE GetTypes'
  BY <1>2, <1>5, <1>6 DEF GetEnds
<1>7. ASSUME NEW r \in Readers, NEW l \in issued, GetStart(r, l) PROVE GetTypes'
  <2> DEFINE g == [NoGet EXCEPT !.phase = "scanning", !.link = l, !.now = now, !.scan = Ids]
  <2>1. l \in Links /\ l # None /\ now \in Nat
    BY <1>7 DEF Types
  <2>2. g \in GetStates /\ g.phase = "scanning" /\ g.link = l
    BY <2>1 DEF GetStates, NoGet
  <2>3. "none" \in Results
    BY DEF Results
  <2> QED BY <1>5, <1>7, <2>1, <2>2, <2>3 DEF GetStart
<1>8. ASSUME NEW r \in Readers, NEW id \in Ids, NEW found \in Ids \union {None},
             get[r].phase \in {"scanning", "opening"}, Scanned(r, id, found)
      PROVE  GetTypes'
  <2> DEFINE g == [get[r] EXCEPT !.phase = "scanning", !.scan = @ \ {id}, !.id = None,
                                 !.found = found]
  <2>1. get[r] \in GetStates /\ get[r].link # None
    BY <1>8 DEF GetTypes
  <2>2. g \in GetStates /\ g.phase = "scanning" /\ g.link = get[r].link
    BY <2>1 DEF GetStates
  <2>3. get' = [get EXCEPT ![r] = g]
    BY <1>8, <2>1 DEF Scanned, GetTypes, GetStates
  <2> HIDE DEF g
  <2>4. served' = [served EXCEPT ![r] = served[r]] /\ served[r] \in Results
    BY <1>8 DEF Scanned, GetTypes
  <2> QED BY <1>5, <2>1, <2>2, <2>3, <2>4
<1>9. ASSUME NEW r \in Readers, GetVisit(r) PROVE GetTypes'
  <2>1. PICK id \in get[r].scan :
          IF meta[id] = None
            THEN NoMetadata(r, id)
            ELSE /\ get' = [get EXCEPT ![r].phase = "opening", ![r].id = id]
                 /\ UNCHANGED served
    BY <1>9 DEF GetVisit
  <2>2. get[r] \in GetStates /\ id \in Ids /\ get[r].phase = "scanning" /\ get[r].link # None
    BY <1>9, <2>1 DEF GetTypes, GetStates, GetVisit
  <2>3. CASE meta[id] = None
    BY <1>8, <2>1, <2>2, <2>3 DEF NoMetadata, GetStates
  <2>4. CASE meta[id] # None
    <3> DEFINE g == [get[r] EXCEPT !.phase = "opening", !.id = id]
    <3>1. /\ g \in GetStates /\ g.phase = "opening" /\ g.link = get[r].link
          /\ g.id = id /\ g.scan = get[r].scan
      BY <2>2 DEF GetStates
    <3>2. get' = [get EXCEPT ![r] = g]
      BY <2>1, <2>2, <2>4 DEF GetTypes, GetStates
    <3> HIDE DEF g
    <3>3. served' = [served EXCEPT ![r] = served[r]] /\ served[r] \in Results
      BY <2>1, <2>4 DEF GetTypes
    <3> QED BY <1>5, <2>1, <2>2, <3>1, <3>2, <3>3
  <2> QED BY <2>3, <2>4
<1>10. ASSUME NEW r \in Readers, GetOpen(r) PROVE GetTypes'
  <2>1. get[r].id \in Ids /\ get[r].found \in Ids \union {None}
    BY <1>10 DEF GetOpen, GetTypes, GetStates
  <2> QED BY <1>6, <1>8, <1>10, <2>1 DEF GetOpen, Results
<1>11. ASSUME NEW r \in Readers, GetResolve(r) PROVE GetTypes'
  <2>1. CASE GetEnds(r, "404")
    BY <1>6, <2>1 DEF Results
  <2>2. CASE get[r].found # None /\ get' = [get EXCEPT ![r].phase = "reading"] /\ UNCHANGED served
    <3> DEFINE g == [get[r] EXCEPT !.phase = "reading"]
    <3>1. get[r] \in GetStates /\ get[r].link # None
      BY <1>11 DEF GetTypes, GetResolve
    <3>2. /\ g \in GetStates /\ g.phase = "reading" /\ g.link = get[r].link
          /\ g.found = get[r].found /\ get' = [get EXCEPT ![r] = g]
      BY <2>2, <3>1 DEF GetStates
    <3> HIDE DEF g
    <3>3. served' = [served EXCEPT ![r] = served[r]] /\ served[r] \in Results
      BY <2>2 DEF GetTypes
    <3> QED BY <1>5, <2>2, <3>1, <3>2, <3>3
  <2> QED BY <1>11, <2>1, <2>2 DEF GetResolve
<1>12. ASSUME NEW r \in Readers, GetRead(r) PROVE GetTypes'
  <2>1. get[r].found \in Ids
    BY <1>12 DEF GetRead, GetTypes, GetStates
  <2>2. Response(artifact[get[r].found]) \in Results
    BY <2>1 DEF Response, Results, Types, Artifacts
  <2> QED BY <1>6, <1>12, <2>2 DEF GetRead
<1> QED
  BY <1>3, <1>4, <1>7, <1>9, <1>10, <1>11, <1>12, GetSteps

(* The state of gc and of the downloads keeps its type.                      *)
THEOREM ServiceTypeCorrect == ServiceSpec => []ServiceTypeOK
<1>1. GcTypes /\ GetTypes => ServiceTypeOK
  BY DEF GcTypes, GetTypes, ServiceTypeOK
<1> QED
  BY <1>1, ServiceTypesInit, BaseTypesNext, GcTypesNext, GetTypesNext, PTL DEF ServiceSpec

-----------------------------------------------------------------------------
(* Tokens.                                                                  *)

(* The numbers drawn for submissions that have ended: the hashes of all the   *)
(* tokens there are.                                                         *)
Spent == {n \in 1..requests : \A t \in Tasks : Active(t) => request[t].n # n}

(* The tokens of a build are told apart by their hashes, and each belongs to  *)
(* the one link that was handed out for it, if any; a ready build lives as    *)
(* long as one of them.                                                      *)
Traceable(m, links, spent) ==
  /\ \A tk \in m.tokens :
       /\ tk.hash \in spent
       /\ \A l \in links : l.hash = tk.hash => l.expires_at = tk.expires_at /\ l.src = m.src
       /\ \A other \in m.tokens : other.hash = tk.hash => other = tk
  /\ m.status = "ready" => \E tk \in m.tokens : tk.expires_at = m.expires_at

Drawn ==
  /\ \A t \in Tasks : Active(t) => request[t].n \in 1..requests
  /\ \A t, u \in Tasks : Active(t) /\ Active(u) /\ t # u => request[t].n # request[u].n

Traced ==
  /\ Drawn
  /\ \A l \in issued : l.hash \in Spent
  /\ \A id \in Ids : meta[id] # None =>
       Traceable(meta[id], issued, Spent) /\ IdOf[meta[id].src] = id
  /\ \A t \in Tasks : pc[t] \in InLock \ {"loading"} /\ ctx[t].existing # None =>
       Traceable(ctx[t].existing, issued, Spent) /\ ctx[t].existing.src = request[t].src

LEMMA TracedInit == Init => Traced
BY DEF Init, Traced, Drawn, Active

(* Later links and later tokens take nothing from what could be traced.      *)
LEMMA TraceKept ==
  ASSUME NEW m, NEW links, NEW later, NEW spent, NEW more, Traceable(m, links, spent),
         spent \subseteq more, \A l \in later : l \in links \/ l.hash \notin spent
  PROVE  Traceable(m, later, more)
BY DEF Traceable

(* A number drawn is spent when its submission ends, and for good.            *)
LEMMA DrawnNext ==
  ASSUME Types, Drawn, [Next]_vars
  PROVE  /\ Drawn' /\ Spent \subseteq Spent'
         /\ \A t \in Tasks : Active(t) /\ ~Active(t)' =>
              request[t].n \notin Spent /\ request[t].n \in Spent'
<1>0. /\ requests \in Nat
      /\ \A t \in Tasks : Active(t) => request[t].n \in 1..requests
  BY DEF Types, Drawn
<1>1. CASE /\ requests' = requests + 1
           /\ \E t \in Tasks :
                /\ request'[t].n = requests + 1
                /\ \A u \in Tasks \ {t} : Active(u)' => Active(u) /\ request'[u] = request[u]
  <2>1. PICK t \in Tasks :
          /\ request'[t].n = requests + 1
          /\ \A u \in Tasks \ {t} : Active(u)' => Active(u) /\ request'[u] = request[u]
    BY <1>1
  <2>2. Drawn'
    BY <1>0, <1>1, <2>1 DEF Drawn
  <2>3. Spent \subseteq Spent'
    BY <1>0, <1>1, <2>1 DEF Spent
  <2>4. ASSUME NEW u \in Tasks, Active(u), ~Active(u)'
        PROVE  request[u].n \notin Spent /\ request[u].n \in Spent'
    <3>1. \A v \in Tasks : Active(v)' => request'[v].n # request[u].n
      BY <1>0, <2>1, <2>4 DEF Drawn
    <3> QED BY <1>0, <1>1, <2>4, <3>1 DEF Spent
  <2> QED BY <2>2, <2>3, <2>4
<1>2. CASE /\ requests' = requests
           /\ \A t \in Tasks : Active(t)' => Active(t) /\ request'[t] = request[t]
  <2>1. Drawn' /\ Spent \subseteq Spent'
    BY <1>2 DEF Drawn, Spent
  <2>2. ASSUME NEW u \in Tasks, Active(u), ~Active(u)'
        PROVE  request[u].n \notin Spent /\ request[u].n \in Spent'
    BY <1>0, <1>2, <2>2 DEF Drawn, Spent
  <2> QED BY <2>1, <2>2
<1> QED BY <1>1, <1>2, NumberChanges

(* What a task saves can be traced when its number has been spent.           *)
LEMMA SavedTraceable ==
  ASSUME Types, Traced, NEW t \in Tasks, pc[t] \in {"renewing", "publishing", "recording"},
         NEW links, NEW spent, Spent \subseteq spent, request[t].n \in spent,
         \A l \in links : l \in issued \/ l = Link(request[t], ctx[t]),
         NEW m \in {ReadyMetadata(request[t], ctx[t]), FailedMetadata(request[t], ctx[t])}
  PROVE  Traceable(m, links, spent) /\ m.src = request[t].src
<1> DEFINE old == PrunedDownloadTokens(ctx[t])
           new == NewToken(request[t], ctx[t])
<1>1. request[t].n \notin Spent
  BY DEF Spent, Active
<1>2. \A tk \in old :
        /\ tk.hash \in Spent
        /\ \A l \in issued : l.hash = tk.hash => l.expires_at = tk.expires_at
                                                  /\ l.src = request[t].src
        /\ \A other \in old : other.hash = tk.hash => other = tk
  BY DEF PrunedDownloadTokens, PruneTokens, Traced, Traceable
<1>3. new.hash = request[t].n /\ new.expires_at = ctx[t].expires_at
  BY DEF NewToken
<1>4. \A l \in issued : l.hash # request[t].n
  BY <1>1 DEF Traced
<1>5. ASSUME NEW l \in links, l \notin issued
      PROVE  l.hash = request[t].n /\ l.expires_at = ctx[t].expires_at /\ l.src = request[t].src
  BY <1>5 DEF Link
<1>6. m.tokens \subseteq old \union {new} /\ m.src = request[t].src
  BY DEF ReadyMetadata, FailedMetadata, BuildMetadata
<1>7. m.status = "ready" => new \in m.tokens /\ m.expires_at = ctx[t].expires_at
  BY DEF ReadyMetadata, FailedMetadata, BuildMetadata
<1> HIDE DEF old, new
<1> QED BY <1>1, <1>2, <1>3, <1>4, <1>5, <1>6, <1>7 DEF Traceable

LEMMA TracedNext == Types /\ GcTypes /\ Traced /\ [ServiceNext]_serviceVars => Traced'
<1> SUFFICES ASSUME Types, GcTypes, Traced, [ServiceNext]_serviceVars PROVE Traced'
  OBVIOUS
<1>1. CASE GcNext
  <2>1. Drawn' /\ Spent' = Spent /\ issued' = issued
    BY <1>1, GcSteps DEF Traced, Drawn, Spent, Active
  <2>2. ASSUME NEW id \in Ids, meta'[id] # None
        PROVE  Traceable(meta'[id], issued', Spent') /\ IdOf[meta'[id].src] = id
    <3>1. meta'[id] = meta[id]
      BY <1>1, <2>2, GcSteps
    <3> QED BY <2>1, <2>2, <3>1 DEF Traced
  <2>3. ASSUME NEW t \in Tasks, pc'[t] \in InLock \ {"loading"}, ctx'[t].existing # None
        PROVE  Traceable(ctx'[t].existing, issued', Spent')
               /\ ctx'[t].existing.src = request'[t].src
    <3>1. UNCHANGED <<pc, ctx, request>>
      BY <1>1, GcSteps
    <3> QED BY <2>1, <2>3, <3>1 DEF Traced
  <2> QED BY <2>1, <2>2, <2>3 DEF Traced
<1>2. CASE [Next]_vars
  <2>1. /\ Drawn' /\ Spent \subseteq Spent'
        /\ \A t \in Tasks : Active(t) /\ ~Active(t)' =>
             request[t].n \notin Spent /\ request[t].n \in Spent'
    BY <1>2, DrawnNext DEF Traced
  <2>2. ASSUME NEW t \in Tasks, pc[t] \in InLock, Release(t)
        PROVE  request[t].n \notin Spent /\ request[t].n \in Spent'
    <3>1. Active(t) /\ ~Active(t)'
      BY <2>2, ReleaseTypes DEF Active
    <3> QED BY <2>1, <3>1
  <2>3. \A l \in issued' : l \in issued \/ (l.hash \notin Spent /\ l.hash \in Spent')
    BY <1>2, <2>2, IssuedChanges DEF Link
  <2>4. \A l \in issued' : l.hash \in Spent'
    BY <2>1, <2>3 DEF Traced
  <2>5. ASSUME NEW m, Traceable(m, issued, Spent) PROVE Traceable(m, issued', Spent')
    BY <2>1, <2>3, <2>5, TraceKept
  <2>6. ASSUME NEW id \in Ids, meta'[id] # None
        PROVE  Traceable(meta'[id], issued', Spent') /\ IdOf[meta'[id].src] = id
    <3>1. CASE meta'[id] = meta[id]
      BY <2>5, <2>6, <3>1 DEF Traced
    <3>2. CASE meta'[id] # meta[id]
      <4>1. PICK t \in Tasks :
              /\ pc[t] \in {"renewing", "publishing", "recording"} /\ Release(t)
              /\ \E m \in {ReadyMetadata(request[t], ctx[t]), FailedMetadata(request[t], ctx[t])} :
                   meta' = [meta EXCEPT ![Id(t)] = m]
        BY <1>2, <3>2, MetaChanges
      <4>2. PICK m \in {ReadyMetadata(request[t], ctx[t]), FailedMetadata(request[t], ctx[t])} :
              meta' = [meta EXCEPT ![Id(t)] = m]
        BY <4>1
      <4>3. id = Id(t) /\ meta'[id] = m
        BY <3>2, <4>2 DEF Types
      <4>4. \A l \in issued' : l \in issued \/ l = Link(request[t], ctx[t])
        <5>1. ASSUME NEW u \in Tasks, Release(u), pc[u] \in InLock, u # t PROVE FALSE
          BY <4>1, <5>1, ReleaseTypes
        <5> QED BY <1>2, <5>1, IssuedChanges
      <4>5. request[t].n \in Spent'
        BY <2>2, <4>1
      <4>6. Traceable(m, issued', Spent') /\ m.src = request[t].src
        BY <2>1, <4>1, <4>4, <4>5, SavedTraceable
      <4> QED BY <4>3, <4>6
    <3> QED BY <3>1, <3>2
  <2>7. ASSUME NEW t \in Tasks, pc'[t] \in InLock \ {"loading"}, ctx'[t].existing # None
        PROVE  Traceable(ctx'[t].existing, issued', Spent')
               /\ ctx'[t].existing.src = request'[t].src
    <3>1. Id(t) \in Ids /\ request'[t] = request[t] /\ pc[t] \in InLock
      BY <1>2, <2>7, CtxChanges, IdAssumption DEF Types, Requests
    <3>2. CASE pc[t] # "loading" /\ ctx'[t].existing = ctx[t].existing
      BY <2>5, <2>7, <3>1, <3>2 DEF Traced
    <3>3. CASE /\ ~Collides(meta[Id(t)], request[t].src)
               /\ ctx'[t] = [existing |-> meta[Id(t)], now |-> now,
                             expires_at |-> now + request[t].ttl, toolchain |-> None]
      <4>1. ctx'[t].existing = meta[Id(t)]
        BY <3>3
      <4> QED BY <2>5, <2>7, <3>1, <3>3, <4>1 DEF Traced, Collides
    <3> QED BY <1>2, <2>7, <3>2, <3>3, CtxChanges
  <2> QED BY <2>1, <2>4, <2>6, <2>7 DEF Traced
<1> QED BY <1>1, <1>2, ServiceSteps

LEMMA TracedInvariant == ServiceSpec => [](Types /\ Locked /\ GcTypes /\ GetTypes /\ Traced)
<1>1. ServiceInit => Traced
  BY TracedInit DEF ServiceInit
<1> QED
  BY <1>1, ServiceTypesInit, BaseTypesNext, GcTypesNext, GetTypesNext, TracedNext, PTL
  DEF ServiceSpec

(* A build has one token for each number drawn at most.                      *)
LEMMA TracedTokensFinite ==
  ASSUME NEW m, Traceable(m, issued, Spent), requests \in Nat
  PROVE  IsFiniteSet(m.tokens)
<1> DEFINE f == [tk \in m.tokens |-> tk.hash]
<1>1. Spent \subseteq 1..requests /\ IsFiniteSet(1..requests)
  BY FS_Interval DEF Spent
<1>2. IsFiniteSet(Spent)
  BY <1>1, FS_Subset
<1>3. f \in Injection(m.tokens, Spent)
  BY DEF Traceable, Injection, IsInjective
<1> QED BY <1>2, <1>3, FS_Injection

(* What the API says of a build is what a download of its links gets: a link *)
(* it counts is served if the file is there, no other is, and a build without *)
(* its file serves none although it may still be called ready.               *)
THEOREM StatusAndLinksAgree == ServiceSpec => []ViewAgreesWithLinks
<1>1. ASSUME Types, Traced, NEW id \in Ids, meta[id] # None
      PROVE  LET view == MetadataView(id, now)
                 working == {tk \in meta[id].tokens : Works(id, tk, now)}
                 ready == view.status = "ready" IN
             /\ ready => view.download_token_count > 0
             /\ Cardinality(working) =
                  IF ready /\ artifact[id] # None THEN view.download_token_count ELSE 0
  <2> DEFINE m == meta[id]
             working == {tk \in m.tokens : Works(id, tk, now)}
             active == {tk \in m.tokens : tk.expires_at > now}
  <2>1. Traceable(m, issued, Spent) /\ m \in Metadata /\ now \in Nat
    BY <1>1 DEF Types, Traced
  <2>2. /\ MetadataView(id, now).status = StatusForApi(m, now)
        /\ MetadataView(id, now).download_token_count = Cardinality(active)
    BY <1>1 DEF MetadataView, ActiveDownloadTokenCount
  <2> SUFFICES /\ StatusForApi(m, now) = "ready" => Cardinality(active) > 0
               /\ Cardinality(working) =
                    IF StatusForApi(m, now) = "ready" /\ artifact[id] # None
                      THEN Cardinality(active) ELSE 0
    BY <2>2
  <2>3. CASE m.status = "ready" /\ m.expires_at > now
    <3>1. PICK tk \in m.tokens : tk.expires_at = m.expires_at
      BY <2>1, <2>3 DEF Traceable
    <3>2. active # {} /\ IsFiniteSet(active)
      <4>1. active # {}
        BY <2>3, <3>1
      <4>2. IsFiniteSet(m.tokens)
        BY <1>1, <2>1, TracedTokensFinite DEF Types
      <4> QED BY <4>1, <4>2, FS_Subset
    <3>3. Cardinality(active) \in Nat /\ Cardinality(active) # 0
      <4> HIDE DEF active
      <4> QED BY <3>2, FS_CardinalityType, FS_EmptySet
    <3>4. artifact[id] # None => working = active
      BY <2>1, <2>3 DEF Works, Matches, Traceable
    <3>5. artifact[id] = None => working = {}
      BY DEF Works
    <3>6. StatusForApi(m, now) = "ready"
      BY <2>1, <2>3 DEF StatusForApi, Metadata
    <3> HIDE DEF working, active
    <3> QED BY <3>3, <3>4, <3>5, <3>6, FS_EmptySet
  <2>4. CASE ~(m.status = "ready" /\ m.expires_at > now)
    <3>1. StatusForApi(m, now) # "ready"
      BY <2>1, <2>4 DEF StatusForApi, Metadata
    <3>2. working = {}
      BY <2>4 DEF Works, Matches
    <3> HIDE DEF working, active
    <3> QED BY <3>1, <3>2, FS_EmptySet
  <2> QED BY <2>3, <2>4
<1>2. Types /\ Traced => ViewAgreesWithLinks
  BY <1>1 DEF ViewAgreesWithLinks
<1> QED BY <1>2, TracedInvariant, PTL

-----------------------------------------------------------------------------
(* Downloads.                                                               *)

(* Metadata lets a link through only in the build of its own source, before   *)
(* it expires.                                                               *)
LEMMA MatchIsOwn ==
  ASSUME Types, Traced, NEW l \in issued, NEW id \in Ids, meta[id] # None,
         NEW t, Matches(meta[id], l, t)
  PROVE  t < l.expires_at /\ id = IdOf[l.src] /\ meta[id].src = l.src
<1>1. PICK tk \in meta[id].tokens : tk.hash = l.hash /\ tk.expires_at > t
  BY DEF Matches
<1>2. l.expires_at = tk.expires_at /\ l.src = meta[id].src /\ IdOf[meta[id].src] = id
  BY <1>1 DEF Traced, Traceable
<1> QED BY <1>1, <1>2

(* What a download has found is the build of its link, which had not expired  *)
(* when the download began.                                                  *)
Visits ==
  \A r \in Readers : get[r].link # None =>
    /\ get[r].link \in issued /\ get[r].now <= now /\ served[r] = "none"
    /\ get[r].found # None => /\ get[r].now < get[r].link.expires_at
                              /\ get[r].found = IdOf[get[r].link.src]

LEMMA VisitsInit == ServiceInit => Visits
BY DEF ServiceInit, Visits, NoGet

LEMMA LinksAndTime ==
  ASSUME Types, GcTypes, [ServiceNext]_serviceVars
  PROVE  issued \subseteq issued' /\ now \in Nat /\ now' \in Nat /\ now <= now'
<1>1. CASE [Next]_vars
  <2>1. issued \subseteq issued'
    BY <1>1, IssuedChanges
  <2>2. now \in Nat /\ (now' = now \/ now' = now + 1)
    BY <1>1, TimeChanges DEF Types
  <2> QED BY <2>1, <2>2
<1>2. CASE GcNext
  BY <1>2, GcSteps DEF Types
<1> QED BY <1>1, <1>2, ServiceSteps

LEMMA VisitsNext ==
  Types /\ GcTypes /\ GetTypes /\ Traced /\ Visits /\ [ServiceNext]_serviceVars => Visits'
<1> SUFFICES ASSUME Types, GcTypes, GetTypes, Traced, Visits, [ServiceNext]_serviceVars,
                    NEW r \in Readers, get'[r].link # None
             PROVE  /\ get'[r].link \in issued' /\ get'[r].now <= now' /\ served'[r] = "none"
                    /\ get'[r].found # None => /\ get'[r].now < get'[r].link.expires_at
                                               /\ get'[r].found = IdOf[get'[r].link.src]
  BY DEF Visits
<1> DEFINE g == get[r]
<1>0. /\ issued \subseteq issued' /\ now \in Nat /\ now' \in Nat /\ now <= now'
      /\ g \in GetStates /\ g.now \in Nat
  BY LinksAndTime DEF GetTypes, GetStates
<1>1. CASE get'[r] = get[r] /\ served'[r] = served[r]
  BY <1>0, <1>1 DEF Visits
<1>2. CASE get'[r] = NoGet
  BY <1>2 DEF NoGet
<1>3. ASSUME NEW l \in issued, GetStart(r, l), UNCHANGED vars
      PROVE  /\ get'[r].link \in issued' /\ get'[r].now <= now' /\ served'[r] = "none"
             /\ get'[r].found = None
  <2>1. get'[r] = [NoGet EXCEPT !.phase = "scanning", !.link = l, !.now = now, !.scan = Ids]
        /\ served'[r] = "none"
    BY <1>3 DEF GetStart, GetTypes
  <2> QED BY <1>0, <2>1 DEF NoGet
<1>4. ASSUME g.link # None, get'[r].link = g.link, get'[r].now = g.now, served'[r] = served[r],
             \/ get'[r].found = g.found
             \/ get'[r].found = g.id /\ g.id \in Ids /\ meta[g.id] # None
                /\ Matches(meta[g.id], g.link, g.now)
      PROVE  /\ get'[r].link \in issued' /\ get'[r].now <= now' /\ served'[r] = "none"
             /\ get'[r].found # None => /\ get'[r].now < get'[r].link.expires_at
                                        /\ get'[r].found = IdOf[get'[r].link.src]
  BY <1>0, <1>4, MatchIsOwn DEF Visits
<1>5. ASSUME NEW id, NEW found, Scanned(r, id, found)
      PROVE  /\ get'[r].link = g.link /\ get'[r].now = g.now /\ served'[r] = served[r]
             /\ get'[r].found = found
  BY <1>0, <1>5 DEF Scanned, GetTypes, GetStates
<1>6. CASE GetVisit(r)
  <2>1. /\ get'[r].link = g.link /\ get'[r].now = g.now /\ served'[r] = served[r]
        /\ get'[r].found = g.found
    <3>1. PICK id \in g.scan :
            \/ Scanned(r, id, g.found)
            \/ get' = [get EXCEPT ![r].phase = "opening", ![r].id = id] /\ UNCHANGED served
      BY <1>6 DEF GetVisit, NoMetadata
    <3>2. CASE Scanned(r, id, g.found)
      BY <1>5, <3>2
    <3>3. CASE get' = [get EXCEPT ![r].phase = "opening", ![r].id = id] /\ UNCHANGED served
      BY <1>0, <3>3 DEF GetTypes, GetStates
    <3> QED BY <3>1, <3>2, <3>3
  <2> QED BY <1>4, <2>1
<1>7. CASE GetOpen(r)
  <2>1. CASE GetEnds(r, "500")
    BY <1>2, <2>1 DEF GetEnds, GetTypes
  <2>2. CASE /\ meta[g.id] # None
             /\ Scanned(r, g.id, IF Matches(meta[g.id], g.link, g.now) THEN g.id ELSE g.found)
    <3>1. g.id \in Ids
      BY <1>7 DEF GetOpen, GetTypes, GetStates
    <3> QED BY <1>4, <1>5, <2>2, <3>1
  <2> QED BY <1>7, <2>1, <2>2 DEF GetOpen
<1>8. CASE GetResolve(r)
  <2>1. CASE GetEnds(r, "404")
    BY <1>2, <2>1 DEF GetEnds, GetTypes
  <2>2. CASE get' = [get EXCEPT ![r].phase = "reading"] /\ UNCHANGED served
    <3>1. /\ get'[r].link = g.link /\ get'[r].now = g.now /\ served'[r] = served[r]
          /\ get'[r].found = g.found
      BY <1>0, <2>2 DEF GetTypes, GetStates
    <3> QED BY <1>4, <3>1
  <2> QED BY <1>8, <2>1, <2>2 DEF GetResolve
<1>9. CASE GetRead(r)
  BY <1>2, <1>9 DEF GetRead, GetEnds, GetTypes
<1>10. ASSUME NEW q \in Readers, q # r,
              \/ \E l \in issued : GetStart(q, l)
              \/ GetVisit(q) \/ GetOpen(q) \/ GetResolve(q) \/ GetRead(q)
       PROVE  get'[r] = get[r] /\ served'[r] = served[r]
  BY <1>10
  DEF GetTypes, GetStart, GetVisit, NoMetadata, GetOpen, GetResolve, GetRead, GetEnds, Scanned
<1> QED
  BY <1>1, <1>2, <1>3, <1>6, <1>7, <1>8, <1>9, <1>10, GetSteps DEF getVars

LEMMA VisitsInvariant ==
  ServiceSpec => [](Types /\ Locked /\ GcTypes /\ GetTypes /\ Traced /\ Visits)
BY VisitsInit, VisitsNext, TracedInvariant, PTL DEF ServiceSpec

(* A signed file is only returned by the last step of a download, and it is    *)
(* the one of the build that was found.                                      *)
LEMMA OnlyReadsServe ==
  ASSUME Types, GetTypes, Visits, [ServiceNext]_serviceVars,
         NEW r \in Readers, get[r].link # None, served'[r] \in Sources
  PROVE  LET id == IdOf[get[r].link.src] IN
         /\ get[r].now < get[r].link.expires_at
         /\ artifact[id] # None /\ served'[r] = artifact[id].src
<1>1. served'[r] \notin {"none", "404", "500"} /\ served[r] = "none" /\ get[r].phase # "idle"
  BY ServiceAssumption DEF Visits, GetTypes
<1>2. GetRead(r)
  <2>1. ASSUME NEW q \in Readers, NEW l \in issued, GetStart(q, l) PROVE FALSE
    BY <1>1, <2>1 DEF GetStart, GetTypes
  <2>2. ASSUME NEW q \in Readers, GetVisit(q) \/ GetOpen(q) \/ GetResolve(q) PROVE FALSE
    BY <1>1, <2>2
    DEF GetTypes, GetVisit, NoMetadata, GetOpen, GetResolve, GetEnds, Scanned
  <2>3. ASSUME NEW q \in Readers, GetRead(q), q # r PROVE FALSE
    BY <1>1, <2>3 DEF GetTypes, GetRead, GetEnds
  <2> QED BY <1>1, <2>1, <2>2, <2>3, GetSteps DEF getVars
<1>3. get[r].now < get[r].link.expires_at /\ get[r].found = IdOf[get[r].link.src]
  BY <1>2 DEF GetRead, GetTypes, Visits
<1>4. served'[r] = Response(artifact[get[r].found])
  BY <1>2 DEF GetRead, GetEnds, GetTypes
<1> QED BY <1>1, <1>3, <1>4 DEF Response

(* Whatever becomes of a build, a download that began after its link had      *)
(* expired gets nothing.                                                     *)
THEOREM ExpiredStaysClosed == ServiceSpec => ExpiredIsNotServed
<1> DEFINE Closed == \A r \in Readers : get[r].link # None /\ served'[r] \in Sources
                       => get[r].now < get[r].link.expires_at
<1>1. Types /\ GetTypes /\ Visits /\ [ServiceNext]_serviceVars => [Closed]_serviceVars
  BY OnlyReadsServe
<1> QED BY <1>1, VisitsInvariant, PTL DEF ServiceSpec, ExpiredIsNotServed

(* A download of a steady link has found its build or has it still before it. *)
Steady ==
  \A r \in Readers : steady[r] /\ get[r].link # None =>
    LET id == IdOf[get[r].link.src] IN
    /\ gc.phase = "idle"
    /\ meta[id] # None /\ Matches(meta[id], get[r].link, now) /\ artifact[id] # None
    /\ id \in get[r].scan \/ get[r].found = id
    /\ get[r].phase = "opening" => meta[get[r].id] # None

LEMMA SteadyInit == ServiceInit => Steady
BY DEF ServiceInit, Steady

(* Submissions remove no metadata.                                           *)
LEMMA NothingLost ==
  ASSUME Types, [Next]_vars, NEW id \in Ids, meta[id] # None
  PROVE  meta'[id] # None
<1>1. ASSUME NEW t \in Tasks, pc[t] \in {"renewing", "publishing", "recording"},
             NEW m \in {ReadyMetadata(request[t], ctx[t]), FailedMetadata(request[t], ctx[t])},
             meta' = [meta EXCEPT ![Id(t)] = m]
      PROVE  meta'[id] # None
  <2>1. m # None
    BY <1>1, SavedTypes, NoneAssumption DEF Types
  <2> QED BY <1>1, <2>1 DEF Types
<1> QED BY <1>1, MetaChanges

LEMMA SteadyNext ==
  Types /\ GcTypes /\ GetTypes /\ Traced /\ Visits /\ Steady /\ [ServiceNext]_serviceVars
    => Steady'
<1> SUFFICES ASSUME Types, GcTypes, GetTypes, Traced, Visits, Steady,
                    [ServiceNext]_serviceVars,
                    NEW r \in Readers, steady'[r], get'[r].link # None
             PROVE  LET id == IdOf[get'[r].link.src] IN
                    /\ gc'.phase = "idle"
                    /\ meta'[id] # None /\ Matches(meta'[id], get'[r].link, now')
                    /\ artifact'[id] # None
                    /\ id \in get'[r].scan \/ get'[r].found = id
                    /\ get'[r].phase = "opening" => meta'[get'[r].id] # None
  BY DEF Steady
<1>1. CASE UNCHANGED serviceVars
  BY <1>1 DEF Steady, serviceVars, vars, disk, gcVars, getVars, env
<1>2. CASE ServiceNext
  <2> DEFINE g == get[r]
             id == IdOf[get'[r].link.src]
  <2>1. /\ gc.phase = "idle" /\ gc'.phase = "idle"
        /\ meta'[id] # None /\ Matches(meta'[id], get'[r].link, now') /\ artifact'[id] # None
        /\ g.link # None => steady[r]
    BY <1>2 DEF ServiceNext, Watch, ServableThen
  <2>2. \A i \in Ids : meta[i] # None => meta'[i] # None
    <3>1. CASE GcNext
      BY <2>1, <3>1, GcSteps, ServiceAssumption DEF GcTypes
    <3>2. CASE [Next]_vars
      BY <3>2, NothingLost
    <3> QED BY <3>1, <3>2, ServiceSteps
  <2>3. g \in GetStates
    BY DEF GetTypes
  <2> SUFFICES /\ id \in get'[r].scan \/ get'[r].found = id
               /\ get'[r].phase = "opening" => meta'[get'[r].id] # None
    BY <2>1
  <2>4. ASSUME NEW l \in issued, GetStart(r, l)
        PROVE  get'[r].scan = Ids /\ get'[r].phase # "opening" /\ id \in Ids
    <3>1. get'[r] = [NoGet EXCEPT !.phase = "scanning", !.link = l, !.now = now, !.scan = Ids]
      BY <2>4 DEF GetStart, GetTypes
    <3>2. get'[r].link = l /\ l.src \in Sources
      BY <3>1 DEF NoGet, Types, Links
    <3> QED BY <3>1, <3>2, IdAssumption DEF NoGet
  <2>5. ASSUME g.link # None, get'[r].link = g.link
        PROVE  /\ meta[id] # None /\ Matches(meta[id], g.link, now) /\ g.link \in issued
               /\ g.now \in Nat /\ g.now <= now /\ now \in Nat /\ id \in Ids
               /\ id \in g.scan \/ g.found = id
               /\ g.phase = "opening" => meta[g.id] # None
    <3>1. g.link \in issued /\ id \in Ids
      BY <2>5, IdAssumption DEF Visits, Types, Links
    <3> QED BY <2>1, <2>3, <2>5, <3>1 DEF Steady, Visits, Types, GetStates
  <2>6. CASE get' = get
    <3>1. g.phase = "opening" => g.id \in Ids
      BY DEF GetTypes, GetStates
    <3> QED BY <2>2, <2>5, <2>6, <3>1
  <2>7. ASSUME NEW i \in Ids, NEW found, Scanned(r, i, found)
        PROVE  /\ get'[r].link = g.link /\ get'[r].scan = g.scan \ {i}
               /\ get'[r].found = found /\ get'[r].phase = "scanning"
    BY <2>3, <2>7 DEF Scanned, GetTypes, GetStates
  <2>8. CASE GetVisit(r) /\ UNCHANGED vars
    <3>0. meta' = meta /\ g.phase = "scanning" /\ g.scan \subseteq Ids
      BY <2>3, <2>8 DEF vars, disk, GetVisit, GetStates
    <3>1. PICK i \in g.scan :
            \/ meta[i] = None /\ Scanned(r, i, g.found)
            \/ meta[i] # None /\ get' = [get EXCEPT ![r].phase = "opening", ![r].id = i]
      BY <2>8 DEF GetVisit, NoMetadata
    <3>2. CASE meta[i] = None /\ Scanned(r, i, g.found)
      BY <2>5, <2>7, <3>0, <3>1, <3>2
    <3>3. CASE meta[i] # None /\ get' = [get EXCEPT ![r].phase = "opening", ![r].id = i]
      <4>1. /\ get'[r].link = g.link /\ get'[r].scan = g.scan
            /\ get'[r].found = g.found /\ get'[r].id = i
        BY <2>3, <3>3 DEF GetTypes, GetStates
      <4> QED BY <2>5, <3>0, <3>3, <4>1
    <3> QED BY <3>1, <3>2, <3>3
  <2>9. CASE GetOpen(r) /\ UNCHANGED vars
    <3>1. CASE GetEnds(r, "500")
      BY <3>1 DEF GetEnds, GetTypes, NoGet
    <3>2. CASE /\ meta[g.id] # None
               /\ Scanned(r, g.id, IF Matches(meta[g.id], g.link, g.now) THEN g.id ELSE g.found)
      <4>1. g.id \in Ids
        BY <2>9 DEF GetOpen, GetTypes, GetStates
      <4>2. /\ get'[r].link = g.link /\ get'[r].scan = g.scan \ {g.id}
            /\ get'[r].found = IF Matches(meta[g.id], g.link, g.now) THEN g.id ELSE g.found
            /\ get'[r].phase = "scanning"
        BY <2>7, <3>2, <4>1
      <4>3. CASE g.id = id
        <5>1. Matches(meta[id], g.link, g.now)
          <6>1. meta[id] \in Metadata /\ meta[id].tokens \subseteq Tokens
            BY <2>5, <4>2 DEF Types, Metadata
          <6> QED BY <2>5, <4>2, <6>1 DEF Matches, Metadata, Tokens
        <5> QED BY <4>2, <4>3, <5>1
      <4>4. CASE g.id # id
        <5>1. ~Matches(meta[g.id], g.link, g.now)
          BY <2>5, <3>2, <4>1, <4>2, <4>4, MatchIsOwn
        <5> QED BY <2>5, <4>2, <4>4, <5>1
      <4> QED BY <4>3, <4>4
    <3> QED BY <2>9, <3>1, <3>2 DEF GetOpen
  <2>10. CASE GetResolve(r)
    <3>1. CASE GetEnds(r, "404")
      BY <3>1 DEF GetEnds, GetTypes, NoGet
    <3>2. CASE get' = [get EXCEPT ![r].phase = "reading"]
      <4>1. /\ get'[r].link = g.link /\ get'[r].scan = g.scan
            /\ get'[r].found = g.found /\ get'[r].phase = "reading"
        BY <2>3, <3>2 DEF GetTypes, GetStates
      <4> QED BY <2>5, <4>1
    <3> QED BY <2>10, <3>1, <3>2 DEF GetResolve
  <2>11. CASE GetRead(r) \/ get'[r] = NoGet
    BY <2>11 DEF GetRead, GetEnds, GetTypes, NoGet
  <2>12. ASSUME NEW q \in Readers, q # r, UNCHANGED vars,
                \/ \E l \in issued : GetStart(q, l)
                \/ GetVisit(q) \/ GetOpen(q) \/ GetResolve(q) \/ GetRead(q)
         PROVE  /\ id \in get'[r].scan \/ get'[r].found = id
                /\ get'[r].phase = "opening" => meta'[get'[r].id] # None
    <3>1. get'[r] = get[r] /\ meta' = meta
      BY <2>12
      DEF GetTypes, GetStart, GetVisit, NoMetadata, GetOpen, GetResolve, GetRead, GetEnds,
          Scanned, vars, disk
    <3> QED BY <2>5, <3>1
  <2> QED
    BY <2>4, <2>6, <2>8, <2>9, <2>10, <2>11, <2>12, GetSteps DEF getVars
<1> QED BY <1>1, <1>2

LEMMA SteadyInvariant == ServiceSpec => [](Types /\ GcTypes /\ GetTypes /\ Visits /\ Steady)
BY SteadyInit, SteadyNext, VisitsInit, VisitsNext, TracedInvariant, PTL DEF ServiceSpec

(* Neither renewals, rebuilds and other builds nor what an earlier gc has     *)
(* left make a download of a link fail that can be served all along.         *)
THEOREM ServableIsServed == ServiceSpec => SteadyLinkIsServed
<1> DEFINE Kept == \A r \in Readers : steady[r] /\ get[r].link # None /\ get'[r].link = None
                                     /\ crashes' = crashes
                     => served'[r] \in Sources
<1>1. Types /\ GcTypes /\ GetTypes /\ Visits /\ Steady /\ [ServiceNext]_serviceVars => Kept
  <2> SUFFICES ASSUME Types, GcTypes, GetTypes, Visits, Steady, [ServiceNext]_serviceVars,
                      NEW r \in Readers, steady[r], get[r].link # None, get'[r].link = None,
                      crashes' = crashes
               PROVE  served'[r] \in Sources
    OBVIOUS
  <2> DEFINE g == get[r]
             id == IdOf[g.link.src]
  <2>0. g \in GetStates
    BY DEF GetTypes
  <2>1. /\ id \in Ids /\ artifact[id] # None /\ id # None
        /\ id \in g.scan \/ g.found = id
        /\ g.phase = "opening" => meta[g.id] # None
        /\ g.found # None => g.found = id
    <3>1. g.link \in Links
      BY DEF Visits, Types
    <3> QED BY <3>1, IdAssumption, ServiceAssumption DEF Steady, Visits, Links
  <2>2. ASSUME NEW i \in Ids, NEW found, Scanned(r, i, found) PROVE FALSE
    BY <2>0, <2>2 DEF Scanned, GetTypes, GetStates
  <2>3. ~GetVisit(r)
    <3>1. ASSUME NEW i \in g.scan, get' = [get EXCEPT ![r].phase = "opening", ![r].id = i]
          PROVE  FALSE
      BY <2>0, <3>1 DEF GetTypes, GetStates
    <3>2. g.scan \subseteq Ids
      BY <2>0 DEF GetStates
    <3> QED BY <2>2, <3>1, <3>2 DEF GetVisit, NoMetadata
  <2>4. ~GetOpen(r)
    <3>1. g.phase = "opening" => g.id \in Ids
      BY DEF GetTypes, GetStates
    <3> QED BY <2>1, <2>2, <3>1 DEF GetOpen
  <2>5. ~GetResolve(r)
    <3>1. ASSUME get' = [get EXCEPT ![r].phase = "reading"] PROVE FALSE
      BY <2>0, <3>1 DEF GetTypes, GetStates
    <3> QED BY <2>1, <3>1 DEF GetResolve
  <2>6. ASSUME NEW q \in Readers,
               \/ \E l \in issued : GetStart(q, l)
               \/ GetVisit(q) \/ GetOpen(q) \/ GetResolve(q) \/ GetRead(q)
        PROVE  q = r
    BY <2>6
    DEF GetTypes, GetStart, GetVisit, NoMetadata, GetOpen, GetResolve, GetRead, GetEnds, Scanned
  <2>7. ASSUME NEW l \in issued, GetStart(r, l) PROVE FALSE
    BY <2>7 DEF GetStart, GetTypes
  <2>8. GetRead(r)
    BY <2>3, <2>4, <2>5, <2>6, <2>7, GetSteps DEF getVars
  <2>9. g.found = id /\ artifact[id] \in Artifacts
    BY <2>1, <2>8 DEF GetRead, GetTypes, Types
  <2>10. served'[r] = artifact[id].src
    BY <2>1, <2>8, <2>9 DEF GetRead, GetEnds, Response, GetTypes
  <2> QED BY <2>9, <2>10 DEF Artifacts
<1>2. Types /\ GcTypes /\ GetTypes /\ Visits /\ Steady /\ [ServiceNext]_serviceVars
        => [Kept]_serviceVars
  BY <1>1
<1> QED BY <1>2, SteadyInvariant, PTL DEF ServiceSpec, SteadyLinkIsServed

-----------------------------------------------------------------------------
(* gc beside submissions.                                                    *)

(* gc is only run while no submission is handled, or not at all.             *)
GcIsApart == ~GcWhileServing \/ MaxGcRuns = 0

(* While gc runs nobody submits, and what it is about to remove has expired.  *)
Apart ==
  /\ gc.phase # "idle" => \A t \in Tasks : pc[t] = "idle"
  /\ gc.phase # "idle" => gc.threshold <= now
  /\ \A id \in gc.victims \union {gc.dir} :
       id # None /\ meta[id] # None => meta[id].expires_at < gc.threshold
  /\ gc.phase = "idle" => gc.victims = {}

LEMMA ApartInit == ServiceInit => Apart /\ Current /\ Owned
BY CurrentInit, OwnedInit DEF ServiceInit, Apart, NoGc

LEMMA ApartNext ==
  ASSUME GcIsApart
  PROVE  Types /\ GcTypes /\ Apart /\ [ServiceNext]_serviceVars => Apart'
<1> SUFFICES ASSUME Types, GcTypes, Apart, [ServiceNext]_serviceVars PROVE Apart'
  OBVIOUS
<1>1. CASE UNCHANGED serviceVars
  BY <1>1 DEF Apart, serviceVars, vars, tasks, disk, env, gcVars
<1>2. CASE ServerNext \/ GetNext
  <2>1. gc' = gc /\ gcRuns' = gcRuns
    BY <1>2 DEF ServerNext, GetNext, gcVars
  <2>2. CASE gc.phase = "idle"
    BY <2>1, <2>2 DEF Apart, GcTypes
  <2>3. CASE gc.phase # "idle"
    <3>1. pc' = pc /\ meta' = meta
      <4>1. CASE GetNext
        BY <4>1 DEF GetNext, vars, tasks, disk
      <4>2. CASE ServerNext
        <5>1. pc' = pc /\ Next
          BY <2>3, <4>2 DEF ServerNext, GcIsApart, GcTypes
        <5> QED BY <2>3, <5>1, MetaChanges DEF Apart
      <4> QED BY <1>2, <4>1, <4>2
    <3>2. now \in Nat /\ now' \in Nat /\ now <= now' /\ gc.threshold \in Int
      BY LinksAndTime DEF GcTypes, GcStates
    <3> QED BY <2>1, <2>3, <3>1, <3>2 DEF Apart
  <2> QED BY <2>2, <2>3
<1>3. CASE GcNext
  <2> USE ServiceAssumption
  <2>0. UNCHANGED <<pc, now>> /\ now \in Nat
    BY <1>3, GcSteps DEF Types
  <2>1. CASE GcStart
    <3>1. PICK age \in Ages :
            gc' = [NoGc EXCEPT !.phase = "scanning", !.threshold = GcThreshold(age), !.scan = Ids]
      BY <2>1 DEF GcStart
    <3>2. /\ gc'.phase = "scanning" /\ gc'.threshold = now - age
          /\ gc'.victims = {} /\ gc'.dir = None
      BY <3>1 DEF NoGc, GcThreshold
    <3>3. age \in Nat
      OBVIOUS
    <3>4. \A t \in Tasks : pc[t] = "idle"
      BY <2>1 DEF GcStart, GcIsApart, GcTypes
    <3> QED BY <2>0, <3>2, <3>3, <3>4 DEF Apart
  <2>2. CASE GcScan
    <3>1. PICK id \in gc.scan :
            gc' = [gc EXCEPT !.scan = @ \ {id},
                             !.victims = IF meta[id] # None /\ meta[id].expires_at < gc.threshold
                                           THEN @ \union {id} ELSE @]
      BY <2>2 DEF GcScan
    <3>2. /\ gc'.phase = gc.phase /\ gc'.threshold = gc.threshold /\ gc'.dir = gc.dir
          /\ gc'.victims = IF meta[id] # None /\ meta[id].expires_at < gc.threshold
                             THEN gc.victims \union {id} ELSE gc.victims
      BY <3>1 DEF GcTypes, GcStates
    <3>3. meta' = meta /\ gc.phase = "scanning"
      BY <2>2 DEF GcScan
    <3> QED BY <2>0, <3>2, <3>3 DEF Apart
  <2>3. CASE GcScanned
    <3>1. /\ gc'.phase = "removing" /\ gc'.threshold = gc.threshold /\ gc'.dir = gc.dir
          /\ gc'.victims = gc.victims /\ meta' = meta /\ gc.phase # "idle"
      BY <2>3 DEF GcScanned, GcTypes, GcStates
    <3> QED BY <2>0, <3>1 DEF Apart
  <2>4. CASE GcList
    <3>1. PICK id \in gc.victims :
            gc' = [gc EXCEPT !.dir = id, !.victims = @ \ {id},
                             !.left = {f \in Files : IF f = "metadata" THEN meta[id] # None
                                                                       ELSE artifact[id] # None}]
      BY <2>4 DEF GcList
    <3>2. /\ gc'.phase = gc.phase /\ gc'.threshold = gc.threshold /\ gc'.dir = id
          /\ gc'.victims = gc.victims \ {id} /\ meta' = meta /\ gc.phase # "idle"
      BY <2>4, <3>1 DEF GcList, GcTypes, GcStates
    <3> QED BY <2>0, <3>2 DEF Apart
  <2>5. CASE \E f \in Files : GcUnlink(f)
    <3>1. /\ gc'.phase = gc.phase /\ gc'.threshold = gc.threshold /\ gc'.dir = gc.dir
          /\ gc'.victims = gc.victims
      BY <2>5 DEF GcUnlink, GcTypes, GcStates
    <3>2. gc.victims \union {gc.dir} \subseteq Ids \union {None}
      BY DEF GcTypes, GcStates
    <3>3. \A id \in Ids : meta'[id] = meta[id] \/ meta'[id] = None
      BY <1>3, GcSteps
    <3> QED BY <2>0, <3>1, <3>2, <3>3 DEF Apart
  <2>6. CASE GcRemoved
    <3>1. /\ gc'.phase = gc.phase /\ gc'.threshold = gc.threshold /\ gc'.dir = None
          /\ gc'.victims = gc.victims /\ meta' = meta
      BY <2>6 DEF GcRemoved, GcTypes, GcStates
    <3> QED BY <2>0, <3>1 DEF Apart
  <2>7. CASE GcEnds
    BY <2>7 DEF GcEnds, NoGc, Apart
  <2> QED BY <1>3, <2>1, <2>2, <2>3, <2>4, <2>5, <2>6, <2>7 DEF GcNext
<1> QED BY <1>1, <1>2, <1>3 DEF ServiceNext

(* What submissions rely on outlives gc: it works while there are none.      *)
LEMMA RecordsNext ==
  Types /\ Locked /\ GcTypes /\ Apart /\ Apart' /\ Current /\ Owned /\ [ServiceNext]_serviceVars
    => Current' /\ Owned'
<1> SUFFICES ASSUME Types, Locked, GcTypes, Apart, Apart', Current, Owned,
                    [ServiceNext]_serviceVars
             PROVE  Current' /\ Owned'
  OBVIOUS
<1>1. CASE [Next]_vars
  BY <1>1, CurrentNext, OwnedNext
<1>2. CASE GcNext
  <2>1. ASSUME NEW t \in Tasks PROVE pc'[t] = "idle"
    <3>1. gc.phase # "idle" \/ gc'.phase # "idle"
      BY <1>2 DEF GcNext, GcStart, GcScan, GcScanned, GcList, GcUnlink, GcRemoved, GcEnds,
                  NoGc, GcTypes
    <3>2. pc' = pc
      BY <1>2, GcSteps
    <3> QED BY <3>1, <3>2 DEF Apart
  <2>2. Current'
    BY <2>1 DEF Current
  <2>3. \A id \in Ids : /\ meta'[id] = meta[id] \/ meta'[id] = None
                        /\ artifact'[id] = artifact[id] \/ artifact'[id] = None
    BY <1>2, GcSteps
  <2>4. Owned'
    BY <2>1, <2>3 DEF Owned, ArtifactIsOwn
  <2> QED BY <2>2, <2>4
<1> QED BY <1>1, <1>2, ServiceSteps

LEMMA ApartInvariant ==
  ASSUME GcIsApart
  PROVE  ServiceSpec => [](Types /\ Locked /\ GcTypes /\ Apart /\ Current /\ Owned)
BY ServiceTypesInit, BaseTypesNext, GcTypesNext, ApartInit, ApartNext, RecordsNext, PTL
DEF ServiceSpec

(* gc run while no submission is handled removes only what has expired.      *)
THEOREM GcSparesTheLiving ==
  ASSUME GcIsApart
  PROVE  ServiceSpec => GcRemovesOnlyExpired
<1> DEFINE Spared == \A id \in Ids : meta[id] # None /\ meta'[id] = None
                       => meta[id].expires_at <= now
<1>1. Types /\ GcTypes /\ Apart /\ [ServiceNext]_serviceVars => [Spared]_serviceVars
  <2> SUFFICES ASSUME Types, GcTypes, Apart, [ServiceNext]_serviceVars,
                      NEW id \in Ids, meta[id] # None, meta'[id] = None
               PROVE  meta[id].expires_at <= now
    OBVIOUS
  <2>1. GcNext
    BY NothingLost, ServiceSteps
  <2>2. gc.dir = id
    BY <2>1, GcSteps
  <2>3. meta[id].expires_at < gc.threshold /\ gc.threshold <= now
    BY <2>2, ServiceAssumption DEF Apart, GcTypes
  <2>4. meta[id].expires_at \in Nat /\ gc.threshold \in Int /\ now \in Nat
    BY DEF Types, Metadata, GcTypes, GcStates
  <2> QED BY <2>3, <2>4
<1> QED BY <1>1, ApartInvariant, PTL DEF ServiceSpec, GcRemovesOnlyExpired

(* gc run while no submission is handled never makes what a task has read      *)
(* stale, and a ready build keeps offering the file of its own source.        *)
THEOREM GcDisturbsNobody ==
  ASSUME GcIsApart
  PROVE  ServiceSpec => [](ContextIsCurrent /\ ArtifactIsOwn)
<1>1. Current /\ Owned => ContextIsCurrent /\ ArtifactIsOwn
  BY DEF Current, Owned, ContextIsCurrent
<1> QED BY <1>1, ApartInvariant, PTL

(* Neither gc, whenever it runs, nor downloads disturb the per-build locks     *)
(* and the build slots.                                                      *)
THEOREM ServiceKeepsLocksAndSlots == ServiceSpec => [](MutualExclusion /\ SlotsConserved)
<1>1. ServiceInit => SlotsConserved
  BY SlotsInit DEF ServiceInit
<1>2. Types /\ GcTypes /\ SlotsConserved /\ [ServiceNext]_serviceVars => SlotsConserved'
  <2> SUFFICES ASSUME Types, GcTypes, SlotsConserved, [ServiceNext]_serviceVars
               PROVE  SlotsConserved'
    OBVIOUS
  <2>1. CASE [Next]_vars
    BY <2>1, SlotsNext
  <2>2. CASE GcNext
    <3>1. UNCHANGED <<pc, free>>
      BY <2>2, GcSteps
    <3> QED BY <3>1, SameSlots
  <2> QED BY <2>1, <2>2, ServiceSteps
<1> QED
  BY <1>1, <1>2, TracedInvariant, LockedExcludes, PTL DEF ServiceSpec

-----------------------------------------------------------------------------
(* Whose file a download returns.                                            *)

(* Every source has an id of its own, or nothing is ever removed.            *)
NoMixUp == MaxGcRuns = 0 \/ \A s, u \in Sources : IdOf[s] = IdOf[u] => s = u

(* A file lies in the build of its source, and where a link was handed out it *)
(* is the file of the link's source.                                         *)
LinkedFiles ==
  /\ \A t \in Tasks : pc[t] \in Building \union {"persisting"} => out[t].src = request[t].src
  /\ \A id \in Ids : artifact[id] # None => IdOf[artifact[id].src] = id
  /\ \A l \in issued :
       LET id == IdOf[l.src] IN
       /\ artifact[id] # None => artifact[id].src = l.src
       /\ MaxGcRuns = 0 => meta[id] # None /\ meta[id].src = l.src

LEMMA LinkedInit == ServiceInit => LinkedFiles
BY DEF ServiceInit, Init, LinkedFiles

LEMMA LinkedNext ==
  ASSUME NoMixUp
  PROVE  Types /\ Locked /\ GcTypes /\ (MaxGcRuns = 0 => Current /\ Owned) /\ LinkedFiles
           /\ [ServiceNext]_serviceVars
         => LinkedFiles'
<1> SUFFICES ASSUME Types, Locked, GcTypes, MaxGcRuns = 0 => Current /\ Owned,
                    LinkedFiles, [ServiceNext]_serviceVars
             PROVE  LinkedFiles'
  OBVIOUS
<1>0. /\ \A t \in Tasks : pc[t] # "idle" => Id(t) \in Ids /\ request[t].src \in Sources
      /\ \A l \in issued : IdOf[l.src] \in Ids /\ l.src \in Sources
      /\ \A id \in Ids : artifact[id] # None => artifact[id].src \in Sources
  BY IdAssumption DEF Types, Requests, Links, Artifacts
<1>1. CASE GcNext
  <2>1. UNCHANGED <<pc, out, request, issued>>
    BY <1>1, GcSteps
  <2>2. \A id \in Ids : artifact'[id] = artifact[id] \/ artifact'[id] = None
    BY <1>1, GcSteps
  <2>3. MaxGcRuns # 0
    <3>1. gc.phase # "idle" \/ gcRuns < MaxGcRuns
      BY <1>1
      DEF GcNext, GcStart, GcScan, GcScanned, GcList, GcUnlink, GcRemoved, GcEnds, GcTypes
    <3>2. gcRuns \in 0..MaxGcRuns /\ (gc.phase # "idle" => gcRuns > 0)
      BY DEF GcTypes
    <3> QED BY <3>1, <3>2, ServiceAssumption
  <2> QED BY <1>0, <2>1, <2>2, <2>3 DEF LinkedFiles
<1>2. CASE [Next]_vars
  <2>1. ASSUME NEW t \in Tasks, pc'[t] \in Building \union {"persisting"}
        PROVE  out'[t].src = request'[t].src
    <3>1. request'[t] = request[t]
      BY <1>2, <2>1, PipelineChanges
    <3>2. CASE pc[t] \in Building \union {"persisting"} /\ out'[t] = out[t]
      BY <3>1, <3>2 DEF LinkedFiles
    <3>3. CASE out'[t] = [src |-> request[t].src, tool |-> toolchain]
      BY <3>1, <3>3
    <3> QED BY <1>2, <2>1, <3>2, <3>3, PipelineChanges
  <2>2. ASSUME NEW id \in Ids, artifact'[id] # None, artifact'[id] # artifact[id]
        PROVE  \E t \in Tasks : /\ pc[t] = "persisting" /\ id = Id(t)
                                /\ artifact'[id].src = request[t].src /\ meta' = meta
    <3>1. PICK t \in Tasks :
            /\ meta' = meta
            /\ \/ pc[t] = "persisting" /\ artifact' = [artifact EXCEPT ![Id(t)] = out[t]]
               \/ pc[t] = "failing" /\ artifact' = [artifact EXCEPT ![Id(t)] = None]
      BY <1>2, <2>2, FileChanges
    <3>2. id = Id(t) /\ pc[t] = "persisting" /\ artifact'[id] = out[t]
      BY <2>2, <3>1 DEF Types
    <3> QED BY <3>1, <3>2 DEF LinkedFiles
  <2>3. \A id \in Ids : artifact'[id] # None => IdOf[artifact'[id].src] = id
    BY <2>2 DEF LinkedFiles
  <2>4. \A id \in Ids : artifact'[id] # None => artifact'[id].src \in Sources
    <3>1. Types'
      BY <1>2, TypesNext
    <3> QED BY <3>1 DEF Types, Artifacts
  <2>5. issued' \subseteq Links
    BY <1>2, TypesNext DEF Types
  <2>6. CASE MaxGcRuns # 0
    <3>1. \A l \in issued' : IdOf[l.src] \in Ids /\ l.src \in Sources
      BY <2>5, IdAssumption DEF Links
    <3> QED BY <2>1, <2>3, <2>4, <2>6, <3>1 DEF LinkedFiles, NoMixUp
  <2>7. CASE MaxGcRuns = 0
    <3>1. ASSUME NEW t \in Tasks, pc[t] \in {"renewing", "publishing", "recording"},
                 NEW m \in {ReadyMetadata(request[t], ctx[t]), FailedMetadata(request[t], ctx[t])}
          PROVE  m # None /\ m.src = request[t].src
      <4>1. m \in Metadata
        BY <3>1, SavedTypes DEF Types
      <4>2. m.src = request[t].src
        BY <3>1 DEF ReadyMetadata, FailedMetadata, BuildMetadata
      <4> QED BY <4>1, <4>2, NoneAssumption
    <3>2. ASSUME NEW l \in issued
          PROVE  LET id == IdOf[l.src] IN
                 /\ artifact'[id] # None => artifact'[id].src = l.src
                 /\ meta'[id] # None /\ meta'[id].src = l.src
      <4> DEFINE id == IdOf[l.src]
      <4>1. id \in Ids /\ meta[id] # None /\ meta[id].src = l.src
        BY <1>0, <2>7 DEF LinkedFiles
      <4>2. ASSUME NEW t \in Tasks, pc[t] \in InLock \ {"loading"}, Id(t) = id
            PROVE  request[t].src = l.src
        BY <2>7, <4>1, <4>2 DEF Current
      <4>3. artifact'[id] # None => artifact'[id].src = l.src
        BY <2>2, <4>1, <4>2 DEF LinkedFiles
      <4>4. meta'[id] # None /\ meta'[id].src = l.src
        <5>1. ASSUME NEW t \in Tasks, pc[t] \in {"renewing", "publishing", "recording"},
                     NEW m \in {ReadyMetadata(request[t], ctx[t]),
                                FailedMetadata(request[t], ctx[t])},
                     meta' = [meta EXCEPT ![Id(t)] = m]
              PROVE  meta'[id] # None /\ meta'[id].src = l.src
          <6>1. CASE Id(t) = id
            BY <3>1, <4>1, <4>2, <5>1, <6>1 DEF Types
          <6>2. CASE Id(t) # id
            BY <4>1, <5>1, <6>2 DEF Types
          <6> QED BY <6>1, <6>2
        <5> QED BY <1>2, <4>1, <5>1, MetaChanges
      <4> QED BY <4>3, <4>4
    <3>3. ASSUME NEW l \in issued', l \notin issued
          PROVE  LET id == IdOf[l.src] IN
                 /\ artifact'[id] # None => artifact'[id].src = l.src
                 /\ meta'[id] # None /\ meta'[id].src = l.src
      <4>1. PICK t \in Tasks : SaveReady(t) /\ l = Link(request[t], ctx[t])
                               /\ meta' = [meta EXCEPT ![Id(t)] = ReadyMetadata(request[t], ctx[t])]
        BY <1>2, <3>3
        DEF Next, TaskNext, Progress, Submit, Lock, Load, Probe, Refuse, StartBuild,
            CompileEnds, SignEnds, BuildFails, PersistArtifact, SaveReady, RemoveArtifact,
            SaveFailed, LeaveQueue, LeaveBuild, OrphanEnds, Crash, Tick, ChangeTools, vars
      <4>2. pc[t] \in {"renewing", "publishing"} /\ artifact' = artifact
        BY <4>1 DEF SaveReady
      <4>3. l.src = request[t].src /\ IdOf[l.src] = Id(t) /\ Id(t) \in Ids
        BY <1>0, <4>1, <4>2 DEF Link
      <4>4. artifact[Id(t)].src = request[t].src
        BY <2>7, <4>2 DEF Owned
      <4>5. meta'[Id(t)] # None /\ meta'[Id(t)].src = request[t].src
        BY <3>1, <4>1, <4>2, <4>3 DEF Types
      <4> QED BY <4>2, <4>3, <4>4, <4>5
    <3> QED BY <2>1, <2>3, <3>2, <3>3 DEF LinkedFiles
  <2> QED BY <2>6, <2>7
<1> QED BY <1>1, <1>2, ServiceSteps

LEMMA LinkedInvariant ==
  ASSUME NoMixUp
  PROVE  ServiceSpec => [](Types /\ GetTypes /\ Visits /\ LinkedFiles)
<1>1. ServiceSpec => [](MaxGcRuns = 0 => Current /\ Owned)
  <2>1. CASE MaxGcRuns = 0
    <3>1. GcIsApart
      BY <2>1 DEF GcIsApart
    <3>2. ServiceSpec => [](Current /\ Owned)
      BY <3>1, ApartInvariant, PTL
    <3>3. Current /\ Owned => (MaxGcRuns = 0 => Current /\ Owned)
      OBVIOUS
    <3> QED BY <3>2, <3>3, PTL
  <2>2. CASE MaxGcRuns # 0
    <3>1. MaxGcRuns = 0 => Current /\ Owned
      BY <2>2
    <3> QED BY <3>1, PTL
  <2> QED BY <2>1, <2>2
<1> QED BY <1>1, VisitsInvariant, LinkedInit, LinkedNext, PTL DEF ServiceSpec

(* A download never returns the signed file of another source: every source   *)
(* has an id of its own, or builds are never removed, so that the source that *)
(* came first keeps the id.                                                  *)
THEOREM LinksServeTheirSource ==
  ASSUME NoMixUp
  PROVE  ServiceSpec => DownloadsAreOwn
<1> DEFINE Own == \A r \in Readers : get[r].link # None /\ served'[r] \in Sources
                    => served'[r] = get[r].link.src
<1>1. Types /\ GetTypes /\ Visits /\ LinkedFiles /\ [ServiceNext]_serviceVars
        => [Own]_serviceVars
  <2> SUFFICES ASSUME Types, GetTypes, Visits, LinkedFiles, [ServiceNext]_serviceVars,
                      NEW r \in Readers, get[r].link # None, served'[r] \in Sources
               PROVE  served'[r] = get[r].link.src
    OBVIOUS
  <2>1. get[r].link \in issued
    BY DEF Visits
  <2> QED BY <2>1, OnlyReadsServe DEF LinkedFiles
<1> QED BY <1>1, LinkedInvariant, PTL DEF ServiceSpec, DownloadsAreOwn

-----------------------------------------------------------------------------
(* What submissions keep although gc may run at any time.                    *)

(* What a task has read of its build is what is there, unless gc has removed  *)
(* it since; and it is of the source of the task.                            *)
Seen ==
  \A t \in Tasks : pc[t] \in InLock \ {"loading"} =>
    /\ meta[Id(t)] # None => /\ ctx[t].existing = meta[Id(t)]
                             /\ meta[Id(t)].src = request[t].src
    /\ ctx[t].now <= now

LEMMA SeenInit == ServiceInit => Seen
BY DEF ServiceInit, Init, Seen

LEMMA SeenNext == Types /\ Locked /\ GcTypes /\ Seen /\ [ServiceNext]_serviceVars => Seen'
<1> SUFFICES ASSUME Types, Locked, GcTypes, Seen, [ServiceNext]_serviceVars,
                    NEW t \in Tasks, pc'[t] \in InLock \ {"loading"}
             PROVE  /\ meta'[Id(t)'] # None => /\ ctx'[t].existing = meta'[Id(t)']
                                               /\ meta'[Id(t)'].src = request'[t].src
                    /\ ctx'[t].now <= now'
  BY DEF Seen
<1>1. CASE [Next]_vars
  <2>1. Id(t)' = Id(t)
    BY <1>1, ReadChanges
  <2> QED BY <1>1, <2>1, ReadChanges DEF Seen
<1>2. CASE GcNext
  <2>1. UNCHANGED <<pc, request, ctx, now>> /\ Id(t)' = Id(t)
    BY <1>2, GcSteps
  <2>2. Id(t) \in Ids
    BY <2>1, IdAssumption DEF Types, Requests
  <2>3. meta'[Id(t)] = meta[Id(t)] \/ meta'[Id(t)] = None
    BY <1>2, <2>2, GcSteps
  <2> QED BY <2>1, <2>3 DEF Seen
<1> QED BY <1>1, <1>2, ServiceSteps

LEMMA SeenInvariant == ServiceSpec => [](Types /\ Locked /\ GcTypes /\ Seen)
BY ServiceTypesInit, BaseTypesNext, GcTypesNext, SeenInit, SeenNext, PTL DEF ServiceSpec

(* A build whose metadata a step changes was saved by a task, which had read  *)
(* it if it is there, or was removed.                                        *)
LEMMA SavedOrRemoved ==
  ASSUME Types, GcTypes, Seen, [ServiceNext]_serviceVars, NEW id \in Ids, meta'[id] # meta[id]
  PROVE  \/ meta'[id] = None
         \/ \E t \in Tasks :
              /\ pc[t] \in {"renewing", "publishing", "recording"}
              /\ meta'[id] \in Metadata
              /\ meta'[id] \in {ReadyMetadata(request[t], ctx[t]),
                                FailedMetadata(request[t], ctx[t])}
              /\ meta[id] # None => /\ ctx[t].existing = meta[id]
                                    /\ meta[id].src = request[t].src
              /\ ctx[t].now \in Nat /\ ctx[t].now <= now
<1>1. CASE GcNext
  BY <1>1, GcSteps
<1>2. CASE [Next]_vars
  <2>1. PICK t \in Tasks :
          /\ pc[t] \in {"renewing", "publishing", "recording"}
          /\ \E m \in {ReadyMetadata(request[t], ctx[t]), FailedMetadata(request[t], ctx[t])} :
               meta' = [meta EXCEPT ![Id(t)] = m]
    BY <1>2, MetaChanges
  <2>2. PICK m \in {ReadyMetadata(request[t], ctx[t]), FailedMetadata(request[t], ctx[t])} :
          meta' = [meta EXCEPT ![Id(t)] = m]
    BY <2>1
  <2>3. id = Id(t) /\ meta'[id] = m
    BY <2>2 DEF Types
  <2>4. m \in Metadata /\ ctx[t].now \in Nat
    BY <2>1, SavedTypes DEF Types, Contexts
  <2> QED BY <2>1, <2>2, <2>3, <2>4 DEF Seen
<1> QED BY <1>1, <1>2, ServiceSteps

(* While a build is there, whatever gc removes beside it, nobody gives it       *)
(* another source or another created_at.                                      *)
IdentityWhileThere ==
  [][\A id \in Ids : meta[id] # None /\ meta'[id] # None =>
       /\ meta'[id].src = meta[id].src
       /\ meta'[id].created_at = meta[id].created_at]_serviceVars

(* With gc at any time, a build that is not removed keeps its identity.       *)
THEOREM IdentityOutlivesGc == ServiceSpec => IdentityWhileThere
<1> DEFINE Stable ==
      \A id \in Ids : meta[id] # None /\ meta'[id] # None =>
        /\ meta'[id].src = meta[id].src
        /\ meta'[id].created_at = meta[id].created_at
<1>1. Types /\ GcTypes /\ Seen /\ [ServiceNext]_serviceVars => [Stable]_serviceVars
  <2> SUFFICES ASSUME Types, GcTypes, Seen, [ServiceNext]_serviceVars,
                      NEW id \in Ids, meta[id] # None, meta'[id] # None, meta'[id] # meta[id]
               PROVE  /\ meta'[id].src = meta[id].src
                      /\ meta'[id].created_at = meta[id].created_at
    OBVIOUS
  <2>1. PICK t \in Tasks :
          /\ meta'[id] \in {ReadyMetadata(request[t], ctx[t]), FailedMetadata(request[t], ctx[t])}
          /\ ctx[t].existing = meta[id] /\ meta[id].src = request[t].src
    BY SavedOrRemoved
  <2>2. meta'[id].src = request[t].src /\ meta'[id].created_at = CreatedAt(ctx[t])
    BY <2>1 DEF ReadyMetadata, FailedMetadata, BuildMetadata
  <2> QED BY <2>1, <2>2 DEF CreatedAt
<1> QED BY <1>1, SeenInvariant, PTL DEF ServiceSpec, IdentityWhileThere

(* A link that was handed out is dropped from its build only when it has       *)
(* expired, when the build has failed or when the build is removed.           *)
LinksSurviveSubmissions ==
  [][\A l \in issued : Recorded(l) /\ ~Recorded(l)' =>
       \/ meta'[IdOf[l.src]] = None
       \/ meta'[IdOf[l.src]].status = "failed"
       \/ l.expires_at <= now]_serviceVars

(* With gc at any time, submissions never lose each other's links.            *)
THEOREM LinksOutliveGc == ServiceSpec => LinksSurviveSubmissions
<1> DEFINE Kept ==
      \A l \in issued : Recorded(l) /\ ~Recorded(l)' =>
        \/ meta'[IdOf[l.src]] = None
        \/ meta'[IdOf[l.src]].status = "failed"
        \/ l.expires_at <= now
<1>1. Types /\ GcTypes /\ Seen /\ [ServiceNext]_serviceVars => [Kept]_serviceVars
  <2> SUFFICES ASSUME Types, GcTypes, Seen, [ServiceNext]_serviceVars,
                      NEW l \in issued, Recorded(l), ~Recorded(l)',
                      meta'[IdOf[l.src]] # None
               PROVE  meta'[IdOf[l.src]].status = "failed" \/ l.expires_at <= now
    OBVIOUS
  <2> DEFINE tk == [hash |-> l.hash, expires_at |-> l.expires_at]
             id == IdOf[l.src]
  <2>1. id \in Ids /\ l.expires_at \in Nat /\ now \in Nat
    BY IdAssumption DEF Types, Links
  <2>2. meta[id] # None /\ tk \in meta[id].tokens /\ tk \notin meta'[id].tokens
    BY DEF Recorded
  <2>3. PICK t \in Tasks :
          /\ meta'[id] \in {ReadyMetadata(request[t], ctx[t]), FailedMetadata(request[t], ctx[t])}
          /\ ctx[t].existing = meta[id]
          /\ ctx[t].now \in Nat /\ ctx[t].now <= now
    BY <2>1, <2>2, SavedOrRemoved
  <2>4. CASE meta'[id] = FailedMetadata(request[t], ctx[t])
    BY <2>4 DEF FailedMetadata, BuildMetadata
  <2>5. CASE meta'[id] = ReadyMetadata(request[t], ctx[t])
    <3>1. tk \notin PrunedDownloadTokens(ctx[t])
      BY <2>2, <2>5 DEF ReadyMetadata, BuildMetadata
    <3>2. ~(tk.expires_at > ctx[t].now)
      BY <2>2, <2>3, <3>1 DEF PrunedDownloadTokens, PruneTokens
    <3> QED BY <2>1, <2>3, <3>2
  <2> QED BY <2>3, <2>4, <2>5
<1> QED BY <1>1, SeenInvariant, PTL DEF ServiceSpec, LinksSurviveSubmissions

-----------------------------------------------------------------------------
(* Whose file a build offers, with gc at any time.                           *)

(* ArtifactIsOwn, also of what tasks are about to put into a build or are       *)
(* about to call ready: gc may have taken the metadata away and left the file. *)
Matching ==
  /\ ArtifactIsOwn
  /\ \A t \in Tasks :
       /\ pc[t] \in Building \union {"persisting"} => out[t].src = request[t].src
       /\ artifact[Id(t)] # None =>
            /\ pc[t] \in {"renewing", "publishing"} => artifact[Id(t)].src = request[t].src
            /\ pc[t] = "probing" /\ ctx[t].existing # None /\ ctx[t].existing.status = "ready"
                 => artifact[Id(t)].src = request[t].src

LEMMA MatchingInit == ServiceInit => Matching
BY DEF ServiceInit, Init, Matching, ArtifactIsOwn

(* Nobody touches the file of a build that another task works on.            *)
LEMMA FileIsLocked ==
  ASSUME Types, Locked, [Next]_vars, NEW t \in Tasks,
         pc[t] \in InLock \ {"persisting", "failing"}
  PROVE  artifact'[Id(t)] = artifact[Id(t)]
<1>1. ASSUME NEW u \in Tasks, pc[u] \in {"persisting", "failing"}, NEW f,
             artifact' = [artifact EXCEPT ![Id(u)] = f]
      PROVE  artifact'[Id(t)] = artifact[Id(t)]
  <2>1. Id(u) # Id(t)
    BY <1>1 DEF Locked
  <2> QED BY <1>1, <2>1 DEF Types
<1> QED BY <1>1, FileChanges

(* Saving and replacing leave no ready build with a file of another source.   *)
LEMMA OwnNext ==
  Types /\ Locked /\ Seen /\ Matching /\ [Next]_vars => ArtifactIsOwn'
<1> SUFFICES ASSUME Types, Locked, Seen, Matching, [Next]_vars, NEW id \in Ids,
                    meta'[id] # None, meta'[id].status = "ready", artifact'[id] # None
             PROVE  artifact'[id].src = meta'[id].src
  BY DEF ArtifactIsOwn
<1>1. CASE meta' = meta /\ artifact' = artifact
  BY <1>1 DEF Matching, ArtifactIsOwn
<1>2. CASE meta' # meta
  <2>1. PICK t \in Tasks :
          /\ pc[t] \in {"renewing", "publishing", "recording"}
          /\ \E m \in {ReadyMetadata(request[t], ctx[t]), FailedMetadata(request[t], ctx[t])} :
               /\ meta' = [meta EXCEPT ![Id(t)] = m]
               /\ pc[t] = "recording" => m = FailedMetadata(request[t], ctx[t])
          /\ artifact' = artifact
    BY <1>2, MetaChanges
  <2>2. CASE id # Id(t)
    BY <2>1, <2>2 DEF Types, Matching, ArtifactIsOwn
  <2>3. CASE id = Id(t)
    <3>1. meta'[id] = ReadyMetadata(request[t], ctx[t]) /\ pc[t] # "recording"
      BY <2>1, <2>3 DEF Types, FailedMetadata, BuildMetadata
    <3>2. meta'[id].src = request[t].src
      BY <3>1 DEF ReadyMetadata, BuildMetadata
    <3> QED BY <2>1, <2>3, <3>1, <3>2 DEF Matching
  <2> QED BY <2>2, <2>3
<1>3. CASE artifact' # artifact
  <2>1. PICK t \in Tasks :
          /\ meta' = meta
          /\ \/ pc[t] = "persisting" /\ artifact' = [artifact EXCEPT ![Id(t)] = out[t]]
             \/ pc[t] = "failing" /\ artifact' = [artifact EXCEPT ![Id(t)] = None]
    BY <1>3, FileChanges
  <2>2. CASE id # Id(t)
    BY <2>1, <2>2 DEF Types, Matching, ArtifactIsOwn
  <2>3. CASE id = Id(t)
    <3>1. pc[t] = "persisting" /\ artifact'[id] = out[t]
      BY <2>1, <2>3 DEF Types
    <3>2. out[t].src = request[t].src /\ meta[id].src = request[t].src
      BY <2>1, <2>3, <3>1 DEF Matching, Seen
    <3> QED BY <2>1, <3>1, <3>2
  <2> QED BY <2>2, <2>3
<1> QED BY <1>1, <1>2, <1>3

LEMMA MatchingNext ==
  Types /\ Locked /\ GcTypes /\ Seen /\ Matching /\ [ServiceNext]_serviceVars => Matching'
<1> SUFFICES ASSUME Types, Locked, GcTypes, Seen, Matching, [ServiceNext]_serviceVars
             PROVE  Matching'
  OBVIOUS
<1>0. \A t \in Tasks : pc[t] \in InLock => Id(t) \in Ids
  BY IdAssumption DEF Types, Requests
<1>1. CASE GcNext
  <2>1. UNCHANGED <<pc, request, ctx, out>>
    BY <1>1, GcSteps
  <2>2. \A id \in Ids : /\ meta'[id] = meta[id] \/ meta'[id] = None
                        /\ artifact'[id] = artifact[id] \/ artifact'[id] = None
    BY <1>1, GcSteps
  <2> QED BY <1>0, <2>1, <2>2 DEF Matching, ArtifactIsOwn
<1>2. CASE [Next]_vars
  <2>1. ArtifactIsOwn'
    BY <1>2, OwnNext
  <2>2. ASSUME NEW t \in Tasks, pc'[t] \in Building \union {"persisting"}
        PROVE  out'[t].src = request'[t].src
    <3>1. request'[t] = request[t]
      BY <1>2, <2>2, PipelineChanges
    <3>2. CASE pc[t] \in Building \union {"persisting"} /\ out'[t] = out[t]
      BY <3>1, <3>2 DEF Matching
    <3>3. CASE out'[t] = [src |-> request[t].src, tool |-> toolchain]
      BY <3>1, <3>3
    <3> QED BY <1>2, <2>2, <3>2, <3>3, PipelineChanges
  <2>3. ASSUME NEW t \in Tasks, pc'[t] \in {"renewing", "publishing"}, artifact'[Id(t)'] # None
        PROVE  artifact'[Id(t)'].src = request'[t].src
    <3>1. request'[t] = request[t]
      BY <1>2, <2>3, PipelineChanges
    <3>2. CASE pc[t] = pc'[t]
      <4>1. artifact'[Id(t)] = artifact[Id(t)]
        BY <1>2, <2>3, <3>2, FileIsLocked
      <4> QED BY <2>3, <3>1, <3>2, <4>1 DEF Matching
    <3>3. CASE pc[t] = "persisting" /\ PersistArtifact(t)
      <4>1. artifact' = [artifact EXCEPT ![Id(t)] = out[t]]
        BY <2>3, <3>3 DEF PersistArtifact, Answer, Release, Types
      <4>2. out[t].src = request[t].src
        BY <3>3 DEF Matching
      <4> QED BY <1>0, <3>1, <3>3, <4>1, <4>2 DEF Types
    <3>4. CASE /\ pc[t] = "probing" /\ artifact' = artifact
               /\ ctx[t].existing # None /\ ctx[t].existing.status = "ready"
      BY <2>3, <3>1, <3>4 DEF Matching
    <3> QED BY <1>2, <2>3, <3>2, <3>3, <3>4, PipelineChanges
  <2>4. ASSUME NEW t \in Tasks, pc'[t] = "probing", artifact'[Id(t)'] # None,
               ctx'[t].existing # None, ctx'[t].existing.status = "ready"
        PROVE  artifact'[Id(t)'].src = request'[t].src
    <3>1. request'[t] = request[t] /\ Id(t)' = Id(t) /\ pc[t] \in {"loading", "probing"}
      BY <1>2, <2>4, ReadChanges, PipelineChanges
    <3>2. artifact'[Id(t)] = artifact[Id(t)]
      BY <1>2, <3>1, FileIsLocked
    <3>3. CASE pc[t] = "probing" /\ ctx'[t].existing = ctx[t].existing
      BY <2>4, <3>1, <3>2, <3>3 DEF Matching
    <3>4. CASE /\ ctx'[t].existing = meta[Id(t)]
               /\ meta[Id(t)] # None => meta[Id(t)].src = request[t].src
      BY <1>0, <2>4, <3>1, <3>2, <3>4 DEF Matching, ArtifactIsOwn
    <3> QED BY <1>2, <2>4, <3>1, <3>3, <3>4, ReadChanges
  <2> QED BY <2>1, <2>2, <2>3, <2>4 DEF Matching
<1> QED BY <1>1, <1>2, ServiceSteps

(* Whenever gc runs, and although sources may share an id, a ready build never   *)
(* offers the file of another source.                                        *)
THEOREM FilesOutliveGc == ServiceSpec => []ArtifactIsOwn
<1>1. Matching => ArtifactIsOwn
  BY DEF Matching
<1> QED BY <1>1, SeenInvariant, MatchingInit, MatchingNext, PTL DEF ServiceSpec

-----------------------------------------------------------------------------
(* What the whole service keeps while gc is apart.                           *)

(* gc only takes tokens away.                                               *)
LEMMA ServiceFreshNext ==
  Types /\ GcTypes /\ Current /\ Fresh /\ [ServiceNext]_serviceVars => Fresh'
<1> SUFFICES ASSUME Types, GcTypes, Current, Fresh, [ServiceNext]_serviceVars PROVE Fresh'
  OBVIOUS
<1>1. CASE [Next]_vars
  BY <1>1, FreshNext
<1>2. CASE GcNext
  <2>1. UNCHANGED <<pc, request, issued, requests>>
    BY <1>2, GcSteps
  <2>2. \A id \in Ids : meta'[id] = meta[id] \/ meta'[id] = None
    BY <1>2, GcSteps
  <2> QED BY <2>1, <2>2 DEF Fresh, Active
<1> QED BY <1>1, <1>2, ServiceSteps

LEMMA ServiceFreshInvariant ==
  ASSUME GcIsApart
  PROVE  ServiceSpec => [](Types /\ Locked /\ GcTypes /\ Apart /\ Current /\ Owned /\ Fresh)
<1>1. ServiceInit => Fresh
  BY FreshInit DEF ServiceInit
<1> QED BY <1>1, ServiceFreshNext, ApartInvariant, PTL DEF ServiceSpec

(* gc run while no submission is handled brings no revoked link back, though it *)
(* removes builds whose sources are submitted again.                         *)
THEOREM RevocationOutlivesGc ==
  ASSUME GcIsApart
  PROVE  ServiceSpec => RevokedStaysRevoked
<1> DEFINE Final == \A l \in issued : ~Recorded(l) => ~Recorded(l)'
<1>1. Types /\ Locked /\ GcTypes /\ Current /\ Fresh /\ [ServiceNext]_serviceVars => [Final]_vars
  <2> SUFFICES ASSUME Types, Locked, GcTypes, Current, Fresh, [ServiceNext]_serviceVars
               PROVE  Final
    OBVIOUS
  <2>1. CASE [Next]_vars
    BY <2>1, NoRevival
  <2>2. CASE GcNext
    <3>1. \A id \in Ids : meta'[id] = meta[id] \/ meta'[id] = None
      BY <2>2, GcSteps
    <3>2. \A l \in issued : IdOf[l.src] \in Ids
      BY IdAssumption DEF Types, Links
    <3> QED BY <3>1, <3>2 DEF Recorded
  <2> QED BY <2>1, <2>2, ServiceSteps
<1> QED BY <1>1, ServiceFreshInvariant, PTL DEF ServiceSpec, RevokedStaysRevoked

(* A 200 keeps its word although gc may have removed the build before.        *)
THEOREM OkOutlivesGc ==
  ASSUME GcIsApart
  PROVE  ServiceSpec => OkIsHonest
<1> DEFINE Honest ==
      \A t \in Tasks : reply'[t] = "OK" /\ reply[t] # "OK" =>
       LET id == Id(t) IN
       /\ meta'[id] # None /\ meta'[id].status = "ready" /\ meta'[id].src = request[t].src
       /\ artifact'[id] # None /\ artifact'[id].src = request[t].src
       /\ \E l \in issued' : l.hash = request[t].n /\ l.src = request[t].src /\ Recorded(l)'
<1>1. Types /\ Locked /\ GcTypes /\ Current /\ Owned /\ [ServiceNext]_serviceVars
        => [Honest]_vars
  <2> SUFFICES ASSUME Types, Locked, GcTypes, Current, Owned, [ServiceNext]_serviceVars
               PROVE  Honest
    OBVIOUS
  <2>1. CASE [Next]_vars
    BY <2>1, OkStep
  <2>2. CASE GcNext
    BY <2>2, GcSteps
  <2> QED BY <2>1, <2>2, ServiceSteps
<1> QED BY <1>1, ApartInvariant, PTL DEF ServiceSpec, OkIsHonest

(* A removal of gc, as BuildRegistry would state it: a file of an expired       *)
(* build, or of one whose metadata is gone, is taken away.                   *)
Removal(id) ==
  /\ meta[id] # None => meta[id].expires_at < now
  /\ \/ meta' = [meta EXCEPT ![id] = None] /\ UNCHANGED artifact
     \/ artifact' = [artifact EXCEPT ![id] = None] /\ UNCHANGED meta
  /\ UNCHANGED now

(* The builds change by the atomic steps of BuildRegistry and by removals.     *)
RefinesRegistryWithRemovals ==
  Registry!Init /\ [][Registry!Next \/ \E id \in Ids : Removal(id)]_(Registry!vars)

(* Submissions, crashes, downloads and a gc that runs while no submission is     *)
(* handled implement BuildRegistry with the removal of expired builds.        *)
THEOREM ServiceRefinesRegistry ==
  ASSUME GcIsApart
  PROVE  ServiceSpec => RefinesRegistryWithRemovals
<1>1. ServiceInit => Registry!Init
  BY DEF ServiceInit, Init, Registry!Init
<1>2. Types /\ Locked /\ GcTypes /\ Apart /\ Current /\ Owned /\ Fresh
        /\ [ServiceNext]_serviceVars
      => [Registry!Next \/ \E id \in Ids : Removal(id)]_(Registry!vars)
  <2> SUFFICES ASSUME Types, Locked, GcTypes, Apart, Current, Owned, Fresh,
                      [ServiceNext]_serviceVars
               PROVE  \/ Registry!Next
                      \/ \E id \in Ids : Removal(id)
                      \/ UNCHANGED Registry!vars
    OBVIOUS
  <2>1. CASE [Next]_vars
    BY <2>1, StepRefines
  <2>2. CASE GcNext
    <3>1. now' = now
      BY <2>2, GcSteps
    <3>2. CASE UNCHANGED <<meta, artifact>>
      BY <3>1, <3>2 DEF Registry!vars
    <3>3. ASSUME NEW f \in Files, GcUnlink(f) PROVE Removal(gc.dir) /\ gc.dir \in Ids
      <4>1. gc.dir \in Ids /\ gc.dir # None /\ gc.phase # "idle"
        BY <3>3, ServiceAssumption DEF GcUnlink, GcTypes, GcStates
      <4>2. meta[gc.dir] # None => meta[gc.dir].expires_at < gc.threshold
        BY <4>1 DEF Apart
      <4>3. gc.threshold <= now /\ gc.threshold \in Int /\ now \in Nat
        BY <4>1 DEF Apart, GcTypes, GcStates, Types
      <4>4. meta[gc.dir] # None => meta[gc.dir].expires_at \in Nat
        BY <4>1 DEF Types, Metadata
      <4>5. meta[gc.dir] # None => meta[gc.dir].expires_at < now
        BY <4>2, <4>3, <4>4
      <4> QED BY <3>1, <3>3, <4>1, <4>5 DEF GcUnlink, Removal
    <3> QED
      BY <2>2, <3>2, <3>3
      DEF GcNext, GcStart, GcScan, GcScanned, GcList, GcRemoved, GcEnds
  <2> QED BY <2>1, <2>2, ServiceSteps
<1> QED
  BY <1>1, <1>2, ServiceFreshInvariant, PTL DEF ServiceSpec, RefinesRegistryWithRemovals

=============================================================================
