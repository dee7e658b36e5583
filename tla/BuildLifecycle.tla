---------------------------- MODULE BuildLifecycle ----------------------------
(***************************************************************************)
(* POST /api/builds: the submissions a server works on concurrently, the   *)
(* per-build lock and the build slots that coordinate them, and the two    *)
(* files (metadata.json, artifact.shortcut) that each build keeps on disk. *)
(*                                                                         *)
(* A submission is cut wherever another actor can be seen: at an .await,   *)
(* and between two accesses to the storage directory.  What runs between   *)
(* two cuts is one action.  A file replaced by write-temp, fsync, rename   *)
(* is replaced in one step; an error may strike before the rename or after *)
(* it (while the directory is flushed).                                    *)
(***************************************************************************)
EXTENDS Integers, FiniteSets

CONSTANTS
  Tasks,           \* handler tasks: how many POSTs are in flight at once
  Sources,         \* source_format, sign_mode and source: what source_hash digests
  Ids,             \* build ids: the source_hash truncated to BUILD_ID_LEN characters
  IdOf,            \* IdOf[s] is the build id of source s; two sources may share one
  Tools,           \* fingerprints of an available toolchain
  Unavailable,     \* what a probe reports when a tool is missing
  Ttls,            \* the ttl_seconds requests ask for
  MaxConcurrency,  \* max_build_concurrency
  None,            \* no task, no file, no record
  MaxRequests,     \* bound: submissions in a behaviour
  MaxTime,         \* bound: the clock
  MaxCrashes,      \* bound: crashes of the server
  ClientsMayLeave  \* whether a client may disconnect while its POST is handled

ASSUME IdAssumption == IdOf \in [Sources -> Ids]
ASSUME TtlAssumption == Ttls \subseteq Nat \ {0}
ASSUME TaskAssumption == IsFiniteSet(Tasks) /\ None \notin Tasks
ASSUME SlotAssumption == MaxConcurrency \in Nat \ {0}
ASSUME ToolAssumption == Unavailable \notin Tools /\ None \notin Tools \union {Unavailable}
ASSUME BoundAssumption == MaxRequests \in Nat /\ MaxTime \in Nat /\ MaxCrashes \in Nat

VARIABLES
  pc,          \* where each task is in its submission
  request,     \* the request each task handles
  ctx,         \* BuildLifecycleDecisionContext of each task
  out,         \* the signed output each task's pipeline is making
  reply,       \* what the last finished submission of each task answered
  holder,      \* per_id_lock: the task that holds the lock of each build
  free,        \* slots: available permits of the semaphore
  meta,        \* metadata.json of each build
  artifact,    \* artifact.shortcut of each build
  tmp,         \* what lies under <storage>/tmp, by the request that put it there
  children,    \* requests whose cherri or shortcuts process is running
  now,         \* now_unix()
  toolchain,   \* what a probe of the installed tools would report
  issued,      \* links answered with 200: what clients hold
  requests,    \* submissions so far
  crashes      \* crashes so far

tasks == <<pc, request, ctx, out, reply>>
disk == <<meta, artifact, tmp>>
env == <<now, toolchain, requests, crashes>>
vars == <<tasks, holder, free, disk, children, issued, env>>

-----------------------------------------------------------------------------
(* The records a build is made of.                                          *)

Tokens == [hash : Nat, expires_at : Nat]

Metadata == [src : Sources, status : {"ready", "failed"}, tokens : SUBSET Tokens,
             toolchain : Tools, created_at : Nat, expires_at : Nat]

Artifacts == [src : Sources, tool : Tools]

Requests == [n : Nat, src : Sources, ttl : Ttls]

Contexts == [existing : Metadata \union {None}, now : Nat, expires_at : Nat,
             toolchain : Tools \union {None}]

Links == [hash : Nat, expires_at : Nat, src : Sources]

ASSUME NoneAssumption ==
  None \notin Metadata /\ None \notin Artifacts /\ None \notin Requests /\ None \notin Contexts

PruneTokens(tokens, t) == {tk \in tokens : tk.expires_at > t}

\* Fault: created_at is taken from the request at hand.
CreatedAtDecision(c) == c.now

CreatedAt(c) == IF c.existing = None THEN c.now ELSE c.existing.created_at

\* Fault: the new token replaces the earlier ones.
NoDownloadTokens(c) == {}

PrunedDownloadTokens(c) ==
  IF c.existing = None THEN {} ELSE PruneTokens(c.existing.tokens, c.now)

\* Fault: metadata is trusted without looking for the file.
RequiresRebuildUnseen(c, file) ==
  \/ c.existing = None
  \/ c.existing.status # "ready"
  \/ c.existing.toolchain # c.toolchain

RequiresRebuild(c, file) ==
  \/ c.existing = None
  \/ c.existing.status # "ready"
  \/ file = None
  \/ c.existing.toolchain # c.toolchain

\* Fault: the id is taken for the source.
CollidesNever(existing, src) == FALSE

Collides(existing, src) == existing # None /\ existing.src # src

BuildMetadata(r, c, status, tokens) ==
  [src |-> r.src, status |-> status, tokens |-> tokens, toolchain |-> c.toolchain,
   created_at |-> CreatedAt(c), expires_at |-> c.expires_at]

NewToken(r, c) == [hash |-> r.n, expires_at |-> c.expires_at]

ReadyMetadata(r, c) ==
  BuildMetadata(r, c, "ready", PrunedDownloadTokens(c) \union {NewToken(r, c)})

FailedMetadata(r, c) == BuildMetadata(r, c, "failed", {})

Link(r, c) == [hash |-> r.n, expires_at |-> c.expires_at, src |-> r.src]

Id(t) == IdOf[request[t].src]

-----------------------------------------------------------------------------
(* Control points.  Between "loading" and "publishing" a task holds the lock *)
(* of its build; from "compiling" on it holds a build slot as well.          *)

Building == {"compiling", "signing"}

\* Fault: the permit does not come back when the pipeline has failed.
InSlotUnlessFailed == Building \union {"persisting", "publishing"}

InSlot == Building \union {"persisting", "publishing", "failing", "recording"}

InLock == InSlot \union {"loading", "probing", "acquiring", "renewing"}

Control == InLock \union {"idle", "waiting"}

Replies == {"none", "OK", "SERVER_BUSY", "TOOL_UNAVAILABLE", "INTERNAL_ERROR", "BUILD_ERROR"}

TypeOK ==
  /\ pc \in [Tasks -> Control]
  /\ request \in [Tasks -> Requests \union {None}]
  /\ ctx \in [Tasks -> Contexts \union {None}]
  /\ out \in [Tasks -> Artifacts \union {None}]
  /\ reply \in [Tasks -> Replies]
  /\ holder \in [Ids -> Tasks \union {None}]
  /\ free \in 0..MaxConcurrency
  /\ meta \in [Ids -> Metadata \union {None}]
  /\ artifact \in [Ids -> Artifacts \union {None}]
  /\ tmp \subseteq {"dir", "signed"} \X Nat
  /\ children \subseteq Nat
  /\ now \in Nat
  /\ toolchain \in Tools \union {Unavailable}
  /\ issued \subseteq Links
  /\ requests \in Nat
  /\ crashes \in Nat

Init ==
  /\ pc = [t \in Tasks |-> "idle"]
  /\ request = [t \in Tasks |-> None]
  /\ ctx = [t \in Tasks |-> None]
  /\ out = [t \in Tasks |-> None]
  /\ reply = [t \in Tasks |-> "none"]
  /\ holder = [id \in Ids |-> None]
  /\ free = MaxConcurrency
  /\ meta = [id \in Ids |-> None]
  /\ artifact = [id \in Ids |-> None]
  /\ tmp = {}
  /\ children = {}
  /\ now = 0
  /\ toolchain \in Tools \union {Unavailable}
  /\ issued = {}
  /\ requests = 0
  /\ crashes = 0

-----------------------------------------------------------------------------
(* The lock of a build, the build slots and the directory of an attempt.    *)

\* Fault: submissions of a build do not wait for each other.
CanLockAlways(id) == TRUE

CanLock(id) == holder[id] = None

\* Fault: the guard outlives the submission.
KeepLocked(id) == holder

Unlock(id) == [holder EXCEPT ![id] = None]

\* Fault: the last permit is counted twice.
SlotIsFreeTwice == free >= 0

SlotIsFree == free > 0

FreeAfter(t) == IF pc[t] \in InSlot THEN free + 1 ELSE free

\* Fault: the directory is not tied to the attempt.
KeepDir(n) == tmp

RemoveDir(n) == tmp \ {<<"dir", n>>}

(* How a submission ends: the guard of the per-build lock and the permit are *)
(* dropped with the future, whichever way it returns.                        *)

Release(t) ==
  /\ pc' = [pc EXCEPT ![t] = "idle"]
  /\ request' = [request EXCEPT ![t] = None]
  /\ ctx' = [ctx EXCEPT ![t] = None]
  /\ out' = [out EXCEPT ![t] = None]
  /\ holder' = Unlock(Id(t))
  /\ free' = FreeAfter(t)

Answer(t, code) == Release(t) /\ reply' = [reply EXCEPT ![t] = code]

Goto(t, label) ==
  pc' = [pc EXCEPT ![t] = label] /\ UNCHANGED <<request, reply, holder>>

(* A validated request reaches submit and queues for the lock of its build. *)
Submit(t, s, ttl) ==
  /\ pc[t] = "idle" /\ requests < MaxRequests
  /\ pc' = [pc EXCEPT ![t] = "waiting"]
  /\ request' = [request EXCEPT ![t] = [n |-> requests + 1, src |-> s, ttl |-> ttl]]
  /\ reply' = [reply EXCEPT ![t] = "none"]
  /\ requests' = requests + 1
  /\ UNCHANGED <<ctx, out, holder, free, disk, children, issued, now, toolchain, crashes>>

Lock(t) ==
  /\ pc[t] = "waiting" /\ CanLock(Id(t))
  /\ holder' = [holder EXCEPT ![Id(t)] = t]
  /\ pc' = [pc EXCEPT ![t] = "loading"]
  /\ UNCHANGED <<request, ctx, out, reply, free, disk, children, issued, env>>

(* decide, up to the toolchain probe: the clock and the metadata are read.  *)
Load(t) ==
  /\ pc[t] = "loading"
  /\ LET existing == meta[Id(t)] IN
       \/ Answer(t, "INTERNAL_ERROR")   \* the file cannot be read, or
                                        \* Collides(existing, request[t].src)
       \/ /\ ~Collides(existing, request[t].src)
          /\ ctx' = [ctx EXCEPT ![t] = [existing |-> existing, now |-> now,
                       expires_at |-> now + request[t].ttl, toolchain |-> None]]
          /\ Goto(t, "probing")
          /\ UNCHANGED <<out, free>>
  /\ UNCHANGED <<disk, children, issued, env>>

(* decide, from the toolchain probe on: renewal or rebuild.                 *)
Probe(t) ==
  /\ pc[t] = "probing"
  /\ IF toolchain = Unavailable
       THEN Answer(t, "TOOL_UNAVAILABLE")
       ELSE LET c == [ctx[t] EXCEPT !.toolchain = toolchain] IN
            /\ ctx' = [ctx EXCEPT ![t] = c]
            /\ Goto(t, IF RequiresRebuild(c, artifact[Id(t)]) THEN "acquiring" ELSE "renewing")
            /\ UNCHANGED <<out, free>>
  /\ UNCHANGED <<disk, children, issued, env>>

(* A rebuild takes a permit or is refused; it never waits for one.           *)
Refuse(t) ==
  /\ pc[t] = "acquiring" /\ ~SlotIsFree
  /\ Answer(t, "SERVER_BUSY")
  /\ UNCHANGED <<disk, children, issued, env>>

(* The permit is taken, the private directory with the source is written and *)
(* cherri is started; an error removes the directory again.                  *)
StartBuild(t) ==
  /\ pc[t] = "acquiring" /\ SlotIsFree
  /\ free' = free - 1
  /\ \/ /\ toolchain # Unavailable
        /\ out' = [out EXCEPT ![t] = [src |-> request[t].src, tool |-> toolchain]]
        /\ tmp' = tmp \union {<<"dir", request[t].n>>}
        /\ children' = children \union {request[t].n}
        /\ Goto(t, "compiling")
     \/ Goto(t, "failing") /\ UNCHANGED <<out, tmp, children>>
  /\ UNCHANGED <<ctx, meta, artifact, issued, env>>

(* cherri has left its output: shortcuts sign is started on it.              *)
CompileEnds(t) ==
  /\ pc[t] = "compiling"
  /\ Goto(t, "signing")
  /\ UNCHANGED <<ctx, out, free, disk, children, issued, env>>

(* The signed file is moved out of the directory, which is then removed.     *)
SignEnds(t) ==
  /\ pc[t] = "signing"
  /\ Goto(t, "persisting")
  /\ tmp' = RemoveDir(request[t].n) \union {<<"signed", request[t].n>>}
  /\ children' = children \ {request[t].n}
  /\ UNCHANGED <<ctx, out, free, meta, artifact, issued, env>>

(* A tool fails, leaves no output or is killed at its timeout, the next one  *)
(* cannot be started or the output cannot be retained.                       *)
BuildFails(t) ==
  /\ pc[t] \in Building
  /\ Goto(t, "failing")
  /\ out' = [out EXCEPT ![t] = None]
  /\ tmp' = RemoveDir(request[t].n)
  /\ children' = children \ {request[t].n}
  /\ UNCHANGED <<ctx, free, meta, artifact, issued, env>>

(* A write of a file of the build: it fails and the file is unchanged, it is *)
(* done, or the file is replaced and the write fails all the same.           *)
PersistArtifact(t) ==
  /\ pc[t] = "persisting"
  /\ \/ /\ artifact' = [artifact EXCEPT ![Id(t)] = out[t]]
        /\ tmp' = tmp \ {<<"signed", request[t].n>>}
        /\ Goto(t, "publishing")
        /\ UNCHANGED <<ctx, out, free>>
     \/ /\ artifact' \in {artifact, [artifact EXCEPT ![Id(t)] = out[t]]}
        /\ Answer(t, "INTERNAL_ERROR")
        /\ UNCHANGED tmp
  /\ UNCHANGED <<meta, children, issued, env>>

SaveReady(t) ==
  /\ pc[t] \in {"renewing", "publishing"}
  /\ LET saved == [meta EXCEPT ![Id(t)] = ReadyMetadata(request[t], ctx[t])] IN
       \/ /\ meta' = saved
          /\ issued' = issued \union {Link(request[t], ctx[t])}
          /\ Answer(t, "OK")
       \/ /\ meta' \in {meta, saved}
          /\ Answer(t, "INTERNAL_ERROR")
          /\ UNCHANGED issued
  /\ UNCHANGED <<artifact, tmp, children, env>>

(* The error of remove_file is ignored.                                      *)
RemoveArtifact(t) ==
  /\ pc[t] = "failing"
  /\ artifact' \in {artifact, [artifact EXCEPT ![Id(t)] = None]}
  /\ Goto(t, "recording")
  /\ UNCHANGED <<ctx, out, free, meta, tmp, children, issued, env>>

SaveFailed(t) ==
  /\ pc[t] = "recording"
  /\ LET saved == [meta EXCEPT ![Id(t)] = FailedMetadata(request[t], ctx[t])] IN
       \/ meta' = saved /\ Answer(t, "BUILD_ERROR")
       \/ meta' \in {meta, saved} /\ Answer(t, "INTERNAL_ERROR")
  /\ UNCHANGED <<artifact, tmp, children, issued, env>>

-----------------------------------------------------------------------------
(* What happens to a submission from outside.                               *)

(* The client disconnects and the future is dropped at the .await it is at. *)
LeaveQueue(t) ==
  /\ ClientsMayLeave /\ pc[t] = "waiting"
  /\ pc' = [pc EXCEPT ![t] = "idle"]
  /\ request' = [request EXCEPT ![t] = None]
  /\ UNCHANGED <<ctx, out, reply, holder, free, disk, children, issued, env>>

(* Lock, permit and directory are dropped with the future; the process that  *)
(* was awaited is neither killed nor waited for.                             *)
LeaveBuild(t) ==
  /\ ClientsMayLeave /\ pc[t] \in Building
  /\ Release(t)
  /\ tmp' = RemoveDir(request[t].n)
  /\ UNCHANGED <<reply, meta, artifact, children, issued, env>>

(* A process nobody waits for ends.                                          *)
OrphanEnds(n) ==
  /\ n \in children
  /\ \A t \in Tasks : pc[t] \in Building => request[t].n # n
  /\ children' = children \ {n}
  /\ UNCHANGED <<tasks, holder, free, disk, issued, env>>

(* The server dies and is started again: only the disk and the processes it  *)
(* had started, each in a process group of its own, are left.                *)
Crash ==
  /\ crashes < MaxCrashes
  /\ crashes' = crashes + 1
  /\ pc' = [t \in Tasks |-> "idle"]
  /\ request' = [t \in Tasks |-> None]
  /\ ctx' = [t \in Tasks |-> None]
  /\ out' = [t \in Tasks |-> None]
  /\ reply' = [t \in Tasks |-> "none"]
  /\ holder' = [id \in Ids |-> None]
  /\ free' = MaxConcurrency
  /\ UNCHANGED <<disk, children, issued, now, toolchain, requests>>

Tick ==
  /\ now < MaxTime
  /\ now' = now + 1
  /\ UNCHANGED <<tasks, holder, free, disk, children, issued, toolchain, requests, crashes>>

(* The tools are upgraded, downgraded, removed or installed.                 *)
ChangeTools ==
  /\ toolchain' \in (Tools \union {Unavailable}) \ {toolchain}
  /\ UNCHANGED <<tasks, holder, free, disk, children, issued, now, requests, crashes>>

-----------------------------------------------------------------------------

Progress(t) ==
  \/ Load(t) \/ Probe(t) \/ Refuse(t) \/ StartBuild(t)
  \/ CompileEnds(t) \/ SignEnds(t) \/ BuildFails(t)
  \/ PersistArtifact(t) \/ SaveReady(t) \/ RemoveArtifact(t) \/ SaveFailed(t)

TaskNext(t) ==
  \/ \E s \in Sources, ttl \in Ttls : Submit(t, s, ttl)
  \/ Lock(t)
  \/ Progress(t)
  \/ LeaveQueue(t)
  \/ LeaveBuild(t)

Next ==
  \/ \E t \in Tasks : TaskNext(t)
  \/ \E n \in children : OrphanEnds(n)
  \/ Crash
  \/ Tick
  \/ ChangeTools

Spec == Init /\ [][Next]_vars

(* A task with work to do is polled, and build_timeout ends every wait for a *)
(* process; the per-id mutex of tokio is handed over in FIFO order, so a     *)
(* waiting task finds it free again and again only until its turn comes.     *)
Fairness == \A t \in Tasks : WF_vars(Progress(t)) /\ SF_vars(Lock(t))

FairSpec == Spec /\ Fairness

-----------------------------------------------------------------------------
(* Safety.                                                                  *)

Recorded(l) ==
  LET id == IdOf[l.src] IN
  meta[id] # None /\ [hash |-> l.hash, expires_at |-> l.expires_at] \in meta[id].tokens

(* resolve_download serves the link at the current time.                    *)
Servable(l) ==
  LET id == IdOf[l.src] IN
  /\ Recorded(l) /\ l.expires_at > now
  /\ meta[id].status = "ready" /\ meta[id].expires_at > now
  /\ artifact[id] # None

(* Two tasks never work on the same build at the same time: the per-build    *)
(* lock is held from decide to the answer, also across crashes and           *)
(* disconnects.                                                              *)
MutualExclusion ==
  \A t, u \in Tasks : pc[t] \in InLock /\ pc[u] \in InLock /\ Id(t) = Id(u) => t = u

(* No path through a submission leaks a build slot or returns one twice.    *)
SlotsConserved == free + Cardinality({t \in Tasks : pc[t] \in InSlot}) = MaxConcurrency

(* What a task read in decide is still on disk when it completes, however   *)
(* long its build took: no other step writes the metadata in between.        *)
ContextIsCurrent ==
  \A t \in Tasks : pc[t] \in InLock \ {"loading"} => ctx[t].existing = meta[Id(t)]

(* A ready build never offers the output of another source, even when two    *)
(* sources share a truncated build id.                                       *)
ArtifactIsOwn ==
  \A id \in Ids : meta[id] # None /\ meta[id].status = "ready" /\ artifact[id] # None
                    => artifact[id].src = meta[id].src

(* The directory with the source of a request is gone when the attempt is   *)
(* over, unless the server died meanwhile (TempDirCleanup).                  *)
SourceIsCleanedUp ==
  crashes = 0 => \A n \in 1..requests : <<"dir", n>> \in tmp =>
    \E t \in Tasks : pc[t] \in Building /\ request[t].n = n

(* An answered 200 keeps its word at that moment: the build is ready, it is *)
(* that of the request, its file is there and the returned link is recorded. *)
OkIsHonest ==
  [][\A t \in Tasks : reply'[t] = "OK" /\ reply[t] # "OK" =>
       LET id == Id(t) IN
       /\ meta'[id] # None /\ meta'[id].status = "ready" /\ meta'[id].src = request[t].src
       /\ artifact'[id] # None /\ artifact'[id].src = request[t].src
       /\ \E l \in issued' : l.hash = request[t].n /\ l.src = request[t].src /\ Recorded(l)'
    ]_vars

(* A link that was handed out is dropped from the metadata only when it has *)
(* expired or when the build has failed: concurrent submissions of a source  *)
(* never lose each other's tokens, and no crash does.                        *)
LinksSurvive ==
  [][\A l \in issued : Recorded(l) /\ ~Recorded(l)' =>
       l.expires_at <= now \/ meta'[IdOf[l.src]].status = "failed"]_vars

(* A link that a failed rebuild has revoked, or that has been pruned, is     *)
(* never recorded again: no task writes back tokens it read too early.       *)
RevokedStaysRevoked ==
  [][\A l \in issued : ~Recorded(l) => ~Recorded(l)']_vars

(* A build keeps its source hash and its created_at for good: a colliding   *)
(* source does not overwrite it and neither renewal nor rebuild restarts it. *)
IdentityIsStable ==
  [][\A id \in Ids : meta[id] # None =>
       /\ meta'[id] # None
       /\ meta'[id].src = meta[id].src
       /\ meta'[id].created_at = meta[id].created_at]_vars

(* Liveness: every submission that waits for its build's lock is answered,   *)
(* or its client or the server is gone.                                      *)
EverySubmissionEnds == \A t \in Tasks : pc[t] = "waiting" ~> pc[t] = "idle"

-----------------------------------------------------------------------------
(* Refinement: submissions of a build take effect one at a time.            *)

Registry == INSTANCE BuildRegistry
              WITH builds <- meta, files <- artifact, clock <- now,
                   Hashes <- 1..MaxRequests

(* However many tasks overlap, crash or are abandoned, each build goes only  *)
(* through the atomic steps of BuildRegistry.                                *)
RefinesRegistry == Registry!Spec

-----------------------------------------------------------------------------
(* What the documents say and the code does not do.                         *)

(* README.md, SPEC.md: an old link keeps working until it expires while its *)
(* build is ready and its file is there.                                     *)
OldLinksWork ==
  \A l \in issued : LET id == IdOf[l.src] IN
    Recorded(l) /\ l.expires_at > now /\ meta[id].status = "ready" /\ artifact[id] # None
      => Servable(l)

(* SPEC.md: total concurrent compile and sign work is bounded, by           *)
(* max_build_concurrency.                                                    *)
WorkIsBounded == Cardinality(children) <= MaxConcurrency

=============================================================================
