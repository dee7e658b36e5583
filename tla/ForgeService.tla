----------------------------- MODULE ForgeService -----------------------------
(***************************************************************************)
(* The storage directory shared: the submissions of BuildLifecycle, the    *)
(* downloads of GET /s/<token> in the same server, and the gc command,      *)
(* another process that takes neither the storage lock nor the lock of any  *)
(* build.                                                                  *)
(*                                                                         *)
(* A download reads the clock once, then visits the builds one at a time;   *)
(* it finds out that a file exists in one step and opens it in another.     *)
(***************************************************************************)
EXTENDS BuildLifecycle

CONSTANTS
  Readers,         \* handler tasks of downloads
  Ages,            \* values of gc --expired-before
  GcWhileServing,  \* whether the operator runs gc while submissions are handled
  MaxGcRuns        \* bound: runs of gc

ASSUME ServiceAssumption ==
  /\ Ages \subseteq Nat /\ GcWhileServing \in BOOLEAN /\ MaxGcRuns \in Nat
  /\ None \notin Ids \union Links /\ Sources \intersect {"none", "404", "500"} = {}

VARIABLES
  gc,       \* the gc process: its phase, threshold and what it has left to do
  gcRuns,   \* runs of gc so far
  get,      \* the download each reader works on
  served,   \* what the last download of each reader got
  steady    \* history: the link was servable all along, and gc was not running

gcVars == <<gc, gcRuns>>
getVars == <<get, served>>
serviceVars == <<vars, gcVars, getVars, steady>>

-----------------------------------------------------------------------------

Files == {"metadata", "artifact"}

NoGc == [phase |-> "idle", threshold |-> 0, scan |-> {}, victims |-> {}, dir |-> None, left |-> {}]

GcStates == [phase : {"idle", "scanning", "removing"}, threshold : Int,
             scan : SUBSET Ids, victims : SUBSET Ids, dir : Ids \union {None}, left : SUBSET Files]

NoGet == [phase |-> "idle", link |-> None, now |-> 0, scan |-> {}, id |-> None, found |-> None]

GetStates == [phase : {"idle", "scanning", "opening", "reading"}, link : Links \union {None},
              now : Nat, scan : SUBSET Ids, id : Ids \union {None},
              found : Ids \union {None}]

Results == {"none", "404", "500"} \union Sources

ServiceTypeOK ==
  /\ gc \in GcStates
  /\ gcRuns \in 0..MaxGcRuns
  /\ get \in [Readers -> GetStates]
  /\ served \in [Readers -> Results]
  /\ steady \in [Readers -> BOOLEAN]

ServiceInit ==
  /\ Init
  /\ gc = NoGc /\ gcRuns = 0
  /\ get = [r \in Readers |-> NoGet]
  /\ served = [r \in Readers |-> "none"]
  /\ steady = [r \in Readers |-> FALSE]

-----------------------------------------------------------------------------
(* resolve_download: when the metadata of a build lets a link through.       *)

\* Fault: the hash of the link is not compared.
MatchesAnyToken(m, l, t) ==
  /\ m.status = "ready" /\ m.expires_at > t
  /\ \E tk \in m.tokens : tk.expires_at > t

\* Fault: only the expiry of the build is looked at.
MatchesBuild(m, l, t) ==
  /\ m.status = "ready" /\ m.expires_at > t
  /\ \E tk \in m.tokens : tk.hash = l.hash

Matches(m, l, t) ==
  /\ m.status = "ready" /\ m.expires_at > t
  /\ \E tk \in m.tokens : tk.hash = l.hash /\ tk.expires_at > t

(* resolve_download serves a link of the build: its file is looked for once   *)
(* the metadata has let the link through.                                    *)
Works(id, l, t) == Matches(meta[id], l, t) /\ artifact[id] # None

(* What GET /api/builds/<id> says of a build: its status and how many links  *)
(* are active.                                                              *)

\* Fault: a build is ready up to and including its last second.
StatusWithLastSecond(m, t) ==
  IF m.status = "ready" /\ m.expires_at < t THEN "expired" ELSE m.status

StatusForApi(m, t) ==
  IF m.status = "ready" /\ m.expires_at <= t THEN "expired" ELSE m.status

ActiveDownloadTokenCount(m, t) == Cardinality({tk \in m.tokens : tk.expires_at > t})

MetadataView(id, t) ==
  IF meta[id] = None THEN None
  ELSE [status |-> StatusForApi(meta[id], t),
        download_token_count |-> ActiveDownloadTokenCount(meta[id], t)]

(* A client asks for a link it was given.                                    *)
GetStart(r, l) ==
  /\ get[r].phase = "idle"
  /\ get' = [get EXCEPT ![r] =
       [NoGet EXCEPT !.phase = "scanning", !.link = l, !.now = now, !.scan = Ids]]
  /\ served' = [served EXCEPT ![r] = "none"]

GetEnds(r, result) ==
  /\ get' = [get EXCEPT ![r] = NoGet]
  /\ served' = [served EXCEPT ![r] = result]

Scanned(r, id, found) ==
  /\ get' = [get EXCEPT ![r].phase = "scanning", ![r].scan = @ \ {id}, ![r].id = None,
                        ![r].found = found]
  /\ UNCHANGED served

\* Fault: a build directory without metadata.json fails the scan.
NoMetadataFails(r, id) == GetEnds(r, "500")

NoMetadata(r, id) == Scanned(r, id, get[r].found)

(* scan_metadata finds metadata.json of a build, or does not.                *)
GetVisit(r) ==
  /\ get[r].phase = "scanning"
  /\ \E id \in get[r].scan :
       IF meta[id] = None
         THEN NoMetadata(r, id)
         ELSE /\ get' = [get EXCEPT ![r].phase = "opening", ![r].id = id]
              /\ UNCHANGED served

(* It reads it, or the whole download fails because the file has gone since. *)
(* What counts of a build that was read is whether it lets the link through. *)
GetOpen(r) ==
  /\ get[r].phase = "opening"
  /\ LET id == get[r].id IN
       IF meta[id] = None
         THEN GetEnds(r, "500")
         ELSE Scanned(r, id, IF Matches(meta[id], get[r].link, get[r].now)
                               THEN id ELSE get[r].found)

(* After the scan: the file of the build that was found is looked for.       *)
GetResolve(r) ==
  /\ get[r].phase = "scanning" /\ get[r].scan = {}
  /\ LET id == get[r].found IN
       IF id = None \/ (id # None /\ artifact[id] = None)
         THEN GetEnds(r, "404")
         ELSE /\ get' = [get EXCEPT ![r].phase = "reading"]
              /\ UNCHANGED served

\* Fault: the error of the read is not looked at.
ResponseUnread(file) == IF file = None THEN None ELSE file.src

Response(file) == IF file = None THEN "404" ELSE file.src

(* download_handler reads the file that was resolved.                        *)
GetRead(r) ==
  /\ get[r].phase = "reading"
  /\ GetEnds(r, Response(artifact[get[r].found]))

GetNext ==
  /\ \E r \in Readers :
       \/ \E l \in issued : GetStart(r, l)
       \/ GetVisit(r) \/ GetOpen(r) \/ GetResolve(r) \/ GetRead(r)
  /\ UNCHANGED <<vars, gcVars>>

-----------------------------------------------------------------------------
(* run_gc.                                                                   *)

\* Fault: the age is taken the wrong way round.
GcThresholdAhead(age) == now + age

GcThreshold(age) == now - age

GcStart ==
  /\ gc.phase = "idle" /\ gcRuns < MaxGcRuns
  /\ GcWhileServing \/ \A t \in Tasks : pc[t] = "idle"
  /\ \E age \in Ages :
       gc' = [NoGc EXCEPT !.phase = "scanning", !.threshold = GcThreshold(age), !.scan = Ids]
  /\ gcRuns' = gcRuns + 1
  /\ UNCHANGED <<meta, artifact>>

(* The whole scan comes before the first removal.                            *)
GcScan ==
  /\ gc.phase = "scanning"
  /\ \E id \in gc.scan :
       gc' = [gc EXCEPT !.scan = @ \ {id},
                        !.victims = IF meta[id] # None /\ meta[id].expires_at < gc.threshold
                                      THEN @ \union {id} ELSE @]
  /\ UNCHANGED <<meta, artifact, gcRuns>>

GcScanned ==
  /\ gc.phase = "scanning" /\ gc.scan = {}
  /\ gc' = [gc EXCEPT !.phase = "removing"]
  /\ UNCHANGED <<meta, artifact, gcRuns>>

(* remove_dir_all lists the directory, unlinks its files in the order the    *)
(* listing has them, and removes it if nothing has been put there since.     *)
GcList ==
  /\ gc.phase = "removing" /\ gc.dir = None
  /\ \E id \in gc.victims :
       gc' = [gc EXCEPT !.dir = id, !.victims = @ \ {id},
                        !.left = {f \in Files : IF f = "metadata" THEN meta[id] # None
                                                                  ELSE artifact[id] # None}]
  /\ UNCHANGED <<meta, artifact, gcRuns>>

GcUnlink(f) ==
  /\ f \in gc.left
  /\ IF f = "metadata"
       THEN meta' = [meta EXCEPT ![gc.dir] = None] /\ UNCHANGED artifact
       ELSE artifact' = [artifact EXCEPT ![gc.dir] = None] /\ UNCHANGED meta
  /\ gc' = [gc EXCEPT !.left = @ \ {f}]
  /\ UNCHANGED gcRuns

GcRemoved ==
  /\ gc.dir # None /\ gc.left = {}
  /\ meta[gc.dir] = None /\ artifact[gc.dir] = None
  /\ gc' = [gc EXCEPT !.dir = None]
  /\ UNCHANGED <<meta, artifact, gcRuns>>

(* The command ends: nothing is left to remove, or a removal has failed.     *)
GcEnds ==
  /\ gc.phase = "removing"
  /\ gc.dir # None \/ gc.victims = {}
  /\ gc' = NoGc
  /\ UNCHANGED <<meta, artifact, gcRuns>>

GcNext ==
  /\ \/ GcStart \/ GcScan \/ GcScanned \/ GcList
     \/ \E f \in Files : GcUnlink(f)
     \/ GcRemoved \/ GcEnds
  /\ UNCHANGED <<tasks, tmp, holder, free, children, issued, env, getVars>>

-----------------------------------------------------------------------------

(* A step of the server; its downloads die with it.                          *)
ServerNext ==
  /\ Next
  /\ GcWhileServing \/ gc.phase = "idle" \/ UNCHANGED pc
  /\ IF crashes' = crashes
       THEN UNCHANGED getVars
       ELSE /\ get' = [r \in Readers |-> NoGet]
            /\ served' = [r \in Readers |-> "none"]
  /\ UNCHANGED gcVars

(* The link of a download could be served in the state just reached.        *)
ServableThen(l) ==
  LET id == IdOf[l.src] IN
  meta'[id] # None /\ Matches(meta'[id], l, now') /\ artifact'[id] # None

Watch ==
  steady' = [r \in Readers |->
    /\ get'[r].link # None
    /\ get[r].link = None \/ steady[r]
    /\ ServableThen(get'[r].link)
    /\ gc.phase = "idle" /\ gc'.phase = "idle"]

ServiceNext == (ServerNext \/ GetNext \/ GcNext) /\ Watch

ServiceSpec == ServiceInit /\ [][ServiceNext]_serviceVars

-----------------------------------------------------------------------------

(* A download never returns the signed file of another source than the one  *)
(* whose submission returned the link.                                      *)
DownloadsAreOwn ==
  [][\A r \in Readers : get[r].link # None /\ served'[r] \in Sources
       => served'[r] = get[r].link.src]_serviceVars

(* A link is never served by a download that starts after the link has      *)
(* expired, whatever later submissions made of its build.                    *)
ExpiredIsNotServed ==
  [][\A r \in Readers : get[r].link # None /\ served'[r] \in Sources
       => get[r].now < get[r].link.expires_at]_serviceVars

(* A link that is servable from the start of a download to its end, while no *)
(* gc runs, is served: renewals, rebuilds, submissions of other builds and    *)
(* what an earlier gc has left never get in the way.                         *)
SteadyLinkIsServed ==
  [][\A r \in Readers : steady[r] /\ get[r].link # None /\ get'[r].link = None
                        /\ crashes' = crashes
       => served'[r] \in Sources]_serviceVars

(* What GET /api/builds/<id> tells of a build is what GET /s/<token> does     *)
(* with its links.  A build that is called expired or failed serves none of   *)
(* them; one that is called ready counts at least one, and those it counts    *)
(* are served, all of them and no other, as long as its file is there.  When  *)
(* a failed rebuild has removed the file and could not record its failure, or *)
(* has not yet, the build is still called ready and serves none.             *)
ViewAgreesWithLinks ==
  \A id \in Ids : meta[id] # None =>
    LET view == MetadataView(id, now)
        working == {tk \in meta[id].tokens : Works(id, tk, now)}
        ready == view.status = "ready" IN
    /\ ready => view.download_token_count > 0
    /\ Cardinality(working) =
         IF ready /\ artifact[id] # None THEN view.download_token_count ELSE 0

(* gc removes a build only when it has expired.                             *)
GcRemovesOnlyExpired ==
  [][\A id \in Ids : meta[id] # None /\ meta'[id] = None
       => meta[id].expires_at <= now]_serviceVars

=============================================================================
