---------------------------- MODULE BuildRegistry ----------------------------
(***************************************************************************)
(* What POST /api/builds promises about the builds on disk, with nothing    *)
(* said of tasks, locks, slots or processes: each submission that changes a *)
(* build changes it in one step, computed from the build as it is then.     *)
(***************************************************************************)
EXTENDS Integers

CONSTANTS Sources, Ids, IdOf, Tools, Ttls, None,
          Hashes   \* hashes of download tokens

VARIABLES
  builds,   \* the metadata of each build, or None
  files,    \* the artifact of each build, or None
  clock

vars == <<builds, files, clock>>

Init ==
  /\ builds = [id \in Ids |-> None]
  /\ files = [id \in Ids |-> None]
  /\ clock = 0

OldTokens(id) == IF builds[id] = None THEN {} ELSE builds[id].tokens

(* A build is never taken over by another source.                           *)
Owns(id, src) == IdOf[src] = id /\ (builds[id] # None => builds[id].src = src)

(* The build of src as a submission decided at time t leaves it.             *)
Changed(id, src, status, tokens, tool, t, ttl) ==
  [src |-> src, status |-> status, tokens |-> tokens, toolchain |-> tool,
   created_at |-> IF builds[id] = None THEN t ELSE builds[id].created_at,
   expires_at |-> t + ttl]

(* A renewal or a rebuild: a link is added to those that had not expired     *)
(* when the submission was decided, and the file of that source is there.    *)
Issue(id) ==
  \E src \in Sources, tool \in Tools, t \in 0..clock, ttl \in Ttls, h \in Hashes :
    /\ Owns(id, src)
    /\ files[id] # None /\ files[id].src = src
    /\ \A tk \in OldTokens(id) : tk.hash # h
    /\ builds' = [builds EXCEPT ![id] =
         Changed(id, src, "ready",
                 {tk \in OldTokens(id) : tk.expires_at > t}
                   \union {[hash |-> h, expires_at |-> t + ttl]},
                 tool, t, ttl)]
    /\ UNCHANGED <<files, clock>>

(* A failed rebuild revokes every link.                                     *)
Fail(id) ==
  \E src \in Sources, tool \in Tools, t \in 0..clock, ttl \in Ttls :
    /\ Owns(id, src)
    /\ builds' = [builds EXCEPT ![id] = Changed(id, src, "failed", {}, tool, t, ttl)]
    /\ UNCHANGED <<files, clock>>

(* A rebuild replaces or removes the file before its outcome is recorded.    *)
PutFile(id) ==
  \E src \in Sources, tool \in Tools :
    /\ Owns(id, src)
    /\ files' = [files EXCEPT ![id] = [src |-> src, tool |-> tool]]
    /\ UNCHANGED <<builds, clock>>

DropFile(id) ==
  /\ files' = [files EXCEPT ![id] = None]
  /\ UNCHANGED <<builds, clock>>

Pass == clock' = clock + 1 /\ UNCHANGED <<builds, files>>

Next ==
  \/ \E id \in Ids : Issue(id) \/ Fail(id) \/ PutFile(id) \/ DropFile(id)
  \/ Pass

Spec == Init /\ [][Next]_vars

=============================================================================
