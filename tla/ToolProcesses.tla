----------------------------- MODULE ToolProcesses -----------------------------
(***************************************************************************)
(* The processes a server starts: the runs of cherri and shortcuts sign     *)
(* under a timeout, each in a process group of its own, and the probes of    *)
(* the tools, which block the thread they are made on.  The probes of        *)
(* GET /health are made under the mutex of the health cache; those of a      *)
(* submission are not cached.                                               *)
(*                                                                         *)
(* A run is cut at its .awaits, and between the timeout and the two kills,   *)
(* because the operating system goes on in the meantime.                     *)
(***************************************************************************)
EXTENDS Integers, FiniteSets

CONSTANTS
  Runs,     \* submissions that run a tool: one each
  Pids,     \* process numbers
  Clients,  \* handler tasks of authenticated GET /health
  Workers,  \* threads of the runtime
  Ttl,      \* health_cache_ttl
  None,     \* no process, no task, an empty cache
  MaxTime   \* bound: the clock

ASSUME ToolAssumption ==
  /\ None \notin Runs \union Pids \union Clients
  /\ Workers \in Nat \ {0} /\ Ttl \in Nat /\ MaxTime \in Nat

VARIABLES
  run,     \* where each run is, its process, whether its time is up, its result
  os,      \* the process group of each number: whose, its leader, other members
  health,  \* where each health request is
  holder,  \* the health request that has the mutex of the cache
  cache,   \* health_cache: when the tools were probed last
  now      \* the clock

runVars == <<run, os>>
healthVars == <<health, holder, cache>>
vars == <<runVars, healthVars, now>>

-----------------------------------------------------------------------------

Points == {"idle", "probing", "spawning", "waiting", "killing", "reaping", "over"}

Results == {"none", "error", "ended", "timed_out", "dropped"}

NoGroup == [owner |-> None, leader |-> "gone", helper |-> FALSE]

Fresh == [pc |-> "idle", pid |-> None, late |-> FALSE, result |-> "none"]

ToolTypeOK ==
  /\ run \in [Runs -> [pc : Points, pid : Pids \union {None}, late : BOOLEAN, result : Results]]
  /\ os \in [Pids -> [owner : Runs \union {None}, leader : {"running", "zombie", "gone"},
                      helper : BOOLEAN]]
  /\ \A p \in Pids : os[p].owner = None <=> os[p] = NoGroup
  /\ health \in [Clients -> {"idle", "locking", "probing"}]
  /\ holder \in Clients \union {None}
  /\ cache \in 0..MaxTime \union {None}
  /\ now \in 0..MaxTime

Init ==
  /\ run = [r \in Runs |-> Fresh]
  /\ os = [p \in Pids |-> NoGroup]
  /\ health = [c \in Clients |-> "idle"]
  /\ holder = None /\ cache = None /\ now = 0

-----------------------------------------------------------------------------
(* The threads: a probe keeps the one it is made on.                         *)

Blocked == {r \in Runs : run[r].pc = "probing"} \union {c \in Clients : health[c] = "probing"}

CanPoll == Cardinality(Blocked) < Workers

-----------------------------------------------------------------------------
(* The operating system.  A number is not given again while its process has  *)
(* not been reaped or its group has a member.                                *)

Unused(p) == os[p] = NoGroup

Settled(g) == IF g.leader = "gone" /\ ~g.helper THEN NoGroup ELSE g

Reaped(g) == Settled([g EXCEPT !.leader = "gone"])

LeaderExits(p) ==
  /\ os[p].leader = "running"
  /\ os' = [os EXCEPT ![p].leader = "zombie"]
  /\ UNCHANGED run

HelperStarts(p) ==
  /\ os[p].leader = "running" /\ ~os[p].helper
  /\ os' = [os EXCEPT ![p].helper = TRUE]
  /\ UNCHANGED run

HelperExits(p) ==
  /\ os[p].helper
  /\ os' = [os EXCEPT ![p] = Settled([@ EXCEPT !.helper = FALSE])]
  /\ UNCHANGED run

(* A child whose future was dropped is reaped by the runtime.                *)
OrphanReaped(p) ==
  /\ os[p].leader = "zombie" /\ run[os[p].owner].result = "dropped"
  /\ os' = [os EXCEPT ![p] = Reaped(@)]
  /\ UNCHANGED run

-----------------------------------------------------------------------------
(* run_command_with_timeout.                                                *)

\* Fault: the child is killed and reaped first, its group afterwards.
AfterReapFirst(point) ==
  CASE point = "waiting" -> "reaping" [] point = "reaping" -> "killing" [] point = "killing" -> "over"

After(point) ==
  CASE point = "waiting" -> "killing" [] point = "killing" -> "reaping" [] point = "reaping" -> "over"

Goto(r, point) == run' = [run EXCEPT ![r].pc = point]

Over(r, result) == run' = [run EXCEPT ![r] = [Fresh EXCEPT !.pc = "over", !.result = result]]

(* Where the timeout leads: to the next point, or to the end of the run.     *)
Advance(r) ==
  IF After(run[r].pc) = "over"
    THEN Over(r, "timed_out")
    ELSE run' = [run EXCEPT ![r].pc = After(@), ![r].late = FALSE]

(* decide probes the tools.                                                  *)
ProbeStarts(r) ==
  /\ run[r].pc = "idle" /\ CanPoll
  /\ Goto(r, "probing")
  /\ UNCHANGED os

ProbeEnds(r) ==
  /\ run[r].pc = "probing"
  /\ Goto(r, "spawning")
  /\ UNCHANGED os

(* The files for the output are made and the tool is started, or not.        *)
Spawn(r) ==
  /\ run[r].pc = "spawning" /\ CanPoll
  /\ \/ \E p \in Pids :
          /\ Unused(p)
          /\ os' = [os EXCEPT ![p] = [owner |-> r, leader |-> "running", helper |-> FALSE]]
          /\ run' = [run EXCEPT ![r].pc = "waiting", ![r].pid = p]
     \/ Over(r, "error") /\ UNCHANGED os

Elapse(r) ==
  /\ run[r].pc = "waiting" /\ ~run[r].late
  /\ run' = [run EXCEPT ![r].late = TRUE]
  /\ UNCHANGED os

(* A poll that finds the child dead, in time or not.                         *)
Ended(r) ==
  /\ run[r].pc = "waiting" /\ CanPoll
  /\ os[run[r].pid].leader = "zombie"
  /\ os' = [os EXCEPT ![run[r].pid] = Reaped(@)]
  /\ Over(r, "ended")

\* Fault: nothing limits the wait.
TimeIsUpNever(r) == FALSE

TimeIsUp(r) == run[r].late

(* A poll that has not seen the child end and finds that its time is up.     *)
TimesOut(r) ==
  /\ run[r].pc = "waiting" /\ CanPoll
  /\ TimeIsUp(r)
  /\ Advance(r)
  /\ UNCHANGED os

\* Fault: the signal goes to the child and not to its group.
StruckLeader(g) == IF g.leader = "running" THEN [g EXCEPT !.leader = "zombie"] ELSE g

Struck(g) ==
  Settled([g EXCEPT !.leader = IF @ = "running" THEN "zombie" ELSE @, !.helper = FALSE])

(* kill(-pid, 9), in the poll of the timeout.                                *)
KillGroup(r) ==
  /\ run[r].pc = "killing"
  /\ os' = [os EXCEPT ![run[r].pid] = Struck(@)]
  /\ Advance(r)

(* child.kill() and child.wait(): the child is dead, and reaped.             *)
KillAndReap(r) ==
  /\ run[r].pc = "reaping" /\ CanPoll
  /\ os' = [os EXCEPT ![run[r].pid] = Reaped(@)]
  /\ Advance(r)

(* The client has gone and the future is dropped at its .await.              *)
Drop(r) ==
  /\ run[r].pc \in {"waiting", "reaping"}
  /\ Over(r, "dropped")
  /\ UNCHANGED os

-----------------------------------------------------------------------------
(* get_cached_toolchain.                                                    *)

Ask(c) ==
  /\ health[c] = "idle"
  /\ health' = [health EXCEPT ![c] = "locking"]
  /\ UNCHANGED <<holder, cache>>

Leave(c) ==
  /\ health[c] = "locking"
  /\ health' = [health EXCEPT ![c] = "idle"]
  /\ UNCHANGED <<holder, cache>>

IsCached == cache # None /\ now - cache < Ttl

\* Fault: the mutex is let go before the probe.
HolderWhileProbingNone(c) == None

HolderWhileProbing(c) == c

(* The mutex is there: the cached answer is given, or a probe begins.        *)
Enter(c) ==
  /\ health[c] = "locking" /\ holder = None /\ CanPoll
  /\ IF IsCached
       THEN health' = [health EXCEPT ![c] = "idle"] /\ UNCHANGED holder
       ELSE /\ health' = [health EXCEPT ![c] = "probing"]
            /\ holder' = HolderWhileProbing(c)
  /\ UNCHANGED cache

\* Fault: the mutex is not let go.
HolderKept == holder

HolderAfterProbe == None

(* The probe is over; its time is taken now.                                 *)
Probed(c) ==
  /\ health[c] = "probing"
  /\ health' = [health EXCEPT ![c] = "idle"]
  /\ cache' = now
  /\ holder' = HolderAfterProbe

-----------------------------------------------------------------------------

Tick ==
  /\ now < MaxTime
  /\ now' = now + 1
  /\ UNCHANGED <<runVars, healthVars>>

RunStep(r) ==
  \/ ProbeEnds(r) \/ Spawn(r) \/ Ended(r) \/ TimesOut(r) \/ KillGroup(r) \/ KillAndReap(r)

RunNext ==
  /\ \/ \E r \in Runs : ProbeStarts(r) \/ RunStep(r) \/ Elapse(r) \/ Drop(r)
     \/ \E p \in Pids : LeaderExits(p) \/ HelperStarts(p) \/ HelperExits(p) \/ OrphanReaped(p)
  /\ UNCHANGED <<healthVars, now>>

HealthStep(c) == (Enter(c) \/ Probed(c)) /\ UNCHANGED <<runVars, now>>

HealthNext ==
  \/ \E c \in Clients : HealthStep(c)
  \/ (\E c \in Clients : Ask(c) \/ Leave(c)) /\ UNCHANGED <<runVars, now>>

Next == RunNext \/ HealthNext \/ Tick

(* A task that is ready is polled when its turn comes, although threads may   *)
(* be blocked from time to time; the mutex is handed over in the order of     *)
(* arrival; a probe of --version or help ends; time passes.  Nothing is       *)
(* assumed of the tools that are run.                                        *)
Fairness ==
  /\ \A r \in Runs :
       /\ SF_vars(RunStep(r) /\ UNCHANGED <<healthVars, now>>)
       /\ WF_vars(Elapse(r) /\ UNCHANGED <<healthVars, now>>)
  /\ \A c \in Clients : SF_vars(HealthStep(c))

Spec == Init /\ [][Next]_vars /\ Fairness

-----------------------------------------------------------------------------

(* When a timeout is reported, the tool and whatever it has started in its   *)
(* group are gone, whether or not the tool exited meanwhile by itself.       *)
TimedOutIsGone ==
  \A r \in Runs : run[r].result = "timed_out" => \A p \in Pids : os[p].owner # r

(* The signal for a group never reaches processes of another run, even if    *)
(* process numbers are used again at once.                                   *)
KillsOnlyItsOwn ==
  [][\A r \in Runs : run[r].pc = "killing" /\ run'[r].pc # "killing" =>
       \A p \in Pids : os'[p] # os[p] => os[p].owner = r]_vars

(* However many health requests come together, leave, or wait behind a probe,*)
(* the ends of two probes for them are at least the ttl apart.               *)
ProbesAreRationed ==
  [][\A c \in Clients : health[c] = "probing" /\ health'[c] # "probing" /\ cache # None
       => cache' - cache >= Ttl]_vars

(* Every run comes to an end, with tools that never exit as well.            *)
EveryRunEnds == \A r \in Runs : run[r].pc = "probing" ~> run[r].pc = "over"

(* Every health request is answered or left.                                 *)
HealthIsAnswered == \A c \in Clients : health[c] = "locking" ~> health[c] = "idle"

=============================================================================
