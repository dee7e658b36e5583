---------------------------- MODULE ServiceControl ----------------------------
(***************************************************************************)
(* The operator's side: commands that change the configuration file or      *)
(* control the launchd job, the server processes that read the file when    *)
(* they start, the storage lock that lets one of them serve, and the port    *)
(* that it listens on and that doctor tries.                                *)
(*                                                                         *)
(* Commands and servers are processes; a step of one is what it does        *)
(* between two accesses to something others can see.                        *)
(***************************************************************************)
EXTENDS Integers, FiniteSets

CONSTANTS
  Shells,       \* terminals: each runs one command at a time
  Pids,         \* server processes: instances of the job or started by hand
  None,         \* no file, no process
  MaxCommands,  \* bound: commands begun
  MaxKills      \* bound: processes that die or are interrupted

ASSUME ControlAssumption ==
  /\ Shells \intersect Pids = {} /\ None \notin Shells \union Pids
  /\ IsFiniteSet(Pids)
  /\ MaxCommands \in Nat /\ MaxKills \in Nat

VARIABLES
  proc,      \* each process: what it runs, where it is, the settings it read,
             \* which file it has opened to migrate to, by its last change, and
             \* whether doctor has found nothing wrong so far
  toml,      \* shortcut-forge.toml
  legacy,    \* shortcut-forge.conf
  job,       \* the LaunchAgent: loaded into launchd or not, and its instance
  holder,    \* the process that holds the flock of <storage>/.lock
  minted,    \* auth tokens generated so far; the last one is the current one
  version,   \* history: changes written to the configuration
  applied,   \* history: the version that the last start or restart found
  commands,  \* commands begun
  kills,     \* processes that died or were interrupted
  whole      \* history: no migration of the legacy file has been torn

files == <<toml, legacy, minted, version>>
counts == <<commands, kills>>
system == <<proc, files, job, holder, applied, counts>>
vars == <<system, whole>>

(* The settings of a file: the token, 0 if there is none, the change that     *)
(* wrote it, which stands for all other settings, and whether                *)
(* build_runtime_config_from_file takes these.                                *)
Settings == [token : Nat, version : Nat, sound : BOOLEAN]

ASSUME NoneAssumption == None \notin Settings

(* An empty file leaves every setting at its default.                        *)
Blank == [token |-> 0, version |-> 0, sound |-> TRUE]

(* A file made by hand, or by an earlier version.                            *)
FirstFiles == [token : {1}, version : {0}, sound : BOOLEAN]

Operations == {"none", "init", "set", "rotate", "start", "stop", "restart", "doctor", "serve"}

Points == {"off", "resolve", "create", "fill", "read", "write", "status",
           "look", "try", "listening", "report", "lock", "bind", "serving"}

Off == [op |-> "none", pc |-> "off", conf |-> Blank, file |-> 0, fine |-> FALSE]

Serve == [Off EXCEPT !.op = "serve", !.pc = "resolve"]

NotLoaded == [loaded |-> FALSE, pid |-> None]

ControlTypeOK ==
  /\ proc \in [Shells \union Pids -> [op : Operations, pc : Points, conf : Settings, file : Nat,
                                fine : BOOLEAN]]
  /\ \A p \in Pids : proc[p].op \in {"none", "serve"}
  /\ toml \in Settings \union {None} /\ legacy \in Settings \union {None}
  /\ job \in [loaded : BOOLEAN, pid : Pids \union {None}]
  /\ ~job.loaded => job.pid = None
  /\ holder \in Pids \union {None}
  /\ minted \in Nat /\ version \in Nat /\ applied \in 0..version
  /\ commands \in 0..MaxCommands /\ kills \in 0..MaxKills
  /\ whole \in BOOLEAN

Init ==
  /\ proc = [x \in Shells \union Pids |-> Off]
  /\ \/ toml = None /\ legacy = None /\ minted = 0
     \/ toml \in FirstFiles /\ legacy = None /\ minted = 1
     \/ toml = None /\ legacy \in FirstFiles /\ minted = 1
  /\ job = NotLoaded /\ holder = None
  /\ version = 0 /\ applied = 0
  /\ commands = 0 /\ kills = 0 /\ whole = TRUE

At(x, pc) == proc[x].pc = pc

Goto(x, pc) ==
  proc' = [proc EXCEPT ![x].pc = pc] /\ UNCHANGED <<job, holder>>

(* A process is over, however it ended: the lock goes with the descriptor,   *)
(* and launchd sees that its instance has gone.                              *)
Ends(x) ==
  /\ proc' = [proc EXCEPT ![x] = Off]
  /\ job' = IF job.pid = x THEN [job EXCEPT !.pid = None] ELSE job
  /\ holder' = IF holder = x THEN None ELSE holder

-----------------------------------------------------------------------------
(* load_config_file, with the migration of a legacy file on the way: the new *)
(* file is created empty and then written.                                   *)

Resolve(x) ==
  /\ At(x, "resolve")
  /\ \/ toml # None /\ Goto(x, "read")
     \/ /\ toml = None /\ legacy # None
        /\ proc' = [proc EXCEPT ![x].pc = "create", ![x].conf = legacy]
        /\ UNCHANGED <<job, holder>>
     \/ /\ toml = None /\ legacy = None
        /\ IF proc[x].op = "init" THEN Goto(x, "write") ELSE Ends(x)
  /\ UNCHANGED <<files, applied, counts>>

Create(x) ==
  /\ At(x, "create")
  /\ proc' = [proc EXCEPT ![x].pc = "fill", ![x].file = version]
  /\ toml' = Blank
  /\ UNCHANGED <<job, holder>>
  /\ UNCHANGED <<legacy, minted, version, applied, counts>>

(* It writes to the file it opened, which a command may have replaced.      *)
Fill(x) ==
  /\ At(x, "fill")
  /\ proc' = [proc EXCEPT ![x].pc = "read", ![x].file = 0]
  /\ toml' = IF proc[x].file = version THEN proc[x].conf ELSE toml
  /\ UNCHANGED <<job, holder>>
  /\ UNCHANGED <<legacy, minted, version, applied, counts>>

(* Where a process goes with the settings it has read: `start` and `serve`    *)
(* want a token and what build_runtime_config_from_file takes.               *)
AfterRead(op, conf) ==
  CASE op \in {"init", "set", "rotate"} -> "write"
    [] op = "start" /\ conf.token # 0 /\ conf.sound -> "status"
    [] op = "doctor" -> "look"
    [] op = "serve" /\ conf.token # 0 /\ conf.sound -> "lock"
    [] OTHER -> "off"

Read(x) ==
  /\ At(x, "read")
  /\ LET next == AfterRead(proc[x].op, toml) IN
       \/ next = "off" /\ Ends(x)
       \/ proc[x].op = "init" /\ Ends(x)   \* the operator does not overwrite it
       \/ /\ next # "off"
          /\ proc' = [proc EXCEPT ![x].pc = next, ![x].conf = toml]
          /\ UNCHANGED <<job, holder>>
  /\ UNCHANGED <<files, applied, counts>>

Load(x) == Resolve(x) \/ Create(x) \/ Fill(x) \/ Read(x)

-----------------------------------------------------------------------------
(* Commands.                                                                *)

Begin(s, op) ==
  /\ At(s, "off") /\ commands < MaxCommands
  /\ proc' = [proc EXCEPT ![s] =
       [Off EXCEPT !.op = op, !.pc = IF op \in {"stop", "restart"} THEN "status" ELSE "resolve"]]
  /\ commands' = commands + 1
  /\ UNCHANGED <<files, job, holder, applied, kills>>

\* Fault: init always makes a token.
MintsAtInit(op, conf) == op \in {"init", "rotate"}

Mints(op, conf) == op = "rotate" \/ (op = "init" /\ conf.token = 0)

(* Whether what a command writes can be taken: init validates the settings,   *)
(* `config set` the one it changes, which may have been the wrong one.        *)
Repairs(op) == CASE op = "init" -> {TRUE} [] op = "set" -> BOOLEAN [] OTHER -> {FALSE}

(* The file is replaced by what the command makes of the settings it read.  *)
Save(s) ==
  LET mints == Mints(proc[s].op, proc[s].conf) IN
  /\ At(s, "write")
  /\ minted' = IF mints THEN minted + 1 ELSE minted
  /\ \E repaired \in Repairs(proc[s].op) :
       toml' = [token |-> IF mints THEN minted + 1 ELSE proc[s].conf.token,
                version |-> version + 1,
                sound |-> proc[s].conf.sound \/ repaired]
  /\ version' = version + 1
  /\ UNCHANGED <<legacy, applied, counts>>

Update(s) == proc[s].op \in {"set", "rotate"} /\ Save(s) /\ Ends(s)

(* init writes the job as well and may go on to start the service.           *)
Initialize(s) ==
  /\ proc[s].op = "init" /\ Save(s)
  /\ \/ Ends(s)
     \/ /\ proc' = [proc EXCEPT ![s].op = "start", ![s].pc = "resolve"]
        /\ UNCHANGED <<job, holder>>

FreePids == {p \in Pids : At(p, "off")}

(* launchctl bootstrap: the job is loaded and, by RunAtLoad, started.        *)
Bootstrap(s) ==
  /\ At(s, "status") /\ proc[s].op = "start" /\ ~job.loaded
  /\ \E p \in FreePids :
       /\ job' = [loaded |-> TRUE, pid |-> p]
       /\ proc' = [proc EXCEPT ![s] = Off, ![p] = Serve]
  /\ applied' = version
  /\ UNCHANGED <<files, holder, counts>>

(* A restart of a job that is not loaded is a start.                         *)
RestartStarts(s) ==
  /\ At(s, "status") /\ proc[s].op = "restart" /\ ~job.loaded
  /\ proc' = [proc EXCEPT ![s].op = "start", ![s].pc = "resolve"]
  /\ UNCHANGED <<files, job, holder, applied, counts>>

\* Fault: kickstart without -k.
KicksIdleOnly == job.pid = None

Kicks == TRUE

(* launchctl kickstart -k: a running instance is killed and a new one begun. *)
(* restart reads the configuration afterwards, to print it.                  *)
Kickstart(s) ==
  /\ At(s, "status") /\ proc[s].op \in {"start", "restart"} /\ job.loaded
  /\ LET after == [proc EXCEPT ![s] = IF @.op = "restart" THEN [@ EXCEPT !.pc = "resolve"] ELSE Off]
     IN IF Kicks
          THEN \E p \in FreePids \union ({job.pid} \ {None}) :
                 /\ proc' = [x \in DOMAIN proc |->
                               IF x = p THEN Serve ELSE IF x = job.pid THEN Off ELSE after[x]]
                 /\ job' = [job EXCEPT !.pid = p]
                 /\ holder' = IF holder = job.pid THEN None ELSE holder
          ELSE proc' = after /\ UNCHANGED <<job, holder>>
  /\ applied' = version
  /\ UNCHANGED <<files, counts>>

(* launchctl bootout, unless there is nothing to stop.                       *)
Stop(s) ==
  /\ At(s, "status") /\ proc[s].op = "stop"
  /\ proc' = [x \in DOMAIN proc |-> IF x \in {s, job.pid} THEN Off ELSE proc[x]]
  /\ job' = NotLoaded
  /\ holder' = IF holder = job.pid THEN None ELSE holder
  /\ UNCHANGED <<files, applied, counts>>

-----------------------------------------------------------------------------
(* doctor.  A server in front of which another one, or doctor, has the port   *)
(* cannot bind.                                                             *)

PortIsFree == \A x \in DOMAIN proc : ~At(x, "serving") /\ ~At(x, "listening")

(* A file that build_runtime_config_from_file refuses is not looked at any     *)
(* further.  With one that it takes, the token must be there and launchd run  *)
(* the job.  Any other check of the machine may fail as well.                *)
Look(s) ==
  /\ At(s, "look")
  /\ \E others \in BOOLEAN :
       proc' = [proc EXCEPT
                  ![s].pc = IF proc[s].conf.sound THEN "try" ELSE "report",
                  ![s].fine = /\ others
                              /\ proc[s].conf.sound => proc[s].conf.token # 0 /\ job.pid # None]
  /\ UNCHANGED <<job, holder>>

(* doctor listens on the port of the service for a moment; if it is in use,   *)
(* that must be by the job.                                                  *)
TryPort(s) ==
  \/ At(s, "try") /\ Goto(s, IF PortIsFree THEN "listening" ELSE "report")
  \/ At(s, "listening") /\ Goto(s, "report")

\* Fault: the request for the health of the service carries no token.
HealthAnswersAnybody(token) == \E p \in Pids : At(p, "serving")

(* GET /health with the token that was read.                                 *)
HealthAnswers(token) == \E p \in Pids : At(p, "serving") /\ proc[p].conf.token = token

(* doctor reports that all the checks it has made have passed: the service is  *)
(* asked for its health last, if the settings were taken.                    *)
AllChecksPass(s) ==
  proc[s].fine /\ (proc[s].conf.sound => HealthAnswers(proc[s].conf.token))

Report(s) == At(s, "report") /\ Ends(s)

Diagnose(s) ==
  /\ Look(s) \/ TryPort(s) \/ Report(s)
  /\ UNCHANGED <<files, applied, counts>>

CommandNext(s) ==
  \/ \E op \in Operations \ {"none", "serve"} : Begin(s, op)
  \/ Load(s) \/ Update(s) \/ Initialize(s)
  \/ Bootstrap(s) \/ RestartStarts(s) \/ Kickstart(s) \/ Stop(s)
  \/ Diagnose(s)

-----------------------------------------------------------------------------
(* Servers.                                                                 *)

(* Somebody runs `shortcut-forge serve` beside the job.                      *)
ServeByHand(p) ==
  /\ p \in FreePids
  /\ \A q \in Pids \ {job.pid} : At(q, "off")
  /\ proc' = [proc EXCEPT ![p] = Serve]
  /\ UNCHANGED <<files, job, holder, applied, counts>>

\* Fault: the lock file is opened and nothing more.
LockIsFreeAlways == TRUE

LockIsFree == holder = None

(* StorageLock::acquire: a server that does not get the lock exits.         *)
AcquireLock(p) ==
  /\ At(p, "lock")
  /\ IF LockIsFree
       THEN /\ proc' = [proc EXCEPT ![p].pc = "bind"]
            /\ holder' = p
            /\ UNCHANGED job
       ELSE Ends(p)
  /\ UNCHANGED <<files, applied, counts>>

(* A server that does not get the port exits.                                *)
Bind(p) ==
  /\ At(p, "bind")
  /\ IF PortIsFree THEN Goto(p, "serving") ELSE Ends(p)
  /\ UNCHANGED <<files, applied, counts>>

ServerStep(p) == Load(p) \/ AcquireLock(p) \/ Bind(p)

\* Fault: a job without KeepAlive.
KeepsAliveNever == FALSE

KeepsAlive == job.loaded /\ job.pid = None

(* KeepAlive: launchd starts the job again.                                  *)
Respawn ==
  /\ KeepsAlive
  /\ \E p \in FreePids :
       /\ job' = [job EXCEPT !.pid = p]
       /\ proc' = [proc EXCEPT ![p] = Serve]
  /\ UNCHANGED <<files, holder, applied, counts>>

(* A server crashes or is killed, a command is interrupted.                  *)
Kill(x) ==
  /\ ~At(x, "off") /\ kills < MaxKills
  /\ Ends(x)
  /\ kills' = kills + 1
  /\ UNCHANGED <<files, applied, commands>>

-----------------------------------------------------------------------------

Step ==
  \/ \E s \in Shells : CommandNext(s)
  \/ \E p \in Pids : ServeByHand(p) \/ ServerStep(p)
  \/ Respawn
  \/ \E x \in Shells \union Pids : Kill(x)

(* A migration is torn: it empties a file that is there by now, its process is *)
(* gone before the file is written, or a command takes the empty file over.   *)
Tears ==
  \/ toml # None /\ \E x \in DOMAIN proc : At(x, "create") /\ At(x, "fill")'
  \/ \E x \in DOMAIN proc :
       /\ At(x, "fill")
       /\ \/ ~At(x, "fill")' /\ ~At(x, "read")'
          \/ \E y \in DOMAIN proc : At(y, "read") /\ At(y, "write")'

Next == Step /\ whole' = (whole /\ ~Tears)

Spec == Init /\ [][Next]_vars

(* Processes run, and launchd restarts a job that has ended; doctor does not  *)
(* wait for anything while it listens.                                       *)
Fairness ==
  /\ WF_system(Respawn)
  /\ \A p \in Pids : WF_system(ServerStep(p))
  /\ \A s \in Shells : WF_system(Diagnose(s))

FairSpec == Spec /\ Fairness

-----------------------------------------------------------------------------

(* Two servers never serve the same storage, whoever started them and       *)
(* however their predecessors ended.                                        *)
OneServer ==
  \A p, q \in Pids : proc[p].pc \in {"bind", "serving"} /\ proc[q].pc \in {"bind", "serving"} => p = q

(* Once `restart` has been run, the job only serves with settings at least   *)
(* as new as those the restart found, unless a migration has been torn.       *)
RestartApplies ==
  whole /\ job.pid # None /\ At(job.pid, "serving") => proc[job.pid].conf.version >= applied

(* Only `token rotate` replaces a token: init and config set write the       *)
(* current one back, whatever was started, stopped, killed or migrated in     *)
(* between, as long as no migration was torn.  Torn ones do lose it: what is   *)
(* written then is a file without a token, or with a new one, or the token of  *)
(* the legacy file, but never one that was made and replaced since.           *)
TokenIsKept ==
  [][\A s \in Shells : At(s, "write") /\ version' # version /\ minted # 0 =>
       \/ proc[s].op = "rotate" \/ toml'.token = minted
       \/ ~whole /\ toml'.token \in {0, 1, minted'}]_vars

(* When doctor reports that all is well and no command has written the file    *)
(* since doctor read it, nor a migration been torn, one of two things is the    *)
(* case, whatever was started, restarted or killed meanwhile: a server is up    *)
(* that takes the token which smoke and build would now send, or the file is    *)
(* one that every server refuses, of which doctor says nothing.               *)
DoctorIsRight ==
  [][\A s \in Shells :
       At(s, "report") /\ At(s, "off")' /\ AllChecksPass(s)
       /\ proc[s].conf.version = version /\ whole =>
         IF toml.sound
           THEN \E p \in Pids : At(p, "serving") /\ proc[p].conf.token = toml.token
           ELSE \A p \in Pids : At(p, "serving") => proc[p].conf # toml]_vars

(* Liveness: while the job is loaded and there are settings and a token that   *)
(* a server takes, something serves sooner or later, even if another server   *)
(* had the lock when the job began, or doctor the port.                      *)
JobServes ==
  job.loaded ~> \/ ~job.loaded
                \/ \E p \in Pids : At(p, "serving")
                \/ toml = None \/ toml.token = 0 \/ ~toml.sound
=============================================================================
