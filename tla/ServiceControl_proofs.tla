------------------------- MODULE ServiceControl_proofs -------------------------
(***************************************************************************)
(* Theorems about ServiceControl, for any number of terminals and of server *)
(* processes.  Fairness is not used.                                        *)
(***************************************************************************)
EXTENDS ServiceControl, TLAPS

Processes == Shells \union Pids

Process == [op : Operations, pc : Points, conf : Settings, file : Nat, fine : BOOLEAN]

-----------------------------------------------------------------------------
(* Types.                                                                   *)

(* Besides the types: a file is there once a process has resolved it, and it  *)
(* is never removed.                                                         *)
Types ==
  /\ proc \in [Processes -> Process]
  /\ \A p \in Pids : proc[p].op \in {"none", "serve"}
  /\ toml \in Settings \union {None} /\ legacy \in Settings \union {None}
  /\ job \in [loaded : BOOLEAN, pid : Pids \union {None}]
  /\ ~job.loaded => job.pid = None
  /\ holder \in Pids \union {None}
  /\ minted \in Nat /\ version \in Nat /\ applied \in 0..version
  /\ commands \in 0..MaxCommands /\ kills \in 0..MaxKills
  /\ whole \in BOOLEAN
  /\ \A x \in Processes : proc[x].pc \in {"read", "fill"} => toml # None

LEMMA Records == /\ Off \in Process /\ Off.op = "none" /\ Off.pc = "off" /\ Off.conf = Blank
                 /\ Serve \in Process /\ Serve.op = "serve" /\ Serve.pc = "resolve"
                 /\ Serve.conf = Blank
                 /\ Blank \in Settings /\ None \notin Processes \union Settings
BY ControlAssumption, NoneAssumption
DEF Off, Serve, Blank, Settings, Process, Processes, Operations, Points

LEMMA TypesInit == Init => Types
BY Records, ControlAssumption
DEF Init, Types, NotLoaded, Settings, FirstFiles, Processes

(* The end of a process: only its record goes, with what depends on it.       *)
LEMMA EndsTypes ==
  ASSUME Types, NEW x \in Processes, Ends(x)
  PROVE  /\ proc' \in [Processes -> Process] /\ proc'[x] = Off
         /\ \A y \in Processes \ {x} : proc'[y] = proc[y]
         /\ job' \in [loaded : BOOLEAN, pid : Pids \union {None}]
         /\ job'.loaded = job.loaded /\ job'.pid \in {job.pid, None} \ {x}
         /\ holder' \in {holder, None} \ {x} /\ (holder # x => holder' = holder)
         /\ job.pid # x => job' = job
BY Records DEF Ends, Types

(* One process gets another record.                                          *)
LEMMA OneMoves ==
  ASSUME Types, NEW x \in Processes, NEW r \in Process, proc' = [proc EXCEPT ![x] = r],
         x \in Pids => r.op \in {"none", "serve"},
         r.pc \in {"read", "fill"} => toml' # None, toml # None => toml' # None
  PROVE  /\ proc' \in [Processes -> Process]
         /\ proc'[x] = r /\ \A y \in Processes \ {x} : proc'[y] = proc[y]
         /\ \A p \in Pids : proc'[p].op \in {"none", "serve"}
         /\ \A y \in Processes : proc'[y].pc \in {"read", "fill"} => toml' # None
<1>1. proc' \in [Processes -> Process] /\ proc'[x] = r
      /\ \A y \in Processes \ {x} : proc'[y] = proc[y]
  BY DEF Types
<1>2. \A p \in Pids : proc'[p].op \in {"none", "serve"}
  BY <1>1 DEF Types, Processes
<1>3. \A y \in Processes : proc'[y].pc \in {"read", "fill"} => toml' # None
  BY <1>1 DEF Types
<1> QED BY <1>1, <1>2, <1>3

(* A process goes to another point.                                         *)
LEMMA GotoMoves ==
  ASSUME Types, NEW x \in Processes, NEW l \in Points, Goto(x, l)
  PROVE  \E r \in Process : /\ proc' = [proc EXCEPT ![x] = r]
                            /\ r.op = proc[x].op /\ r.pc = l /\ r.conf = proc[x].conf
                            /\ r.file = proc[x].file /\ r.fine = proc[x].fine
<1> DEFINE r == [proc[x] EXCEPT !.pc = l]
<1>1. proc[x] \in Process
  BY DEF Types
<1>2. /\ r \in Process
      /\ r.op = proc[x].op /\ r.pc = l /\ r.conf = proc[x].conf
      /\ r.file = proc[x].file /\ r.fine = proc[x].fine
  BY <1>1 DEF Process
<1>3. proc' = [proc EXCEPT ![x] = r]
  BY DEF Goto
<1> HIDE DEF r
<1> QED BY <1>2, <1>3

(* A command that writes: what it has made of the settings it read.          *)
LEMMA SaveMakes ==
  ASSUME Types, NEW s \in Shells, Save(s)
  PROVE  /\ toml' \in Settings /\ toml' # None
         /\ toml'.version = version' /\ version' = version + 1 /\ version' \in Nat
         /\ minted' \in Nat
         /\ \/ toml'.token = minted'
            \/ toml'.token = proc[s].conf.token /\ minted' = minted
         /\ proc[s].op = "set" => toml'.token = proc[s].conf.token /\ minted' = minted
         /\ proc[s].op = "init" /\ proc[s].conf.token # 0 =>
              toml'.token = proc[s].conf.token /\ minted' = minted
         /\ UNCHANGED <<legacy, applied, counts>>
<1>1. proc[s].conf \in Settings /\ minted \in Nat /\ version \in Nat
  BY DEF Types, Process, Processes
<1>2. PICK repaired \in BOOLEAN :
        toml' = [token |-> IF Mints(proc[s].op, proc[s].conf) THEN minted + 1
                           ELSE proc[s].conf.token,
                 version |-> version + 1,
                 sound |-> proc[s].conf.sound \/ repaired]
  BY DEF Save, Repairs
<1>3. (proc[s].conf.sound \/ repaired) \in BOOLEAN
  OBVIOUS
<1>4. toml' \in Settings
  BY <1>1, <1>2, <1>3 DEF Settings
<1> QED BY <1>1, <1>2, <1>4, Records DEF Save, Mints

LEMMA TypesNext == Types /\ [Next]_vars => Types'
<1> SUFFICES ASSUME Types, [Next]_vars PROVE Types'
  OBVIOUS
<1> USE Records DEF Processes
<1>0. whole' \in BOOLEAN
  <2>1. CASE UNCHANGED vars
    BY <2>1 DEF vars, Types
  <2>2. CASE Next
    BY <2>2 DEF Next
  <2> QED BY <2>1, <2>2
<1> USE <1>0
<1>1. ASSUME NEW x \in Processes, Load(x) PROVE Types'
  <2>1. CASE Resolve(x)
    <3>1. ASSUME NEW l \in {"read", "write"}, Goto(x, l), l = "read" => toml # None
          PROVE  Types'
      <4>1. l \in Points /\ l # "fill"
        BY DEF Points
      <4>2. PICK r \in Process :
             proc' = [proc EXCEPT ![x] = r] /\ r.op = proc[x].op /\ r.pc = l
        BY <3>1, <4>1, GotoMoves
      <4> QED BY <2>1, <3>1, <4>1, <4>2, OneMoves DEF Types, Resolve, files, counts, Goto
    <3>2. CASE Ends(x)
      BY <2>1, <3>2, EndsTypes DEF Types, Resolve, files, counts
    <3>3. CASE /\ proc' = [proc EXCEPT ![x].pc = "create", ![x].conf = legacy] /\ legacy # None
               /\ UNCHANGED <<job, holder>>
      BY <2>1, <3>3 DEF Types, Resolve, files, counts, Points, Process
    <3> QED BY <2>1, <3>1, <3>2, <3>3 DEF Resolve
  <2>2. CASE Create(x)
    BY <2>2 DEF Types, Create, Points, Process, counts
  <2>3. CASE Fill(x)
    BY <2>3 DEF Types, Fill, At, Points, Process, counts
  <2>4. CASE Read(x)
    <3>1. CASE Ends(x)
      BY <2>4, <3>1, EndsTypes DEF Types, Read, files, counts
    <3>2. CASE ~Ends(x)
      <4> DEFINE next == AfterRead(proc[x].op, toml)
      <4>1. next \in Points
        BY DEF AfterRead, Points
      <4>2. next # "read" /\ next # "fill"
        BY DEF AfterRead
      <4> HIDE DEF next
      <4>3. proc' = [proc EXCEPT ![x].pc = next, ![x].conf = toml] /\ UNCHANGED <<job, holder>>
        BY <2>4, <3>2 DEF Read, next
      <4> QED BY <2>4, <4>1, <4>2, <4>3 DEF Types, Read, At, Process, files, counts
    <3> QED BY <3>1, <3>2
  <2> QED BY <1>1, <2>1, <2>2, <2>3, <2>4 DEF Load
<1>2. ASSUME NEW s \in Shells, NEW op \in Operations, Begin(s, op) PROVE Types'
  <2> DEFINE x == [Off EXCEPT !.op = op,
                              !.pc = IF op \in {"stop", "restart"} THEN "status" ELSE "resolve"]
  <2>1. x \in Process /\ x.pc \notin {"read", "fill"}
    BY DEF Process, Points
  <2>2. proc' = [proc EXCEPT ![s] = x]
    BY <1>2 DEF Begin
  <2> HIDE DEF x
  <2> QED BY <1>2, <2>1, <2>2, ControlAssumption DEF Types, Begin, files
<1>3. ASSUME NEW s \in Shells, Update(s) PROVE Types'
  <2>1. toml' \in Settings /\ minted' \in Nat /\ version' = version + 1
    BY <1>3, SaveMakes DEF Update
  <2> QED BY <1>3, <2>1, EndsTypes, ControlAssumption DEF Types, Update, Save, counts
<1>4. ASSUME NEW s \in Shells, Initialize(s) PROVE Types'
  <2>1. toml' \in Settings /\ minted' \in Nat /\ version' = version + 1
    BY <1>4, SaveMakes DEF Initialize
  <2>2. CASE Ends(s)
    BY <1>4, <2>1, <2>2, EndsTypes, ControlAssumption DEF Types, Initialize, Save, counts
  <2>3. CASE /\ proc' = [proc EXCEPT ![s].op = "start", ![s].pc = "resolve"]
             /\ UNCHANGED <<job, holder>>
    <3> DEFINE x == [proc[s] EXCEPT !.op = "start", !.pc = "resolve"]
    <3>1. x \in Process /\ x.pc \notin {"read", "fill"}
      BY DEF Types, Process, Operations, Points
    <3>2. proc' = [proc EXCEPT ![s] = x]
      BY <2>3 DEF Types, Process
    <3> HIDE DEF x
    <3> QED BY <1>4, <2>1, <2>3, <3>1, <3>2, OneMoves, ControlAssumption
            DEF Types, Initialize, Save, counts
  <2> QED BY <1>4, <2>2, <2>3 DEF Initialize
<1>5. ASSUME NEW s \in Shells, Bootstrap(s) PROVE Types'
  BY <1>5, ControlAssumption DEF Types, Bootstrap, FreePids, files, counts
<1>6. ASSUME NEW s \in Shells, RestartStarts(s) PROVE Types'
  BY <1>6, ControlAssumption
  DEF Types, RestartStarts, Process, Operations, Points, files, counts
<1>7. ASSUME NEW s \in Shells, Kickstart(s) PROVE Types'
  BY <1>7, ControlAssumption
  DEF Types, Kickstart, Kicks, FreePids, Process, Points, files, counts
<1>8. ASSUME NEW s \in Shells, Stop(s) PROVE Types'
  BY <1>8, ControlAssumption DEF Types, Stop, NotLoaded, files, counts
<1>9. ASSUME NEW s \in Shells, Diagnose(s) PROVE Types'
  <2>1. CASE Look(s)
    <3>1. PICK l \in {"try", "report"}, fine \in BOOLEAN :
            proc' = [proc EXCEPT ![s].pc = l, ![s].fine = fine]
      BY <2>1 DEF Look
    <3> DEFINE x == [proc[s] EXCEPT !.pc = l, !.fine = fine]
    <3>2. x \in Process /\ x.pc = l /\ proc' = [proc EXCEPT ![s] = x]
      BY <3>1 DEF Types, Process, Points
    <3> HIDE DEF x
    <3> QED BY <1>9, <2>1, <3>2, OneMoves, ControlAssumption
            DEF Types, Diagnose, Look, files, counts
  <2>2. CASE TryPort(s)
    <3>1. PICK l \in {"listening", "report"} : Goto(s, l)
      BY <2>2 DEF TryPort
    <3>2. l \in Points /\ l # "fill" /\ l # "read"
      BY DEF Points
    <3>3. PICK r \in Process :
           proc' = [proc EXCEPT ![s] = r] /\ r.op = proc[s].op /\ r.pc = l
      BY <3>1, <3>2, GotoMoves
    <3> QED BY <1>9, <3>1, <3>2, <3>3, OneMoves, ControlAssumption
            DEF Types, Diagnose, Goto, files, counts
  <2>3. CASE Report(s)
    BY <1>9, <2>3, EndsTypes, ControlAssumption DEF Types, Diagnose, Report, files, counts
  <2> QED BY <1>9, <2>1, <2>2, <2>3 DEF Diagnose
<1>10. ASSUME NEW p \in Pids, ServeByHand(p) PROVE Types'
  BY <1>10 DEF Types, ServeByHand, files, counts
<1>11. ASSUME NEW p \in Pids, AcquireLock(p) PROVE Types'
  BY <1>11, EndsTypes DEF Types, AcquireLock, LockIsFree, Process, Points, files, counts
<1>12. ASSUME NEW p \in Pids, Bind(p) PROVE Types'
  <2>1. CASE Ends(p)
    BY <1>12, <2>1, EndsTypes DEF Types, Bind, files, counts
  <2>2. CASE Goto(p, "serving")
    <3>1. "serving" \in Points
      BY DEF Points
    <3>2. PICK r \in Process :
           proc' = [proc EXCEPT ![p] = r] /\ r.op = proc[p].op /\ r.pc = "serving"
      BY <2>2, <3>1, GotoMoves
    <3> QED BY <1>12, <2>2, <3>2, OneMoves DEF Types, Bind, Goto, files, counts
  <2> QED BY <1>12, <2>1, <2>2 DEF Bind
<1>13. ASSUME Respawn PROVE Types'
  BY <1>13 DEF Types, Respawn, KeepsAlive, FreePids, files, counts
<1>14. ASSUME NEW x \in Processes, Kill(x) PROVE Types'
  BY <1>14, EndsTypes, ControlAssumption DEF Types, Kill, files
<1>15. ASSUME UNCHANGED vars PROVE Types'
  BY <1>15 DEF Types, vars, system, files, counts
<1> QED
  BY <1>1, <1>2, <1>3, <1>4, <1>5, <1>6, <1>7, <1>8, <1>9, <1>10, <1>11, <1>12, <1>13, <1>14,
     <1>15
  DEF Next, Step, CommandNext, ServerStep

-----------------------------------------------------------------------------
(* The storage lock.                                                        *)

(* A server that is past the lock holds it.                                  *)
Held == \A p \in Pids : proc[p].pc \in {"bind", "serving"} => holder = p

LEMMA HeldInit == Init => Held
BY ControlAssumption DEF Init, Held, Off

(* A process ends, and with it what it held.                                 *)
LEMMA EndsHeld ==
  ASSUME Types, Held, NEW x \in Processes, Ends(x)
  PROVE  Held'
<1>1. ASSUME NEW p \in Pids, proc'[p].pc \in {"bind", "serving"} PROVE holder' = p
  <2>1. p # x /\ proc'[p] = proc[p]
    BY <1>1, EndsTypes, Records DEF Processes
  <2> QED BY <1>1, <2>1, EndsTypes DEF Held
<1> QED BY <1>1 DEF Held

(* The lock stays with its holder, and nobody is let past it.                *)
LEMMA SameHeld ==
  ASSUME Held, holder' = holder,
         \A p \in Pids : proc'[p].pc \in {"bind", "serving"} => proc[p].pc \in {"bind", "serving"}
  PROVE  Held'
BY DEF Held

LEMMA HeldNext == Types /\ Held /\ [Next]_vars => Held'
<1> SUFFICES ASSUME Types, Held, [Next]_vars PROVE Held'
  OBVIOUS
<1> USE Records DEF Processes
<1>1. ASSUME NEW x \in Processes, Load(x) PROVE Held'
  <2>1. CASE Ends(x)
    BY <2>1, EndsHeld
  <2>2. CASE ~Ends(x)
    <3>1. PICK l \in {"read", "write", "create", "fill", "status", "look", "lock"} :
            /\ holder' = holder
            /\ \A y \in Processes : proc'[y].pc = IF y = x THEN l ELSE proc[y].pc
      BY <1>1, <2>2
      DEF Load, Resolve, Create, Fill, Read, AfterRead, Goto, Types, Process
    <3> QED BY <3>1, SameHeld
  <2> QED BY <2>1, <2>2
<1>2. ASSUME NEW s \in Shells, NEW op \in Operations, Begin(s, op) PROVE Held'
  BY <1>2, SameHeld, ControlAssumption DEF Begin, Types
<1>3. ASSUME NEW s \in Shells, Update(s) PROVE Held'
  BY <1>3, EndsHeld DEF Update
<1>4. ASSUME NEW s \in Shells, Initialize(s) PROVE Held'
  <2>1. CASE Ends(s)
    BY <2>1, EndsHeld
  <2>2. CASE ~Ends(s)
    BY <1>4, <2>2, SameHeld, ControlAssumption DEF Initialize, Types
  <2> QED BY <2>1, <2>2
<1>5. ASSUME NEW s \in Shells, Bootstrap(s) PROVE Held'
  BY <1>5, SameHeld, ControlAssumption DEF Bootstrap, FreePids, Types
<1>6. ASSUME NEW s \in Shells, RestartStarts(s) PROVE Held'
  BY <1>6, SameHeld, ControlAssumption DEF RestartStarts, Types
<1>7. ASSUME NEW s \in Shells, Kickstart(s) PROVE Held'
  <2>1. PICK p \in FreePids \union ({job.pid} \ {None}) :
          \A q \in Pids : proc'[q] = IF q = p THEN Serve ELSE IF q = job.pid THEN Off ELSE proc[q]
    BY <1>7, ControlAssumption DEF Kickstart, Kicks, Types
  <2>2. holder' = IF holder = job.pid THEN None ELSE holder
    BY <1>7 DEF Kickstart, Kicks
  <2>3. ASSUME NEW q \in Pids, proc'[q].pc \in {"bind", "serving"} PROVE holder' = q
    <3>1. q # job.pid /\ proc'[q] = proc[q]
      BY <2>1, <2>3
    <3> QED BY <2>2, <2>3, <3>1 DEF Held
  <2> QED BY <2>3 DEF Held
<1>8. ASSUME NEW s \in Shells, Stop(s) PROVE Held'
  <2>1. ASSUME NEW q \in Pids, proc'[q].pc \in {"bind", "serving"} PROVE holder' = q
    <3>1. q # job.pid /\ proc'[q] = proc[q]
      BY <1>8, <2>1, ControlAssumption DEF Stop, Types
    <3> QED BY <1>8, <2>1, <3>1 DEF Held, Stop
  <2> QED BY <2>1 DEF Held
<1>9. ASSUME NEW s \in Shells, Diagnose(s) PROVE Held'
  <2>1. CASE Ends(s)
    BY <2>1, EndsHeld
  <2>2. CASE ~Ends(s)
    BY <1>9, <2>2, SameHeld, ControlAssumption DEF Diagnose, Look, TryPort, Report, Goto, Types
  <2> QED BY <2>1, <2>2
<1>10. ASSUME NEW p \in Pids, ServeByHand(p) PROVE Held'
  BY <1>10, SameHeld DEF ServeByHand, Types
<1>11. ASSUME NEW p \in Pids, AcquireLock(p) PROVE Held'
  <2>1. CASE Ends(p)
    BY <2>1, EndsHeld
  <2>2. CASE ~Ends(p)
    BY <1>11, <2>2 DEF AcquireLock, LockIsFree, Held, Types
  <2> QED BY <2>1, <2>2
<1>12. ASSUME NEW p \in Pids, Bind(p) PROVE Held'
  <2>1. CASE Ends(p)
    BY <2>1, EndsHeld
  <2>2. CASE ~Ends(p)
    BY <1>12, <2>2, SameHeld DEF Bind, Goto, At, Types
  <2> QED BY <2>1, <2>2
<1>13. ASSUME Respawn PROVE Held'
  BY <1>13, SameHeld DEF Respawn, FreePids, Types
<1>14. ASSUME NEW x \in Processes, Kill(x) PROVE Held'
  BY <1>14, EndsHeld DEF Kill
<1>15. ASSUME UNCHANGED vars PROVE Held'
  BY <1>15 DEF Held, vars, system
<1> QED
  BY <1>1, <1>2, <1>3, <1>4, <1>5, <1>6, <1>7, <1>8, <1>9, <1>10, <1>11, <1>12, <1>13, <1>14,
     <1>15
  DEF Next, Step, CommandNext, ServerStep

(* The variables keep their types: the token, if there is one, and the change *)
(* that wrote it, the job and its instance, the holder of the lock.           *)
THEOREM ControlTypeCorrect == Spec => []ControlTypeOK
<1>1. Types => ControlTypeOK
  BY DEF Types, ControlTypeOK, Process, Processes
<1> QED BY <1>1, TypesInit, TypesNext, PTL DEF Spec

(* Two servers never serve the same storage: not two instances of the job,    *)
(* nor one of it and one started by hand, however many are begun and killed.  *)
THEOREM StorageHasOneServer == Spec => []OneServer
<1>1. Types /\ Held => OneServer
  BY DEF Held, OneServer
<1> QED BY <1>1, TypesInit, TypesNext, HeldInit, HeldNext, PTL DEF Spec

-----------------------------------------------------------------------------
(* The settings that are read and written.                                  *)

(* Commands come one after the other.                                        *)
OneShell == \A s, u \in Shells : s = u

Editors == {"init", "set", "rotate"}

Diagnosing == {"look", "try", "listening", "report"}

Started == {"lock", "bind", "serving"}

(* What is known of a process with record r, torn migrations or not: above    *)
(* all that the token it may write is none, the first one or the current one. *)
Proven(r) ==
  /\ r.pc \in {"create", "fill"} => legacy # None /\ r.conf = legacy
  /\ r.pc \in Started => r.conf.sound
  /\ r.pc = "resolve" /\ r.op = "init" => r.conf = Blank
  /\ r.pc = "write" => /\ r.op \in Editors
                       /\ toml = None => legacy = None
                       /\ OneShell => r.conf.token \in {0, 1, minted}
  /\ r.pc \in Diagnosing =>
       /\ r.op = "doctor" /\ toml # None /\ r.conf.version <= version
       /\ r.pc # "look" /\ r.fine /\ r.conf.sound => r.conf.token # 0

(* What is known of it as long as no migration has been torn.                *)
Current(r) ==
  /\ r.pc = "write" => (OneShell => r.conf.token = minted)
  /\ r.pc \in Diagnosing /\ r.conf.version = version => r.conf \in {toml, Blank}

(* The file is there once it has been written, and keeps a token that it has  *)
(* been given.                                                              *)
FilesProven ==
  /\ legacy \in FirstFiles \union {None}
  /\ legacy # None /\ version = 0 => minted = 1
  /\ toml = None => version = 0 /\ minted = (IF legacy = None THEN 0 ELSE 1)
  /\ toml # None => toml.version <= version /\ (OneShell => toml.token \in {0, 1, minted})

(* The file is that of the last change; it lacks the token only while the one *)
(* of the legacy file is carried over, which comes before any other change.   *)
FilesCurrent ==
  /\ toml # None => toml.version = version
  /\ toml # None /\ OneShell => toml.token = minted \/ \E x \in Processes : At(x, "fill")
  /\ \A x \in Processes : At(x, "fill") =>
       /\ version = 0 /\ toml = Blank /\ proc[x].file = 0
       /\ \A y \in Processes : ~At(y, "write") /\ (At(y, "fill") => y = x)

(* The instance of the job has read the file after it was started.           *)
InstanceIsFresh ==
  job.pid # None /\ proc[job.pid].pc \in Started => proc[job.pid].conf.version >= applied

Known ==
  /\ FilesProven /\ \A x \in Processes : Proven(proc[x])
  /\ whole => /\ FilesCurrent /\ InstanceIsFresh
              /\ \A x \in Processes : Current(proc[x])

LEMMA KnownInit == Init => Known
<1> SUFFICES ASSUME Init PROVE Known
  OBVIOUS
<1> USE Records
<1>1. /\ legacy \in FirstFiles \union {None} /\ toml \in FirstFiles \union {None}
      /\ \A x \in Processes : proc[x] = Off
      /\ job.pid = None /\ version = 0 /\ applied = 0
      /\ toml = None => minted = IF legacy = None THEN 0 ELSE 1
      /\ toml # None => minted = 1 /\ legacy = None
  <2>1. None \notin FirstFiles
    BY NoneAssumption DEF Settings, FirstFiles
  <2> QED BY <2>1 DEF Init, NotLoaded, Processes
<1>2. FilesProven /\ FilesCurrent
  BY <1>1 DEF FilesProven, FilesCurrent, FirstFiles, At
<1>3. \A x \in Processes : Proven(proc[x]) /\ Current(proc[x])
  BY <1>1 DEF Proven, Current, Started, Diagnosing
<1>4. InstanceIsFresh
  BY <1>1 DEF InstanceIsFresh
<1> QED BY <1>2, <1>3, <1>4 DEF Known

(* A process that is over, or about to resolve the configuration, knows       *)
(* nothing.                                                                *)
LEMMA NothingIsKnown ==
  ASSUME NEW r \in Process, r.pc \in {"off", "resolve", "status", "read"},
         r.op = "init" => r.pc # "resolve"
  PROVE  Proven(r) /\ Current(r)
BY DEF Proven, Current, Started, Diagnosing

(* The step of one process that leaves the files alone.                      *)
LEMMA OneStep ==
  ASSUME Types, Known, UNCHANGED <<files, applied>>, whole' => whole,
         NEW x \in Processes, NEW r \in Process, proc' = [proc EXCEPT ![x] = r],
         job'.pid \in {job.pid, None, x},
         Proven(r), r.pc # "fill",
         whole' => /\ ~At(x, "fill") /\ Current(r)
                   /\ r.pc = "write" => \A y \in Processes : ~At(y, "fill")
                   /\ x = job'.pid /\ r.pc \in Started => r.conf.version >= applied
  PROVE  Known'
<1>1. /\ proc'[x] = r /\ \A y \in Processes \ {x} : proc'[y] = proc[y]
      /\ UNCHANGED <<toml, legacy, minted, version, applied>>
  BY DEF Types, files
<1>2. FilesProven'
  BY <1>1 DEF Known, FilesProven, OneShell
<1>3. ASSUME NEW y \in Processes PROVE Proven(proc[y])'
  <2>1. Proven(proc'[y])
    BY <1>1 DEF Known
  <2> QED BY <1>1, <2>1 DEF Proven, OneShell
<1>4. ASSUME whole' PROVE FilesCurrent' /\ InstanceIsFresh' /\ \A y \in Processes : Current(proc[y])'
  <2>1. \A y \in Processes : At(y, "fill") <=> At(y, "fill")'
    BY <1>1, <1>4 DEF At
  <2>2. FilesCurrent'
    <3>1. /\ toml # None => toml.version = version
          /\ toml # None /\ OneShell => toml.token = minted \/ \E y \in Processes : At(y, "fill")
      BY <1>4 DEF Known, FilesCurrent
    <3>2. ASSUME NEW y \in Processes, At(y, "fill")'
          PROVE  /\ version = 0 /\ toml = Blank /\ proc'[y].file = 0
                 /\ \A z \in Processes : ~At(z, "write")' /\ (At(z, "fill")' => z = y)
      <4>1. At(y, "fill") /\ y # x
        BY <1>1, <2>1, <3>2 DEF At
      <4>2. /\ version = 0 /\ toml = Blank /\ proc[y].file = 0
            /\ \A z \in Processes : ~At(z, "write") /\ (At(z, "fill") => z = y)
        BY <1>4, <4>1 DEF Known, FilesCurrent
      <4>3. \A z \in Processes : ~At(z, "write")'
        BY <1>1, <1>4, <4>1, <4>2 DEF At
      <4> QED BY <1>1, <2>1, <4>1, <4>2, <4>3
    <3> QED BY <1>1, <2>1, <3>1, <3>2 DEF FilesCurrent, OneShell
  <2>3. InstanceIsFresh'
    BY <1>1, <1>4 DEF Known, InstanceIsFresh, Types, Processes
  <2>4. ASSUME NEW y \in Processes PROVE Current(proc[y])'
    <3>1. Current(proc'[y])
      BY <1>1, <1>4 DEF Known
    <3> QED BY <1>1, <3>1 DEF Current, OneShell
  <2> QED BY <2>2, <2>3, <2>4
<1> QED BY <1>2, <1>3, <1>4 DEF Known

(* A process that ends; a migration ends with it.                            *)
LEMMA EndStep ==
  ASSUME Types, Known, UNCHANGED <<files, applied>>, NEW x \in Processes, Ends(x),
         whole' => whole /\ ~At(x, "fill")
  PROVE  Known'
<1>1. proc' = [proc EXCEPT ![x] = Off] /\ job'.pid \in {job.pid, None, x}
  BY EndsTypes DEF Ends
<1>2. Proven(Off) /\ Current(Off)
  BY Records, NothingIsKnown
<1> QED BY <1>1, <1>2, Records, OneStep DEF Started

(* launchctl begins, ends and replaces an instance of the job.               *)
LEMMA ServiceStep ==
  ASSUME Types, Types', Known, UNCHANGED files, applied' \in 0..version, whole' => whole,
         \A y \in Processes :
           \/ proc'[y] = proc[y]
           \/ /\ proc'[y].pc \in {"off", "resolve"} /\ proc'[y].op # "init"
              /\ whole' => ~At(y, "fill"),
         job'.pid # None => job'.pid \in Pids /\ proc'[job'.pid].pc = "resolve"
  PROVE  Known'
<1>1. UNCHANGED <<toml, legacy, minted, version>>
  BY DEF files
<1>2. FilesProven'
  BY <1>1 DEF Known, FilesProven, OneShell
<1>3. ASSUME NEW y \in Processes PROVE Proven(proc'[y]) /\ (whole' => Current(proc'[y]))
  <2>1. CASE proc'[y] = proc[y]
    BY <2>1 DEF Known
  <2>2. CASE proc'[y].pc \in {"off", "resolve"} /\ proc'[y].op # "init"
    BY <2>2, NothingIsKnown DEF Types
  <2> QED BY <2>1, <2>2
<1>4. \A y \in Processes : Proven(proc[y])' /\ (whole' => Current(proc[y])')
  <2>1. ASSUME NEW y \in Processes PROVE Proven(proc[y])'
    <3>1. Proven(proc'[y])
      BY <1>3
    <3> QED BY <1>1, <3>1 DEF Proven, OneShell
  <2>2. ASSUME NEW y \in Processes, whole' PROVE Current(proc[y])'
    <3>1. Current(proc'[y])
      BY <1>3, <2>2
    <3> QED BY <1>1, <3>1 DEF Current, OneShell
  <2> QED BY <2>1, <2>2
<1>5. ASSUME whole' PROVE FilesCurrent' /\ InstanceIsFresh'
  <2>1. \A y \in Processes : At(y, "fill") <=> At(y, "fill")'
    BY <1>5 DEF At
  <2>2. \A y \in Processes : At(y, "write")' => At(y, "write")
    BY <1>5 DEF At
  <2>3. \A y \in Processes : At(y, "fill") => proc'[y] = proc[y]
    BY <1>5 DEF At
  <2>4. FilesCurrent
    BY <1>5 DEF Known
  <2>5. FilesCurrent'
    BY <1>1, <2>1, <2>2, <2>3, <2>4 DEF FilesCurrent, OneShell
  <2>6. InstanceIsFresh'
    BY DEF InstanceIsFresh, Started
  <2> QED BY <2>5, <2>6
<1> QED BY <1>2, <1>4, <1>5 DEF Known

(* Only commands write.                                                     *)
LEMMA WritersAreShells ==
  ASSUME Types, Known, NEW x \in Processes, At(x, "write")
  PROVE  x \in Shells /\ proc[x].op \in Editors
BY DEF Known, Proven, Types, Processes, Editors, At

(* A command replaces the file; what others know of it is out of date then.   *)
LEMMA SaveStep ==
  ASSUME Types, Known, whole' => whole, NEW s \in Shells, Save(s),
         NEW r \in Process, r = Off \/ (r.pc = "resolve" /\ r.op = "start"),
         proc' = [proc EXCEPT ![s] = r], job' = job
  PROVE  Known'
<1> USE Records
<1>1. s \in Processes /\ proc'[s] = r /\ (\A y \in Processes \ {s} : proc'[y] = proc[y])
      /\ s # job.pid
  BY ControlAssumption DEF Types, Processes
<1>2. At(s, "write")
  BY DEF Save
<1>3. /\ toml' \in Settings /\ toml' # None
      /\ toml'.version = version' /\ version' = version + 1 /\ version' \in Nat
      /\ minted' \in Nat
      /\ toml'.token = minted' \/ (toml'.token = proc[s].conf.token /\ minted' = minted)
      /\ UNCHANGED <<legacy, applied>>
  BY SaveMakes
<1>4. version \in Nat /\ minted \in Nat
  BY DEF Types
<1>5. OneShell => proc[s].conf.token \in {0, 1, minted}
  BY <1>1, <1>2 DEF Known, Proven, At
<1>6. FilesProven'
  BY <1>3, <1>4, <1>5 DEF Known, FilesProven, OneShell
<1>7. ASSUME NEW u \in Processes \ {s}, OneShell PROVE ~At(u, "write")
  BY <1>2, <1>7, WritersAreShells DEF OneShell
<1>8. ASSUME NEW u \in Processes PROVE Proven(proc[u])' /\ Current(proc[u])'
  <2>1. CASE u = s
    BY <1>1, <2>1 DEF Proven, Current, Started, Diagnosing
  <2>2. CASE u # s
    <3>1. Proven(proc[u]) /\ proc'[u] = proc[u] /\ (OneShell => ~At(u, "write"))
      BY <1>1, <1>7, <2>2 DEF Known
    <3>2. proc[u].conf.version \in Int
      BY DEF Types, Process, Settings
    <3>3. Proven(proc[u])'
      BY <1>3, <1>4, <3>1, <3>2 DEF Proven, OneShell, At
    <3>4. Current(proc[u])'
      BY <1>3, <1>4, <3>1, <3>2 DEF Proven, Current, OneShell, At
    <3> QED BY <3>3, <3>4
  <2> QED BY <2>1, <2>2
<1>9. ASSUME whole' PROVE FilesCurrent' /\ InstanceIsFresh'
  <2>1. \A x \in Processes : ~At(x, "fill")
    BY <1>1, <1>2, <1>9 DEF Known, FilesCurrent
  <2>2. \A x \in Processes : ~At(x, "fill")'
    BY <1>1, <2>1 DEF At
  <2>3. OneShell => proc[s].conf.token = minted
    BY <1>1, <1>2, <1>9 DEF Known, Current, At
  <2>4. FilesCurrent'
    BY <1>3, <2>2, <2>3 DEF FilesCurrent, OneShell
  <2>5. InstanceIsFresh'
    BY <1>1, <1>3, <1>9 DEF Known, InstanceIsFresh, Types, Processes
  <2> QED BY <2>4, <2>5
<1> QED BY <1>6, <1>8, <1>9 DEF Known

(* A process makes the file that it migrates to; unless that tears it, there   *)
(* was none.                                                                *)
LEMMA CreateStep ==
  ASSUME Types, Known, NEW x \in Processes, Create(x), whole' => whole /\ toml = None
  PROVE  Known'
<1> USE Records
<1>1. /\ At(x, "create") /\ proc[x] \in Process /\ version \in Nat
      /\ legacy # None /\ proc[x].conf = legacy
  BY DEF Create, At, Types, Known, Proven
<1>2. /\ UNCHANGED <<legacy, minted, version, applied, job>>
      /\ \A y \in Processes \ {x} : proc'[y] = proc[y]
      /\ proc'[x].pc = "fill" /\ proc'[x].file = version /\ proc'[x].conf = legacy
      /\ proc'[x].op = proc[x].op
      /\ toml' = Blank /\ toml' # None
  BY <1>1 DEF Create, Types, Process
<1>3. FilesProven'
  BY <1>1, <1>2 DEF Known, FilesProven, Blank, OneShell
<1>4. ASSUME NEW y \in Processes PROVE Proven(proc[y])'
  <2>1. CASE y = x
    BY <1>1, <1>2, <2>1 DEF Proven, Started, Diagnosing
  <2>2. CASE y # x
    <3>1. Proven(proc[y]) /\ proc'[y] = proc[y]
      BY <1>2, <2>2 DEF Known
    <3> QED BY <1>2, <3>1 DEF Proven, OneShell
  <2> QED BY <2>1, <2>2
<1>5. ASSUME whole' PROVE FilesCurrent' /\ InstanceIsFresh' /\ \A y \in Processes : Current(proc[y])'
  <2>1. version = 0 /\ minted = 1 /\ toml = None
    BY <1>1, <1>5 DEF Known, FilesProven
  <2>2. \A y \in Processes : /\ ~At(y, "fill") /\ ~At(y, "write")
                             /\ proc[y].pc \notin Diagnosing
    BY <1>1, <2>1 DEF Types, Known, Proven, At
  <2>3. FilesCurrent'
    BY <1>2, <2>1, <2>2 DEF FilesCurrent, Blank, At
  <2>4. InstanceIsFresh'
    BY <1>2, <1>5 DEF Known, InstanceIsFresh, Started, Types, Processes
  <2>5. \A y \in Processes : Current(proc[y])'
    BY <1>2, <2>2 DEF Current, Diagnosing, At
  <2> QED BY <2>3, <2>4, <2>5
<1> QED BY <1>3, <1>4, <1>5 DEF Known

(* It writes what it has migrated.                                          *)
LEMMA FillStep ==
  ASSUME Types, Known, NEW x \in Processes, Fill(x), whole' => whole
  PROVE  Known'
<1> USE Records
<1>1. /\ At(x, "fill") /\ proc[x] \in Process /\ version \in Nat /\ toml # None
      /\ legacy # None /\ proc[x].conf = legacy
  BY DEF Fill, At, Types, Known, Proven
<1>2. legacy.token = 1 /\ legacy.version = 0
  BY <1>1 DEF Known, FilesProven, FirstFiles
<1>3. /\ UNCHANGED <<legacy, minted, version, applied, job>>
      /\ \A y \in Processes \ {x} : proc'[y] = proc[y]
      /\ proc'[x].pc = "read" /\ proc'[x].op = proc[x].op
      /\ toml' = (IF proc[x].file = version THEN legacy ELSE toml) /\ toml' # None
  BY <1>1 DEF Fill, Types, Process
<1>4. FilesProven'
  BY <1>1, <1>2, <1>3 DEF Known, FilesProven, OneShell
<1>5. ASSUME NEW y \in Processes PROVE Proven(proc[y])'
  <2>1. CASE y = x
    BY <1>3, <2>1 DEF Proven, Started, Diagnosing
  <2>2. CASE y # x
    <3>1. Proven(proc[y]) /\ proc'[y] = proc[y]
      BY <1>3, <2>2 DEF Known
    <3> QED BY <1>3, <3>1 DEF Proven, OneShell
  <2> QED BY <2>1, <2>2
<1>6. ASSUME whole' PROVE FilesCurrent' /\ InstanceIsFresh' /\ \A y \in Processes : Current(proc[y])'
  <2>1. /\ version = 0 /\ toml = Blank /\ proc[x].file = 0
        /\ \A y \in Processes : ~At(y, "write") /\ (At(y, "fill") => y = x)
    BY <1>1, <1>6 DEF Known, FilesCurrent
  <2>2. toml' = legacy /\ minted = 1
    BY <1>1, <1>3, <2>1 DEF Known, FilesProven
  <2>3. \A y \in Processes : ~At(y, "fill")'
    BY <1>3, <2>1 DEF At
  <2>4. FilesCurrent'
    BY <1>2, <1>3, <2>1, <2>2, <2>3 DEF FilesCurrent
  <2>5. InstanceIsFresh'
    BY <1>3, <1>6 DEF Known, InstanceIsFresh, Started, Types, Processes
  <2>6. ASSUME NEW y \in Processes PROVE Current(proc[y])'
    <3>1. CASE y = x
      BY <1>3, <3>1 DEF Current, Diagnosing
    <3>2. CASE y # x
      <4>1. Current(proc[y]) /\ proc'[y] = proc[y]
        BY <1>3, <1>6, <3>2 DEF Known
      <4> QED BY <1>3, <2>1, <4>1 DEF Current, OneShell, At
    <3> QED BY <3>1, <3>2
  <2> QED BY <2>4, <2>5, <2>6
<1> QED BY <1>4, <1>5, <1>6 DEF Known

(* What a step does to the history.                                          *)
LEMMA Torn ==
  ASSUME Types, Next
  PROVE  /\ whole' => whole
         /\ whole' => \A x \in Processes :
              /\ At(x, "fill") => At(x, "fill")' \/ At(x, "read")'
              /\ At(x, "create") /\ At(x, "fill")' => toml = None
              /\ At(x, "read") /\ At(x, "write")' => \A y \in Processes : ~At(y, "fill")
BY DEF Next, Tears, Types

LEMMA KnownNext == Types /\ Known /\ [Next]_vars => Known'
<1> SUFFICES ASSUME Types, Known, [Next]_vars PROVE Known'
  OBVIOUS
<1>u. CASE UNCHANGED vars
  BY <1>u
  DEF vars, system, files, Known, FilesProven, FilesCurrent, Proven, Current, InstanceIsFresh,
      OneShell, At
<1> SUFFICES ASSUME Next PROVE Known'
  BY <1>u
<1> USE Records
<1>a. Shells \subseteq Processes /\ Pids \subseteq Processes /\ Shells \intersect Pids = {}
      /\ job.pid \notin Shells
  BY ControlAssumption DEF Processes, Types
<1>b. \A x \in Processes : proc[x] \in Process
  BY DEF Types
<1>c. Types'
  BY TypesNext
<1>d. whole' => whole
  BY Torn
<1>1. ASSUME NEW x \in Processes, Resolve(x) PROVE Known'
  <2>1. UNCHANGED <<files, applied>> /\ proc[x].pc = "resolve" /\ ~At(x, "fill")
    BY <1>1 DEF Resolve, At
  <2>2. CASE Ends(x)
    BY <1>d, <2>1, <2>2, EndStep
  <2>3. CASE toml # None /\ Goto(x, "read")
    <3>1. PICK r \in Process : proc' = [proc EXCEPT ![x] = r] /\ r.pc = "read"
      BY <2>3, GotoMoves DEF Points
    <3>2. Proven(r) /\ Current(r) /\ job' = job
      BY <2>3, <3>1, NothingIsKnown DEF Goto
    <3> QED BY <1>d, <2>1, <3>1, <3>2, OneStep DEF Started
  <2>4. CASE toml = None /\ legacy = None /\ proc[x].op = "init" /\ Goto(x, "write")
    <3>1. PICK r \in Process : /\ proc' = [proc EXCEPT ![x] = r]
                               /\ r.op = proc[x].op /\ r.pc = "write" /\ r.conf = proc[x].conf
      BY <2>4, GotoMoves DEF Points
    <3>2. proc[x].conf = Blank /\ minted = 0
      BY <2>1, <2>4 DEF Known, FilesProven, Proven
    <3>3. Proven(r) /\ Current(r) /\ job' = job
      BY <2>4, <3>1, <3>2 DEF Proven, Current, Goto, Blank, Editors, Started, Diagnosing
    <3>4. \A y \in Processes : ~At(y, "fill")
      BY <2>4 DEF Types, At
    <3> QED BY <1>d, <2>1, <3>1, <3>3, <3>4, OneStep DEF Started
  <2>5. CASE /\ legacy # None
             /\ proc' = [proc EXCEPT ![x].pc = "create", ![x].conf = legacy]
             /\ UNCHANGED <<job, holder>>
    <3> DEFINE r == [proc[x] EXCEPT !.pc = "create", !.conf = legacy]
    <3>1. /\ r \in Process /\ r.pc = "create" /\ r.conf = legacy
          /\ proc' = [proc EXCEPT ![x] = r]
      BY <1>b, <2>5 DEF Types, Process, Points
    <3> HIDE DEF r
    <3>2. Proven(r) /\ Current(r)
      BY <2>5, <3>1 DEF Proven, Current, Started, Diagnosing
    <3> QED BY <1>d, <2>1, <2>5, <3>1, <3>2, OneStep DEF Started
  <2> QED BY <1>1, <2>2, <2>3, <2>4, <2>5 DEF Resolve
<1>2. ASSUME NEW x \in Processes, Read(x) PROVE Known'
  <2>1. /\ UNCHANGED <<files, applied>> /\ At(x, "read") /\ toml # None /\ ~At(x, "fill")
        /\ proc[x].pc = "read" /\ toml \in Settings
    BY <1>2 DEF Read, At, Types
  <2>2. CASE Ends(x)
    BY <1>d, <2>1, <2>2, EndStep
  <2>3. CASE ~Ends(x)
    <3> DEFINE l == AfterRead(proc[x].op, toml)
               r == [proc[x] EXCEPT !.pc = l, !.conf = toml]
    <3>1. /\ l \in {"write", "status", "look", "lock"}
          /\ l = "write" => proc[x].op \in Editors
          /\ l = "look" => proc[x].op = "doctor"
          /\ l = "lock" => toml.sound
          /\ proc' = [proc EXCEPT ![x].pc = l, ![x].conf = toml] /\ UNCHANGED <<job, holder>>
      BY <1>2, <2>3 DEF Read, AfterRead, Editors
    <3> HIDE DEF l
    <3>2. l \in Points
      BY <3>1 DEF Points
    <3>3. /\ r \in Process /\ r.pc = l /\ r.conf = toml /\ r.op = proc[x].op
          /\ proc' = [proc EXCEPT ![x] = r]
      BY <1>b, <2>1, <3>1, <3>2 DEF Process
    <3> HIDE DEF r
    <3>4. toml.version <= version /\ (OneShell => toml.token \in {0, 1, minted})
      BY <2>1 DEF Known, FilesProven
    <3>5. Proven(r)
      BY <2>1, <3>1, <3>3, <3>4 DEF Proven, Started, Diagnosing
    <3>6. ASSUME whole'
          PROVE  /\ Current(r)
                 /\ r.pc = "write" => \A y \in Processes : ~At(y, "fill")
                 /\ r.conf.version >= applied
      <4>1. r.pc = "write" => \A y \in Processes : ~At(y, "fill")
        <5>1. proc'[x] = r
          BY <3>3 DEF Types
        <5> QED BY <2>1, <3>6, <5>1, Torn DEF At
      <4>2. toml.version = version /\ applied <= version /\ version \in Nat
        BY <1>d, <2>1, <3>6 DEF Known, FilesCurrent, Types
      <4>3. r.pc = "write" => (OneShell => toml.token = minted)
        BY <1>d, <2>1, <3>6, <4>1 DEF Known, FilesCurrent
      <4> QED BY <3>3, <4>1, <4>2, <4>3 DEF Current
    <3> QED BY <1>d, <2>1, <3>1, <3>3, <3>5, <3>6, OneStep
  <2> QED BY <2>2, <2>3
<1>3. ASSUME NEW s \in Shells, NEW op \in Operations \ {"none", "serve"}, Begin(s, op) PROVE Known'
  <2> DEFINE r == [Off EXCEPT !.op = op,
                              !.pc = IF op \in {"stop", "restart"} THEN "status" ELSE "resolve"]
  <2>1. /\ r \in Process /\ r.pc \in {"status", "resolve"} /\ r.conf = Blank
    BY DEF Process, Points
  <2>2. /\ proc' = [proc EXCEPT ![s] = r] /\ UNCHANGED <<files, applied, job>> /\ ~At(s, "fill")
    BY <1>3 DEF Begin, At
  <2> HIDE DEF r
  <2>3. Proven(r) /\ Current(r)
    BY <2>1 DEF Proven, Current, Started, Diagnosing
  <2> QED BY <1>a, <1>d, <2>1, <2>2, <2>3, OneStep DEF Started
<1>4. ASSUME NEW s \in Shells, RestartStarts(s) PROVE Known'
  <2> DEFINE r == [proc[s] EXCEPT !.op = "start", !.pc = "resolve"]
  <2>1. /\ r \in Process /\ r.pc = "resolve" /\ r.op = "start"
        /\ proc' = [proc EXCEPT ![s] = r] /\ UNCHANGED <<files, applied, job>>
        /\ ~At(s, "fill")
    BY <1>a, <1>b, <1>4 DEF RestartStarts, Types, Process, Points, Operations, At
  <2> HIDE DEF r
  <2> QED BY <1>a, <1>d, <2>1, NothingIsKnown, OneStep DEF Started
<1>5. ASSUME NEW s \in Shells, Diagnose(s) PROVE Known'
  <2>1. UNCHANGED <<files, applied>> /\ proc[s].pc \in Diagnosing /\ ~At(s, "fill")
    BY <1>5 DEF Diagnose, Look, TryPort, Report, At, Diagnosing
  <2>2. Proven(proc[s]) /\ (whole' => Current(proc[s])) /\ proc[s] \in Process
    BY <1>a, <1>b, <1>d DEF Known
  <2>3. CASE Ends(s)
    BY <1>a, <1>d, <2>1, <2>3, EndStep
  <2>4. CASE Look(s)
    <3>1. PICK l \in {"try", "report"}, fine \in BOOLEAN :
            /\ proc' = [proc EXCEPT ![s].pc = l, ![s].fine = fine]
            /\ fine /\ proc[s].conf.sound => proc[s].conf.token # 0
            /\ job' = job
      BY <2>4 DEF Look
    <3> DEFINE r == [proc[s] EXCEPT !.pc = l, !.fine = fine]
    <3>2. /\ r \in Process /\ r.pc = l /\ r.op = proc[s].op /\ r.conf = proc[s].conf
          /\ r.fine = fine /\ proc' = [proc EXCEPT ![s] = r]
      BY <1>a, <2>2, <3>1 DEF Process, Points, Types
    <3> HIDE DEF r
    <3>3. Proven(r) /\ (whole' => Current(r))
      BY <2>1, <2>2, <3>1, <3>2 DEF Proven, Current, Started, Diagnosing
    <3> QED BY <1>a, <1>d, <2>1, <3>1, <3>2, <3>3, OneStep DEF Started
  <2>5. CASE TryPort(s)
    <3>1. PICK l \in {"listening", "report"} : Goto(s, l) /\ ~At(s, "look")
      BY <2>5 DEF TryPort, At
    <3>2. PICK r \in Process :
            /\ proc' = [proc EXCEPT ![s] = r] /\ r.pc = l
            /\ r.op = proc[s].op /\ r.conf = proc[s].conf /\ r.fine = proc[s].fine
      BY <1>a, <3>1, GotoMoves DEF Points
    <3>3. Proven(r) /\ (whole' => Current(r))
      BY <2>1, <2>2, <3>1, <3>2 DEF Proven, Current, Started, Diagnosing, At
    <3> QED BY <1>a, <1>d, <2>1, <3>1, <3>2, <3>3, OneStep DEF Started, Goto
  <2> QED BY <1>5, <2>3, <2>4, <2>5 DEF Diagnose, Report
<1>6. ASSUME NEW p \in Pids, ServeByHand(p) PROVE Known'
  <2>1. /\ proc' = [proc EXCEPT ![p] = Serve] /\ UNCHANGED <<files, applied, job>>
        /\ ~At(p, "fill")
    BY <1>6 DEF ServeByHand, FreePids, At
  <2> QED BY <1>a, <1>d, <2>1, NothingIsKnown, OneStep DEF Started
<1>7. ASSUME NEW p \in Pids, AcquireLock(p) \/ Bind(p) PROVE Known'
  <2>1. /\ UNCHANGED <<files, applied>> /\ proc[p].pc \in Started /\ ~At(p, "fill")
        /\ proc[p] \in Process /\ Proven(proc[p])
    BY <1>7, <1>a, <1>b DEF AcquireLock, Bind, At, Started, Known
  <2>2. CASE Ends(p)
    BY <1>a, <1>d, <2>1, <2>2, EndStep
  <2>3. CASE ~Ends(p)
    <3>1. PICK l \in {"bind", "serving"} : proc' = [proc EXCEPT ![p].pc = l] /\ job' = job
      BY <1>7, <2>3 DEF AcquireLock, Bind, Goto
    <3> DEFINE r == [proc[p] EXCEPT !.pc = l]
    <3>2. /\ r \in Process /\ r.pc = l /\ r.conf = proc[p].conf
          /\ proc' = [proc EXCEPT ![p] = r]
      BY <2>1, <3>1 DEF Process, Points
    <3> HIDE DEF r
    <3>3. Proven(r) /\ Current(r)
      BY <2>1, <3>1, <3>2 DEF Proven, Current, Started, Diagnosing
    <3>4. whole' /\ p = job'.pid => r.conf.version >= applied
      BY <1>d, <2>1, <3>1, <3>2, ControlAssumption DEF Known, InstanceIsFresh
    <3> QED BY <1>a, <1>d, <2>1, <3>1, <3>2, <3>3, <3>4, OneStep
  <2> QED BY <2>2, <2>3
<1>8. ASSUME Respawn PROVE Known'
  <2>1. PICK p \in Pids : /\ proc' = [proc EXCEPT ![p] = Serve] /\ ~At(p, "fill")
                          /\ job' = [job EXCEPT !.pid = p]
                          /\ UNCHANGED <<files, applied>>
    BY <1>8 DEF Respawn, FreePids, At
  <2>2. job'.pid = p
    BY <2>1 DEF Types
  <2> QED BY <1>a, <1>d, <2>1, <2>2, NothingIsKnown, OneStep DEF Started
<1>9. ASSUME NEW x \in Processes, Kill(x) PROVE Known'
  <2>1. UNCHANGED <<files, applied>> /\ Ends(x)
    BY <1>9 DEF Kill
  <2>2. whole' => ~At(x, "fill")
    BY <2>1, EndsTypes, Torn DEF At
  <2> QED BY <1>d, <2>1, <2>2, EndStep
<1>10. ASSUME NEW s \in Shells, Bootstrap(s) PROVE Known'
  <2>1. PICK p \in Pids :
          /\ job' = [loaded |-> TRUE, pid |-> p] /\ proc[p].pc = "off" /\ proc[s].pc = "status"
          /\ proc' = [proc EXCEPT ![s] = Off, ![p] = Serve]
          /\ UNCHANGED files /\ applied' = version
    BY <1>10 DEF Bootstrap, FreePids, At
  <2>2. \A y \in Processes : proc'[y] = IF y = p THEN Serve ELSE IF y = s THEN Off ELSE proc[y]
    BY <1>a, <2>1 DEF Types
  <2>3. \A y \in Processes :
          \/ proc'[y] = proc[y]
          \/ /\ proc'[y].pc \in {"off", "resolve"} /\ proc'[y].op # "init"
             /\ whole' => ~At(y, "fill")
    BY <2>1, <2>2 DEF At
  <2>4. job'.pid \in Pids /\ proc'[job'.pid].pc = "resolve" /\ applied' \in 0..version
    BY <1>a, <2>1, <2>2 DEF Types
  <2> QED BY <1>c, <1>d, <2>1, <2>3, <2>4, ServiceStep
<1>11. ASSUME NEW s \in Shells, Kickstart(s) PROVE Known'
  <2>1. PICK p \in FreePids \union ({job.pid} \ {None}) :
          /\ job' = [job EXCEPT !.pid = p] /\ UNCHANGED files /\ applied' = version
          /\ \A y \in Processes :
               proc'[y] = IF y = p THEN Serve ELSE IF y = job.pid THEN Off
                          ELSE IF y # s THEN proc[y]
                          ELSE IF proc[s].op = "restart" THEN [proc[s] EXCEPT !.pc = "resolve"]
                          ELSE Off
    BY <1>11 DEF Kickstart, Kicks, Types
  <2>2. p \in Pids /\ job'.pid = p /\ proc'[p] = Serve
    BY <1>a, <2>1 DEF FreePids, Types
  <2>3. proc[s].op = "restart" => [proc[s] EXCEPT !.pc = "resolve"].pc = "resolve"
                                  /\ [proc[s] EXCEPT !.pc = "resolve"].op = "restart"
    BY <1>a, <1>b DEF Process
  <2>4. ASSUME NEW y \in Processes, proc'[y] # proc[y]
        PROVE  proc'[y].pc \in {"off", "resolve"} /\ proc'[y].op # "init"
    BY <2>1, <2>3, <2>4
  <2>5. ASSUME NEW y \in Processes, proc'[y] # proc[y], whole' PROVE ~At(y, "fill")
    BY <2>4, <2>5, Torn DEF At
  <2>6. applied' \in 0..version
    BY <2>1 DEF Types
  <2> QED BY <1>c, <1>d, <2>1, <2>2, <2>4, <2>5, <2>6, ServiceStep
<1>12. ASSUME NEW s \in Shells, Stop(s) PROVE Known'
  <2>1. /\ UNCHANGED files /\ applied' = applied /\ job' = NotLoaded
        /\ \A y \in Processes : proc'[y] = IF y \in {s, job.pid} THEN Off ELSE proc[y]
    BY <1>12 DEF Stop, Types
  <2>2. ASSUME NEW y \in Processes, proc'[y] # proc[y]
        PROVE  proc'[y].pc \in {"off", "resolve"} /\ proc'[y].op # "init"
    BY <2>1, <2>2
  <2>3. ASSUME NEW y \in Processes, proc'[y] # proc[y], whole' PROVE ~At(y, "fill")
    BY <2>2, <2>3, Torn DEF At
  <2>4. job'.pid = None /\ applied' \in 0..version
    BY <2>1 DEF NotLoaded, Types
  <2> QED BY <1>c, <1>d, <2>1, <2>2, <2>3, <2>4, ServiceStep
<1>13. ASSUME NEW s \in Shells, Update(s) PROVE Known'
  <2>1. proc' = [proc EXCEPT ![s] = Off] /\ job' = job /\ Off \in Process
    BY <1>13, <1>a DEF Update, Ends
  <2> QED BY <1>13, <1>d, <2>1, SaveStep DEF Update
<1>14. ASSUME NEW s \in Shells, Initialize(s) PROVE Known'
  <2>1. CASE Ends(s)
    <3>1. proc' = [proc EXCEPT ![s] = Off] /\ job' = job
      BY <2>1, <1>a DEF Ends
    <3> QED BY <1>14, <1>d, <3>1, SaveStep DEF Initialize
  <2>2. CASE proc' = [proc EXCEPT ![s].op = "start", ![s].pc = "resolve"] /\ job' = job
    <3> DEFINE r == [proc[s] EXCEPT !.op = "start", !.pc = "resolve"]
    <3>1. /\ r \in Process /\ r.pc = "resolve" /\ r.op = "start"
          /\ proc' = [proc EXCEPT ![s] = r]
      BY <1>a, <1>b, <2>2 DEF Process, Points, Operations, Types
    <3> HIDE DEF r
    <3> QED BY <1>14, <1>d, <2>2, <3>1, SaveStep DEF Initialize
  <2> QED BY <1>14, <2>1, <2>2 DEF Initialize
<1>15. ASSUME NEW x \in Processes, Create(x) PROVE Known'
  <2>1. At(x, "create") /\ At(x, "fill")'
    BY <1>15, <1>b DEF Create, At, Types, Process
  <2> QED BY <1>15, <2>1, Torn, CreateStep
<1>16. ASSUME NEW x \in Processes, Fill(x) PROVE Known'
  BY <1>16, <1>d, FillStep
<1> QED
  BY <1>a, <1>1, <1>2, <1>3, <1>4, <1>5, <1>6, <1>7, <1>8, <1>9, <1>10, <1>11, <1>12, <1>13,
     <1>14, <1>15, <1>16
  DEF Next, Step, CommandNext, ServerStep, Load, Processes

LEMMA KnownInvariant == Spec => [](Types /\ Known)
BY TypesInit, TypesNext, KnownInit, KnownNext, PTL DEF Spec

(* Once `restart` has been run, the instance of the job serves only with      *)
(* settings that are at least as new as those the restart found, unless a     *)
(* migration of the legacy file has been torn.                               *)
THEOREM RestartTakesEffect == Spec => []RestartApplies
<1>1. Known => RestartApplies
  BY DEF Known, InstanceIsFresh, RestartApplies, Started, At
<1> QED BY <1>1, KnownInvariant, PTL

(* As long as commands come one after the other, init and config set write    *)
(* the current token back and only `token rotate` makes another one, whatever  *)
(* dies and is started meanwhile; after a torn migration what they write has   *)
(* no token, that of the legacy file or a new one.                           *)
THEOREM TokenSurvivesEdits ==
  ASSUME OneShell
  PROVE  Spec => TokenIsKept
<1> DEFINE Kept ==
      \A s \in Shells : At(s, "write") /\ version' # version /\ minted # 0 =>
        \/ proc[s].op = "rotate" \/ toml'.token = minted
        \/ ~whole /\ toml'.token \in {0, 1, minted'}
<1>1. Types /\ Known /\ [Next]_vars => Kept
  <2> SUFFICES ASSUME Types, Known, [Next]_vars, NEW s \in Shells, At(s, "write"),
                      version' # version, minted # 0, proc[s].op # "rotate"
               PROVE  toml'.token = minted \/ (~whole /\ toml'.token \in {0, 1, minted'})
    OBVIOUS
  <2>1. PICK u \in Shells : Save(u)
    BY DEF Next, Step, CommandNext, ServerStep, Load, Resolve, Create, Fill, Read, Begin, Update,
           Initialize, Bootstrap, RestartStarts, Kickstart, Stop, Diagnose, ServeByHand,
           AcquireLock, Bind, Respawn, Kill, vars, system, files
  <2>2. u = s /\ s \in Processes
    BY DEF OneShell, Processes
  <2>3. /\ proc[s].op \in {"init", "set"} /\ proc[s].conf.token \in {0, 1, minted}
        /\ whole => proc[s].conf.token = minted
    BY <2>2 DEF Known, Proven, Current, Editors, At
  <2>4. toml'.token = minted' \/ (toml'.token = proc[s].conf.token /\ minted' = minted)
    BY <2>1, <2>2, SaveMakes
  <2>5. whole => toml'.token = minted
    BY <2>1, <2>2, <2>3, SaveMakes
  <2> QED BY <2>3, <2>4, <2>5
<1>2. Types /\ Known /\ [Next]_vars => [Kept]_vars
  BY <1>1
<1> QED BY <1>2, KnownInvariant, PTL DEF Spec, TokenIsKept

(* When doctor reports that all is well and the file has not been replaced    *)
(* since it was read, a server is up that takes the token of the file, or it   *)
(* is a file that no server takes.                                           *)
THEOREM DoctorTellsTheTruth == Spec => DoctorIsRight
<1> DEFINE Good(s) == /\ At(s, "report") /\ AllChecksPass(s)
                      /\ proc[s].conf.version = version /\ whole
           Right(s) == IF toml.sound
                         THEN \E p \in Pids : At(p, "serving") /\ proc[p].conf.token = toml.token
                         ELSE \A p \in Pids : At(p, "serving") => proc[p].conf # toml
<1>1. ASSUME Types, Known, NEW s \in Shells, Good(s) PROVE Right(s)
  <2>1. /\ Proven(proc[s]) /\ Current(proc[s]) /\ proc[s].pc = "report"
        /\ \A p \in Pids : At(p, "serving") => proc[p].conf.sound
    BY <1>1 DEF Known, Proven, Started, Processes, At
  <2>2. toml # None /\ proc[s].conf \in {toml, Blank}
    BY <1>1, <2>1 DEF Proven, Current, Diagnosing
  <2>3. proc[s].conf.sound => proc[s].conf.token # 0
    BY <1>1, <2>1 DEF Proven, Diagnosing, AllChecksPass
  <2>4. proc[s].conf = toml
    BY <2>2, <2>3 DEF Blank
  <2>5. CASE toml.sound
    BY <1>1, <2>4, <2>5 DEF AllChecksPass, HealthAnswers
  <2>6. CASE ~toml.sound
    BY <2>1, <2>6
  <2> QED BY <2>5, <2>6
<1>2. Types /\ Known => [\A s \in Shells :
        At(s, "report") /\ At(s, "off")' /\ AllChecksPass(s)
        /\ proc[s].conf.version = version /\ whole => Right(s)]_vars
  BY <1>1
<1> QED BY <1>2, KnownInvariant, PTL DEF DoctorIsRight

=============================================================================
