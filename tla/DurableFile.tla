----------------------------- MODULE DurableFile ------------------------------
(***************************************************************************)
(* One file as the system replaces it: create a temporary file of a fixed  *)
(* name, write it, flush it, rename it over the file, flush the directory.  *)
(* save_metadata and persist_artifact do so under the lock of the build,    *)
(* commands that change the configuration file do so without any lock.      *)
(*                                                                         *)
(* A file is an inode with a few chunks.  Names and chunks that were not    *)
(* flushed may or may not outlive a loss of power; the order of changes to  *)
(* one directory is kept.                                                   *)
(***************************************************************************)
EXTENDS Integers, FiniteSets

CONSTANTS
  Writers,      \* tasks or processes that replace the file
  Inodes,       \* inodes there are room for
  Chunks,       \* a write may stop after any 0..Chunks of them
  None,         \* no inode
  HomeIsKept,   \* the entry of the file's directory in its parent is flushed
  MaxWrites,    \* bound: replacements begun
  MaxLosses     \* bound: losses of power

ASSUME DurableAssumption ==
  /\ None \notin Inodes /\ IsFiniteSet(Inodes)
  /\ Chunks \in Nat \ {0} /\ HomeIsKept \in BOOLEAN
  /\ MaxWrites \in Nat /\ MaxLosses \in Nat

VARIABLES
  writer,   \* the replacement each writer is at: phase, number, inode, chunks written
  data,     \* data[i][k] is the number of the replacement chunk k of inode i is from
  safe,     \* the same, as of the last flush of the inode
  dir,      \* the directory: the inodes of the file and of the temporary file
  kept,     \* the states of the directory since its last flush
  writes,   \* replacements begun
  losses,   \* losses of power so far
  acked     \* the last replacement that was reported done

vars == <<writer, data, safe, dir, kept, writes, losses, acked>>

Phases == {"idle", "writing", "flushed", "renamed"}

Idle == [phase |-> "idle", n |-> 0, ino |-> None, at |-> 0]

Blank == [k \in 1..Chunks |-> 0]

Contents == [1..Chunks -> 0..MaxWrites]

Dirs == [file : Inodes \union {None}, temp : Inodes \union {None}]

DurableTypeOK ==
  /\ writer \in [Writers -> [phase : Phases, n : 0..MaxWrites,
                             ino : Inodes \union {None}, at : 0..Chunks]]
  /\ data \in [Inodes -> Contents] /\ safe \in [Inodes -> Contents]
  /\ dir \in Dirs /\ kept \subseteq Dirs
  /\ writes \in 0..MaxWrites /\ losses \in 0..MaxLosses /\ acked \in 0..MaxWrites

Empty == [file |-> None, temp |-> None]

Init ==
  /\ writer = [w \in Writers |-> Idle]
  /\ data = [i \in Inodes |-> Blank] /\ safe = data
  /\ dir = Empty /\ kept = {Empty}
  /\ writes = 0 /\ losses = 0 /\ acked = 0

-----------------------------------------------------------------------------

Unused ==
  {i \in Inodes : /\ \A d \in kept : i # d.file /\ i # d.temp
                  /\ \A w \in Writers : i # writer[w].ino}

(* File::create: the temporary file of an earlier attempt is truncated.     *)
Create(w) ==
  /\ writer[w].phase = "idle" /\ writes < MaxWrites
  /\ \E i \in IF dir.temp = None THEN Unused ELSE {dir.temp} :
       /\ writer' = [writer EXCEPT ![w] =
                       [phase |-> "writing", n |-> writes + 1, ino |-> i, at |-> 0]]
       /\ data' = [data EXCEPT ![i] = Blank]
       /\ dir' = [dir EXCEPT !.temp = i]
  /\ kept' = kept \union {dir'}
  /\ writes' = writes + 1
  /\ UNCHANGED <<safe, losses, acked>>

MoreToWrite(w) == writer[w].at < Chunks

Write(w) ==
  /\ writer[w].phase = "writing" /\ MoreToWrite(w)
  /\ LET k == writer[w].at + 1 IN
       /\ writer' = [writer EXCEPT ![w].at = k]
       /\ data' = [data EXCEPT ![writer[w].ino][k] = writer[w].n]
  /\ UNCHANGED <<safe, dir, kept, writes, losses, acked>>

\* Fault: the data is left to the page cache.
FlushNothing(i) == safe

FlushInode(i) == [safe EXCEPT ![i] = data[i]]

Flush(w) ==
  /\ writer[w].phase = "writing" /\ ~MoreToWrite(w)
  /\ writer' = [writer EXCEPT ![w].phase = "flushed"]
  /\ safe' = FlushInode(writer[w].ino)
  /\ UNCHANGED <<data, dir, kept, writes, losses, acked>>

Rename(w) ==
  /\ writer[w].phase = "flushed" /\ dir.temp # None
  /\ writer' = [writer EXCEPT ![w].phase = "renamed"]
  /\ dir' = [file |-> dir.temp, temp |-> None]
  /\ kept' = kept \union {dir'}
  /\ UNCHANGED <<data, safe, writes, losses, acked>>

\* Fault: the directory is left to the page cache.
FlushNoNames == kept

FlushNames == {dir}

FlushDir(w) ==
  /\ writer[w].phase = "renamed"
  /\ kept' = FlushNames
  /\ acked' = writer[w].n
  /\ writer' = [writer EXCEPT ![w] = Idle]
  /\ UNCHANGED <<data, safe, dir, writes, losses>>

(* An operation fails, or the process of the writer dies, at any point.      *)
Fail(w) ==
  /\ writer[w].phase # "idle"
  /\ writer' = [writer EXCEPT ![w] = Idle]
  /\ UNCHANGED <<data, safe, dir, kept, writes, losses, acked>>

-----------------------------------------------------------------------------

(* Each chunk of an inode is as flushed, as written or not there.            *)
AfterLoss(i) ==
  IF safe[i] = data[i]
    THEN {data[i]}
    ELSE {c \in Contents : \A k \in 1..Chunks : c[k] \in {0, safe[i][k], data[i][k]}}

DirsAfterLoss == kept \union (IF HomeIsKept THEN {} ELSE {Empty})

PowerLoss ==
  /\ losses < MaxLosses
  /\ losses' = losses + 1
  /\ writer' = [w \in Writers |-> Idle]
  /\ dir' \in DirsAfterLoss
  /\ kept' = {dir'}
  /\ data' \in {d \in [Inodes -> Contents] : \A i \in Inodes : d[i] \in AfterLoss(i)}
  /\ safe' = data'
  /\ UNCHANGED <<writes, acked>>

WriterNext(w) ==
  Create(w) \/ Write(w) \/ Flush(w) \/ Rename(w) \/ FlushDir(w) \/ Fail(w)

Next == (\E w \in Writers : WriterNext(w)) \/ PowerLoss

Spec == Init /\ [][Next]_vars

-----------------------------------------------------------------------------

Torn == MaxWrites + 1

(* What a reader of the file makes of contents c.                            *)
ValueOf(c) ==
  IF \E n \in 1..MaxWrites : \A k \in 1..Chunks : c[k] = n THEN c[1] ELSE Torn

Value == IF dir.file = None THEN 0 ELSE ValueOf(data[dir.file])

ValuesAfterLoss ==
  UNION {IF d.file = None THEN {0} ELSE {ValueOf(c) : c \in AfterLoss(d.file)} : d \in DirsAfterLoss}

Cell == INSTANCE DurableCell
          WITH Values <- 1..MaxWrites, Absent <- 0, value <- Value, stable <- ValuesAfterLoss

(* A file with one writer at a time is a durable cell: readers never see a  *)
(* part of a replacement, and neither a failure nor a loss of power leaves  *)
(* anything but a complete value.                                            *)
ImplementsCell == Cell!Spec

(* A replacement that was reported done is not undone by a loss of power.    *)
AckedIsKept == \A v \in ValuesAfterLoss : v >= acked
=============================================================================
