-------------------------- MODULE DurableFile_proofs ---------------------------
(***************************************************************************)
(* Theorems about DurableFile, for any number of inodes, chunks, writes and *)
(* losses of power.  Two of them are about a file that has one writer at a   *)
(* time, in a directory that is itself on stable storage.                    *)
(***************************************************************************)
EXTENDS DurableFile, TLAPS

-----------------------------------------------------------------------------
(* Types.                                                                   *)

LEMMA DurableTypesInit == Init => DurableTypeOK
BY DurableAssumption
DEF Init, DurableTypeOK, Phases, Idle, Blank, Contents, Dirs, Empty

LEMMA DurableTypesNext == DurableTypeOK /\ [Next]_vars => DurableTypeOK'
<1> SUFFICES ASSUME DurableTypeOK, [Next]_vars PROVE DurableTypeOK'
  OBVIOUS
<1> USE DurableAssumption DEF DurableTypeOK, Dirs, Phases
<1>1. Blank \in Contents
  BY DEF Blank, Contents
<1>2. ASSUME NEW w \in Writers, Create(w) PROVE DurableTypeOK'
  <2>1. PICK i \in Inodes :
          /\ writer' = [writer EXCEPT ![w] =
                          [phase |-> "writing", n |-> writes + 1, ino |-> i, at |-> 0]]
          /\ data' = [data EXCEPT ![i] = Blank]
          /\ dir' = [dir EXCEPT !.temp = i]
    BY <1>2 DEF Create, Unused
  <2>2. writes + 1 \in 0..MaxWrites
    BY <1>2 DEF Create
  <2>3. dir' \in Dirs
    BY <2>1
  <2> QED BY <1>1, <1>2, <2>1, <2>2, <2>3 DEF Create
<1>3. ASSUME NEW w \in Writers, Write(w) PROVE DurableTypeOK'
  <2>1. writer[w].at + 1 \in 0..Chunks
    BY <1>3 DEF Write, MoreToWrite
  <2>2. data' \in [Inodes -> Contents]
    BY <1>3 DEF Write, Contents
  <2> QED BY <1>3, <2>1, <2>2 DEF Write
<1>4. ASSUME NEW w \in Writers, Flush(w) PROVE DurableTypeOK'
  BY <1>4 DEF Flush, FlushInode
<1>5. ASSUME NEW w \in Writers, Rename(w) PROVE DurableTypeOK'
  BY <1>5 DEF Rename
<1>6. ASSUME NEW w \in Writers, FlushDir(w) PROVE DurableTypeOK'
  BY <1>6 DEF FlushDir, FlushNames, Idle
<1>7. ASSUME NEW w \in Writers, Fail(w) PROVE DurableTypeOK'
  BY <1>7 DEF Fail, Idle
<1>8. ASSUME PowerLoss PROVE DurableTypeOK'
  <2>1. dir' \in Dirs
    BY <1>8 DEF PowerLoss, DirsAfterLoss, Empty
  <2>2. data' \in [Inodes -> Contents] /\ safe' = data'
    BY <1>8 DEF PowerLoss
  <2> QED BY <1>8, <2>1, <2>2 DEF PowerLoss, Idle
<1>9. ASSUME UNCHANGED vars PROVE DurableTypeOK'
  BY <1>9 DEF vars
<1> QED
  BY <1>2, <1>3, <1>4, <1>5, <1>6, <1>7, <1>8, <1>9 DEF Next, WriterNext

(* Every variable keeps its type, with any number of writers.                *)
THEOREM DurableTypeCorrect == Spec => []DurableTypeOK
BY DurableTypesInit, DurableTypesNext, PTL DEF Spec

-----------------------------------------------------------------------------
(* One writer.                                                              *)

OneWriter == \A v, w \in Writers : v = w

Full(n) == [k \in 1..Chunks |-> n]

(* The inode holds one whole replacement, flushed, no older than the last    *)
(* that was reported done.                                                   *)
Solid(i) == \E n \in acked..writes : n > 0 /\ data[i] = Full(n) /\ safe[i] = data[i]

(* In every state of the directory that may come back, the file is solid, or *)
(* is missing and nothing was reported.                                      *)
Recoverable(d) ==
  /\ d.file # None => d.file # d.temp /\ Solid(d.file)
  /\ d.file = None => acked = 0

(* Where a writer is, in terms of its inode.                                 *)
Progressing(w) ==
  LET x == writer[w] IN
  /\ x.phase # "idle" => x.n = writes /\ x.n > 0 /\ x.ino \in Inodes
  /\ x.phase = "writing" =>
       x.ino = dir.temp /\ data[x.ino] = [k \in 1..Chunks |-> IF k <= x.at THEN x.n ELSE 0]
  /\ x.phase = "flushed" =>
       x.ino = dir.temp /\ data[x.ino] = Full(x.n) /\ safe[x.ino] = data[x.ino]
  /\ x.phase = "renamed" => x.ino = dir.file /\ data[x.ino] = Full(x.n)

Durable ==
  /\ DurableTypeOK
  /\ acked <= writes
  /\ dir \in kept
  /\ dir.temp # None => \A d \in kept : d.file # dir.temp
  /\ \A d \in kept : Recoverable(d)
  /\ \A w \in Writers : Progressing(w)

LEMMA DurableInit == Init => Durable
<1> SUFFICES ASSUME Init PROVE Durable
  OBVIOUS
<1>1. DurableTypeOK
  BY DurableTypesInit
<1>2. \A w \in Writers : Progressing(w)
  BY DEF Init, Idle, Progressing
<1> QED
  BY <1>1, <1>2 DEF Init, Durable, Empty, Recoverable

(* A file that a step does not touch stays solid while nothing is reported.  *)
LEMMA SolidStays ==
  ASSUME DurableTypeOK, DurableTypeOK', NEW i, Solid(i), acked' = acked, writes' >= writes,
         data'[i] = data[i], safe'[i] = safe[i]
  PROVE  Solid(i)'
<1>1. PICK n \in acked..writes : n > 0 /\ data[i] = Full(n) /\ safe[i] = data[i]
  BY DEF Solid
<1>2. n \in acked'..writes'
  BY DEF DurableTypeOK
<1> QED BY <1>1, <1>2 DEF Solid, Full

(* A step on an inode that is no file leaves what may come back as it was.   *)
LEMMA RecoverableStays ==
  ASSUME Durable, DurableTypeOK', acked' = acked, writes' >= writes,
         NEW d \in kept, d.file # None => data'[d.file] = data[d.file] /\ safe'[d.file] = safe[d.file]
  PROVE  Recoverable(d)'
<1>1. Recoverable(d)
  BY DEF Durable
<1>2. d.file # None => Solid(d.file)'
  BY <1>1, SolidStays DEF Recoverable, Durable
<1> QED BY <1>1, <1>2 DEF Recoverable

LEMMA DurableNext == OneWriter /\ HomeIsKept /\ Durable /\ [Next]_vars => Durable'
<1> SUFFICES ASSUME OneWriter, HomeIsKept, Durable, [Next]_vars PROVE Durable'
  OBVIOUS
<1>0. DurableTypeOK /\ DurableTypeOK'
  BY DurableTypesNext DEF Durable
<1> USE DurableAssumption
<1>1. ASSUME NEW w \in Writers, Create(w) PROVE Durable'
  <2>1. PICK i \in IF dir.temp = None THEN Unused ELSE {dir.temp} :
          /\ writer' = [writer EXCEPT ![w] =
                          [phase |-> "writing", n |-> writes + 1, ino |-> i, at |-> 0]]
          /\ data' = [data EXCEPT ![i] = Blank]
          /\ dir' = [dir EXCEPT !.temp = i]
    BY <1>1 DEF Create
  <2>2. /\ kept' = kept \union {dir'} /\ writes' = writes + 1
        /\ safe' = safe /\ acked' = acked
    BY <1>1 DEF Create
  <2>3. i \in Inodes /\ \A d \in kept : d.file # i
    BY <1>0, <2>1 DEF Durable, DurableTypeOK, Dirs, Unused
  <2>4. dir'.file = dir.file /\ dir'.temp = i
    BY <1>0, <2>1 DEF DurableTypeOK, Dirs
  <2>5. writes' >= writes /\ writes \in Nat
    BY <1>0, <2>2 DEF DurableTypeOK
  <2>6. \A d \in kept' : d.file # i /\ (d.file # None => data'[d.file] = data[d.file])
    BY <1>0, <2>1, <2>2, <2>3, <2>4 DEF Durable, DurableTypeOK, Dirs
  <2>7. \A d \in kept : Recoverable(d)'
    BY <1>0, <2>2, <2>5, <2>6, RecoverableStays
  <2>8. Recoverable(dir)'
    BY <2>3, <2>4, <2>7 DEF Recoverable, Durable
  <2>9. Progressing(w)'
    <3>1. data'[i] = [k \in 1..Chunks |-> IF k <= 0 THEN writes + 1 ELSE 0]
      BY <1>0, <2>1, <2>3 DEF DurableTypeOK, Blank
    <3> QED BY <1>0, <2>1, <2>2, <2>3, <2>4, <2>5, <3>1 DEF DurableTypeOK, Progressing
  <2>10. \A v \in Writers : Progressing(v)'
    BY <2>9 DEF OneWriter
  <2>11. acked' <= writes'
    BY <1>0, <2>2 DEF Durable, DurableTypeOK
  <2> QED BY <1>0, <2>2, <2>4, <2>6, <2>7, <2>8, <2>10, <2>11 DEF Durable
<1>2. ASSUME NEW w \in Writers, Write(w) PROVE Durable'
  <2> DEFINE x == writer[w]
             k0 == x.at + 1
  <2>1. /\ x.phase = "writing" /\ x.at < Chunks
        /\ writer' = [writer EXCEPT ![w].at = k0]
        /\ data' = [data EXCEPT ![x.ino][k0] = x.n]
        /\ UNCHANGED <<safe, dir, kept, writes, acked>>
    BY <1>2 DEF Write, MoreToWrite
  <2>2. /\ x.n = writes /\ x.n > 0 /\ x.ino \in Inodes /\ x.ino = dir.temp
        /\ data[x.ino] = [k \in 1..Chunks |-> IF k <= x.at THEN x.n ELSE 0]
        /\ x.at \in Nat
    BY <2>1, <1>0 DEF Durable, Progressing, DurableTypeOK
  <2>3. \A d \in kept : d.file # x.ino
    BY <2>2 DEF Durable
  <2>4. \A d \in kept : Recoverable(d)'
    <3> SUFFICES ASSUME NEW d \in kept PROVE Recoverable(d)'
      OBVIOUS
    <3>1. d.file # None => data'[d.file] = data[d.file]
      BY <1>0, <2>1, <2>3 DEF DurableTypeOK, Dirs
    <3>2. writes' >= writes
      BY <1>0, <2>1 DEF DurableTypeOK
    <3> QED BY <1>0, <2>1, <3>1, <3>2, RecoverableStays
  <2>5. data'[x.ino] = [k \in 1..Chunks |-> IF k <= k0 THEN x.n ELSE 0]
    <3>1. data'[x.ino] = [data[x.ino] EXCEPT ![k0] = x.n]
      BY <1>0, <2>1, <2>2 DEF DurableTypeOK
    <3> HIDE DEF x
    <3>2. \A k \in 1..Chunks : (k <= k0) <=> (k <= x.at \/ k = k0)
      BY <2>2
    <3> QED BY <2>2, <3>1, <3>2
  <2>6. writer'[w].phase = "writing" /\ writer'[w].n = x.n /\ writer'[w].ino = x.ino
        /\ writer'[w].at = k0
    BY <1>0, <2>1 DEF DurableTypeOK
  <2>7. \A v \in Writers : Progressing(v)'
    <3>1. Progressing(w)'
      BY <2>1, <2>2, <2>5, <2>6 DEF Progressing
    <3> QED BY <3>1 DEF OneWriter
  <2> QED BY <1>0, <2>1, <2>4, <2>7 DEF Durable
<1>3. ASSUME NEW w \in Writers, Flush(w) PROVE Durable'
  <2> DEFINE x == writer[w]
  <2>1. /\ x.phase = "writing" /\ ~(x.at < Chunks)
        /\ writer' = [writer EXCEPT ![w].phase = "flushed"]
        /\ safe' = [safe EXCEPT ![x.ino] = data[x.ino]]
        /\ UNCHANGED <<data, dir, kept, writes, acked>>
    BY <1>3 DEF Flush, FlushInode, MoreToWrite
  <2>2. /\ x.n = writes /\ x.n > 0 /\ x.ino \in Inodes /\ x.ino = dir.temp
        /\ data[x.ino] = [k \in 1..Chunks |-> IF k <= x.at THEN x.n ELSE 0]
    BY <2>1, <1>0 DEF Durable, Progressing, DurableTypeOK
  <2>3. \A d \in kept : d.file # x.ino
    BY <2>2 DEF Durable
  <2>4. \A d \in kept : Recoverable(d)'
    <3> SUFFICES ASSUME NEW d \in kept PROVE Recoverable(d)'
      OBVIOUS
    <3>1. d.file # None => safe'[d.file] = safe[d.file]
      BY <1>0, <2>1, <2>3 DEF DurableTypeOK, Dirs
    <3>2. writes' >= writes
      BY <1>0, <2>1 DEF DurableTypeOK
    <3> QED BY <1>0, <2>1, <3>1, <3>2, RecoverableStays
  <2>5. data[x.ino] = Full(x.n)
    <3>1. x.at \in 0..Chunks
      BY <1>0 DEF DurableTypeOK
    <3>2. \A k \in 1..Chunks : k <= x.at
      BY <2>1, <3>1
    <3> QED BY <2>2, <3>2 DEF Full
  <2>6. writer'[w].phase = "flushed" /\ writer'[w].n = x.n /\ writer'[w].ino = x.ino
    BY <1>0, <2>1 DEF DurableTypeOK
  <2>7. safe'[x.ino] = data[x.ino]
    BY <1>0, <2>1, <2>2 DEF DurableTypeOK
  <2>8. \A v \in Writers : Progressing(v)'
    BY <2>1, <2>2, <2>5, <2>6, <2>7 DEF OneWriter, Progressing, Full
  <2> QED BY <1>0, <2>1, <2>4, <2>8 DEF Durable
<1>4. ASSUME NEW w \in Writers, Rename(w) PROVE Durable'
  <2> DEFINE x == writer[w]
  <2>1. /\ x.phase = "flushed"
        /\ writer' = [writer EXCEPT ![w].phase = "renamed"]
        /\ dir' = [file |-> dir.temp, temp |-> None]
        /\ kept' = kept \union {dir'}
        /\ UNCHANGED <<data, safe, writes, acked>>
    BY <1>4 DEF Rename
  <2>2. /\ x.n = writes /\ x.n > 0 /\ x.ino \in Inodes /\ x.ino = dir.temp
        /\ data[x.ino] = Full(x.n) /\ safe[x.ino] = data[x.ino]
    BY <2>1 DEF Durable, Progressing
  <2>3. writes' >= writes /\ writes \in acked..writes
    BY <1>0, <2>1 DEF Durable, DurableTypeOK
  <2>4. \A d \in kept : Recoverable(d)'
    BY <1>0, <2>1, <2>3, RecoverableStays
  <2>5. Recoverable(dir)'
    BY <2>1, <2>2, <2>3 DEF Recoverable, Solid, Full
  <2>6. writer'[w].phase = "renamed" /\ writer'[w].n = x.n /\ writer'[w].ino = x.ino
    BY <1>0, <2>1 DEF DurableTypeOK
  <2>7. \A v \in Writers : Progressing(v)'
    BY <2>1, <2>2, <2>6 DEF OneWriter, Progressing, Full
  <2> QED BY <1>0, <2>1, <2>4, <2>5, <2>7 DEF Durable
<1>5. ASSUME NEW w \in Writers, FlushDir(w) PROVE Durable'
  <2> DEFINE x == writer[w]
  <2>1. /\ x.phase = "renamed" /\ kept' = {dir} /\ acked' = x.n
        /\ writer' = [writer EXCEPT ![w] = Idle]
        /\ UNCHANGED <<data, safe, dir, writes>>
    BY <1>5 DEF FlushDir, FlushNames
  <2>2. x.n = writes /\ x.n > 0 /\ x.ino \in Inodes /\ x.ino = dir.file /\ data[x.ino] = Full(x.n)
    BY <2>1 DEF Durable, Progressing
  <2>3. dir.file # None /\ dir.file # dir.temp /\ Solid(dir.file)
    BY <2>2 DEF Durable, Recoverable
  <2>4. safe[dir.file] = data[dir.file]
    BY <2>3 DEF Solid
  <2>5. writes \in acked'..writes'
    BY <1>0, <2>1, <2>2 DEF DurableTypeOK
  <2>6. Recoverable(dir)'
    BY <2>1, <2>2, <2>3, <2>4, <2>5 DEF Recoverable, Solid, Full
  <2>7. \A v \in Writers : Progressing(v)'
    BY <1>0, <2>1 DEF OneWriter, Progressing, Idle, DurableTypeOK
  <2> QED BY <1>0, <2>1, <2>3, <2>5, <2>6, <2>7 DEF Durable
<1>6. ASSUME NEW w \in Writers, Fail(w) PROVE Durable'
  <2>1. writer' = [writer EXCEPT ![w] = Idle] /\ UNCHANGED <<data, safe, dir, kept, writes, acked>>
    BY <1>6 DEF Fail
  <2>2. \A v \in Writers : Progressing(v)'
    BY <1>0, <2>1 DEF OneWriter, Progressing, Idle, DurableTypeOK
  <2>3. writes' >= writes
    BY <1>0, <2>1 DEF DurableTypeOK
  <2>4. \A d \in kept : Recoverable(d)'
    BY <1>0, <2>1, <2>3, RecoverableStays
  <2> QED BY <1>0, <2>1, <2>2, <2>4 DEF Durable
<1>7. ASSUME PowerLoss PROVE Durable'
  <2>1. PICK d \in kept :
          /\ dir' = d /\ kept' = {d} /\ safe' = data'
          /\ writer' = [w \in Writers |-> Idle]
          /\ \A i \in Inodes : data'[i] \in AfterLoss(i)
          /\ UNCHANGED <<writes, acked>>
    BY <1>7 DEF PowerLoss, DirsAfterLoss
  <2>2. Recoverable(d) /\ d \in Dirs
    BY <1>0 DEF Durable, DurableTypeOK
  <2>3. ASSUME d.file # None PROVE Solid(d.file)'
    <3>1. PICK n \in acked..writes : n > 0 /\ data[d.file] = Full(n) /\ safe[d.file] = data[d.file]
      BY <2>2, <2>3 DEF Recoverable, Solid
    <3>2. data'[d.file] = Full(n) /\ safe'[d.file] = data'[d.file]
      BY <2>1, <2>2, <2>3, <3>1 DEF AfterLoss, Dirs
    <3> QED BY <2>1, <3>1, <3>2 DEF Solid, Full
  <2>4. Recoverable(d)'
    BY <2>1, <2>2, <2>3 DEF Recoverable
  <2>5. \A v \in Writers : Progressing(v)'
    BY <2>1 DEF Progressing, Idle
  <2> QED BY <1>0, <2>1, <2>2, <2>4, <2>5 DEF Durable, Recoverable
<1>8. ASSUME UNCHANGED vars PROVE Durable'
  <2>1. UNCHANGED <<writer, data, safe, dir, kept, writes, acked>>
    BY <1>8 DEF vars
  <2> QED BY <1>0, <2>1 DEF Durable, Recoverable, Solid, Progressing, Full
<1> QED
  BY <1>1, <1>2, <1>3, <1>4, <1>5, <1>6, <1>7, <1>8 DEF Next, WriterNext

-----------------------------------------------------------------------------
(* What a reader finds and what a loss of power may leave.                   *)

(* The number of the replacement that is in place in a state of the directory.*)
Number(d) == IF d.file = None THEN 0 ELSE data[d.file][1]

LEMMA SolidValue ==
  ASSUME DurableTypeOK, NEW i \in Inodes, Solid(i)
  PROVE  /\ ValueOf(data[i]) = data[i][1] /\ data[i][1] \in acked..writes
         /\ data[i][1] \in 1..MaxWrites
         /\ AfterLoss(i) = {data[i]}
<1>1. PICK n \in acked..writes : n > 0 /\ data[i] = Full(n) /\ safe[i] = data[i]
  BY DEF Solid
<1>2. data[i][1] = n /\ n \in 1..MaxWrites /\ \A k \in 1..Chunks : data[i][k] = n
  BY <1>1, DurableAssumption DEF Full, DurableTypeOK
<1> QED BY <1>1, <1>2 DEF ValueOf, AfterLoss

(* What is in place, and what may be, is a whole replacement.                *)
LEMMA DurableValues ==
  ASSUME HomeIsKept, Durable
  PROVE  /\ Value = Number(dir)
         /\ ValuesAfterLoss = {Number(d) : d \in kept}
         /\ \A d \in kept : Number(d) >= acked
<1>1. ASSUME NEW d \in kept, d.file # None
      PROVE  /\ ValueOf(data[d.file]) = Number(d) /\ Number(d) >= acked
             /\ AfterLoss(d.file) = {data[d.file]}
  <2>1. d.file \in Inodes /\ Solid(d.file)
    BY <1>1 DEF Durable, DurableTypeOK, Dirs, Recoverable
  <2> QED BY <1>1, <2>1, SolidValue DEF Durable, DurableTypeOK, Number
<1>2. ASSUME NEW d \in kept, d.file = None PROVE Number(d) = 0 /\ 0 >= acked
  BY <1>2 DEF Durable, DurableTypeOK, Recoverable, Number
<1>3. Value = Number(dir)
  BY <1>1 DEF Durable, Value, Number
<1>4. DirsAfterLoss = kept
  BY DEF DirsAfterLoss
<1>5. \A d \in kept :
        (IF d.file = None THEN {0} ELSE {ValueOf(c) : c \in AfterLoss(d.file)}) = {Number(d)}
  BY <1>1, <1>2
<1>6. ValuesAfterLoss = UNION {{Number(d)} : d \in kept}
  BY <1>4, <1>5 DEF ValuesAfterLoss
<1> QED BY <1>1, <1>2, <1>3, <1>6

(* Once a replacement has been reported done, no loss of power, now or at any *)
(* later time, leaves an older file or none, whatever fails in between.       *)
THEOREM ReportedIsKept ==
  ASSUME OneWriter, HomeIsKept
  PROVE  Spec => []AckedIsKept
<1>1. Durable => AckedIsKept
  BY DurableValues DEF AckedIsKept
<1> QED BY <1>1, DurableInit, DurableNext, PTL DEF Spec

LEMMA StepIsCellStep ==
  ASSUME OneWriter, HomeIsKept, Durable, [Next]_vars
  PROVE  [Cell!Next]_(Cell!vars)
<1>1. Durable' /\ DurableTypeOK /\ DurableTypeOK'
  BY DurableNext DEF Durable
<1>2. /\ Value = Number(dir) /\ ValuesAfterLoss = {Number(d) : d \in kept}
      /\ Value' = Number(dir)' /\ ValuesAfterLoss' = {Number(d)' : d \in kept'}
  <2>1. Value = Number(dir) /\ ValuesAfterLoss = {Number(d) : d \in kept}
    BY DurableValues
  <2>2. (Value = Number(dir) /\ ValuesAfterLoss = {Number(d) : d \in kept})'
    BY <1>1, DurableValues, PTL
  <2> QED BY <2>1, <2>2
<1>3. ASSUME dir'.file = dir.file, kept' = kept \/ kept' = kept \union {dir'},
             \A d \in kept : d.file # None => data'[d.file] = data[d.file]
      PROVE  UNCHANGED Cell!vars
  <2>1. dir \in kept
    BY DEF Durable
  <2>2. \A d \in kept : Number(d)' = Number(d)
    BY <1>3 DEF Number
  <2>3. Number(dir)' = Number(dir)
    BY <1>3, <2>1 DEF Number
  <2>4. {Number(d)' : d \in kept'} = {Number(d) : d \in kept}
    BY <1>3, <2>1, <2>2, <2>3
  <2> QED BY <1>2, <2>3, <2>4 DEF Cell!vars
<1>4. ASSUME NEW w \in Writers, Create(w) PROVE UNCHANGED Cell!vars
  <2>1. PICK i \in IF dir.temp = None THEN Unused ELSE {dir.temp} :
          data' = [data EXCEPT ![i] = Blank] /\ dir' = [dir EXCEPT !.temp = i]
    BY <1>4 DEF Create
  <2>2. \A d \in kept : d.file # i
    BY <1>1, <2>1 DEF Durable, Unused
  <2>3. \A d \in kept : d.file # None => data'[d.file] = data[d.file]
    BY <1>1, <2>1, <2>2 DEF DurableTypeOK, Dirs
  <2>4. dir'.file = dir.file
    BY <1>1, <2>1 DEF DurableTypeOK, Dirs
  <2> QED BY <1>3, <1>4, <2>3, <2>4 DEF Create
<1>5. ASSUME NEW w \in Writers, Write(w) PROVE UNCHANGED Cell!vars
  <2>1. /\ writer[w].ino = dir.temp /\ writer[w].ino \in Inodes
        /\ data' = [data EXCEPT ![writer[w].ino][writer[w].at + 1] = writer[w].n]
        /\ dir' = dir /\ kept' = kept
    BY <1>5 DEF Write, Durable, Progressing
  <2>2. \A d \in kept : d.file # writer[w].ino
    BY <2>1, DurableAssumption DEF Durable
  <2>3. \A d \in kept : d.file # None => data'[d.file] = data[d.file]
    BY <1>1, <2>1, <2>2 DEF DurableTypeOK, Dirs
  <2> QED BY <1>3, <2>1, <2>3
<1>6. ASSUME NEW w \in Writers, Flush(w) \/ Fail(w) PROVE UNCHANGED Cell!vars
  BY <1>3, <1>6 DEF Flush, Fail
<1>7. ASSUME NEW w \in Writers, Rename(w) PROVE \E v \in 1..MaxWrites : Cell!Replace(v)
  <2>1. /\ writer[w].ino = dir.temp /\ writer[w].ino \in Inodes
        /\ data[writer[w].ino] = Full(writer[w].n) /\ writer[w].n \in 1..MaxWrites
    <3>1. writer[w].phase = "flushed"
      BY <1>7 DEF Rename
    <3>2. writer[w].n = writes /\ writes > 0 /\ writes \in 0..MaxWrites
      BY <1>1, <3>1 DEF Durable, Progressing, DurableTypeOK
    <3>3. writer[w].n \in 1..MaxWrites
      BY <3>2, DurableAssumption
    <3> QED BY <3>1, <3>3 DEF Durable, Progressing
  <2>2. data' = data /\ dir' = [file |-> dir.temp, temp |-> None] /\ kept' = kept \union {dir'}
    BY <1>7 DEF Rename
  <2>3. Number(dir)' = writer[w].n
    BY <2>1, <2>2, DurableAssumption DEF Number, Full
  <2>4. \A d \in kept : Number(d)' = Number(d)
    BY <2>2 DEF Number
  <2>5. {Number(d)' : d \in kept'} = {Number(d) : d \in kept} \union {writer[w].n}
    BY <2>2, <2>3, <2>4
  <2>6. Cell!Replace(writer[w].n)
    BY <1>2, <2>3, <2>5 DEF Cell!Replace
  <2> QED BY <2>1, <2>6
<1>8. ASSUME NEW w \in Writers, FlushDir(w) PROVE Cell!Flush
  <2>1. dir' = dir /\ data' = data /\ kept' = {dir}
    BY <1>8 DEF FlushDir, FlushNames
  <2>2. Number(dir)' = Number(dir)
    BY <2>1 DEF Number
  <2>3. {Number(d)' : d \in kept'} = {Number(dir)}
    BY <2>1, <2>2
  <2> QED BY <1>2, <2>2, <2>3 DEF Cell!Flush
<1>9. ASSUME PowerLoss PROVE Cell!Lose
  <2>1. PICK d \in kept :
          /\ dir' = d /\ kept' = {d}
          /\ \A i \in Inodes : data'[i] \in AfterLoss(i)
    BY <1>9 DEF PowerLoss, DirsAfterLoss
  <2>2. Number(d)' = Number(d)
    BY <1>1, <2>1 DEF Durable, Recoverable, Solid, AfterLoss, DurableTypeOK, Dirs, Number
  <2>3. Number(dir)' = Number(d) /\ {Number(e)' : e \in kept'} = {Number(d)}
    BY <2>1, <2>2 DEF Number
  <2> QED BY <1>2, <2>1, <2>3 DEF Cell!Lose
<1>10. ASSUME UNCHANGED vars PROVE UNCHANGED Cell!vars
  BY <1>3, <1>10 DEF vars
<1> QED
  BY <1>4, <1>5, <1>6, <1>7, <1>8, <1>9, <1>10 DEF Next, WriterNext, Cell!Next

(* The write, flush and rename of a file, cut at any point by a failure or a  *)
(* loss of power, implement an atomic value: a reader finds no part of a       *)
(* replacement, and a loss leaves what was flushed last or one written since.  *)
THEOREM FileImplementsCell ==
  ASSUME OneWriter, HomeIsKept
  PROVE  Spec => ImplementsCell
<1>1. Init => Cell!Init
  <2> SUFFICES ASSUME Init PROVE Cell!Init
    OBVIOUS
  <2>1. Value = Number(dir) /\ ValuesAfterLoss = {Number(d) : d \in kept}
    BY DurableInit, DurableValues
  <2>2. Number(dir) = 0 /\ kept = {dir}
    BY DEF Init, Empty, Number
  <2> QED BY <2>1, <2>2 DEF Cell!Init
<1>2. Durable /\ [Next]_vars => [Cell!Next]_(Cell!vars)
  BY StepIsCellStep
<1> QED
  BY <1>1, <1>2, DurableInit, DurableNext, PTL DEF Spec, ImplementsCell, Cell!Spec

=============================================================================
