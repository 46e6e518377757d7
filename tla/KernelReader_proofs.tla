------------------------ MODULE KernelReader_proofs ------------------------
(***************************************************************************)
(* Proofs about KernelReader for every set of processes, source length,    *)
(* buffer size, threshold and number of failed writes and stops.           *)
(***************************************************************************)
EXTENDS KernelReader, SequenceTheorems, FiniteSetTheorems, TLAPS

\* A running write loop has a chunk that was read, of at most one buffer, and has
\* as much left to write as lies between off and the end of the chunk.
LoopInv(p) ==
  pc[p] = "write" =>
    /\ chunk[p].len \in 1..BufSize
    /\ chunk[p].first + chunk[p].len <= next
    /\ off[p] + nr[p] = chunk[p].len
    /\ nr[p] > 0

\* total is an offset in the open file, its end while no name is used twice; what
\* the loop has still to write is counted before it is written.
SizeInv(p) ==
  /\ pc[p] \in {"read", "write", "split"} =>
       /\ fd[p] \in DOMAIN files[p]
       /\ total[p] <= Len(files[p][fd[p]])
       /\ ~reused => total[p] = Len(files[p][fd[p]])
  /\ LogMaxSize # 0 =>
       /\ pc[p] = "read" => total[p] < LogMaxSize
       /\ pc[p] = "write" => total[p] + nr[p] < LogMaxSize + BufSize + errs
       /\ pc[p] = "split" => total[p] < LogMaxSize + BufSize + errs

ReaderInv ==
  /\ TypeOK
  /\ \A p \in Procs : LoopInv(p) /\ SizeInv(p)
  /\ FileBound
  /\ NoByteSkipped

\* No byte of a file is written over.
FilesKept ==
  \A p \in Procs : \A i \in DOMAIN files[p] :
    i \in DOMAIN files'[p] /\ files'[p][i] = files[p][i]

\* A file is an old one or has nothing yet.
OnlyEmptyAdded ==
  \A p \in Procs : \A i \in DOMAIN files'[p] :
    \/ i \in DOMAIN files[p] /\ files'[p][i] = files[p][i]
    \/ files'[p][i] = <<>>

-----------------------------------------------------------------------------
\* The files.

LEMMA FileType ==
  ASSUME TypeOK, NEW p \in Procs
  PROVE  /\ files[p] \in Seq(Seq(Bytes)) /\ Len(files[p]) \in Nat
         /\ DOMAIN files[p] = 1..Len(files[p])
         /\ \A i \in DOMAIN files[p] :
              /\ files[p][i] \in Seq(Bytes) /\ Len(files[p][i]) \in Nat
              /\ DOMAIN files[p][i] = 1..Len(files[p][i])
              /\ \A j \in DOMAIN files[p][i] : files[p][i][j] \in Int
<1>1. files[p] \in Seq(Seq(Bytes))
  BY DEF TypeOK
<1>2. \A b \in Bytes : b \in Int
  BY ReaderAssumption DEF Bytes
<1>3. \A i \in DOMAIN files[p] : files[p][i] \in Seq(Bytes)
  BY <1>1
<1> QED
  BY <1>1, <1>2, <1>3

\* What write(2) makes of a file.
LEMMA OverwriteFacts ==
  ASSUME NEW S, NEW f \in Seq(S), NEW o \in Nat, o <= Len(f), NEW s \in Seq(S)
  PROVE  /\ Overwrite(f, o, s) \in Seq(S)
         /\ Len(Overwrite(f, o, s)) = IF o + Len(s) > Len(f) THEN o + Len(s) ELSE Len(f)
         /\ \A q \in o + 1 .. o + Len(s) : Overwrite(f, o, s)[q] = s[q - o]
         /\ \A q \in DOMAIN Overwrite(f, o, s) :
              q \notin o + 1 .. o + Len(s) => q \in DOMAIN f /\ Overwrite(f, o, s)[q] = f[q]
<1> DEFINE L == IF o + Len(s) > Len(f) THEN o + Len(s) ELSE Len(f)
           g == Overwrite(f, o, s)
<1>1. Len(f) \in Nat /\ Len(s) \in Nat /\ L \in Nat /\ L >= Len(f) /\ L >= o + Len(s)
  OBVIOUS
<1>2. g = [q \in 1..L |-> IF q \in o + 1 .. o + Len(s) THEN s[q - o] ELSE f[q]]
  BY DEF Overwrite
<1>3. L = IF o + Len(s) > Len(f) THEN o + Len(s) ELSE Len(f)
  OBVIOUS
<1> HIDE DEF g
<1>4. ASSUME NEW q \in 1..L, q \in o + 1 .. o + Len(s)
      PROVE  g[q] = s[q - o] /\ q - o \in 1..Len(s)
  <2>1. g[q] = s[q - o]
    BY <1>2, <1>4, Zenon
  <2>2. q - o \in 1..Len(s)
    BY <1>1, <1>4
  <2> QED
    BY <2>1, <2>2
<1>5. ASSUME NEW q \in 1..L, q \notin o + 1 .. o + Len(s)
      PROVE  g[q] = f[q] /\ q \in DOMAIN f
  BY <1>1, <1>2, <1>3, <1>5
<1> HIDE DEF L
<1>6. \A q \in 1..L : g[q] \in S
  <2> TAKE q \in 1..L
  <2>1. CASE q \in o + 1 .. o + Len(s)
    BY <1>4, <2>1
  <2>2. CASE q \notin o + 1 .. o + Len(s)
    BY <1>5, <2>2
  <2> QED
    BY <2>1, <2>2
<1>7. g \in Seq(S) /\ Len(g) = L /\ DOMAIN g = 1..L
  BY <1>1, <1>2, <1>6
<1>8. \A q \in o + 1 .. o + Len(s) : q \in 1..L
  BY <1>1
<1> QED
  BY <1>3, <1>4, <1>5, <1>7, <1>8 DEF g

\* open(2): the files stay as they are, and the open one is empty if it is new.
LEMMA OpenNameFacts ==
  ASSUME TypeOK, NEW p \in Procs, OpenName(p)
  PROVE  /\ files' \in [Procs -> Seq(Seq(Bytes))]
         /\ fd' \in [Procs -> Nat]
         /\ reused' \in BOOLEAN
         /\ FilesKept /\ OnlyEmptyAdded
         /\ fd'[p] \in DOMAIN files'[p]
         /\ \A r \in Procs : r # p => files'[r] = files[r] /\ fd'[r] = fd[r]
         /\ ~reused' => ~reused /\ files'[p][fd'[p]] = <<>>
<1>1. /\ files[p] \in Seq(Seq(Bytes)) /\ Len(files[p]) \in Nat
      /\ DOMAIN files[p] = 1..Len(files[p])
  BY FileType
<1>2. CASE /\ files' = [files EXCEPT ![p] = Append(@, <<>>)]
           /\ fd' = [fd EXCEPT ![p] = Len(files[p]) + 1]
           /\ UNCHANGED reused
  <2> DEFINE n == Len(files[p])
             g == Append(files[p], <<>>)
  <2>0. n \in Nat /\ DOMAIN files[p] = 1..n
    BY <1>1
  <2>1. files' = [files EXCEPT ![p] = g] /\ files'[p] = g /\ fd' = [fd EXCEPT ![p] = n + 1]
        /\ fd'[p] = n + 1
    BY <1>2 DEF TypeOK
  <2>2. <<>> \in Seq(Bytes)
    OBVIOUS
  <2>3. /\ g \in Seq(Seq(Bytes)) /\ Len(g) = n + 1
        /\ DOMAIN g = 1..n + 1
        /\ g[n + 1] = <<>>
        /\ \A i \in 1..n : g[i] = files[p][i]
    BY <1>1, <2>2, AppendProperties
  <2> HIDE DEF g, n
  <2>4. \A r \in Procs : r # p => files'[r] = files[r] /\ fd'[r] = fd[r]
    BY <1>2 DEF TypeOK
  <2>5. files' \in [Procs -> Seq(Seq(Bytes))] /\ fd' \in [Procs -> Nat] /\ reused' \in BOOLEAN
    <3>1. files \in [Procs -> Seq(Seq(Bytes))] /\ fd \in [Procs -> Nat] /\ reused \in BOOLEAN
      BY DEF TypeOK
    <3> HIDE DEF Bytes
    <3>2. files' \in [Procs -> Seq(Seq(Bytes))]
      BY <2>1, <2>3, <3>1
    <3>3. fd' \in [Procs -> Nat]
      BY <2>0, <2>1, <3>1
    <3> QED
      BY <1>2, <3>1, <3>2, <3>3
  <2>6. \A i \in DOMAIN files[p] : i \in DOMAIN g /\ g[i] = files[p][i]
    BY <2>0, <2>3
  <2>7. \A i \in DOMAIN g : i \in DOMAIN files[p] \/ i = n + 1
    BY <2>0, <2>3
  <2>8. FilesKept
    BY <2>1, <2>4, <2>6 DEF FilesKept
  <2>9. OnlyEmptyAdded
    BY <2>1, <2>3, <2>4, <2>6, <2>7 DEF OnlyEmptyAdded
  <2>10. fd'[p] \in DOMAIN files'[p] /\ files'[p][fd'[p]] = <<>>
    BY <2>0, <2>1, <2>3
  <2> QED
    BY <1>2, <2>4, <2>5, <2>8, <2>9, <2>10
<1>3. CASE /\ \E i \in DOMAIN files[p] : fd' = [fd EXCEPT ![p] = i]
           /\ reused' = TRUE
           /\ UNCHANGED files
  BY <1>1, <1>3 DEF TypeOK, FilesKept, OnlyEmptyAdded
<1> QED
  BY <1>2, <1>3 DEF OpenName

\* What is in a file stays there.
LEMMA KeptBytes ==
  ASSUME FilesKept, NEW b, InFile(b)
  PROVE  InFile(b)'
  BY DEF FilesKept, InFile

\* New files and the same number of errors do not break the bound.
LEMMA KeptBound ==
  ASSUME FileBound, OnlyEmptyAdded, UNCHANGED errs, errs \in Nat
  PROVE  FileBound'
<1>1. Len(<<>>) = 0
  OBVIOUS
<1> QED
  BY <1>1, ReaderAssumption DEF FileBound, OnlyEmptyAdded

-----------------------------------------------------------------------------

LEMMA InitInv == Init => ReaderInv
<1> SUFFICES ASSUME Init PROVE ReaderInv
  OBVIOUS
<1> USE ReaderAssumption
<1>1. \A p \in Procs : files[p] = <<>> /\ DOMAIN files[p] = {}
  BY DEF Init
<1>2. TypeOK
  <2>1. files \in [Procs -> Seq(Seq(Bytes))]
    BY EmptySeq DEF Init
  <2>2. /\ pc \in [Procs -> {"down", "open", "read", "write", "split", "dead"}]
        /\ chunk \in [Procs -> [first : Nat \ {0}, len : Nat]]
    BY DEF Init, EmptyChunk
  <2>3. /\ off \in [Procs -> Int] /\ nr \in [Procs -> Nat]
        /\ total \in [Procs -> Nat] /\ fd \in [Procs -> Nat]
    BY DEF Init
  <2>4. avail \in 0..Src /\ next \in 1..avail + 1 /\ errs \in 0..MaxErrors
        /\ kills \in 0..MaxKills
    BY DEF Init
  <2> QED
    BY <2>1, <2>2, <2>3, <2>4 DEF Init, TypeOK
<1>3. FileBound
  BY <1>1 DEF FileBound
<1> QED
  BY <1>2, <1>3 DEF Init, ReaderInv, LoopInv, SizeInv, NoByteSkipped

LEMMA ByteType ==
  ASSUME TypeOK, NEW p \in Procs, LoopInv(p), pc[p] = "write", NEW q \in Int
  PROVE  /\ Byte(chunk[p], q) \in Bytes
         /\ Byte(chunk[p], q) < next
         /\ q \in 1..chunk[p].len => Byte(chunk[p], q) = chunk[p].first + q - 1
  BY ReaderAssumption DEF TypeOK, LoopInv, Byte, Bytes

LEMMA InFlightType ==
  ASSUME TypeOK, NEW p \in Procs, LoopInv(p)
  PROVE  InFlight(p) \subseteq 1..Src
<1>1. CASE pc[p] = "write"
  <2>1. off[p] \in Int /\ chunk[p].len \in Nat
    BY DEF TypeOK
  <2> QED
    BY <1>1, <2>1, ByteType, ReaderAssumption DEF InFlight, Bytes
<1>2. CASE pc[p] # "write"
  BY <1>2 DEF InFlight
<1> QED
  BY <1>1, <1>2

\* Steps that leave the files and the loops alone.
LEMMA IdleInv ==
  ASSUME ReaderInv,
         KernelLog \/ (\E p \in Procs : Start(p) \/ OpenFails(p)) \/ UNCHANGED vars
  PROVE  ReaderInv'
<1> USE ReaderAssumption
<1>1. /\ UNCHANGED <<next, loop, disk, lost, errs, kills>>
      /\ avail \in Nat /\ avail <= avail'
      /\ avail' \in 0..Src
  BY DEF ReaderInv, TypeOK, KernelLog, Start, OpenFails, vars
<1>2. /\ pc' \in [Procs -> {"down", "open", "read", "write", "split", "dead"}]
      /\ \A r \in Procs :
           \/ pc'[r] = pc[r]
           \/ pc[r] \in {"down", "open"} /\ pc'[r] \in {"open", "dead"}
  <2>1. CASE KernelLog \/ UNCHANGED vars
    BY <2>1 DEF ReaderInv, TypeOK, KernelLog, vars
  <2>2. CASE \E p \in Procs : Start(p) \/ OpenFails(p)
    BY <2>2 DEF ReaderInv, TypeOK, Start, OpenFails
  <2> QED
    BY <2>1, <2>2
<1>3. TypeOK'
  <2>1. next' \in 1..avail' + 1
    <3>1. CASE KernelLog
      BY <3>1 DEF ReaderInv, TypeOK, KernelLog
    <3>2. CASE (\E p \in Procs : Start(p) \/ OpenFails(p)) \/ UNCHANGED vars
      BY <3>2 DEF ReaderInv, TypeOK, Start, OpenFails, vars
    <3> QED
      BY <3>1, <3>2
  <2> QED
    BY <1>1, <1>2, <2>1 DEF ReaderInv, TypeOK, loop, disk
<1>4. \A r \in Procs : LoopInv(r)' /\ SizeInv(r)'
  BY <1>1, <1>2 DEF ReaderInv, LoopInv, SizeInv, loop, disk
<1>5. FileBound'
  BY <1>1 DEF ReaderInv, FileBound, disk
<1>6. \A r \in Procs : InFlight(r)' = InFlight(r)
  BY <1>1, <1>2 DEF InFlight, loop
<1>7. NoByteSkipped'
  BY <1>1, <1>6 DEF ReaderInv, NoByteSkipped, InFile, disk
<1> QED
  BY <1>3, <1>4, <1>5, <1>7 DEF ReaderInv

LEMMA KillInv ==
  ASSUME ReaderInv, NEW p \in Procs, Kill(p)
  PROVE  ReaderInv'
<1> USE ReaderAssumption
<1>1. TypeOK /\ LoopInv(p) /\ SizeInv(p)
  BY DEF ReaderInv
<1>2. /\ pc' = [pc EXCEPT ![p] = "down"] /\ fd' = [fd EXCEPT ![p] = 0]
      /\ lost' = lost \cup InFlight(p)
      /\ UNCHANGED <<avail, next, loop, files, reused, errs>>
  BY DEF Kill
<1>3. TypeOK'
  <2>1. kills' \in 0..MaxKills
    BY <1>1 DEF Kill, TypeOK
  <2>2. lost' \subseteq 1..Src
    BY <1>1, <1>2, InFlightType DEF TypeOK
  <2> QED
    BY <1>1, <1>2, <2>1, <2>2 DEF TypeOK, loop
<1>4. \A r \in Procs : LoopInv(r)' /\ SizeInv(r)'
  BY <1>1, <1>2 DEF ReaderInv, TypeOK, LoopInv, SizeInv, loop
<1>5. FileBound'
  BY <1>2 DEF ReaderInv, FileBound
<1>6. \A r \in Procs : r # p => InFlight(r)' = InFlight(r)
  BY <1>1, <1>2 DEF InFlight, TypeOK, loop
<1>7. NoByteSkipped'
  BY <1>2, <1>6 DEF ReaderInv, NoByteSkipped, InFile
<1> QED
  BY <1>3, <1>4, <1>5, <1>7 DEF ReaderInv

\* The file of a start and the next one after a split.
LEMMA OpenInv ==
  ASSUME ReaderInv, NEW p \in Procs, OpenFiles(p) \/ Split(p)
  PROVE  ReaderInv'
<1> USE ReaderAssumption
<1>1. TypeOK /\ LoopInv(p) /\ SizeInv(p)
  BY DEF ReaderInv
<1>2. /\ pc[p] \in {"open", "split"} /\ pc' = [pc EXCEPT ![p] = "read"]
      /\ OpenName(p)
      /\ total' = [total EXCEPT ![p] = 0]
      /\ UNCHANGED <<avail, next, chunk, off, nr, lost, errs, kills>>
  BY DEF OpenFiles, Split
<1>3. /\ files' \in [Procs -> Seq(Seq(Bytes))]
      /\ fd' \in [Procs -> Nat]
      /\ reused' \in BOOLEAN
      /\ FilesKept /\ OnlyEmptyAdded
      /\ fd'[p] \in DOMAIN files'[p]
      /\ \A r \in Procs : r # p => files'[r] = files[r] /\ fd'[r] = fd[r]
      /\ ~reused' => ~reused /\ files'[p][fd'[p]] = <<>>
  BY <1>1, <1>2, OpenNameFacts
<1>4. TypeOK'
  BY <1>1, <1>2, <1>3 DEF TypeOK
<1>5. \A r \in Procs : LoopInv(r)' /\ SizeInv(r)'
  <2> SUFFICES ASSUME NEW r \in Procs PROVE LoopInv(r)' /\ SizeInv(r)'
    OBVIOUS
  <2>1. CASE r = p
    <3>1. pc'[p] = "read" /\ total'[p] = 0
      BY <1>1, <1>2 DEF TypeOK
    <3>2. Len(files'[p][fd'[p]]) \in Nat
      BY <1>3
    <3>3. ~reused' => Len(files'[p][fd'[p]]) = 0
      BY <1>3
    <3> QED
      BY <1>3, <2>1, <3>1, <3>2, <3>3 DEF LoopInv, SizeInv
  <2>2. CASE r # p
    <3>1. /\ pc'[r] = pc[r] /\ total'[r] = total[r] /\ files'[r] = files[r] /\ fd'[r] = fd[r]
          /\ LoopInv(r) /\ SizeInv(r) /\ (~reused' => ~reused)
      BY <1>1, <1>2, <1>3, <2>2 DEF ReaderInv, TypeOK
    <3> QED
      BY <1>2, <3>1 DEF LoopInv, SizeInv
  <2> QED
    BY <2>1, <2>2
<1>6. FileBound'
  BY <1>1, <1>2, <1>3, KeptBound DEF ReaderInv, TypeOK
<1>7. \A r \in Procs : InFlight(r)' = InFlight(r)
  BY <1>1, <1>2 DEF InFlight, TypeOK
<1>8. NoByteSkipped'
  BY <1>2, <1>3, <1>7, KeptBytes DEF ReaderInv, NoByteSkipped
<1> QED
  BY <1>4, <1>5, <1>6, <1>8 DEF ReaderInv

LEMMA SplitFailsInv ==
  ASSUME ReaderInv, NEW p \in Procs, SplitFails(p)
  PROVE  ReaderInv'
<1> USE ReaderAssumption
<1>1. TypeOK /\ LoopInv(p) /\ SizeInv(p)
  BY DEF ReaderInv
<1>2. /\ pc[p] = "split" /\ pc' = [pc EXCEPT ![p] = "dead"]
      /\ fd' = [fd EXCEPT ![p] = 0]
      /\ total' = [total EXCEPT ![p] = 0]
      /\ UNCHANGED <<avail, next, chunk, off, nr, files, reused, lost, errs, kills>>
  BY DEF SplitFails
<1>3. TypeOK'
  BY <1>1, <1>2 DEF TypeOK
<1>4. \A r \in Procs : LoopInv(r)' /\ SizeInv(r)'
  <2> SUFFICES ASSUME NEW r \in Procs PROVE LoopInv(r)' /\ SizeInv(r)'
    OBVIOUS
  <2>1. CASE r = p
    BY <1>1, <1>2, <2>1 DEF TypeOK, LoopInv, SizeInv
  <2>2. CASE r # p
    <3>1. /\ pc'[r] = pc[r] /\ total'[r] = total[r] /\ fd'[r] = fd[r]
          /\ LoopInv(r) /\ SizeInv(r)
      BY <1>1, <1>2, <2>2 DEF ReaderInv, TypeOK
    <3> QED
      BY <1>2, <3>1 DEF LoopInv, SizeInv
  <2> QED
    BY <2>1, <2>2
<1>5. FileBound'
  BY <1>2 DEF ReaderInv, FileBound
<1>6. \A r \in Procs : InFlight(r)' = InFlight(r)
  BY <1>1, <1>2 DEF InFlight, TypeOK
<1>7. NoByteSkipped'
  BY <1>2, <1>6 DEF ReaderInv, NoByteSkipped, InFile
<1> QED
  BY <1>3, <1>4, <1>5, <1>7 DEF ReaderInv

LEMMA ReadInv ==
  ASSUME ReaderInv, NEW p \in Procs, Read(p)
  PROVE  ReaderInv'
<1> USE ReaderAssumption
<1>1. TypeOK /\ LoopInv(p) /\ SizeInv(p)
  BY DEF ReaderInv
<1>2. PICK n \in 1..BufSize :
        /\ pc[p] = "read" /\ pc' = [pc EXCEPT ![p] = "write"]
        /\ next + n - 1 <= avail
        /\ chunk' = [chunk EXCEPT ![p] = [first |-> next, len |-> n]]
        /\ next' = next + n
        /\ nr' = [nr EXCEPT ![p] = n]
        /\ off' = [off EXCEPT ![p] = 0]
        /\ UNCHANGED <<avail, total, disk, lost, errs, kills>>
  BY DEF Read, ReadSize
<1>3. TypeOK'
  BY <1>1, <1>2 DEF TypeOK, disk
<1>4. \A r \in Procs : LoopInv(r)' /\ SizeInv(r)'
  <2> SUFFICES ASSUME NEW r \in Procs PROVE LoopInv(r)' /\ SizeInv(r)'
    OBVIOUS
  <2>1. CASE r = p
    BY <1>1, <1>2, <2>1 DEF TypeOK, LoopInv, SizeInv, disk
  <2>2. CASE r # p
    <3>1. /\ pc'[r] = pc[r] /\ chunk'[r] = chunk[r] /\ off'[r] = off[r] /\ nr'[r] = nr[r]
          /\ LoopInv(r) /\ SizeInv(r)
          /\ UNCHANGED <<total, files, fd, reused, errs>>
      BY <1>1, <1>2, <2>2 DEF ReaderInv, TypeOK, disk
    <3>2. /\ next \in Nat /\ next' \in Nat /\ next <= next'
          /\ chunk[r].first + chunk[r].len \in Nat
      BY <1>1, <1>2 DEF TypeOK
    <3>3. SizeInv(r)'
      BY <3>1 DEF SizeInv
    <3>4. LoopInv(r)'
      BY <3>1, <3>2 DEF LoopInv
    <3> QED
      BY <3>3, <3>4
  <2> QED
    BY <2>1, <2>2
<1>5. FileBound'
  BY <1>2 DEF ReaderInv, FileBound, disk
<1>6. \A r \in Procs : r # p => InFlight(r)' = InFlight(r)
  BY <1>1, <1>2 DEF InFlight, TypeOK
<1>7. InFlight(p) = {}
  BY <1>2 DEF InFlight
<1>8. NoByteSkipped'
  <2> SUFFICES ASSUME ~reused', NEW b \in 1..next' - 1
               PROVE  InFile(b)' \/ b \in lost' \/ \E r \in Procs : b \in InFlight(r)'
    BY DEF NoByteSkipped
  <2>1. CASE b \in 1..next - 1
    BY <1>2, <1>6, <1>7, <2>1 DEF ReaderInv, NoByteSkipped, InFile, disk
  <2>2. CASE b \notin 1..next - 1
    <3> DEFINE q == b - next + 1
    <3>1. q \in 1..n
      BY <1>1, <1>2, <2>2 DEF TypeOK
    <3>2. chunk'[p] = [first |-> next, len |-> n] /\ off'[p] = 0 /\ pc'[p] = "write"
      BY <1>1, <1>2 DEF TypeOK
    <3>3. Byte(chunk'[p], q) = b /\ b # 0 /\ q \in off'[p] + 1 .. chunk'[p].len
      BY <1>1, <3>1, <3>2 DEF Byte, TypeOK
    <3> QED
      BY <3>2, <3>3 DEF InFlight
  <2> QED
    BY <2>1, <2>2
<1> QED
  BY <1>3, <1>4, <1>5, <1>8 DEF ReaderInv

LEMMA PutFacts ==
  ASSUME TypeOK, NEW p \in Procs, fd[p] \in DOMAIN files[p], NEW g \in Seq(Bytes),
         files' = [files EXCEPT ![p][fd[p]] = g]
  PROVE  /\ files' \in [Procs -> Seq(Seq(Bytes))]
         /\ \A r \in Procs : DOMAIN files'[r] = DOMAIN files[r]
         /\ files'[p][fd[p]] = g
         /\ \A r \in Procs : \A i \in DOMAIN files[r] :
              r # p \/ i # fd[p] => files'[r][i] = files[r][i]
<1> DEFINE F == files[p]
           n == Len(F)
           G == [F EXCEPT ![fd[p]] = g]
<1>1. F \in Seq(Seq(Bytes)) /\ n \in Nat /\ DOMAIN F = 1..n /\ fd[p] \in 1..n
  BY FileType
<1>2. files' = [files EXCEPT ![p] = G] /\ files \in [Procs -> Seq(Seq(Bytes))]
  BY DEF TypeOK
<1>3. /\ G \in Seq(Seq(Bytes)) /\ DOMAIN G = DOMAIN F /\ G[fd[p]] = g
      /\ \A i \in DOMAIN F : i # fd[p] => G[i] = F[i]
  BY <1>1
<1>4. F = files[p]
  OBVIOUS
<1> HIDE DEF F, G, n
<1>5. files'[p] = G /\ \A r \in Procs : r # p => files'[r] = files[r]
  BY <1>2
<1> QED
  BY <1>2, <1>3, <1>4, <1>5

\* What a step of the write loop does: k bytes of the buffer go to the place total
\* of the open file, the rest of it and all other files stay.
Wrote(p, k) ==
  /\ pc[p] = "write"
  /\ total' = [total EXCEPT ![p] = @ + k]
  /\ nr' = [nr EXCEPT ![p] = @ - k]
  /\ off' = [off EXCEPT ![p] = @ + k]
  /\ pc' = [pc EXCEPT ![p] = IF k = nr[p] THEN AfterLoop(total[p] + k) ELSE "write"]
  /\ UNCHANGED <<avail, next, chunk, fd, reused, lost, errs, kills>>
  /\ files' \in [Procs -> Seq(Seq(Bytes))]
  /\ \A r \in Procs : DOMAIN files'[r] = DOMAIN files[r]
  /\ \A r \in Procs : \A i \in DOMAIN files[r] :
       r # p \/ i # fd[p] => files'[r][i] = files[r][i]
  /\ Len(files'[p][fd[p]]) = IF total[p] + k > Len(files[p][fd[p]])
                             THEN total[p] + k ELSE Len(files[p][fd[p]])
  /\ \A q \in total[p] + 1 .. total[p] + k :
       files'[p][fd[p]][q] = Byte(chunk[p], off[p] + (q - total[p]))
  /\ \A q \in DOMAIN files'[p][fd[p]] :
       q \notin total[p] + 1 .. total[p] + k =>
         q \in DOMAIN files[p][fd[p]] /\ files'[p][fd[p]][q] = files[p][fd[p]][q]

LEMMA WriteFacts ==
  ASSUME ReaderInv, NEW p \in Procs, Write(p)
  PROVE  \E k \in 1..nr[p] : Wrote(p, k)
<1> USE ReaderAssumption
<1>1. TypeOK /\ LoopInv(p) /\ SizeInv(p)
  BY DEF ReaderInv
<1>2. PICK k \in 1..nr[p] :
        /\ pc[p] = "write"
        /\ Put(p, Piece(p, k))
        /\ total' = [total EXCEPT ![p] = @ + k]
        /\ nr' = [nr EXCEPT ![p] = @ - k]
        /\ off' = [off EXCEPT ![p] = @ + k]
        /\ pc' = [pc EXCEPT ![p] = IF k = nr[p] THEN AfterLoop(total[p] + k) ELSE "write"]
        /\ UNCHANGED <<avail, next, chunk, fd, reused, lost, errs, kills>>
  BY DEF Write
<1> DEFINE s == Piece(p, k)
           f == files[p][fd[p]]
           o == total[p]
           g == Overwrite(f, o, s)
<1>3. s \in Seq(Bytes) /\ Len(s) = k /\ \A j \in 1..k : s[j] = Byte(chunk[p], off[p] + j)
  <2>1. k \in Nat /\ off[p] \in Int
    BY <1>1 DEF TypeOK
  <2>2. \A j \in 1..k : Byte(chunk[p], off[p] + j) \in Bytes
    BY <1>1, <1>2, <2>1, ByteType
  <2> QED
    BY <2>1, <2>2 DEF Piece
<1>4. fd[p] \in DOMAIN files[p] /\ f \in Seq(Bytes) /\ o \in Nat /\ o <= Len(f) /\ k \in Nat
  BY <1>1, <1>2, FileType DEF SizeInv, TypeOK
<1>5. files' = [files EXCEPT ![p][fd[p]] = g]
  BY <1>1, <1>2, <1>4 DEF Put, TypeOK
<1> HIDE DEF s
<1>6. /\ g \in Seq(Bytes)
      /\ Len(g) = IF o + Len(s) > Len(f) THEN o + Len(s) ELSE Len(f)
      /\ \A q \in o + 1 .. o + Len(s) : g[q] = s[q - o]
      /\ \A q \in DOMAIN g : q \notin o + 1 .. o + Len(s) => q \in DOMAIN f /\ g[q] = f[q]
  <2>1. f \in Seq(Bytes) /\ o \in Nat /\ o <= Len(f) /\ s \in Seq(Bytes)
    BY <1>3, <1>4
  <2> HIDE DEF f, o, g, Bytes
  <2>2. /\ Overwrite(f, o, s) \in Seq(Bytes)
        /\ Len(Overwrite(f, o, s)) = IF o + Len(s) > Len(f) THEN o + Len(s) ELSE Len(f)
        /\ \A q \in o + 1 .. o + Len(s) : Overwrite(f, o, s)[q] = s[q - o]
        /\ \A q \in DOMAIN Overwrite(f, o, s) :
             q \notin o + 1 .. o + Len(s) => q \in DOMAIN f /\ Overwrite(f, o, s)[q] = f[q]
    BY <2>1, OverwriteFacts
  <2> QED
    BY <2>2 DEF g
<1> HIDE DEF g
<1>7. /\ files' \in [Procs -> Seq(Seq(Bytes))]
      /\ \A r \in Procs : DOMAIN files'[r] = DOMAIN files[r]
      /\ files'[p][fd[p]] = g
      /\ \A r \in Procs : \A i \in DOMAIN files[r] :
           r # p \/ i # fd[p] => files'[r][i] = files[r][i]
  BY <1>1, <1>4, <1>5, <1>6, PutFacts
<1>8. \A q \in o + 1 .. o + k : q - o \in 1..k /\ g[q] = Byte(chunk[p], off[p] + (q - o))
  BY <1>3, <1>4, <1>6
<1> QED
  BY <1>2, <1>3, <1>6, <1>7, <1>8 DEF Wrote

LEMMA WriteInv ==
  ASSUME ReaderInv, NEW p \in Procs, Write(p)
  PROVE  ReaderInv'
<1> USE ReaderAssumption
<1>1. TypeOK /\ LoopInv(p) /\ SizeInv(p)
  BY DEF ReaderInv
<1>2. PICK k \in 1..nr[p] : Wrote(p, k)
  BY WriteFacts
<1> DEFINE f == files[p][fd[p]]
           g == files'[p][fd[p]]
<1>3. /\ pc[p] = "write" /\ fd[p] \in DOMAIN files[p] /\ fd'[p] = fd[p]
      /\ total[p] <= Len(f) /\ (~reused => total[p] = Len(f))
      /\ Len(f) \in Nat /\ total[p] \in Nat /\ nr[p] \in Nat /\ off[p] \in Int /\ errs \in Nat
      /\ k \in Nat /\ k >= 1 /\ k <= nr[p]
  BY <1>1, <1>2, FileType DEF Wrote, SizeInv, TypeOK
<1>4. /\ nr'[p] = nr[p] - k /\ off'[p] = off[p] + k /\ total'[p] = total[p] + k
      /\ pc'[p] = IF k = nr[p] THEN AfterLoop(total[p] + k) ELSE "write"
      /\ AfterLoop(total[p] + k) \in {"read", "split"}
  BY <1>1, <1>2 DEF TypeOK, AfterLoop, Wrote
<1>5. TypeOK'
  <2>1. nr' \in [Procs -> Nat] /\ off' \in [Procs -> Int] /\ total' \in [Procs -> Nat]
    <3>1. nr[p] - k \in Nat /\ off[p] + k \in Int /\ total[p] + k \in Nat
      BY <1>3
    <3>2. /\ nr' = [nr EXCEPT ![p] = nr[p] - k]
          /\ off' = [off EXCEPT ![p] = off[p] + k]
          /\ total' = [total EXCEPT ![p] = total[p] + k]
      BY <1>2 DEF Wrote
    <3> QED
      BY <1>1, <3>1, <3>2 DEF TypeOK
  <2>2. pc' \in [Procs -> {"down", "open", "read", "write", "split", "dead"}]
    BY <1>1, <1>2, <1>4 DEF TypeOK, Wrote
  <2> QED
    BY <1>1, <1>2, <2>1, <2>2 DEF TypeOK, Wrote
<1>6. /\ DOMAIN files'[p] = DOMAIN files[p]
      /\ Len(g) = IF total[p] + k > Len(f) THEN total[p] + k ELSE Len(f)
      /\ UNCHANGED <<chunk, next, reused, errs>>
  BY <1>2 DEF Wrote
<1>7. ASSUME NEW r \in Procs, r # p
      PROVE  /\ pc'[r] = pc[r] /\ total'[r] = total[r] /\ off'[r] = off[r] /\ nr'[r] = nr[r]
             /\ fd'[r] = fd[r] /\ chunk'[r] = chunk[r]
             /\ DOMAIN files'[r] = DOMAIN files[r]
             /\ \A i \in DOMAIN files[r] : files'[r][i] = files[r][i]
             /\ InFlight(r)' = InFlight(r)
  <2>1. /\ pc'[r] = pc[r] /\ total'[r] = total[r] /\ off'[r] = off[r] /\ nr'[r] = nr[r]
        /\ fd'[r] = fd[r] /\ chunk'[r] = chunk[r]
    BY <1>1, <1>2, <1>7 DEF Wrote, TypeOK
  <2> QED
    BY <1>2, <1>7, <2>1 DEF Wrote, InFlight
<1>8. \A r \in Procs : LoopInv(r)' /\ SizeInv(r)'
  <2> SUFFICES ASSUME NEW r \in Procs PROVE LoopInv(r)' /\ SizeInv(r)'
    OBVIOUS
  <2>1. CASE r = p
    <3>1. LoopInv(p)'
      <4> SUFFICES ASSUME pc'[p] = "write" PROVE LoopInv(p)'
        BY DEF LoopInv
      <4>1. k # nr[p]
        BY <1>4
      <4>2. nr'[p] > 0 /\ off'[p] + nr'[p] = off[p] + nr[p]
        BY <1>3, <1>4, <4>1
      <4> QED
        BY <1>1, <1>3, <1>6, <4>2 DEF LoopInv
    <3>2. SizeInv(p)'
      <4>1. /\ pc'[p] \in {"read", "write", "split"} /\ fd'[p] \in DOMAIN files'[p]
            /\ total'[p] <= Len(g) /\ (~reused' => total'[p] = Len(g))
        BY <1>3, <1>4, <1>6
      <4>2. pc'[p] = "write" => total'[p] + nr'[p] = total[p] + nr[p]
        BY <1>3, <1>4
      <4>3. pc'[p] = "split" => total'[p] = total[p] + nr[p]
        BY <1>3, <1>4
      <4>4. LogMaxSize # 0 /\ pc'[p] = "read" => total'[p] < LogMaxSize
        BY <1>3, <1>4 DEF AfterLoop
      <4> HIDE DEF g
      <4> QED
        BY <1>1, <1>3, <1>6, <4>1, <4>2, <4>3, <4>4 DEF SizeInv, g
    <3> QED
      BY <2>1, <3>1, <3>2
  <2>2. CASE r # p
    <3>1. LoopInv(r) /\ SizeInv(r)
      BY DEF ReaderInv
    <3> QED
      BY <1>6, <1>7, <2>2, <3>1 DEF LoopInv, SizeInv
  <2> QED
    BY <2>1, <2>2
<1>9. FileBound'
  <2> SUFFICES ASSUME LogMaxSize # 0, NEW r \in Procs, NEW i \in DOMAIN files'[r]
               PROVE  Len(files'[r][i]) < LogMaxSize + BufSize + errs'
    BY DEF FileBound
  <2>1. i \in DOMAIN files[r] /\ Len(files[r][i]) < LogMaxSize + BufSize + errs
    BY <1>2 DEF Wrote, ReaderInv, FileBound
  <2>2. CASE r = p /\ i = fd[p]
    <3>1. total[p] + k < LogMaxSize + BufSize + errs
      BY <1>1, <1>3 DEF SizeInv
    <3> HIDE DEF g
    <3> QED
      BY <1>6, <2>1, <2>2, <3>1 DEF g
  <2>3. CASE ~(r = p /\ i = fd[p])
    BY <1>2, <1>6, <2>1, <2>3 DEF Wrote
  <2> QED
    BY <2>2, <2>3
<1>10. NoByteSkipped'
  <2> SUFFICES ASSUME ~reused, NEW b \in 1..next - 1
               PROVE  InFile(b)' \/ b \in lost \/ \E r \in Procs : b \in InFlight(r)'
    BY <1>2 DEF NoByteSkipped, Wrote
  <2>0. total[p] = Len(f) /\ DOMAIN f = 1..Len(f) /\ DOMAIN g = 1..Len(f) + k
    <3>1. files'[p] \in Seq(Seq(Bytes)) /\ fd[p] \in DOMAIN files'[p]
      BY <1>2, <1>3 DEF Wrote
    <3>2. g \in Seq(Bytes)
      BY <3>1
    <3>3. f \in Seq(Bytes) /\ DOMAIN f = 1..Len(f)
      BY <1>1, <1>3, FileType
    <3>4. total[p] = Len(f)
      BY <1>3
    <3> HIDE DEF f, g
    <3>5. Len(g) = Len(f) + k
      BY <1>3, <1>6, <3>4
    <3> QED
      BY <3>2, <3>3, <3>4, <3>5
  <2>1. CASE InFile(b)
    <3>1. PICK r \in Procs : \E i \in DOMAIN files[r] :
            \E j \in DOMAIN files[r][i] : files[r][i][j] = b
      BY <2>1 DEF InFile
    <3>2. PICK i \in DOMAIN files[r] : \E j \in DOMAIN files[r][i] : files[r][i][j] = b
      BY <3>1
    <3>3. PICK j \in DOMAIN files[r][i] : files[r][i][j] = b
      BY <3>2
    <3>4. CASE ~(r = p /\ i = fd[p])
      <4>1. i \in DOMAIN files'[r] /\ files'[r][i] = files[r][i]
        BY <1>2, <3>4 DEF Wrote
      <4> QED
        BY <3>3, <4>1 DEF InFile
    <3>5. CASE r = p /\ i = fd[p]
      <4>1. j \in 1..Len(f) /\ j \in DOMAIN g /\ j \notin total[p] + 1 .. total[p] + k
        BY <1>3, <2>0, <3>3, <3>5
      <4>2. g[j] = b
        BY <1>2, <3>3, <3>5, <4>1 DEF Wrote
      <4> QED
        BY <1>3, <1>6, <4>1, <4>2 DEF InFile
    <3> QED
      BY <3>4, <3>5
  <2>2. CASE \E r \in Procs : r # p /\ b \in InFlight(r)
    BY <1>7, <2>2
  <2>3. CASE b \in InFlight(p)
    <3>1. PICK q \in off[p] + 1 .. chunk[p].len : Byte(chunk[p], q) = b
      BY <1>3, <2>3 DEF InFlight
    <3>2. q \in Int /\ chunk[p].len \in Nat
      BY <1>1, <1>3, <3>1 DEF TypeOK
    <3>3. CASE q <= off[p] + k
      <4> DEFINE j == total[p] + (q - off[p])
      <4>0. q - off[p] \in 1..k
        BY <1>3, <3>1, <3>2, <3>3
      <4>1. j \in total[p] + 1 .. total[p] + k /\ off[p] + (j - total[p]) = q /\ j \in DOMAIN g
        <5> HIDE DEF f, g
        <5>0. total[p] \in Nat /\ off[p] \in Int /\ k \in Nat
          BY <1>3
        <5>1. j \in total[p] + 1 .. total[p] + k /\ off[p] + (j - total[p]) = q
          BY <3>2, <4>0, <5>0
        <5>2. total[p] + 1 .. total[p] + k \subseteq 1..Len(f) + k
          BY <1>3, <2>0
        <5> QED
          BY <2>0, <5>1, <5>2
      <4> HIDE DEF j
      <4>2. g[j] = b
        BY <1>2, <3>1, <4>1 DEF Wrote
      <4> QED
        BY <1>3, <1>6, <4>1, <4>2 DEF InFile
    <3>4. CASE q > off[p] + k
      <4>1. k # nr[p]
        BY <1>1, <1>3, <3>1, <3>2, <3>4 DEF LoopInv
      <4>2. pc'[p] = "write" /\ chunk'[p] = chunk[p] /\ q \in off'[p] + 1 .. chunk'[p].len
        BY <1>3, <1>4, <1>6, <3>1, <3>2, <3>4, <4>1
      <4> QED
        BY <3>1, <4>2, ReaderAssumption DEF InFlight
    <3> QED
      BY <1>3, <3>2, <3>3, <3>4
  <2> QED
    BY <2>1, <2>2, <2>3 DEF ReaderInv, NoByteSkipped
<1> QED
  BY <1>5, <1>8, <1>9, <1>10 DEF ReaderInv

LEMMA WriteFailsInv ==
  ASSUME ReaderInv, NEW p \in Procs, WriteFails(p)
  PROVE  ReaderInv'
<1> USE ReaderAssumption
<1>1. TypeOK /\ LoopInv(p) /\ SizeInv(p)
  BY DEF ReaderInv
<1>2. /\ pc[p] = "write" /\ errs < MaxErrors /\ errs' = errs + 1
      /\ nr' = [nr EXCEPT ![p] = @ + 1]
      /\ off' = [off EXCEPT ![p] = @ - 1]
      /\ UNCHANGED <<avail, next, pc, chunk, total, disk, lost, kills>>
  BY DEF WriteFails
<1>3. TypeOK'
  BY <1>1, <1>2 DEF TypeOK, disk
<1>4. \A r \in Procs : LoopInv(r)' /\ SizeInv(r)'
  <2> SUFFICES ASSUME NEW r \in Procs PROVE LoopInv(r)' /\ SizeInv(r)'
    OBVIOUS
  <2>0. nr[r] \in Nat /\ off[r] \in Int /\ total[r] \in Nat /\ errs \in Nat
    BY <1>1 DEF TypeOK
  <2>1. LoopInv(r) /\ SizeInv(r) /\ UNCHANGED <<files, fd, reused>>
    BY <1>2 DEF ReaderInv, disk
  <2>2. CASE r = p
    <3>1. nr'[p] = nr[p] + 1 /\ off'[p] = off[p] - 1
      BY <1>1, <1>2 DEF TypeOK
    <3> QED
      BY <1>2, <2>0, <2>1, <2>2, <3>1 DEF LoopInv, SizeInv
  <2>3. CASE r # p
    <3>1. nr'[r] = nr[r] /\ off'[r] = off[r]
      BY <1>1, <1>2, <2>3 DEF TypeOK
    <3> QED
      BY <1>2, <2>0, <2>1, <3>1 DEF LoopInv, SizeInv
  <2> QED
    BY <2>2, <2>3
<1>5. FileBound'
  <2> SUFFICES ASSUME LogMaxSize # 0, NEW r \in Procs, NEW i \in DOMAIN files[r]
               PROVE  Len(files[r][i]) < LogMaxSize + BufSize + errs'
    BY <1>2 DEF FileBound, disk
  <2>1. Len(files[r][i]) < LogMaxSize + BufSize + errs /\ Len(files[r][i]) \in Nat /\ errs \in Nat
    BY <1>1, FileType DEF ReaderInv, FileBound, TypeOK
  <2> QED
    BY <1>2, <2>1
<1>6. \A r \in Procs : InFlight(r) \subseteq InFlight(r)'
  <2> SUFFICES ASSUME NEW r \in Procs PROVE InFlight(r) \subseteq InFlight(r)'
    OBVIOUS
  <2>1. off'[r] \in Int /\ off[r] \in Int /\ off'[r] <= off[r] /\ chunk[r].len \in Nat
    BY <1>1, <1>2 DEF TypeOK
  <2>2. off[r] + 1 .. chunk[r].len \subseteq off'[r] + 1 .. chunk[r].len
    BY <2>1
  <2> QED
    BY <1>2, <2>2 DEF InFlight
<1>7. NoByteSkipped'
  BY <1>2, <1>6 DEF ReaderInv, NoByteSkipped, InFile, disk
<1> QED
  BY <1>3, <1>4, <1>5, <1>7 DEF ReaderInv

\* The strengthened invariant holds in every reachable state.
THEOREM ReaderCorrect == Spec => []ReaderInv
<1>1. ReaderInv /\ [Next]_vars => ReaderInv'
  BY IdleInv, KillInv, OpenInv, ReadInv, WriteInv, WriteFailsInv, SplitFailsInv
     DEF Next, Thread
<1> QED
  BY InitInv, <1>1, PTL DEF Spec

\* Type correctness of the readers, for every bound.
THEOREM ReaderTypes == Spec => []TypeOK
<1>1. ReaderInv => TypeOK
  BY DEF ReaderInv
<1> QED
  BY ReaderCorrect, <1>1, PTL

\* Whatever writes fail, the loop never runs past the end of the bytes it read.
THEOREM LoopBounded == Spec => []LoopStaysInChunk
<1>1. ReaderInv => LoopStaysInChunk
  BY DEF ReaderInv, LoopInv, LoopStaysInChunk
<1> QED
  BY ReaderCorrect, <1>1, PTL

\* No byte of the source is skipped by any number of processes that share it, as
\* long as every start and every split finds a second of its own for its file.
THEOREM SourceCovered == Spec => []NoByteSkipped
<1>1. ReaderInv => NoByteSkipped
  BY DEF ReaderInv
<1> QED
  BY ReaderCorrect, <1>1, PTL

\* Every file stays under the threshold plus one buffer plus the failed writes,
\* one that is used a second time too.
THEOREM FilesBounded == Spec => []FileBound
<1>1. ReaderInv => FileBound
  BY DEF ReaderInv
<1> QED
  BY ReaderCorrect, <1>1, PTL

-----------------------------------------------------------------------------
\* What a stop costs.

LEMMA InFlightBounded ==
  ASSUME TypeOK, NEW p \in Procs, LoopInv(p)
  PROVE  IsFiniteSet(InFlight(p)) /\ Cardinality(InFlight(p)) <= BufSize
<1>1. CASE pc[p] = "write"
  <2> DEFINE a == chunk[p].first
             b == chunk[p].first + chunk[p].len - 1
  <2>1. a \in Nat \ {0} /\ b \in Nat /\ b - a + 1 \in 1..BufSize
    BY <1>1, ReaderAssumption DEF TypeOK, LoopInv
  <2>2. InFlight(p) \in SUBSET (a .. b)
    BY <1>1 DEF InFlight, Byte, TypeOK
  <2> HIDE DEF a, b
  <2>3. IsFiniteSet(a .. b) /\ Cardinality(a .. b) = b - a + 1
    BY <2>1, FS_Interval
  <2>4. IsFiniteSet(InFlight(p)) /\ Cardinality(InFlight(p)) <= Cardinality(a .. b)
    BY <2>2, <2>3, FS_Subset
  <2>5. Cardinality(InFlight(p)) \in Nat
    BY <2>4, FS_CardinalityType
  <2> QED
    BY <2>1, <2>3, <2>4, <2>5, ReaderAssumption
<1>2. CASE pc[p] # "write"
  BY <1>2, FS_EmptySet, ReaderAssumption DEF InFlight
<1> QED
  BY <1>1, <1>2

LossInv == IsFiniteSet(lost) /\ LossBounded

LEMMA KillLoss ==
  ASSUME ReaderInv, LossInv, NEW p \in Procs, Kill(p)
  PROVE  LossInv'
<1>1. IsFiniteSet(InFlight(p)) /\ Cardinality(InFlight(p)) <= BufSize
  BY InFlightBounded DEF ReaderInv
<1> DEFINE both == lost \cap InFlight(p)
<1>2. /\ IsFiniteSet(lost \cup InFlight(p))
      /\ Cardinality(lost \cup InFlight(p))
           = Cardinality(lost) + Cardinality(InFlight(p)) - Cardinality(both)
  BY <1>1, FS_Union DEF LossInv
<1>3. Cardinality(both) \in Nat
  <2>1. both \in SUBSET lost
    OBVIOUS
  <2> QED
    BY <2>1, FS_Subset, FS_CardinalityType DEF LossInv
<1>4. Cardinality(lost) \in Nat /\ Cardinality(InFlight(p)) \in Nat
  BY <1>1, FS_CardinalityType DEF LossInv
<1> HIDE DEF both
<1>5. lost' = lost \cup InFlight(p) /\ kills' = kills + 1 /\ kills \in Nat
  BY DEF Kill, ReaderInv, TypeOK
<1>6. (kills + 1) * BufSize = kills * BufSize + BufSize
  BY <1>5, ReaderAssumption
<1>7. kills * BufSize \in Nat
  BY <1>5, ReaderAssumption
<1>8. Cardinality(lost) + Cardinality(InFlight(p)) - Cardinality(both) <= kills * BufSize + BufSize
  BY <1>1, <1>3, <1>4, <1>7, ReaderAssumption DEF LossInv, LossBounded
<1> QED
  BY <1>2, <1>5, <1>6, <1>8 DEF LossInv, LossBounded

\* Whatever the reader does between the stops, a stop costs at most one buffer.
THEOREM LossesBounded == Spec => []LossBounded
<1>1. Init => LossInv
  BY FS_EmptySet, ReaderAssumption DEF Init, LossInv, LossBounded
<1>2. ReaderInv /\ LossInv /\ [Next]_vars => LossInv'
  <2> SUFFICES ASSUME ReaderInv, LossInv, [Next]_vars PROVE LossInv'
    OBVIOUS
  <2>1. CASE \E p \in Procs : Kill(p)
    BY <2>1, KillLoss
  <2>2. CASE UNCHANGED <<lost, kills>>
    BY <2>2 DEF LossInv, LossBounded
  <2> QED
    BY <2>1, <2>2
       DEF Next, Thread, KernelLog, Start, OpenFiles, OpenFails, Read, Write, WriteFails,
           Split, SplitFails, vars
<1>3. LossInv => LossBounded
  BY DEF LossInv
<1> QED
  BY ReaderCorrect, <1>1, <1>2, <1>3, PTL DEF Spec

-----------------------------------------------------------------------------
\* No byte twice.

\* Without failed writes off is not moved back; what is in a file is not in any
\* loop as well, two loops have different bytes, and those of a loop come after
\* all that its file holds.
OnceInv ==
  errs = 0 /\ ~reused =>
    /\ NoByteTwice
    /\ \A p \in Procs : pc[p] = "write" => off[p] >= 0
    /\ \A p \in Procs : \A i \in DOMAIN files[p] : \A j \in DOMAIN files[p][i] :
         files[p][i][j] < next /\ \A r \in Procs : files[p][i][j] \notin InFlight(r)
    /\ \A p, r \in Procs : p # r => InFlight(p) \cap InFlight(r) = {}
    /\ \A p \in Procs : pc[p] = "write" =>
         \A j \in DOMAIN files[p][fd[p]] : \A b \in InFlight(p) : files[p][fd[p]][j] < b

LEMMA InFlightRange ==
  ASSUME TypeOK, NEW p \in Procs, pc[p] = "write", off[p] >= 0, NEW b
  PROVE  b \in InFlight(p) <=>
           b \in chunk[p].first + off[p] .. chunk[p].first + chunk[p].len - 1
<1> DEFINE a == chunk[p].first
           o == off[p]
           l == chunk[p].len
<1>1. a \in Nat \ {0} /\ o \in Nat /\ l \in Nat
  BY DEF TypeOK
<1>2. \A q \in o + 1 .. l : Byte(chunk[p], q) = a + q - 1
  BY <1>1 DEF Byte
<1> HIDE DEF a, o, l
<1>3. ASSUME b \in InFlight(p) PROVE b \in a + o .. a + l - 1
  <2>1. PICK q \in o + 1 .. l : b = Byte(chunk[p], q)
    BY <1>3 DEF InFlight, o, l
  <2> QED
    BY <1>1, <1>2, <2>1
<1>4. ASSUME b \in a + o .. a + l - 1 PROVE b \in InFlight(p)
  <2>1. b - a + 1 \in o + 1 .. l /\ Byte(chunk[p], b - a + 1) = b /\ b # 0
    BY <1>1, <1>2, <1>4
  <2> QED
    BY <2>1 DEF InFlight, o, l
<1> QED
  BY <1>3, <1>4 DEF a, o, l

\* Steps that write nothing: a file may be opened, a loop given up.
LEMMA QuietOnce ==
  ASSUME OnceInv, OnlyEmptyAdded,
         UNCHANGED <<next, off, errs>>,
         ~reused' => ~reused,
         \A r \in Procs : InFlight(r)' \in {InFlight(r), {}},
         \A r \in Procs : pc'[r] = "write" =>
           pc[r] = "write" /\ fd'[r] = fd[r] /\ fd[r] \in DOMAIN files[r] /\ files'[r] = files[r]
  PROVE  OnceInv'
<1> SUFFICES ASSUME errs = 0, ~reused, ~reused' PROVE OnceInv'
  BY DEF OnceInv
<1>1. DOMAIN <<>> = {}
  OBVIOUS
<1>2. \A p \in Procs : \A i \in DOMAIN files'[p] : \A j \in DOMAIN files'[p][i] :
        i \in DOMAIN files[p] /\ j \in DOMAIN files[p][i] /\ files'[p][i][j] = files[p][i][j]
  BY <1>1 DEF OnlyEmptyAdded
<1>3. NoByteTwice'
  BY <1>2 DEF OnceInv, NoByteTwice
<1>4. \A p \in Procs : \A i \in DOMAIN files'[p] : \A j \in DOMAIN files'[p][i] :
        files'[p][i][j] < next' /\ \A r \in Procs : files'[p][i][j] \notin InFlight(r)'
  BY <1>2 DEF OnceInv
<1>5. \A p \in Procs : pc'[p] = "write" =>
        \A j \in DOMAIN files'[p][fd'[p]] : \A b \in InFlight(p)' : files'[p][fd'[p]][j] < b
  BY DEF OnceInv
<1> QED
  BY <1>3, <1>4, <1>5 DEF OnceInv

LEMMA ReadOnce ==
  ASSUME ReaderInv, ReaderInv', OnceInv, NEW p \in Procs, Read(p)
  PROVE  OnceInv'
<1> USE ReaderAssumption
<1> SUFFICES ASSUME errs = 0, ~reused PROVE OnceInv'
  BY DEF Read, OnceInv, disk
<1>1. PICK n \in 1..BufSize :
        /\ pc[p] = "read" /\ pc' = [pc EXCEPT ![p] = "write"]
        /\ chunk' = [chunk EXCEPT ![p] = [first |-> next, len |-> n]]
        /\ next' = next + n
        /\ off' = [off EXCEPT ![p] = 0]
        /\ UNCHANGED <<avail, total, files, fd, reused, lost, errs, kills>>
  BY DEF Read, ReadSize, disk
<1>2. TypeOK /\ TypeOK' /\ next \in Nat \ {0}
  <2>1. TypeOK /\ TypeOK'
    BY DEF ReaderInv
  <2>2. next \in Nat \ {0}
    BY <2>1 DEF TypeOK
  <2> QED
    BY <1>1, <2>1, <2>2
<1>3. \A r \in Procs : r # p => InFlight(r)' = InFlight(r)
  BY <1>1, <1>2 DEF InFlight, TypeOK
<1>4. \A b : b \in InFlight(p)' <=> b \in next .. next + n - 1
  <2>1. /\ pc'[p] = "write" /\ off'[p] = 0
        /\ chunk'[p].first = next /\ chunk'[p].len = n
    BY <1>1, <1>2 DEF TypeOK
  <2>2. \A b : b \in InFlight(p)' <=>
          \E q \in 1 .. n : b = Byte(chunk'[p], q) /\ b # 0
    BY <2>1 DEF InFlight
  <2>3. \A q \in 1 .. n : Byte(chunk'[p], q) = next + q - 1
    BY <1>2, <2>1 DEF Byte
  <2>4. ASSUME NEW b \in next .. next + n - 1 PROVE b \in InFlight(p)'
    <3>1. b - next + 1 \in 1 .. n /\ b # 0 /\ next + (b - next + 1) - 1 = b
      BY <1>2, <2>4
    <3>2. Byte(chunk'[p], b - next + 1) = b
      BY <2>3, <3>1
    <3> QED
      BY <2>2, <3>1, <3>2
  <2>5. ASSUME NEW b \in InFlight(p)' PROVE b \in next .. next + n - 1
    <3>1. PICK q \in 1 .. n : b = next + q - 1
      BY <2>2, <2>3, <2>5
    <3> QED
      BY <1>2, <3>1
  <2> QED
    BY <2>4, <2>5
<1>5. \A r \in Procs : \A b \in InFlight(r) : b \in Nat /\ b < next
  <2> SUFFICES ASSUME NEW r \in Procs, NEW b \in InFlight(r) PROVE b \in Nat /\ b < next
    OBVIOUS
  <2>1. pc[r] = "write" /\ off[r] >= 0
    BY DEF InFlight, OnceInv
  <2>2. b \in chunk[r].first + off[r] .. chunk[r].first + chunk[r].len - 1
    BY <1>2, <2>1, InFlightRange
  <2>3. /\ chunk[r].first \in Nat /\ chunk[r].len \in Nat /\ off[r] \in Int
        /\ chunk[r].first + chunk[r].len <= next
    BY <1>2, <2>1 DEF ReaderInv, LoopInv, TypeOK
  <2> QED
    BY <1>2, <2>1, <2>2, <2>3
<1>6. NoByteTwice'
  BY <1>1 DEF OnceInv, NoByteTwice
<1>7. \A r \in Procs : pc'[r] = "write" => off'[r] >= 0
  BY <1>1, <1>2 DEF OnceInv, TypeOK
<1>8. \A r \in Procs : \A i \in DOMAIN files[r] : \A j \in DOMAIN files[r][i] :
        files[r][i][j] \in Int /\ files[r][i][j] < next
  BY <1>2, FileType DEF OnceInv
<1>9. \A q \in Procs : \A i \in DOMAIN files[q] : \A j \in DOMAIN files[q][i] :
        files[q][i][j] < next' /\ \A r \in Procs : files[q][i][j] \notin InFlight(r)'
  BY <1>1, <1>2, <1>3, <1>4, <1>8 DEF OnceInv
<1>10. \A q, r \in Procs : q # r => InFlight(q)' \cap InFlight(r)' = {}
  <2>1. \A r \in Procs : r # p => InFlight(p)' \cap InFlight(r)' = {}
    BY <1>2, <1>3, <1>4, <1>5
  <2> QED
    BY <1>3, <2>1 DEF OnceInv
<1>11. \A r \in Procs : pc'[r] = "write" =>
         \A j \in DOMAIN files[r][fd[r]] : \A b \in InFlight(r)' : files[r][fd[r]][j] < b
  <2>1. fd[p] \in DOMAIN files[p]
    BY <1>1 DEF ReaderInv, SizeInv
  <2>2. \A j \in DOMAIN files[p][fd[p]] : \A b \in InFlight(p)' : files[p][fd[p]][j] < b
    BY <1>2, <1>4, <1>8, <2>1
  <2>3. \A r \in Procs : r # p => (pc'[r] = "write" <=> pc[r] = "write")
    BY <1>1, <1>2 DEF TypeOK
  <2> QED
    BY <1>3, <2>2, <2>3 DEF OnceInv
<1> QED
  BY <1>1, <1>6, <1>7, <1>9, <1>10, <1>11 DEF OnceInv

LEMMA WriteOnce ==
  ASSUME ReaderInv, OnceInv, NEW p \in Procs, Write(p)
  PROVE  OnceInv'
<1> USE ReaderAssumption
<1>1. PICK k \in 1..nr[p] : Wrote(p, k)
  BY WriteFacts
<1> SUFFICES ASSUME errs = 0, ~reused PROVE OnceInv'
  BY <1>1 DEF Wrote, OnceInv
<1> DEFINE a == chunk[p].first + off[p]
           e == chunk[p].first + chunk[p].len - 1
           d == fd[p]
           n == Len(files[p][d])
           w == files'[p][d]
<1>2. /\ TypeOK /\ pc[p] = "write" /\ d \in DOMAIN files[p] /\ total[p] = n
      /\ fd' = fd /\ next' = next /\ errs' = errs /\ reused' = reused
      /\ \A r \in Procs : DOMAIN files'[r] = DOMAIN files[r]
  BY <1>1 DEF ReaderInv, SizeInv, Wrote
<1>3. /\ n \in Nat /\ DOMAIN files[p][d] = 1..n
      /\ \A j \in 1..n : files[p][d][j] \in Int
  BY <1>2, FileType
<1>4. /\ off[p] \in Nat /\ k \in Nat /\ k >= 1 /\ k <= chunk[p].len - off[p]
      /\ chunk[p].first \in Nat \ {0} /\ chunk[p].len \in Nat
      /\ chunk[p].first + chunk[p].len <= next /\ next \in Nat
  <2>1. LoopInv(p) /\ off[p] >= 0
    BY <1>2 DEF ReaderInv, OnceInv
  <2>2. /\ off[p] \in Int /\ nr[p] \in Nat /\ next \in Nat
        /\ chunk[p].first \in Nat \ {0} /\ chunk[p].len \in Nat
    BY <1>2 DEF TypeOK
  <2> QED
    BY <1>2, <2>1, <2>2 DEF LoopInv
<1>5. a \in Nat \ {0} /\ e \in Nat /\ a + k - 1 <= e /\ e < next
  BY <1>4
<1>6. \A b : b \in InFlight(p) <=> b \in a .. e
  BY <1>2, <1>4, InFlightRange
<1>7. \A b : b \in InFlight(p)' => b \in a + k .. e
  <2> SUFFICES ASSUME NEW b, b \in InFlight(p)' PROVE b \in a + k .. e
    OBVIOUS
  <2>1. off'[p] = off[p] + k /\ chunk'[p] = chunk[p]
    BY <1>1, <1>2 DEF TypeOK, Wrote
  <2>2. PICK q \in off[p] + k + 1 .. chunk[p].len : b = Byte(chunk[p], q)
    BY <2>1 DEF InFlight
  <2> QED
    BY <1>4, <2>2 DEF Byte
<1>8. \A r \in Procs : r # p =>
        InFlight(r)' = InFlight(r) /\ (pc'[r] = "write" <=> pc[r] = "write") /\ off'[r] = off[r]
  BY <1>1, <1>2 DEF InFlight, TypeOK, Wrote
<1>9. \A r \in Procs : \A i \in DOMAIN files[r] :
        r # p \/ i # d => files'[r][i] = files[r][i]
  BY <1>1 DEF Wrote
<1>10. DOMAIN w = 1..n + k
  <2>1. Len(w) = n + k
    BY <1>1, <1>2, <1>3, <1>4 DEF Wrote
  <2>2. files'[p] \in Seq(Seq(Bytes)) /\ d \in DOMAIN files'[p]
    BY <1>1, <1>2 DEF Wrote
  <2>3. w \in Seq(Bytes)
    BY <2>2
  <2> HIDE DEF w, n, d
  <2> QED
    BY <2>1, <2>3
<1>11. \A j \in 1..n : j \in DOMAIN w /\ w[j] = files[p][d][j]
  <2>1. \A j \in 1..n : j \in DOMAIN w /\ j \notin n + 1 .. n + k
    BY <1>3, <1>4, <1>10
  <2> QED
    BY <1>1, <1>2, <2>1 DEF Wrote
<1>12. \A j \in n + 1 .. n + k : w[j] = a + (j - n) - 1
  <2> SUFFICES ASSUME NEW j \in n + 1 .. n + k PROVE w[j] = a + (j - n) - 1
    OBVIOUS
  <2>1. w[j] = Byte(chunk[p], off[p] + (j - n))
    BY <1>1, <1>2 DEF Wrote
  <2>2. j - n \in 1..k
    BY <1>3, <1>4
  <2> DEFINE q == off[p] + (j - n)
  <2>3. j - n \in Int /\ q \in 1..chunk[p].len /\ chunk[p].first + q - 1 = a + (j - n) - 1
    <3> DEFINE i == j - n
    <3>1. i \in 1..k
      BY <2>2
    <3> HIDE DEF i
    <3>2. i \in Int /\ off[p] + i \in 1..chunk[p].len
          /\ chunk[p].first + (off[p] + i) - 1 = chunk[p].first + off[p] + i - 1
      BY <1>4, <3>1
    <3> QED
      BY <3>2 DEF i
  <2> HIDE DEF q, a
  <2>4. Byte(chunk[p], q) = chunk[p].first + q - 1
    BY <2>3 DEF Byte
  <2> QED
    BY <2>1, <2>3, <2>4 DEF q
<1> HIDE DEF a, e, n, w, d
<1>13. \A j \in 1..n : /\ w[j] \in Int /\ w[j] < a /\ w[j] < next /\ w[j] # 0
                       /\ \A r \in Procs : w[j] \notin InFlight(r)
  <2>1. a \in InFlight(p)
    BY <1>4, <1>5, <1>6
  <2>2. \A j \in 1..n : j \in DOMAIN files[p][d] /\ w[j] = files[p][d][j] /\ w[j] \in Int
    BY <1>3, <1>11
  <2>3. \A j \in 1..n : files[p][d][j] < a
    BY <1>2, <1>3, <2>1 DEF OnceInv, d
  <2> QED
    BY <1>2, <2>2, <2>3 DEF OnceInv, NoByteTwice
<1>14. \A j \in n + 1 .. n + k :
         /\ w[j] \in Nat /\ w[j] # 0 /\ w[j] \in InFlight(p)
         /\ w[j] >= a /\ w[j] < a + k /\ w[j] < next
  <2> SUFFICES ASSUME NEW j \in n + 1 .. n + k
               PROVE  /\ w[j] \in Nat /\ w[j] # 0 /\ w[j] \in InFlight(p)
                      /\ w[j] >= a /\ w[j] < a + k /\ w[j] < next
    OBVIOUS
  <2>1. j - n \in 1 .. k /\ w[j] = a + (j - n) - 1
    BY <1>3, <1>4, <1>12
  <2>2. w[j] \in a .. a + k - 1
    BY <1>4, <1>5, <2>1
  <2> QED
    BY <1>4, <1>5, <1>6, <2>2
<1>15. \A j \in 1..n + k : j \in 1..n \/ j \in n + 1 .. n + k
  BY <1>3, <1>4
<1>16. \A j, m \in 1..n + k : j < m => w[j] < w[m]
  <2> SUFFICES ASSUME NEW j \in 1..n + k, NEW m \in 1..n + k, j < m
               PROVE  w[j] < w[m]
    OBVIOUS
  <2>1. CASE j \in 1..n /\ m \in 1..n
    <3>1. files[p][d][j] < files[p][d][m]
      BY <1>2, <1>3, <2>1 DEF OnceInv, NoByteTwice
    <3> QED
      BY <1>11, <2>1, <3>1
  <2>2. CASE j \in 1..n /\ m \in n + 1 .. n + k
    BY <1>5, <1>13, <1>14, <2>2
  <2>3. CASE j \in n + 1 .. n + k /\ m \in n + 1 .. n + k
    <3>1. w[j] = a + (j - n) - 1 /\ w[m] = a + (m - n) - 1
      BY <1>12, <2>3
    <3> QED
      BY <1>3, <1>5, <2>3, <3>1
  <2>4. CASE j \in n + 1 .. n + k /\ m \in 1..n
    BY <1>3, <2>4
  <2> QED
    BY <1>15, <2>1, <2>2, <2>3, <2>4
\* A byte of another file is in no loop and not in the file of p.
<1>17. ASSUME NEW r \in Procs, NEW i \in DOMAIN files[r], r # p \/ i # d,
              NEW j \in DOMAIN files[r][i], NEW m \in 1..n + k
       PROVE  files[r][i][j] # w[m]
  <2>1. CASE m \in 1..n
    <3>1. m \in DOMAIN files[p][d] /\ w[m] = files[p][d][m]
      BY <1>3, <1>11, <2>1
    <3> QED
      BY <1>2, <1>17, <3>1 DEF OnceInv, NoByteTwice
  <2>2. CASE m \in n + 1 .. n + k
    BY <1>14, <1>17, <2>2 DEF OnceInv
  <2> QED
    BY <1>15, <2>1, <2>2
<1>18. NoByteTwice'
  <2>0. \A r \in Procs : \A i \in DOMAIN files'[r] :
          \/ r = p /\ i = d /\ files'[r][i] = w /\ DOMAIN files'[r][i] = 1..n + k
          \/ (r # p \/ i # d) /\ i \in DOMAIN files[r] /\ files'[r][i] = files[r][i]
    BY <1>2, <1>9, <1>10 DEF w
  <2>1. ASSUME NEW r \in Procs, NEW s \in Procs,
               NEW i \in DOMAIN files'[r], NEW l \in DOMAIN files'[s],
               NEW j \in DOMAIN files'[r][i], NEW m \in DOMAIN files'[s][l],
               files'[r][i][j] = files'[s][l][m]
        PROVE  r = s /\ i = l /\ j = m
    <3>1. CASE r = p /\ i = d /\ s = p /\ l = d
      <4>1. j \in 1..n + k /\ m \in 1..n + k /\ w[j] = w[m]
        BY <2>0, <2>1, <3>1
      <4>2. w[j] \in Int /\ j \in Int /\ m \in Int
        BY <1>3, <1>4, <1>13, <1>14, <1>15, <4>1
      <4>3. ~(j < m) /\ ~(m < j)
        BY <1>16, <4>1, <4>2
      <4> QED
        BY <3>1, <4>2, <4>3
    <3>2. CASE (r # p \/ i # d) /\ (s # p \/ l # d)
      <4>1. /\ i \in DOMAIN files[r] /\ files'[r][i] = files[r][i]
            /\ l \in DOMAIN files[s] /\ files'[s][l] = files[s][l]
        BY <2>0, <3>2
      <4> QED
        BY <2>1, <4>1 DEF OnceInv, NoByteTwice
    <3>3. CASE (r # p \/ i # d) /\ s = p /\ l = d
      <4>1. /\ i \in DOMAIN files[r] /\ files'[r][i] = files[r][i]
            /\ files'[s][l] = w /\ m \in 1..n + k
        BY <2>0, <2>1, <3>3
      <4> QED
        BY <1>17, <2>1, <3>3, <4>1
    <3>4. CASE (s # p \/ l # d) /\ r = p /\ i = d
      <4>1. /\ l \in DOMAIN files[s] /\ files'[s][l] = files[s][l]
            /\ files'[r][i] = w /\ j \in 1..n + k
        BY <2>0, <2>1, <3>4
      <4> QED
        BY <1>17, <2>1, <3>4, <4>1
    <3> QED
      BY <3>1, <3>2, <3>3, <3>4
  <2>2. ASSUME NEW r \in Procs, NEW i \in DOMAIN files'[r],
               NEW j \in DOMAIN files'[r][i], NEW m \in DOMAIN files'[r][i], j < m
        PROVE  files'[r][i][j] < files'[r][i][m]
    <3>1. CASE r = p /\ i = d
      <4>1. files'[r][i] = w /\ j \in 1..n + k /\ m \in 1..n + k
        BY <2>0, <2>2, <3>1
      <4> QED
        BY <1>16, <2>2, <4>1
    <3>2. CASE r # p \/ i # d
      <4>1. i \in DOMAIN files[r] /\ files'[r][i] = files[r][i]
        BY <2>0, <3>2
      <4> QED
        BY <2>2, <4>1 DEF OnceInv, NoByteTwice
    <3> QED
      BY <3>1, <3>2
  <2>3. ASSUME NEW r \in Procs, NEW i \in DOMAIN files'[r], NEW j \in DOMAIN files'[r][i]
        PROVE  files'[r][i][j] # 0
    <3>1. CASE r = p /\ i = d
      <4>1. files'[r][i] = w /\ j \in 1..n + k
        BY <2>0, <2>3, <3>1
      <4> QED
        BY <1>13, <1>14, <1>15, <4>1
    <3>2. CASE r # p \/ i # d
      <4>1. i \in DOMAIN files[r] /\ files'[r][i] = files[r][i]
        BY <2>0, <3>2
      <4> QED
        BY <2>3, <4>1 DEF OnceInv, NoByteTwice
    <3> QED
      BY <3>1, <3>2
  <2> QED
    BY <2>1, <2>2, <2>3 DEF NoByteTwice
<1>19. \A r \in Procs : InFlight(r)' \subseteq InFlight(r)
  BY <1>4, <1>5, <1>6, <1>7, <1>8
<1>20. ASSUME NEW s \in Procs, NEW i \in DOMAIN files'[s], NEW j \in DOMAIN files'[s][i]
       PROVE  files'[s][i][j] < next' /\ \A r \in Procs : files'[s][i][j] \notin InFlight(r)'
  <2>1. CASE s # p \/ i # d
    BY <1>2, <1>9, <1>19, <1>20, <2>1 DEF OnceInv
  <2>2. CASE s = p /\ i = d
    <3>1. j \in 1..n + k /\ files'[s][i] = w
      BY <1>10, <1>20, <2>2 DEF w
    <3>2. CASE j \in 1..n
      BY <1>2, <1>13, <1>19, <3>1, <3>2
    <3>3. CASE j \in n + 1 .. n + k
      <4>1. w[j] \notin InFlight(p)'
        BY <1>4, <1>5, <1>7, <1>14, <3>3
      <4>2. \A r \in Procs : r # p => w[j] \notin InFlight(r)'
        BY <1>8, <1>14, <3>3 DEF OnceInv
      <4> QED
        BY <1>2, <1>14, <3>1, <3>3, <4>1, <4>2
    <3> QED
      BY <1>15, <3>1, <3>2, <3>3
  <2> QED
    BY <2>1, <2>2
<1>21. \A q, r \in Procs : q # r => InFlight(q)' \cap InFlight(r)' = {}
  BY <1>19 DEF OnceInv
<1>22. \A r \in Procs : pc'[r] = "write" => off'[r] >= 0
  <2>1. off'[p] = off[p] + k
    BY <1>1, <1>2 DEF TypeOK, Wrote
  <2> QED
    BY <1>4, <1>8, <2>1 DEF OnceInv
<1>23. ASSUME NEW r \in Procs, pc'[r] = "write",
              NEW j \in DOMAIN files'[r][fd'[r]], NEW b \in InFlight(r)'
       PROVE  files'[r][fd'[r]][j] < b
  <2>1. CASE r = p
    <3>1. j \in 1..n + k /\ files'[r][fd'[r]] = w /\ b \in a + k .. e
      BY <1>2, <1>7, <1>10, <1>23, <2>1 DEF w, d
    <3>2. w[j] \in Int /\ w[j] < a + k
      BY <1>4, <1>5, <1>13, <1>14, <1>15, <3>1
    <3> QED
      BY <1>4, <1>5, <3>1, <3>2
  <2>2. CASE r # p
    <3>1. pc[r] = "write" /\ fd'[r] = fd[r] /\ b \in InFlight(r)
      BY <1>2, <1>8, <1>23, <2>2
    <3>2. fd[r] \in DOMAIN files[r]
      BY <3>1 DEF ReaderInv, SizeInv
    <3>3. files'[r][fd[r]] = files[r][fd[r]]
      BY <1>9, <2>2, <3>2
    <3> QED
      BY <1>23, <3>1, <3>3 DEF OnceInv
  <2> QED
    BY <2>1, <2>2
<1> QED
  BY <1>18, <1>20, <1>21, <1>22, <1>23 DEF OnceInv

\* Readers of a shared source never save a byte twice, and every file has the
\* order of the source, as long as no write failed and no name was used twice.
THEOREM SavedOnce == Spec => []NoByteTwice
<1>1. Init => OnceInv
  BY DEF Init, OnceInv, NoByteTwice, InFlight
<1>2. ReaderInv /\ ReaderInv' /\ OnceInv /\ [Next]_vars => OnceInv'
  <2> SUFFICES ASSUME ReaderInv, ReaderInv', OnceInv, [Next]_vars PROVE OnceInv'
    OBVIOUS
  <2>0. \A r \in Procs : pc[r] = "write" => fd[r] \in DOMAIN files[r]
    BY DEF ReaderInv, SizeInv
  <2>1. CASE KernelLog \/ UNCHANGED vars
    <3>1. UNCHANGED <<next, pc, chunk, off, files, fd, reused, errs>>
      BY <2>1 DEF KernelLog, vars, loop, disk
    <3>2. OnlyEmptyAdded
      BY <3>1 DEF OnlyEmptyAdded
    <3>3. \A r \in Procs : InFlight(r)' \in {InFlight(r), {}}
      BY <3>1 DEF InFlight
    <3> QED
      BY <2>0, <3>1, <3>2, <3>3, QuietOnce
  <2>2. ASSUME NEW p \in Procs,
               Start(p) \/ OpenFiles(p) \/ OpenFails(p) \/ Kill(p) \/ Split(p) \/ SplitFails(p)
        PROVE OnceInv'
    <3>1. /\ UNCHANGED <<next, chunk, off, errs>>
          /\ \E v \in {"open", "down", "read", "dead"} : pc' = [pc EXCEPT ![p] = v]
      BY <2>2 DEF Start, OpenFiles, OpenFails, Kill, Split, SplitFails, loop
    <3>2. pc'[p] # "write" /\ \A r \in Procs : r # p => pc'[r] = pc[r]
      BY <3>1 DEF ReaderInv, TypeOK
    <3>3. \A r \in Procs : InFlight(r)' \in {InFlight(r), {}}
      BY <3>1, <3>2 DEF InFlight
    <3>4. /\ OnlyEmptyAdded /\ (~reused' => ~reused)
          /\ \A r \in Procs : r # p => files'[r] = files[r] /\ fd'[r] = fd[r]
      <4>1. CASE OpenFiles(p) \/ Split(p)
        BY <4>1, OpenNameFacts DEF OpenFiles, Split, ReaderInv
      <4>2. CASE Start(p) \/ OpenFails(p)
        BY <4>2 DEF Start, OpenFails, disk, OnlyEmptyAdded
      <4>3. CASE Kill(p) \/ SplitFails(p)
        BY <4>3 DEF Kill, SplitFails, OnlyEmptyAdded, ReaderInv, TypeOK
      <4> QED
        BY <2>2, <4>1, <4>2, <4>3
    <3>5. \A r \in Procs : pc'[r] = "write" =>
            /\ pc[r] = "write" /\ fd'[r] = fd[r] /\ fd[r] \in DOMAIN files[r]
            /\ files'[r] = files[r]
      BY <2>0, <3>2, <3>4
    <3> QED
      BY <3>1, <3>3, <3>4, <3>5, QuietOnce
  <2>3. ASSUME NEW p \in Procs, WriteFails(p) PROVE OnceInv'
    BY <2>3 DEF WriteFails, OnceInv, ReaderInv, TypeOK
  <2> QED
    BY <2>1, <2>2, <2>3, ReadOnce, WriteOnce DEF Next, Thread
<1>3. OnceInv => NoByteTwice
  BY DEF OnceInv, NoByteTwice
<1> QED
  BY ReaderCorrect, <1>1, <1>2, <1>3, PTL DEF Spec

=============================================================================
