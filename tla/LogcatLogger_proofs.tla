------------------------ MODULE LogcatLogger_proofs ------------------------
(***************************************************************************)
(* Proofs about LogcatLogger for any number of messages, buffers, sizes,   *)
(* file names and faults.                                                  *)
(***************************************************************************)
EXTENDS LogcatLogger, TLAPS, FiniteSetTheorems, WellFoundedInduction

\* A byte of message m is <<m, j>>, a banner <<0, d>>.
Cell == (Msgs \X Nat) \cup ({0} \X DeviceName)

Pcs == {"down", "format", "create", "repeat", "read", "process", "rotate", "dead"}

Keys == Events \cup {"connect"}

\* logd's buffer.
LogdInv ==
  /\ base \in Nat \ {0} /\ logged \in 0..Cardinality(Msgs)
  /\ base <= logged + 1 /\ logged + 1 - base <= RingCap
  /\ up \in BOOLEAN

UsedInv ==
  /\ used \in [Keys -> Nat]
  /\ \A e \in Events : used[e] <= Budget[e]

\* What the numbers and the descriptor have to do with the place the thread is at.
ThreadInv ==
  /\ conn \in {"new", "open", "broken"}
  /\ cursor \in Nat \ {0}
  /\ pc \in Pcs
  /\ msg \in Msgs \cup {0}
  /\ pc = "process" <=> msg # 0
  /\ errcount \in 0..ErrLimit + 1
  /\ outByteCount \in Nat
  /\ dropped \subseteq Msgs

OutputInv ==
  /\ outFD \in Names \cup {NoFile}
  /\ outFD = NoFile => off = 0 /\ pc \in {"down", "format", "create", "dead"}
  /\ off \in Nat
  /\ file \in [Names -> Seq(Cell)]
  /\ outFD \in Names => off <= Len(file[outFD])
  /\ opens \in [Names -> Nat]

ShapeInv == LogdInv /\ UsedInv /\ ThreadInv /\ OutputInv

\* The reader: nothing is read or counted before it has connected.
ReaderInv ==
  /\ pc \in {"process", "rotate"} => conn # "new"
  /\ pc = "process" => cursor = msg + 1
  /\ conn = "new" => outByteCount = 0
  /\ conn # "new" => used["connect"] >= 1

\* A file that was opened once is written at its end.
AppendInv ==
  /\ \A n \in Names : opens[n] = 0 => file[n] = <<>>
  /\ outFD \in Names => opens[outFD] >= 1
  /\ outFD \in Names /\ opens[outFD] <= 1 => off = Len(file[outFD])

Shape == ShapeInv /\ ReaderInv /\ AppendInv

AllCopies(m) == UNION {{<<n, p>> : p \in Copies(m, n)} : n \in Names}

\* The copy of m that the present connection may still write.
Owed(m) == IF (conn = "open" /\ m >= cursor) \/ m = msg THEN 1 ELSE 0

CopyInv ==
  \A m \in Msgs : /\ IsFiniteSet(AllCopies(m))
                  /\ Cardinality(AllCopies(m)) + Owed(m) <= used["connect"]

\* What may have been written with r counts from zero to the threshold and f lines
\* beyond it.
Limit(r, f) == r * (MaxLogSize - 1) + f * MaxLine

Extra == used["rotate"] + (IF pc = "rotate" THEN 1 ELSE 0)

\* The places of file n that hold bytes of messages.
Places(n) == {p \in DOMAIN file[n] : file[n][p][1] # 0}

\* The bytes of the file that is open: those counted now come on top of the counts of
\* the connections before.
BytesInv ==
  MaxLogSize # 0 =>
    /\ \A n \in Names : opens[n] <= 1 =>
         MessageBytes(n) <= Limit(IF used["connect"] = 0 THEN 1 ELSE used["connect"],
                                  1 + used["rotate"])
    /\ outFD \in Names /\ opens[outFD] <= 1 /\ pc \notin {"down", "dead"} =>
         /\ MessageBytes(outFD) <= Limit(used["connect"], Extra)
         /\ conn # "new" =>
              MessageBytes(outFD) <= Limit(used["connect"] - 1, used["rotate"]) + outByteCount

-----------------------------------------------------------------------------
\* Numbers.

LEMMA MsgsFacts ==
  /\ Cardinality(Msgs) \in Nat
  /\ Msgs = 1..Cardinality(Msgs)
  /\ \A m \in Msgs : m \in Nat /\ m >= 1 /\ Size[m] \in Nat /\ Size[m] >= 1
<1>1. Cardinality(Msgs) \in Nat /\ Msgs = 1..Cardinality(Msgs)
  BY LoggerAssumption, FS_CardinalityType
<1>2. Size \in [Msgs -> Nat \ {0}]
  BY LoggerAssumption
<1>3. \A m \in 1..Cardinality(Msgs) : m \in Nat /\ m >= 1
  BY <1>1
<1>4. \A m \in Msgs : Size[m] \in Nat /\ Size[m] >= 1
  BY <1>2
<1> QED
  BY <1>1, <1>3, <1>4

\* A set of numbers has a least element.
LEMMA LeastNumber ==
  ASSUME NEW S \in SUBSET Nat, S # {}
  PROVE  \E x \in S : \A y \in S : x <= y
<1>1. PICK x \in S : \A y \in S : ~(<<y, x>> \in OpToRel(<, Nat))
  BY NatLessThanWellFounded, WFMin
<1>2. \A y \in S : x <= y
  <2> TAKE y \in S
  <2>1. x \in Nat /\ y \in Nat
    OBVIOUS
  <2>2. ~(y < x)
    BY <1>1, <2>1 DEF OpToRel
  <2> QED
    BY <2>1, <2>2
<1> QED
  BY <1>2

\* The lines are bounded: the least bound is 0 or the length of a line.
LEMMA MaxLineFacts == MaxLine \in Nat /\ \A m \in Msgs : Size[m] <= MaxLine
<1> DEFINE N == Cardinality(Msgs)
           Bounds(n, b) == \A m \in 1..n : Size[m] <= b
           Unbounded == {n \in 0..N : \A b \in Nat : ~Bounds(n, b)}
           Upper == {b \in Nat : Bounds(N, b)}
<1>1. N \in Nat /\ Msgs = 1..N /\ \A m \in 1..N : Size[m] \in Nat
  BY MsgsFacts
<1> HIDE DEF N
<1>2. Unbounded = {}
  <2> SUFFICES ASSUME Unbounded # {} PROVE FALSE
    OBVIOUS
  <2>1. Unbounded \in SUBSET Nat
    BY <1>1
  <2>2. PICK n \in Unbounded : \A i \in Unbounded : n <= i
    BY <2>1, LeastNumber
  <2>3. n # 0
    <3>1. \A b \in Nat : Bounds(0, b)
      OBVIOUS
    <3>2. 0 \in Nat
      OBVIOUS
    <3> QED
      BY <3>1, <3>2, <2>2
  <2>4. n \in 1..N /\ n - 1 \in 0..N /\ ~(n <= n - 1)
    BY <1>1, <2>2, <2>3
  <2>5. n - 1 \notin Unbounded
    BY <2>2, <2>4
  <2>6. PICK b \in Nat : Bounds(n - 1, b)
    BY <2>4, <2>5
  <2>7. Size[n] \in Nat
    BY <1>1, <2>4
  <2>8. \A m \in 1..n : m \in 1..(n - 1) \/ m = n
    BY <1>1, <2>4
  <2>9. CASE Size[n] <= b
    BY <2>2, <2>6, <2>8, <2>9
  <2>10. CASE ~(Size[n] <= b)
    <3>1. \A m \in 1..(n - 1) : Size[m] <= Size[n]
      <4> TAKE m \in 1..(n - 1)
      <4>1. m \in 1..N
        BY <1>1, <2>4
      <4>2. Size[m] \in Nat /\ Size[m] <= b
        BY <1>1, <2>6, <4>1
      <4> QED
        BY <2>7, <2>10, <4>2
    <3>2. Bounds(n, Size[n])
      <4> SUFFICES ASSUME NEW m \in 1..n PROVE Size[m] <= Size[n]
        OBVIOUS
      <4>1. CASE m = n
        BY <2>7, <4>1
      <4>2. CASE m \in 1..(n - 1)
        BY <3>1, <4>2
      <4> QED
        BY <2>8, <4>1, <4>2
    <3> QED
      BY <2>2, <2>7, <3>2
  <2> QED
    BY <2>9, <2>10
<1>3. PICK b \in Nat : Bounds(N, b) /\ \A u \in Upper : b <= u
  <2>1. N \in 0..N
    BY <1>1
  <2>2. Upper # {}
    BY <1>2, <2>1
  <2> QED
    BY <2>2, LeastNumber
<1>4. b \in {0} \cup {Size[m] : m \in Msgs}
  <2> SUFFICES ASSUME b # 0, \A m \in Msgs : Size[m] # b PROVE FALSE
    OBVIOUS
  <2>1. b - 1 \in Nat
    OBVIOUS
  <2>2. Bounds(N, b - 1)
    BY <1>1, <1>3
  <2> QED
    BY <1>3, <2>1, <2>2
<1>5. \A m \in Msgs : Size[m] <= b
  BY <1>1, <1>3
<1>6. MaxLine \in {0} \cup {Size[m] : m \in Msgs} /\ \A m \in Msgs : Size[m] <= MaxLine
  BY <1>4, <1>5 DEF MaxLine
<1> QED
  BY <1>1, <1>6

LEMMA LimitFacts ==
  ASSUME MaxLogSize # 0
  PROVE  \A r, f \in Nat :
           /\ Limit(r, f) \in Nat
           /\ Limit(r + 1, f) = Limit(r, f) + (MaxLogSize - 1)
           /\ Limit(r, f + 1) = Limit(r, f) + MaxLine
<1> DEFINE M == MaxLogSize - 1
<1>1. M \in Nat /\ MaxLine \in Nat
  BY LoggerAssumption, MaxLineFacts
<1> HIDE DEF M
<1> TAKE r, f \in Nat
<1>2. r * M \in Nat /\ f * MaxLine \in Nat
  BY <1>1
<1>3. (r + 1) * M = r * M + M /\ (f + 1) * MaxLine = f * MaxLine + MaxLine
  BY <1>1
<1> QED
  BY <1>1, <1>2, <1>3 DEF Limit, M

\* A limit grows with both numbers.
LEMMA LimitGrows ==
  ASSUME MaxLogSize # 0, NEW r \in Nat, NEW f \in Nat
  PROVE  /\ Limit(r, f) <= Limit(r + 1, f)
         /\ Limit(r, f) <= Limit(r, f + 1)
<1>1. MaxLogSize - 1 \in Nat /\ MaxLine \in Nat
  BY LoggerAssumption, MaxLineFacts
<1>2. /\ Limit(r, f) \in Nat
      /\ Limit(r + 1, f) = Limit(r, f) + (MaxLogSize - 1)
      /\ Limit(r, f + 1) = Limit(r, f) + MaxLine
  BY LimitFacts
<1> QED
  BY <1>1, <1>2

-----------------------------------------------------------------------------
\* What a write leaves in the file.

\* g is f with a banner of b cells and k bytes of message m written at offset o.
Result(f, o, b, k, m, g) ==
  /\ g \in Seq(Cell)
  /\ Len(g) >= Len(f) /\ Len(g) >= o + b + k
  /\ Len(g) = Len(f) \/ Len(g) = o + b + k
  /\ \A p \in 1..Len(g) :
       \/ p \in 1..Len(f) /\ (p <= o \/ p > o + b + k) /\ g[p] = f[p]
       \/ p > o /\ p <= o + b /\ g[p] \in {0} \X DeviceName
       \/ p > o + b /\ p <= o + b + k /\ g[p] = <<m, p - (o + b)>>

LEMMA OverwriteFacts ==
  ASSUME NEW f \in Seq(Cell), NEW o \in Nat, o <= Len(f),
         NEW b \in {0, 1}, NEW m \in Msgs, NEW k \in 0..Size[m],
         NEW d \in DeviceName, NEW s \in Seq(Cell), Len(s) = b + k,
         b = 1 => s[1] = <<0, d>>,
         \A p \in 1..k : s[b + p] = <<m, p>>
  PROVE  Result(f, o, b, k, m, Overwrite(f, o, s))
<1> DEFINE L == IF o + Len(s) > Len(f) THEN o + Len(s) ELSE Len(f)
           g == Overwrite(f, o, s)
<1>1. Len(f) \in Nat /\ Len(s) \in Nat /\ k \in Nat /\ b \in Nat /\ L \in Nat
  BY MsgsFacts
<1>2. g = [p \in 1..L |-> IF p \in o + 1 .. o + Len(s) THEN s[p - o] ELSE f[p]]
  BY DEF Overwrite
<1>3. ASSUME NEW p \in 1..L, p \in o + 1 .. o + Len(s)
      PROVE  g[p] = s[p - o] /\ p - o \in 1..Len(s)
  <2>1. g[p] = s[p - o]
    BY <1>2, <1>3, Zenon
  <2>2. p - o \in 1..Len(s)
    BY <1>1, <1>3
  <2> QED
    BY <2>1, <2>2
<1>4. ASSUME NEW p \in 1..L, p \notin o + 1 .. o + Len(s)
      PROVE  g[p] = f[p] /\ p \in 1..Len(f) /\ (p <= o \/ p > o + b + k)
  BY <1>1, <1>2, <1>4
<1> HIDE DEF g
<1>5. g \in Seq(Cell) /\ Len(g) = L
  <2>1. \A p \in 1..L : g[p] \in Cell
    <3> TAKE p \in 1..L
    <3>1. CASE p \in o + 1 .. o + Len(s)
      BY <1>3, <3>1
    <3>2. CASE p \notin o + 1 .. o + Len(s)
      BY <1>4, <3>2
    <3> QED
      BY <3>1, <3>2
  <2> HIDE DEF L
  <2>2. g \in [1..L -> Cell] /\ DOMAIN g = 1..L
    BY <1>2, <2>1
  <2> QED
    BY <1>1, <2>2
<1>6. ASSUME NEW p \in 1..L
      PROVE  \/ p \in 1..Len(f) /\ (p <= o \/ p > o + b + k) /\ g[p] = f[p]
             \/ p > o /\ p <= o + b /\ g[p] \in {0} \X DeviceName
             \/ p > o + b /\ p <= o + b + k /\ g[p] = <<m, p - (o + b)>>
  <2>1. CASE p \notin o + 1 .. o + Len(s)
    BY <1>4, <2>1
  <2>2. CASE p \in o + 1 .. o + Len(s) /\ p <= o + b
    <3>1. b = 1 /\ p - o = 1 /\ p > o
      BY <1>1, <2>2
    <3>2. g[p] = <<0, d>>
      BY <1>3, <2>2, <3>1
    <3> QED
      BY <2>2, <3>1, <3>2
  <2>3. CASE p \in o + 1 .. o + Len(s) /\ ~(p <= o + b)
    <3>1. p - (o + b) \in 1..k /\ p - o = b + (p - (o + b)) /\ p > o + b /\ p <= o + b + k
      BY <1>1, <2>3
    <3>2. s[p - o] = <<m, p - (o + b)>>
      BY <3>1
    <3> QED
      BY <1>3, <2>3, <3>1, <3>2
  <2> QED
    BY <2>1, <2>2, <2>3
<1>7. L >= Len(f) /\ L >= o + b + k /\ (L = Len(f) \/ L = o + b + k)
  BY <1>1
<1> QED
  BY <1>5, <1>6, <1>7 DEF Result, g

\* Emit writes a banner or none, then the first k bytes of the message.
Written(b, k) ==
  \E g :
    /\ Result(file[outFD], off, b, k, msg, g)
    /\ file' = [file EXCEPT ![outFD] = g]
    /\ off' = off + b + k
    /\ UNCHANGED <<outFD, opens>>

LEMMA EmitFacts ==
  ASSUME ShapeInv, pc = "process", NEW k \in 0..Size[msg], Emit(SubSeq(Line(msg), 1, k))
  PROVE  \E b \in {0, 1} : Written(b, k)
<1> DEFINE f == file[outFD]
           s == SubSeq(Line(msg), 1, k)
           out == (IF Dev[msg] \in printed THEN <<>> ELSE Banner(Dev[msg])) \o s
           b == IF Dev[msg] \in printed THEN 0 ELSE 1
<1>1. msg \in Msgs /\ outFD \in Names /\ off \in Nat
  BY DEF ShapeInv, ThreadInv, OutputInv
<1>2. f \in Seq(Cell) /\ off <= Len(f)
  BY <1>1 DEF ShapeInv, ThreadInv, OutputInv
<1>3. k \in Nat /\ Size[msg] \in Nat /\ k <= Size[msg]
  BY <1>1, MsgsFacts
<1>4. Dev[msg] \in DeviceName
  BY <1>1, LoggerAssumption
<1>5. Line(msg) \in Seq(Cell) /\ Len(Line(msg)) = Size[msg]
  <2>1. \A j \in 1..Size[msg] : <<msg, j>> \in Cell
    BY <1>1, <1>3 DEF Cell
  <2> QED
    BY <1>3, <2>1 DEF Line
<1>6. s \in Seq(Cell) /\ Len(s) = k /\ \A j \in 1..k : s[j] = <<msg, j>>
  <2>1. s \in Seq(Cell) /\ Len(s) = k
    BY <1>3, <1>5
  <2>2. \A j \in 1..k : s[j] = Line(msg)[j]
    BY <1>3, <1>5
  <2>3. \A j \in 1..k : j \in 1..Size[msg]
    BY <1>3
  <2> QED
    BY <2>1, <2>2, <2>3 DEF Line
<1>7. Banner(Dev[msg]) \in Seq(Cell) /\ Len(Banner(Dev[msg])) = 1
      /\ Banner(Dev[msg])[1] = <<0, Dev[msg]>>
  <2>1. <<0, Dev[msg]>> \in Cell
    BY <1>4 DEF Cell
  <2> QED
    BY <2>1 DEF Banner
<1> HIDE DEF s
<1>8. /\ out \in Seq(Cell) /\ Len(out) = b + k
      /\ b = 1 => out[1] = <<0, Dev[msg]>>
      /\ \A j \in 1..k : out[b + j] = <<msg, j>>
  <2>1. CASE Dev[msg] \in printed
    <3>1. out = s
      BY <1>6, <2>1
    <3> QED
      BY <1>3, <1>6, <2>1, <3>1
  <2>2. CASE Dev[msg] \notin printed
    <3>1. out = Banner(Dev[msg]) \o s
      BY <2>2
    <3>2. out \in Seq(Cell) /\ Len(out) = 1 + k /\ out[1] = <<0, Dev[msg]>>
      BY <1>3, <1>6, <1>7, <3>1
    <3>3. \A j \in 1..k : out[1 + j] = s[j]
      <4> TAKE j \in 1..k
      <4>1. 1 + j \in 2..(1 + k) /\ (1 + j) - 1 = j
        BY <1>3
      <4>2. \A i \in 2..(1 + k) : out[i] = s[i - 1]
        BY <1>3, <1>6, <1>7, <3>1
      <4> QED
        BY <4>1, <4>2
    <3> QED
      BY <1>6, <2>2, <3>2, <3>3
  <2> QED
    BY <2>1, <2>2
<1>9. file' = [file EXCEPT ![outFD] = Overwrite(f, off, out)] /\ off' = off + Len(out)
      /\ UNCHANGED <<outFD, opens>>
  <2>1. Emit(s)
    BY DEF s
  <2> QED
    BY <2>1 DEF Emit
<1>10. b \in {0, 1}
  OBVIOUS
<1> HIDE DEF out, b, f
<1>11. Result(f, off, b, k, msg, Overwrite(f, off, out))
  BY <1>1, <1>2, <1>4, <1>8, <1>10, OverwriteFacts
<1>12. off' = off + b + k
  BY <1>1, <1>3, <1>8, <1>9, <1>10
<1> QED
  BY <1>9, <1>10, <1>11, <1>12 DEF Written, f

\* The files other than the open one do not change.
LEMMA WrittenFile ==
  ASSUME ShapeInv, pc = "process", NEW b \in {0, 1}, NEW k \in 0..Size[msg], Written(b, k)
  PROVE  /\ Result(file[outFD], off, b, k, msg, file'[outFD])
         /\ \A n \in Names : n # outFD => file'[n] = file[n]
         /\ file' \in [Names -> Seq(Cell)]
<1>1. outFD \in Names /\ file \in [Names -> Seq(Cell)]
  BY DEF ShapeInv, ThreadInv, OutputInv
<1>2. PICK g : /\ Result(file[outFD], off, b, k, msg, g)
               /\ file' = [file EXCEPT ![outFD] = g]
  BY DEF Written
<1>3. g \in Seq(Cell)
  BY <1>2 DEF Result
<1> QED
  BY <1>1, <1>2, <1>3

\* Writing a line never completes a copy of another message: a new copy is one of the
\* message in hand, at the place where it was written.
LEMMA NewCopies ==
  ASSUME ShapeInv, pc = "process", NEW b \in {0, 1}, NEW k \in 0..Size[msg], Written(b, k),
         NEW m \in Msgs, NEW n \in Names, NEW p \in Copies(m, n)', p \notin Copies(m, n)
  PROVE  /\ m = msg /\ n = outFD /\ p = off + b
         /\ off = Len(file[outFD]) => k = Size[msg]
<1> DEFINE f == file[n]
           g == file'[n]
<1>1. Result(file[outFD], off, b, k, msg, file'[outFD])
      /\ \A i \in Names : i # outFD => file'[i] = file[i]
  BY WrittenFile
<1>2. msg \in Msgs /\ off \in Nat /\ f \in Seq(Cell) /\ Len(f) \in Nat
  BY DEF ShapeInv, ThreadInv, OutputInv
<1>3. Size[m] \in Nat /\ Size[m] >= 1 /\ m \in Nat /\ m >= 1 /\ Size[msg] \in Nat /\ k \in Nat
  BY <1>2, MsgsFacts
<1>4. \A j \in 1..Size[m] : Line(m)[j] = <<m, j>>
  BY DEF Line
<1>5. p \in 0..Len(g) - Size[m] /\ \A j \in 1..Size[m] : g[p + j] = <<m, j>>
  BY <1>4 DEF Copies, Line
<1>6. n = outFD
  <2>1. CASE n # outFD
    <3>1. g = f
      BY <1>1, <2>1
    <3> QED
      BY <3>1 DEF Copies, Line
  <2> QED
    BY <2>1
<1>7. g \in Seq(Cell) /\ Len(g) \in Nat
  BY <1>1, <1>6 DEF Result
<1>8. \A j \in 1..Size[m] : p + j \in 1..Len(g)
  BY <1>3, <1>5, <1>7
<1>9. ASSUME NEW j \in 1..Size[m]
      PROVE  \/ p + j \in 1..Len(f) /\ g[p + j] = f[p + j]
             \/ m = msg /\ p = off + b
  <2>1. CASE p + j \in 1..Len(f) /\ (p + j <= off \/ p + j > off + b + k) /\ g[p + j] = f[p + j]
    BY <2>1
  <2>2. CASE g[p + j] \in {0} \X DeviceName
    BY <1>3, <1>5, <2>2
  <2>3. CASE g[p + j] = <<msg, (p + j) - (off + b)>>
    <3>1. msg = m /\ (p + j) - (off + b) = j
      BY <1>5, <2>3
    <3> QED
      BY <1>2, <1>3, <1>5, <1>7, <3>1
  <2> QED
    BY <1>1, <1>6, <1>8, <2>1, <2>2, <2>3 DEF Result
<1>10. m = msg /\ p = off + b
  <2> SUFFICES ASSUME ~(m = msg /\ p = off + b) PROVE FALSE
    OBVIOUS
  <2>1. \A j \in 1..Size[m] : p + j \in 1..Len(f) /\ f[p + j] = <<m, j>>
    BY <1>5, <1>9
  <2>2. p \in 0..Len(f) - Size[m]
    <3>1. Size[m] \in 1..Size[m]
      BY <1>3
    <3>2. p + Size[m] <= Len(f)
      BY <2>1, <3>1
    <3> QED
      BY <1>2, <1>3, <1>5, <1>7, <3>2
  <2> QED
    BY <1>4, <2>1, <2>2 DEF Copies
<1>11. off = Len(file[outFD]) => k = Size[msg]
  <2>1. p + Size[m] <= Len(g)
    BY <1>3, <1>5, <1>7
  <2>2. Len(g) = Len(f) \/ Len(g) = off + b + k
    BY <1>1, <1>6 DEF Result
  <2> QED
    BY <1>2, <1>3, <1>6, <1>7, <1>10, <2>1, <2>2
<1> QED
  BY <1>6, <1>10, <1>11

\* A write at the end of the file leaves all copies there, and makes one of a message
\* that is written in full.
LEMMA CopiesKept ==
  ASSUME ShapeInv, pc = "process", NEW b \in {0, 1}, NEW k \in 0..Size[msg], Written(b, k)
  PROVE  /\ off = Len(file[outFD]) =>
              \A m \in Msgs, n \in Names : Copies(m, n) \subseteq Copies(m, n)'
         /\ \A m \in Msgs, n \in Names :
              m = msg /\ n = outFD /\ k = Size[m] => off + b \in Copies(m, n)'
<1> DEFINE f == file[outFD]
           g == file'[outFD]
<1>1. Result(f, off, b, k, msg, g) /\ \A i \in Names : i # outFD => file'[i] = file[i]
  BY WrittenFile
<1>2. msg \in Msgs /\ off \in Nat /\ outFD \in Names /\ f \in Seq(Cell) /\ Len(f) \in Nat
  BY DEF ShapeInv, ThreadInv, OutputInv
<1>3. g \in Seq(Cell) /\ Len(g) \in Nat /\ Len(g) >= Len(f) /\ Len(g) >= off + b + k
  BY <1>1 DEF Result
<1>4. k \in Nat /\ Size[msg] \in Nat
  BY <1>2, MsgsFacts
<1>5. ASSUME off = Len(f), NEW m \in Msgs, NEW n \in Names, NEW p \in Copies(m, n)
      PROVE  p \in Copies(m, n)'
  <2>1. CASE n # outFD
    <3>1. file'[n] = file[n]
      BY <1>1, <2>1
    <3> QED
      BY <1>5, <3>1 DEF Copies, Line
  <2>2. CASE n = outFD
    <3>1. p \in 0..Len(f) - Size[m] /\ \A j \in 1..Size[m] : f[p + j] = Line(m)[j]
      BY <2>2 DEF Copies
    <3>2. Size[m] \in Nat
      BY MsgsFacts
    <3>3. \A j \in 1..Size[m] : p + j \in 1..Len(f) /\ p + j \in 1..Len(g)
      BY <1>2, <1>3, <3>1, <3>2
    <3>4. \A i \in 1..Len(f) : i \in 1..Len(g) => g[i] = f[i]
      BY <1>1, <1>2, <1>5 DEF Result
    <3>5. \A j \in 1..Size[m] : g[p + j] = Line(m)[j]
      BY <3>1, <3>3, <3>4
    <3>6. p \in 0..Len(g) - Size[m]
      BY <1>2, <1>3, <3>1, <3>2
    <3> QED
      BY <2>2, <3>5, <3>6, <1>2 DEF Copies, Line, Written
  <2> QED
    BY <2>1, <2>2
<1>6. ASSUME NEW m \in Msgs, NEW n \in Names, m = msg, n = outFD, k = Size[m]
      PROVE  off + b \in Copies(m, n)'
  <2>1. \A j \in 1..Size[m] : g[(off + b) + j] = <<m, j>>
    <3> TAKE j \in 1..Size[m]
    <3>1. /\ (off + b) + j \in 1..Len(g) /\ ~((off + b) + j <= off + b)
          /\ (off + b) + j <= off + b + k
          /\ ((off + b) + j) - (off + b) = j
      BY <1>2, <1>3, <1>4, <1>6
    <3>2. ~((off + b) + j <= off) /\ ~((off + b) + j > off + b + k)
      BY <1>2, <1>4, <3>1
    <3> QED
      BY <1>1, <1>6, <3>1, <3>2 DEF Result
  <2>2. off + b \in 0..Len(g) - Size[m]
    BY <1>2, <1>3, <1>4, <1>6
  <2>3. \A j \in 1..Size[m] : Line(m)[j] = <<m, j>>
    BY DEF Line
  <2> QED
    BY <1>6, <2>1, <2>2, <2>3 DEF Copies, Line
<1> QED
  BY <1>5, <1>6

LEMMA NewPlaces ==
  ASSUME ShapeInv, pc = "process", NEW b \in {0, 1}, NEW k \in 0..Size[msg], Written(b, k)
  PROVE  /\ Places(outFD)' \subseteq Places(outFD) \cup (off + b + 1 .. off + b + k)
         /\ \A n \in Names : n # outFD => Places(n)' = Places(n)
<1> DEFINE f == file[outFD]
           g == file'[outFD]
<1>1. Result(f, off, b, k, msg, g) /\ \A i \in Names : i # outFD => file'[i] = file[i]
  BY WrittenFile
<1>2. off \in Nat /\ b \in Nat /\ k \in Nat /\ f \in Seq(Cell) /\ g \in Seq(Cell) /\ UNCHANGED outFD
  <2>1. msg \in Msgs /\ off \in Nat /\ f \in Seq(Cell)
    BY DEF ShapeInv, ThreadInv, OutputInv
  <2>2. k \in Nat
    BY <2>1, MsgsFacts
  <2> QED
    BY <1>1, <2>1, <2>2 DEF Result, Written
<1>3. ASSUME NEW p \in DOMAIN g, g[p][1] # 0
      PROVE  (p \in DOMAIN f /\ f[p][1] # 0) \/ p \in off + b + 1 .. off + b + k
  <2>1. p \in 1..Len(g)
    BY <1>2
  <2>2. CASE p \in 1..Len(f) /\ g[p] = f[p]
    BY <1>2, <1>3, <2>2
  <2>3. CASE g[p] \in {0} \X DeviceName
    BY <1>3, <2>3
  <2>4. CASE p > off + b /\ p <= off + b + k
    BY <1>2, <2>1, <2>4
  <2> QED
    BY <1>1, <2>1, <2>2, <2>3, <2>4 DEF Result
<1> QED
  BY <1>1, <1>2, <1>3 DEF Places

-----------------------------------------------------------------------------
\* The state's shape.

LEMMA SpendFacts ==
  ASSUME UsedInv, NEW e \in Events, Spend(e)
  PROVE  /\ UsedInv'
         /\ used'[e] = used[e] + 1
         /\ \A i \in Keys : i # e => used'[i] = used[i]
         /\ used'["connect"] = used["connect"]
<1>1. Budget \in [Events -> Nat]
  BY LoggerAssumption
<1>2. e \in Keys /\ "connect" \in Keys /\ e # "connect"
  BY DEF Keys, Events
<1>3. used \in [Keys -> Nat] /\ used[e] < Budget[e] /\ used' = [used EXCEPT ![e] = @ + 1]
  BY DEF UsedInv, Spend
<1>4. used' \in [Keys -> Nat] /\ used'[e] = used[e] + 1 /\ \A i \in Keys : i # e => used'[i] = used[i]
  BY <1>2, <1>3
<1>5. \A i \in Events : used'[i] <= Budget[i]
  <2> TAKE i \in Events
  <2>1. CASE i = e
    BY <1>1, <1>2, <1>3, <1>4, <2>1
  <2>2. CASE i # e
    <3>1. i \in Keys
      BY DEF Keys
    <3> QED
      BY <1>4, <2>2, <3>1 DEF UsedInv
  <2> QED
    BY <2>1, <2>2
<1> QED
  BY <1>2, <1>4, <1>5 DEF UsedInv

LEMMA InitShape == Init => Shape
<1> SUFFICES ASSUME Init PROVE Shape
  OBVIOUS
<1>1. /\ RingCap \in Nat \ {0} /\ ErrLimit \in Nat /\ Budget \in [Events -> Nat] /\ NoFile \notin Names
  BY LoggerAssumption
<1>2. LogdInv
  BY <1>1, MsgsFacts DEF Init, LogdInv
<1>3. UsedInv
  <2>1. used = [e \in Keys |-> 0]
    BY DEF Init, Keys
  <2>2. used \in [Keys -> Nat]
    BY <2>1
  <2>3. \A e \in Events : e \in Keys /\ used[e] = 0
    BY <2>1 DEF Keys
  <2> QED
    BY <1>1, <2>2, <2>3 DEF UsedInv
<1>4. ThreadInv
  <2>1. 0 \notin Msgs
    BY MsgsFacts
  <2> QED
    BY <1>1, <2>1 DEF Init, ThreadInv, Pcs
<1>5. file \in [Names -> Seq(Cell)] /\ opens \in [Names -> Nat] /\ \A n \in Names : file[n] = <<>>
  <2>1. <<>> \in Seq(Cell)
    OBVIOUS
  <2> QED
    BY <2>1 DEF Init
<1>6. OutputInv /\ AppendInv
  BY <1>1, <1>5 DEF Init, OutputInv, AppendInv
<1>7. ReaderInv
  BY DEF Init, ReaderInv
<1> QED
  BY <1>2, <1>3, <1>4, <1>6, <1>7 DEF Shape, ShapeInv

LEMMA LogdShape == Shape /\ (Log \/ LogdCrash \/ LogdRestart) => Shape'
<1> SUFFICES ASSUME Shape, Log \/ LogdCrash \/ LogdRestart PROVE Shape'
  OBVIOUS
<1> USE DEF Shape, ShapeInv
<1>1. /\ UNCHANGED <<cursor, pc, msg, errcount, outByteCount, outFD, off, printed, file, opens, dropped>>
      /\ conn' = conn \/ (conn = "open" /\ conn' = "broken")
  BY DEF Log, LogdCrash, LogdRestart, reader, output
<1>2. LogdInv'
  <2>1. RingCap \in Nat \ {0} /\ Cardinality(Msgs) \in Nat /\ Msgs = 1..Cardinality(Msgs)
    BY LoggerAssumption, MsgsFacts
  <2>2. CASE Log
    <3>1. logged' = logged + 1 /\ logged + 1 \in 1..Cardinality(Msgs) /\ up' = up
      BY <2>1, <2>2 DEF Log
    <3>2. base' = IF logged + 1 - base >= RingCap THEN base + 1 ELSE base
      BY <2>2 DEF Log
    <3> QED
      BY <2>1, <3>1, <3>2 DEF LogdInv
  <2>3. CASE LogdCrash
    <3>1. base' = logged + 1 /\ logged' = logged /\ up' = FALSE
      BY <2>3 DEF LogdCrash
    <3>2. logged \in 0..Cardinality(Msgs) /\ logged \in Nat
      BY <2>1 DEF LogdInv
    <3>3. base' \in Nat \ {0} /\ base' <= logged' + 1 /\ logged' + 1 - base' <= RingCap
      BY <2>1, <3>1, <3>2
    <3> QED
      BY <3>1, <3>2, <3>3 DEF LogdInv
  <2>4. CASE LogdRestart
    BY <2>4 DEF LogdRestart, LogdInv
  <2> QED
    BY <2>2, <2>3, <2>4
<1>3. UsedInv' /\ used'["connect"] = used["connect"]
  <2>1. CASE UNCHANGED used
    BY <2>1 DEF UsedInv
  <2>2. CASE Spend("crash")
    BY <2>2, SpendFacts DEF Events
  <2> QED
    BY <2>1, <2>2 DEF Log, LogdCrash, LogdRestart
<1>4. ThreadInv' /\ OutputInv' /\ AppendInv'
  BY <1>1 DEF ThreadInv, OutputInv, AppendInv
<1>5. ReaderInv'
  BY <1>1, <1>3 DEF ReaderInv
<1> QED
  BY <1>2, <1>3, <1>4, <1>5

\* Steps of the thread, of init and of nobody that leave the files alone.
QuietStep ==
  \/ StartService \/ Kill \/ SetFormat \/ SetFormatFails \/ CreateFirstFileFails
  \/ MakeReader \/ MakeReaderFails \/ Connect \/ Read \/ ReadError \/ Redo \/ RotateFails
  \/ UNCHANGED vars

LEMMA QuietUsed ==
  ASSUME UsedInv, QuietStep
  PROVE  UsedInv' /\ used'["connect"] = used["connect"] + (IF Connect THEN 1 ELSE 0)
<1>0. "connect" \in Keys /\ used["connect"] \in Nat
  BY DEF UsedInv, Keys
<1>1. CASE Connect
  <2>1. used' = [used EXCEPT !["connect"] = @ + 1]
    BY <1>1 DEF Connect
  <2>2. used' \in [Keys -> Nat] /\ used'["connect"] = used["connect"] + 1
    BY <1>0, <2>1 DEF UsedInv
  <2>3. \A e \in Events : used'[e] = used[e]
    BY <1>0, <2>1 DEF UsedInv, Keys, Events
  <2> QED
    BY <1>1, <2>2, <2>3 DEF UsedInv
<1>2. CASE ~Connect
  <2>1. UNCHANGED used \/ \E e \in Events : Spend(e)
    BY <1>2 DEF QuietStep, StartService, Kill, SetFormat, SetFormatFails, CreateFirstFileFails,
       MakeReader, MakeReaderFails, Read, ReadError, Redo, RotateFails, vars, Events
  <2>2. CASE UNCHANGED used
    BY <1>0, <1>2, <2>2 DEF UsedInv
  <2>3. CASE \E e \in Events : Spend(e)
    BY <1>0, <1>2, <2>3, SpendFacts
  <2> QED
    BY <2>1, <2>2, <2>3
<1> QED
  BY <1>1, <1>2

LEMMA QuietShape == Shape /\ QuietStep => Shape'
<1> SUFFICES ASSUME Shape, QuietStep PROVE Shape'
  OBVIOUS
<1> USE DEF Shape, ShapeInv
<1>1. UNCHANGED <<base, logged, up, file, opens>>
  BY DEF QuietStep, StartService, Kill, SetFormat, SetFormatFails, CreateFirstFileFails,
     MakeReader, MakeReaderFails, Connect, Read, ReadError, Redo, RotateFails, vars, logd, output
<1>2. UsedInv' /\ used'["connect"] = used["connect"] + (IF Connect THEN 1 ELSE 0)
  BY QuietUsed
<1>3. LogdInv'
  BY <1>1 DEF LogdInv
<1>4. \A m \in Msgs : m \in Nat /\ m >= 1
  BY MsgsFacts
<1>5. \A m \in Pending : m \in Msgs
  <2>1. Cardinality(Msgs) \in Nat /\ Msgs = 1..Cardinality(Msgs)
    BY MsgsFacts
  <2> QED
    BY <2>1 DEF LogdInv, Pending
<1>6. ErrLimit \in Nat
  BY LoggerAssumption
<1>7. ThreadInv'
  <2>1. CASE StartService \/ Kill
    BY <1>4, <2>1 DEF ThreadInv, StartService, Kill, reader, Pcs
  <2>2. CASE SetFormat \/ SetFormatFails \/ CreateFirstFileFails \/ MakeReaderFails \/ Redo \/ RotateFails
    BY <1>4, <2>2 DEF ThreadInv, SetFormat, SetFormatFails, CreateFirstFileFails,
       MakeReaderFails, Redo, RotateFails, reader, Pcs
  <2>3. CASE MakeReader
    BY <1>6, <2>3 DEF ThreadInv, MakeReader, Pcs
  <2>4. CASE Connect
    BY <2>4 DEF ThreadInv, Connect, StreamStart, LogdInv, Pcs
  <2>5. CASE Read
    <3>1. PICK m \in Pending : msg' = m /\ cursor' = m + 1
      BY <2>5 DEF Read
    <3>2. m \in Msgs /\ m \in Nat /\ m >= 1
      BY <1>4, <1>5
    <3>3. cursor' \in Nat \ {0} /\ msg' \in Msgs /\ msg' # 0
      BY <3>1, <3>2
    <3> QED
      BY <1>6, <2>5, <3>3 DEF ThreadInv, Read, Pcs
  <2>6. CASE ReadError
    BY <1>6, <2>6 DEF ThreadInv, ReadError, reader
  <2>7. CASE UNCHANGED vars
    BY <2>7 DEF ThreadInv, vars, reader
  <2> QED
    BY <2>1, <2>2, <2>3, <2>4, <2>5, <2>6, <2>7 DEF QuietStep
<1>8. OutputInv' /\ AppendInv'
  <2>1. NoFile \notin Names
    BY LoggerAssumption
  <2>2. CASE StartService
    BY <1>1, <2>1, <2>2 DEF StartService, OutputInv, AppendInv
  <2>3. CASE ~StartService
    <3>1. UNCHANGED <<outFD, off>>
      BY <2>3 DEF QuietStep, Kill, SetFormat, SetFormatFails, CreateFirstFileFails,
         MakeReader, MakeReaderFails, Connect, Read, ReadError, Redo, RotateFails, vars, output
    <3>2. outFD = NoFile => pc' \in {"down", "format", "create", "dead"}
      BY <2>3 DEF OutputInv, QuietStep, Kill, SetFormat, SetFormatFails, CreateFirstFileFails,
         MakeReader, MakeReaderFails, Connect, Read, ReadError, Redo, RotateFails, vars
    <3> QED
      BY <1>1, <3>1, <3>2 DEF OutputInv, AppendInv
  <2> QED
    BY <2>2, <2>3
<1>9. ReaderInv'
  <2>0. used["connect"] \in Nat
    BY DEF UsedInv, Keys
  <2>1. CASE StartService \/ MakeReader
    BY <2>1 DEF ReaderInv, StartService, MakeReader
  <2>2. CASE Connect
    BY <1>2, <2>0, <2>2 DEF ReaderInv, Connect
  <2>3. CASE Read
    <3>1. cursor' = msg' + 1 /\ conn' = conn /\ conn = "open" /\ outByteCount' = outByteCount
      BY <2>3 DEF Read
    <3> QED
      BY <1>2, <2>0, <2>3, <3>1 DEF ReaderInv
  <2>4. CASE ~(StartService \/ MakeReader \/ Connect \/ Read)
    <3>1. /\ UNCHANGED <<conn, cursor, outByteCount>>
          /\ pc' \in {"process", "rotate"} => pc' = pc /\ msg' = msg
      BY <2>4 DEF QuietStep, Kill, SetFormat, SetFormatFails, CreateFirstFileFails,
         MakeReaderFails, ReadError, Redo, RotateFails, vars, reader
    <3> QED
      BY <1>2, <2>0, <2>4, <3>1 DEF ReaderInv
  <2> QED
    BY <2>1, <2>2, <2>3, <2>4
<1> QED
  BY <1>2, <1>3, <1>7, <1>8, <1>9

\* createLogFile: a name is taken, one that was not used before with NewSeconds.
LEMMA OpenFacts ==
  ASSUME OutputInv, OpenFile
  PROVE  /\ outFD' \in Names /\ off' = 0
         /\ opens'[outFD'] = opens[outFD'] + 1
         /\ \A n \in Names : n # outFD' => opens'[n] = opens[n]
         /\ opens' \in [Names -> Nat]
         /\ file' = file
         /\ NewSeconds => opens[outFD'] = 0
<1>1. PICK n \in NamesNow : /\ outFD' = n /\ off' = 0
                            /\ opens' = [opens EXCEPT ![n] = @ + 1]
                            /\ file' = file
  BY DEF OpenFile
<1>2. n \in Names /\ (NewSeconds => opens[n] = 0)
  BY DEF NamesNow
<1> QED
  BY <1>1, <1>2 DEF OutputInv

OpenStep == CreateFirstFile \/ Rotate

LEMMA OpenShape == Shape /\ OpenStep => Shape'
<1> SUFFICES ASSUME Shape, OpenStep PROVE Shape'
  OBVIOUS
<1> USE DEF Shape, ShapeInv
<1>1. /\ UNCHANGED <<base, logged, up, conn, cursor, msg, errcount, dropped, used>>
      /\ OpenFile
      /\ \/ pc = "create" /\ pc' = "repeat" /\ outByteCount' = outByteCount
         \/ pc = "rotate" /\ pc' = "read" /\ outByteCount' = 0
  BY DEF OpenStep, CreateFirstFile, Rotate, logd, reader
<1>2. LogdInv' /\ UsedInv'
  BY <1>1 DEF LogdInv, UsedInv
<1>3. ThreadInv'
  BY <1>1 DEF ThreadInv, Pcs
<1>4. /\ outFD' \in Names /\ off' = 0 /\ file' = file
      /\ opens'[outFD'] = opens[outFD'] + 1 /\ opens' \in [Names -> Nat]
      /\ \A n \in Names : n # outFD' => opens'[n] = opens[n]
  BY <1>1, OpenFacts
<1>5. outFD' # NoFile
  BY <1>4, LoggerAssumption
<1>6. file[outFD'] \in Seq(Cell) /\ opens[outFD'] \in Nat
  BY <1>4 DEF OutputInv
<1>7. OutputInv'
  BY <1>4, <1>5, <1>6 DEF OutputInv
<1>8. AppendInv'
  <2>1. ASSUME NEW n \in Names, opens'[n] = 0 PROVE file'[n] = <<>>
    BY <1>4, <1>6, <2>1 DEF AppendInv
  <2>2. opens'[outFD'] <= 1 => file[outFD'] = <<>>
    BY <1>4, <1>6 DEF AppendInv
  <2>3. Len(<<>>) = 0
    OBVIOUS
  <2> QED
    BY <1>4, <1>6, <2>1, <2>2, <2>3 DEF AppendInv
<1>9. ReaderInv'
  BY <1>1 DEF ReaderInv
<1> QED
  BY <1>2, <1>3, <1>7, <1>8, <1>9

\* A message is processed: k of its bytes are written and counted, all of them or
\* the message is dropped.
Processed(b, k) ==
  /\ pc = "process"
  /\ Written(b, k)
  /\ msg' = 0
  /\ outByteCount' = outByteCount + k
  /\ \/ k = Size[msg] /\ dropped' = dropped
     \/ k < Size[msg] /\ dropped' = dropped \cup {msg}
  /\ pc' \in {"read", "rotate"}
  /\ MaxLogSize # 0 /\ pc' = "read" => k = 0 \/ outByteCount' < MaxLogSize
  /\ UNCHANGED <<base, logged, up, conn, cursor, errcount>>
  /\ UsedInv'
  /\ used'["connect"] = used["connect"] /\ used'["rotate"] = used["rotate"]

ProcessStep == Process \/ ProcessShort \/ ProcessFails

LEMMA ProcessFacts ==
  ASSUME ShapeInv, ProcessStep
  PROVE  \E b \in {0, 1}, k \in 0..Size[msg] : Processed(b, k)
<1>1. pc = "process" /\ msg \in Msgs
  BY DEF ProcessStep, Process, ProcessShort, ProcessFails, ShapeInv, ThreadInv
<1>2. Size[msg] \in Nat /\ Size[msg] >= 1 /\ outByteCount \in Nat /\ MaxLogSize \in Nat
  BY <1>1, MsgsFacts, LoggerAssumption DEF ShapeInv, ThreadInv
<1>3. Line(msg) = SubSeq(Line(msg), 1, Size[msg]) /\ <<>> = SubSeq(Line(msg), 1, 0)
  <2>1. Line(msg) \in Seq({<<msg, j>> : j \in 1..Size[msg]}) /\ Len(Line(msg)) = Size[msg]
    BY <1>2 DEF Line
  <2> QED
    BY <1>2, <2>1
<1>4. \A k \in 0..Size[msg] : Emit(SubSeq(Line(msg), 1, k)) => \E b \in {0, 1} : Written(b, k)
  BY <1>1, EmitFacts
<1>5. CASE Process
  <2>1. PICK b \in {0, 1} : Written(b, Size[msg])
    <3>1. Size[msg] \in 0..Size[msg]
      BY <1>2
    <3> QED
      BY <1>3, <1>4, <1>5, <3>1 DEF Process
  <2>2. UNCHANGED used /\ UsedInv'
    BY <1>5 DEF Process, ShapeInv, UsedInv
  <2>3. Processed(b, Size[msg])
    BY <1>1, <1>2, <1>5, <2>1, <2>2 DEF Processed, Process, AfterMessage, logd, reader
  <2> QED
    BY <1>2, <2>3
<1>6. \A e \in Events : UsedInv /\ Spend(e) =>
        UsedInv' /\ used'["connect"] = used["connect"] /\ (e # "rotate" => used'["rotate"] = used["rotate"])
  BY SpendFacts DEF Keys, Events
<1>7. ProcessShort \/ ProcessFails =>
        UsedInv' /\ used'["connect"] = used["connect"] /\ used'["rotate"] = used["rotate"]
  BY <1>6 DEF ProcessShort, ProcessFails, ShapeInv, Events
<1>8. CASE ProcessShort
  <2>1. PICK k \in 0..Size[msg] - 1 : Emit(SubSeq(Line(msg), 1, k)) /\ AfterMessage(outByteCount + k)
    BY <1>8 DEF ProcessShort
  <2>2. k \in 0..Size[msg] /\ k < Size[msg]
    BY <1>2
  <2>3. PICK b \in {0, 1} : Written(b, k)
    BY <1>4, <2>1, <2>2
  <2>4. Processed(b, k)
    BY <1>1, <1>2, <1>7, <1>8, <2>1, <2>2, <2>3 DEF Processed, ProcessShort, AfterMessage, logd, reader
  <2> QED
    BY <2>2, <2>4
<1>9. CASE ProcessFails
  <2>1. PICK b \in {0, 1} : Written(b, 0)
    <3>1. 0 \in 0..Size[msg]
      BY <1>2
    <3> QED
      BY <1>3, <1>4, <1>9, <3>1 DEF ProcessFails
  <2>2. Processed(b, 0)
    BY <1>1, <1>2, <1>7, <1>9, <2>1 DEF Processed, ProcessFails, logd, reader
  <2> QED
    BY <1>2, <2>2
<1> QED
  BY <1>5, <1>8, <1>9 DEF ProcessStep

LEMMA ProcessShape ==
  ASSUME Shape, NEW b \in {0, 1}, NEW k \in 0..Size[msg], Processed(b, k)
  PROVE  Shape'
<1> USE DEF Shape, ShapeInv
<1>1. pc = "process" /\ msg \in Msgs /\ Written(b, k)
  BY DEF Processed, ThreadInv
<1>2. Size[msg] \in Nat /\ outByteCount \in Nat /\ k \in Nat /\ off \in Nat
  BY <1>1, MsgsFacts DEF ThreadInv, OutputInv
<1>3. /\ Result(file[outFD], off, b, k, msg, file'[outFD])
      /\ \A n \in Names : n # outFD => file'[n] = file[n]
      /\ file' \in [Names -> Seq(Cell)]
  BY <1>1, WrittenFile
<1>4. off' = off + b + k /\ UNCHANGED <<outFD, opens>> /\ outFD \in Names /\ outFD # NoFile
  BY <1>1 DEF Written, OutputInv
<1>5. file[outFD] \in Seq(Cell) /\ file'[outFD] \in Seq(Cell)
  BY <1>3, <1>4 DEF OutputInv
<1>6. LogdInv' /\ UsedInv'
  BY DEF Processed, LogdInv
<1>7. ThreadInv'
  <2>1. outByteCount' \in Nat
    BY <1>2 DEF Processed
  <2>2. dropped' \subseteq Msgs
    BY <1>1 DEF Processed, ThreadInv
  <2>3. msg' = 0 /\ pc' \in {"read", "rotate"} /\ UNCHANGED <<conn, cursor, errcount>>
    BY DEF Processed
  <2> QED
    BY <2>1, <2>2, <2>3 DEF ThreadInv, Pcs
<1>8. OutputInv'
  <2>1. off' <= Len(file'[outFD])
    BY <1>3, <1>4 DEF Result
  <2>2. off' \in Nat
    BY <1>2, <1>4
  <2> QED
    BY <1>3, <1>4, <2>1, <2>2 DEF OutputInv
<1>9. AppendInv'
  <2>1. opens[outFD] >= 1 /\ opens[outFD] \in Nat
    BY <1>4 DEF AppendInv, OutputInv
  <2>2. \A n \in Names : opens[n] = 0 => file'[n] = <<>>
    <3> TAKE n \in Names
    <3>1. CASE n = outFD
      BY <2>1, <3>1
    <3>2. CASE n # outFD
      BY <1>3, <3>2 DEF AppendInv
    <3> QED
      BY <3>1, <3>2
  <2>3. opens[outFD] <= 1 => off' = Len(file'[outFD])
    <3>1. SUFFICES ASSUME off = Len(file[outFD]) PROVE off' = Len(file'[outFD])
      BY <1>4 DEF AppendInv
    <3>2. Len(file'[outFD]) >= off + b + k
          /\ (Len(file'[outFD]) = off \/ Len(file'[outFD]) = off + b + k)
      BY <1>3, <3>1 DEF Result
    <3> QED
      BY <1>2, <1>4, <3>2
  <2> QED
    BY <1>4, <2>1, <2>2, <2>3 DEF AppendInv
<1>10. ReaderInv'
  BY DEF ReaderInv, Processed
<1> QED
  BY <1>6, <1>7, <1>8, <1>9, <1>10

\* The steps of Next, by what they do to the files.
LEMMA Steps ==
  ASSUME ShapeInv, [Next]_vars
  PROVE  \/ Log \/ LogdCrash \/ LogdRestart \/ QuietStep \/ OpenStep
         \/ \E b \in {0, 1}, k \in 0..Size[msg] : Processed(b, k)
<1>1. ProcessStep => \E b \in {0, 1}, k \in 0..Size[msg] : Processed(b, k)
  BY ProcessFacts
<1> QED
  BY <1>1 DEF Next, Thread, Environment, QuietStep, OpenStep, ProcessStep

LEMMA NextShape == Shape /\ [Next]_vars => Shape'
BY Steps, LogdShape, QuietShape, OpenShape, ProcessShape DEF Shape

\* The counters and offsets fit the files and the places of the thread.
THEOREM ShapeCorrect == Spec => []Shape
BY InitShape, NextShape, PTL DEF Spec

\* See TypeOK.
THEOREM LoggerTypes == Spec => []TypeOK
<1>1. Shape => TypeOK
  <2> SUFFICES ASSUME Shape PROVE TypeOK
    OBVIOUS
  <2>1. Cardinality(Msgs) \in Nat
    BY MsgsFacts
  <2>2. base \in Nat /\ logged \in Nat /\ base <= logged + 1 /\ logged + 1 - base <= RingCap
        /\ up \in BOOLEAN
    BY <2>1 DEF Shape, ShapeInv, LogdInv
  <2> QED
    BY <2>2 DEF Shape, ShapeInv, ThreadInv, OutputInv, UsedInv, TypeOK, Pcs
<1> QED
  BY <1>1, ShapeCorrect, PTL

-----------------------------------------------------------------------------
\* How often a message is saved.

LEMMA OwedFacts == \A m \in Msgs : Owed(m) \in {0, 1} /\ Owed(m)' \in {0, 1}
BY DEF Owed

LEMMA InitCopies == Init => CopyInv
<1> SUFFICES ASSUME Init, NEW m \in Msgs
             PROVE  IsFiniteSet(AllCopies(m)) /\ Cardinality(AllCopies(m)) + Owed(m) <= used["connect"]
  BY DEF CopyInv
<1>1. AllCopies(m) = {}
  <2>1. ASSUME NEW n \in Names PROVE Copies(m, n) = {}
    <3>1. file[n] = <<>> /\ Len(<<>>) = 0
      BY DEF Init
    <3>2. Size[m] \in Nat /\ Size[m] >= 1
      BY MsgsFacts
    <3>3. 0..Len(file[n]) - Size[m] = {}
      BY <3>1, <3>2
    <3> QED
      BY <3>3 DEF Copies
  <2> QED
    BY <2>1 DEF AllCopies
<1>2. used["connect"] = 0
  BY DEF Init
<1>3. Owed(m) = 0
  <2>1. m # 0
    BY MsgsFacts
  <2> QED
    BY <2>1 DEF Owed, Init
<1>4. IsFiniteSet(AllCopies(m)) /\ Cardinality(AllCopies(m)) = 0
  BY <1>1, FS_EmptySet
<1> QED
  BY <1>2, <1>3, <1>4

\* Steps that write nothing owe nothing new, except by a new connection.
LEMMA QuietCopies ==
  ASSUME Shape, CopyInv, Log \/ LogdCrash \/ LogdRestart \/ QuietStep \/ OpenStep
  PROVE  CopyInv'
<1>1. file' = file
  BY DEF Log, LogdCrash, LogdRestart, QuietStep, StartService, Kill, SetFormat, SetFormatFails,
     CreateFirstFileFails, MakeReader, MakeReaderFails, Connect, Read, ReadError, Redo, RotateFails,
     vars, output, OpenStep, CreateFirstFile, Rotate, OpenFile
<1>2. \A m \in Msgs : m \in Nat /\ m >= 1
  BY MsgsFacts
<1>3. cursor \in Nat /\ used["connect"] \in Nat /\ base \in Nat
  BY DEF Shape, ShapeInv, ThreadInv, UsedInv, LogdInv, Keys
<1>4. ASSUME NEW m \in Msgs
      PROVE  Owed(m)' + used["connect"] <= Owed(m) + used'["connect"]
  <2>0. Owed(m) \in {0, 1} /\ Owed(m)' \in {0, 1}
    BY OwedFacts
  <2>1. CASE Connect
    <3>1. QuietStep
      BY <2>1 DEF QuietStep
    <3>2. used'["connect"] = used["connect"] + 1
      BY <2>1, <3>1, QuietUsed DEF Shape, ShapeInv
    <3> QED
      BY <1>3, <2>0, <3>2
  <2>2. CASE Read
    <3>1. PICK r \in Pending : msg' = r /\ cursor' = r + 1
      BY <2>2 DEF Read
    <3>2. conn = "open" /\ r >= cursor /\ r \in Nat
      BY <1>3, <2>2, <3>1 DEF Read, Pending, Shape, ShapeInv, LogdInv
    <3>3. Owed(m)' = 1 => Owed(m) = 1
      BY <1>2, <1>3, <3>1, <3>2 DEF Owed
    <3>4. used' = used
      BY <2>2 DEF Read
    <3> QED
      BY <1>3, <2>0, <3>3, <3>4
  <2>3. CASE ~(Connect \/ Read)
    <3>1. UNCHANGED cursor /\ conn' \in {conn, "new", "broken"} /\ msg' \in {msg, 0}
      BY <2>3 DEF Log, LogdCrash, LogdRestart, QuietStep, StartService, Kill, SetFormat, SetFormatFails,
         CreateFirstFileFails, MakeReader, MakeReaderFails, ReadError, Redo, RotateFails,
         vars, reader, OpenStep, CreateFirstFile, Rotate
    <3>2. Owed(m)' = 1 => Owed(m) = 1
      BY <1>2, <3>1 DEF Owed
    <3>3. used'["connect"] = used["connect"]
      <4>1. CASE QuietStep
        BY <1>3, <2>3, <4>1, QuietUsed DEF Shape, ShapeInv
      <4>2. CASE LogdCrash
        BY <4>2, SpendFacts DEF LogdCrash, Shape, ShapeInv, Events
      <4>3. CASE Log \/ LogdRestart \/ OpenStep
        BY <4>3 DEF Log, LogdRestart, OpenStep, CreateFirstFile, Rotate
      <4> QED
        BY <4>1, <4>2, <4>3
    <3> QED
      BY <1>3, <2>0, <3>2, <3>3
  <2> QED
    BY <2>1, <2>2, <2>3
<1>5. used'["connect"] \in Nat
  <2>1. Shape'
    BY LogdShape, QuietShape, OpenShape
  <2> QED
    BY <2>1 DEF Shape, ShapeInv, UsedInv, Keys
<1>6. ASSUME NEW m \in Msgs
      PROVE  /\ IsFiniteSet(AllCopies(m))'
             /\ Cardinality(AllCopies(m))' + Owed(m)' <= used'["connect"]
  <2>1. AllCopies(m)' = AllCopies(m)
    BY <1>1 DEF AllCopies, Copies, Line
  <2>2. IsFiniteSet(AllCopies(m)) /\ Cardinality(AllCopies(m)) + Owed(m) <= used["connect"]
    BY DEF CopyInv
  <2>3. Cardinality(AllCopies(m)) \in Nat
    BY <2>2, FS_CardinalityType
  <2>4. Owed(m) \in {0, 1} /\ Owed(m)' \in {0, 1}
    BY OwedFacts
  <2>5. Owed(m)' + used["connect"] <= Owed(m) + used'["connect"]
    BY <1>4
  <2>6. Cardinality(AllCopies(m)) + Owed(m)' <= used'["connect"]
    BY <1>3, <1>5, <2>2, <2>3, <2>4, <2>5
  <2> QED
    BY <2>1, <2>2, <2>6
<1> QED
  BY <1>6 DEF CopyInv

\* A message that is processed was owed one copy, and gets one at most.
LEMMA ProcessCopies ==
  ASSUME Shape, CopyInv, NEW b \in {0, 1}, NEW k \in 0..Size[msg], Processed(b, k)
  PROVE  CopyInv'
<1> SUFFICES ASSUME NEW m \in Msgs
             PROVE  /\ IsFiniteSet(AllCopies(m)')
                    /\ Cardinality(AllCopies(m)') + Owed(m)' <= used'["connect"]
  BY DEF CopyInv
<1>1. ShapeInv /\ pc = "process" /\ Written(b, k)
  BY DEF Shape, Processed
<1>2. IsFiniteSet(AllCopies(m)) /\ Cardinality(AllCopies(m)) + Owed(m) <= used["connect"]
  BY DEF CopyInv
<1>3. Cardinality(AllCopies(m)) \in Nat /\ used["connect"] \in Nat /\ used'["connect"] = used["connect"]
  BY <1>1, <1>2, FS_CardinalityType DEF Processed, ShapeInv, UsedInv, Keys
<1>4. msg' = 0 /\ UNCHANGED <<conn, cursor>> /\ m # 0
  BY MsgsFacts DEF Processed
<1>5. Owed(m)' = 1 => Owed(m) = 1
  BY <1>4 DEF Owed
<1>6. Owed(m) \in {0, 1} /\ Owed(m)' \in {0, 1}
  BY OwedFacts
<1>7. CASE m # msg
  <2>1. AllCopies(m)' \subseteq AllCopies(m)
    BY <1>1, <1>7, NewCopies DEF AllCopies
  <2>2. IsFiniteSet(AllCopies(m)') /\ Cardinality(AllCopies(m)') <= Cardinality(AllCopies(m))
    BY <1>2, <2>1, FS_Subset
  <2>3. Cardinality(AllCopies(m)') \in Nat
    BY <2>2, FS_CardinalityType
  <2> QED
    BY <1>2, <1>3, <1>5, <1>6, <2>2, <2>3
<1>8. CASE m = msg
  <2>1. AllCopies(m)' \subseteq AllCopies(m) \cup {<<outFD, off + b>>}
    BY <1>1, <1>8, NewCopies DEF AllCopies
  <2>2. /\ IsFiniteSet(AllCopies(m) \cup {<<outFD, off + b>>})
        /\ Cardinality(AllCopies(m) \cup {<<outFD, off + b>>}) <= Cardinality(AllCopies(m)) + 1
    <3> DEFINE S == AllCopies(m)
               c == <<outFD, off + b>>
    <3> HIDE DEF S, c
    <3>1. IsFiniteSet(S) /\ Cardinality(S) \in Nat
      BY <1>2, <1>3 DEF S
    <3>2. IsFiniteSet(S \cup {c})
          /\ Cardinality(S \cup {c}) = IF c \in S THEN Cardinality(S) ELSE Cardinality(S) + 1
      BY <3>1, FS_AddElement
    <3>3. Cardinality(S \cup {c}) <= Cardinality(S) + 1
      BY <3>1, <3>2
    <3> QED
      BY <3>2, <3>3 DEF S, c
  <2>3. /\ IsFiniteSet(AllCopies(m)')
        /\ Cardinality(AllCopies(m)') <= Cardinality(AllCopies(m) \cup {<<outFD, off + b>>})
    BY <2>1, <2>2, FS_Subset
  <2>4. Cardinality(AllCopies(m)') \in Nat /\ Cardinality(AllCopies(m) \cup {<<outFD, off + b>>}) \in Nat
    BY <2>2, <2>3, FS_CardinalityType
  <2>5. Owed(m) = 1 /\ Owed(m)' = 0
    <3>1. cursor = msg + 1 /\ msg \in Nat
      BY <1>1, <1>8, MsgsFacts DEF Shape, ReaderInv
    <3>2. ~(m >= cursor)
      BY <1>8, <3>1
    <3> QED
      BY <1>4, <1>8, <3>2 DEF Owed
  <2> QED
    BY <1>2, <1>3, <2>2, <2>3, <2>4, <2>5
<1> QED
  BY <1>7, <1>8

\* A message is saved at most once for each connection, see CopiesBounded.
THEOREM CopiesLimited == Spec => []CopiesBounded
<1>1. Shape /\ CopyInv /\ [Next]_vars => CopyInv'
  BY Steps, QuietCopies, ProcessCopies DEF Shape
<1>2. Shape /\ CopyInv => CopiesBounded
  <2> SUFFICES ASSUME Shape, CopyInv, NEW m \in Msgs
               PROVE  Cardinality(UNION {{<<n, p>> : p \in Copies(m, n)} : n \in Names}) <= used["connect"]
    BY DEF CopiesBounded
  <2>1. IsFiniteSet(AllCopies(m)) /\ Cardinality(AllCopies(m)) + Owed(m) <= used["connect"]
    BY DEF CopyInv
  <2>2. Cardinality(AllCopies(m)) \in Nat /\ used["connect"] \in Nat
    BY <2>1, FS_CardinalityType DEF Shape, ShapeInv, UsedInv, Keys
  <2>3. Cardinality(AllCopies(m)) <= used["connect"]
    BY <2>1, <2>2, OwedFacts
  <2> QED
    BY <2>3 DEF AllCopies
<1> QED
  BY <1>1, <1>2, InitCopies, ShapeCorrect, PTL DEF Spec

-----------------------------------------------------------------------------
\* No message is skipped.

LEMMA ReusedStays == Shape /\ [Next]_vars /\ Reused => Reused'
<1> SUFFICES ASSUME Shape, [Next]_vars, Reused PROVE Reused'
  OBVIOUS
<1>1. PICK n \in Names : opens[n] > 1
  BY DEF Reused
<1>2. opens[n] \in Nat
  BY DEF Shape, ShapeInv, OutputInv
<1>3. CASE OpenStep
  <2>1. OpenFile
    BY <1>3 DEF OpenStep, CreateFirstFile, Rotate
  <2>2. opens'[n] = opens[n] \/ opens'[n] = opens[n] + 1
    BY <2>1, OpenFacts DEF Shape, ShapeInv
  <2> QED
    BY <1>1, <1>2, <2>2 DEF Reused
<1>4. CASE ~OpenStep
  <2>1. opens' = opens
    BY <1>4, Steps DEF Shape, Log, LogdCrash, LogdRestart, QuietStep, StartService, Kill, SetFormat,
       SetFormatFails, CreateFirstFileFails, MakeReader, MakeReaderFails, Connect, Read, ReadError,
       Redo, RotateFails, vars, output, Processed, Written
  <2> QED
    BY <1>1, <2>1 DEF Reused
<1> QED
  BY <1>3, <1>4

\* Without a name used twice all writes are at the end of a file.
LEMMA AtEnd ==
  ASSUME Shape, ~Reused, outFD \in Names
  PROVE  off = Len(file[outFD])
<1>1. opens[outFD] \in Nat /\ ~(opens[outFD] > 1)
  BY DEF Shape, ShapeInv, OutputInv, Reused
<1> QED
  BY <1>1 DEF Shape, AppendInv

LEMMA FilesStay ==
  ASSUME file' = file
  PROVE  \A m \in Msgs : OnDisk(m)' = OnDisk(m)
BY DEF OnDisk, Copies, Line

\* Processing a message with all writes at the end saves just this message, if it is
\* written in full.
LEMMA ProcessSaves ==
  ASSUME Shape, ~Reused, NEW b \in {0, 1}, NEW k \in 0..Size[msg], Processed(b, k),
         NEW m \in Msgs
  PROVE  OnDisk(m)' <=> OnDisk(m) \/ (m = msg /\ k = Size[msg])
<1>1. ShapeInv /\ pc = "process" /\ Written(b, k) /\ outFD \in Names
  BY DEF Shape, ShapeInv, OutputInv, Processed
<1>2. off = Len(file[outFD])
  BY <1>1, AtEnd
<1>3. ASSUME OnDisk(m)', ~OnDisk(m) PROVE m = msg /\ k = Size[msg]
  <2>1. PICK n \in Names : \E p : p \in Copies(m, n)'
    BY <1>3 DEF OnDisk
  <2>2. PICK p : p \in Copies(m, n)'
    BY <2>1
  <2>3. p \notin Copies(m, n)
    BY <1>3 DEF OnDisk
  <2> QED
    BY <1>1, <1>2, <2>2, <2>3, NewCopies
<1>4. ASSUME OnDisk(m) PROVE OnDisk(m)'
  <2>1. PICK n \in Names : Copies(m, n) # {}
    BY <1>4 DEF OnDisk
  <2>2. Copies(m, n) \subseteq Copies(m, n)'
    BY <1>1, <1>2, CopiesKept
  <2> QED
    BY <2>1, <2>2 DEF OnDisk
<1>5. ASSUME m = msg, k = Size[msg] PROVE OnDisk(m)'
  <2>1. \E n \in Names : off + b \in Copies(m, n)'
    BY <1>1, <1>5, CopiesKept
  <2> QED
    BY <2>1 DEF OnDisk
<1> QED
  BY <1>3, <1>4, <1>5

LEMMA InitSkip == Init => NothingSkipped
BY DEF Init, NothingSkipped

LEMMA QuietSkip ==
  ASSUME Shape, NothingSkipped, Log \/ LogdCrash \/ LogdRestart \/ QuietStep \/ OpenStep,
         ~Reused, conn' = "open"
  PROVE  \A m \in base'..cursor' - 1 :
           Dev[m] \in DeviceList => m = msg' \/ m \in dropped' \/ OnDisk(m)' \/ pc' = "down"
<1>1. file' = file /\ dropped' = dropped
  BY DEF Log, LogdCrash, LogdRestart, QuietStep, StartService, Kill, SetFormat, SetFormatFails,
     CreateFirstFileFails, MakeReader, MakeReaderFails, Connect, Read, ReadError, Redo, RotateFails,
     vars, output, OpenStep, CreateFirstFile, Rotate, OpenFile
<1>2. /\ base \in Nat /\ base >= 1 /\ logged \in Nat /\ cursor \in Nat
      /\ base \in Int /\ 1..logged \subseteq Msgs
  BY MsgsFacts DEF Shape, ShapeInv, LogdInv, ThreadInv
<1>3. \A m : m \in Msgs => OnDisk(m)' = OnDisk(m)
  BY <1>1, FilesStay
<1>4. CASE Connect
  <2>1. base' = base /\ cursor' = base
    BY <1>4 DEF Connect, logd, StreamStart
  <2> QED
    BY <1>2, <2>1
<1>5. CASE Read
  <2>1. PICK r \in Pending : (\A i \in Pending : r <= i) /\ msg' = r /\ cursor' = r + 1
    BY <1>5 DEF Read
  <2>2. r \in Nat /\ r \in base..logged /\ base' = base /\ conn = "open" /\ msg = 0
    BY <1>2, <1>5, <2>1 DEF Pending, Read, logd, Shape, ShapeInv, ThreadInv
  <2>3. ASSUME NEW m \in base..r, Dev[m] \in DeviceList, m # r
        PROVE  m \in dropped \/ OnDisk(m)'
    <3>1. m \in base..logged /\ m \in Msgs /\ m \in Int /\ m < r
      BY <1>2, <2>2, <2>3
    <3>2. m < cursor
      BY <1>2, <2>1, <2>3, <3>1 DEF Pending
    <3>3. m \in base..cursor - 1 /\ m # 0 /\ pc # "down"
      BY <1>2, <1>5, <3>1, <3>2 DEF Read
    <3>4. m \in dropped \/ OnDisk(m)
      BY <2>2, <2>3, <3>3 DEF NothingSkipped
    <3> QED
      BY <1>3, <3>1, <3>4
  <2>4. base'..cursor' - 1 = base..r
    BY <1>2, <2>1, <2>2
  <2> QED
    BY <1>1, <2>1, <2>3, <2>4
<1>6. CASE ~(Connect \/ Read)
  <2>1. conn = "open" /\ cursor' = cursor /\ base' >= base /\ base' \in Nat
    BY <1>2, <1>6 DEF Log, LogdCrash, LogdRestart, QuietStep, StartService, Kill, SetFormat,
       SetFormatFails, CreateFirstFileFails, MakeReader, MakeReaderFails, ReadError, Redo, RotateFails,
       vars, logd, reader, OpenStep, CreateFirstFile, Rotate
  <2>2. (msg' = msg \/ pc' = "down") /\ (pc = "down" => pc' = "down")
    BY <1>6, <2>1 DEF Log, LogdCrash, LogdRestart, QuietStep, StartService, Kill, SetFormat,
       SetFormatFails, CreateFirstFileFails, MakeReader, MakeReaderFails, ReadError, Redo, RotateFails,
       vars, OpenStep, CreateFirstFile, Rotate
  <2>3. ASSUME NEW m \in base'..cursor' - 1, Dev[m] \in DeviceList
        PROVE  m = msg' \/ m \in dropped' \/ OnDisk(m)' \/ pc' = "down"
    <3>1. m \in base..cursor - 1
      BY <1>2, <2>1, <2>3
    <3>2. m = msg \/ m \in dropped \/ OnDisk(m) \/ pc = "down"
      BY <2>1, <2>3, <3>1 DEF NothingSkipped
    <3>3. OnDisk(m)' = OnDisk(m)
      BY <1>1 DEF OnDisk, Copies, Line
    <3> QED
      BY <1>1, <2>2, <3>2, <3>3
  <2> QED
    BY <2>3
<1> QED
  BY <1>4, <1>5, <1>6

LEMMA ProcessSkip ==
  ASSUME Shape, NothingSkipped, NEW b \in {0, 1}, NEW k \in 0..Size[msg], Processed(b, k),
         ~Reused, conn' = "open"
  PROVE  \A m \in base'..cursor' - 1 :
           Dev[m] \in DeviceList => m = msg' \/ m \in dropped' \/ OnDisk(m)' \/ pc' = "down"
<1>1. UNCHANGED <<base, cursor, conn>> /\ pc = "process"
  BY DEF Processed
<1>2. /\ base \in Nat /\ base >= 1 /\ cursor = msg + 1 /\ msg \in Msgs
      /\ Msgs = 1..Cardinality(Msgs) /\ Cardinality(Msgs) \in Nat
  BY <1>1, MsgsFacts DEF Shape, ShapeInv, LogdInv, ThreadInv, ReaderInv
<1>3. ASSUME NEW m \in base..cursor - 1, Dev[m] \in DeviceList
      PROVE  m \in dropped' \/ OnDisk(m)'
  <2>1. m \in Msgs
    BY <1>2
  <2>2. OnDisk(m)' <=> OnDisk(m) \/ (m = msg /\ k = Size[msg])
    BY <2>1, ProcessSaves
  <2>3. m = msg \/ m \in dropped \/ OnDisk(m)
    BY <1>1, <1>3 DEF NothingSkipped
  <2>4. dropped \subseteq dropped' /\ (k = Size[msg] \/ msg \in dropped')
    BY DEF Processed
  <2> QED
    BY <2>2, <2>3, <2>4
<1> QED
  BY <1>1, <1>3

\* A message the reader has passed is saved or lost to an error of its own, see
\* NothingSkipped.
THEOREM NoneSkipped == Spec => []NothingSkipped
<1>1. Shape /\ NothingSkipped /\ [Next]_vars => NothingSkipped'
  <2> SUFFICES ASSUME Shape, NothingSkipped, [Next]_vars, conn' = "open", ~Reused'
               PROVE  \A m \in base'..cursor' - 1 :
                        Dev[m] \in DeviceList =>
                          m = msg' \/ m \in dropped' \/ OnDisk(m)' \/ pc' = "down"
    BY DEF NothingSkipped, DeviceList
  <2>1. ~Reused
    BY ReusedStays
  <2> QED
    BY <2>1, Steps, QuietSkip, ProcessSkip DEF Shape
<1> QED
  BY <1>1, InitSkip, ShapeCorrect, PTL DEF Spec

-----------------------------------------------------------------------------
\* How large a file gets.

BytesKnown ==
  \A n \in Names : /\ IsFiniteSet(Places(n))
                   /\ MessageBytes(n) = Cardinality(Places(n))
                   /\ MessageBytes(n) \in Nat

LEMMA BytesFacts == OutputInv => BytesKnown
<1> SUFFICES ASSUME OutputInv, NEW n \in Names
             PROVE  /\ IsFiniteSet(Places(n))
                    /\ MessageBytes(n) = Cardinality(Places(n))
                    /\ MessageBytes(n) \in Nat
  BY DEF BytesKnown
<1>1. file[n] \in Seq(Cell) /\ Len(file[n]) \in Nat
  BY DEF OutputInv
<1>2. Places(n) \subseteq 1..Len(file[n])
  BY <1>1 DEF Places
<1>3. IsFiniteSet(1..Len(file[n]))
  BY <1>1, FS_Interval
<1>4. IsFiniteSet(Places(n))
  BY <1>2, <1>3, FS_Subset
<1>5. MessageBytes(n) = Cardinality(Places(n))
  BY DEF MessageBytes, Places
<1> QED
  BY <1>4, <1>5, FS_CardinalityType

LEMMA BytesFactsNext == OutputInv' => BytesKnown'
BY BytesFacts, PTL

\* Which steps count a connection and a failed rotation.
LEMMA QuietNumbers ==
  ASSUME ShapeInv, Log \/ LogdCrash \/ LogdRestart \/ QuietStep \/ OpenStep
  PROVE  /\ used["connect"] \in Nat /\ used["rotate"] \in Nat
         /\ used'["connect"] = used["connect"] + (IF Connect THEN 1 ELSE 0)
         /\ used'["rotate"] = used["rotate"] + (IF RotateFails THEN 1 ELSE 0)
<1>1. used["connect"] \in Nat /\ used["rotate"] \in Nat /\ used \in [Keys -> Nat]
  BY DEF ShapeInv, UsedInv, Keys, Events
<1>2. CASE RotateFails
  <2>1. Spend("rotate") /\ ~Connect /\ "rotate" \in Events
    BY <1>2 DEF RotateFails, Connect, Events
  <2> QED
    BY <1>1, <1>2, <2>1, SpendFacts DEF ShapeInv
<1>3. CASE Connect
  <2>1. used' = [used EXCEPT !["connect"] = @ + 1] /\ ~RotateFails
    BY <1>3 DEF RotateFails, Connect
  <2>2. "connect" \in Keys /\ "rotate" \in Keys
    BY DEF Keys, Events
  <2> QED
    BY <1>1, <1>3, <2>1, <2>2
<1>4. CASE ~RotateFails /\ ~Connect
  <2>1. UNCHANGED used \/ \E e \in Events : e # "rotate" /\ Spend(e)
    BY <1>4 DEF Log, LogdCrash, LogdRestart, QuietStep, StartService, Kill, SetFormat, SetFormatFails,
       CreateFirstFileFails, MakeReader, MakeReaderFails, Read, ReadError, Redo,
       vars, OpenStep, CreateFirstFile, Rotate, Events
  <2>2. CASE UNCHANGED used
    BY <1>1, <1>4, <2>2
  <2>3. CASE \E e \in Events : e # "rotate" /\ Spend(e)
    <3>1. "rotate" \in Keys
      BY DEF Keys, Events
    <3>2. used'["connect"] = used["connect"] /\ used'["rotate"] = used["rotate"]
      BY <2>3, <3>1, SpendFacts DEF ShapeInv
    <3> QED
      BY <1>1, <1>4, <3>2
  <2> QED
    BY <2>1, <2>2, <2>3
<1> QED
  BY <1>2, <1>3, <1>4

LEMMA InitBytes == Init => BytesInv
<1> SUFFICES ASSUME Init, MaxLogSize # 0 PROVE BytesInv
  BY DEF BytesInv
<1>1. outFD \notin Names
  BY LoggerAssumption DEF Init
<1>2. used["connect"] = 0 /\ used["rotate"] = 0
  BY DEF Init, Events
<1>3. ASSUME NEW n \in Names PROVE MessageBytes(n) = 0
  <2>1. file[n] = <<>>
    BY DEF Init
  <2>2. DOMAIN <<>> = {}
    OBVIOUS
  <2>3. Places(n) = {}
    BY <2>1, <2>2 DEF Places
  <2> QED
    BY <2>3, FS_EmptySet DEF MessageBytes, Places
<1>4. Limit(1, 1) \in Nat
  BY LimitFacts
<1> QED
  BY <1>1, <1>2, <1>3, <1>4 DEF BytesInv

\* The limit of all files only rises.
LEMMA LimitRises ==
  ASSUME MaxLogSize # 0, NEW r \in Nat, NEW f \in Nat, NEW r2 \in {r, r + 1}, NEW f2 \in {f, f + 1}
  PROVE  Limit(r, f) <= Limit(r2, f2) /\ Limit(r, f) \in Nat /\ Limit(r2, f2) \in Nat
<1>1. Limit(r, f) <= Limit(r2, f) /\ Limit(r, f) \in Nat /\ Limit(r2, f) \in Nat
  <2>1. Limit(r, f) \in Nat /\ Limit(r + 1, f) \in Nat /\ Limit(r, f) <= Limit(r + 1, f)
    <3>1. r + 1 \in Nat
      OBVIOUS
    <3> QED
      BY <3>1, LimitFacts, LimitGrows
  <2>2. CASE r2 = r
    BY <2>1, <2>2
  <2>3. CASE r2 = r + 1
    BY <2>1, <2>3
  <2> QED
    BY <2>2, <2>3
<1>2. Limit(r2, f) <= Limit(r2, f2) /\ Limit(r2, f2) \in Nat
  <2>1. r2 \in Nat /\ f + 1 \in Nat
    OBVIOUS
  <2>2. Limit(r2, f) \in Nat /\ Limit(r2, f + 1) \in Nat /\ Limit(r2, f) <= Limit(r2, f + 1)
    BY <2>1, LimitFacts, LimitGrows
  <2>3. CASE f2 = f
    BY <2>2, <2>3
  <2>4. CASE f2 = f + 1
    BY <2>2, <2>4
  <2> QED
    BY <2>3, <2>4
<1> QED
  BY <1>1, <1>2

LEMMA QuietBytes ==
  ASSUME Shape, BytesInv, Log \/ LogdCrash \/ LogdRestart \/ QuietStep \/ OpenStep
  PROVE  BytesInv'
<1> SUFFICES ASSUME MaxLogSize # 0 PROVE BytesInv'
  BY DEF BytesInv
<1> DEFINE R == used["connect"]
           F == used["rotate"]
<1>1. /\ R \in Nat /\ F \in Nat
      /\ R' = R + (IF Connect THEN 1 ELSE 0) /\ F' = F + (IF RotateFails THEN 1 ELSE 0)
  BY QuietNumbers DEF Shape
<1>2. file' = file
  BY DEF Log, LogdCrash, LogdRestart, QuietStep, StartService, Kill, SetFormat, SetFormatFails,
     CreateFirstFileFails, MakeReader, MakeReaderFails, Connect, Read, ReadError, Redo, RotateFails,
     vars, output, OpenStep, CreateFirstFile, Rotate, OpenFile
<1>3. \A n \in Names : MessageBytes(n)' = MessageBytes(n) /\ MessageBytes(n) \in Nat
  <2>1. \A n \in Names : MessageBytes(n) \in Nat
    BY BytesFacts DEF Shape, ShapeInv, BytesKnown
  <2> QED
    BY <1>2, <2>1 DEF MessageBytes
<1>4. \A n \in Names : opens[n] \in Nat /\ (opens'[n] = opens[n] \/ opens'[n] = opens[n] + 1)
  <2>0. \A n \in Names : opens[n] \in Nat
    BY DEF Shape, ShapeInv, OutputInv
  <2>1. CASE OpenStep
    BY <2>0, <2>1, OpenFacts DEF OpenStep, CreateFirstFile, Rotate, Shape, ShapeInv
  <2>2. CASE ~OpenStep
    <3>1. opens' = opens
      BY <2>2 DEF Log, LogdCrash, LogdRestart, QuietStep, StartService, Kill, SetFormat, SetFormatFails,
         CreateFirstFileFails, MakeReader, MakeReaderFails, Connect, Read, ReadError, Redo, RotateFails,
         vars, output
    <3> QED
      BY <2>0, <3>1
  <2> QED
    BY <2>1, <2>2
<1>5. ASSUME NEW n \in Names, opens'[n] <= 1
      PROVE  MessageBytes(n)' <= Limit(IF R' = 0 THEN 1 ELSE R', 1 + F')
  <2> DEFINE Q == IF R = 0 THEN 1 ELSE R
             Q2 == IF R' = 0 THEN 1 ELSE R'
  <2>1. Q \in Nat /\ Q2 \in {Q, Q + 1} /\ 1 + F \in Nat /\ 1 + F' \in {1 + F, (1 + F) + 1}
    BY <1>1
  <2>2. opens[n] <= 1
    BY <1>4, <1>5
  <2>3. MessageBytes(n) <= Limit(Q, 1 + F)
    BY <2>2 DEF BytesInv
  <2> HIDE DEF Q, Q2, F
  <2>4. Limit(Q, 1 + F) <= Limit(Q2, 1 + F') /\ Limit(Q, 1 + F) \in Nat /\ Limit(Q2, 1 + F') \in Nat
    BY <2>1, LimitRises
  <2>5. MessageBytes(n)' <= Limit(Q2, 1 + F')
    BY <1>3, <2>3, <2>4
  <2> QED
    BY <2>5 DEF Q2
<1>6. ASSUME outFD' \in Names, opens'[outFD'] <= 1, pc' \notin {"down", "dead"}
      PROVE  /\ MessageBytes(outFD)' <= Limit(R', Extra')
             /\ conn' # "new" => MessageBytes(outFD)' <= Limit(R' - 1, F') + outByteCount'
  <2>0. outByteCount' \in Nat /\ outByteCount \in Nat
    <3>1. Shape'
      BY LogdShape, QuietShape, OpenShape
    <3> QED
      BY <3>1 DEF Shape, ShapeInv, ThreadInv
  <2>1. CASE OpenStep
    <3>1. OpenFile /\ R' = R /\ F' = F /\ conn' = conn
      BY <2>1 DEF OpenStep, CreateFirstFile, Rotate, reader
    <3>2. opens[outFD'] = 0
      BY <1>4, <1>6, <3>1, OpenFacts DEF Shape, ShapeInv
    <3>3. file'[outFD'] = <<>>
      BY <1>2, <1>6, <3>2 DEF Shape, AppendInv
    <3>4. MessageBytes(outFD)' = 0
      <4>1. DOMAIN <<>> = {}
        OBVIOUS
      <4> QED
        BY <3>3, <4>1, FS_EmptySet DEF MessageBytes
    <3>5. Extra' \in Nat
      BY <1>1, <3>1 DEF Extra
    <3>6. Limit(R', Extra') \in Nat
      BY <1>1, <3>1, <3>5, LimitFacts
    <3>7. conn' # "new" => R' - 1 \in Nat
      BY <1>1, <3>1 DEF Shape, ReaderInv
    <3>8. conn' # "new" => Limit(R' - 1, F') \in Nat
      BY <1>1, <3>1, <3>7, LimitFacts
    <3> QED
      BY <2>0, <3>4, <3>6, <3>8
  <2>2. CASE ~OpenStep
    <3>1. outFD' = outFD /\ opens' = opens /\ ~StartService
      <4>1. ~StartService
        BY <1>6, LoggerAssumption DEF StartService
      <4> QED
        BY <2>2, <4>1 DEF Log, LogdCrash, LogdRestart, QuietStep, Kill, SetFormat, SetFormatFails,
           CreateFirstFileFails, MakeReader, MakeReaderFails, Connect, Read, ReadError, Redo,
           RotateFails, vars, output
    <3>2. pc \notin {"down", "dead"}
      BY <1>6, <2>2, <3>1 DEF Log, LogdCrash, LogdRestart, QuietStep, Kill, SetFormat, SetFormatFails,
         CreateFirstFileFails, MakeReader, MakeReaderFails, Connect, Read, ReadError, Redo,
         RotateFails, vars
    <3>3. /\ MessageBytes(outFD) <= Limit(R, Extra)
          /\ conn # "new" => MessageBytes(outFD) <= Limit(R - 1, F) + outByteCount
      BY <1>6, <3>1, <3>2 DEF BytesInv
    <3>4. MessageBytes(outFD)' = MessageBytes(outFD) /\ MessageBytes(outFD) \in Nat
      <4>1. outFD \in Names /\ MessageBytes(outFD)' = Cardinality({p \in DOMAIN file'[outFD'] : file'[outFD'][p][1] # 0})
        BY <1>6, <3>1 DEF MessageBytes
      <4> QED
        BY <1>2, <1>3, <3>1, <4>1 DEF MessageBytes
    <3>5. Extra \in Nat /\ (Extra' = Extra \/ Extra' = Extra + 1)
      <4>1. CASE RotateFails
        BY <1>1, <4>1 DEF Extra, RotateFails
      <4>2. CASE ~RotateFails
        <5>1. F' = F
          BY <1>1, <4>2
        <5>2. pc' = "rotate" <=> pc = "rotate"
          BY <1>6, <2>2, <3>1, <4>2 DEF Log, LogdCrash, LogdRestart, QuietStep, Kill, SetFormat,
             SetFormatFails, CreateFirstFileFails, MakeReader, MakeReaderFails, Connect, Read,
             ReadError, Redo, vars
        <5> QED
          BY <1>1, <5>1, <5>2 DEF Extra
      <4> QED
        BY <4>1, <4>2
    <3>6. MessageBytes(outFD)' <= Limit(R', Extra')
      <4>1. Limit(R, Extra) <= Limit(R', Extra') /\ Limit(R, Extra) \in Nat /\ Limit(R', Extra') \in Nat
        <5>1. R' \in {R, R + 1} /\ Extra' \in {Extra, Extra + 1}
          BY <1>1, <3>5
        <5> QED
          BY <1>1, <3>5, <5>1, LimitRises
      <4> QED
        BY <3>3, <3>4, <4>1
    <3>7. CASE Connect
      <4>1. R' - 1 = R /\ F' = F /\ Extra = F
        BY <1>1, <3>7 DEF Connect, RotateFails, Extra
      <4>2. Limit(R, F) \in Nat
        BY <1>1, LimitFacts
      <4> QED
        BY <2>0, <3>3, <3>4, <3>6, <4>1, <4>2
    <3>8. CASE ~Connect
      <4>1. SUFFICES ASSUME conn' # "new"
                     PROVE  MessageBytes(outFD)' <= Limit(R' - 1, F') + outByteCount'
        BY <3>6
      <4>2. conn # "new" /\ outByteCount' = outByteCount
        BY <1>6, <2>2, <3>1, <3>8, <4>1 DEF Log, LogdCrash, LogdRestart, QuietStep, Kill, SetFormat,
           SetFormatFails, CreateFirstFileFails, MakeReader, MakeReaderFails, Read, ReadError, Redo,
           RotateFails, vars, reader
      <4>3. R - 1 \in Nat /\ R' - 1 \in {R - 1, (R - 1) + 1} /\ F' \in {F, F + 1}
        BY <1>1, <4>2 DEF Shape, ReaderInv
      <4> HIDE DEF R, F
      <4>4. Limit(R - 1, F) <= Limit(R' - 1, F')
            /\ Limit(R - 1, F) \in Nat /\ Limit(R' - 1, F') \in Nat
        BY <1>1, <4>3, LimitRises
      <4> QED
        BY <2>0, <3>3, <3>4, <4>2, <4>4
    <3> QED
      BY <3>7, <3>8
  <2> QED
    BY <2>1, <2>2
<1> QED
  BY <1>5, <1>6 DEF BytesInv

\* A message's bytes are counted, and the threshold is looked at, when it is written.
LEMMA ProcessBytes ==
  ASSUME Shape, BytesInv, NEW b \in {0, 1}, NEW k \in 0..Size[msg], Processed(b, k)
  PROVE  BytesInv'
<1> SUFFICES ASSUME MaxLogSize # 0 PROVE BytesInv'
  BY DEF BytesInv
<1> DEFINE R == used["connect"]
           F == used["rotate"]
<1>1. ShapeInv /\ pc = "process" /\ Written(b, k) /\ outFD \in Names /\ msg \in Msgs
  BY DEF Shape, ShapeInv, OutputInv, ThreadInv, Processed
<1>2. /\ R \in Nat /\ F \in Nat /\ R' = R /\ F' = F /\ R >= 1
      /\ UNCHANGED <<outFD, opens, conn>>
  BY <1>1 DEF Processed, ShapeInv, UsedInv, Keys, Events, Shape, ReaderInv, Written
<1>3. /\ k \in Nat /\ k <= MaxLine /\ MaxLine \in Nat /\ MaxLogSize \in Nat
      /\ outByteCount \in Nat /\ outByteCount' = outByteCount + k
  <2>1. Size[msg] \in Nat /\ Size[msg] <= MaxLine /\ MaxLine \in Nat
    BY <1>1, MsgsFacts, MaxLineFacts
  <2> QED
    BY <2>1, LoggerAssumption DEF Shape, ShapeInv, ThreadInv, Processed
<1>4. Shape'
  BY ProcessShape
<1>5. \A n \in Names :
        /\ IsFiniteSet(Places(n)) /\ MessageBytes(n) = Cardinality(Places(n)) /\ MessageBytes(n) \in Nat
        /\ MessageBytes(n)' = Cardinality(Places(n)') /\ MessageBytes(n)' \in Nat
  <2>1. \A n \in Names : MessageBytes(n)' \in Nat /\ MessageBytes(n)' = Cardinality(Places(n)')
    BY <1>4, BytesFactsNext DEF Shape, ShapeInv, BytesKnown
  <2> QED
    BY <1>1, <2>1, BytesFacts DEF ShapeInv, BytesKnown
<1>6. \A n \in Names : n # outFD => MessageBytes(n)' = MessageBytes(n)
  BY <1>1, <1>5, NewPlaces
<1>7. MessageBytes(outFD)' <= MessageBytes(outFD) + k
  <2> DEFINE S == Places(outFD)
             I == off + b + 1 .. off + b + k
  <2>1. Places(outFD)' \subseteq S \cup I
    BY <1>1, NewPlaces
  <2>2. off + b + 1 \in Int /\ off + b + k \in Int
    BY <1>1, <1>3 DEF ShapeInv, OutputInv
  <2>3. IsFiniteSet(I) /\ Cardinality(I) = IF off + b + 1 > off + b + k THEN 0 ELSE (off + b + k) - (off + b + 1) + 1
    BY <2>2, FS_Interval
  <2>4. Cardinality(I) = k
    BY <1>1, <1>3, <2>3 DEF ShapeInv, OutputInv
  <2>5. IsFiniteSet(S)
    BY <1>1, <1>5
  <2> HIDE DEF S, I
  <2>6. /\ IsFiniteSet(S \cup I) /\ IsFiniteSet(S \cap I)
        /\ Cardinality(S \cup I) = Cardinality(S) + Cardinality(I) - Cardinality(S \cap I)
    BY <2>3, <2>5, FS_Union, FS_Intersection
  <2>7. Cardinality(S \cap I) \in Nat /\ Cardinality(S) \in Nat /\ Cardinality(S \cup I) \in Nat
    BY <2>5, <2>6, FS_CardinalityType
  <2>8. IsFiniteSet(Places(outFD)') /\ Cardinality(Places(outFD)') <= Cardinality(S \cup I)
    BY <2>1, <2>6, FS_Subset
  <2>9. Cardinality(Places(outFD)') \in Nat
    BY <2>8, FS_CardinalityType
  <2>10. Cardinality(Places(outFD)') <= Cardinality(S) + k
    BY <1>3, <2>4, <2>6, <2>7, <2>8, <2>9
  <2>11. MessageBytes(outFD) = Cardinality(S)
    BY <1>1, <1>5 DEF S
  <2>12. MessageBytes(outFD)' = Cardinality(Places(outFD)')
    BY <1>1, <1>2, <1>5 DEF MessageBytes, Places
  <2> QED
    BY <2>10, <2>11, <2>12
<1>8. ASSUME opens[outFD] <= 1
      PROVE  /\ MessageBytes(outFD)' <= Limit(R, Extra')
             /\ MessageBytes(outFD)' <= Limit(R - 1, F) + outByteCount'
             /\ Extra' \in {F, F + 1}
  <2>1. /\ MessageBytes(outFD) <= Limit(R, F)
        /\ MessageBytes(outFD) <= Limit(R - 1, F) + outByteCount
    <3>1. Extra = F
      BY <1>1, <1>2 DEF Extra
    <3> QED
      BY <1>1, <1>8, <3>1 DEF BytesInv, Shape, ReaderInv
  <2>2. /\ Limit(R, F) \in Nat /\ Limit(R - 1, F) \in Nat
        /\ Limit(R, F) = Limit(R - 1, F) + (MaxLogSize - 1)
        /\ Limit(R, F + 1) = Limit(R, F) + MaxLine
    <3>1. R - 1 \in Nat /\ (R - 1) + 1 = R
      BY <1>2
    <3>2. Limit((R - 1) + 1, F) = Limit(R - 1, F) + (MaxLogSize - 1)
      BY <1>2, <3>1, LimitFacts
    <3>3. Limit(R - 1, F) \in Nat /\ Limit(R, F) \in Nat /\ Limit(R, F + 1) = Limit(R, F) + MaxLine
      BY <1>2, <3>1, LimitFacts
    <3> QED
      BY <3>1, <3>2, <3>3
  <2>3. MessageBytes(outFD) \in Nat /\ MessageBytes(outFD)' \in Nat
    <3>1. \A n \in Names : MessageBytes(n) \in Nat /\ MessageBytes(n)' \in Nat
      BY <1>5
    <3> QED
      BY <1>1, <1>2, <3>1 DEF MessageBytes
  <2> DEFINE B == MessageBytes(outFD)
             B2 == MessageBytes(outFD)'
             L == Limit(R, F)
             L1 == Limit(R - 1, F)
             L2 == Limit(R, F + 1)
  <2>4. /\ B \in Nat /\ B2 \in Nat /\ L \in Nat /\ L1 \in Nat /\ L = L1 + (MaxLogSize - 1)
        /\ L2 = L + MaxLine /\ B <= L /\ B <= L1 + outByteCount /\ B2 <= B + k
    BY <1>7, <2>1, <2>2, <2>3
  <2>5. pc' = "read" => k = 0 \/ outByteCount' < MaxLogSize
    BY DEF Processed
  <2>6. pc' \in {"read", "rotate"}
    BY DEF Processed
  <2> HIDE DEF B, B2, L, L1, L2
  <2>7. B2 <= L1 + outByteCount'
    BY <1>3, <2>4
  <2>8. pc' = "read" => B2 <= L
    BY <1>3, <2>4, <2>5, <2>7
  <2>9. B2 <= L2
    BY <1>3, <2>4
  <2>10. Extra' = IF pc' = "rotate" THEN F + 1 ELSE F
    BY <1>2 DEF Extra
  <2>11. B2 <= Limit(R, Extra')
    <3>1. CASE pc' = "rotate"
      BY <2>9, <2>10, <3>1 DEF L2
    <3>2. CASE pc' = "read"
      BY <2>8, <2>10, <3>2 DEF L
    <3> QED
      BY <2>6, <3>1, <3>2
  <2> QED
    BY <2>7, <2>10, <2>11 DEF B2, L1
<1>9. ASSUME NEW n \in Names, opens[n] <= 1
      PROVE  MessageBytes(n)' <= Limit(IF R' = 0 THEN 1 ELSE R', 1 + F')
  <2>1. (IF R' = 0 THEN 1 ELSE R') = R /\ 1 + F' = F + 1 /\ F + 1 \in Nat
    BY <1>2
  <2>2. CASE n # outFD
    <3>1. MessageBytes(n) <= Limit(IF R = 0 THEN 1 ELSE R, 1 + F)
      BY <1>9 DEF BytesInv
    <3>2. (IF R = 0 THEN 1 ELSE R) = R /\ 1 + F = 1 + F'
      BY <1>2
    <3> QED
      BY <1>6, <2>1, <2>2, <3>1, <3>2
  <2>3. CASE n = outFD
    <3>1. MessageBytes(outFD)' <= Limit(R, Extra') /\ Extra' \in {F, F + 1}
      BY <1>8, <1>9, <2>3
    <3>2. Limit(R, Extra') <= Limit(R, F + 1) /\ Limit(R, Extra') \in Nat /\ Limit(R, F + 1) \in Nat
      <4>1. Limit(R, F) \in Nat /\ Limit(R, F + 1) \in Nat /\ Limit(R, F) <= Limit(R, F + 1)
        BY <1>2, <2>1, LimitFacts, LimitGrows
      <4>2. CASE Extra' = F
        BY <4>1, <4>2
      <4>3. CASE Extra' = F + 1
        BY <4>1, <4>3
      <4> QED
        BY <3>1, <4>2, <4>3
    <3>3. MessageBytes(n)' = MessageBytes(outFD)' /\ MessageBytes(n)' \in Nat
      BY <1>2, <1>5, <2>3 DEF MessageBytes
    <3>4. MessageBytes(n)' <= Limit(R, F + 1)
      BY <3>1, <3>2, <3>3
    <3> QED
      BY <2>1, <3>4
  <2> QED
    BY <2>2, <2>3
<1> QED
  BY <1>1, <1>2, <1>8, <1>9 DEF BytesInv

\* What the size threshold guarantees, see FileBound.
THEOREM FilesBounded == Spec => []FileBound
<1>1. Shape /\ BytesInv /\ [Next]_vars => BytesInv'
  BY Steps, QuietBytes, ProcessBytes DEF Shape
<1>2. Shape /\ BytesInv => FileBound
  <2> SUFFICES ASSUME Shape, BytesInv, MaxLogSize # 0, NEW n \in Names, opens[n] <= 1
               PROVE  MessageBytes(n) <=
                        (IF used["connect"] = 0 THEN 1 ELSE used["connect"]) * (MaxLogSize - 1)
                          + (1 + used["rotate"]) * MaxLine
    BY DEF FileBound
  <2> QED
    BY DEF BytesInv, Limit
<1> QED
  BY <1>1, <1>2, InitBytes, ShapeCorrect, PTL DEF Spec

-----------------------------------------------------------------------------
\* The logger implements LogDelivery.

Saved == {m \in Msgs : OnDisk(m)}

LEMMA NoneReused ==
  ASSUME NewSeconds
  PROVE  Spec => []~Reused
<1>1. Init => ~Reused
  BY DEF Init, Reused
<1>2. Shape /\ ~Reused /\ [Next]_vars => ~Reused'
  <2> SUFFICES ASSUME Shape, ~Reused, [Next]_vars, NEW n \in Names, opens'[n] > 1 PROVE FALSE
    BY DEF Reused
  <2>1. opens[n] \in Nat /\ ~(opens[n] > 1)
    BY DEF Shape, ShapeInv, OutputInv, Reused
  <2>2. CASE OpenStep
    <3>1. OpenFile /\ OutputInv
      BY <2>2 DEF OpenStep, CreateFirstFile, Rotate, Shape, ShapeInv
    <3>2. opens'[n] = opens[n] \/ (n = outFD' /\ opens[n] = 0 /\ opens'[n] = 1)
      BY <3>1, OpenFacts
    <3> QED
      BY <2>1, <3>2
  <2>3. CASE ~OpenStep
    <3>1. opens' = opens
      BY <2>3, Steps DEF Shape, Log, LogdCrash, LogdRestart, QuietStep, StartService, Kill, SetFormat,
         SetFormatFails, CreateFirstFileFails, MakeReader, MakeReaderFails, Connect, Read, ReadError,
         Redo, RotateFails, vars, output, Processed, Written
    <3> QED
      BY <2>1, <3>1
  <2> QED
    BY <2>2, <2>3
<1> QED
  BY <1>1, <1>2, ShapeCorrect, PTL DEF Spec

LEMMA DeliveryInit == Init => Delivery!Init
<1> SUFFICES ASSUME Init PROVE Delivery!Init
  OBVIOUS
<1>1. ASSUME NEW m \in Msgs PROVE ~OnDisk(m)
  <2>1. ASSUME NEW n \in Names PROVE Copies(m, n) = {}
    <3>1. file[n] = <<>> /\ Len(<<>>) = 0
      BY DEF Init
    <3>2. Size[m] \in Nat /\ Size[m] >= 1
      BY MsgsFacts
    <3>3. 0..Len(file[n]) - Size[m] = {}
      BY <3>1, <3>2
    <3> QED
      BY <3>3 DEF Copies
  <2> QED
    BY <2>1 DEF OnDisk
<1> QED
  BY <1>1 DEF Init, Delivery!Init

\* A bound that moved stays between its old value and one past a count that
\* grew by at most one.
LEMMA InRange ==
  \A a, b, c \in Nat : \A d \in {c, c + 1} : a <= b /\ b <= d + 1 => b \in a..d + 1
  OBVIOUS

\* Every step is one of LogDelivery or does nothing there.
LEMMA DeliveryStep ==
  ASSUME Shape, ~Reused, [Next]_vars
  PROVE  [Delivery!Next]_(Delivery!vars)
<1> USE DEF Delivery!vars, Delivery!log, Delivery!session
<1>1. /\ base \in Nat /\ base >= 1 /\ logged \in Nat /\ base <= logged + 1 /\ 1..logged \subseteq Msgs
      /\ (pc = "process" <=> msg # 0)
  BY MsgsFacts DEF Shape, ShapeInv, LogdInv, ThreadInv
<1>2. file' = file => Saved' = Saved
  BY FilesStay DEF Saved
<1>3. CASE Log \/ LogdCrash \/ LogdRestart
  <2>1. /\ UNCHANGED <<cursor, msg, dropped, pc, file>>
        /\ logged' \in {logged, logged + 1}
        /\ base' \in Nat /\ base <= base' /\ base' <= logged' + 1
        /\ conn' = conn \/ (conn = "open" /\ conn' = "broken")
    BY <1>1, <1>3 DEF Log, LogdCrash, LogdRestart, reader, output
  <2>2. base' \in base..logged' + 1
    BY <1>1, <2>1, InRange
  <2>3. Delivery!Grow
    BY <1>2, <2>1, <2>2 DEF Delivery!Grow, Saved
  <2> QED
    BY <2>3 DEF Delivery!Next
<1>4. CASE QuietStep
  <2>0. UNCHANGED <<base, logged, file, dropped>> /\ Saved' = Saved
    BY <1>2, <1>4 DEF QuietStep, StartService, Kill, SetFormat, SetFormatFails, CreateFirstFileFails,
       MakeReader, MakeReaderFails, Connect, Read, ReadError, Redo, RotateFails, vars, logd, output
  <2>1. CASE Connect
    <3>1. Delivery!Connect
      BY <1>1, <2>0, <2>1 DEF Connect, Delivery!Connect, StreamStart, Saved
    <3> QED
      BY <3>1 DEF Delivery!Next
  <2>2. CASE Read
    <3>1. PICK r \in Pending : (\A i \in Pending : r <= i) /\ msg' = r /\ cursor' = r + 1
      BY <2>2 DEF Read
    <3>2. \A i \in base..logged : i \in Msgs
      BY <1>1
    <3>3. Delivery!Due = Pending
      BY <3>2 DEF Delivery!Due, Pending
    <3>4. Delivery!Take
      BY <1>1, <2>0, <2>2, <3>1, <3>3 DEF Read, Delivery!Take, Saved
    <3> QED
      BY <3>4 DEF Delivery!Next
  <2>3. CASE Kill \/ MakeReader \/ StartService
    <3>1. Delivery!Disconnect
      BY <1>1, <2>0, <2>3 DEF Kill, MakeReader, StartService, Delivery!Disconnect, reader, Saved
    <3> QED
      BY <3>1 DEF Delivery!Next
  <2>4. CASE ~(Connect \/ Read \/ Kill \/ MakeReader \/ StartService)
    <3>1. /\ UNCHANGED <<conn, cursor, msg>>
          /\ pc' = "down" <=> pc = "down"
      BY <1>4, <2>4 DEF QuietStep, SetFormat, SetFormatFails, CreateFirstFileFails,
         MakeReaderFails, ReadError, Redo, RotateFails, vars, reader
    <3> QED
      BY <2>0, <3>1 DEF Saved
  <2> QED
    BY <2>1, <2>2, <2>3, <2>4
<1>5. CASE OpenStep
  <2>1. UNCHANGED <<base, logged, conn, cursor, msg, dropped, file>> /\ pc # "down" /\ pc' # "down"
    BY <1>5 DEF OpenStep, CreateFirstFile, Rotate, OpenFile, logd, reader
  <2> QED
    BY <1>2, <2>1 DEF Saved
<1>6. ASSUME NEW b \in {0, 1}, NEW k \in 0..Size[msg], Processed(b, k)
      PROVE  Delivery!Next
  <2>1. /\ UNCHANGED <<base, logged, conn, cursor>> /\ msg' = 0 /\ msg # 0 /\ msg \in Msgs
        /\ pc # "down" /\ pc' # "down"
    BY <1>6 DEF Processed, Shape, ShapeInv, ThreadInv
  <2>2. \A m \in Msgs : OnDisk(m)' <=> OnDisk(m) \/ (m = msg /\ k = Size[msg])
    BY <1>6, ProcessSaves
  <2>3. k \in Nat /\ Size[msg] \in Nat
    BY <2>1, MsgsFacts
  <2>4. CASE k = Size[msg]
    <3>1. Saved' = Saved \cup {msg}
      BY <2>1, <2>2, <2>4 DEF Saved
    <3>2. dropped' = dropped
      BY <1>6, <2>3, <2>4 DEF Processed
    <3>3. Delivery!Save
      BY <2>1, <3>1, <3>2 DEF Delivery!Save, Saved
    <3> QED
      BY <3>3 DEF Delivery!Next
  <2>5. CASE k # Size[msg]
    <3>1. Saved' = Saved
      BY <2>2, <2>5 DEF Saved
    <3>2. dropped' = dropped \cup {msg}
      BY <1>6, <2>5 DEF Processed
    <3>3. Delivery!Lose
      BY <2>1, <3>1, <3>2 DEF Delivery!Lose, Saved
    <3> QED
      BY <3>3 DEF Delivery!Next
  <2> QED
    BY <2>4, <2>5
<1> QED
  BY <1>3, <1>4, <1>5, <1>6, Steps DEF Shape

\* With a new name for every file the logger, with its readers, rotations and
\* restarts, implements LogDelivery.
THEOREM LoggerDelivers ==
  ASSUME NewSeconds
  PROVE  Spec => DeliverySpec
<1>1. Shape /\ ~Reused /\ [Next]_vars => [Delivery!Next]_(Delivery!vars)
  BY DeliveryStep
<1>2. Spec => []~Reused
  BY NoneReused
<1> QED
  BY <1>1, <1>2, DeliveryInit, ShapeCorrect, PTL DEF Spec, DeliverySpec, Delivery!Spec

=============================================================================
