------------------------ MODULE DynamicDevice_proofs ------------------------
(***************************************************************************)
(* Proofs about DynamicDevice for mask files of every length and every     *)
(* number of interrupted and failed calls.                                 *)
(***************************************************************************)
EXTENDS DynamicDevice, TLAPS

\* A line that the thread has in hand is the last one it read.
InHand == pc \in {"parse", "write"} /\ buf # 0

Records(n) == [line : 1..n, path : {KeyPath(k) : k \in Keys}]

TypeInv ==
  /\ mask \in Seq(Lines) /\ newline \in BOOLEAN
  /\ pc \in {"open", "read", "parse", "write", "done"}
  /\ pos \in 0..Len(mask)
  /\ feof \in BOOLEAN
  /\ buf \in 0..pos
  /\ written \in Seq(Records(pos))
  /\ InHand => buf = pos
  /\ pc = "write" => Usable /\ pathWrite = KeyPath(mask[buf])

\* The line in hand comes after all lines written.
OrderInv ==
  /\ WrittenInOrder
  /\ InHand => \A w \in 1..Len(written) : written[w].line < buf

Handled(j) ==
  \/ j \in skipped
  \/ \E w \in 1..Len(written) : written[w] = [line |-> j, path |-> KeyPath(mask[j])]

\* No usable line that was read is left behind, and the loop ends at the end of the
\* file only.
CoverInv ==
  /\ \A j \in 1..pos : mask[j] \in Keys => Handled(j) \/ (InHand /\ j = buf)
  /\ feof => pos = Len(mask)
  /\ pc = "open" => pos = 0
  /\ pc = "done" => pos \in {0, Len(mask)}

MaskInv == TypeInv /\ OrderInv /\ CoverInv

-----------------------------------------------------------------------------

LEMMA WrittenTypes ==
  ASSUME TypeInv, NEW w \in 1..Len(written)
  PROVE  written[w].line \in 1..pos
<1>1. written[w] \in Records(pos)
  BY DEF TypeInv
<1> QED
  BY <1>1 DEF Records

LEMMA InitInv == Init => MaskInv
<1> SUFFICES ASSUME Init PROVE MaskInv
  OBVIOUS
<1>1. mask \in Seq(Lines)
  <2>0. PICK n \in 0..MaxLines : mask \in [1..n -> Lines]
    BY DEF Init
  <2>1. n \in Nat
    BY DynamicAssumption
  <2> QED
    BY <2>0, <2>1
<1>2. Len(mask) \in Nat
  BY <1>1
<1>3. /\ newline \in BOOLEAN /\ pc = "open" /\ pos = 0 /\ feof = FALSE /\ buf = 0
      /\ written = <<>> /\ ~InHand
  BY DEF Init, InHand
<1>4. TypeInv
  <2>1. written \in Seq(Records(pos))
    BY <1>3
  <2>2. pos \in 0..Len(mask) /\ buf \in 0..pos
    BY <1>2, <1>3
  <2> QED
    BY <1>1, <1>3, <2>1, <2>2 DEF TypeInv
<1>5. OrderInv /\ CoverInv
  BY <1>3 DEF OrderInv, WrittenInOrder, CoverInv
<1> QED
  BY <1>4, <1>5 DEF MaskInv

\* Steps that write nothing.
LEMMA LoopInv ==
  ASSUME MaskInv,
         \/ OpenMask \/ OpenMaskFails \/ EndOfFile \/ ParseLine \/ SkipLine
         \/ WriteInterrupted \/ WriteFails \/ UNCHANGED vars
  PROVE  MaskInv'
<1> USE DEF MaskInv
<1>1. UNCHANGED <<mask, newline, pos, feof, buf, written>>
  BY DEF OpenMask, OpenMaskFails, EndOfFile, ParseLine, SkipLine, WriteInterrupted,
         WriteFails, vars, hist
<1>2. /\ pc' \in {"open", "read", "parse", "write", "done"}
      /\ InHand' => InHand
      /\ pc' = "write" => Usable /\ pathWrite' = KeyPath(mask[buf])
      /\ InHand /\ ~InHand' => ~Usable \/ buf \in skipped'
      /\ skipped \subseteq skipped'
      /\ pc' = "open" => pc = "open"
      /\ pc' = "done" => pos \in {0, Len(mask)}
  BY DEF TypeInv, CoverInv, InHand, Usable, OpenMask, OpenMaskFails, EndOfFile, ParseLine,
         SkipLine, WriteInterrupted, WriteFails, vars, hist
<1>3. TypeInv'
  BY <1>1, <1>2 DEF TypeInv, Usable
<1>4. OrderInv'
  BY <1>1, <1>2 DEF OrderInv, WrittenInOrder
<1>5. CoverInv'
  <2>1. ASSUME NEW j \in 1..pos, mask[j] \in Keys
        PROVE  Handled(j)' \/ (InHand' /\ j = buf)
    BY <1>1, <1>2, <2>1 DEF CoverInv, Handled, Usable, InHand
  <2> QED
    BY <1>1, <1>2, <2>1 DEF CoverInv
<1> QED
  BY <1>3, <1>4, <1>5

LEMMA ReadInv == MaskInv /\ (ReadLine \/ ReadFails) => MaskInv'
<1> SUFFICES ASSUME MaskInv, ReadLine \/ ReadFails PROVE MaskInv'
  OBVIOUS
<1> USE DEF MaskInv
<1>1. /\ pc = "read" /\ pc' = "parse" /\ ~InHand
      /\ UNCHANGED <<mask, newline, written, skipped>>
      /\ Len(mask) \in Nat /\ pos \in 0..Len(mask)
  BY DEF ReadLine, ReadFails, hist, TypeInv, InHand
<1>2. \/ pos < Len(mask) /\ pos' = pos + 1 /\ buf' = pos + 1
      \/ pos' = pos /\ buf' = 0
  BY DEF ReadLine, ReadFails, Cleared
<1>3. feof' \in BOOLEAN /\ (feof' => pos' = Len(mask))
  <2>1. CASE ReadLine
    <3>1. feof' = AtEnd(pos + 1)
      BY <2>1 DEF ReadLine
    <3>2. AtEnd(pos + 1) \in BOOLEAN
      BY DEF AtEnd
    <3>3. AtEnd(pos + 1) => pos + 1 >= Len(mask)
      BY <1>1 DEF AtEnd
    <3>4. pos' = IF pos < Len(mask) THEN pos + 1 ELSE pos
      BY <2>1 DEF ReadLine
    <3> QED
      BY <1>1, <3>1, <3>2, <3>3, <3>4
  <2>2. CASE ReadFails
    BY <1>1, <2>2 DEF ReadFails, CoverInv, TypeInv
  <2> QED
    BY <2>1, <2>2
<1>4. /\ pos' \in 0..Len(mask) /\ buf' \in 0..pos' /\ pos <= pos'
      /\ InHand' => buf' = pos' /\ pos' = pos + 1
  BY <1>1, <1>2 DEF InHand
<1>5. TypeInv'
  <2>1. Records(pos) \subseteq Records(pos')
    <3>1. 1..pos \subseteq 1..pos'
      BY <1>1, <1>4
    <3> QED
      BY <3>1 DEF Records
  <2>2. written' \in Seq(Records(pos'))
    BY <1>1, <2>1 DEF TypeInv
  <2> QED
    BY <1>1, <1>3, <1>4, <2>2 DEF TypeInv
<1>6. OrderInv'
  <2>1. \A w \in 1..Len(written) : written[w].line \in 1..pos
    BY WrittenTypes
  <2> QED
    BY <1>1, <1>4, <2>1 DEF OrderInv, WrittenInOrder
<1>7. CoverInv'
  <2>1. ASSUME NEW j \in 1..pos', mask[j] \in Keys
        PROVE  Handled(j)' \/ (InHand' /\ j = buf')
    <3>1. CASE j \in 1..pos
      BY <1>1, <2>1, <3>1 DEF CoverInv, Handled
    <3>2. CASE j \notin 1..pos
      BY <1>1, <1>2, <2>1, <3>2 DEF InHand
    <3> QED
      BY <3>1, <3>2
  <2> QED
    BY <1>1, <1>3, <2>1 DEF CoverInv
<1> QED
  BY <1>5, <1>6, <1>7

LEMMA WriteInv == MaskInv /\ WriteFile => MaskInv'
<1> SUFFICES ASSUME MaskInv, WriteFile PROVE MaskInv'
  OBVIOUS
<1> USE DEF MaskInv
<1> DEFINE r == [line |-> buf, path |-> pathWrite]
<1>1. /\ pc = "write" /\ pc' = "read" /\ InHand /\ ~InHand'
      /\ UNCHANGED <<mask, newline, pos, feof, buf, pathWrite, skipped>>
      /\ buf \in 1..pos /\ mask[buf] \in Keys /\ pathWrite = KeyPath(mask[buf])
  BY DEF WriteFile, TypeInv, InHand, Usable
<1>2. r \in Records(pos)
  BY <1>1 DEF Records
<1>3. /\ written \in Seq(Records(pos)) /\ written' = Append(written, r)
      /\ \A w \in 1..Len(written) : written[w].line \in Nat /\ written[w].line < buf
  <2>1. \A w \in 1..Len(written) : written[w].line \in Nat
    BY <1>1, WrittenTypes DEF TypeInv
  <2> QED
    BY <1>1, <2>1 DEF TypeInv, WriteFile, OrderInv
<1>4. r.line = buf /\ r = [line |-> buf, path |-> KeyPath(mask[buf])]
  BY <1>1
<1> HIDE DEF r
<1>5. /\ written' \in Seq(Records(pos)) /\ Len(written) \in Nat
      /\ Len(written') = Len(written) + 1 /\ written'[Len(written) + 1] = r
      /\ \A w \in 1..Len(written) : written'[w] = written[w]
  BY <1>2, <1>3
<1>6. TypeInv'
  BY <1>1, <1>5 DEF TypeInv
<1>7. OrderInv'
  <2>1. \A j, k \in 1..Len(written) : j < k => written[j].line < written[k].line
    BY <1>3 DEF OrderInv, WrittenInOrder
  <2>2. \A j, k \in 1..Len(written) + 1 : j < k => written'[j].line < written'[k].line
    BY <1>3, <1>4, <1>5, <2>1
  <2> QED
    BY <1>1, <1>5, <2>2 DEF OrderInv, WrittenInOrder
<1>8. CoverInv'
  <2>1. ASSUME NEW j \in 1..pos, mask[j] \in Keys
        PROVE  Handled(j)'
    <3>1. CASE j = buf
      BY <1>1, <1>4, <1>5, <3>1 DEF Handled
    <3>2. CASE j # buf
      BY <1>1, <1>5, <2>1, <3>2 DEF CoverInv, Handled
    <3> QED
      BY <3>1, <3>2
  <2> QED
    BY <1>1, <2>1 DEF CoverInv
<1> QED
  BY <1>6, <1>7, <1>8

\* The strengthened invariant holds in every reachable state.
THEOREM MaskCorrect == Spec => []MaskInv
<1>1. MaskInv /\ [Next]_vars => MaskInv'
  BY LoopInv, ReadInv, WriteInv DEF Next
<1> QED
  BY InitInv, <1>1, PTL DEF Spec

\* Whatever calls fail, the lines are written in the order of the file, none twice.
THEOREM LinesInOrder == Spec => []WrittenInOrder
<1>1. MaskInv => WrittenInOrder
  BY DEF MaskInv, OrderInv
<1> QED
  BY MaskCorrect, <1>1, PTL

\* Whatever calls fail, no usable line is left out but those that failed themselves.
THEOREM NoLineLeftOut == Spec => []AllWritten
<1>1. MaskInv => AllWritten
  BY DEF MaskInv, TypeInv, CoverInv, AllWritten, Handled, InHand
<1> QED
  BY MaskCorrect, <1>1, PTL

=============================================================================
