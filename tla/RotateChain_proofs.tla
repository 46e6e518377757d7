-------------------------- MODULE RotateChain_proofs --------------------------
(***************************************************************************)
(* Proofs about RotateChain for every number of files, of starts and of    *)
(* failed renames.                                                         *)
(***************************************************************************)
EXTENDS RotateChain, FiniteSetTheorems, TLAPS

\* No file holds the log of a start that has not happened, and while the loop
\* runs the current start has no file yet.
NotAhead ==
  /\ \A k \in Slots : slot[k] <= run
  /\ pc = "shift" => \A k \in Slots : slot[k] < run

\* Every start moves a log up by at most one: the number of a log is bounded by
\* the age of its start.  During the loop the files up to i have not been moved
\* by this start yet.
AgeBound ==
  \A k \in Slots : slot[k] # 0 =>
    /\ run - slot[k] >= k - 1
    /\ pc = "shift" /\ k <= i => run - slot[k] >= k

\* The loop has just freed the number it is about to fill.
Freed == pc = "shift" /\ i < MaxFiles => slot[i] = 0

ChainInv ==
  /\ TypeOK
  /\ AgeOrdered
  /\ NotAhead
  /\ \A r \in opened : r <= run
  /\ faults <= MaxFaults
  /\ AgeBound
  /\ faults = 0 => Freed
  /\ Retained

-----------------------------------------------------------------------------

LEMMA InitInv == Init => ChainInv
  BY ChainAssumption
     DEF Init, ChainInv, TypeOK, AgeOrdered, NotAhead, AgeBound, Freed,
         Retained, Slots, Kept

\* What one rename does to the files.
LEMMA RenamedFile ==
  ASSUME TypeOK, i > 1, NEW k \in Slots
  PROVE  /\ Renamed(slot, i) \in [Slots -> Nat]
         /\ slot[i - 1] = 0 => Renamed(slot, i)[k] = slot[k]
         /\ slot[i - 1] # 0 =>
              Renamed(slot, i)[k] = IF k = i THEN slot[i - 1]
                                    ELSE IF k = i - 1 THEN 0 ELSE slot[k]
  BY ChainAssumption DEF TypeOK, Slots, Renamed

LEMMA RenameInv == ChainInv /\ Rename => ChainInv'
<1> SUFFICES ASSUME ChainInv, Rename PROVE ChainInv'
  OBVIOUS
<1> USE ChainAssumption
<1>1. TypeOK /\ i > 1 /\ i \in Slots /\ i - 1 \in Slots /\ i' = i - 1
  BY DEF ChainInv, TypeOK, Slots, Rename, LoopEnds
<1>2. \A k \in Slots :
        /\ slot[i - 1] = 0 => slot'[k] = slot[k]
        /\ slot[i - 1] # 0 =>
             slot'[k] = IF k = i THEN slot[i - 1]
                        ELSE IF k = i - 1 THEN 0 ELSE slot[k]
  BY <1>1, RenamedFile DEF Rename
<1>3. TypeOK'
  BY <1>1, RenamedFile DEF TypeOK, Rename
<1>4. AgeOrdered'
  BY <1>1, <1>2 DEF ChainInv, TypeOK, AgeOrdered, Slots
<1>5. NotAhead'
  <2>1. run \in Nat /\ \A k \in Slots : slot[k] \in Nat /\ slot[k] < run
    BY DEF ChainInv, TypeOK, NotAhead, Rename
  <2>2. \A k \in Slots : slot'[k] \in Nat /\ slot'[k] < run
    BY <1>1, <1>2, <2>1
  <2> QED
    BY <1>1, <2>2 DEF NotAhead, Rename, TypeOK
<1>6. AgeBound'
  <2> SUFFICES ASSUME NEW k \in Slots, slot'[k] # 0
               PROVE  run - slot'[k] >= k - 1 /\ (k <= i - 1 => run - slot'[k] >= k)
    BY <1>1 DEF AgeBound, Rename
  <2>1. /\ run \in Nat /\ i \in Nat /\ k \in Nat
        /\ \A m \in Slots : slot[m] \in Nat
        /\ \A m \in Slots : slot[m] # 0 =>
             run - slot[m] >= m - 1 /\ (m <= i => run - slot[m] >= m)
    BY <1>1 DEF ChainInv, AgeBound, Rename, TypeOK, Slots
  <2>2. CASE slot'[k] = slot[k]
    BY <2>1, <2>2
  <2>3. CASE slot'[k] # slot[k]
    <3>1. k = i /\ slot'[k] = slot[i - 1] /\ slot[i - 1] # 0
      BY <1>1, <1>2, <2>3
    <3>2. run - slot[i - 1] >= i - 1
      BY <1>1, <2>1, <3>1
    <3> QED
      BY <2>1, <3>1, <3>2
  <2> QED
    BY <2>2, <2>3
<1>7. Freed'
  BY <1>1, <1>2 DEF Freed, Slots, Rename
<1>8. Retained'
  <2> SUFFICES ASSUME faults = 0, NEW r \in opened, run - r < MaxFiles
               PROVE  r \in Kept'
    BY DEF Rename, Retained
  <2>1. r \in Nat \ {0}
    BY DEF ChainInv, TypeOK
  <2>2. PICK k \in Slots : slot[k] = r
    BY <2>1 DEF ChainInv, Retained, Kept
  <2>3. slot[i - 1] # 0 => k # i
    BY <1>1, <2>1, <2>2 DEF ChainInv, AgeBound, Freed, Rename, Slots, TypeOK
  <2>4. \E m \in Slots : slot'[m] = r
    BY <1>1, <1>2, <2>2, <2>3
  <2> QED
    BY <2>1, <2>4 DEF Kept
<1> QED
  BY <1>3, <1>4, <1>5, <1>6, <1>7, <1>8 DEF ChainInv, Rename

LEMMA OpenInv == ChainInv /\ Open => ChainInv'
<1> SUFFICES ASSUME ChainInv, Open PROVE ChainInv'
  OBVIOUS
<1> USE ChainAssumption
<1>1. i = 1 /\ 1 \in Slots /\ pc = "shift"
  BY DEF ChainInv, TypeOK, Slots, Open, LoopEnds
<1>2. \A k \in Slots : slot'[k] = IF k = 1 THEN run ELSE slot[k]
  BY DEF ChainInv, TypeOK, Open
<1>3. run > 0
  BY <1>1 DEF ChainInv, TypeOK, NotAhead
<1>4. TypeOK'
  BY <1>1, <1>3 DEF ChainInv, TypeOK, Open
<1>5. AgeOrdered'
  BY <1>1, <1>2 DEF ChainInv, TypeOK, AgeOrdered, NotAhead, Slots
<1>6. NotAhead'
  BY <1>1, <1>2 DEF ChainInv, TypeOK, NotAhead, Open
<1>7. AgeBound' /\ Freed'
  BY <1>1, <1>2 DEF ChainInv, TypeOK, AgeBound, Freed, Slots, Open
<1>8. Retained'
  <2> SUFFICES ASSUME faults = 0, NEW r \in opened', run - r < MaxFiles
               PROVE  r \in Kept'
    BY DEF Open, Retained
  <2>1. CASE r = run
    BY <2>1, <1>1, <1>2, <1>3 DEF Kept
  <2>2. CASE r # run
    <3>1. r \in opened /\ r \in Nat \ {0}
      BY <2>2 DEF ChainInv, TypeOK, Open
    <3>2. PICK k \in Slots : slot[k] = r
      BY <3>1 DEF ChainInv, Retained, Kept
    <3>3. k # 1
      BY <1>1, <3>1, <3>2 DEF ChainInv, Freed
    <3> QED
      BY <1>2, <3>1, <3>2, <3>3 DEF Kept
  <2> QED
    BY <2>1, <2>2
<1>9. \A r \in opened' : r <= run'
  BY DEF ChainInv, TypeOK, Open
<1> QED
  BY <1>4, <1>5, <1>6, <1>7, <1>8, <1>9 DEF ChainInv, Open

LEMMA StartInv == ChainInv /\ Start => ChainInv'
<1> SUFFICES ASSUME ChainInv, Start PROVE ChainInv'
  OBVIOUS
<1> USE ChainAssumption DEF ChainInv, Start, FirstTarget, TypeOK
<1>1. TypeOK'
  BY DEF Slots
<1>2. AgeOrdered' /\ NotAhead'
  BY DEF AgeOrdered, NotAhead
<1>3. \A r \in opened' : r <= run'
  OBVIOUS
<1>4. AgeBound' /\ Freed'
  BY DEF AgeBound, Freed, Slots
<1>5. Retained'
  BY DEF Retained, Kept
<1> QED
  BY <1>1, <1>2, <1>3, <1>4, <1>5

LEMMA OtherInv == ChainInv /\ (RenameFails \/ OpenFails \/ Kill \/ UNCHANGED vars) => ChainInv'
<1> SUFFICES ASSUME ChainInv, RenameFails \/ OpenFails \/ Kill \/ UNCHANGED vars
             PROVE  ChainInv'
  OBVIOUS
<1> USE ChainAssumption
<1>1. TypeOK' /\ slot' = slot /\ run' = run /\ opened' = opened
  <2>1. CASE RenameFails
    BY <2>1 DEF ChainInv, TypeOK, RenameFails, Slots, LoopEnds
  <2>2. CASE OpenFails \/ Kill \/ UNCHANGED vars
    BY <2>2 DEF ChainInv, TypeOK, OpenFails, Kill, vars
  <2> QED
    BY <2>1, <2>2
<1>2. AgeOrdered' /\ NotAhead' /\ \A r \in opened' : r <= run'
  BY <1>1
     DEF ChainInv, AgeOrdered, NotAhead, RenameFails, OpenFails, Kill, vars
<1>3. AgeBound' /\ (faults' = 0 => Freed')
  <2>1. pc' = "shift" => pc = "shift" /\ i' <= i
    BY DEF ChainInv, TypeOK, Slots, RenameFails, OpenFails, Kill, vars
  <2>2. AgeBound'
    BY <1>1, <2>1 DEF ChainInv, TypeOK, AgeBound, Slots
  <2>3. faults' = 0 => Freed'
    BY <1>1 DEF ChainInv, TypeOK, Freed, RenameFails, OpenFails, Kill, vars
  <2> QED
    BY <2>2, <2>3
<1>4. Retained'
  BY <1>1
     DEF ChainInv, TypeOK, Retained, Kept, RenameFails, OpenFails, Kill, vars
<1>5. faults' <= MaxFaults
  BY DEF ChainInv, TypeOK, RenameFails, OpenFails, Kill, vars
<1> QED
  BY <1>1, <1>2, <1>3, <1>4, <1>5 DEF ChainInv

\* The strengthened invariant holds in every reachable state.
THEOREM ChainCorrect == Spec => []ChainInv
<1>1. ChainInv /\ [Next]_vars => ChainInv'
  BY RenameInv, OpenInv, StartInv, OtherInv DEF Next
<1> QED
  BY InitInv, <1>1, PTL DEF Spec

\* Type correctness of the rename chain, for every bound.
THEOREM ChainTypes == Spec => []TypeOK
<1>1. ChainInv => TypeOK
  BY DEF ChainInv
<1> QED
  BY ChainCorrect, <1>1, PTL

\* File numbers order the logs by age at every moment of every rename loop,
\* whatever was killed and whichever renames failed.
THEOREM FilesOrderedByAge == Spec => []AgeOrdered
<1>1. ChainInv => AgeOrdered
  BY DEF ChainInv
<1> QED
  BY ChainCorrect, <1>1, PTL

\* A saved log survives the next MaxFiles - 1 starts wherever they are killed,
\* as long as no rename failed.
THEOREM LogsRetained == Spec => []Retained
<1>1. ChainInv => Retained
  BY DEF ChainInv
<1> QED
  BY ChainCorrect, <1>1, PTL

-----------------------------------------------------------------------------
\* What a rename that failed costs.

Missing == {r \in opened : run - r < MaxFiles /\ r \notin Kept}

\* A failed rename has left a log in the number the loop fills next: the log is
\* still there, and the next step of the loop loses it.
Doomed == pc = "shift" /\ i < MaxFiles /\ slot[i] # 0

\* Every failed rename pays for one log, lost or doomed.
CostInv == Cardinality(Missing) + (IF Doomed THEN 1 ELSE 0) <= faults

LEMMA MissingFinite ==
  ASSUME ChainInv
  PROVE  IsFiniteSet(Missing) /\ Cardinality(Missing) \in Nat
<1>1. run \in Int /\ \A r \in opened : r \in Int /\ r >= 1 /\ r <= run
  BY DEF ChainInv, TypeOK
<1>2. Missing \in SUBSET (1 .. run)
  BY <1>1 DEF Missing
<1>3. IsFiniteSet(1 .. run)
  BY <1>1, FS_Interval
<1> QED
  BY <1>2, <1>3, FS_Subset, FS_CardinalityType

\* A step that adds at most r to what is missing.
LEMMA MissingGrows ==
  ASSUME ChainInv, NEW r, Missing' \subseteq Missing \cup {r}
  PROVE  /\ Cardinality(Missing') \in Nat
         /\ Cardinality(Missing') <= Cardinality(Missing) + 1
         /\ Missing' \subseteq Missing => Cardinality(Missing') <= Cardinality(Missing)
<1>1. IsFiniteSet(Missing) /\ Cardinality(Missing) \in Nat
  BY MissingFinite
<1>2. /\ IsFiniteSet(Missing \cup {r})
      /\ Cardinality(Missing \cup {r}) <= Cardinality(Missing) + 1
  BY <1>1, FS_AddElement
<1>3. Cardinality(Missing \cup {r}) \in Nat
  BY <1>2, FS_CardinalityType
<1>4. /\ IsFiniteSet(Missing')
      /\ Cardinality(Missing') <= Cardinality(Missing \cup {r})
  BY <1>2, FS_Subset
<1>5. Cardinality(Missing') \in Nat
  BY <1>4, FS_CardinalityType
<1>6. Missing' \subseteq Missing => Cardinality(Missing') <= Cardinality(Missing)
  BY <1>1, FS_Subset
<1> QED
  BY <1>1, <1>2, <1>3, <1>4, <1>5, <1>6

LEMMA RenameCost == ASSUME ChainInv, CostInv, Rename PROVE CostInv'
<1> USE ChainAssumption
<1>1. TypeOK /\ i > 1 /\ i \in Slots /\ i - 1 \in Slots
  BY DEF ChainInv, TypeOK, Slots, Rename, LoopEnds
<1>2. \A k \in Slots :
        /\ slot[i - 1] = 0 => slot'[k] = slot[k]
        /\ slot[i - 1] # 0 =>
             slot'[k] = IF k = i THEN slot[i - 1]
                        ELSE IF k = i - 1 THEN 0 ELSE slot[k]
  BY <1>1, RenamedFile DEF Rename
<1>3. ~Doomed'
  BY <1>1, <1>2 DEF Doomed, Rename
<1>4. \A r \in Kept : r \in Kept' \/ (r = slot[i] /\ slot[i - 1] # 0)
  <2> SUFFICES ASSUME NEW k \in Slots, slot[k] # 0, slot[k] # slot[i] \/ slot[i - 1] = 0
               PROVE  slot[k] \in Kept'
    BY DEF Kept
  <2>1. \E m \in Slots : slot'[m] = slot[k]
    BY <1>1, <1>2
  <2> QED
    BY <2>1 DEF Kept
<1>5. Missing' \subseteq Missing \cup {slot[i]}
  BY <1>4 DEF Missing, Rename
<1>6. faults' = faults /\ faults \in Nat /\ Cardinality(Missing) \in Nat
  BY <1>1, MissingFinite DEF Rename, TypeOK
<1>7. CASE Doomed
  <2>1. Cardinality(Missing') \in Nat /\ Cardinality(Missing') <= Cardinality(Missing) + 1
    BY <1>5, MissingGrows
  <2> QED
    BY <1>3, <1>6, <1>7, <2>1 DEF CostInv
<1>8. CASE ~Doomed
  <2>1. i = MaxFiles \/ slot[i] = 0
    BY <1>1, <1>8 DEF Doomed, Rename, Slots
  <2>2. slot[i] # 0 => run - slot[i] >= MaxFiles
    BY <1>1, <2>1 DEF ChainInv, AgeBound, Rename
  <2>3. \A r \in opened : r # 0
    BY <1>1 DEF TypeOK
  <2>4. run \in Nat /\ slot[i] \in Nat
    BY <1>1 DEF TypeOK
  <2>5. slot[i] \notin Missing'
    BY <2>2, <2>3, <2>4 DEF Missing, Rename
  <2>6. Missing' \subseteq Missing
    BY <1>5, <2>5
  <2>7. Cardinality(Missing') \in Nat /\ Cardinality(Missing') <= Cardinality(Missing)
    BY <1>5, <2>6, MissingGrows
  <2> QED
    BY <1>3, <1>6, <1>8, <2>7 DEF CostInv
<1> QED
  BY <1>7, <1>8

LEMMA OpenCost == ASSUME ChainInv, CostInv, Open PROVE CostInv'
<1> USE ChainAssumption
<1>1. i = 1 /\ 1 \in Slots /\ pc = "shift" /\ TypeOK
  BY DEF ChainInv, TypeOK, Slots, Open, LoopEnds
<1>2. \A k \in Slots : slot'[k] = IF k = 1 THEN run ELSE slot[k]
  BY <1>1 DEF TypeOK, Open
<1>3. ~Doomed'
  BY DEF Doomed, Open
<1>4. run # 0
  BY <1>1 DEF ChainInv, NotAhead, TypeOK
<1>5. run \in Kept' /\ \A r \in Kept : r \in Kept' \/ r = slot[1]
  BY <1>1, <1>2, <1>4 DEF Kept
<1>6. Missing' \subseteq Missing \cup {slot[1]}
  BY <1>5 DEF Missing, Open
<1>7. faults' = faults /\ faults \in Nat /\ Cardinality(Missing) \in Nat
  BY <1>1, MissingFinite DEF Open, TypeOK
<1>8. CASE Doomed
  <2>1. Cardinality(Missing') \in Nat /\ Cardinality(Missing') <= Cardinality(Missing) + 1
    BY <1>6, MissingGrows
  <2> QED
    BY <1>3, <1>7, <1>8, <2>1 DEF CostInv
<1>9. CASE ~Doomed
  <2>1. slot[1] = 0
    BY <1>1, <1>9 DEF Doomed
  <2>2. 0 \notin opened'
    BY <1>1, <1>4 DEF TypeOK, Open
  <2>3. Missing' \subseteq Missing
    BY <1>6, <2>1, <2>2 DEF Missing
  <2>4. Cardinality(Missing') \in Nat /\ Cardinality(Missing') <= Cardinality(Missing)
    BY <1>6, <2>3, MissingGrows
  <2> QED
    BY <1>3, <1>7, <1>9, <2>4 DEF CostInv
<1> QED
  BY <1>8, <1>9

\* Each failed rename costs at most one log, however many starts fail, are killed
\* or have no file.
THEOREM FaultsCostOneLog == Spec => []OneLogPerFault
<1> USE ChainAssumption
<1>1. Init => CostInv
  <2> SUFFICES ASSUME Init PROVE CostInv
    OBVIOUS
  <2>1. Missing = {} /\ ~Doomed /\ faults = 0
    BY DEF Init, Missing, Doomed
  <2> QED
    BY <2>1, FS_EmptySet DEF CostInv
<1>2. ChainInv /\ CostInv /\ [Next]_vars => CostInv'
  <2> SUFFICES ASSUME ChainInv, CostInv, [Next]_vars PROVE CostInv'
    OBVIOUS
  <2>1. Cardinality(Missing) \in Nat /\ faults \in Nat
    BY MissingFinite DEF ChainInv, TypeOK
  <2>2. CASE RenameFails
    <3>1. Missing' = Missing /\ faults' = faults + 1
      BY <2>2 DEF RenameFails, Missing, Kept
    <3> QED
      BY <2>1, <3>1 DEF CostInv
  <2>3. CASE Start
    <3>1. ~Doomed' /\ faults' = faults
      BY <2>3 DEF Start, FirstTarget, Doomed
    <3>2. Missing' \subseteq Missing
      <4>1. /\ run' = run + 1 /\ opened' = opened /\ Kept' = Kept
            /\ run \in Nat /\ opened \subseteq Nat
        BY <2>3 DEF Start, Kept, ChainInv, TypeOK
      <4>2. \A r \in opened : run + 1 - r < MaxFiles => run - r < MaxFiles
        BY <4>1
      <4>3. Missing' = {r \in opened : run + 1 - r < MaxFiles /\ r \notin Kept}
        BY <4>1 DEF Missing
      <4> QED
        BY <4>2, <4>3 DEF Missing
    <3>3. Cardinality(Missing') \in Nat /\ Cardinality(Missing') <= Cardinality(Missing)
      BY <3>2, MissingGrows
    <3> QED
      BY <2>1, <3>1, <3>3 DEF CostInv
  <2>4. CASE OpenFails \/ Kill
    <3>1. Missing' = Missing /\ ~Doomed' /\ faults' = faults
      BY <2>4 DEF OpenFails, Kill, Missing, Doomed, Kept
    <3> QED
      BY <2>1, <3>1 DEF CostInv
  <2>5. CASE UNCHANGED vars
    BY <2>5 DEF vars, CostInv, Missing, Doomed, Kept
  <2> QED
    BY <2>2, <2>3, <2>4, <2>5, RenameCost, OpenCost DEF Next
<1>3. ChainInv /\ CostInv => OneLogPerFault
  BY MissingFinite DEF CostInv, OneLogPerFault, Missing, ChainInv, TypeOK
<1> QED
  BY ChainCorrect, <1>1, <1>2, <1>3, PTL DEF Spec

-----------------------------------------------------------------------------
\* A step of the chain is a step of the retention promise.

\* A rename that loses a log loses the one in the last file, which is the oldest
\* and at least MaxFiles starts old.
LEMMA RenameRefines ==
  ASSUME ChainInv, faults = 0, Rename
  PROVE  Kept' = Kept \/ \E r \in Kept : Retention!Evict(r)
<1> USE ChainAssumption
<1>1. TypeOK /\ i > 1 /\ i \in Slots /\ i - 1 \in Slots
  BY DEF ChainInv, TypeOK, Slots, Rename, LoopEnds
<1>2. \A k \in Slots :
        /\ slot[i - 1] = 0 => slot'[k] = slot[k]
        /\ slot[i - 1] # 0 =>
             slot'[k] = IF k = i THEN slot[i - 1]
                        ELSE IF k = i - 1 THEN 0 ELSE slot[k]
  BY <1>1, RenamedFile DEF Rename
<1>3. CASE slot[i - 1] = 0 \/ slot[i] = 0
  <2>1. \A r : r \in Kept' <=> r \in Kept
    BY <1>1, <1>2, <1>3 DEF Kept
  <2> QED
    BY <2>1
<1>4. CASE slot[i - 1] # 0 /\ slot[i] # 0
  <2>1. i = MaxFiles
    BY <1>1, <1>4 DEF ChainInv, Freed, Rename, Slots
  <2>2. slot[i] \in Kept /\ run - slot[i] >= MaxFiles
    BY <1>1, <1>4, <2>1 DEF ChainInv, AgeBound, Rename, Kept
  <2>3. \A k \in Slots : k # i /\ slot[k] # 0 => slot[i] < slot[k]
    BY <1>1, <1>4, <2>1 DEF ChainInv, TypeOK, AgeOrdered, Slots
  <2>4. \A r : r \in Kept' <=> r \in Kept \ {slot[i]}
    <3>1. \A k \in Slots : slot[k] \in Nat
      BY <1>1 DEF TypeOK
    <3>2. \A k \in Slots : slot'[k] # 0 => slot'[k] \in Kept \ {slot[i]}
      BY <1>1, <1>2, <1>4, <2>1, <2>3, <3>1 DEF Kept, Slots
    <3>3. \A k \in Slots : slot[k] # 0 /\ slot[k] # slot[i] =>
            \E m \in Slots : slot'[m] = slot[k]
      BY <1>1, <1>2, <1>4
    <3> QED
      BY <3>2, <3>3 DEF Kept
  <2>5. \A s \in Kept : slot[i] <= s
    BY <1>1, <2>3 DEF Kept, TypeOK
  <2>6. Retention!Evict(slot[i])
    BY <2>2, <2>4, <2>5 DEF Retention!Evict, Rename
  <2> QED
    BY <2>2, <2>6
<1> QED
  BY <1>3, <1>4

LEMMA OpenRefines ==
  ASSUME ChainInv, faults = 0, Open
  PROVE  Retention!Save
<1> USE ChainAssumption
<1>1. i = 1 /\ 1 \in Slots /\ slot[1] = 0 /\ TypeOK
  BY DEF ChainInv, TypeOK, Slots, Open, LoopEnds, Freed
<1>2. \A k \in Slots : slot'[k] = IF k = 1 THEN run ELSE slot[k]
  BY <1>1 DEF TypeOK, Open
<1>3. run # 0 /\ \A r \in Kept : r < run
  BY <1>1 DEF ChainInv, NotAhead, Open, Kept, TypeOK
<1>4. \A r : r \in Kept' <=> r \in Kept \cup {run}
  BY <1>1, <1>2, <1>3 DEF Kept
<1> QED
  BY <1>3, <1>4 DEF Retention!Save, Open

\* No step loses a log while an older one survives, as long as no rename failed.
THEOREM OldestLeavesFirst == Spec => OldestFirst
<1> DEFINE Lost == \A r \in Kept \ Kept' : \A s \in Kept : r <= s
<1>1. ChainInv /\ [Next]_vars => [faults' = 0 => Lost]_vars
  <2> SUFFICES ASSUME ChainInv, Next, faults' = 0 PROVE Lost
    BY DEF vars
  <2>1. CASE Rename
    BY <2>1, RenameRefines DEF Rename, Retention!Evict
  <2>2. CASE Open
    BY <2>2, OpenRefines DEF Open, Retention!Save
  <2>3. CASE RenameFails
    BY <2>3 DEF RenameFails, Kept
  <2>4. CASE Start \/ OpenFails \/ Kill
    BY <2>4 DEF Start, OpenFails, Kill, Kept
  <2> QED
    BY <2>1, <2>2, <2>3, <2>4 DEF Next
<1> QED
  BY ChainCorrect, <1>1, PTL DEF Spec, OldestFirst

\* The file that is opened for a new log did not exist, unless a rename failed.
THEOREM NewLogInFreshFile == Spec => FreshFile
<1>1. ChainInv /\ [Next]_vars => [opened' # opened /\ slot[1] # 0 => faults > 0]_vars
  <2> SUFFICES ASSUME ChainInv, Next, opened' # opened, faults = 0
               PROVE  slot[1] = 0
    BY DEF vars, ChainInv, TypeOK
  <2>1. Open
    BY DEF Next, Start, Rename, RenameFails, OpenFails, Kill
  <2> QED
    BY <2>1, ChainAssumption DEF ChainInv, TypeOK, Freed, Slots, Open, LoopEnds
<1> QED
  BY ChainCorrect, <1>1, PTL DEF Spec, FreshFile

\* Without failed renames the rename chain implements LogRetention: kills
\* between the renames are invisible there.
THEOREM ChainImplementsRetention ==
  ASSUME MaxFaults = 0
  PROVE  Spec => RetentionSpec
<1>1. Init => Retention!Init
  BY ChainAssumption DEF Init, Retention!Init, Kept, Slots
<1>2. ChainInv /\ [Next]_vars => [Retention!Next]_(Retention!vars)
  <2> SUFFICES ASSUME ChainInv, [Next]_vars
               PROVE  [Retention!Next]_(Retention!vars)
    OBVIOUS
  <2> faults = 0
    BY MaxFaults = 0 DEF ChainInv, TypeOK
  <2>1. CASE Rename
    BY <2>1, RenameRefines DEF Retention!Next, Retention!vars, Rename
  <2>2. CASE Open
    BY <2>2, OpenRefines DEF Retention!Next
  <2>3. CASE Start
    BY <2>3 DEF Start, Retention!Next, Retention!NewRun, Kept
  <2>4. CASE RenameFails \/ OpenFails \/ Kill \/ UNCHANGED vars
    BY <2>4 DEF RenameFails, OpenFails, Kill, vars, Retention!vars, Kept
  <2> QED
    BY <2>1, <2>2, <2>3, <2>4 DEF Next
<1> QED
  BY ChainCorrect, <1>1, <1>2, PTL DEF Spec, RetentionSpec, Retention!Spec

=============================================================================
