---------------------------- MODULE RotateChain ----------------------------
(***************************************************************************)
(* The numbered log files <name>1 .. <name>MaxFiles of a special mode      *)
(* (boot, ota, recovery, ...).  Every start of the process renames i-1 to  *)
(* i, from the last number down to 2, then opens number 1 with O_CREAT and *)
(* without O_TRUNC.  The same loop is in LogcatLogger::createLogFile and   *)
(* in LogDeviceBase::readFile.  Each rename is a step of its own: the      *)
(* process is killed (init's stop, a reboot) between any two of them.      *)
(*                                                                         *)
(* A file is represented by the start whose log it holds from offset 0.    *)
(* Opening an existing file overwrites it from offset 0, so its former     *)
(* log is no longer kept.                                                  *)
(***************************************************************************)
EXTENDS Naturals, FiniteSets

CONSTANTS
  MaxFiles,   \* maxFiles, 3 in every special mode
  MaxRuns,    \* bound on the starts
  MaxFaults   \* bound on the renames that fail although the source exists

ASSUME ChainAssumption ==
  /\ MaxFiles \in Nat \ {0, 1}
  /\ MaxRuns \in Nat
  /\ MaxFaults \in Nat

VARIABLES
  slot,    \* slot[k]: the start whose log is in file k, 0 if there is no file k
  run,     \* starts so far
  pc,      \* where the process is: down, shift, capture, idle
  i,       \* the loop variable
  opened,  \* the starts that got their file open
  faults   \* renames that failed so far

vars == <<slot, run, pc, i, opened, faults>>

Slots == 1..MaxFiles

Kept == {slot[k] : k \in Slots} \ {0}

-----------------------------------------------------------------------------
\* Wrong variants used to check that the properties bite.

FirstTargetOffByOne == MaxFiles - 1

RenamedCopy(s, k) == [s EXCEPT ![k] = s[k - 1]]

ExistingTargetStays(s, k) ==
  IF s[k] = 0 THEN [s EXCEPT ![k] = s[k - 1], ![k - 1] = 0]
  ELSE [s EXCEPT ![k - 1] = 0]

LoopEndsEarly(k) == k <= 2

FirstTargetPastEnd == MaxFiles + 1

-----------------------------------------------------------------------------

\* i = maxFiles
FirstTarget == MaxFiles

\* rename(<name>k-1, <name>k): replaces file k; ENOENT is only logged.
Renamed(s, k) ==
  IF s[k - 1] = 0 THEN s ELSE [s EXCEPT ![k] = s[k - 1], ![k - 1] = 0]

\* while (i > 1)
LoopEnds(k) == k <= 1

Init ==
  /\ slot = [k \in Slots |-> 0]
  /\ run = 0
  /\ pc = "down"
  /\ i = MaxFiles
  /\ opened = {}
  /\ faults = 0

\* The service starts and its thread reaches the rename loop.
Start ==
  /\ pc = "down"
  /\ run < MaxRuns
  /\ run' = run + 1
  /\ pc' = "shift"
  /\ i' = FirstTarget
  /\ UNCHANGED <<slot, opened, faults>>

Rename ==
  /\ pc = "shift"
  /\ ~LoopEnds(i)
  /\ slot' = Renamed(slot, i)
  /\ i' = i - 1
  /\ UNCHANGED <<run, pc, opened, faults>>

\* An I/O error: the code logs it and goes on with the next number.
RenameFails ==
  /\ pc = "shift"
  /\ ~LoopEnds(i)
  /\ slot[i - 1] # 0
  /\ faults < MaxFaults
  /\ faults' = faults + 1
  /\ i' = i - 1
  /\ UNCHANGED <<slot, run, pc, opened>>

\* open(<name>1, O_WRONLY | O_CREAT)
Open ==
  /\ pc = "shift"
  /\ LoopEnds(i)
  /\ slot' = [slot EXCEPT ![1] = run]
  /\ opened' = opened \cup {run}
  /\ pc' = "capture"
  /\ UNCHANGED <<run, i, faults>>

\* No file, no capture: the thread sleeps until the process ends.
OpenFails ==
  /\ pc = "shift"
  /\ LoopEnds(i)
  /\ pc' = "idle"
  /\ UNCHANGED <<slot, run, i, opened, faults>>

Kill ==
  /\ pc # "down"
  /\ pc' = "down"
  /\ UNCHANGED <<slot, run, i, opened, faults>>

Next == Start \/ Rename \/ RenameFails \/ Open \/ OpenFails \/ Kill

Spec == Init /\ [][Next]_vars

-----------------------------------------------------------------------------

TypeOK ==
  /\ slot \in [Slots -> Nat]
  /\ run \in Nat
  /\ pc \in {"down", "shift", "capture", "idle"}
  /\ i \in Slots
  /\ opened \subseteq Nat \ {0}
  /\ faults \in Nat

\* A higher number is an older log: at every moment, in the middle of the
\* rename loop, after a kill between two renames and even after renames that
\* failed, the files read in number order go from the newest log to the oldest.
AgeOrdered ==
  \A a, b \in Slots :
    a < b /\ slot[a] # 0 /\ slot[b] # 0 => slot[a] > slot[b]

\* The log of a start is kept for as long as fewer than MaxFiles later starts have
\* begun, wherever in the rename loop they were killed and whether or not they opened
\* a file, unless a rename failed.  (A start that is killed after its renames counts:
\* it has moved the logs, so one that opens nothing may still use up a number.)
Retained ==
  faults = 0 =>
    \A r \in opened : run - r < MaxFiles => r \in Kept

\* The code goes on after a rename that failed and thereby overwrites the file
\* it could not move: each failure costs at most one of the logs that should
\* still be there, never a whole history.
OneLogPerFault ==
  Cardinality({r \in opened : run - r < MaxFiles /\ r \notin Kept}) <= faults

\* Without failed renames the history loses logs from its old end only: no step
\* makes a log disappear while an older one survives.
OldestFirst ==
  [][faults' = 0 =>
       \A r \in Kept \ Kept' : \A s \in Kept : r <= s]_vars

\* Number 1 is opened without O_TRUNC and written from offset 0: a log shorter than
\* the one the file held would end in a stale tail of that one.  The rename loop
\* leaves no file number 1 behind, unless a rename failed.
FreshFile ==
  [][opened' # opened /\ slot[1] # 0 => faults > 0]_vars

\* Without failed renames the chain implements the retention promise.
Retention == INSTANCE LogRetention WITH kept <- Kept

RetentionSpec == Retention!Spec

=============================================================================
