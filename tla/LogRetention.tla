--------------------------- MODULE LogRetention ---------------------------
(***************************************************************************)
(* What a numbered log history promises, whatever files implement it: each *)
(* start of the logger may save one log, the newest; a log leaves the      *)
(* history only when it is the oldest one kept and MaxFiles later starts   *)
(* have begun.                                                             *)
(***************************************************************************)
EXTENDS Naturals

CONSTANT MaxFiles

VARIABLES
  run,   \* number of starts so far; the current start's number
  kept   \* the starts whose log is kept

vars == <<run, kept>>

Init ==
  /\ run = 0
  /\ kept = {}

NewRun ==
  /\ run' = run + 1
  /\ UNCHANGED kept

Save ==
  /\ \A r \in kept : r < run
  /\ kept' = kept \cup {run}
  /\ UNCHANGED run

Evict(r) ==
  /\ \A s \in kept : r <= s
  /\ run - r >= MaxFiles
  /\ kept' = kept \ {r}
  /\ UNCHANGED run

Next == NewRun \/ Save \/ \E r \in kept : Evict(r)

Spec == Init /\ [][Next]_vars

=============================================================================
