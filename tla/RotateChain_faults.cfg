\* Four files and up to three failed renames, so that several failures can
\* fall into one start.
CONSTANTS
  MaxFiles = 4
  MaxRuns = 6
  MaxFaults = 3
SPECIFICATION Spec
INVARIANTS
  AgeOrdered
  OneLogPerFault
PROPERTIES
  FreshFile
CHECK_DEADLOCK FALSE
