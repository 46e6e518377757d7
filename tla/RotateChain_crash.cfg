\* Three files as configured by ConfigData::read, up to seven starts, no
\* rename failure: kills between any two steps.
CONSTANTS
  MaxFiles = 3
  MaxRuns = 7
  MaxFaults = 0
SPECIFICATION Spec
INVARIANTS
  TypeOK
  AgeOrdered
  Retained
PROPERTIES
  OldestFirst
  RetentionSpec
CHECK_DEADLOCK FALSE
