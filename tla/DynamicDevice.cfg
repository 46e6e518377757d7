\* Every file of up to three lines, two interrupted or failed calls.
CONSTANTS
  MaxLines = 3
  MaxFaults = 2
SPECIFICATION Spec
INVARIANTS
  WrittenInOrder
  AllWritten
PROPERTIES
  ParseEnds
CHECK_DEADLOCK FALSE
