\* No fault but one burst of read errors.
CONSTANTS
  n1 = n1
  n2 = n2
  n3 = n3
  n4 = n4
  n5 = n5
  n6 = n6
  n7 = n7
  n8 = n8
  n9 = n9
  NoFile = NoFile
  Msgs = {1, 2, 3, 4}
  Dev <- MCDev
  Args <- MCArgs
  Size <- MCSize
  Names = {n1, n2, n3}
  NewSeconds = FALSE
  MaxLogSize = 3
  ErrLimit = 1
  RingCap = 3
  Budget <- ErrorBudget
SPECIFICATION Spec
INVARIANTS
  NewFileAtMaxSize
CHECK_DEADLOCK FALSE
