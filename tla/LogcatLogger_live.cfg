\* Recovery: three messages, the second of a buffer the logger does not open, in a
\* ring of two; a rotation after each message, every file in
\* a second of its own.
CONSTANTS
  n1 = n1
  n2 = n2
  n3 = n3
  n4 = n4
  n5 = n5
  n6 = n6
  n7 = n7
  n8 = n8
  n9 = n9
  NoFile = NoFile
  Msgs = {1, 2, 3}
  Dev <- MCDev
  Args <- MCArgs
  Size <- MCSize
  Names = {n1, n2, n3, n4, n5, n6, n7, n8, n9}
  NewSeconds = TRUE
  MaxLogSize = 1
  ErrLimit = 1
  RingCap = 2
  Budget <- RecoveryBudget
SPECIFICATION Spec
PROPERTIES
  EverySaved
  StreamComesBack
  DeliverySpec
CHECK_DEADLOCK FALSE
