\* The modem and the net device enabled, three requests, the oneshot tcpdump.
CONSTANTS
  MaxSets = 3
  Modem = TRUE
  Net = TRUE
  Options = {"tcpdump_wlan"}
SPECIFICATION Spec
INVARIANTS
  TypeOK
  StopIsComplete
  StartIsComplete
  BootLogCopiedAfterStop
  CaptureLostOnlyWithoutParent
PROPERTIES
  StartCaptures
  StopTakesEffect
CHECK_DEADLOCK FALSE
