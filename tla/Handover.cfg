\* Three requests, as in start, stop, start; two bytes of kernel log at any moment
\* in a buffer of two; at most four stops in three requests.
CONSTANTS
  MaxSets = 3
  Src = 2
  BufSize = 2
  MaxKills = 5
  Modem = FALSE
  Net = FALSE
  Options = {"tcpdump_all"}
SPECIFICATION HandoverSpec
PROPERTIES
  BootLogFinal
  StoppedReadsNothing
  AllRecorded
CHECK_DEADLOCK FALSE
