\* The boot logger and the normal logger on /proc/kmsg: four bytes in buffers of
\* two, one stop, and two failed writes in any place of the loop, so that off
\* becomes negative; the boot logger never splits, here both do.
CONSTANTS
  boot = boot
  normal = normal
  Procs = {boot, normal}
  Src = 4
  BufSize = 2
  LogMaxSize = 2
  MaxErrors = 2
  MaxKills = 1
SPECIFICATION Spec
INVARIANTS
  TypeOK
  LoopStaysInChunk
  NoByteSkipped
  NoByteTwice
  LossBounded
  FileBound
PROPERTIES
  EveryByteSaved
CHECK_DEADLOCK FALSE
