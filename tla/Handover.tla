------------------------------ MODULE Handover ------------------------------
(***************************************************************************)
(* The kernel log across the services: init and the triggers of            *)
(* LoggerService start and stop the processes whose kmsg threads are the   *)
(* readers of KernelReader.  zxbootlogger reads /proc/kmsg from the boot   *)
(* on, zxlogger takes over when the app asks for a recording, and logcp    *)
(* copies what the boot logger left.                                       *)
(*                                                                         *)
(* The thread capture of LoggerService is zxlogger's kmsg thread: a step   *)
(* that starts or stops a process or opens the log of zxlogger is a step   *)
(* of both components, every other step belongs to one of them.  Failed    *)
(* writes and splits are left to KernelReader.                             *)
(***************************************************************************)
EXTENDS LoggerService

CONSTANTS
  Src,       \* bound on the bytes of the kernel log
  BufSize,
  MaxKills   \* bound on stops of a process; enough for MaxSets requests

Boot == "zxbootlogger"
Normal == "zxlogger"
Procs == {Boot, Normal}

VARIABLES avail, next, pc, chunk, off, nr, total, files, fd, reused, lost, errs, kills

Reader == INSTANCE KernelReader WITH LogMaxSize <- 0, MaxErrors <- 0

reader == <<avail, next, pc, chunk, off, nr, total, files, fd, reused, lost, errs, kills>>
handoverVars == <<vars, reader>>

HandoverInit == Init /\ Reader!Init /\ up = {}

-----------------------------------------------------------------------------

\* The boot starts class main, before any app runs.
StartBootLogger ==
  /\ sets = 0
  /\ Boot \notin up
  /\ up' = {Boot}
  /\ Reader!Start(Boot)
  /\ UNCHANGED <<running, sets, queue, commands, dirs, threads, logcp, recording, hist>>

InitStarts ==
  /\ StartService
  /\ IF Normal \in up' \ up THEN Reader!Start(Normal) ELSE UNCHANGED reader

\* A process that is gone takes its reader with it.
ReadersStopped ==
  LET gone == (up \ up') \cap Procs
  IN  IF gone = {} THEN UNCHANGED reader ELSE \E p \in gone : Reader!Kill(p)

InitStops == StopService /\ ReadersStopped

InitSteps ==
  \/ InitStarts \/ InitStops
  \/ (HandleChange \/ SetProp) /\ UNCHANGED reader

\* readFile opens its log in the directory the thread has found or made.
ZxloggerThreads ==
  /\ Zxlogger
  /\ CASE capture = "mkdir2" /\ capture' = "capturing" -> Reader!OpenFiles(Normal)
       [] capture = "mkdir2" /\ capture' = "dead" -> Reader!OpenFails(Normal)
       [] OTHER -> ReadersStopped

Copy(p) ==
  /\ \/ Reader!Read(p) \/ Reader!Write(p)
     \/ p = Boot /\ (Reader!OpenFiles(p) \/ Reader!OpenFails(p))
  /\ UNCHANGED vars

Environment ==
  \/ StartBootLogger
  \/ SetRunning /\ UNCHANGED reader
  \/ Reader!KernelLog /\ UNCHANGED vars

ToolSteps == Tools /\ UNCHANGED reader

HandoverNext ==
  \/ Environment \/ InitSteps \/ ZxloggerThreads \/ ToolSteps
  \/ \E p \in Procs : Copy(p)

HandoverSpec ==
  /\ HandoverInit /\ [][HandoverNext]_handoverVars
  /\ WF_handoverVars(InitSteps) /\ WF_handoverVars(ZxloggerThreads)
  /\ WF_handoverVars(ToolSteps)
  /\ \A p \in Procs : WF_handoverVars(Copy(p))

-----------------------------------------------------------------------------

\* What logcp copies is the whole boot log: from then on, and after any request
\* has been carried out, the boot logger's files take no byte more.
BootLogFinal ==
  [][logcp = "cp" \/ (Settled /\ sets > 0) => files'[Boot] = files[Boot]]_handoverVars

\* After a stop has been carried out nobody consumes the kernel log: it stays for
\* the next start.
StoppedReadsNothing ==
  [][Settled /\ running = "0" => next' = next]_handoverVars

\* Recording has the last word: when the last request is a start and .../zxlog was
\* there for the zxlogger that carries it out, every byte of the kernel log, also one
\* logged before the request, between two recordings or during the handover, is
\* saved for good in the end or was in the buffer of a reader that was stopped,
\* unless zxlogger is stopped and started within a second and so writes over its own
\* file.
AllRecorded ==
  <>[](running = "1" /\ ~noParent) =>
    <>[](\A b \in 1..avail : Reader!InFile(b) \/ b \in lost \/ reused)

=============================================================================
