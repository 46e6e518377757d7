---------------------------- MODULE LogcatLogger ----------------------------
(***************************************************************************)
(* One LogcatLogger (logcatcore.cpp): a thread reads Android's log buffers *)
(* from logd and writes the messages into files.  It starts a new file     *)
(* when the counted bytes reach MaxLogSize, throws its reader away after   *)
(* more than ErrLimit errors in a row (the new reader starts at the oldest *)
(* message logd holds), and goes on with the old file when it cannot       *)
(* create a new one.  What all this is for is LogDelivery.                 *)
(*                                                                         *)
(* Messages are numbered in the order of the log.  logd holds the messages *)
(* base..logged, at most RingCap of them, and may crash and restart with   *)
(* an empty buffer.  A file is a sequence of cells, written at the offset  *)
(* of the descriptor: a file opened again keeps what is not overwritten,   *)
(* as open(2) without O_TRUNC does.  Names has one element in mode         *)
(* boot_hung_monitor and one element for each second the clock may show in *)
(* mode normal; the numbered names of the other modes are RotateChain's.   *)
(***************************************************************************)
EXTENDS Integers, Sequences, FiniteSets

CONSTANTS
  Msgs,        \* 1..N: the messages of one behaviour
  Dev,         \* Dev[m]: the log buffer of message m
  Args,        \* the arguments of the constructor, at most five
  Size,        \* Size[m]: bytes of the printed line
  Names,       \* the file names createLogFile can produce
  NewSeconds,  \* every creation falls into a second of its own
  NoFile,      \* -1 as a descriptor
  MaxLogSize,  \* rotation threshold, 0 for none
  ErrLimit,    \* errcount > ErrLimit makes a new reader (10)
  RingCap,     \* messages logd holds
  Budget       \* bounds on the events counted in used

\* Failed set-ups of the capture, failed rotations, messages not written, stops
\* of the service, read errors, crashes of logd.
Events == {"setup", "rotate", "drop", "kill", "error", "crash"}

\* deviceName
DeviceName == {"main", "radio", "events", "system", "crash"}

ASSUME LoggerAssumption ==
  /\ IsFiniteSet(Msgs) /\ Msgs = 1..Cardinality(Msgs)
  /\ Dev \in [Msgs -> DeviceName]
  /\ Len(Args) <= 5
  /\ Size \in [Msgs -> Nat \ {0}]
  /\ NoFile \notin Names
  /\ NewSeconds \in BOOLEAN
  /\ MaxLogSize \in Nat
  /\ ErrLimit \in Nat
  /\ RingCap \in Nat \ {0}
  /\ Budget \in [Events -> Nat]

VARIABLES
  base, logged,  \* logd holds the messages base..logged
  up,            \* logd runs
  conn,          \* the reader: new, open or broken
  cursor,        \* the next message the reader gets
  pc,            \* the thread: down, format, create, repeat, read, process, rotate, dead
  msg,           \* log_msg, 0 outside process
  errcount,
  outByteCount,
  outFD,         \* the name outFD is open on, NoFile for -1
  off,           \* file offset of outFD
  printed,       \* the buffers whose banner was written
  file,          \* file[n]: the bytes of file n
  opens,         \* opens[n]: how often file n was opened (history)
  dropped,       \* messages read but not written in full (history)
  used           \* used[e]: how often event e happened (history, bounds)

logd == <<base, logged, up>>
reader == <<conn, cursor>>
output == <<outFD, off, printed, file, opens>>
vars == <<logd, reader, pc, msg, errcount, outByteCount, output, dropped, used>>

Capturing == pc \notin {"down", "dead"}

\* deviceList: addLogcatDevice for each argument takes a known name once.
DeviceList == DeviceName \cap {Args[j] : j \in DOMAIN Args}

Spend(e) ==
  /\ used[e] < Budget[e]
  /\ used' = [used EXCEPT ![e] = @ + 1]

Line(m) == [j \in 1..Size[m] |-> <<m, j>>]

Banner(d) == <<<<0, d>>>>

\* write(2): the bytes s at offset o of the bytes f.
Overwrite(f, o, s) ==
  [p \in 1..(IF o + Len(s) > Len(f) THEN o + Len(s) ELSE Len(f)) |->
     IF p \in o + 1 .. o + Len(s) THEN s[p - o] ELSE f[p]]

Init ==
  /\ base = 1 /\ logged = 0 /\ up = TRUE
  /\ conn = "new" /\ cursor = 1
  /\ pc = "down"
  /\ msg = 0
  /\ errcount = 0
  /\ outByteCount = 0
  /\ outFD = NoFile
  /\ off = 0
  /\ printed = {}
  /\ file = [n \in Names |-> <<>>]
  /\ opens = [n \in Names |-> 0]
  /\ dropped = {}
  /\ used = [e \in Events \cup {"connect"} |-> 0]

-----------------------------------------------------------------------------
\* logd and init, the environment.

\* A program logs a message; a full buffer drops its oldest one.
Log ==
  /\ up
  /\ logged + 1 \in Msgs
  /\ logged' = logged + 1
  /\ base' = IF logged + 1 - base >= RingCap THEN base + 1 ELSE base
  /\ UNCHANGED <<up, reader, pc, msg, errcount, outByteCount, output, dropped, used>>

LogdCrash ==
  /\ up
  /\ Spend("crash")
  /\ up' = FALSE
  /\ base' = logged + 1
  /\ conn' = IF conn = "open" THEN "broken" ELSE conn
  /\ UNCHANGED <<logged, cursor, pc, msg, errcount, outByteCount, output, dropped>>

LogdRestart ==
  /\ ~up
  /\ up' = TRUE
  /\ UNCHANGED <<base, logged, reader, pc, msg, errcount, outByteCount, output, dropped, used>>

\* init starts the service: a new process, a new LogcatLogger.
StartService ==
  /\ pc = "down"
  /\ pc' = "format"
  /\ conn' = "new"
  /\ outByteCount' = 0
  /\ outFD' = NoFile
  /\ off' = 0
  /\ printed' = {}
  /\ UNCHANGED <<logd, cursor, msg, errcount, file, opens, dropped, used>>

\* init stops the service, in whatever the thread is doing.
Kill ==
  /\ pc # "down"
  /\ Spend("kill")
  /\ pc' = "down"
  /\ msg' = 0
  /\ UNCHANGED <<logd, reader, errcount, outByteCount, output, dropped>>

-----------------------------------------------------------------------------
\* The thread.

\* setLogFormatAndLogSize; "threadtime" is a format liblog knows.
SetFormat ==
  /\ pc = "format"
  /\ pc' = "create"
  /\ UNCHANGED <<logd, reader, msg, errcount, outByteCount, output, dropped, used>>

\* No format or no filter: the thread ignores it, but startCaptureLog finds
\* plogFormat NULL and returns -1.
SetFormatFails ==
  /\ pc = "format"
  /\ Spend("setup")
  /\ pc' = "dead"
  /\ UNCHANGED <<logd, reader, msg, errcount, outByteCount, output, dropped>>

\* The name of this moment: any, or with NewSeconds one not used before.
NamesNow ==
  LET unused == {n \in Names : opens[n] = 0}
  IN  IF NewSeconds THEN {n \in unused : n = CHOOSE u \in unused : TRUE} ELSE Names

\* createLogFile: O_WRONLY | O_CREAT; the file that was open is closed.
OpenFile ==
  \E n \in NamesNow :
    /\ outFD' = n
    /\ off' = 0
    /\ opens' = [opens EXCEPT ![n] = @ + 1]
    /\ UNCHANGED <<printed, file>>

CreateFirstFile ==
  /\ pc = "create"
  /\ OpenFile
  /\ pc' = "repeat"
  /\ UNCHANGED <<logd, reader, msg, errcount, outByteCount, dropped, used>>

\* startCaptureLog returns -1 and its thread sleeps for ever.
CreateFirstFileFails ==
  /\ pc = "create"
  /\ Spend("setup")
  /\ pc' = "dead"
  /\ UNCHANGED <<logd, reader, msg, errcount, outByteCount, output, dropped>>

\* repeat: a new reader list.  It connects to logd at its first read.
MakeReader ==
  /\ pc = "repeat"
  /\ conn' = "new"
  /\ outByteCount' = 0
  /\ errcount' = 0
  /\ pc' = "read"
  /\ UNCHANGED <<logd, cursor, msg, output, dropped, used>>

\* android_logger_list_alloc or android_logger_open gives NULL: return -1.
MakeReaderFails ==
  /\ pc = "repeat"
  /\ Spend("setup")
  /\ pc' = "dead"
  /\ UNCHANGED <<logd, reader, msg, errcount, outByteCount, output, dropped>>

\* Wrong variants used to check that the properties bite.

TailOnly == logged + 1

CloseFirst ==
  /\ pc = "rotate"
  /\ Spend("rotate")
  /\ pc' = "read"
  /\ outFD' = NoFile /\ off' = 0
  /\ UNCHANGED <<logd, reader, msg, errcount, outByteCount, printed, file, opens, dropped>>

GiveUpAtRotation ==
  /\ pc = "rotate"
  /\ Spend("rotate")
  /\ pc' = "dead"
  /\ UNCHANGED <<logd, reader, msg, errcount, outByteCount, output, dropped>>

RedoSameReader ==
  /\ pc = "read"
  /\ errcount > ErrLimit
  /\ errcount' = 0
  /\ UNCHANGED <<logd, reader, pc, msg, outByteCount, output, dropped, used>>

EmitForEachDevice(s) ==
  /\ file' = [file EXCEPT ![outFD] = Overwrite(@, off, s \o s)]
  /\ off' = off + 2 * Len(s)
  /\ printed' = printed \cup {Dev[msg]}
  /\ UNCHANGED <<outFD, opens>>

AfterMessageOver(count) ==
  /\ outByteCount' = count
  /\ msg' = 0
  /\ pc' = IF MaxLogSize # 0 /\ count > MaxLogSize THEN "rotate" ELSE "read"

-----------------------------------------------------------------------------

\* tail_lines = 0: a list starts at the oldest message.
StreamStart == base

\* The first read of a list connects to logd.
Connect ==
  /\ pc = "read" /\ errcount <= ErrLimit
  /\ up
  /\ conn = "new"
  /\ conn' = "open"
  /\ cursor' = StreamStart
  /\ used' = [used EXCEPT !["connect"] = @ + 1]
  /\ UNCHANGED <<logd, pc, msg, errcount, outByteCount, output, dropped>>

\* What the stream has still to deliver of the buffers that were opened.
Pending == {m \in base..logged : m >= cursor /\ Dev[m] \in DeviceList}

Read ==
  /\ pc = "read" /\ errcount <= ErrLimit
  /\ up
  /\ conn = "open"
  /\ \E m \in Pending :
       /\ \A n \in Pending : m <= n
       /\ msg' = m
       /\ cursor' = m + 1
  /\ errcount' = 0
  /\ pc' = "process"
  /\ UNCHANGED <<logd, conn, outByteCount, output, dropped, used>>

\* EOF, EAGAIN, EIO or EINVAL: for ever on a broken stream and without logd, a
\* bounded number of times otherwise.
ReadError ==
  /\ pc = "read" /\ errcount <= ErrLimit
  /\ \/ /\ conn = "broken" \/ ~up
        /\ UNCHANGED used
     \/ /\ conn = "open" /\ up
        /\ Spend("error")
  /\ errcount' = errcount + 1
  /\ UNCHANGED <<logd, reader, pc, msg, outByteCount, output, dropped>>

Redo ==
  /\ pc = "read"
  /\ errcount > ErrLimit
  /\ pc' = "repeat"
  /\ UNCHANGED <<logd, reader, msg, errcount, outByteCount, output, dropped, used>>

\* printStart for the first message of a buffer, then s bytes of the message.
Emit(s) ==
  LET out == (IF Dev[msg] \in printed THEN <<>> ELSE Banner(Dev[msg])) \o s
  IN  /\ file' = [file EXCEPT ![outFD] = Overwrite(@, off, out)]
      /\ off' = off + Len(out)
      /\ printed' = printed \cup {Dev[msg]}
      /\ UNCHANGED <<outFD, opens>>

AfterMessage(count) ==
  /\ outByteCount' = count
  /\ msg' = 0
  /\ pc' = IF MaxLogSize # 0 /\ count >= MaxLogSize THEN "rotate" ELSE "read"

Process ==
  /\ pc = "process"
  /\ Emit(Line(msg))
  /\ AfterMessage(outByteCount + Size[msg])
  /\ UNCHANGED <<logd, reader, errcount, dropped, used>>

\* A full disk: part of the line is written, and counted; none of it if the
\* filter of the format does not let the line through.
ProcessShort ==
  /\ pc = "process"
  /\ Spend("drop")
  /\ \E k \in 0..Size[msg] - 1 :
       /\ Emit(SubSeq(Line(msg), 1, k))
       /\ AfterMessage(outByteCount + k)
  /\ dropped' = dropped \cup {msg}
  /\ UNCHANGED <<logd, reader, errcount>>

\* The message does not parse or cannot be written: processBuffer returns -1,
\* which startCaptureLog ignores; neither counted nor followed by a rotation.
ProcessFails ==
  /\ pc = "process"
  /\ Spend("drop")
  /\ Emit(<<>>)
  /\ dropped' = dropped \cup {msg}
  /\ msg' = 0
  /\ pc' = "read"
  /\ UNCHANGED <<logd, reader, errcount, outByteCount>>

Rotate ==
  /\ pc = "rotate"
  /\ OpenFile
  /\ outByteCount' = 0
  /\ pc' = "read"
  /\ UNCHANGED <<logd, reader, msg, errcount, dropped, used>>

\* The old file stays open and the count stays over the threshold.
RotateFails ==
  /\ pc = "rotate"
  /\ Spend("rotate")
  /\ pc' = "read"
  /\ UNCHANGED <<logd, reader, msg, errcount, outByteCount, output, dropped>>

Thread ==
  \/ SetFormat \/ SetFormatFails
  \/ CreateFirstFile \/ CreateFirstFileFails
  \/ MakeReader \/ MakeReaderFails
  \/ Connect \/ Read \/ ReadError \/ Redo
  \/ Process \/ ProcessShort \/ ProcessFails
  \/ Rotate \/ RotateFails

Environment == Log \/ LogdCrash \/ LogdRestart \/ StartService \/ Kill

Next == Thread \/ Environment

\* The thread is scheduled, and init restarts logd (a service that is not
\* oneshot).  Nothing obliges init to start or stop the logger.
Fairness == WF_vars(Thread) /\ WF_vars(LogdRestart)

Spec == Init /\ [][Next]_vars /\ Fairness

-----------------------------------------------------------------------------

TypeOK ==
  /\ base \in Nat /\ logged \in Nat /\ base <= logged + 1 /\ logged + 1 - base <= RingCap
  /\ up \in BOOLEAN
  /\ conn \in {"new", "open", "broken"}
  /\ cursor \in Nat \ {0}
  /\ pc \in {"down", "format", "create", "repeat", "read", "process", "rotate", "dead"}
  /\ msg \in Msgs \cup {0} /\ (pc = "process" <=> msg # 0)
  /\ errcount \in 0..ErrLimit + 1
  /\ outByteCount \in Nat
  /\ outFD \in Names \cup {NoFile}
  /\ outFD = NoFile => off = 0 /\ pc \in {"down", "format", "create", "dead"}
  /\ outFD \in Names => off <= Len(file[outFD])
  /\ DOMAIN file = Names
  /\ opens \in [Names -> Nat]
  /\ dropped \subseteq Msgs
  /\ \A e \in Events : used[e] <= Budget[e]

\* The places where file n holds message m complete.
Copies(m, n) ==
  {p \in 0..Len(file[n]) - Size[m] : \A j \in 1..Size[m] : file[n][p + j] = Line(m)[j]}

OnDisk(m) == \E n \in Names : Copies(m, n) # {}

Reused == \E n \in Names : opens[n] > 1

\* Every message that logd still holds and the reader has passed is complete in
\* some file, or it was lost to an error on this very message: no rotation, failed
\* rotation, new reader, logd crash or restart makes the logger skip one, as long
\* as no file name is used twice.
NothingSkipped ==
  conn = "open" /\ ~Reused =>
    \A m \in base..cursor - 1 :
      Dev[m] \in DeviceList => m = msg \/ m \in dropped \/ OnDisk(m) \/ pc = "down"

\* A new reader starts again at the oldest message, so messages are saved twice;
\* but at most once for each connection to logd, however many readers were made
\* while logd was down and whatever failed in between.
CopiesBounded ==
  \A m \in Msgs :
    Cardinality(UNION {{<<n, p>> : p \in Copies(m, n)} : n \in Names}) <= used["connect"]

\* Bytes of messages in file n, without the banners.
MessageBytes(n) == Cardinality({p \in DOMAIN file[n] : file[n][p][1] # 0})

MaxLine == CHOOSE s \in {0} \cup {Size[m] : m \in Msgs} : \A m \in Msgs : Size[m] <= s

\* What the size threshold really guarantees: outByteCount starts again at 0 with
\* every reader although the file is not new, and each failed rotation lets one
\* more message in.  A file opened once holds no more bytes of messages than this.
FileBound ==
  LET readers == IF used["connect"] = 0 THEN 1 ELSE used["connect"]
  IN  MaxLogSize # 0 =>
        \A n \in Names : opens[n] <= 1 =>
          MessageBytes(n) <= readers * (MaxLogSize - 1) + (1 + used["rotate"]) * MaxLine

\* Every message logd holds while the logger captures is saved or dropped by an
\* error of its own, unless logd drops it first: failed rotations, error bursts
\* and logd crashes delay the capture; only a stop of the service or a set-up that
\* failed (of a reader in a redo, too) ends it.
EverySaved ==
  \A m \in Msgs :
    (m \in base..logged /\ Dev[m] \in DeviceList /\ Capturing)
      ~> \/ OnDisk(m) \/ m \in dropped \/ m < base \/ Reused
         \/ pc = "down" \/ (pc = "dead" /\ used["setup"] > 0)

\* After a crash of logd the logger always gets a stream again.
StreamComesBack == (conn = "broken" /\ Capturing) ~> (conn = "open" \/ ~Capturing)

\* If no file name is used twice the logger implements LogDelivery: whatever fails
\* and restarts, messages are taken in the order of the log without a gap, and what
\* is saved stays saved.
Delivery ==
  INSTANCE LogDelivery WITH
    wanted <- {m \in Msgs : Dev[m] \in DeviceList},
    streaming <- conn = "open" /\ pc # "down",
    next <- cursor,
    taken <- msg,
    saved <- {m \in Msgs : OnDisk(m)},
    lost <- dropped

DeliverySpec == Delivery!Spec

\* zxlogger.cpp:83 and logcatcore.cpp:586: a file that has reached the maximum
\* size gets no more messages, a new file does.
NewFileAtMaxSize ==
  pc = "read" /\ outFD \in Names /\ used["rotate"] = 0 /\ ~Reused =>
    MessageBytes(outFD) < MaxLogSize

\* logcatcore.cpp:586 "create a new log file for save": within one process a
\* rotation never opens a file that was used before.
RotationOpensNewFile == used["kill"] = 0 => ~Reused

=============================================================================
