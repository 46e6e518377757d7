---------------------------- MODULE KernelReader ----------------------------
(***************************************************************************)
(* LogDeviceBase::readFile: a thread copies a kernel log into files.       *)
(* /proc/kmsg is shared and reading it consumes it, so the readers of two  *)
(* processes (zxbootlogger and zxlogger while one takes over from the      *)
(* other) share the position next.  With one reader the module is the      *)
(* qsee and the tz thread as well.                                         *)
(*                                                                         *)
(* The write loop                                                          *)
(*     for (off = 0; nr; nr -= nw, off += nw) nw = write(buf + off, nr)    *)
(* takes a failed write (nw = -1) into account as it does a short one: nr  *)
(* grows by one and off goes back by one, so a byte is written again, and  *)
(* with off < 0 a byte in front of buf is written: byte 0 in the model.    *)
(* A read that returns nothing is tried again at once and changes nothing. *)
(*                                                                         *)
(* A file is named by the second it is opened in and opened without        *)
(* O_TRUNC and O_EXCL: a start or a split in a second that has its file    *)
(* already, or after the clock was set back, goes on in the old file from  *)
(* offset 0.  Each process has a directory of its own.  (In the modes with *)
(* numbered names the first file is file 1, which RotateChain shows to be  *)
(* free unless a rename fails.)                                            *)
(***************************************************************************)
EXTENDS Integers, Sequences, FiniteSets

CONSTANTS
  Procs,       \* the processes that read the source
  Src,         \* bound on the bytes of the source
  BufSize,     \* bufSize, 4096
  LogMaxSize,  \* logMaxSize, 0 for none
  MaxErrors,   \* bound on failed writes
  MaxKills     \* bound on stops of a process

ASSUME ReaderAssumption ==
  /\ Src \in Nat
  /\ BufSize \in Nat \ {0}
  /\ LogMaxSize \in Nat
  /\ MaxErrors \in Nat
  /\ MaxKills \in Nat

VARIABLES
  avail,   \* bytes the kernel has logged
  next,    \* first byte nobody has read
  pc,      \* the thread of p: down, open, read, write, split, dead
  chunk,   \* buf: the bytes first .. first + len - 1 of the source
  off, nr, \* the loop variables
  total,   \* bytes written since the file was opened: the offset of wfd as well
  files,   \* files[p]: the contents of the files p has made
  fd,      \* wfd: the index of the file p has open, 0 for none
  reused,  \* a name was opened a second time (history)
  lost,    \* bytes read and not written when p was killed (history)
  errs,    \* failed writes (history)
  kills    \* stops (history)

loop == <<chunk, off, nr, total>>
disk == <<files, fd, reused>>
vars == <<avail, next, pc, loop, disk, lost, errs, kills>>

EmptyChunk == [first |-> 1, len |-> 0]

\* The byte at buf + q - 1; outside the chunk it is memory of the process.
Byte(c, q) == IF q \in 1..c.len THEN c.first + q - 1 ELSE 0

\* The bytes of p's buffer the loop has still to write.
InFlight(p) ==
  IF pc[p] = "write"
  THEN {Byte(chunk[p], q) : q \in off[p] + 1 .. chunk[p].len} \ {0}
  ELSE {}

\* k bytes of the buffer from off on.
Piece(p, k) == [j \in 1..k |-> Byte(chunk[p], off[p] + j)]

\* write(2): the bytes s at offset o of the bytes f.
Overwrite(f, o, s) ==
  [q \in 1..(IF o + Len(s) > Len(f) THEN o + Len(s) ELSE Len(f)) |->
     IF q \in o + 1 .. o + Len(s) THEN s[q - o] ELSE f[q]]

Put(p, s) == files' = [files EXCEPT ![p][fd[p]] = Overwrite(@, total[p], s)]

Init ==
  /\ avail = 0
  /\ next = 1
  /\ pc = [p \in Procs |-> "down"]
  /\ chunk = [p \in Procs |-> EmptyChunk]
  /\ off = [p \in Procs |-> 0]
  /\ nr = [p \in Procs |-> 0]
  /\ total = [p \in Procs |-> 0]
  /\ files = [p \in Procs |-> <<>>]
  /\ fd = [p \in Procs |-> 0]
  /\ reused = FALSE
  /\ lost = {}
  /\ errs = 0
  /\ kills = 0

-----------------------------------------------------------------------------
\* Wrong variants used to check that the properties bite.

ReadTwoBuffers == 2 * BufSize

SplitAboveMax(t) == IF LogMaxSize # 0 /\ t > LogMaxSize THEN "split" ELSE "read"

ShortWriteIgnored(p) ==
  /\ pc[p] = "write"
  /\ \E k \in 1..nr[p] :
       /\ Put(p, Piece(p, k))
       /\ total' = [total EXCEPT ![p] = @ + k]
  /\ pc' = [pc EXCEPT ![p] = "read"]
  /\ UNCHANGED <<avail, next, chunk, off, nr, fd, reused, lost, errs, kills>>

OffsetForgotten(p) ==
  /\ pc[p] = "write"
  /\ \E k \in 1..nr[p] :
       /\ Put(p, [j \in 1..k |-> Byte(chunk[p], j)])
       /\ total' = [total EXCEPT ![p] = @ + k]
       /\ nr' = [nr EXCEPT ![p] = @ - k]
       /\ pc' = [pc EXCEPT ![p] = IF k = nr[p] THEN "read" ELSE "write"]
  /\ UNCHANGED <<avail, next, chunk, off, fd, reused, lost, errs, kills>>

ErrorCountedInNrOnly(p) ==
  /\ pc[p] = "write"
  /\ errs < MaxErrors
  /\ errs' = errs + 1
  /\ nr' = [nr EXCEPT ![p] = @ + 1]
  /\ UNCHANGED <<avail, next, pc, chunk, off, total, disk, lost, kills>>

ErrorTakesAByte(p) ==
  /\ pc[p] = "write"
  /\ errs < MaxErrors
  /\ errs' = errs + 1
  /\ nr' = [nr EXCEPT ![p] = @ - 1]
  /\ off' = [off EXCEPT ![p] = @ + 1]
  /\ UNCHANGED <<avail, next, pc, chunk, total, disk, lost, kills>>

-----------------------------------------------------------------------------
\* The kernel and init.

KernelLog ==
  /\ avail < Src
  /\ avail' = avail + 1
  /\ UNCHANGED <<next, pc, loop, disk, lost, errs, kills>>

Start(p) ==
  /\ pc[p] = "down"
  /\ pc' = [pc EXCEPT ![p] = "open"]
  /\ UNCHANGED <<avail, next, loop, disk, lost, errs, kills>>

\* SIGKILL: what is in the buffer is gone, /proc/kmsg does not have it any more.
Kill(p) ==
  /\ pc[p] # "down"
  /\ kills < MaxKills
  /\ kills' = kills + 1
  /\ lost' = lost \cup InFlight(p)
  /\ fd' = [fd EXCEPT ![p] = 0]
  /\ pc' = [pc EXCEPT ![p] = "down"]
  /\ UNCHANGED <<avail, next, loop, files, reused, errs>>

-----------------------------------------------------------------------------
\* The thread.

\* open(2) of the name of this second: a new file, or one with its contents.
OpenName(p) ==
  \/ /\ files' = [files EXCEPT ![p] = Append(@, <<>>)]
     /\ fd' = [fd EXCEPT ![p] = Len(files[p]) + 1]
     /\ UNCHANGED reused
  \/ /\ \E i \in DOMAIN files[p] : fd' = [fd EXCEPT ![p] = i]
     /\ reused' = TRUE
     /\ UNCHANGED files

OpenFiles(p) ==
  /\ pc[p] = "open"
  /\ OpenName(p)
  /\ total' = [total EXCEPT ![p] = 0]
  /\ pc' = [pc EXCEPT ![p] = "read"]
  /\ UNCHANGED <<avail, next, chunk, off, nr, lost, errs, kills>>

\* Source or file cannot be opened: readFile returns, the thread sleeps for ever.
OpenFails(p) ==
  /\ pc[p] = "open"
  /\ pc' = [pc EXCEPT ![p] = "dead"]
  /\ UNCHANGED <<avail, next, loop, disk, lost, errs, kills>>

ReadSize == BufSize

Read(p) ==
  /\ pc[p] = "read"
  /\ \E n \in 1..ReadSize :
       /\ next + n - 1 <= avail
       /\ chunk' = [chunk EXCEPT ![p] = [first |-> next, len |-> n]]
       /\ next' = next + n
       /\ nr' = [nr EXCEPT ![p] = n]
  /\ off' = [off EXCEPT ![p] = 0]
  /\ pc' = [pc EXCEPT ![p] = "write"]
  /\ UNCHANGED <<avail, total, disk, lost, errs, kills>>

\* The test of the size comes after the loop, once for a chunk.
AfterLoop(t) == IF LogMaxSize # 0 /\ t >= LogMaxSize THEN "split" ELSE "read"

\* write returns k, the whole rest or less.
Write(p) ==
  /\ pc[p] = "write"
  /\ \E k \in 1..nr[p] :
       /\ Put(p, Piece(p, k))
       /\ total' = [total EXCEPT ![p] = @ + k]
       /\ nr' = [nr EXCEPT ![p] = @ - k]
       /\ off' = [off EXCEPT ![p] = @ + k]
       /\ pc' = [pc EXCEPT ![p] = IF k = nr[p] THEN AfterLoop(total[p] + k) ELSE "write"]
  /\ UNCHANGED <<avail, next, chunk, fd, reused, lost, errs, kills>>

\* write returns -1; the error is logged.
WriteFails(p) ==
  /\ pc[p] = "write"
  /\ errs < MaxErrors
  /\ errs' = errs + 1
  /\ nr' = [nr EXCEPT ![p] = @ + 1]
  /\ off' = [off EXCEPT ![p] = @ - 1]
  /\ UNCHANGED <<avail, next, pc, chunk, total, disk, lost, kills>>

\* close, open by the name of this second, total = 0
Split(p) ==
  /\ pc[p] = "split"
  /\ OpenName(p)
  /\ total' = [total EXCEPT ![p] = 0]
  /\ pc' = [pc EXCEPT ![p] = "read"]
  /\ UNCHANGED <<avail, next, chunk, off, nr, lost, errs, kills>>

\* The old file is closed already: the loop is left and the capture is over.
SplitFails(p) ==
  /\ pc[p] = "split"
  /\ fd' = [fd EXCEPT ![p] = 0]
  /\ total' = [total EXCEPT ![p] = 0]
  /\ pc' = [pc EXCEPT ![p] = "dead"]
  /\ UNCHANGED <<avail, next, chunk, off, nr, files, reused, lost, errs, kills>>

Thread(p) ==
  \/ OpenFiles(p) \/ OpenFails(p)
  \/ Read(p) \/ Write(p) \/ WriteFails(p)
  \/ Split(p) \/ SplitFails(p)

Next ==
  \/ KernelLog
  \/ \E p \in Procs : Start(p) \/ Kill(p) \/ Thread(p)

\* The scheduler runs every thread that can run.
Spec == Init /\ [][Next]_vars /\ \A p \in Procs : WF_vars(Thread(p))

-----------------------------------------------------------------------------

Bytes == 0..Src

TypeOK ==
  /\ avail \in 0..Src
  /\ next \in 1..avail + 1
  /\ pc \in [Procs -> {"down", "open", "read", "write", "split", "dead"}]
  /\ chunk \in [Procs -> [first : Nat \ {0}, len : Nat]]
  /\ off \in [Procs -> Int]
  /\ nr \in [Procs -> Nat]
  /\ total \in [Procs -> Nat]
  /\ files \in [Procs -> Seq(Seq(Bytes))]
  /\ fd \in [Procs -> Nat]
  /\ reused \in BOOLEAN
  /\ lost \subseteq 1..Src
  /\ errs \in 0..MaxErrors
  /\ kills \in 0..MaxKills

InFile(b) ==
  \E p \in Procs : \E i \in DOMAIN files[p] : \E j \in DOMAIN files[p][i] : files[p][i][j] = b

\* The write loop never runs past the end of the chunk, although errors move off
\* back and nr up, and it is never left with bytes unwritten.
LoopStaysInChunk ==
  \A p \in Procs :
    pc[p] = "write" => off[p] + nr[p] = chunk[p].len /\ nr[p] > 0

\* As long as no name is used a second time, every byte taken from the source is
\* in a file, in the buffer of a running write loop, or was in such a buffer at a
\* kill: whichever process took it, in whatever pieces it was written, after write
\* errors and splits, failed ones too.  (A file opened again is written over from
\* its beginning, zxlogger.cpp:227 and 252.)
NoByteSkipped ==
  ~reused =>
    \A b \in 1..next - 1 :
      InFile(b) \/ b \in lost \/ \E p \in Procs : b \in InFlight(p)

\* A stop costs at most one buffer of the log.
LossBounded == Cardinality(lost) <= kills * BufSize

\* Readers of the shared source never save the same byte twice, and a file
\* has its bytes in the order of the source, unless a write failed or a name was
\* used a second time (the tail of an older file then follows newer bytes).
NoByteTwice ==
  errs = 0 /\ ~reused =>
    /\ \A p, r \in Procs : \A i \in DOMAIN files[p], k \in DOMAIN files[r] :
         \A j \in DOMAIN files[p][i], m \in DOMAIN files[r][k] :
           files[p][i][j] = files[r][k][m] => p = r /\ i = k /\ j = m
    /\ \A p \in Procs : \A i \in DOMAIN files[p] : \A j, m \in DOMAIN files[p][i] :
         j < m => files[p][i][j] < files[p][i][m]
    /\ \A p \in Procs : \A i \in DOMAIN files[p] : \A j \in DOMAIN files[p][i] :
         files[p][i][j] # 0

\* A file, also one that is used a second time, exceeds the maximum by less than
\* one buffer, plus one byte for each failed write (which the loop makes up for
\* with a byte written twice or a byte of memory).
FileBound ==
  LogMaxSize # 0 =>
    \A p \in Procs : \A i \in DOMAIN files[p] :
      Len(files[p][i]) < LogMaxSize + BufSize + errs

\* What the kernel logs while a reader copies is saved, unless the reader is
\* stopped, gives up (its file cannot be opened), or a name is used a second time.
EveryByteSaved ==
  \A b \in 1..Src :
    (b <= avail /\ \E p \in Procs : pc[p] \in {"read", "write", "split"})
      ~> \/ InFile(b) \/ b \in lost \/ reused
         \/ \A p \in Procs : pc[p] \in {"down", "open", "dead"}

=============================================================================
