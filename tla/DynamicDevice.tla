--------------------------- MODULE DynamicDevice ---------------------------
(***************************************************************************)
(* DynamicDevice::threadLoop (dynamic.cpp): the lines <key=value> of a     *)
(* mask file are read one by one and written to the kernel's control files *)
(* (the message level, the functions and source files whose debug messages *)
(* are switched on).  A line that cannot be written is logged, the next    *)
(* one follows.                                                            *)
(*                                                                         *)
(* A line is what one fgets returns and stands for its key; one the parser *)
(* cannot use (no brackets, no =, key or value empty or too long) has the  *)
(* key "none".  main has the thread in comments only: the module is about  *)
(* the class as it is.                                                     *)
(***************************************************************************)
EXTENDS Naturals, Sequences

CONSTANTS
  MaxLines,   \* bound on the lines of the mask file
  MaxFaults   \* bound on interrupted and failed calls

ASSUME DynamicAssumption == MaxLines \in Nat /\ MaxFaults \in Nat

\* keys; "other" is a key that is not among them.
Keys == {"level", "func", "file"}
Lines == Keys \cup {"other", "none"}

VARIABLES
  mask,      \* the file
  newline,   \* whether its last line ends with a newline
  pc,        \* open, read, parse, write, done
  pos,       \* lines read
  feof,
  buf,       \* the line in buf, 0 for an empty buffer
  pathWrite, \* the control file to write to
  written,   \* the lines written, in order: [line, path] (history)
  skipped,   \* the lines whose own open or write failed (history)
  faults     \* (history)

hist == <<written, skipped, faults>>
vars == <<mask, newline, pc, pos, feof, buf, pathWrite, hist>>

\* getKeyPath
KeyPath(k) ==
  CASE k = "level" -> "/proc/sys/kernel/printk"
    [] k \in {"func", "file"} -> "/d/dynamic_debug/control"

\* Key and value were found, and the key is a known one.
Usable == buf # 0 /\ mask[buf] \in Keys

Init ==
  /\ mask \in UNION {[1..n -> Lines] : n \in 0..MaxLines}
  /\ newline \in BOOLEAN
  /\ pc = "open"
  /\ pos = 0
  /\ feof = FALSE
  /\ buf = 0
  /\ pathWrite = ""
  /\ written = <<>>
  /\ skipped = {}
  /\ faults = 0

-----------------------------------------------------------------------------
\* Wrong variants used to check that the properties bite.

BufferKept == buf

GiveUpAtFailedWrite ==
  /\ pc = "write"
  /\ faults < MaxFaults
  /\ faults' = faults + 1
  /\ skipped' = skipped \cup {buf}
  /\ pc' = "done"
  /\ UNCHANGED <<mask, newline, pos, feof, buf, pathWrite, written>>

\* The loop asks for an error in place of the end.
EndNotSeen(p) == FALSE

-----------------------------------------------------------------------------

OpenMask ==
  /\ pc = "open"
  /\ pc' = "read"
  /\ UNCHANGED <<mask, newline, pos, feof, buf, pathWrite, hist>>

OpenMaskFails ==
  /\ pc = "open"
  /\ pc' = "done"
  /\ UNCHANGED <<mask, newline, pos, feof, buf, pathWrite, hist>>

\* memset of buf
Cleared == 0

\* fgets has met the end of the file: with a last line that has no newline, else
\* in the call after it.
AtEnd(p) == p > Len(mask) \/ (p = Len(mask) /\ ~newline)

ReadLine ==
  /\ pc = "read" /\ ~feof
  /\ feof' = AtEnd(pos + 1)
  /\ IF pos < Len(mask)
     THEN buf' = pos + 1 /\ pos' = pos + 1
     ELSE buf' = Cleared /\ UNCHANGED pos
  /\ pc' = "parse"
  /\ UNCHANGED <<mask, newline, pathWrite, hist>>

\* An I/O error: fgets gives NULL, which nobody looks at, and feof stays false.
ReadFails ==
  /\ pc = "read" /\ ~feof
  /\ faults < MaxFaults
  /\ faults' = faults + 1
  /\ buf' = Cleared
  /\ pc' = "parse"
  /\ UNCHANGED <<mask, newline, pos, feof, pathWrite, written, skipped>>

EndOfFile ==
  /\ pc = "read" /\ feof
  /\ pc' = "done"
  /\ UNCHANGED <<mask, newline, pos, feof, buf, pathWrite, hist>>

ParseLine ==
  /\ pc = "parse"
  /\ Usable
  /\ pathWrite' = KeyPath(mask[buf])
  /\ pc' = "write"
  /\ UNCHANGED <<mask, newline, pos, feof, buf, hist>>

SkipLine ==
  /\ pc = "parse"
  /\ ~Usable
  /\ pc' = "read"
  /\ UNCHANGED <<mask, newline, pos, feof, buf, pathWrite, hist>>

WriteFile ==
  /\ pc = "write"
  /\ written' = Append(written, [line |-> buf, path |-> pathWrite])
  /\ pc' = "read"
  /\ UNCHANGED <<mask, newline, pos, feof, buf, pathWrite, skipped, faults>>

\* EINTR: write again.
WriteInterrupted ==
  /\ pc = "write"
  /\ faults < MaxFaults
  /\ faults' = faults + 1
  /\ UNCHANGED <<mask, newline, pc, pos, feof, buf, pathWrite, written, skipped>>

\* The open or the write fails; parseMaskFile goes on.
WriteFails ==
  /\ pc = "write"
  /\ faults < MaxFaults
  /\ faults' = faults + 1
  /\ skipped' = skipped \cup {buf}
  /\ pc' = "read"
  /\ UNCHANGED <<mask, newline, pos, feof, buf, pathWrite, written>>

Next ==
  \/ OpenMask \/ OpenMaskFails
  \/ ReadLine \/ ReadFails \/ EndOfFile
  \/ ParseLine \/ SkipLine
  \/ WriteFile \/ WriteInterrupted \/ WriteFails

Spec == Init /\ [][Next]_vars /\ WF_vars(Next)

-----------------------------------------------------------------------------

\* The kernel gets the lines in the order of the file and none twice, whatever
\* fails in between: the empty buffer of the last fgets, or of one that failed, is
\* never taken for the line before it.
WrittenInOrder ==
  \A j, k \in DOMAIN written : j < k => written[j].line < written[k].line

\* When the thread has come to the end every usable line has been written to its
\* control file, unless the file or the line's own control file could not be
\* opened or written: neither an unusable line nor a failed one takes a later one
\* with it, and a last line without a newline counts.
AllWritten ==
  pc = "done" /\ pos > 0 =>
    \A j \in 1..Len(mask) : mask[j] \in Keys /\ j \notin skipped =>
      \E w \in 1..Len(written) : written[w] = [line |-> j, path |-> KeyPath(mask[j])]

\* The loop, which asks for the end of the file only, comes to it after interrupted
\* and failed calls.
ParseEnds == <>(pc = "done")

=============================================================================
