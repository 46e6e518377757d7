-------------------------- MODULE Handover_proofs --------------------------
(***************************************************************************)
(* Proofs about Handover for every number of requests, length of the       *)
(* kernel log and buffer size and for every set of enabled devices.  The   *)
(* service of the composition is LoggerService, whose lemmas hold here.    *)
(***************************************************************************)
EXTENDS Handover, LoggerService_proofs

\* The reader of a process is in one of the states the loop has without a
\* threshold: there is no split.
PcInv ==
  /\ pc \in [Procs -> {"down", "open", "read", "write", "dead"}]
  /\ DOMAIN files = Procs

\* Before the first request there is the boot logger and nothing else.
QuietInv ==
  sets = 0 =>
    /\ queue = <<>> /\ commands = <<>> /\ running = "unset"
    /\ up \subseteq {Boot}
    /\ modem = "off" /\ net = "off" /\ capture = "off"
    /\ logcp = "off"

\* After it the boot logger is there only until init comes to stop it.
BootInv ==
  sets > 0 /\ Boot \in up =>
    \/ Has(commands, <<"stop", Boot>>)
    \/ \E v \in {"0", "1"} : Has(queue, <<"running", v>>)

\* The joint steps keep the two components in step: a process of the service runs
\* exactly when its reader does, and zxlogger's kmsg thread is where its reader is.
Coupled ==
  /\ \A p \in Procs : p \in up <=> pc[p] # "down"
  /\ capture \in {"mkdir", "mkdir2"} <=> pc[Normal] = "open"
  /\ capture = "capturing" <=> pc[Normal] \in {"read", "write"}

HandoverInv ==
  /\ ServiceInv
  /\ PcInv
  /\ QuietInv
  /\ BootInv
  /\ Coupled

-----------------------------------------------------------------------------
\* The steps.

\* What a step of a reader does to its process.
LEMMA ReaderSteps ==
  ASSUME PcInv, NEW p \in Procs
  PROVE  /\ Reader!Start(p) =>
              /\ pc[p] = "down" /\ pc' = [pc EXCEPT ![p] = "open"]
              /\ files' = files /\ next' = next
         /\ Reader!OpenFiles(p) =>
              /\ pc[p] = "open" /\ pc' = [pc EXCEPT ![p] = "read"]
              /\ DOMAIN files' = DOMAIN files /\ \A q \in Procs \ {p} : files'[q] = files[q]
              /\ next' = next
         /\ Reader!OpenFails(p) =>
              /\ pc[p] = "open" /\ pc' = [pc EXCEPT ![p] = "dead"]
              /\ files' = files /\ next' = next
         /\ Reader!Read(p) =>
              pc[p] = "read" /\ pc' = [pc EXCEPT ![p] = "write"] /\ files' = files
         /\ Reader!Write(p) =>
              /\ pc[p] = "write" /\ \E s \in {"read", "write"} : pc' = [pc EXCEPT ![p] = s]
              /\ DOMAIN files' = DOMAIN files /\ \A q \in Procs \ {p} : files'[q] = files[q]
              /\ next' = next
         /\ Reader!Kill(p) =>
              /\ pc[p] # "down" /\ pc' = [pc EXCEPT ![p] = "down"]
              /\ files' = files /\ next' = next
<1>1. Reader!Write(p) =>
        /\ pc[p] = "write" /\ \E s \in {"read", "write"} : pc' = [pc EXCEPT ![p] = s]
        /\ DOMAIN files' = DOMAIN files /\ \A q \in Procs \ {p} : files'[q] = files[q]
        /\ next' = next
  BY DEF Reader!Write, Reader!AfterLoop, Reader!Put, PcInv
<1>2. Reader!OpenName(p) =>
        DOMAIN files' = DOMAIN files /\ \A q \in Procs \ {p} : files'[q] = files[q]
  BY DEF Reader!OpenName, PcInv
<1> QED
  BY <1>1, <1>2 DEF Reader!Start, Reader!OpenFiles, Reader!OpenFails, Reader!Read,
         Reader!Kill, Reader!loop, Reader!disk, PcInv

\* The recorder of netlog is no process with a reader.
LEMMA RecorderFacts ==
  ASSUME ServiceInv
  PROVE  Recorder(netlog) \notin {"zxbootlogger", "zxlogger"}
  BY DEF ServiceInv, QueueInv, Recorder, Tcpdumps

\* What the steps of the composition are: the boot, a step of the service with the
\* reader of the process it is about, or a step of a reader alone.
ServiceAlone == (SetRunning \/ HandleChange \/ SetProp \/ Tools) /\ UNCHANGED reader
ReaderAlone == (Reader!KernelLog \/ \E p \in Procs : Copy(p)) /\ UNCHANGED vars

LEMMA Steps ==
  HandoverNext <=> \/ StartBootLogger
                   \/ ServiceAlone
                   \/ InitStarts \/ InitStops \/ ZxloggerThreads
                   \/ ReaderAlone
<1>1. ToolSteps <=> Tools /\ UNCHANGED reader
  BY DEF ToolSteps
<1>2. \A p \in Procs : Copy(p) => UNCHANGED vars
  BY DEF Copy
<1>3. Environment <=> \/ StartBootLogger
                      \/ SetRunning /\ UNCHANGED reader
                      \/ Reader!KernelLog /\ UNCHANGED vars
  BY DEF Environment
<1>4. InitSteps <=> \/ InitStarts \/ InitStops
                    \/ (HandleChange \/ SetProp) /\ UNCHANGED reader
  BY DEF InitSteps
<1> QED
  BY <1>1, <1>2, <1>3, <1>4 DEF HandoverNext, ServiceAlone, ReaderAlone

\* The boot changes only up.
LEMMA BootFacts ==
  ASSUME QuietInv, StartBootLogger
  PROVE  /\ sets = 0 /\ up = {} /\ up' = {Boot}
         /\ UNCHANGED <<running, sets, queue, commands, dirs, threads, logcp, recording, hist>>
         /\ queue = <<>> /\ commands = <<>> /\ running = "unset"
         /\ modem = "off" /\ net = "off" /\ capture = "off" /\ logcp = "off"
  BY DEF QuietInv, StartBootLogger, Boot, threads, hist

-----------------------------------------------------------------------------
\* The service.

\* Its invariant does not know the boot, which happens in its initial state.
LEMMA BootKeepsService ==
  ASSUME ServiceInv, QuietInv, StartBootLogger
  PROVE  ServiceInv'
<1> USE BootFacts DEF Boot, threads, recording, hist
<1>1. \A x : ~Has(commands, x) /\ ~Has(queue, x)
  BY DEF Has
<1>2. TypeOK'
  BY RecorderFacts DEF ServiceInv, TypeOK
<1>3. QueueInv'
  BY <1>1 DEF ServiceInv, QueueInv, Has, Recorder, Tcpdumps
<1>4. CopyInv'
  BY DEF CopyInv, OnlyAfter
<1>5. DirInv'
  BY DEF ServiceInv, DirInv
<1>6. StopInv'
  BY DEF StopInv
<1>7. ResetInv'
  BY DEF ResetInv, FollowedBy
<1>8. StartInv'
  BY DEF StartInv
<1>9. UpInv'
  BY DEF UpInv
<1> QED
  BY <1>2, <1>3, <1>4, <1>5, <1>6, <1>7, <1>8, <1>9 DEF ServiceInv

ServiceStep ==
  \/ SetRunning \/ HandleChange \/ SetProp \/ StartService \/ StopService
  \/ Zxlogger \/ Tools

\* Every step is one of the service, the boot, or none of the service's business.
LEMMA ServicePart ==
  ASSUME [HandoverNext]_handoverVars
  PROVE  ServiceStep \/ StartBootLogger \/ UNCHANGED vars
<1>1. UNCHANGED vars => UNCHANGED vars
  BY DEF vars, threads, recording, hist
<1>2. UNCHANGED handoverVars => UNCHANGED vars
  BY DEF handoverVars
<1>3. /\ InitStarts => StartService
      /\ InitStops => StopService
      /\ ZxloggerThreads => Zxlogger
  BY DEF InitStarts, InitStops, ZxloggerThreads
<1> QED
  BY <1>1, <1>2, <1>3, Steps DEF ServiceStep, ServiceAlone, ReaderAlone

LEMMA ServiceKept ==
  ASSUME ServiceInv, QuietInv, [HandoverNext]_handoverVars
  PROVE  ServiceInv'
  BY ServicePart, BootKeepsService, SetRunningInv, HandleChangeInv, SetPropInv,
     StartServiceInv, StopServiceInv, ThreadInv, ToolsInv, StutterInv
     DEF ServiceStep

\* Nothing happens before the first request but the boot.
LEMMA QuietKept ==
  ASSUME ServiceInv, QuietInv, [HandoverNext]_handoverVars
  PROVE  QuietInv'
<1> SUFFICES ASSUME sets' = 0 PROVE QuietInv'
  BY DEF QuietInv
<1>1. sets \in Nat
  BY ServiceAssumption DEF ServiceInv, TypeOK
<1>2. ~SetRunning
  BY <1>1 DEF SetRunning
<1>3. CASE StartBootLogger
  BY <1>3, BootFacts DEF QuietInv, Boot, threads
<1>4. CASE UNCHANGED vars
  BY <1>4 DEF QuietInv, vars, threads
<1>5. CASE ServiceStep
  <2>1. sets = 0
    BY <1>2, <1>5
       DEF ServiceStep, HandleChange, SetProp, StartService, StopService, Zxlogger,
           SetModem, ModemGivesUp, SetTcpdump, Tools, Logcp, DiagReady, DiagKill, Tcpdump
  <2>2. /\ queue = <<>> /\ commands = <<>> /\ up \subseteq {Boot}
        /\ modem = "off" /\ net = "off" /\ capture = "off" /\ logcp = "off"
        /\ diag = "off" /\ tcpdump = "off"
    BY <2>1, RecorderFacts DEF QuietInv, ServiceInv, TypeOK, Boot
  <2>3. ~(HandleChange \/ SetProp \/ StartService \/ StopService)
    BY <2>2 DEF HandleChange, SetProp, StartService, StopService
  <2>4. ~Zxlogger
    BY <2>2 DEF Zxlogger, MakeLogPath, MakeNetDirectory, OpenLog, SetModem, ModemGivesUp, SetTcpdump
  <2>5. ~Tools
    BY <2>2 DEF Tools, Logcp, DiagReady, DiagKill, Tcpdump, Boot
  <2> QED
    BY <1>2, <1>5, <2>3, <2>4, <2>5 DEF ServiceStep
<1> QED
  BY <1>3, <1>4, <1>5, ServicePart

\* From the first request on the boot logger is on its way out: a request is still
\* queued, and the commands of either request stop it.
LEMMA BootKept ==
  ASSUME ServiceInv, QuietInv, BootInv, [HandoverNext]_handoverVars
  PROVE  BootInv'
<1> DEFINE stop == <<"stop", Boot>>
           Requested == \E v \in {"0", "1"} : Has(queue, <<"running", v>>)
<1> USE DEF Boot
<1>1. /\ queue \in Seq(Changes) /\ commands \in Seq(Orders) /\ sets \in Nat
      /\ netlog \in Tcpdumps
  BY ServiceAssumption DEF ServiceInv, TypeOK, QueueInv
<1>2. \A e \in Changes : queue' = Append(queue, e) =>
        \A x : Has(queue', x) <=> Has(queue, x) \/ e = x
  BY <1>1, AppendFacts
<1>3. CASE StartBootLogger
  BY <1>3, BootFacts DEF BootInv
<1>4. CASE UNCHANGED vars
  BY <1>4 DEF BootInv, vars
<1>5. CASE SetRunning
  <2>1. PICK v \in {"0", "1"} : queue' = Append(queue, <<"running", v>>)
    BY <1>5 DEF SetRunning, Enqueue
  <2>2. <<"running", v>> \in Changes
    BY DEF Changes
  <2> QED
    BY <1>2, <2>1, <2>2 DEF BootInv
<1>6. CASE HandleChange
  <2>1. /\ queue # <<>> /\ queue' = Tail(queue) /\ commands' = Commands(queue[1])
        /\ queue[1] \in Changes /\ commands = <<>> /\ sets' = sets /\ up' = up
    BY <1>1, <1>6, TailFacts DEF HandleChange
  <2>2. \A x : Has(queue, x) => queue[1] = x \/ Has(queue', x)
    BY <1>1, <2>1, TailFacts
  <2>3. \A v \in {"0", "1"} : queue[1] = <<"running", v>> => Has(commands', stop)
    BY <2>1, CommandsFacts
  <2>4. ~Has(commands, stop)
    BY <2>1 DEF Has
  <2> HIDE DEF stop
  <2> QED
    BY <2>1, <2>2, <2>3, <2>4 DEF BootInv, stop
<1>7. CASE SetProp \/ StartService \/ StopService
  <2>1. commands # <<>> /\ commands' = Tail(commands) /\ sets' = sets
    BY <1>7 DEF SetProp, StartService, StopService
  <2>2. /\ commands[1] \in Orders
        /\ \A x : Has(commands, x) <=> commands[1] = x \/ Has(commands', x)
    BY <2>1, NextCommand
  <2>3. Requested => Requested'
    <3>1. CASE SetProp
      <4>1. commands[1][1] = "setprop" /\ queue' = Append(queue, <<commands[1][2], "0">>)
        BY <3>1 DEF SetProp, Enqueue
      <4>2. <<commands[1][2], "0">> \in Changes
        BY <2>2, <4>1 DEF Orders, Changes
      <4> QED
        BY <1>2, <4>1, <4>2
    <3>2. CASE StartService \/ StopService
      BY <3>2 DEF StartService, StopService
    <3> QED
      BY <1>7, <3>1, <3>2
  <2>4. Boot \in up' => Boot \in up /\ commands[1] # stop
    <3>1. CASE SetProp
      BY <3>1 DEF SetProp
    <3>2. CASE StartService
      <4>1. commands[1][1] = "start" /\ up' = up \cup {commands[1][2]}
        BY <3>2 DEF StartService
      <4>2. commands[1][2] # "zxbootlogger"
        BY <2>2, <4>1 DEF Orders, Recorders
      <4> QED
        BY <4>1, <4>2
    <3>3. CASE StopService
      <4>1. commands[1][1] = "stop" /\ up' = up \ {commands[1][2]}
        BY <3>3 DEF StopService
      <4> QED
        BY <4>1
    <3> QED
      BY <1>7, <3>1, <3>2, <3>3
  <2> QED
    BY <2>1, <2>2, <2>3, <2>4 DEF BootInv
<1>8. CASE Zxlogger \/ Tools
  <2>1. commands' = commands /\ sets' = sets /\ up' \subseteq up
    BY <1>8 DEF Zxlogger, SetModem, ModemGivesUp, SetTcpdump, Tools, Logcp, DiagReady, DiagKill,
       Tcpdump
  <2>2. queue' = queue \/ \E p \in {"modem", netlog} : queue' = Append(queue, <<p, "1">>)
    BY <1>8 DEF Zxlogger, SetModem, ModemGivesUp, SetTcpdump, Tools, Logcp, DiagReady, DiagKill,
       Tcpdump, Enqueue
  <2>3. \A p \in {"modem", netlog} : <<p, "1">> \in Changes
    BY <1>1 DEF Changes
  <2> QED
    BY <1>2, <2>1, <2>2, <2>3 DEF BootInv
<1> QED
  BY <1>3, <1>4, <1>5, <1>6, <1>7, <1>8, ServicePart DEF ServiceStep

-----------------------------------------------------------------------------
\* The two components stay in step.

\* A process runs exactly when its reader does.
Matched(p) == p \in up <=> pc[p] # "down"

LEMMA CoupledParts ==
  Coupled <=>
    /\ Matched(Boot) /\ Matched(Normal)
    /\ capture \in {"mkdir", "mkdir2"} <=> pc[Normal] = "open"
    /\ capture = "capturing" <=> pc[Normal] \in {"read", "write"}
  BY DEF Coupled, Procs, Matched

\* The boot starts the boot logger with its reader.
LEMMA BootCoupled ==
  ASSUME ServiceInv, PcInv, QuietInv, Coupled, StartBootLogger
  PROVE  PcInv' /\ Coupled'
<1>1. Reader!Start(Boot) /\ Boot \in Procs
  BY DEF StartBootLogger, Procs
<1>2. pc' = [pc EXCEPT ![Boot] = "open"] /\ files' = files
  BY <1>1, ReaderSteps
<1>3. PcInv'
  BY <1>2 DEF PcInv
<1>4. Matched(Boot)' /\ Matched(Normal)'
  BY <1>2, BootFacts, CoupledParts DEF Matched, PcInv, Procs, Boot, Normal
<1>5. pc'[Normal] = pc[Normal] /\ capture' = capture
  BY <1>2, BootFacts DEF PcInv, Procs, Boot, Normal, threads
<1>6. /\ capture' \in {"mkdir", "mkdir2"} <=> pc'[Normal] = "open"
      /\ capture' = "capturing" <=> pc'[Normal] \in {"read", "write"}
  BY <1>5, CoupledParts
<1> QED
  BY <1>3, <1>4, <1>6 DEF Coupled, Procs, Matched

\* The steps of the service that concern no process with a reader.
LEMMA AloneCoupled ==
  ASSUME ServiceInv, PcInv, QuietInv, Coupled, ServiceAlone
  PROVE  PcInv' /\ Coupled'
<1>1. UNCHANGED <<pc, files>>
  BY DEF ServiceAlone, reader
<1>2. capture' = capture /\ up' \cap Procs = up \cap Procs
  BY RecorderFacts DEF ServiceAlone, SetRunning, HandleChange, SetProp, Tools, Logcp,
     DiagReady, DiagKill, Tcpdump, Procs, Boot, Normal, threads
<1> QED
  BY <1>1, <1>2 DEF PcInv, Coupled, Procs

\* zxlogger starts with its reader, unless it runs.
LEMMA StartCoupled ==
  ASSUME ServiceInv, PcInv, Coupled, InitStarts
  PROVE  PcInv' /\ Coupled'
<1>1. /\ StartService
      /\ IF Normal \in up' \ up THEN Reader!Start(Normal) ELSE UNCHANGED reader
  BY DEF InitStarts
<1>2. PICK s : /\ commands[1] = <<"start", s>> /\ s # Boot /\ up' = up \cup {s}
               /\ IF s = Normal /\ s \notin up THEN capture' = "mkdir" ELSE capture' = capture
  <2>1. /\ commands[1][1] = "start" /\ commands[1] \in Orders
        /\ up' = up \cup {commands[1][2]}
        /\ IF commands[1][2] = Normal /\ commands[1][2] \notin up
           THEN capture' = "mkdir" ELSE capture' = capture
    BY <1>1, NextCommand DEF StartService, Normal, threads
  <2> QED
    BY <2>1 DEF Orders, Recorders, Boot
<1>3. CASE s = Normal /\ s \notin up
  <2>1. Reader!Start(Normal) /\ Normal \in Procs
    BY <1>1, <1>2, <1>3 DEF Procs
  <2>2. pc' = [pc EXCEPT ![Normal] = "open"] /\ files' = files
    BY <2>1, ReaderSteps
  <2>3. PcInv'
    BY <2>2 DEF PcInv
  <2>4. pc'[Normal] = "open" /\ pc'[Boot] = pc[Boot]
    BY <2>2 DEF PcInv, Procs, Boot, Normal
  <2> QED
    BY <1>2, <1>3, <2>3, <2>4 DEF Coupled, Procs, Boot, Normal
<1>4. CASE ~(s = Normal /\ s \notin up)
  <2>1. UNCHANGED <<pc, files>> /\ capture' = capture /\ up' \cap Procs = up \cap Procs
    BY <1>1, <1>2, <1>4 DEF reader, Procs
  <2> QED
    BY <2>1 DEF PcInv, Coupled, Procs
<1> QED
  BY <1>3, <1>4

\* A process that is gone has no reader any more, and the others keep theirs.
LEMMA GoneCoupled ==
  ASSUME PcInv, NEW p \in Procs, p \in up, Reader!Kill(p),
         up' \cap Procs = (up \ {p}) \cap Procs,
         capture' = (IF p = Normal THEN "off" ELSE capture),
         Coupled
  PROVE  PcInv' /\ Coupled'
<1>1. /\ pc' = [pc EXCEPT ![p] = "down"] /\ DOMAIN files' = DOMAIN files
  BY ReaderSteps
<1>2. PcInv'
  BY <1>1 DEF PcInv
<1>3. \A q \in Procs : /\ pc'[q] = IF q = p THEN "down" ELSE pc[q]
                       /\ q \in up' <=> q \in up /\ q # p
  BY <1>1 DEF PcInv
<1> QED
  BY <1>2, <1>3 DEF Coupled, Procs, Boot, Normal

LEMMA StopCoupled ==
  ASSUME ServiceInv, PcInv, Coupled, InitStops
  PROVE  PcInv' /\ Coupled'
<1>1. StopService /\ ReadersStopped
  BY DEF InitStops
<1>2. PICK s : /\ up' = up \ {s}
               /\ capture' = IF s = Normal THEN "off" ELSE capture
  BY <1>1 DEF StopService, Normal, threads
<1>3. CASE s \in up \cap Procs
  <2>1. (up \ up') \cap Procs = {s}
    BY <1>2, <1>3
  <2>2. Reader!Kill(s)
    BY <1>1, <2>1 DEF ReadersStopped
  <2> QED
    BY <1>2, <1>3, <2>2, GoneCoupled
<1>4. CASE s \notin up \cap Procs
  <2>1. UNCHANGED <<pc, files>> /\ up' \cap Procs = up \cap Procs
    BY <1>1, <1>2, <1>4 DEF ReadersStopped, reader
  <2>2. Normal \notin up => capture = "off"
    BY DEF ServiceInv, TypeOK, Normal
  <2>3. capture' = capture
    BY <1>2, <1>4, <2>2 DEF Procs
  <2> QED
    BY <2>1, <2>3 DEF PcInv, Coupled, Procs
<1> QED
  BY <1>3, <1>4

\* The kmsg thread of zxlogger goes on to its file with the reader, or the process
\* aborts.
LEMMA ThreadsCoupled ==
  ASSUME ServiceInv, PcInv, Coupled, ZxloggerThreads
  PROVE  PcInv' /\ Coupled'
<1>1. Zxlogger
  BY DEF ZxloggerThreads
<1>2. Normal \in Procs
  BY DEF Procs
<1>3. CASE capture = "mkdir2" /\ capture' \in {"capturing", "dead"}
  <2>1. \/ capture' = "capturing" /\ Reader!OpenFiles(Normal)
        \/ capture' = "dead" /\ Reader!OpenFails(Normal)
    BY <1>3 DEF ZxloggerThreads
  <2>2. /\ pc[Normal] = "open" /\ DOMAIN files' = DOMAIN files
        /\ pc' = [pc EXCEPT ![Normal] = IF capture' = "capturing" THEN "read" ELSE "dead"]
    BY <1>2, <2>1, ReaderSteps
  <2>3. up' = up
    BY <1>1, <1>3 DEF Zxlogger, SetModem, ModemGivesUp, SetTcpdump
  <2>4. PcInv'
    BY <2>2 DEF PcInv
  <2>5. \A q \in Procs : pc'[q] = IF q # Normal THEN pc[q]
                                    ELSE IF capture' = "capturing" THEN "read" ELSE "dead"
    BY <2>2 DEF PcInv
  <2> QED
    BY <1>3, <2>2, <2>3, <2>4, <2>5 DEF Coupled, Procs, Boot, Normal
<1>4. CASE ~(capture = "mkdir2" /\ capture' \in {"capturing", "dead"})
  <2>1. ReadersStopped
    BY <1>4 DEF ZxloggerThreads
  <2>2. CASE up' = up
    <3>1. UNCHANGED <<pc, files>>
      BY <2>1, <2>2 DEF ReadersStopped, reader
    <3>2. capture' = capture \/ (capture = "mkdir" /\ capture' = "mkdir2")
          \/ (capture' = "off" /\ up' = up \ {Normal})
      BY <1>1, <1>4
         DEF Zxlogger, MakeLogPath, MakeNetDirectory, OpenLog, SetModem, ModemGivesUp, SetTcpdump,
             Normal
    <3>3. Normal \notin up => capture = "off"
      BY DEF ServiceInv, TypeOK, Normal
    <3> QED
      BY <2>2, <3>1, <3>2, <3>3 DEF PcInv, Coupled, Procs
  <2>3. CASE up' # up
    <3>1. up' = up \ {Normal} /\ Normal \in up /\ capture' = "off"
      BY <1>1, <2>3 DEF Zxlogger, SetModem, ModemGivesUp, SetTcpdump, Normal
    <3>2. (up \ up') \cap Procs = {Normal}
      BY <1>2, <3>1
    <3>3. Reader!Kill(Normal)
      BY <2>1, <3>2 DEF ReadersStopped
    <3> QED
      BY <1>2, <3>1, <3>3, GoneCoupled
  <2> QED
    BY <2>2, <2>3
<1> QED
  BY <1>3, <1>4

\* A reader that copies keeps its process, and its file once it has it.
LEMMA CopyCoupled ==
  ASSUME PcInv, Coupled, ReaderAlone
  PROVE  PcInv' /\ Coupled'
<1>1. up' = up /\ capture' = capture
  BY DEF ReaderAlone, vars, threads
<1>2. CASE Reader!KernelLog
  <2>1. UNCHANGED <<pc, files>>
    BY <1>2 DEF Reader!KernelLog, Reader!disk
  <2> QED
    BY <1>1, <2>1 DEF PcInv, Coupled, Procs
<1>3. ASSUME NEW p \in Procs, Copy(p) PROVE PcInv' /\ Coupled'
  <2>1. /\ DOMAIN files' = DOMAIN files
        /\ \/ /\ pc[p] \in {"read", "write"}
              /\ \E s \in {"read", "write"} : pc' = [pc EXCEPT ![p] = s]
           \/ /\ p = Boot /\ pc[p] = "open"
              /\ \E s \in {"read", "dead"} : pc' = [pc EXCEPT ![p] = s]
    BY <1>3, ReaderSteps DEF Copy, Reader!Read
  <2>2. PcInv'
    BY <2>1 DEF PcInv
  <2>3. /\ \A q \in Procs : pc'[q] # "down" <=> pc[q] # "down"
        /\ pc'[Normal] = "open" <=> pc[Normal] = "open"
        /\ pc'[Normal] \in {"read", "write"} <=> pc[Normal] \in {"read", "write"}
    BY <2>1 DEF PcInv, Procs, Boot, Normal
  <2> QED
    BY <1>1, <2>2, <2>3 DEF Coupled
<1> QED
  BY <1>2, <1>3 DEF ReaderAlone

-----------------------------------------------------------------------------
\* The theorems.

LEMMA InitHandover == HandoverInit => HandoverInv
<1> SUFFICES ASSUME HandoverInit PROVE HandoverInv
  OBVIOUS
<1>1. Init /\ up = {}
  BY DEF HandoverInit
<1>2. ServiceInv
  BY <1>1, InitInv
<1>3. pc = [p \in Procs |-> "down"] /\ files = [p \in Procs |-> <<>>]
  BY DEF HandoverInit, Reader!Init
<1>4. PcInv
  BY <1>3 DEF PcInv
<1>5. QuietInv /\ BootInv
  BY <1>1 DEF Init, QuietInv, BootInv
<1>6. Coupled
  BY <1>1, <1>3 DEF Init, Coupled, Procs
<1> QED
  BY <1>2, <1>4, <1>5, <1>6 DEF HandoverInv

LEMMA HandoverStep == HandoverInv /\ [HandoverNext]_handoverVars => HandoverInv'
<1> SUFFICES ASSUME HandoverInv, [HandoverNext]_handoverVars PROVE HandoverInv'
  OBVIOUS
<1> USE DEF HandoverInv
<1>1. ServiceInv' /\ QuietInv' /\ BootInv'
  BY ServiceKept, QuietKept, BootKept
<1>2. CASE UNCHANGED handoverVars
  <2>1. UNCHANGED <<pc, files, up, capture>>
    BY <1>2 DEF handoverVars, vars, threads, reader
  <2> QED
    BY <1>1, <2>1 DEF PcInv, Coupled, Procs
<1>3. CASE HandoverNext
  <2>1. PcInv' /\ Coupled'
    BY <1>3, Steps, BootCoupled, AloneCoupled, StartCoupled, StopCoupled, ThreadsCoupled,
       CopyCoupled
  <2> QED
    BY <1>1, <2>1
<1> QED
  BY <1>2, <1>3

\* The composition keeps the invariant of the service, what comes before the first
\* request, the way of the boot logger out, and the two components in step.
THEOREM HandoverCorrect == HandoverSpec => []HandoverInv
  BY InitHandover, HandoverStep, PTL DEF HandoverSpec

\* Who reads: a process that is up and has a file.
LEMMA OnlyReadersRead ==
  ASSUME HandoverInv, [HandoverNext]_handoverVars
  PROVE  /\ \A p \in Procs : p \notin up => files'[p] = files[p]
         /\ next' = next \/ \E p \in Procs : p \in up
<1> USE DEF HandoverInv
<1>1. \A p \in Procs : p \in up <=> pc[p] # "down"
  BY DEF Coupled
<1>2. CASE UNCHANGED reader
  BY <1>2 DEF reader
<1>3. ASSUME NEW q \in Procs, Reader!Start(q)
      PROVE  UNCHANGED <<files, next>>
  BY <1>3, ReaderSteps
<1>4. ASSUME NEW q \in Procs, Reader!OpenFails(q)
      PROVE  UNCHANGED <<files, next>>
  BY <1>4, ReaderSteps
<1>5. ASSUME NEW q \in Procs, Reader!OpenFiles(q) \/ Reader!Kill(q) \/ Reader!Write(q)
      PROVE  next' = next /\ q \in up /\ \A p \in Procs \ {q} : files'[p] = files[p]
  BY <1>1, <1>5, ReaderSteps
<1>6. ASSUME NEW q \in Procs, Copy(q), Reader!Read(q)
      PROVE  files' = files /\ q \in up
  BY <1>1, <1>6, ReaderSteps
<1>7. Boot \in Procs /\ Normal \in Procs
  BY DEF Procs
<1>8. CASE StartBootLogger
  BY <1>3, <1>7, <1>8 DEF StartBootLogger
<1>9. ReadersStopped => UNCHANGED reader \/ \E q \in Procs : Reader!Kill(q)
  BY DEF ReadersStopped
<1>10. CASE InitStarts
  BY <1>2, <1>3, <1>7, <1>10 DEF InitStarts
<1>11. CASE InitStops
  BY <1>2, <1>5, <1>9, <1>11 DEF InitStops
<1>12. CASE ZxloggerThreads
  <2>1. \/ Reader!OpenFiles(Normal) \/ Reader!OpenFails(Normal)
        \/ ReadersStopped
    BY <1>12 DEF ZxloggerThreads
  <2> QED
    BY <1>2, <1>4, <1>5, <1>7, <1>9, <2>1
<1>13. CASE ReaderAlone
  <2>1. CASE Reader!KernelLog
    BY <2>1 DEF Reader!KernelLog, Reader!disk
  <2>2. ASSUME NEW q \in Procs, Copy(q)
        PROVE  /\ \A p \in Procs : p \notin up => files'[p] = files[p]
               /\ next' = next \/ q \in up
    BY <1>4, <1>5, <1>6, <2>2 DEF Copy
  <2> QED
    BY <1>13, <2>1, <2>2 DEF ReaderAlone
<1>14. CASE UNCHANGED handoverVars
  BY <1>2, <1>14 DEF handoverVars
<1> QED
  BY <1>2, <1>8, <1>10, <1>11, <1>12, <1>13, <1>14, Steps DEF ServiceAlone

\* What logcp copies is the whole boot log: once it copies, and whenever a request
\* has been carried out, no step adds to the boot logger's file.
THEOREM CopyIsWhole == HandoverSpec => BootLogFinal
<1>1. HandoverInv /\ [HandoverNext]_handoverVars =>
        (logcp = "cp" \/ (Settled /\ sets > 0) => files'[Boot] = files[Boot])
  <2> SUFFICES ASSUME HandoverInv, [HandoverNext]_handoverVars,
                      logcp = "cp" \/ (Settled /\ sets > 0)
               PROVE  files'[Boot] = files[Boot]
    OBVIOUS
  <2>1. CASE logcp = "cp"
    <3>1. Boot \notin up
      BY <2>1 DEF HandoverInv, ServiceInv, CopyInv, Boot
    <3> QED
      BY <3>1, OnlyReadersRead DEF Procs
  <2>2. CASE Settled /\ sets > 0
    <3>1. queue = <<>> /\ commands = <<>>
      BY <2>2 DEF Settled
    <3>2. \A x : ~Has(queue, x) /\ ~Has(commands, x)
      BY <3>1 DEF Has
    <3>3. Boot \notin up
      BY <2>2, <3>2 DEF HandoverInv, BootInv
    <3> QED
      BY <3>3, OnlyReadersRead DEF Procs
  <2> QED
    BY <2>1, <2>2
<1> QED
  BY HandoverCorrect, <1>1, PTL DEF HandoverSpec, BootLogFinal

\* After a stop has been carried out the kernel log stays for the next start.
THEOREM NothingConsumed == HandoverSpec => StoppedReadsNothing
<1>1. HandoverInv /\ [HandoverNext]_handoverVars =>
        (Settled /\ running = "0" => next' = next)
  <2> SUFFICES ASSUME HandoverInv, [HandoverNext]_handoverVars, Settled, running = "0"
               PROVE  next' = next
    OBVIOUS
  <2>1. /\ \A x : ~Has(commands, x)
        /\ \A x, y : ~LastIs(queue, x, y)
    BY DEF Settled, Has, LastIs
  <2>2. Stopping
    BY <2>1 DEF HandoverInv, ServiceInv, StopInv, StopQueued
  <2>3. up \cap Procs = {}
    BY <2>1, <2>2 DEF Stopping, Procs, Boot, Normal
  <2> QED
    BY <2>3, OnlyReadersRead
<1> QED
  BY HandoverCorrect, <1>1, PTL DEF HandoverSpec, StoppedReadsNothing

\* init, the threads of zxlogger and the kernel use the readers as KernelReader
\* allows: every theorem about its initial state and steps holds here.
THEOREM ReadersComply == HandoverSpec => Reader!Init /\ [][Reader!Next]_(Reader!vars)
<1>1. [HandoverNext]_handoverVars => [Reader!Next]_(Reader!vars)
  <2> SUFFICES ASSUME [HandoverNext]_handoverVars PROVE Reader!Next \/ UNCHANGED reader
    BY DEF reader, Reader!vars, Reader!loop, Reader!disk
  <2>1. Boot \in Procs /\ Normal \in Procs
    BY DEF Procs
  <2>2. \A p \in Procs : Copy(p) => Reader!Thread(p)
    BY DEF Copy, Reader!Thread
  <2>3. ReadersStopped => UNCHANGED reader \/ \E p \in Procs : Reader!Kill(p)
    BY DEF ReadersStopped
  <2>4. \A p \in Procs : Reader!Start(p) \/ Reader!Kill(p) \/ Reader!Thread(p) => Reader!Next
    BY DEF Reader!Next
  <2>5. Reader!OpenFiles(Normal) \/ Reader!OpenFails(Normal) => Reader!Thread(Normal)
    BY DEF Reader!Thread
  <2>6. HandoverNext => Reader!Next \/ UNCHANGED reader
    BY <2>1, <2>2, <2>3, <2>4, <2>5, Steps
       DEF StartBootLogger, InitStarts, InitStops, ZxloggerThreads,
           ServiceAlone, ReaderAlone, Reader!Next
  <2> QED
    BY <2>6 DEF handoverVars
<1>2. HandoverInit => Reader!Init
  BY DEF HandoverInit
<1> QED
  BY <1>1, <1>2, PTL DEF HandoverSpec

=============================================================================
