---------------------------- MODULE LoggerService ----------------------------
(***************************************************************************)
(* How recording is switched on and off (zxlogger.rc): an app sets         *)
(* debug.sys.logger.running, init runs the commands of the matching        *)
(* triggers one by one, the threads of zxlogger make their directories and *)
(* set the properties that start diag_mdlog and tcpdump, logcp copies the  *)
(* boot log.                                                               *)
(*                                                                         *)
(* init queues every property change and takes the next change when the    *)
(* commands of the last one are done; it serves property_set of other      *)
(* processes between two commands.  A stop is a SIGKILL.  Of the threads   *)
(* of zxlogger there are the modem thread, the net thread and one that     *)
(* captures a log.  zxlogger is oneshot: init does not start it again.     *)
(***************************************************************************)
EXTENDS Naturals, Sequences, FiniteSets

CONSTANTS
  MaxSets,    \* bound on what the app sets
  Modem, Net, \* whether the modem and the net device are enabled
  Options     \* the tcpdump that persist.netlog.option may choose

ASSUME ServiceAssumption ==
  /\ MaxSets \in Nat
  /\ Modem \in BOOLEAN /\ Net \in BOOLEAN
  /\ Options \subseteq {"tcpdump_all", "tcpdump_wlan"}

VARIABLES
  running,   \* the last value the app set
  sets,      \* how often it did
  queue,     \* property changes init has to handle
  commands,  \* commands of the change it handles
  up,        \* services with a process
  dirs,      \* how much of .../zxlog/temp/net exists: 0 none, 1 zxlog, 2 temp, 3 net
  modem, net, capture,  \* the threads of zxlogger
  netlog,    \* persist.netlog.option: the property the net thread sets
  logcp,     \* the script: off, mkdir, cp
  diag,      \* diag_mdlog: off, starting, on
  tcpdump,   \* the recorder of netlog: off, starting, recording
  noParent,  \* zxlogger was started without .../zxlog (history)
  late,      \* properties set to 1 between their reset and the stop (history)
  races      \* early: a diag_mdlog -k came before the daemon was ready;
             \* overlap: diag_mdlog was started while a -k ran (history)

threads == <<modem, net, capture>>
recording == <<diag, tcpdump>>
hist == <<netlog, noParent, late, races>>
vars == <<running, sets, queue, commands, up, dirs, threads, logcp, recording, hist>>

Recorder(p) == CASE p = "tcpdump_all" -> "mytcpdump" [] p = "tcpdump_wlan" -> "mytcpdumpwlan"

Init ==
  /\ running = "unset"
  /\ sets = 0
  /\ queue = <<>> /\ commands = <<>>
  /\ up \in {{}, {"zxbootlogger"}}
  /\ dirs \in 0..3
  /\ modem = "off" /\ net = "off" /\ capture = "off"
  /\ logcp = "off"
  /\ diag = "off" /\ tcpdump = "off"
  /\ netlog \in Options
  /\ noParent = FALSE
  /\ late = {}
  /\ races = {}

-----------------------------------------------------------------------------
\* Wrong variants used to check that the properties bite.

CopyBeforeStop ==
  <<<<"start", "zxlogger">>, <<"start", "logcp">>, <<"stop", "zxbootlogger">>>>

\* The threads outlive the process.
KillMainOnly ==
  /\ commands # <<>>
  /\ commands[1][1] = "stop"
  /\ commands' = Tail(commands)
  /\ up' = up \ {commands[1][2]}
  /\ UNCHANGED <<running, sets, queue, dirs, threads, logcp, recording, hist>>

ResetAtStart ==
  <<<<"start", "zxlogger">>, <<"setprop", "modem">>, <<"setprop", "tcpdump_all">>,
    <<"stop", "zxbootlogger">>, <<"start", "logcp">>>>

WlanNotReset ==
  <<<<"setprop", "modem">>, <<"setprop", "tcpdump_all">>,
    <<"stop", "zxlogger">>, <<"stop", "zxbootlogger">>>>

StopForgetsBoot ==
  <<<<"setprop", "modem">>, <<"setprop", "tcpdump_all">>, <<"setprop", "tcpdump_wlan">>,
    <<"stop", "zxlogger">>>>

StopForgetsZxlogger ==
  <<<<"setprop", "modem">>, <<"setprop", "tcpdump_all">>, <<"setprop", "tcpdump_wlan">>,
    <<"stop", "zxbootlogger">>>>

NoParentDirectory(d) == d

-----------------------------------------------------------------------------
\* The triggers of zxlogger.rc: the commands of a property change.

OnRunning ==
  <<<<"start", "zxlogger">>, <<"stop", "zxbootlogger">>, <<"start", "logcp">>>>

OnStopped ==
  <<<<"setprop", "modem">>, <<"setprop", "tcpdump_all">>, <<"setprop", "tcpdump_wlan">>,
    <<"stop", "zxlogger">>, <<"stop", "zxbootlogger">>>>

Commands(c) ==
  CASE c = <<"running", "1">> -> OnRunning
    [] c = <<"running", "0">> -> OnStopped
    [] c = <<"modem", "1">> -> <<<<"start", "start_diag_mdlog">>>>
    [] c = <<"modem", "0">> -> <<<<"start", "stop_diag_mdlog">>>>
    [] c[1] \in {"tcpdump_all", "tcpdump_wlan"} ->
         <<<<IF c[2] = "1" THEN "start" ELSE "stop", Recorder(c[1])>>>>

Enqueue(c) == Append(queue, c)

\* The app.
SetRunning ==
  /\ sets < MaxSets
  /\ sets' = sets + 1
  /\ \E v \in {"0", "1"} :
       /\ running' = v
       /\ queue' = Enqueue(<<"running", v>>)
  /\ UNCHANGED <<commands, up, dirs, threads, logcp, recording, hist>>

HandleChange ==
  /\ commands = <<>>
  /\ queue # <<>>
  /\ commands' = Commands(Head(queue))
  /\ queue' = Tail(queue)
  /\ UNCHANGED <<running, sets, up, dirs, threads, logcp, recording, hist>>

SetProp ==
  /\ commands # <<>>
  /\ commands[1][1] = "setprop"
  /\ LET p == commands[1][2]
     IN  /\ queue' = Enqueue(<<p, "0">>)
         /\ late' = late \ {p}
  /\ commands' = Tail(commands)
  /\ UNCHANGED <<running, sets, up, dirs, threads, logcp, recording, netlog, noParent, races>>

\* A service that runs is not started again.
StartService ==
  /\ commands # <<>>
  /\ commands[1][1] = "start"
  /\ commands' = Tail(commands)
  /\ LET s == commands[1][2]
         new == s \notin up
     IN  /\ up' = up \cup {s}
         /\ IF s = "zxlogger" /\ new
            THEN /\ modem' = IF Modem THEN "mkdir" ELSE "off"
                 /\ net' = IF Net THEN "mkdir" ELSE "off"
                 /\ capture' = "mkdir"
                 /\ noParent' = (dirs = 0)
            ELSE UNCHANGED <<threads, noParent>>
         /\ logcp' = IF s = "logcp" /\ new THEN "mkdir" ELSE logcp
         /\ diag' = IF s = "start_diag_mdlog" /\ new THEN "starting" ELSE diag
         /\ tcpdump' = IF s = Recorder(netlog) /\ new THEN "starting" ELSE tcpdump
         /\ races' = IF s # "start_diag_mdlog" THEN races
                     ELSE IF "stop_diag_mdlog" \in up THEN races \cup {"overlap"}
                     ELSE races \ {"overlap"}
  /\ UNCHANGED <<running, sets, queue, dirs, netlog, late>>

StopService ==
  /\ commands # <<>>
  /\ commands[1][1] = "stop"
  /\ commands' = Tail(commands)
  /\ LET s == commands[1][2]
     IN  /\ up' = up \ {s}
         /\ IF s = "zxlogger"
            THEN modem' = "off" /\ net' = "off" /\ capture' = "off"
            ELSE UNCHANGED threads
         /\ tcpdump' = IF s = Recorder(netlog) THEN "off" ELSE tcpdump
  /\ UNCHANGED <<running, sets, queue, dirs, logcp, diag, hist>>

InitProcess == HandleChange \/ SetProp \/ StartService \/ StopService

-----------------------------------------------------------------------------
\* The threads of zxlogger.

\* createDirectory(logPath): one level, and only below an existing directory.
MadeLogPath(d) == IF d = 1 THEN 2 ELSE d

\* createDirectory(logPath, "net") of the net thread.
MadeNetDirectory(d) == IF d = 2 THEN 3 ELSE d

\* readyToRun, which every thread runs first; whether it succeeds nobody asks.
MakeLogPath ==
  \/ /\ modem = "mkdir" /\ modem' = "mkdir2"
     /\ dirs' = MadeLogPath(dirs)
     /\ UNCHANGED <<net, capture>>
  \/ /\ capture = "mkdir" /\ capture' = "mkdir2"
     /\ dirs' = MadeLogPath(dirs)
     /\ UNCHANGED <<modem, net>>
  \/ /\ net = "mkdir" /\ net' = "mkdir2"
     /\ dirs' = MadeLogPath(dirs)
     /\ UNCHANGED <<modem, capture>>

MakeNetDirectory ==
  /\ net = "mkdir2" /\ net' = "start"
  /\ dirs' = MadeNetDirectory(dirs)
  /\ UNCHANGED <<modem, capture>>

\* createDirectory(logPath, logDir), and the open of the log file in it, which
\* fails without the directory: the thread sleeps for ever.
OpenLog ==
  /\ capture = "mkdir2"
  /\ capture' = IF dirs >= 2 THEN "capturing" ELSE "dead"
  /\ UNCHANGED <<dirs, modem, net>>

\* What a thread sets after init has reset it and before init stops zxlogger.
Late(p) ==
  LET left == {commands[j] : j \in 1..Len(commands)}
  IN  IF <<"stop", "zxlogger">> \in left /\ <<"setprop", p>> \notin left
      THEN late \cup {p} ELSE late

\* The modem thread's own opendir and mkdir, then property_set.
SetModem ==
  /\ modem = "mkdir2"
  /\ dirs >= 2
  /\ modem' = "set"
  /\ queue' = Enqueue(<<"modem", "1">>)
  /\ late' = Late("modem")
  /\ UNCHANGED <<running, sets, commands, up, dirs, net, capture, logcp, recording, netlog, noParent, races>>

\* "don't start modem log": threadLoop returns false and the last reference to
\* the Thread, an object on the stack of main, deletes it: undefined, the
\* process goes on or aborts.
ModemGivesUp ==
  /\ modem = "mkdir2"
  /\ dirs < 2
  /\ \/ /\ modem' = "gone"
        /\ UNCHANGED <<net, capture, up>>
     \/ /\ modem' = "off" /\ net' = "off" /\ capture' = "off"
        /\ up' = up \ {"zxlogger"}
  /\ UNCHANGED <<running, sets, queue, commands, dirs, logcp, recording, hist>>

\* threadLoop of the net thread, with or without the directory.
SetTcpdump ==
  /\ net = "start"
  /\ net' = "set"
  /\ queue' = Enqueue(<<netlog, "1">>)
  /\ late' = Late(netlog)
  /\ UNCHANGED <<running, sets, commands, up, dirs, modem, capture, logcp, recording, netlog, noParent, races>>

Zxlogger ==
  \/ /\ MakeLogPath \/ MakeNetDirectory \/ OpenLog
     /\ UNCHANGED <<running, sets, queue, commands, up, logcp, recording, hist>>
  \/ SetModem \/ ModemGivesUp \/ SetTcpdump

-----------------------------------------------------------------------------
\* logcp.sh, diag_mdlog and tcpdump.

\* mkdir -p, one level at a time, then the copies.
Logcp ==
  /\ \/ /\ logcp = "mkdir" /\ dirs < 2
        /\ dirs' = dirs + 1
        /\ UNCHANGED <<logcp, up>>
     \/ /\ logcp = "mkdir" /\ dirs >= 2
        /\ logcp' = "cp"
        /\ UNCHANGED <<dirs, up>>
     \/ /\ logcp = "cp"
        /\ logcp' = "off"
        /\ up' = up \ {"logcp"}
        /\ UNCHANGED dirs
  /\ UNCHANGED <<running, sets, queue, commands, threads, recording, hist>>

DiagReady ==
  /\ diag = "starting"
  /\ diag' = "on"
  /\ UNCHANGED <<running, sets, queue, commands, up, dirs, threads, logcp, tcpdump, hist>>

\* diag_mdlog -k ends a daemon that is there and exits.
DiagKill ==
  /\ "stop_diag_mdlog" \in up
  /\ IF diag = "on"
     THEN /\ diag' = "off"
          /\ up' = up \ {"stop_diag_mdlog", "start_diag_mdlog"}
          /\ races' = races \ {"early"}
     ELSE /\ up' = up \ {"stop_diag_mdlog"}
          /\ races' = IF diag = "starting" THEN races \cup {"early"} ELSE races
          /\ UNCHANGED diag
  /\ UNCHANGED <<running, sets, queue, commands, dirs, threads, logcp, tcpdump, netlog, noParent, late>>

\* tcpdump opens its file in .../temp/net, or ends.  mytcpdumpwlan is oneshot;
\* mytcpdump is not, for zxlogger.rc:93 misspells it: init starts it again until it
\* finds its directory or is stopped.
Tcpdump ==
  /\ tcpdump = "starting"
  /\ \/ /\ dirs = 3
        /\ tcpdump' = "recording"
        /\ UNCHANGED up
     \/ /\ dirs < 3 /\ netlog = "tcpdump_wlan"
        /\ tcpdump' = "off"
        /\ up' = up \ {Recorder(netlog)}
  /\ UNCHANGED <<running, sets, queue, commands, dirs, threads, logcp, diag, hist>>

Tools == Logcp \/ DiagReady \/ DiagKill \/ Tcpdump

System == InitProcess \/ Zxlogger \/ Tools

Next == SetRunning \/ System

\* Some process that can run does; nothing makes the app act.
Spec == Init /\ [][Next]_vars /\ WF_vars(System)

-----------------------------------------------------------------------------

TypeOK ==
  /\ running \in {"unset", "0", "1"}
  /\ sets \in 0..MaxSets
  /\ dirs \in 0..3
  /\ modem \in {"off", "mkdir", "mkdir2", "set", "gone"}
  /\ net \in {"off", "mkdir", "mkdir2", "start", "set"}
  /\ capture \in {"off", "mkdir", "mkdir2", "capturing", "dead"}
  /\ logcp \in {"off", "mkdir", "cp"} /\ (logcp # "off" <=> "logcp" \in up)
  /\ diag \in {"off", "starting", "on"} /\ (diag # "off" <=> "start_diag_mdlog" \in up)
  /\ tcpdump \in {"off", "starting", "recording"}
  /\ tcpdump # "off" <=> Recorder(netlog) \in up
  /\ races \subseteq {"early", "overlap"}
  /\ late \subseteq {"modem", netlog}
  /\ "zxlogger" \notin up => modem = "off" /\ net = "off" /\ capture = "off"

\* init has nothing left to do.
Settled == queue = <<>> /\ commands = <<>> /\ "stop_diag_mdlog" \notin up

\* When a request to stop has been carried out nothing records: no logger, no
\* tcpdump and no diag_mdlog, except through one of two windows: a thread set its
\* property between the reset and the kill (zxlogger.rc:51-54), or diag_mdlog -k
\* came before the daemon could be told.
StopIsComplete ==
  Settled /\ running = "0" =>
    /\ up \cap {"zxlogger", "zxbootlogger"} = {}
    /\ netlog \notin late => up \cap {"mytcpdump", "mytcpdumpwlan"} = {}
    /\ "modem" \notin late /\ "early" \notin races => diag = "off"

\* When a request to start has been carried out, also right after a stop whose
\* resets init had not yet handled, what the threads asked for records: tcpdump has
\* its directory and runs, or .../zxlog was missing when zxlogger started;
\* diag_mdlog may miss the request when its start overlaps a diag_mdlog -k of the stop.
StartIsComplete ==
  Settled /\ running = "1" =>
    /\ net = "set" /\ dirs = 3 => Recorder(netlog) \in up
    /\ net = "set" /\ dirs < 3 => noParent
    /\ modem = "set" /\ "overlap" \notin races => diag # "off"

\* The boot log is copied (logcp.sh:3) when nobody writes it any more.
BootLogCopiedAfterStop == logcp = "cp" => "zxbootlogger" \notin up

\* A capture is lost for want of a directory only if .../zxlog was missing when
\* zxlogger started: whatever logcp creates meanwhile, one level is enough from there
\* on, for the thread that opens its log and for the modem thread, whose end may
\* abort the process with the captures of all others (modem.cpp:75).
CaptureLostOnlyWithoutParent ==
  /\ capture = "dead" => noParent
  /\ Settled /\ running = "1" => "zxlogger" \in up \/ noParent

\* A last request to start is carried out: zxlogger captures in the end, its modem
\* thread has set its property and the tcpdump of its net thread records, unless
\* .../zxlog was missing when this zxlogger was started.
StartCaptures ==
  <>[](running = "1") =>
    <>[](\/ noParent
         \/ /\ capture = "capturing"
            /\ Net => tcpdump = "recording"
            /\ Modem => modem = "set")

\* A last request to stop ends with no zxlogger and nothing that captures, and
\* logcp comes to its end.
StopTakesEffect ==
  <>[](running = "0") => <>[]("zxlogger" \notin up /\ capture = "off" /\ logcp = "off")

=============================================================================
