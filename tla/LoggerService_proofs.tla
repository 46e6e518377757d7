------------------------ MODULE LoggerService_proofs ------------------------
(***************************************************************************)
(* Proofs about LoggerService for every number of requests of the app and  *)
(* every set of enabled devices.                                           *)
(***************************************************************************)
EXTENDS LoggerService, TLAPS

\* x is somewhere in s.
Has(s, x) == \E j \in 1..Len(s) : s[j] = x

\* There is an x in s that no y follows.
LastIs(s, x, y) ==
  \E j \in 1..Len(s) : s[j] = x /\ \A k \in j + 1 .. Len(s) : s[k] # y

\* Every y in s comes after an x.
OnlyAfter(s, y, x) ==
  \A j \in 1..Len(s) : s[j] = y => \E k \in 1 .. j - 1 : s[k] = x

\* Every x in s comes before a y.
FollowedBy(s, x, y) ==
  \A j \in 1..Len(s) : s[j] = x => \E k \in j + 1 .. Len(s) : s[k] = y

Tcpdumps == {"tcpdump_all", "tcpdump_wlan"}
Recorders == {"mytcpdump", "mytcpdumpwlan"}

Changes == ({"running", "modem"} \cup Tcpdumps) \X {"0", "1"}

Orders ==
  ({"start"} \X ({"zxlogger", "logcp", "start_diag_mdlog", "stop_diag_mdlog"} \cup Recorders))
  \cup ({"stop"} \X ({"zxlogger", "zxbootlogger"} \cup Recorders))
  \cup ({"setprop"} \X ({"modem"} \cup Tcpdumps))

\* What init has to do; only the chosen tcpdump is ever asked for.
QueueInv ==
  /\ queue \in Seq(Changes) /\ commands \in Seq(Orders)
  /\ netlog \in Tcpdumps
  /\ \A p \in Tcpdumps \ {netlog} :
       /\ ~Has(queue, <<p, "1">>)
       /\ ~Has(commands, <<"start", Recorder(p)>>)
       /\ Recorder(p) \notin up

\* logcp is started after zxbootlogger was stopped, and nothing starts
\* zxbootlogger.
CopyInv ==
  "zxbootlogger" \in up =>
    /\ logcp = "off"
    /\ OnlyAfter(commands, <<"start", "logcp">>, <<"stop", "zxbootlogger">>)

\* Directories are only made: if there was a parent when zxlogger started, the
\* first createDirectory of a thread has made the log directory, the second one of
\* the net thread its own.
DirInv ==
  /\ noParent \in BOOLEAN
  /\ capture = "dead" => noParent
  /\ ~noParent =>
       /\ (modem # "off" \/ capture # "off" \/ net # "off") => dirs >= 1
       /\ (modem = "mkdir2" \/ capture = "mkdir2" \/ net = "mkdir2") => dirs >= 2
       /\ net \in {"start", "set"} => dirs = 3

\* The stop the app asked for last is still in the queue.
StopQueued == LastIs(queue, <<"running", "0">>, <<"running", "1">>)

\* It is being carried out or has been.
Stopping ==
  /\ ~Has(queue, <<"running", "1">>)
  /\ ~Has(commands, <<"start", "zxlogger">>)
  /\ \A s \in up \cap {"zxlogger", "zxbootlogger"} : Has(commands, <<"stop", s>>)

\* A property that no thread set late is reset at the end.
Resetting(p) ==
  \/ Has(commands, <<"setprop", p>>)
  \/ LastIs(queue, <<p, "0">>, <<p, "1">>)

TcpdumpStops ==
  LET r == Recorder(netlog)
  IN  /\ ~Has(queue, <<netlog, "1">>)
      /\ ~Has(commands, <<"start", r>>)
      /\ r \in up => Has(commands, <<"stop", r>>)

DiagStops ==
  /\ ~Has(queue, <<"modem", "1">>)
  /\ ~Has(commands, <<"start", "start_diag_mdlog">>)
  /\ \/ Has(commands, <<"start", "stop_diag_mdlog">>)
     \/ "stop_diag_mdlog" \in up
     \/ diag = "off"
     \/ "early" \in races

StopInv ==
  running = "0" /\ ~StopQueued =>
    /\ Stopping
    /\ netlog \notin late => Resetting(netlog) \/ TcpdumpStops
    /\ "modem" \notin late => Resetting("modem") \/ DiagStops

\* init resets a property only before it stops zxlogger.
ResetInv ==
  \A p \in {"modem"} \cup Tcpdumps :
    FollowedBy(commands, <<"setprop", p>>, <<"stop", "zxlogger">>)

\* A property a thread has set is not reset while that thread lives, unless init
\* is about to kill it.
Setting(p) ==
  \/ Has(commands, <<"stop", "zxlogger">>)
  \/ LastIs(queue, <<p, "1">>, <<p, "0">>)

TcpdumpRuns ==
  LET r == Recorder(netlog)
  IN  /\ ~Has(queue, <<netlog, "0">>)
      /\ ~Has(commands, <<"stop", r>>)
      /\ r \in up \/ Has(commands, <<"start", r>>) \/ dirs < 3

DiagRuns ==
  /\ ~Has(queue, <<"modem", "0">>)
  /\ ~Has(commands, <<"start", "stop_diag_mdlog">>)
  /\ \/ Has(commands, <<"start", "start_diag_mdlog">>)
     \/ "overlap" \in races
     \/ diag # "off" /\ "stop_diag_mdlog" \notin up

StartInv ==
  /\ net = "set" => Setting(netlog) \/ TcpdumpRuns
  /\ modem = "set" => Setting("modem") \/ DiagRuns

\* The start the app asked for last is in the queue, or it is being carried out, or
\* zxlogger is up unless its modem thread has taken it down.
StartQueued == LastIs(queue, <<"running", "1">>, <<"running", "0">>)

UpInv ==
  running = "1" /\ ~StartQueued =>
    /\ ~Has(queue, <<"running", "0">>)
    /\ ~Has(commands, <<"stop", "zxlogger">>)
    /\ Has(commands, <<"start", "zxlogger">>) \/ "zxlogger" \in up \/ noParent

ServiceInv ==
  /\ TypeOK
  /\ QueueInv
  /\ CopyInv
  /\ DirInv
  /\ StopInv
  /\ ResetInv
  /\ StartInv
  /\ UpInv

-----------------------------------------------------------------------------
\* Sequences.

LEMMA AppendFacts ==
  ASSUME NEW S, NEW s \in Seq(S), NEW e \in S
  PROVE  /\ Append(s, e) \in Seq(S)
         /\ \A x : Has(Append(s, e), x) <=> Has(s, x) \/ e = x
         /\ \A x, y : e = x => LastIs(Append(s, e), x, y)
         /\ \A x, y : e # y /\ LastIs(s, x, y) => LastIs(Append(s, e), x, y)
<1> DEFINE t == Append(s, e)
<1>1. /\ t \in Seq(S) /\ Len(s) \in Nat /\ Len(t) = Len(s) + 1
      /\ t[Len(s) + 1] = e /\ \A j \in 1..Len(s) : t[j] = s[j]
  OBVIOUS
<1> HIDE DEF t
<1>2. ASSUME NEW x PROVE Has(t, x) <=> Has(s, x) \/ e = x
  BY <1>1 DEF Has
<1>3. ASSUME NEW x, NEW y, e = x PROVE LastIs(t, x, y)
  BY <1>1, <1>3 DEF LastIs
<1>4. ASSUME NEW x, NEW y, e # y, LastIs(s, x, y) PROVE LastIs(t, x, y)
  BY <1>1, <1>4 DEF LastIs
<1> QED
  BY <1>1, <1>2, <1>3, <1>4 DEF t

LEMMA TailFacts ==
  ASSUME NEW S, NEW s \in Seq(S), s # <<>>
  PROVE  /\ Tail(s) \in Seq(S) /\ s[1] \in S /\ Head(s) = s[1] /\ Has(s, s[1])
         /\ \A x : Has(s, x) <=> s[1] = x \/ Has(Tail(s), x)
         /\ \A x, y : LastIs(s, x, y) =>
                         LastIs(Tail(s), x, y) \/ (s[1] = x /\ ~Has(Tail(s), y))
         /\ \A x, y : FollowedBy(s, x, y) =>
              /\ FollowedBy(Tail(s), x, y)
              /\ s[1] = x => Has(Tail(s), y)
         /\ \A x, y : OnlyAfter(s, y, x) =>
              /\ s[1] # y
              /\ s[1] # x => OnlyAfter(Tail(s), y, x)
<1> DEFINE t == Tail(s)
<1>1. /\ t \in Seq(S) /\ s[1] \in S /\ Head(s) = s[1]
      /\ Len(s) \in Nat \ {0} /\ Len(t) = Len(s) - 1
      /\ \A j \in 1..Len(t) : t[j] = s[j + 1]
  OBVIOUS
<1>2. \A j \in 1..Len(s) : j = 1 \/ (j - 1 \in 1..Len(t) /\ t[j - 1] = s[j])
  BY <1>1
<1> HIDE DEF t
<1>3. ASSUME NEW x PROVE Has(s, x) <=> s[1] = x \/ Has(t, x)
  <2>1. ASSUME Has(s, x), s[1] # x PROVE Has(t, x)
    <3>1. PICK j \in 1..Len(s) : s[j] = x
      BY <2>1 DEF Has
    <3> QED
      BY <1>2, <2>1, <3>1 DEF Has
  <2>2. ASSUME Has(t, x) PROVE Has(s, x)
    <3>1. PICK j \in 1..Len(t) : t[j] = x
      BY <2>2 DEF Has
    <3>2. j + 1 \in 1..Len(s) /\ s[j + 1] = x
      BY <1>1, <3>1
    <3> QED
      BY <3>2 DEF Has
  <2>3. s[1] = x => Has(s, x)
    BY <1>1 DEF Has
  <2> QED
    BY <2>1, <2>2, <2>3
<1>4. ASSUME NEW x, NEW y, LastIs(s, x, y)
      PROVE  LastIs(t, x, y) \/ (s[1] = x /\ ~Has(t, y))
  <2>1. PICK j \in 1..Len(s) : s[j] = x /\ \A k \in j + 1 .. Len(s) : s[k] # y
    BY <1>4 DEF LastIs
  <2>2. \A k \in 1..Len(t) : k >= j => t[k] # y
    BY <1>1, <2>1
  <2>3. CASE j = 1
    BY <1>1, <2>1, <2>2, <2>3 DEF Has
  <2>4. CASE j # 1
    <3>1. j - 1 \in 1..Len(t) /\ t[j - 1] = x /\ \A k \in (j - 1) + 1 .. Len(t) : t[k] # y
      BY <1>1, <1>2, <2>1, <2>2, <2>4
    <3> QED
      BY <3>1 DEF LastIs
  <2> QED
    BY <2>3, <2>4
<1>5. ASSUME NEW x, NEW y, FollowedBy(s, x, y)
      PROVE  FollowedBy(t, x, y) /\ (s[1] = x => Has(t, y))
  BY <1>1, <1>2, <1>5 DEF FollowedBy, Has
<1>6. ASSUME NEW x, NEW y, OnlyAfter(s, y, x)
      PROVE  s[1] # y /\ (s[1] # x => OnlyAfter(t, y, x))
  <2>1. s[1] # y
    BY <1>1, <1>6 DEF OnlyAfter
  <2>2. ASSUME s[1] # x, NEW j \in 1..Len(t), t[j] = y
        PROVE  \E k \in 1 .. j - 1 : t[k] = x
    <3>1. PICK k \in 1..j : s[k] = x
      BY <1>1, <1>6, <2>2 DEF OnlyAfter
    <3>2. k - 1 \in 1 .. j - 1 /\ t[k - 1] = x
      BY <1>1, <1>2, <2>2, <3>1
    <3> QED
      BY <3>2
  <2> QED
    BY <2>1, <2>2 DEF OnlyAfter
<1> QED
  BY <1>1, <1>3, <1>4, <1>5, <1>6 DEF t

\* What init does for a change.
LEMMA CommandsFacts ==
  ASSUME NEW c \in Changes
  PROVE  /\ Commands(c) \in Seq(Orders) /\ Commands(c) # <<>>
         /\ c = <<"running", "1">> => \A x : Has(Commands(c), x) <=>
              x \in {<<"start", "zxlogger">>, <<"stop", "zxbootlogger">>, <<"start", "logcp">>}
         /\ c = <<"running", "0">> => \A x : Has(Commands(c), x) <=>
              x \in {<<"setprop", "modem">>, <<"setprop", "tcpdump_all">>,
                     <<"setprop", "tcpdump_wlan">>, <<"stop", "zxlogger">>,
                     <<"stop", "zxbootlogger">>}
         /\ c[1] = "modem" => \A x : Has(Commands(c), x) <=>
              x = <<"start", IF c[2] = "1" THEN "start_diag_mdlog" ELSE "stop_diag_mdlog">>
         /\ c[1] \in Tcpdumps => \A x : Has(Commands(c), x) <=>
              x = <<IF c[2] = "1" THEN "start" ELSE "stop", Recorder(c[1])>>
<1>1. CASE c = <<"running", "1">>
  BY <1>1 DEF Commands, OnRunning, Has, Orders, Tcpdumps
<1>2. CASE c = <<"running", "0">>
  BY <1>2 DEF Commands, OnStopped, Has, Orders, Tcpdumps
<1>3. CASE c[1] = "modem"
  BY <1>3 DEF Commands, Has, Orders, Changes, Tcpdumps
<1>4. CASE c[1] \in Tcpdumps
  BY <1>4 DEF Commands, Recorder, Has, Orders, Changes, Tcpdumps, Recorders
<1> QED
  BY <1>1, <1>2, <1>3, <1>4 DEF Changes, Tcpdumps

-----------------------------------------------------------------------------
\* One lemma for each step.

LEMMA InitInv == Init => ServiceInv
<1> SUFFICES ASSUME Init PROVE ServiceInv
  OBVIOUS
<1> USE ServiceAssumption DEF Init
<1>1. \A x : ~Has(queue, x) /\ ~Has(commands, x)
  BY DEF Has
<1>2. TypeOK
  BY DEF TypeOK, Recorder
<1>3. QueueInv
  BY <1>1 DEF QueueInv, Tcpdumps, Recorder
<1>4. CopyInv
  BY DEF CopyInv, OnlyAfter
<1>5. DirInv
  BY DEF DirInv
<1>6. StopInv /\ StartInv /\ UpInv
  BY DEF StopInv, StartInv, UpInv
<1>7. ResetInv
  BY DEF ResetInv, FollowedBy
<1> QED
  BY <1>2, <1>3, <1>4, <1>5, <1>6, <1>7 DEF ServiceInv

LEMMA SetRunningInv == ServiceInv /\ SetRunning => ServiceInv'
<1> SUFFICES ASSUME ServiceInv, SetRunning PROVE ServiceInv'
  OBVIOUS
<1>1. PICK v \in {"0", "1"} : running' = v /\ queue' = Append(queue, <<"running", v>>)
  BY DEF SetRunning, Enqueue
<1> DEFINE e == <<"running", v>>
<1>2. queue \in Seq(Changes) /\ e \in Changes
  BY DEF Changes, ServiceInv, QueueInv
<1> HIDE DEF e
<1>3. /\ queue' \in Seq(Changes)
      /\ \A x : Has(queue', x) <=> Has(queue, x) \/ e = x
      /\ \A x, y : e = x => LastIs(queue', x, y)
      /\ \A x, y : e # y /\ LastIs(queue, x, y) => LastIs(queue', x, y)
  <2>1. queue' = Append(queue, e)
    BY <1>1 DEF e
  <2> QED
    BY <1>2, <2>1, AppendFacts
<1>4. UNCHANGED <<commands, up, dirs, threads, logcp, recording, hist>>
  BY DEF SetRunning
<1>5. TypeOK'
  BY <1>1, <1>4, ServiceAssumption DEF ServiceInv, TypeOK, SetRunning, threads, recording, hist
<1>6. QueueInv'
  BY <1>3, <1>4 DEF e, ServiceInv, QueueInv, Tcpdumps, hist
<1>7. CopyInv' /\ DirInv' /\ ResetInv'
  BY <1>4 DEF ServiceInv, CopyInv, DirInv, ResetInv, threads, recording, hist
<1>8. StopInv'
  BY <1>1, <1>3 DEF e, StopInv, StopQueued
<1>9. StartInv'
  BY <1>3, <1>4
     DEF e, ServiceInv, QueueInv, StartInv, Setting, TcpdumpRuns, DiagRuns, threads, recording, hist, Tcpdumps
<1>10. UpInv'
  BY <1>1, <1>3 DEF e, UpInv, StartQueued
<1> QED
  BY <1>10, <1>5, <1>6, <1>7, <1>8, <1>9 DEF ServiceInv

LEMMA HandleChangeInv == ServiceInv /\ HandleChange => ServiceInv'
<1> SUFFICES ASSUME ServiceInv, HandleChange PROVE ServiceInv'
  OBVIOUS
<1> DEFINE c == queue[1]
<1>1. /\ queue \in Seq(Changes) /\ queue # <<>> /\ c = Head(queue) /\ c \in Changes
      /\ queue' = Tail(queue) /\ queue' \in Seq(Changes)
      /\ Has(queue, c)
      /\ \A x : Has(queue, x) <=> c = x \/ Has(queue', x)
      /\ \A x, y : LastIs(queue, x, y) =>
                     LastIs(queue', x, y) \/ (c = x /\ ~Has(queue', y))
  BY TailFacts DEF ServiceInv, QueueInv, HandleChange
<1>2. commands = <<>> /\ commands' = Commands(c) /\ commands' \in Seq(Orders)
  BY <1>1, CommandsFacts DEF HandleChange
<1>3. \A x : ~Has(commands, x)
  BY <1>2 DEF Has
<1>4. UNCHANGED <<running, sets, up, dirs, threads, logcp, recording, hist>>
  BY DEF HandleChange
<1> HIDE DEF c
<1>5. /\ c = <<"running", "1">> => \A x : Has(commands', x) <=>
           x \in {<<"start", "zxlogger">>, <<"stop", "zxbootlogger">>, <<"start", "logcp">>}
      /\ c = <<"running", "0">> => \A x : Has(commands', x) <=>
           x \in {<<"setprop", "modem">>, <<"setprop", "tcpdump_all">>,
                  <<"setprop", "tcpdump_wlan">>, <<"stop", "zxlogger">>,
                  <<"stop", "zxbootlogger">>}
      /\ c = <<"modem", "1">> => \A x : Has(commands', x) <=> x = <<"start", "start_diag_mdlog">>
      /\ c = <<"modem", "0">> => \A x : Has(commands', x) <=> x = <<"start", "stop_diag_mdlog">>
      /\ \A p \in Tcpdumps :
           /\ c = <<p, "1">> => \A x : Has(commands', x) <=> x = <<"start", Recorder(p)>>
           /\ c = <<p, "0">> => \A x : Has(commands', x) <=> x = <<"stop", Recorder(p)>>
  <2>1. c = <<"modem", "1">> => c[1] = "modem" /\ c[2] = "1"
    OBVIOUS
  <2>2. c = <<"modem", "0">> => c[1] = "modem" /\ c[2] # "1"
    OBVIOUS
  <2>3. \A p \in Tcpdumps :
          /\ c = <<p, "1">> => c[1] = p /\ c[2] = "1"
          /\ c = <<p, "0">> => c[1] = p /\ c[2] # "1"
    OBVIOUS
  <2>4. /\ c = <<"running", "1">> => \A x : Has(commands', x) <=>
             x \in {<<"start", "zxlogger">>, <<"stop", "zxbootlogger">>, <<"start", "logcp">>}
        /\ c = <<"running", "0">> => \A x : Has(commands', x) <=>
             x \in {<<"setprop", "modem">>, <<"setprop", "tcpdump_all">>,
                    <<"setprop", "tcpdump_wlan">>, <<"stop", "zxlogger">>,
                    <<"stop", "zxbootlogger">>}
    BY <1>1, <1>2, CommandsFacts
  <2>5. c[1] = "modem" => \A x : Has(commands', x) <=>
          x = <<"start", IF c[2] = "1" THEN "start_diag_mdlog" ELSE "stop_diag_mdlog">>
    BY <1>1, <1>2, CommandsFacts
  <2>6. c[1] \in Tcpdumps => \A x : Has(commands', x) <=>
          x = <<IF c[2] = "1" THEN "start" ELSE "stop", Recorder(c[1])>>
    BY <1>1, <1>2, CommandsFacts
  <2>7. c = <<"modem", "1">> => \A x : Has(commands', x) <=> x = <<"start", "start_diag_mdlog">>
    BY <2>1, <2>5
  <2>8. c = <<"modem", "0">> => \A x : Has(commands', x) <=> x = <<"start", "stop_diag_mdlog">>
    BY <2>2, <2>5
  <2>9. ASSUME NEW p \in Tcpdumps
        PROVE  /\ c = <<p, "1">> => \A x : Has(commands', x) <=> x = <<"start", Recorder(p)>>
               /\ c = <<p, "0">> => \A x : Has(commands', x) <=> x = <<"stop", Recorder(p)>>
    BY <2>3, <2>6
  <2> QED
    BY <2>4, <2>7, <2>8, <2>9
<1>6. \/ c = <<"running", "1">> \/ c = <<"running", "0">>
      \/ c = <<"modem", "1">> \/ c = <<"modem", "0">>
      \/ \E p \in Tcpdumps : c = <<p, "1">> \/ c = <<p, "0">>
  BY <1>1 DEF Changes, Tcpdumps
<1>7. TypeOK'
  BY <1>4, ServiceAssumption DEF ServiceInv, TypeOK, threads, recording, hist
<1>8. /\ netlog \in Tcpdumps
      /\ Recorder("tcpdump_all") = "mytcpdump" /\ Recorder("tcpdump_wlan") = "mytcpdumpwlan"
  BY DEF Recorder, ServiceInv, QueueInv
<1>9. QueueInv'
  <2>1. ASSUME NEW p \in Tcpdumps, p # netlog
        PROVE  ~Has(queue', <<p, "1">>) /\ ~Has(commands', <<"start", Recorder(p)>>) /\ Recorder(p) \notin up'
    <3>1. ~Has(queue, <<p, "1">>) /\ Recorder(p) \notin up
      BY <2>1 DEF ServiceInv, QueueInv
    <3>2. ~Has(queue', <<p, "1">>) /\ c # <<p, "1">>
      BY <1>1, <3>1
    <3>3. ~Has(commands', <<"start", Recorder(p)>>)
      BY <1>5, <1>6, <1>8, <3>2 DEF Tcpdumps
    <3> QED
      BY <1>4, <3>1, <3>2, <3>3
  <2> QED
    BY <1>1, <1>2, <1>4, <2>1, <1>8 DEF QueueInv, hist
<1>10. CopyInv'
  <2> SUFFICES ASSUME "zxbootlogger" \in up
               PROVE  OnlyAfter(commands', <<"start", "logcp">>, <<"stop", "zxbootlogger">>)
    BY <1>4 DEF ServiceInv, CopyInv
  <2>1. CASE c = <<"running", "1">>
    <3>1. commands' = <<<<"start", "zxlogger">>, <<"stop", "zxbootlogger">>, <<"start", "logcp">>>>
      BY <1>2, <2>1 DEF Commands, OnRunning
    <3>2. commands'[1] # <<"start", "logcp">> /\ commands'[2] = <<"stop", "zxbootlogger">>
          /\ commands'[2] # <<"start", "logcp">> /\ Len(commands') = 3
      BY <3>1
    <3> QED
      BY <3>2 DEF OnlyAfter
  <2>2. CASE c # <<"running", "1">>
    <3>1. ~Has(commands', <<"start", "logcp">>)
      BY <1>5, <1>6, <1>8, <2>2 DEF Tcpdumps
    <3> QED
      BY <3>1 DEF Has, OnlyAfter
  <2> QED
    BY <2>1, <2>2
<1>11. DirInv'
  BY <1>4 DEF ServiceInv, DirInv, threads, recording, hist
<1>12. ResetInv'
  <2> SUFFICES ASSUME NEW p \in {"modem"} \cup Tcpdumps
               PROVE  FollowedBy(commands', <<"setprop", p>>, <<"stop", "zxlogger">>)
    BY DEF ResetInv
  <2>1. CASE c = <<"running", "0">>
    BY <1>2, <2>1 DEF FollowedBy, Commands, OnStopped
  <2>2. CASE c # <<"running", "0">>
    <3>1. ~Has(commands', <<"setprop", p>>)
      BY <1>5, <1>6, <1>8, <2>2 DEF Tcpdumps
    <3> QED
      BY <3>1 DEF Has, FollowedBy
  <2> QED
    BY <2>1, <2>2
<1>13. StopInv'
  <2> SUFFICES ASSUME running = "0", ~StopQueued'
               PROVE  /\ Stopping'
                      /\ netlog \notin late => (Resetting(netlog) \/ TcpdumpStops)'
                      /\ "modem" \notin late => (Resetting("modem") \/ DiagStops)'
    BY <1>4 DEF StopInv, hist
  <2>1. CASE StopQueued
    <3>1. c = <<"running", "0">> /\ ~Has(queue', <<"running", "1">>)
      BY <1>1, <2>1 DEF StopQueued
    <3>2. Stopping'
      BY <1>5, <3>1 DEF Stopping
    <3>3. Resetting(netlog)' /\ Resetting("modem")'
      BY <1>4, <1>5, <1>8, <3>1 DEF Resetting, Tcpdumps, hist
    <3> QED
      BY <3>2, <3>3
  <2>2. CASE ~StopQueued
    <3>1. /\ Stopping
          /\ netlog \notin late => Resetting(netlog) \/ TcpdumpStops
          /\ "modem" \notin late => Resetting("modem") \/ DiagStops
      BY <2>2 DEF ServiceInv, StopInv
    <3>2. c # <<"running", "1">>
      BY <1>1, <3>1 DEF Stopping
    <3>3. Stopping'
      BY <1>1, <1>3, <1>4, <1>5, <1>6, <1>8, <3>1, <3>2 DEF Stopping, Tcpdumps
    <3>4. netlog \notin late => (Resetting(netlog) \/ TcpdumpStops)'
      BY <1>1, <1>3, <1>4, <1>5, <1>6, <1>8, <3>1, <3>2 DEF Resetting, TcpdumpStops, Tcpdumps, hist
    <3>5. "modem" \notin late => (Resetting("modem") \/ DiagStops)'
      BY <1>1, <1>3, <1>4, <1>5, <1>6, <1>8, <3>1, <3>2 DEF Resetting, DiagStops, Tcpdumps, recording, hist
    <3> QED
      BY <3>3, <3>4, <3>5
  <2> QED
    BY <2>1, <2>2
<1>14. StartInv'
  <2>1. net = "set" => (Setting(netlog) \/ TcpdumpRuns)'
    BY <1>1, <1>3, <1>4, <1>5, <1>6, <1>8
       DEF ServiceInv, StartInv, Setting, TcpdumpRuns, Tcpdumps, hist
  <2>2. modem = "set" => (Setting("modem") \/ DiagRuns)'
    BY <1>1, <1>3, <1>4, <1>5, <1>6, <1>8
       DEF ServiceInv, StartInv, Setting, DiagRuns, Tcpdumps, recording, hist
  <2> QED
    BY <1>4, <2>1, <2>2 DEF StartInv, threads, recording, hist
<1>15. UpInv'
  <2> SUFFICES ASSUME running = "1", ~StartQueued'
               PROVE  /\ ~Has(queue', <<"running", "0">>)
                      /\ ~Has(commands', <<"stop", "zxlogger">>)
                      /\ Has(commands', <<"start", "zxlogger">>) \/ "zxlogger" \in up \/ noParent
    BY <1>4 DEF UpInv, hist
  <2>1. CASE StartQueued
    <3>1. c = <<"running", "1">> /\ ~Has(queue', <<"running", "0">>)
      BY <1>1, <2>1 DEF StartQueued
    <3> QED
      BY <1>5, <3>1
  <2>2. CASE ~StartQueued
    <3>1. /\ ~Has(queue, <<"running", "0">>)
          /\ "zxlogger" \in up \/ noParent
      BY <1>3, <2>2 DEF ServiceInv, UpInv
    <3>2. c # <<"running", "0">> /\ ~Has(queue', <<"running", "0">>)
      BY <1>1, <3>1
    <3>3. ~Has(commands', <<"stop", "zxlogger">>)
      BY <1>5, <1>6, <1>8, <3>2 DEF Tcpdumps
    <3> QED
      BY <3>1, <3>2, <3>3
  <2> QED
    BY <2>1, <2>2
<1> QED
  BY <1>15, <1>7, <1>9, <1>10, <1>11, <1>12, <1>13, <1>14 DEF ServiceInv

\* What every command step does to the list of commands.
LEMMA NextCommand ==
  ASSUME ServiceInv, commands # <<>>, commands' = Tail(commands)
  PROVE  /\ commands[1] \in Orders /\ commands' \in Seq(Orders)
         /\ \A x : Has(commands, x) <=> commands[1] = x \/ Has(commands', x)
         /\ \A x, y : FollowedBy(commands, x, y) =>
              /\ FollowedBy(commands', x, y)
              /\ commands[1] = x => Has(commands', y)
         /\ \A x, y : OnlyAfter(commands, y, x) =>
              /\ commands[1] # y
              /\ commands[1] # x => OnlyAfter(commands', y, x)
  BY TailFacts DEF ServiceInv, QueueInv

LEMMA SetPropInv == ServiceInv /\ SetProp => ServiceInv'
<1> SUFFICES ASSUME ServiceInv, SetProp PROVE ServiceInv'
  OBVIOUS
<1> DEFINE p == commands[1][2]
           e == <<p, "0">>
<1>1. /\ commands # <<>> /\ commands' = Tail(commands) /\ commands[1][1] = "setprop"
      /\ queue' = Append(queue, e) /\ late' = late \ {p}
      /\ UNCHANGED <<running, sets, up, dirs, threads, logcp, recording, netlog, noParent, races>>
  BY DEF SetProp, Enqueue
<1>2. p \in {"modem"} \cup Tcpdumps /\ commands[1] = <<"setprop", p>>
  BY <1>1, NextCommand DEF Orders, Tcpdumps
<1>3. queue \in Seq(Changes) /\ e \in Changes
  BY <1>2 DEF Changes, ServiceInv, QueueInv
<1> HIDE DEF e, p
<1>4. /\ queue' \in Seq(Changes)
      /\ \A x : Has(queue', x) <=> Has(queue, x) \/ e = x
      /\ \A x, y : e = x => LastIs(queue', x, y)
      /\ \A x, y : e # y /\ LastIs(queue, x, y) => LastIs(queue', x, y)
  BY <1>1, <1>3, AppendFacts
<1>5. /\ commands' \in Seq(Orders)
      /\ \A x : Has(commands, x) <=> commands[1] = x \/ Has(commands', x)
  BY <1>1, NextCommand
<1>6. netlog \in Tcpdumps
  BY DEF ServiceInv, QueueInv
<1>7. TypeOK'
  <2>1. late' \subseteq {"modem", netlog}
    BY <1>1 DEF ServiceInv, TypeOK
  <2>2. UNCHANGED <<running, sets, up, dirs, modem, net, capture, logcp, diag, tcpdump, netlog,
                    races>>
    BY <1>1 DEF threads, recording
  <2> QED
    BY <2>1, <2>2 DEF ServiceInv, TypeOK
<1>8. QueueInv'
  BY <1>1, <1>2, <1>4, <1>5 DEF e, ServiceInv, QueueInv
<1>9. CopyInv'
  BY <1>1, <1>2, NextCommand DEF ServiceInv, CopyInv
<1>10. DirInv'
  BY <1>1 DEF ServiceInv, DirInv, threads
<1>11. ResetInv'
  BY <1>1, NextCommand DEF ServiceInv, ResetInv
<1>12. StopInv'
  <2> SUFFICES ASSUME running = "0", ~StopQueued'
               PROVE  /\ Stopping'
                      /\ netlog \notin late' => (Resetting(netlog) \/ TcpdumpStops)'
                      /\ "modem" \notin late' => (Resetting("modem") \/ DiagStops)'
    BY <1>1 DEF StopInv
  <2>1. ~StopQueued
    BY <1>4, <1>2 DEF StopQueued, e, Tcpdumps
  <2>2. /\ Stopping
        /\ netlog \notin late => Resetting(netlog) \/ TcpdumpStops
        /\ "modem" \notin late => Resetting("modem") \/ DiagStops
    BY <2>1 DEF ServiceInv, StopInv
  <2> /\ up' = up /\ netlog' = netlog /\ diag' = diag /\ races' = races
      /\ late' = late \ {p}
    BY <1>1 DEF recording
  <2>3. Stopping'
    BY <1>2, <1>4, <1>5, <2>2 DEF Stopping, e, Tcpdumps
  <2>4. netlog \notin late' => (Resetting(netlog) \/ TcpdumpStops)'
    BY <1>2, <1>4, <1>5, <2>2 DEF Resetting, TcpdumpStops, e, Tcpdumps
  <2>5. "modem" \notin late' => (Resetting("modem") \/ DiagStops)'
    BY <1>2, <1>4, <1>5, <2>2 DEF Resetting, DiagStops, e, Tcpdumps
  <2> QED
    BY <2>3, <2>4, <2>5
<1>13. StartInv'
  <2>1. Has(commands', <<"stop", "zxlogger">>)
    BY <1>1, <1>2, NextCommand DEF ServiceInv, ResetInv
  <2> QED
    BY <2>1 DEF StartInv, Setting
<1>14. UpInv'
  <2> SUFFICES ASSUME running = "1", ~StartQueued'
               PROVE  /\ ~Has(queue', <<"running", "0">>)
                      /\ ~Has(commands', <<"stop", "zxlogger">>)
                      /\ \/ Has(commands', <<"start", "zxlogger">>)
                         \/ "zxlogger" \in up' \/ noParent'
    BY <1>1 DEF UpInv
  <2>1. e # <<"running", "0">>
    BY <1>2 DEF e, Tcpdumps
  <2>2. ~StartQueued
    BY <1>4, <2>1 DEF StartQueued
  <2>3. /\ ~Has(queue, <<"running", "0">>)
        /\ ~Has(commands, <<"stop", "zxlogger">>)
        /\ Has(commands, <<"start", "zxlogger">>) \/ "zxlogger" \in up \/ noParent
    BY <2>2 DEF ServiceInv, UpInv
  <2>4. commands[1] # <<"start", "zxlogger">>
    BY <1>2
  <2> QED
    BY <1>1, <1>4, <1>5, <2>1, <2>3, <2>4
<1> QED
  BY <1>14, <1>7, <1>8, <1>9, <1>10, <1>11, <1>12, <1>13 DEF ServiceInv

LEMMA StartServiceInv == ServiceInv /\ StartService => ServiceInv'
<1> SUFFICES ASSUME ServiceInv, StartService PROVE ServiceInv'
  OBVIOUS
<1> DEFINE s == commands[1][2]
<1>1. /\ commands # <<>> /\ commands' = Tail(commands) /\ commands[1][1] = "start"
      /\ up' = up \cup {s}
      /\ s # "zxlogger" => UNCHANGED <<threads, noParent>>
      /\ s = "zxlogger" /\ s \in up => UNCHANGED <<threads, noParent>>
      /\ s = "zxlogger" /\ s \notin up =>
           /\ modem' \in {"mkdir", "off"} /\ net' \in {"mkdir", "off"}
           /\ capture' = "mkdir" /\ noParent' = (dirs = 0)
      /\ logcp' = IF s = "logcp" /\ s \notin up THEN "mkdir" ELSE logcp
      /\ diag' = IF s = "start_diag_mdlog" /\ s \notin up THEN "starting" ELSE diag
      /\ tcpdump' = IF s = Recorder(netlog) /\ s \notin up THEN "starting" ELSE tcpdump
      /\ races' = IF s # "start_diag_mdlog" THEN races
                  ELSE IF "stop_diag_mdlog" \in up THEN races \cup {"overlap"}
                  ELSE races \ {"overlap"}
      /\ UNCHANGED <<running, sets, queue, dirs, netlog, late>>
  BY DEF StartService
<1>2. /\ s \in {"zxlogger", "logcp", "start_diag_mdlog", "stop_diag_mdlog"} \cup Recorders
      /\ commands[1] = <<"start", s>>
  BY <1>1, NextCommand DEF Orders, Recorders
<1> HIDE DEF s
<1>3. /\ commands' \in Seq(Orders)
      /\ \A x : Has(commands, x) <=> commands[1] = x \/ Has(commands', x)
  BY <1>1, NextCommand
<1>4. /\ netlog \in Tcpdumps
      /\ Recorder("tcpdump_all") = "mytcpdump" /\ Recorder("tcpdump_wlan") = "mytcpdumpwlan"
  BY DEF ServiceInv, QueueInv, Recorder
<1>5. TypeOK'
  BY <1>1, <1>2, ServiceAssumption DEF ServiceInv, TypeOK, threads, Recorders
<1>6. QueueInv'
  <2>1. \A q \in Tcpdumps \ {netlog} : s # Recorder(q)
    BY <1>2, <1>3 DEF ServiceInv, QueueInv
  <2> QED
    BY <1>1, <1>3, <2>1 DEF ServiceInv, QueueInv
<1>7. CopyInv'
  <2> SUFFICES ASSUME "zxbootlogger" \in up'
               PROVE  /\ logcp' = "off"
                      /\ OnlyAfter(commands', <<"start", "logcp">>, <<"stop", "zxbootlogger">>)
    BY DEF CopyInv
  <2>1. "zxbootlogger" \in up
    BY <1>1, <1>2 DEF Recorders
  <2>2. logcp = "off" /\ s # "logcp"
    BY <1>1, <1>2, <2>1, NextCommand DEF ServiceInv, CopyInv
  <2>3. commands[1] # <<"stop", "zxbootlogger">>
    BY <1>2
  <2> QED
    BY <1>1, <2>1, <2>2, <2>3, NextCommand DEF ServiceInv, CopyInv
<1>8. DirInv'
  <2>1. CASE s = "zxlogger" /\ s \notin up
    <3>1. dirs' = dirs /\ dirs \in 0..3
      BY <1>1 DEF ServiceInv, TypeOK
    <3>2. /\ modem' \in {"mkdir", "off"} /\ net' \in {"mkdir", "off"}
          /\ capture' = "mkdir" /\ noParent' = (dirs = 0)
      BY <1>1, <2>1
    <3>3. noParent' \in BOOLEAN /\ (~noParent' => dirs # 0)
      BY <3>2
    <3>4. ~noParent' => dirs' >= 1
      BY <3>1, <3>3
    <3> QED
      BY <3>2, <3>3, <3>4 DEF DirInv
  <2>2. CASE ~(s = "zxlogger" /\ s \notin up)
    <3>1. UNCHANGED <<modem, net, capture, noParent, dirs>>
      BY <1>1, <2>2 DEF threads
    <3> QED
      BY <3>1 DEF ServiceInv, DirInv
  <2> QED
    BY <2>1, <2>2
<1>9. ResetInv'
  BY <1>1, NextCommand DEF ServiceInv, ResetInv
<1>10. StopInv'
  <2> SUFFICES ASSUME running = "0", ~StopQueued
               PROVE  /\ Stopping'
                      /\ netlog \notin late => (Resetting(netlog) \/ TcpdumpStops)'
                      /\ "modem" \notin late => (Resetting("modem") \/ DiagStops)'
    BY <1>1 DEF StopInv, StopQueued
  <2>1. /\ Stopping
        /\ netlog \notin late => Resetting(netlog) \/ TcpdumpStops
        /\ "modem" \notin late => Resetting("modem") \/ DiagStops
    BY DEF ServiceInv, StopInv
  <2>2. s # "zxlogger"
    BY <1>2, <1>3, <2>1 DEF Stopping
  <2>3. Stopping'
    BY <1>1, <1>2, <1>3, <2>1, <2>2 DEF Stopping, Recorders
  <2>4. netlog \notin late => (Resetting(netlog) \/ TcpdumpStops)'
    BY <1>1, <1>2, <1>3, <1>4, <2>1 DEF Resetting, TcpdumpStops, Tcpdumps
  <2>5. "modem" \notin late => (Resetting("modem") \/ DiagStops)'
    BY <1>1, <1>2, <1>3, <2>1 DEF Resetting, DiagStops
  <2> QED
    BY <2>3, <2>4, <2>5
<1>11. StartInv'
  <2>1. net' = "set" => (Setting(netlog) \/ TcpdumpRuns)'
    <3> SUFFICES ASSUME net' = "set" PROVE (Setting(netlog) \/ TcpdumpRuns)'
      OBVIOUS
    <3>1. net = "set"
      BY <1>1 DEF threads
    <3>2. Setting(netlog) \/ TcpdumpRuns
      BY <3>1 DEF ServiceInv, StartInv
    <3> QED
      BY <1>1, <1>2, <1>3, <3>2 DEF Setting, TcpdumpRuns
  <2>2. modem' = "set" => (Setting("modem") \/ DiagRuns)'
    <3> SUFFICES ASSUME modem' = "set" PROVE (Setting("modem") \/ DiagRuns)'
      OBVIOUS
    <3>1. modem = "set"
      BY <1>1 DEF threads
    <3>2. Setting("modem") \/ DiagRuns
      BY <3>1 DEF ServiceInv, StartInv
    <3> QED
      BY <1>1, <1>2, <1>3, <3>2 DEF Setting, DiagRuns, ServiceInv, TypeOK, Recorders
  <2> QED
    BY <2>1, <2>2 DEF StartInv
<1>12. UpInv'
  <2> SUFFICES ASSUME running = "1", ~StartQueued
               PROVE  /\ ~Has(queue, <<"running", "0">>)
                      /\ ~Has(commands', <<"stop", "zxlogger">>)
                      /\ Has(commands', <<"start", "zxlogger">>) \/ "zxlogger" \in up' \/ noParent'
    BY <1>1 DEF UpInv, StartQueued
  <2>1. /\ ~Has(queue, <<"running", "0">>)
        /\ ~Has(commands, <<"stop", "zxlogger">>)
        /\ Has(commands, <<"start", "zxlogger">>) \/ "zxlogger" \in up \/ noParent
    BY DEF ServiceInv, UpInv
  <2>2. CASE s = "zxlogger"
    BY <1>1, <1>3, <2>1, <2>2
  <2>3. CASE s # "zxlogger"
    BY <1>1, <1>2, <1>3, <2>1, <2>3
  <2> QED
    BY <2>2, <2>3
<1> QED
  BY <1>12, <1>5, <1>6, <1>7, <1>8, <1>9, <1>10, <1>11 DEF ServiceInv

LEMMA StopServiceInv == ServiceInv /\ StopService => ServiceInv'
<1> SUFFICES ASSUME ServiceInv, StopService PROVE ServiceInv'
  OBVIOUS
<1> DEFINE s == commands[1][2]
<1>1. /\ commands # <<>> /\ commands' = Tail(commands) /\ commands[1][1] = "stop"
      /\ up' = up \ {s}
      /\ s = "zxlogger" => modem' = "off" /\ net' = "off" /\ capture' = "off"
      /\ s # "zxlogger" => UNCHANGED threads
      /\ tcpdump' = IF s = Recorder(netlog) THEN "off" ELSE tcpdump
      /\ UNCHANGED <<running, sets, queue, dirs, logcp, diag, hist>>
  BY DEF StopService
<1>2. /\ s \in {"zxlogger", "zxbootlogger"} \cup Recorders
      /\ commands[1] = <<"stop", s>>
  BY <1>1, NextCommand DEF Orders, Recorders
<1> HIDE DEF s
<1>3. /\ commands' \in Seq(Orders)
      /\ \A x : Has(commands, x) <=> commands[1] = x \/ Has(commands', x)
  BY <1>1, NextCommand
<1>4. netlog \in Tcpdumps
  BY DEF ServiceInv, QueueInv
<1>5. TypeOK'
  BY <1>1, <1>2 DEF ServiceInv, TypeOK, threads, recording, hist, Recorders
<1>6. QueueInv'
  BY <1>1, <1>3 DEF ServiceInv, QueueInv, hist
<1>7. CopyInv'
  BY <1>1, <1>2, NextCommand DEF ServiceInv, CopyInv
<1>8. DirInv'
  BY <1>1 DEF ServiceInv, DirInv, threads, recording, hist
<1>9. ResetInv'
  BY <1>1, NextCommand DEF ServiceInv, ResetInv
<1>10. StopInv'
  <2> SUFFICES ASSUME running = "0", ~StopQueued
               PROVE  /\ Stopping'
                      /\ netlog \notin late => (Resetting(netlog) \/ TcpdumpStops)'
                      /\ "modem" \notin late => (Resetting("modem") \/ DiagStops)'
    BY <1>1 DEF StopInv, StopQueued, hist
  <2>1. /\ Stopping
        /\ netlog \notin late => Resetting(netlog) \/ TcpdumpStops
        /\ "modem" \notin late => Resetting("modem") \/ DiagStops
    BY DEF ServiceInv, StopInv
  <2>2. Stopping'
    BY <1>1, <1>2, <1>3, <2>1 DEF Stopping
  <2>3. netlog \notin late => (Resetting(netlog) \/ TcpdumpStops)'
    BY <1>1, <1>2, <1>3, <2>1 DEF Resetting, TcpdumpStops, hist
  <2>4. "modem" \notin late => (Resetting("modem") \/ DiagStops)'
    BY <1>1, <1>2, <1>3, <2>1 DEF Resetting, DiagStops, hist, Recorders
  <2> QED
    BY <2>2, <2>3, <2>4
<1>11. StartInv'
  <2>1. CASE s = "zxlogger"
    BY <1>1, <2>1 DEF StartInv
  <2>2. CASE s # "zxlogger"
    <3>1. net = "set" => (Setting(netlog) \/ TcpdumpRuns)'
      BY <1>1, <1>2, <1>3, <2>2 DEF ServiceInv, StartInv, Setting, TcpdumpRuns, hist
    <3>2. modem = "set" => (Setting("modem") \/ DiagRuns)'
      BY <1>1, <1>2, <1>3, <2>2 DEF ServiceInv, StartInv, Setting, DiagRuns, hist, Recorders
    <3> QED
      BY <1>1, <2>2, <3>1, <3>2 DEF StartInv, threads
  <2> QED
    BY <2>1, <2>2
<1>12. UpInv'
  <2> SUFFICES ASSUME running = "1", ~StartQueued
               PROVE  /\ ~Has(queue, <<"running", "0">>)
                      /\ ~Has(commands', <<"stop", "zxlogger">>)
                      /\ Has(commands', <<"start", "zxlogger">>) \/ "zxlogger" \in up' \/ noParent
    BY <1>1 DEF UpInv, StartQueued, hist
  <2>1. /\ ~Has(queue, <<"running", "0">>)
        /\ ~Has(commands, <<"stop", "zxlogger">>)
        /\ Has(commands, <<"start", "zxlogger">>) \/ "zxlogger" \in up \/ noParent
    BY DEF ServiceInv, UpInv
  <2>2. s # "zxlogger" /\ commands[1] # <<"start", "zxlogger">>
    BY <1>2, <1>3, <2>1
  <2> QED
    BY <1>1, <1>3, <2>1, <2>2
<1> QED
  BY <1>12, <1>5, <1>6, <1>7, <1>8, <1>9, <1>10, <1>11 DEF ServiceInv

LEMMA LateProperty ==
  ASSUME NEW p
  PROVE  Late(p) = IF Has(commands, <<"stop", "zxlogger">>) /\ ~Has(commands, <<"setprop", p>>)
                   THEN late \cup {p} ELSE late
  BY DEF Late, Has

\* A thread sets the property that starts what it records with.
LEMMA ThreadSets ==
  ASSUME ServiceInv, NEW p \in {"modem", netlog},
         queue' = Append(queue, <<p, "1">>), late' = Late(p), "zxlogger" \in up,
         UNCHANGED <<running, commands, up, capture, logcp, diag, dirs, netlog, noParent, races>>,
         net' = net \/ (net = "start" /\ net' = "set" /\ p = netlog),
         modem' = modem \/ (modem = "mkdir2" /\ modem' = "set" /\ p = "modem")
  PROVE  QueueInv' /\ CopyInv' /\ DirInv' /\ StopInv' /\ ResetInv' /\ StartInv' /\ UpInv'
<1> DEFINE e == <<p, "1">>
<1>1. queue \in Seq(Changes) /\ e \in Changes /\ p # "running" /\ netlog \in Tcpdumps
      /\ p \in {"modem"} \cup Tcpdumps
  BY DEF Changes, ServiceInv, QueueInv, Tcpdumps
<1> HIDE DEF e
<1>2. /\ queue' \in Seq(Changes)
      /\ \A x : Has(queue', x) <=> Has(queue, x) \/ e = x
      /\ \A x, y : e = x => LastIs(queue', x, y)
      /\ \A x, y : e # y /\ LastIs(queue, x, y) => LastIs(queue', x, y)
  <2>1. queue' = Append(queue, e)
    BY DEF e
  <2> QED
    BY <1>1, <2>1, AppendFacts
<1>3. QueueInv'
  BY <1>1, <1>2 DEF e, ServiceInv, QueueInv, Tcpdumps
<1>4. CopyInv' /\ DirInv' /\ ResetInv'
  BY DEF ServiceInv, CopyInv, DirInv, ResetInv
<1>5. StopInv'
  <2> SUFFICES ASSUME running = "0", ~StopQueued'
               PROVE  /\ Stopping'
                      /\ netlog \notin late' => (Resetting(netlog) \/ TcpdumpStops)'
                      /\ "modem" \notin late' => (Resetting("modem") \/ DiagStops)'
    BY DEF StopInv
  <2>1. ~StopQueued
    BY <1>1, <1>2 DEF StopQueued, e
  <2>2. /\ Stopping
        /\ netlog \notin late => Resetting(netlog) \/ TcpdumpStops
        /\ "modem" \notin late => Resetting("modem") \/ DiagStops
    BY <2>1 DEF ServiceInv, StopInv
  <2>3. Has(commands, <<"stop", "zxlogger">>)
    BY <2>2 DEF Stopping
  <2>4. Stopping'
    BY <1>1, <1>2, <2>2 DEF Stopping, e
  <2>5. p \in late' \/ Has(commands, <<"setprop", p>>)
    BY <2>3, LateProperty
  <2>6. \A q : q # p => (q \in late' <=> q \in late)
    BY LateProperty
  <2>7. netlog \notin late' => (Resetting(netlog) \/ TcpdumpStops)'
    BY <1>1, <1>2, <2>2, <2>5, <2>6 DEF Resetting, TcpdumpStops, e
  <2>8. "modem" \notin late' => (Resetting("modem") \/ DiagStops)'
    BY <1>1, <1>2, <2>2, <2>5, <2>6 DEF Resetting, DiagStops, e
  <2> QED
    BY <2>4, <2>7, <2>8
<1>6. StartInv'
  <2>1. net' = "set" => (Setting(netlog) \/ TcpdumpRuns)'
    BY <1>1, <1>2 DEF ServiceInv, StartInv, Setting, TcpdumpRuns, e
  <2>2. modem' = "set" => (Setting("modem") \/ DiagRuns)'
    BY <1>1, <1>2 DEF ServiceInv, StartInv, Setting, DiagRuns, e, Tcpdumps
  <2> QED
    BY <2>1, <2>2 DEF StartInv
<1>7. UpInv'
  BY <1>1, <1>2 DEF e, ServiceInv, UpInv, StartQueued
<1> QED
  BY <1>7, <1>3, <1>4, <1>5, <1>6

LEMMA ThreadInv == ServiceInv /\ Zxlogger => ServiceInv'
<1> SUFFICES ASSUME ServiceInv, Zxlogger PROVE ServiceInv'
  OBVIOUS
<1>1. CASE /\ MakeLogPath \/ MakeNetDirectory \/ OpenLog
           /\ UNCHANGED <<running, sets, queue, commands, up, logcp, recording, hist>>
  <2>1. TypeOK'
    BY <1>1 DEF ServiceInv, TypeOK, MakeLogPath, MadeLogPath, MakeNetDirectory,
              MadeNetDirectory, OpenLog, recording, hist
  <2>2. QueueInv' /\ CopyInv' /\ ResetInv'
    BY <1>1 DEF ServiceInv, QueueInv, CopyInv, ResetInv, hist
  <2>3. DirInv'
    BY <1>1 DEF ServiceInv, TypeOK, DirInv, MakeLogPath, MadeLogPath, MakeNetDirectory,
              MadeNetDirectory, OpenLog, recording, hist
  <2>4. StopInv'
    BY <1>1
       DEF ServiceInv, StopInv, StopQueued, Stopping, Resetting, TcpdumpStops, DiagStops,
           recording, hist
  <2>5. StartInv'
    BY <1>1
       DEF ServiceInv, StartInv, Setting, TcpdumpRuns, DiagRuns, MakeLogPath, MadeLogPath,
           MakeNetDirectory, OpenLog, recording, hist
  <2>6. UpInv'
    BY <1>1 DEF ServiceInv, UpInv, StartQueued, hist
  <2> QED
    BY <2>1, <2>2, <2>3, <2>4, <2>5, <2>6 DEF ServiceInv
<1>2. CASE SetModem
  <2>1. "zxlogger" \in up
    BY <1>2 DEF SetModem, ServiceInv, TypeOK
  <2>2. TypeOK'
    BY <1>2, LateProperty DEF SetModem, ServiceInv, TypeOK, recording
  <2> QED
    BY <1>2, <2>1, <2>2, ThreadSets DEF SetModem, Enqueue, ServiceInv, recording
<1>3. CASE SetTcpdump
  <2>1. "zxlogger" \in up
    BY <1>3 DEF SetTcpdump, ServiceInv, TypeOK
  <2>2. TypeOK'
    BY <1>3, LateProperty DEF SetTcpdump, ServiceInv, TypeOK, recording
  <2> QED
    BY <1>3, <2>1, <2>2, ThreadSets DEF SetTcpdump, Enqueue, ServiceInv, recording
<1>4. CASE ModemGivesUp
  <2>0. /\ UNCHANGED <<running, sets, queue, commands, dirs, logcp, recording, hist>>
        /\ modem = "mkdir2" /\ modem' \in {"gone", "off"} /\ dirs < 2
        /\ \/ UNCHANGED <<net, capture, up>>
           \/ net' = "off" /\ capture' = "off" /\ up' = up \ {"zxlogger"}
    BY <1>4 DEF ModemGivesUp
  <2>1. TypeOK'
    BY <1>4 DEF ModemGivesUp, ServiceInv, TypeOK, recording, hist, QueueInv, Recorder, Tcpdumps
  <2>2. QueueInv' /\ CopyInv' /\ ResetInv' /\ DirInv'
    BY <2>0 DEF ServiceInv, QueueInv, CopyInv, ResetInv, DirInv, hist
  <2>3. Recorder(netlog) # "zxlogger"
    BY DEF ServiceInv, QueueInv, Tcpdumps, Recorder
  <2>4. StopInv'
    BY <2>0
       DEF ServiceInv, StopInv, StopQueued, Stopping, Resetting, TcpdumpStops, DiagStops,
           recording, hist
  <2>5. StartInv'
    BY <2>0, <2>3 DEF ServiceInv, StartInv, Setting, TcpdumpRuns, hist
  <2>6. noParent
    BY <2>0 DEF ServiceInv, DirInv, TypeOK
  <2>7. UpInv'
    BY <2>0, <2>6 DEF ServiceInv, UpInv, StartQueued, hist
  <2> QED
    BY <2>1, <2>2, <2>4, <2>5, <2>7 DEF ServiceInv
<1> QED
  BY <1>1, <1>2, <1>3, <1>4 DEF Zxlogger

LEMMA ToolsInv == ServiceInv /\ Tools => ServiceInv'
<1> SUFFICES ASSUME ServiceInv, Tools PROVE ServiceInv'
  OBVIOUS
<1>1. /\ UNCHANGED <<running, sets, queue, commands, threads, netlog, noParent, late>>
      /\ dirs' = dirs \/ (dirs < 2 /\ dirs' = dirs + 1)
      /\ up' \subseteq up
      /\ up \ up' \subseteq {"logcp", "start_diag_mdlog", "stop_diag_mdlog"} \cup
           (IF dirs < 3 THEN {Recorder(netlog)} ELSE {})
  BY DEF Tools, Logcp, DiagReady, DiagKill, Tcpdump, hist
<1>6. Recorder(netlog) \in Recorders
  BY DEF ServiceInv, QueueInv, Tcpdumps, Recorder, Recorders
<1>2. TypeOK'
  <2>1. CASE Logcp
    BY <2>1, <1>6 DEF ServiceInv, TypeOK, Logcp, threads, recording, hist, Recorders
  <2>2. CASE DiagReady
    BY <2>2 DEF ServiceInv, TypeOK, DiagReady, threads, recording, hist
  <2>3. CASE DiagKill
    <3>1. \A x \in {"zxlogger", "logcp", Recorder(netlog)} : x \in up' <=> x \in up
      BY <2>3, <1>6 DEF DiagKill, Recorders
    <3>2. diag' \in {"off", "starting", "on"} /\ (diag' # "off" <=> "start_diag_mdlog" \in up')
      BY <2>3 DEF ServiceInv, TypeOK, DiagKill
    <3>3. races' \subseteq {"early", "overlap"}
      BY <2>3 DEF ServiceInv, TypeOK, DiagKill
    <3>4. UNCHANGED <<running, sets, dirs, modem, net, capture, logcp, tcpdump, netlog, late>>
      BY <2>3 DEF DiagKill, threads
    <3> QED
      BY <3>1, <3>2, <3>3, <3>4 DEF ServiceInv, TypeOK
  <2>4. CASE Tcpdump
    BY <2>4, <1>6 DEF ServiceInv, TypeOK, Tcpdump, threads, recording, hist, Recorders
  <2> QED
    BY <2>1, <2>2, <2>3, <2>4 DEF Tools
<1>3. QueueInv' /\ ResetInv'
  BY <1>1 DEF ServiceInv, QueueInv, ResetInv
<1>4. CopyInv'
  BY <1>1 DEF ServiceInv, CopyInv, Tools, Logcp, DiagReady, DiagKill, Tcpdump
<1>5. DirInv'
  BY <1>1 DEF ServiceInv, TypeOK, DirInv, threads
<1>7. DiagStops => DiagStops'
  <2>1. CASE Logcp \/ DiagReady \/ Tcpdump
    <3>1. /\ "stop_diag_mdlog" \in up => "stop_diag_mdlog" \in up'
          /\ diag = "off" => diag' = "off"
          /\ races' = races
      BY <2>1, <1>6 DEF Logcp, DiagReady, Tcpdump, recording, hist, Recorders
    <3> QED
      BY <1>1, <3>1 DEF DiagStops
  <2>2. CASE DiagKill
    BY <1>1, <2>2 DEF DiagStops, DiagKill, ServiceInv, TypeOK
  <2> QED
    BY <2>1, <2>2 DEF Tools
<1>8. DiagRuns => DiagRuns'
  <2>1. CASE Logcp \/ DiagReady \/ Tcpdump
    BY <1>1, <2>1 DEF DiagRuns, Logcp, DiagReady, Tcpdump, recording, hist
  <2>2. CASE DiagKill
    BY <1>1, <2>2 DEF DiagRuns, DiagKill
  <2> QED
    BY <2>1, <2>2 DEF Tools
<1>9. TcpdumpRuns => TcpdumpRuns'
  <2>1. dirs < 3 => dirs' < 3
    BY <1>1 DEF ServiceInv, TypeOK
  <2>2. Recorder(netlog) \in up => Recorder(netlog) \in up' \/ dirs < 3
    BY <1>1, <1>6 DEF Recorders
  <2> QED
    BY <1>1, <2>1, <2>2 DEF TcpdumpRuns
<1>10. StopInv'
  BY <1>1, <1>7 DEF ServiceInv, StopInv, StopQueued, Stopping, Resetting, TcpdumpStops
<1>11. StartInv'
  BY <1>1, <1>8, <1>9 DEF ServiceInv, StartInv, Setting, threads
<1>12. UpInv'
  <2>1. "zxlogger" \in up => "zxlogger" \in up'
    BY <1>1, <1>6 DEF Recorders
  <2> QED
    BY <1>1, <2>1 DEF ServiceInv, UpInv, StartQueued
<1> QED
  BY <1>12, <1>2, <1>3, <1>4, <1>5, <1>10, <1>11 DEF ServiceInv

LEMMA StutterInv == ServiceInv /\ UNCHANGED vars => ServiceInv'
  BY DEF ServiceInv, vars, threads, recording, hist, TypeOK, QueueInv, CopyInv, DirInv, StopInv,
         StopQueued, Stopping, Resetting, TcpdumpStops, DiagStops, ResetInv, StartInv,
         Setting, TcpdumpRuns, DiagRuns, UpInv, StartQueued

\* The strengthened invariant holds in every reachable state.
THEOREM ServiceCorrect == Spec => []ServiceInv
<1>1. ServiceInv /\ [Next]_vars => ServiceInv'
  BY SetRunningInv, HandleChangeInv, SetPropInv, StartServiceInv, StopServiceInv,
     ThreadInv, ToolsInv, StutterInv
     DEF Next, System, InitProcess
<1> QED
  BY InitInv, <1>1, PTL DEF Spec

\* Type correctness of the service control, for every number of requests.
THEOREM ServiceTypes == Spec => []TypeOK
<1>1. ServiceInv => TypeOK
  BY DEF ServiceInv
<1> QED
  BY ServiceCorrect, <1>1, PTL

\* logcp copies the boot log only when zxbootlogger is gone.
THEOREM BootLogCopied == Spec => []BootLogCopiedAfterStop
<1>1. ServiceInv => BootLogCopiedAfterStop
  BY DEF ServiceInv, CopyInv, BootLogCopiedAfterStop
<1> QED
  BY ServiceCorrect, <1>1, PTL

\* A capture is lost for want of a directory, by its own thread or with a process that
\* the modem thread has taken down, only if its parent was missing when zxlogger started.
THEOREM CaptureNeedsParent == Spec => []CaptureLostOnlyWithoutParent
<1>1. ServiceInv => CaptureLostOnlyWithoutParent
  <2> SUFFICES ASSUME ServiceInv
               PROVE  /\ capture = "dead" => noParent
                      /\ Settled /\ running = "1" => "zxlogger" \in up \/ noParent
    BY DEF CaptureLostOnlyWithoutParent
  <2>1. Settled => /\ \A x : ~Has(commands, x)
                   /\ \A x, y : ~LastIs(queue, x, y)
    BY DEF Settled, Has, LastIs
  <2> QED
    BY <2>1 DEF ServiceInv, DirInv, UpInv, StartQueued
<1> QED
  BY ServiceCorrect, <1>1, PTL

\* However requests, resets and the threads' own settings are queued, a stop that
\* was carried out leaves nothing that records outside the two windows.
THEOREM StopLeavesNothing == Spec => []StopIsComplete
<1>1. ServiceInv => StopIsComplete
  <2> SUFFICES ASSUME ServiceInv, Settled, running = "0"
               PROVE  /\ up \cap {"zxlogger", "zxbootlogger"} = {}
                      /\ netlog \notin late => up \cap Recorders = {}
                      /\ "modem" \notin late /\ "early" \notin races => diag = "off"
    BY DEF StopIsComplete, Recorders
  <2>1. /\ \A x : ~Has(queue, x) /\ ~Has(commands, x)
        /\ \A x, y : ~LastIs(queue, x, y)
    BY DEF Settled, Has, LastIs
  <2>2. /\ Stopping
        /\ netlog \notin late => TcpdumpStops
        /\ "modem" \notin late => DiagStops
    BY <2>1 DEF ServiceInv, StopInv, StopQueued, Resetting
  <2>3. netlog \notin late => up \cap Recorders = {}
    <3>1. \A p \in Tcpdumps \ {netlog} : Recorder(p) \notin up
      BY DEF ServiceInv, QueueInv
    <3>2. \A r \in Recorders : \E p \in Tcpdumps : r = Recorder(p)
      BY DEF Tcpdumps, Recorders, Recorder
    <3> QED
      BY <2>1, <2>2, <3>1, <3>2 DEF TcpdumpStops
  <2> QED
    BY <2>1, <2>2, <2>3 DEF Stopping, DiagStops, Settled
<1> QED
  BY ServiceCorrect, <1>1, PTL

\* What the threads have asked for records once init has nothing left to do: tcpdump
\* if it has a directory, which it lacks only if .../zxlog was missing at the start of
\* zxlogger, diag_mdlog unless its start overlapped a diag_mdlog -k.
THEOREM StartLeavesNothingOut == Spec => []StartIsComplete
<1>1. ServiceInv => StartIsComplete
  <2> SUFFICES ASSUME ServiceInv, Settled
               PROVE  /\ net = "set" /\ dirs = 3 => Recorder(netlog) \in up
                      /\ net = "set" /\ dirs < 3 => noParent
                      /\ modem = "set" /\ "overlap" \notin races => diag # "off"
    BY DEF StartIsComplete
  <2>1. /\ \A x : ~Has(queue, x) /\ ~Has(commands, x)
        /\ \A x, y : ~LastIs(queue, x, y)
    BY DEF Settled, Has, LastIs
  <2> QED
    BY <2>1 DEF ServiceInv, DirInv, StartInv, Setting, TcpdumpRuns, DiagRuns
<1> QED
  BY ServiceCorrect, <1>1, PTL

=============================================================================
