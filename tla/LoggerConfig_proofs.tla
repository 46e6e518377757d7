------------------------ MODULE LoggerConfig_proofs ------------------------
(***************************************************************************)
(* Proofs about LoggerConfig for every command line, every property and    *)
(* every number of changes of the property.                                *)
(***************************************************************************)
EXTENDS LoggerConfig, TLAPS, WellFoundedInduction

TypeInv ==
  /\ argv \in Seq(Arguments)
  /\ pc \in {"argv", "select", "property", "gate", "start", "done", "exit"}
  /\ k \in Nat
  /\ residue \in {"empty", "other"}
  /\ prop \in values
  /\ \A v \in values : v \in Properties \cup {Unset}

\* The mode arguments among the first n.
Given(n) == {j \in 1..n : argv[j].key = "mode"}

ArgumentsSeen == IF pc = "argv" THEN k ELSE Len(argv)

\* argMode is the value of the last mode argument read.
ModeInv ==
  /\ ArgumentsSeen <= Len(argv)
  /\ \A j \in Given(ArgumentsSeen) :
       (\A i \in Given(ArgumentsSeen) : i <= j) => argMode = argv[j].value

FromArgv ==
  /\ argMode # ""
  /\ data.mode = argMode
  /\ data.path = IF argPath # "" THEN argPath ELSE ModePath(argMode)
  /\ data.maxFiles = SpecialFiles
  /\ data.enabled = ModeDevices(argMode)
  /\ data.size = SpecialSize(Defaults.size, argMode)

FromProperty(v) ==
  /\ argMode = ""
  /\ data.mode = "normal"
  /\ data.path = "temp"
  /\ data.enabled = Enabled(v)
  /\ data.mask = Mask(v)
  /\ data.size = Defaults.size

Chosen == pc \in {"gate", "start", "done", "exit"}

\* DATA comes from one source as a whole; a value of the property that was not set
\* is the empty one.
SourceInv ==
  /\ pc = "property" => argMode = ""
  /\ Chosen => FromArgv \/ \E v \in values : FromProperty(v)

\* What main tests for the modem.
PropbufInv ==
  /\ pc \in {"argv", "select", "property", "gate"} => propbuf = residue
  /\ pc \in {"start", "done"} /\ data.mode # "boot" => propbuf = residue

Visited == {StartOrder[i] : i \in 1..k}

\* The threads of the devices visited, with the settings of the one DATA.
StartedInv ==
  IF pc \in {"start", "done"}
  THEN /\ k <= Len(StartOrder)
       /\ pc = "done" => k = Len(StartOrder)
       /\ started = UNION {Settings(d) : d \in {d \in Visited : Starts(d)}}
  ELSE started = {}

ConfigInv == TypeInv /\ ModeInv /\ SourceInv /\ PropbufInv /\ StartedInv

-----------------------------------------------------------------------------

\* Settings and Starts are functions of DATA and of propbuf.
LEMMA SettingsKept ==
  ASSUME UNCHANGED <<data, propbuf>>
  PROVE  \A d : Settings(d)' = Settings(d) /\ Starts(d)' = Starts(d)
BY DEF Settings, Thread, MainDir, LogMaxSize, Starts, LogEnable

\* What is started for a device carries the device's name and the settings of DATA.
HasSettings(s, d) ==
  /\ s.device = d
  /\ s.mode = data.mode
  /\ s.maxFiles = data.maxFiles
  /\ s.size = data.size[d]
  /\ s.path = IF d \in {"qsee", "tz"} THEN "/data/zxlog" ELSE data.path
  /\ s.mask = IF d = "modem" THEN data.mask ELSE ""
  /\ s.dir = IF d = "main" THEN MainDir ELSE d

LEMMA SettingsFacts == \A d : \A s \in Settings(d) : HasSettings(s, d)
<1> TAKE d
<1> TAKE s \in Settings(d)
<1>1. PICK l, dir, f : s = Thread(d, l, dir, f) /\ dir = IF d = "main" THEN MainDir ELSE d
  BY DEF Settings
<1> QED
  BY <1>1 DEF HasSettings, Thread, LogMaxSize

\* Every device has at least one thread, and its threads write different files.
LEMMA SettingsFiles ==
  \A d : /\ Settings(d) # {}
         /\ \A s, t \in Settings(d) : s # t => s.file # t.file
<1> TAKE d
<1>1. \A i, j \in Logs : i # j => LogFiles(data.mode)[i] # LogFiles(data.mode)[j]
  BY DEF Logs, LogFiles
<1>2. CASE d = "main"
  <2>1. Thread(d, "main", MainDir, LogFiles(data.mode)["main"]) \in Settings(d)
    BY <1>2 DEF Settings, Logs
  <2>2. ASSUME NEW s \in Settings(d), NEW t \in Settings(d), s # t
        PROVE  s.file # t.file
    <3>1. PICK i \in Logs : s = Thread(d, i, MainDir, LogFiles(data.mode)[i])
      BY <1>2 DEF Settings
    <3>2. PICK j \in Logs : t = Thread(d, j, MainDir, LogFiles(data.mode)[j])
      BY <1>2 DEF Settings
    <3>3. i # j
      BY <2>2, <3>1, <3>2
    <3> QED
      BY <1>1, <3>1, <3>2, <3>3 DEF Thread
  <2> QED
    BY <2>1, <2>2
<1>3. CASE d # "main"
  BY <1>3 DEF Settings
<1> QED
  BY <1>2, <1>3

\* A set of positions that is not empty has a last one.
LEMMA LastFacts ==
  ASSUME NEW n \in Nat, NEW S \in SUBSET (1..n), S # {}
  PROVE  Last(S) \in S /\ \A i \in S : i <= Last(S)
<1> DEFINE T == {n - i : i \in S}
<1>1. T \subseteq Nat /\ T # {}
  <2>1. \A i \in S : i \in 1..n
    OBVIOUS
  <2>2. \A i \in 1..n : n - i \in Nat
    OBVIOUS
  <2> QED
    BY <2>1, <2>2
<1>2. PICK m \in T : \A y \in T : ~(<<y, m>> \in OpToRel(<, Nat))
  BY <1>1, NatLessThanWellFounded, WFMin
<1>3. \A y \in T : m <= y
  <2> TAKE y \in T
  <2>1. y \in Nat /\ m \in Nat
    BY <1>1
  <2>2. ~(y < m)
    BY <1>2, <2>1 DEF OpToRel
  <2> QED
    BY <2>1, <2>2
<1>4. PICK j \in S : m = n - j
  BY <1>2
<1>5. \A i \in S : i <= j
  <2> TAKE i \in S
  <2>1. m <= n - i
    BY <1>3
  <2> QED
    BY <2>1, <1>4
<1> QED
  BY <1>4, <1>5 DEF Last

-----------------------------------------------------------------------------
\* The inductive invariant.

LEMMA InitInv == Init => ConfigInv
<1> SUFFICES ASSUME Init PROVE ConfigInv
  OBVIOUS
<1>1. argv \in Seq(Arguments)
  <2>0. PICK n \in 0..MaxArgs : argv \in [1..n -> Arguments]
    BY DEF Init
  <2>1. MaxArgs \in Nat
    BY ConfigAssumption
  <2> QED
    BY <2>0, <2>1
<1>2. Len(argv) \in Nat
  BY <1>1
<1>3. TypeInv
  BY <1>1 DEF Init, TypeInv
<1>4. ModeInv
  <2>1. pc = "argv" /\ k = 0
    BY DEF Init
  <2>2. ArgumentsSeen = 0 /\ Given(0) = {}
    BY <2>1 DEF ArgumentsSeen, Given
  <2> QED
    BY <1>2, <2>2 DEF ModeInv
<1>5. SourceInv /\ PropbufInv /\ StartedInv
  BY DEF Init, SourceInv, Chosen, PropbufInv, StartedInv
<1> QED
  BY <1>3, <1>4, <1>5 DEF ConfigInv

LEMMA ChangeInv == ConfigInv /\ ChangeProperty => ConfigInv'
<1> SUFFICES ASSUME ConfigInv, ChangeProperty PROVE ConfigInv'
  OBVIOUS
<1> USE DEF ConfigInv
<1>1. UNCHANGED <<argv, bootlogger, residue, pc, k, argMode, argPath, data, propbuf, started>>
  BY DEF ChangeProperty
<1>2. values \subseteq values' /\ prop' \in values' /\ prop' \in Properties \cup {Unset}
      /\ values' = values \cup {prop'}
  BY DEF ChangeProperty
<1>3. TypeInv'
  BY <1>1, <1>2 DEF TypeInv
<1>4. ModeInv'
  BY <1>1 DEF ModeInv, Given, ArgumentsSeen
<1>5. SourceInv'
  BY <1>1, <1>2 DEF SourceInv, Chosen, FromArgv, FromProperty
<1>6. PropbufInv'
  BY <1>1 DEF PropbufInv
<1>7. StartedInv'
  BY <1>1, SettingsKept DEF StartedInv, Visited
<1> QED
  BY <1>3, <1>4, <1>5, <1>6, <1>7

LEMMA StutterInv == ConfigInv /\ UNCHANGED vars => ConfigInv'
<1> SUFFICES ASSUME ConfigInv, UNCHANGED vars PROVE ConfigInv'
  OBVIOUS
<1>1. UNCHANGED <<argv, prop, bootlogger, residue, values, pc, k, argMode, argPath, data,
                  propbuf, started>>
  BY DEF vars, input
<1>2. StartedInv'
  BY <1>1, SettingsKept DEF ConfigInv, StartedInv, Visited
<1> QED
  BY <1>1, <1>2 DEF ConfigInv, TypeInv, ModeInv, Given, ArgumentsSeen, SourceInv, Chosen,
     FromArgv, FromProperty, PropbufInv

LEMMA ReadArgumentInv == ConfigInv /\ ReadArgument => ConfigInv'
<1> SUFFICES ASSUME ConfigInv, ReadArgument PROVE ConfigInv'
  OBVIOUS
<1> USE DEF ConfigInv
<1>1. /\ pc = "argv" /\ k < Len(argv) /\ k' = k + 1
      /\ argMode' = Saved(argv[k + 1])
      /\ UNCHANGED <<argv, prop, bootlogger, residue, values, pc, data, propbuf, started>>
  BY DEF ReadArgument, input
<1>2. k \in Nat /\ Len(argv) \in Nat
  BY DEF TypeInv
<1>3. TypeInv'
  BY <1>1 DEF TypeInv
<1>4. ModeInv'
  <2>1. ArgumentsSeen = k /\ ArgumentsSeen' = k + 1 /\ k + 1 <= Len(argv)
    BY <1>1, <1>2 DEF ArgumentsSeen
  <2>2. ASSUME NEW j \in Given(k + 1), \A i \in Given(k + 1) : i <= j
        PROVE  argMode' = argv[j].value
    <3>1. CASE argv[k + 1].key = "mode"
      BY <1>1, <1>2, <2>2, <3>1 DEF Given, Saved
    <3>2. CASE argv[k + 1].key # "mode"
      <4>1. Given(k + 1) = Given(k)
        BY <1>2, <3>2 DEF Given
      <4> QED
        BY <1>1, <2>1, <2>2, <3>2, <4>1 DEF ModeInv, Saved
    <3> QED
      BY <3>1, <3>2
  <2> QED
    BY <1>1, <2>1, <2>2 DEF ModeInv, Given
<1>5. SourceInv' /\ PropbufInv' /\ StartedInv'
  BY <1>1 DEF SourceInv, Chosen, PropbufInv, StartedInv
<1> QED
  BY <1>3, <1>4, <1>5

\* The mask is a usable path of the value, or the default.
LEMMA MaskFacts ==
  ASSUME NEW v \in Seq(Tokens)
  PROVE  Mask(v) \in IF MaskPaths \cap {v[j] : j \in DOMAIN v} = {} THEN {Defaults.mask}
                     ELSE MaskPaths \cap {v[j] : j \in DOMAIN v}
<1>1. Len(v) \in Nat /\ DOMAIN v = 1..Len(v)
  OBVIOUS
<1>2. \A j \in 1..Len(v) : j \in Masks(v) <=> v[j] \in MaskPaths
  BY ConfigAssumption DEF Masks
<1>3. CASE Masks(v) = {}
  BY <1>1, <1>2, <1>3 DEF Mask
<1>4. CASE Masks(v) # {}
  <2>1. Masks(v) \subseteq 1..Len(v)
    BY DEF Masks
  <2>2. Last(Masks(v)) \in Masks(v)
    BY <1>1, <1>4, <2>1, LastFacts
  <2>3. Mask(v) = v[Last(Masks(v))]
    BY <1>4 DEF Mask
  <2> QED
    BY <1>1, <1>2, <2>1, <2>2, <2>3
<1> QED
  BY <1>3, <1>4

\* A value that is not set enables nothing and leaves the mask as it is.
LEMMA UnsetFacts == Enabled(Unset) = {} /\ Mask(Unset) = Defaults.mask
<1>1. Len(Unset) = 0
  BY DEF Unset
<1>2. 1..Len(Unset) = {}
  BY <1>1
<1>3. Masks(Unset) = {} /\ \A word : ~Contains(Unset, word)
  BY <1>2 DEF Masks, Contains
<1> QED
  BY <1>3 DEF Mask, Enabled

LEMMA SelectInv ==
  ASSUME ConfigInv, ArgumentsRead \/ UseArgv \/ IsDebugMode \/ UseProperty \/ UseDefaults
  PROVE  ConfigInv'
<1> USE DEF ConfigInv
<1>1. /\ UNCHANGED <<argv, prop, bootlogger, residue, values, k, argMode, argPath, propbuf, started>>
      /\ pc \in {"argv", "select", "property"}
      /\ pc' \in {"select", "property", "gate"}
      /\ pc = "argv" => k = Len(argv)
  BY DEF ArgumentsRead, UseArgv, IsDebugMode, UseProperty, UseDefaults, input
<1>2. TypeInv'
  BY <1>1 DEF TypeInv
<1>3. ModeInv'
  <2>1. ArgumentsSeen' = ArgumentsSeen
    BY <1>1 DEF ArgumentsSeen
  <2> QED
    BY <1>1, <2>1 DEF ModeInv, Given
<1>4. SourceInv'
  <2>1. CASE ArgumentsRead
    BY <2>1 DEF ArgumentsRead, SourceInv, Chosen
  <2>2. CASE IsDebugMode
    BY <2>2 DEF IsDebugMode, SourceInv, Chosen
  <2>3. CASE UseArgv
    <3>1. FromArgv'
      BY <1>1, <2>3 DEF UseArgv, FromArgv, Defaults
    <3> QED
      BY <2>3, <3>1 DEF UseArgv, SourceInv
  <2>4. CASE UseProperty
    <3>1. FromProperty(prop)'
      BY <1>1, <2>4 DEF UseProperty, FromProperty, Defaults, SourceInv
    <3>2. prop' \in values'
      BY <1>1 DEF TypeInv
    <3> QED
      BY <1>1, <2>4, <3>1, <3>2 DEF UseProperty, SourceInv
  <2>5. CASE UseDefaults
    <3>1. FromProperty(prop)'
      BY <1>1, <2>5, UnsetFacts DEF UseDefaults, FromProperty, Defaults
    <3>2. prop' \in values'
      BY <1>1 DEF TypeInv
    <3> QED
      BY <1>1, <2>5, <3>1, <3>2 DEF UseDefaults, SourceInv
  <2> QED
    BY <2>1, <2>2, <2>3, <2>4, <2>5
<1>5. PropbufInv' /\ StartedInv'
  BY <1>1 DEF PropbufInv, StartedInv
<1> QED
  BY <1>2, <1>3, <1>4, <1>5

LEMMA GateInv == ConfigInv /\ Gate => ConfigInv'
<1> SUFFICES ASSUME ConfigInv, Gate PROVE ConfigInv'
  OBVIOUS
<1> USE DEF ConfigInv
<1>1. /\ pc = "gate" /\ pc' \in {"exit", "start"} /\ k' = 0
      /\ propbuf' = IF data.mode = "boot" THEN bootlogger ELSE propbuf
      /\ UNCHANGED <<argv, prop, bootlogger, residue, values, argMode, argPath, data, started>>
  BY DEF Gate, input
<1>2. TypeInv'
  BY <1>1 DEF TypeInv
<1>3. ModeInv'
  BY <1>1 DEF ModeInv, Given, ArgumentsSeen
<1>4. SourceInv' /\ PropbufInv'
  BY <1>1 DEF SourceInv, Chosen, FromArgv, FromProperty, PropbufInv
<1>5. StartedInv'
  <2>1. Visited' = {}
    <3>1. 1..0 = {}
      OBVIOUS
    <3> QED
      BY <1>1, <3>1 DEF Visited
  <2>2. started' = {} /\ 0 <= Len(StartOrder)
    BY <1>1 DEF StartedInv, StartOrder
  <2> QED
    BY <1>1, <2>1, <2>2 DEF StartedInv
<1> QED
  BY <1>2, <1>3, <1>4, <1>5

LEMMA VisitInv == ConfigInv /\ VisitDevice => ConfigInv'
<1> SUFFICES ASSUME ConfigInv, VisitDevice PROVE ConfigInv'
  OBVIOUS
<1> USE DEF ConfigInv
<1>1. /\ pc = "start" /\ k < Len(StartOrder) /\ k' = k + 1
      /\ pc' = IF k + 1 = Len(StartOrder) THEN "done" ELSE "start"
      /\ UNCHANGED <<argv, prop, bootlogger, residue, values, argMode, argPath, data, propbuf>>
  BY DEF VisitDevice, input
<1>2. k \in Nat /\ Len(StartOrder) = 7
  BY DEF TypeInv, StartOrder
<1>3. TypeInv' /\ ModeInv'
  BY <1>1, <1>2 DEF TypeInv, ModeInv, Given, ArgumentsSeen
<1>4. SourceInv' /\ PropbufInv'
  BY <1>1 DEF SourceInv, Chosen, FromArgv, FromProperty, PropbufInv
<1>5. Visited' = Visited \cup {StartOrder[k + 1]}
  <2>1. 1..(k + 1) = (1..k) \cup {k + 1}
    BY <1>2
  <2> QED
    BY <1>1, <2>1 DEF Visited
<1>6. started = UNION {Settings(d) : d \in {d \in Visited : Starts(d)}}
  BY <1>1 DEF StartedInv
<1>7. started' = started \cup UNION {Settings(d) : d \in {d \in {StartOrder[k + 1]} : Starts(d)}}
  BY DEF VisitDevice
<1>8. started' = UNION {Settings(d) : d \in {d \in Visited' : Starts(d)}}
  BY <1>5, <1>6, <1>7
<1>9. StartedInv'
  BY <1>1, <1>2, <1>8, SettingsKept DEF StartedInv
<1> QED
  BY <1>3, <1>4, <1>9

\* The decision is right at any moment: settings, source, propbuf and threads started
\* agree.
THEOREM ConfigCorrect == Spec => []ConfigInv
<1>1. ConfigInv /\ [Next]_vars => ConfigInv'
  BY ChangeInv, ReadArgumentInv, SelectInv, GateInv, VisitInv, StutterInv DEF Next
<1> QED
  BY <1>1, InitInv, PTL DEF Spec

-----------------------------------------------------------------------------
\* What follows from it.

\* A thread that has been started is the thread of an enabled device, and its
\* settings are those of the one DATA.
LEMMA StartedFacts ==
  ASSUME ConfigInv, NEW s \in started
  PROVE  /\ pc \in {"start", "done"}
         /\ s \in Settings(s.device)
         /\ s.device \in data.enabled
         /\ s.mode = data.mode
         /\ s.maxFiles = data.maxFiles
         /\ s.size = data.size[s.device]
         /\ s.path = IF s.device \in {"qsee", "tz"} THEN "/data/zxlog" ELSE data.path
         /\ s.mask = IF s.device = "modem" THEN data.mask ELSE ""
         /\ s.dir = IF s.device = "main" THEN MainDir ELSE s.device
<1>1. pc \in {"start", "done"} /\ started = UNION {Settings(d) : d \in {d \in Visited : Starts(d)}}
  BY DEF ConfigInv, StartedInv
<1>2. PICK d : s \in Settings(d) /\ Starts(d)
  BY <1>1
<1>3. d \in data.enabled
  BY <1>2 DEF Starts, LogEnable
<1>4. HasSettings(s, d)
  BY <1>2, SettingsFacts
<1>5. s.device = d
  BY <1>4 DEF HasSettings
<1>6. s \in Settings(s.device) /\ s.device \in data.enabled /\ HasSettings(s, s.device)
  BY <1>2, <1>3, <1>4, <1>5
<1> QED
  BY <1>1, <1>6 DEF HasSettings

\* Every thread started rotates exactly if its names carry a time, see SizeFitsNames.
THEOREM SizesFit == Spec => []SizeFitsNames
<1>1. ASSUME ConfigInv PROVE SizeFitsNames
  <2> SUFFICES ASSUME NEW s \in started, s.device \in Writers
               PROVE  (s.mode = "normal" <=> s.size # 0) /\ (s.mode # "normal" => s.maxFiles >= 2)
    BY DEF SizeFitsNames
  <2>1. /\ pc \in {"start", "done"} /\ s.device \in data.enabled /\ s.mode = data.mode
        /\ s.maxFiles = data.maxFiles /\ s.size = data.size[s.device]
    BY <1>1, StartedFacts
  <2>2. FromArgv \/ \E v \in values : FromProperty(v)
    BY <1>1, <2>1 DEF ConfigInv, SourceInv, Chosen
  <2>3. CASE FromArgv
    <3>1. s.device \in {"dmesg", "main"} /\ s.mode # "normal"
      BY <2>1, <2>3 DEF FromArgv, ModeDevices
    <3>2. s.size = 0
      BY <2>1, <2>3, <3>1 DEF FromArgv, SpecialSize, Defaults, Devices
    <3>3. s.maxFiles = 3
      BY <2>1, <2>3 DEF FromArgv, SpecialFiles
    <3> QED
      BY <3>1, <3>2, <3>3
  <2>4. CASE \E v \in values : FromProperty(v)
    <3>1. s.mode = "normal" /\ data.size = Defaults.size
      BY <2>1, <2>4 DEF FromProperty
    <3>2. s.size = 12
      BY <2>1, <3>1 DEF Defaults, Devices, Writers
    <3> QED
      BY <3>1, <3>2
  <2> QED
    BY <2>2, <2>3, <2>4
<1> QED
  BY <1>1, ConfigCorrect, PTL

LEMMA OneToSeven == {1, 2, 3, 4, 5, 6, 7} \subseteq 1..7
OBVIOUS

\* In the end every device there is has been visited.
LEMMA AllVisited ==
  ASSUME ConfigInv, pc = "done"
  PROVE  \A d \in Devices : d \in Visited
<1>1. k = 7
  BY DEF ConfigInv, StartedInv, StartOrder
<1>2. /\ StartOrder[1] = "dmesg" /\ StartOrder[2] = "qsee" /\ StartOrder[3] = "tz"
      /\ StartOrder[4] = "modem" /\ StartOrder[5] = "bugreport" /\ StartOrder[6] = "net"
      /\ StartOrder[7] = "main"
  BY DEF StartOrder
<1> QED
  BY <1>1, <1>2, OneToSeven DEF Visited, Devices

\* A device that was visited and starts has a thread.
LEMMA VisitedStarted ==
  ASSUME ConfigInv, pc = "done", NEW d \in Visited, Starts(d)
  PROVE  \E s \in started : s.device = d
<1>1. Settings(d) \subseteq started
  BY DEF ConfigInv, StartedInv
<1>2. PICK s : s \in Settings(d)
  BY SettingsFiles
<1>3. s.device = d
  BY <1>2, SettingsFacts DEF HasSettings
<1> QED
  BY <1>1, <1>2, <1>3

\* With a mode on the command line the devices of its last mode argument start and
\* nothing else does, whatever the property holds, see LastModeCounts.
THEOREM LastModeWins == Spec => []LastModeCounts
<1>1. ASSUME ConfigInv PROVE LastModeCounts
  <2> DEFINE given == {j \in 1..Len(argv) : argv[j].key = "mode"}
             mode == argv[Last(given)].value
             devices == {s.device : s \in started}
  <2> SUFFICES ASSUME pc # "argv", given # {}
               PROVE  /\ \A s \in started : s.mode = mode
                      /\ devices \subseteq ModeDevices(mode)
                      /\ pc = "done" => devices = ModeDevices(mode)
    BY DEF LastModeCounts
  <2>1. argv \in Seq(Arguments) /\ Len(argv) \in Nat
    BY <1>1 DEF ConfigInv, TypeInv
  <2>2. Last(given) \in given /\ \A i \in given : i <= Last(given)
    BY <2>1, LastFacts
  <2>3. argMode = mode
    BY <1>1, <2>2 DEF ConfigInv, ModeInv, Given, ArgumentsSeen
  <2>4. argMode # ""
    <3>1. argv[Last(given)] \in Arguments /\ argv[Last(given)].key = "mode"
      BY <2>1, <2>2
    <3> QED
      BY <2>3, <3>1, ConfigAssumption
  <2>5. Chosen => /\ data.mode = argMode
                  /\ data.enabled = ModeDevices(argMode)
    BY <1>1, <2>4 DEF ConfigInv, SourceInv, FromArgv, FromProperty
  <2>6. ASSUME NEW s \in started
        PROVE  s.mode = argMode /\ s.device \in ModeDevices(argMode)
    BY <1>1, <2>5, StartedFacts DEF Chosen
  <2>7. ASSUME pc = "done", NEW d \in ModeDevices(argMode)
        PROVE  \E s \in started : s.device = d
    <3>1. d \in {"dmesg", "main"}
      BY <2>7 DEF ModeDevices
    <3>2. d \in Visited
      BY <1>1, <2>7, <3>1, AllVisited DEF Devices
    <3>3. Starts(d)
      BY <2>5, <2>7, <3>1 DEF Starts, LogEnable, Chosen
    <3> QED
      BY <1>1, <2>7, <3>2, <3>3, VisitedStarted
  <2> HIDE DEF given, mode
  <2>8. devices \subseteq ModeDevices(mode)
    BY <2>3, <2>6
  <2>9. pc = "done" => ModeDevices(mode) \subseteq devices
    BY <2>3, <2>7
  <2> QED
    BY <2>3, <2>6, <2>8, <2>9
<1> QED
  BY <1>1, ConfigCorrect, PTL

\* No file has two writers, see OwnFiles.
THEOREM FilesAreOwn == Spec => []OwnFiles
<1>1. ASSUME ConfigInv, NEW s \in started, NEW t \in started, s # t
      PROVE  s.path # t.path \/ s.dir # t.dir \/ s.file # t.file
  <2>1. CASE s.device = t.device
    BY <1>1, <2>1, StartedFacts, SettingsFiles
  <2>2. CASE s.device # t.device
    <3>1. s.device # "bhm" /\ s.device # "android" /\ t.device # "bhm" /\ t.device # "android"
      <4>0. Chosen
        BY <1>1, StartedFacts DEF Chosen
      <4>1. data.enabled \subseteq Devices
        <5>1. CASE FromArgv
          BY <5>1 DEF FromArgv, ModeDevices, Devices
        <5>2. CASE \E v \in values : FromProperty(v)
          BY <5>2 DEF FromProperty, Enabled, Devices
        <5> QED
          BY <1>1, <4>0, <5>1, <5>2 DEF ConfigInv, SourceInv
      <4> QED
        BY <1>1, <4>1, StartedFacts DEF Devices
    <3> QED
      BY <1>1, <2>2, <3>1, StartedFacts DEF MainDir
  <2> QED
    BY <2>1, <2>2
<1>2. ASSUME ConfigInv, argPath = "", NEW s \in started,
             NEW mode \in {"boot", "ota", "recovery", "poweroffcharger", "boot_hung_monitor"},
             s.path = ModePath(mode)
      PROVE  s.mode = mode
  <2>1. /\ pc \in {"start", "done"} /\ s.device \in data.enabled /\ s.mode = data.mode
        /\ s.path = IF s.device \in {"qsee", "tz"} THEN "/data/zxlog" ELSE data.path
    BY <1>2, StartedFacts
  <2>2. FromArgv \/ \E v \in values : FromProperty(v)
    BY <1>2, <2>1 DEF ConfigInv, SourceInv, Chosen
  <2>3. ModePath(mode) \notin {"/data/zxlog", "temp"}
    BY <1>2 DEF ModePath
  <2>4. s.path = data.path /\ FromArgv
    BY <1>2, <2>1, <2>2, <2>3 DEF FromProperty
  <2>5. ModePath(argMode) = ModePath(mode)
    BY <1>2, <2>4 DEF FromArgv
  <2>6. argMode = mode
    BY <1>2, <2>5 DEF ModePath, Defaults
  <2> QED
    BY <2>1, <2>4, <2>6 DEF FromArgv
<1>3. ConfigInv => OwnFiles
  BY <1>1, <1>2 DEF OwnFiles
<1> QED
  BY <1>3, ConfigCorrect, PTL

LEMMA UnsetTyped == Unset \in Seq(Tokens)
BY DEF Unset

\* The threads come from one value of the property, see OneConfiguration.
THEOREM OneSource == Spec => []OneConfiguration
<1>1. ASSUME ConfigInv PROVE OneConfiguration
  <2> SUFFICES ASSUME argMode = "", pc = "done" PROVE OneConfiguration
    BY DEF OneConfiguration
  <2>1. PICK v \in values : FromProperty(v)
    BY <1>1 DEF ConfigInv, SourceInv, Chosen, FromArgv
  <2> DEFINE devices == {s.device : s \in started}
             usable == MaskPaths \cap {v[j] : j \in DOMAIN v}
  <2>2. devices \subseteq Enabled(v)
    BY <1>1, <2>1, StartedFacts DEF FromProperty
  <2>3. \A d \in Devices : d \in Visited
    BY <1>1, AllVisited
  <2>4. ASSUME NEW d \in Enabled(v) \ devices
        PROVE  d = "modem" /\ residue = "empty"
    <3>1. d \in Visited /\ LogEnable(d)
      BY <2>1, <2>3 DEF Enabled, Devices, LogEnable, FromProperty
    <3>2. ~Starts(d)
      BY <1>1, <2>4, <3>1, VisitedStarted
    <3>3. propbuf = residue
      BY <1>1, <2>1 DEF ConfigInv, PropbufInv, FromProperty
    <3> QED
      BY <3>1, <3>2, <3>3 DEF Starts
  <2>5. ASSUME NEW s \in started, s.device = "modem"
        PROVE  s.mask \in IF usable = {} THEN {Defaults.mask} ELSE usable
    <3>1. s.mask = Mask(v)
      BY <1>1, <2>1, <2>5, StartedFacts DEF FromProperty
    <3>2. v \in Seq(Tokens)
      <4>1. v \in Properties \/ v = <<>>
        BY <1>1 DEF ConfigInv, TypeInv, Unset
      <4>2. Properties \subseteq Seq(Tokens)
        BY ConfigAssumption
      <4> QED
        BY <4>1, <4>2, UnsetTyped DEF Unset
    <3> QED
      BY <3>1, <3>2, MaskFacts
  <2> QED
    BY <2>2, <2>4, <2>5 DEF OneConfiguration
<1> QED
  BY <1>1, ConfigCorrect, PTL

=============================================================================
