---------------------------- MODULE LoggerConfig ----------------------------
(***************************************************************************)
(* Which threads one zxlogger process starts, and with what settings:      *)
(* ConfigData::read chooses between the command line, the property         *)
(* persist.sys.logger.config and the defaults, main starts a thread for    *)
(* each enabled device.  The property may be set again while this goes on. *)
(*                                                                         *)
(* An argument is a pair key, value; one that ArgvData::read cannot use    *)
(* (no brackets, no =, an empty or too long key or value) has the key      *)
(* "none".  The property is a sequence of tokens; Keywords[t] are the      *)
(* strings the code looks for that token t contains.                       *)
(***************************************************************************)
EXTENDS Naturals, Sequences, FiniteSets

CONSTANTS
  Arguments,  \* arguments [key, value]
  MaxArgs,    \* bound on their number
  Tokens,     \* tokens of the property
  Keywords,   \* Keywords[t]
  MaskPaths,  \* the tokens isVailLogMaskPath takes: absolute, with the extension .cfg
  Properties, \* values of the property: sequences of tokens
  MaxChanges  \* bound on the changes of the property

Devices == {"dmesg", "qsee", "tz", "main", "net", "bugreport", "modem"}

\* The devices whose threads write files of their own.
Writers == {"dmesg", "qsee", "tz", "main"}

ASSUME ConfigAssumption ==
  /\ MaxArgs \in Nat /\ MaxChanges \in Nat
  /\ MaskPaths \subseteq {t \in Tokens : "cfg" \in Keywords[t]}
  /\ Arguments \subseteq [key : {"mode", "path", "other", "none"}, value : STRING]
  /\ \A a \in Arguments : a.key # "none" => a.value # ""
  /\ \A t \in Tokens :
       Keywords[t] \subseteq {"kmsg", "tz", "logcat", "modem", "net", "bugreport", "cfg"}
  /\ Properties \subseteq Seq(Tokens)

VARIABLES
  argv,        \* the command line
  prop,        \* persist.sys.logger.config, empty if it is not set
  bootlogger,  \* persist.sys.bootlogger: empty (not set), true or something else
  residue,     \* what the uninitialised propbuf of main starts with: empty or other
  values,      \* the values the property has had (history)
  pc,          \* argv, select, property, gate, start, done, exit
  k,           \* arguments read; then devices visited
  argMode, argPath,  \* ArgvData's mode and path, "" if not given
  data,        \* the chosen DATA: mode, path, mask, maxFiles, enabled, size
  propbuf,     \* what propbuf starts with when main tests it
  started      \* settings of the threads started: device, mode, path, dir, file,
               \* maxFiles, size, and the modem's mask

input == <<argv, prop, bootlogger, residue, values>>
vars == <<input, pc, k, argMode, argPath, data, propbuf, started>>

\* property_get takes an empty value for one that is not set.
Unset == <<>>

\* DATA::init: 12 MB for every log, 100 for the modem (12 and 100 here), nothing
\* enabled; maxFiles is 0 from the constructor.
Defaults ==
  [mode |-> "normal", path |-> "temp", mask |-> "/vendor/etc/modemmask.cfg",
   maxFiles |-> 0, enabled |-> {},
   size |-> [d \in Devices |-> IF d = "modem" THEN 100 ELSE 12]]

Init ==
  /\ argv \in UNION {[1..n -> Arguments] : n \in 0..MaxArgs}
  /\ prop \in Properties \cup {Unset}
  /\ bootlogger \in {"empty", "true", "other"}
  /\ residue \in {"empty", "other"}
  /\ values = {prop}
  /\ pc = "argv"
  /\ k = 0
  /\ argMode = "" /\ argPath = ""
  /\ data = Defaults
  /\ propbuf = residue
  /\ started = {}

-----------------------------------------------------------------------------
\* Wrong variants used to check that the properties bite.

\* The property counts next to the command line.
EnabledByProperty(d) ==
  \/ d \in data.enabled
  \/ d = "dmesg" /\ \E j \in 1..Len(prop) : "kmsg" \in Keywords[prop[j]]

SizeKept(d, mode) == d

\* The settings of a device are looked up when its thread is started.
StartsLive(d) ==
  IF argMode # "" THEN d \in data.enabled
  ELSE \E j \in 1..Len(prop) : d \in Keywords[prop[j]]

NameTwice(mode) ==
  [main |-> "main.log", radio |-> "radio.log", event |-> "event.log",
   system |-> "system.log", crash |-> "system.log"]

-----------------------------------------------------------------------------
\* Somebody sets the property.
ChangeProperty ==
  /\ Cardinality(values) <= MaxChanges
  /\ prop' \in (Properties \cup {Unset}) \ values
  /\ values' = values \cup {prop'}
  /\ UNCHANGED <<argv, bootlogger, residue, pc, k, argMode, argPath, data, propbuf, started>>

\* ArgvData::read

Saved(a) == IF a.key = "mode" THEN a.value ELSE argMode

ReadArgument ==
  /\ pc = "argv"
  /\ k < Len(argv)
  /\ k' = k + 1
  /\ argMode' = Saved(argv[k + 1])
  /\ argPath' = IF argv[k + 1].key = "path" THEN argv[k + 1].value ELSE argPath
  /\ UNCHANGED <<input, pc, data, propbuf, started>>

ArgumentsRead ==
  /\ pc = "argv"
  /\ k = Len(argv)
  /\ pc' = "select"
  /\ UNCHANGED <<input, k, argMode, argPath, data, propbuf, started>>

\* Path and devices of a special mode; an unknown mode keeps the defaults.
ModePath(mode) ==
  CASE mode = "boot" -> "/data/zxlog/boot"
    [] mode = "boot_hung_monitor" -> "/proc"
    [] mode = "ota" -> "/data/local/tmp/ota"
    [] mode = "recovery" -> "/data/local/tmp/recovery"
    [] mode = "poweroffcharger" -> "/data/local/tmp/poweroffcharger"
    [] OTHER -> Defaults.path

ModeDevices(mode) ==
  CASE mode = "boot" -> {"dmesg", "main"}
    [] mode = "boot_hung_monitor" -> {"main"}
    [] mode \in {"ota", "recovery", "poweroffcharger"} -> {"dmesg"}
    [] OTHER -> {}

\* "not support max size in special mode"
SpecialSize(d, mode) == [d EXCEPT !["dmesg"] = 0, !["main"] = 0]

SpecialFiles == 3

UseArgv ==
  /\ pc = "select"
  /\ argMode # ""
  /\ data' = [mode |-> argMode,
              path |-> IF argPath # "" THEN argPath ELSE ModePath(argMode),
              mask |-> Defaults.mask,
              maxFiles |-> SpecialFiles,
              enabled |-> ModeDevices(argMode),
              size |-> SpecialSize(Defaults.size, argMode)]
  /\ pc' = "gate"
  /\ UNCHANGED <<input, k, argMode, argPath, propbuf, started>>

\* isDebugMode reads the property only to see whether it is set.
IsDebugMode ==
  /\ pc = "select"
  /\ argMode = ""
  /\ prop # Unset
  /\ pc' = "property"
  /\ UNCHANGED <<input, k, argMode, argPath, data, propbuf, started>>

\* The value v contains a keyword if one of its tokens does, a mask path too.
Contains(v, word) == \E j \in 1..Len(v) : word \in Keywords[v[j]]

Enabled(v) ==
  UNION {IF Contains(v, "kmsg") THEN {"dmesg"} ELSE {},
         IF Contains(v, "tz") THEN {"qsee", "tz"} ELSE {},
         IF Contains(v, "logcat") THEN {"main"} ELSE {},
         {w \in {"modem", "net", "bugreport"} : Contains(v, w)}}

\* The last of a set of positions.
Last(S) == CHOOSE j \in S : \A i \in S : i <= j

\* split and userSpecifyLogMask: the last usable path is the mask.
Masks(v) == {j \in 1..Len(v) : "cfg" \in Keywords[v[j]] /\ v[j] \in MaskPaths}

Mask(v) == IF Masks(v) = {} THEN Defaults.mask ELSE v[Last(Masks(v))]

\* PropertyData::read reads it again.
UseProperty ==
  /\ pc = "property"
  /\ data' = [Defaults EXCEPT !.enabled = Enabled(prop), !.mask = Mask(prop)]
  /\ pc' = "gate"
  /\ UNCHANGED <<input, k, argMode, argPath, propbuf, started>>

UseDefaults ==
  /\ pc = "select"
  /\ argMode = ""
  /\ prop = Unset
  /\ data' = Defaults
  /\ pc' = "gate"
  /\ UNCHANGED <<input, k, argMode, argPath, propbuf, started>>

-----------------------------------------------------------------------------
\* main

BootAllowed == bootlogger \in {"true", "empty"}

\* Mode boot asks persist.sys.bootlogger; no other mode fills propbuf.
Gate ==
  /\ pc = "gate"
  /\ propbuf' = IF data.mode = "boot" THEN bootlogger ELSE propbuf
  /\ pc' = IF data.mode = "boot" /\ ~BootAllowed THEN "exit" ELSE "start"
  /\ k' = 0
  /\ UNCHANGED <<input, argMode, argPath, data, started>>

StartOrder == <<"dmesg", "qsee", "tz", "modem", "bugreport", "net", "main">>

LogEnable(d) == d \in data.enabled

LogMaxSize(d) == data.size[d]

Starts(d) == LogEnable(d) /\ (d = "modem" => propbuf # "empty")

\* The five threads of the device main, and their files.
Logs == {"main", "radio", "event", "system", "crash"}

LogFiles(mode) ==
  IF mode = "boot_hung_monitor"
  THEN [main |-> "main", radio |-> "radio", event |-> "event", system |-> "system", crash |-> "crash"]
  ELSE [main |-> "main.log", radio |-> "radio.log", event |-> "event.log",
        system |-> "system.log", crash |-> "crash.log"]

\* The setters of a thread object of device d.
Thread(d, name, dir, f) ==
  [device |-> d, log |-> name, mode |-> data.mode, maxFiles |-> data.maxFiles, size |-> LogMaxSize(d),
   path |-> IF d \in {"qsee", "tz"} THEN "/data/zxlog" ELSE data.path,
   dir |-> dir, file |-> f, mask |-> IF d = "modem" THEN data.mask ELSE ""]

MainDir == IF data.mode = "boot_hung_monitor" THEN "bhm" ELSE "android"

Settings(d) ==
  IF d = "main"
  THEN {Thread(d, l, MainDir, LogFiles(data.mode)[l]) : l \in Logs}
  ELSE {Thread(d, d, d, d \o ".log")}

VisitDevice ==
  /\ pc = "start"
  /\ k < Len(StartOrder)
  /\ k' = k + 1
  /\ started' = started \cup UNION {Settings(d) : d \in {d \in {StartOrder[k + 1]} : Starts(d)}}
  /\ pc' = IF k + 1 = Len(StartOrder) THEN "done" ELSE "start"
  /\ UNCHANGED <<input, argMode, argPath, data, propbuf>>

Next ==
  \/ ChangeProperty
  \/ ReadArgument \/ ArgumentsRead
  \/ UseArgv \/ IsDebugMode \/ UseProperty \/ UseDefaults
  \/ Gate \/ VisitDevice

Spec == Init /\ [][Next]_vars

-----------------------------------------------------------------------------

\* Exactly one size policy for each naming policy: a thread that writes numbered
\* or fixed names never rotates (the split of readFile would give it a timestamped
\* file outside of the history) and has a history of the length RotateChain assumes;
\* a thread with timestamped names always rotates.
SizeFitsNames ==
  \A s \in started : s.device \in Writers =>
    /\ s.mode = "normal" <=> s.size # 0
    /\ s.mode # "normal" => s.maxFiles >= 2

\* With a mode on the command line the last mode argument decides alone: the devices
\* started are the ones of its mode, no more and in the end no fewer, and each thread
\* is in that mode, whatever the property holds and however often it is set meanwhile.
LastModeCounts ==
  LET given == {j \in 1..Len(argv) : argv[j].key = "mode"}
      mode == argv[Last(given)].value
      devices == {s.device : s \in started}
  IN  pc # "argv" /\ given # {} =>
        /\ \A s \in started : s.mode = mode
        /\ devices \subseteq ModeDevices(mode)
        /\ pc = "done" => devices = ModeDevices(mode)

\* No two threads write the same file, and without a path argument no process
\* writes into the directory of another mode: the processes that run at the same
\* time at boot do not rename or overwrite each other's files.
OwnFiles ==
  /\ \A s, t \in started :
       s # t => s.path # t.path \/ s.dir # t.dir \/ s.file # t.file
  /\ argPath = "" =>
       \A s \in started : \A mode \in {"boot", "ota", "recovery", "poweroffcharger", "boot_hung_monitor"} :
         s.path = ModePath(mode) => s.mode = mode

\* Without a mode argument all threads come from one and the same value of the
\* property, although it is read twice and may be set in between and afterwards:
\* the devices, of which only the modem may be missing (it hangs on what propbuf
\* happens to hold), and the modem's mask, a usable path of that value if it has one.
OneConfiguration ==
  argMode = "" /\ pc = "done" =>
    \E v \in values :
      LET devices == {s.device : s \in started}
          usable == MaskPaths \cap {v[j] : j \in DOMAIN v}
      IN  /\ devices \subseteq Enabled(v)
          /\ Enabled(v) \ devices \subseteq IF residue = "empty" THEN {"modem"} ELSE {}
          /\ \A s \in started : s.device = "modem" =>
               s.mask \in IF usable = {} THEN {Defaults.mask} ELSE usable

\* configdata.h:42 and 150: the special modes boot, ota, poweroffcharge and recovery
\* are supported; a process started in one of them captures something.
DocumentedModesCapture ==
  pc = "done" /\ argMode \in {"boot", "ota", "poweroffcharge", "recovery"} => started # {}

=============================================================================
