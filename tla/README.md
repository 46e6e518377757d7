# QtiLogger in TLA+

QtiLogger records the logs of a Qualcomm Android 8.1 device: Android's log buffers, the kernel, QSEE and TrustZone logs, modem (diag) and network captures and bug reports. One executable, `zxlogger`, is started by init in several roles (boot, boot_hung_monitor, power-off charger, ota, recovery, normal); inside it each log has a thread. This directory holds TLA+ models of it, the TLC runs that check them and the TLAPS proofs about them.

## Inventory

| Part | Code | State | Operations | Interacts with |
|---|---|---|---|---|
| Log capture | `logcatcore.cpp` | reader list, error count, byte count, open file, banner flags | `startCaptureLog`, `processBuffer`, `printStart`, `createLogFile` | logd (messages, crash and restart), file system, init (kill) |
| Numbered files | `logcatcore.cpp` 298-318, `zxlogger.cpp` 210-223 | the files `<name>1..3` of a special mode | the rename loop and the open at each start | kills between renames, I/O errors |
| Kernel log copy | `zxlogger.cpp` `readFile`, `kmsg.cpp`, `qsee.cpp`, `tz.cpp` | a 4096 byte buffer, loop variables, open file, its size | read, write loop, split | another process that reads the same `/proc/kmsg` |
| Android log threads | `logcat.cpp` | one `LogcatLogger` each | configure, capture, then sleep for ever | directories only |
| Configuration | `configdata.cpp` | per-log switches and sizes, mode, paths | parse argv, parse the property, defaults | main |
| Service control | `zxlogger.rc`, `logcp.sh`, `modem.sh` | properties, services | triggers that start and stop services | init, the threads that set properties |
| Modem, net, bugreport | `modem.cpp`, `net.cpp`, `bugreport.cpp` | the directories they made | `readyToRun`, set a property or run a command | init, diag_mdlog, mytcpdump |
| Main, directories | `zxlogger.cpp` | the device objects | start the threads in order, `createDirectory` | all of the above |
| Dynamic debug | `dynamic.cpp` | the line buffer, a mask file | parse the lines, write the kernel's control files | nothing: `main` has it in comments |

What is hard: the logger is killed at any moment and started again by init; files survive, are named by the second and are opened again without truncation; two processes consume one kernel log; logd loses its stream and its memory; disks fill up; the reader of logd starts again from the oldest message; properties are set by init's actions and by threads at the same time. What makes each part correct:

- capture: nothing that logd still holds is skipped, copies and file sizes are bounded, a failure of logd or of a rotation delays the capture and does not end it;
- numbered files: the order of the numbers is the order of age, and a log leaves only at the old end;
- kernel copy: as long as no file name is used twice, no byte skipped or saved twice; the loss at a kill is one buffer, the loop stays inside what it read;
- configuration: one source wins, read at one moment; modes get their own sizes and file counts, threads their own files;
- service control: after the stop nothing records, after the start everything enabled does, if it has its directory;
- the kernel log across services: no recorded byte is lost but in the buffer of a reader that is stopped, whoever reads when;
- dynamic debug: each usable line is written once, in order, whatever fails before it.

## Modules

| Module | Models | Relation |
|---|---|---|
| `LogRetention` | the promise of a numbered history: the newest log is added, the oldest leaves when it is `MaxFiles` starts old | abstract specification |
| `RotateChain` | the rename loop, one rename a step | implements `LogRetention` |
| `RotateChain_proofs` | theorems about `RotateChain` | extends it |
| `LogDelivery` | the promise of a capture: a session starts at the oldest message held and takes the wanted ones in order without a gap, what is saved stays saved | abstract specification |
| `LogcatLogger` | one capture thread with logd, init and the file system around it | implements `LogDelivery` when no file name is used twice |
| `MCLogcatLogger` | its instances for TLC | extends it |
| `LogcatLogger_proofs` | theorems about `LogcatLogger` and the step to `LogDelivery` | extends it |
| `KernelReader` | `readFile` in any number of processes that share a source | |
| `MCKernelReader` | its instances for TLC | extends it |
| `KernelReader_proofs` | theorems about `KernelReader` | extends it |
| `LoggerConfig` | what one process starts: `ConfigData::read` and `main` | says which processes have the numbered files of `RotateChain` and which rotate |
| `MCLoggerConfig` | its command lines and properties for TLC | extends it |
| `LoggerConfig_proofs` | theorems about `LoggerConfig` | extends it |
| `LoggerService` | start and stop of the recording: init, the threads that set properties, the directories, the recorders | |
| `LoggerService_proofs` | theorems about `LoggerService` | extends it |
| `Handover` | the kernel log while init hands it from `zxbootlogger` to `zxlogger` | composes `LoggerService`, which it extends, and `KernelReader` |
| `Handover_proofs` | theorems about `Handover` | extends it and `LoggerService_proofs` |
| `DynamicDevice` | the dynamic debug thread | |
| `DynamicDevice_proofs` | theorems about `DynamicDevice` | extends it |

### RotateChain

`slot[k]` is the start whose log is in file `k`; opening number 1 overwrites it from offset 0 and makes it the log of the present start. `Rename` and `RenameFails` are the body of the loop (`rename` replaces its target, a missing source changes nothing, any failure is only logged), `Open`/`OpenFails` what follows, `Kill` comes between any two steps. `faults` counts only failures with an existing source.

### LogcatLogger

The `pc` follows the thread (`logcat.cpp`) and `startCaptureLog`: `format` (`setLogFormatAndLogSize`), `create` (first file), `repeat` (label `repeat:`), `read` (head of the `for` loop), `process` (`printStart` and `processBuffer`), `rotate` (`createLogFile` inside `processBuffer`), `dead` (the function has returned, the thread sleeps), `down` (no process). A failed `setLogFormatAndLogSize` is ignored by the thread and noticed by `startCaptureLog`, so `SetFormatFails` goes to `dead` at once. `DeviceList` is what the constructor makes of its arguments (`addLogcatDevice`); messages of other buffers are never delivered. Files are sequences of cells, one for a byte of a line and one for a banner, written at the descriptor's offset without truncation. logd is `base..logged` with at most `RingCap` messages; `LogdCrash` empties it and breaks the stream, and a broken stream fails until the code gives it up. A connection is made by the first read of a list and starts at the oldest message (`tail_lines` is 0). `Process`, `ProcessShort` and `ProcessFails` are the three outcomes of a message: printed, printed in part (counted), not parsed or not written (not counted, no size test). `NamesNow` is the name `createLogFile` would make: any, since the clock may show any second, or with `NewSeconds` one not used before; `Names` with one element is mode boot_hung_monitor.

`opens`, `dropped` and `used` are history: what was opened how often, which messages met an error of their own, how often the environment acted.

`Delivery` maps it to `LogDelivery`: a session is a stream to logd of a running process, `taken` is `log_msg` between the read and the write, `saved` is what lies complete in some file. Rotations, failed rotations, banners, redo and read errors disappear; what remains is that no session leaves out a held message and that nothing saved is lost again.

### KernelReader

`Read` takes 1 to `BufSize` bytes from the shared position; `Write` and `WriteFails` are one turn of the write loop with its arithmetic unchanged (`nw = -1` makes `nr` grow and `off` go back, below 0 too; byte 0 stands for memory outside of the chunk); `AfterLoop` is the size test after the loop; `Split` and `SplitFails` close the old file first. A read that returns nothing leaves every variable as it is: it is a stuttering step, and the loop that repeats it at once is not modelled beyond that. `files[p]` are the files of the directory of process `p`, `fd` the one it has open. A name is that of a second and the file is opened without `O_TRUNC` and `O_EXCL`, so `OpenName` either makes a new file or takes any that is there; `total` is then 0 and `Write` puts its bytes at that offset over the old ones (`Overwrite`). `reused` is history: a file was opened that was there. What a reader promises about bytes is stated for `~reused`; bounds on sizes, the loop and the loss hold without it.

### LoggerConfig

One action for each argument read, one for each of the three sources (`UseArgv`, `IsDebugMode` with `UseProperty`, `UseDefaults`), `Gate` for the test of `persist.sys.bootlogger`, `VisitDevice` for each block of `main` in its order. `ChangeProperty` sets the property at any moment, also between `isDebugMode`, which only asks whether it is set, and `PropertyData::read`, which reads it again; `values` is the history of its values. `started` holds the settings of the threads, one record for each thread: five for the device main, with the directory and file name `main` or the constructor gives them. The property is a sequence of tokens and `Contains` asks for a substring anywhere in it, as the code does, so a mask path enables what its name contains; `Masks` are the tokens of `split` that `isVailLogMaskPath` takes, the last of which becomes the modem's mask. `propbuf` is an uninitialised array in `main` that only mode boot fills; `residue` is what it happens to hold.

### LoggerService

init keeps a queue of property changes; `HandleChange` takes one when the commands of the last are done, and each command (`SetProp`, `StartService`, `StopService`) is a step, between which init serves what other processes set. `OnRunning` and `OnStopped` are the triggers in the order of the file. A stop kills at once and the process is gone when the next command runs. `modem`, `net` and `capture` are the three kinds of threads of `zxlogger`; each runs `readyToRun` first, which makes the log directory (`MakeLogPath`) and the thread's own below it. Then the modem thread sets a property if the log directory is there, the net thread sets one in any case, and the capture thread opens its log, which needs the directory. `dirs` is how much of `.../zxlog/temp/net` exists, 0 to 3 levels: `createDirectory` makes only the last level of a path and only below one that exists, `logcp.sh` makes them all but `net`, and nothing says who is first. A modem thread without a directory returns from `threadLoop`, which deletes an object on the stack of `main`: `ModemGivesUp` lets the process go on or abort. The recorder that the net thread's property starts opens its file in `.../temp/net` (`Tcpdump`, `zxlogger.rc:89` and `96`): without the directory it ends. `mytcpdumpwlan` is oneshot and stays down; `mytcpdump` is not, because line 93 misspells the word, and init starts it again until the directory is there or the service is stopped, so that the model leaves it starting. `noParent`, `late` and `races` are history: that `zxlogger` was started without `.../zxlog`, and which windows between init and the threads or the `diag_mdlog` tools have been hit.

### Handover

`zxbootlogger` and the kmsg thread of `zxlogger` are the two readers of `KernelReader`; `LoggerService` says when their processes exist. A step of init that starts or stops one of them is a step of both components (`InitStarts` with `Start`, `InitStops` with `Kill`), and so is the step in which the thread `capture` opens its log (`ZxloggerThreads` with `OpenFiles` or `OpenFails`); a modem thread that takes the process down takes its reader too (`ReadersStopped`); every other step belongs to one component and leaves the other alone. The boot logger is started by class main before any app runs. The kernel log is consumed by whoever reads it, so a process that goes on reading takes bytes from the other one. Failed writes and splits do not interact with the handover and are left to the runs of `KernelReader`; the run has no modem and net device, the theorems allow them.

### DynamicDevice

`ReadLine` is the test of `feof`, the `memset` and the `fgets`; whether that `fgets` meets the end depends on the newline of the last line (`AtEnd`). `ReadFails` leaves an empty buffer and no end of file. A line stands for its key; `ParseLine` looks its control file up, `SkipLine` is every way in which the parser finds nothing to write. `WriteInterrupted` is the loop on EINTR, `WriteFails` a failed open or write, which `parseMaskFile` ignores. The text written is abstract, the path is not.

## Runs

| Run | Bounds | What it shows |
|---|---|---|
| `rotate_crash` | 3 files (the code's number), 7 starts, no failed rename | types, order, retention, `OldestFirst` and the refinement of `LogRetention` with kills anywhere |
| `rotate_faults` | 4 files, 6 starts, 3 failed renames | the order survives failed renames, each costs at most one log, and only they put a new log over an old file (`FreshFile`) |
| `logcat_capture` | 4 messages of 1 or 2 bytes, the third of a buffer not opened, ring of 3, threshold 3, 3 names, new reader after 2 errors; one each of a failed set-up, a failed rotation, a lost message, a logd crash and a stop, 2 errors | `NothingSkipped`, `CopiesBounded`, `FileBound` |
| `logcat_live` | 3 messages, the second of a buffer not opened, ring of 2, a rotation after each message, each file in its own second; the same failures | `EverySaved`, `StreamComesBack`, the refinement of `LogDelivery` |
| `logcat_outgrow` | 2 errors, nothing else | violation: a file passes its maximum after a new reader |
| `logcat_samesecond` | nothing fails | violation: a rotation opens a file used before |
| `kernel` | 4 bytes, buffers of 2, threshold 2, 2 processes, 2 failed writes, one stop, at each open a new name or one used before | `LoopStaysInChunk`, `NoByteSkipped`, `NoByteTwice`, `LossBounded`, `FileBound`, `EveryByteSaved` |
| `config_read` | up to 2 of 10 arguments, 5 property values or none and one change, 3 values of the boot switch, either residue | `SizeFitsNames`, `LastModeCounts`, `OwnFiles`, `OneConfiguration` |
| `config_modes` | one argument | violation: mode poweroffcharge captures nothing |
| `service` | 3 requests, modem and net enabled, the oneshot tcpdump of option wlan, 0 to 3 levels of the directories there before | `StopIsComplete`, `StartIsComplete`, `BootLogCopiedAfterStop`, `CaptureLostOnlyWithoutParent`, `StartCaptures`, `StopTakesEffect` |
| `handover` | 3 requests, no modem and net device, 2 bytes of kernel log, buffer of 2, any number of stops they lead to | `BootLogFinal`, `StoppedReadsNothing`, `AllRecorded` |
| `dynamic` | files of up to 3 lines with or without a last newline, 2 interrupted or failed calls | `WrittenInOrder`, `AllWritten`, `ParseEnds` |

Why the bounds are enough: in the chain, seven starts fill three files twice over and leave starts for kills in a row; in the capture, lines of one and two bytes against a threshold of three meet the threshold exactly and pass it by one, four messages overflow the buffer and rotate twice, and one of each failure falls at every point of the others; in the copy, two failures make `off` negative anywhere in a chunk, chunks of one and two bytes against a threshold of two end below, at and above it, and the threshold is met twice. The error limit of 10 is a parameter and is 1 in the runs; only the count differs. In the configuration, two arguments are enough for each order of two keys, the code keeps no more than one value of each, and the property values hold all keywords, few of them, and mask paths that contain a keyword, that are usable and that are not; one change falls between any two steps. `LastModeCounts` compares the threads started with those of the last mode given, as a set: no more while they are started, all of them at the end, whatever the property holds. For the service, three requests are a stop between two starts or a start between two stops, so that resets of a stop meet the threads of the next start, and in the handover so that bytes are logged before, during and between two recordings. The run has the recorder of option wlan, which ends without its directory; the one of option all differs only in that init starts it again instead, and the theorems hold for both. For the mask file, three lines put an unusable or failed line before a good one, between two and at the end. File names are model values and interchangeable, so the safety runs use symmetry; the liveness run does not.

Deadlock is not checked: a logger that was killed, a thread that has given up and a source that has ended are real final states, as are a process that has started its threads and a service nobody asks for anything.

### Fairness

`LogcatLogger`: weak fairness of the thread (the scheduler runs it; whether an operation fails is not fair and is bounded) and of logd's restart (init restarts it, it is not oneshot). `KernelReader`: weak fairness of each thread. `LoggerService`: weak fairness of `System`, that is, some process that can run does; init, the threads of `zxlogger` and the tools do only finitely much for one request, so none of them is left out for ever. `Handover`: weak fairness of init, of the threads of `zxlogger`, of the tools and of the copying of each reader, all of which run unless killed. `DynamicDevice`: weak fairness of the one thread; failures are bounded. Nothing makes the app start or stop the logger or a program write messages. `EverySaved` and `EveryByteSaved` excuse a capture that has been killed or has given up at a set-up or a split; `AllRecorded` excuses nothing but the buffer of a reader that was stopped, for an app whose last request is a start that finds `.../zxlog` (`~noParent`, which is also the excuse of `StartCaptures`). Both excuse a name used a second time, because the code writes over the file then.

### What the runs found

- `logcatcore.cpp:410` clears the byte count for every new reader though the file stays the same, so after an error burst a file takes up to another `maxLogSize` bytes; `zxlogger.cpp:83` promises a new file. `FileBound` is the bound that does hold.
- `logcatcore.cpp:291` names a file by the second and opens it without `O_EXCL` or `O_TRUNC`: a second rotation in the same second, or after the clock was set back, overwrites the first from offset 0 where `logcatcore.cpp:586` says that a new file is created. The other properties are stated for names used once (`Reused`).
- `zxlogger.cpp:206` and `:252` do the same for the kernel, QSEE and TrustZone logs: a split in the second its file was opened in, and a stop and start within one second, open the old file again and write over it. `zxlogger.cpp:83` promises a new file; the properties about bytes are stated for `~reused`. `logcat_samesecond` shows the same defect in the Android capture; no run repeats it here.
- `configdata.cpp:502` knows the charger mode as `poweroffcharger`, which is also what `zxlogger.rc:8` passes; the comments at `configdata.h:42` and `:150` call it `poweroffcharge`, and a process started so runs without a thread.

The runs also needed excuses, each of them a real race of the code for which no text promises more: a modem or net thread that sets its property between the reset and the kill leaves a recorder running after the stop; `diag_mdlog -k` does nothing if the daemon is not yet there, and ends the recording of the next start if it is slow; a thread loses its log, the modem thread may take the process down and tcpdump has nowhere to write if `.../zxlog` does not exist when `zxlogger` starts. Without any one of these excuses the run fails.

## Proofs

Every safety invariant and every action property of a passing run is a theorem, and so are both refinements. Each holds for every value of the constants that the named assumption of the module allows; each inductive invariant was first checked by TLC on the run of its module.

**`RotateChain_proofs`** (`ChainAssumption`: `MaxFiles >= 2`): types, `AgeOrdered`, `Retained`, `OneLogPerFault`, `OldestFirst`, `FreshFile` and, if no rename fails, `RetentionSpec`. `Retained` is not inductive: `ChainInv` adds that no file is newer than the present start (`NotAhead`), that a log of number `k` is at least `k - 1` starts old and `k` starts old while the loop has not reached it (`AgeBound`), and that the number the loop fills next is free (`Freed`). The log a rename replaces is therefore the last one and `MaxFiles` starts old, which is the abstract `Evict`. For `OneLogPerFault` a failed rename has to be paid for before its cost shows: `CostInv` counts the logs that are missing and the one that is `Doomed`, still in the number the loop fills next.

**`KernelReader_proofs`** (`ReaderAssumption`): types, `LoopStaysInChunk`, `NoByteSkipped`, `FileBound`, `LossBounded`, `NoByteTwice`. `ReaderInv` adds `LoopInv` (a running loop has `off + nr` equal to the length of its chunk, which lies before `next`) and `SizeInv` (`total` is an offset in the open file, and its end as long as no name is used twice; what is left to write is counted before it is written, so that a failed write moves `nr` and `errs` together). With `total` at the end of the file a write only appends, which is where the theorems about bytes need `~reused`; `FileBound` needs the bound on `total` only and holds for files that are written over, too. `LossBounded` follows from the bound on what is in flight. `NoByteTwice` needs `OnceInv`: what is in files, in the different loops and not yet read is disjoint, a loop's bytes come after all its file holds; it is stated, like the property, for no failed write and no name used twice.

**`LogcatLogger_proofs`** (`LoggerAssumption`): types, `CopiesBounded`, `NothingSkipped`, `FileBound`, and `DeliverySpec` if every file is created in a second of its own. `Shape` says where the thread may be with which descriptor, reader and message, that nothing is read or counted before a connection is made, and that a file opened once is written at its end (`AppendInv`), which is why nothing saved is overwritten. `CopyInv` counts one more copy for a message that the present connection may still write (`Owed`). `BytesInv` splits the bytes of the open file into those of the connections before, one threshold each, and those the byte count knows, with one line for each rotation that failed; the longest line exists because there are finitely many (`MaxLineFacts`, by the least number). For the refinement, `DeliveryStep` maps each action to one of `LogDelivery` or to a stutter: `Connect` to `Connect`, `Read` to `Take`, the three outcomes of a message to `Save` or `Lose`, a stop and a new reader to `Disconnect`, logd's steps to `Grow`. `NewSeconds` is the hypothesis because `logcat_samesecond` shows that the refinement fails without it.

**`LoggerConfig_proofs`** (`ConfigAssumption`): `SizeFitsNames`, `LastModeCounts`, `OwnFiles`, `OneConfiguration`, for command lines of any length. `ConfigInv` says that `argMode` is the value of the last mode argument read so far (`ModeInv`), that `DATA` comes from the arguments, or from one value of the property, as a whole (`SourceInv`: `FromArgv`, `FromProperty`; a default configuration is that of an empty value), that `propbuf` is what it was unless the mode is boot (`PropbufInv`), and that the threads started are those of the devices visited (`StartedInv`).

**`LoggerService_proofs`** (`ServiceAssumption`): types, `StopIsComplete`, `StartIsComplete`, `BootLogCopiedAfterStop`, `CaptureLostOnlyWithoutParent`. The first two speak of states in which init has nothing left to do; `ServiceInv` follows the request there. A stop the app asked for last is in the queue with no start behind it (`StopQueued`), or its commands still hold what stops each service that is up (`Stopping`), and a property that no thread set late is still to be reset, its reset is queued behind every setting, or its recorder is down or about to be stopped (`Resetting`, `TcpdumpStops`, `DiagStops`). `StartInv` is the mirror image for what a living thread has set. `ResetInv` joins them: resets come before the stop of `zxlogger` in the same commands, so a thread that set its property after a reset is killed. `UpInv` follows a start in the same way: it is queued with no stop behind it, or `zxlogger` is about to be started, is up, or was taken down for want of a directory. `CopyInv` orders the stop of the boot logger before the copy. `DirInv` says that, if the parent was there when `zxlogger` started (`~noParent`), the first `createDirectory` of a thread has made the log directory and the second one of the net thread its own.

**`Handover_proofs`**: `BootLogFinal` and `StoppedReadsNothing`, for every set of devices. `Handover` extends `LoggerService`, so that the lemmas of its proofs hold of the composition; only the boot is new (`BootKeepsService`), for which `QuietInv` says that nothing else happens before the first request. `BootInv` adds that from then on a boot logger that is up is about to be stopped, and `Coupled`, a part of the invariant only, that a process of the service is up exactly when its reader runs. `OnlyReadersRead` then gives the two action properties: a step adds to a file, or takes bytes, only where a process is up. `ReadersComply`: the composition uses the readers as `KernelReader` allows, so that its safety theorems hold of the processes init runs.

**`DynamicDevice_proofs`** (`DynamicAssumption`): `WrittenInOrder`, `AllWritten`, for mask files of any length. `MaskInv` says that the line in hand is the last one read and comes after all written, and that every usable line read before it was written or its call failed.

Only model-checked: the liveness properties `EverySaved`, `StreamComesBack`, `EveryByteSaved`, `StartCaptures`, `StopTakesEffect`, `AllRecorded` and `ParseEnds`, which with fairness and ENABLED are out of the prover's reach, as are induction over data and RECURSIVE operators; no module here uses the last two. The theorems that need a greatest or a least element take it from the well-founded order of the naturals.

## Not modelled

Formats and filters of lines, the wording of logs, the event tag map, permissions, `deleteLogcatDevice`, which deletes nothing, and `showLogcatDevices`, which prints (nobody calls them), the dynamic mask path (`main` reads it in comments only), the bundled tcpdump, the build; the stop of the service zxboothung at the end of the boot, which touches nothing the other services use; `modem.sh`, which nothing starts; the bugreport thread, which runs one command. init's stop is taken as finished when the command is; a recorder that has opened its file does not end by itself. The reads of `readFile` that return nothing change no state, and what such a loop costs is not modelled.

## Plan

1. Done: `LogRetention`, `RotateChain`, `LogDelivery`, `LogcatLogger`, `KernelReader`, `LoggerConfig`, `LoggerService`, `Handover`, `DynamicDevice` and their runs.
2. Done: the safety invariants and action properties of all of them, and the refinements of `LogRetention` and `LogDelivery`.
3. Left: the consequences of the theorems across modules (what `ReadersComply` gives for the files of the two processes), and safety properties behind the liveness ones, such as that a thread that captures gives up only where the code says so; and the names of `readFile` in the modes with numbered files, whose first file is the one `RotateChain` frees and whose splits are named by the second.
