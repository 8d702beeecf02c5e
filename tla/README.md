# A verification project for sercomm

sercomm is a C library for serial ports: open, configure, read, write and close
a port; list the serial devices; watch them come and go. It has one
implementation for POSIX systems, with device monitors for Linux and macOS, and
one for Windows. This directory holds TLA+ models of it, the TLC configurations
that check them, and proofs for TLAPS.

The library is small and takes almost no locks. What is hard in it is not the
amount of code but what happens around it: `select()` answers a question whose
answer is old when `write()` relies on it, a device is unplugged in the middle
of every call, and a monitor hands memory, a mutex and a pipe to a thread that
may be slower than its creator is patient.

## The system

| Component | Sources | State | Operations |
|---|---|---|---|
| POSIX data path | `sercomm/posix/comms.c` 476-563, 604-747 | timeouts of the instance; the kernel's two queues; whether the device is there | `ser_read`, `ser_read_wait`, `ser_available`, `ser_flush`, `ser_write` |
| POSIX port life cycle | `sercomm/posix/comms.c` 112-474, 569-602, `posix/base.c` | descriptor, saved settings, timeouts; the terminal's and the driver's settings | `ser_create`, `ser_open` (`port_configure`), `ser_close` (`port_restore`), `ser_destroy` |
| Watcher client | `examples/watcher.c` | where its loop is | `run` |
| Linux device monitor | `sercomm/posix/dev_linux.c` 162-282, 378-467 | `ser_dev_mon_t`: thread, `init_m`, `init_cond`, `pfd`, callback | `ser_dev_monitor_init`, `ser_dev_monitor_stop`, the thread `ser_dev_monitor` |
| Linux device list | `sercomm/posix/dev_linux.c` 68-118, 288-376 | a linked list in the making | `ser_dev_list_get`, `ser_dev_list_destroy` |
| macOS list and monitor | `sercomm/posix/dev_macos.c` | as on Linux, with a run loop and notification iterators | the same four |
| Windows serial port | `sercomm/win/comms.c`, `win/base.c` | handle, saved DCB and timeouts; the driver's requests and events | as on POSIX |
| Windows list and monitor | `sercomm/win/dev.c` | thread, window, window class, event | as on Linux |
| Error reporting | `sercomm/err.c`, `win/err.c` | one last error per thread | `sererr_set`, `sererr_last`, `werr` |
| Time | `posix/time.c` | none | `clock__diff` |
| Version, headers, examples `list` and `monitor`, build | `base.c`, `include/`, `examples/`, `CMakeLists.txt` | none | - |

How they interact. An application thread calls into the library, which calls
the kernel; there is no thread of the library's in the data path, and instances
share nothing but the port behind them. A call may block in `select()`. The
monitor is the one component with a thread of its own: it starts under a mutex
and a condition with a timeout, calls the application back on that thread, and
is asked to end by closing a pipe. Every component leaves the description of a
failure in a variable of the thread that failed.

What is hard, and what makes each component correct:

- Data path: what is true when `select()` returns need not be true at the next
  call (another thread, the peer, the cable); writes may be short; an empty
  queue and a lost device look alike; a wait must end on a timeout, or never
  without one, and always when the device goes. Correct means: bytes in order,
  once; a code that says what happened; no wait without an end.
- Port life cycle: every call of `ser_open` may fail, the settings belong to
  the device and not to the instance. Correct means: descriptors owned by
  exactly one session, options as asked for, settings restored.
- Windows port: a call that times out leaves its overlapped request with the
  driver; an event tells of a byte once. Correct means: no request outlives a
  call without a timeout, no wait misses a byte, settings restored when
  `ser_open` fails half way. Some calls that restore may fail as well, and the
  code does not look.
- Device list: the snapshot is old while the list is built, and any allocation
  may fail. Correct means: every device that was there all along is in the list,
  once; the list ends; nothing is freed twice or kept.
- Monitor: start with timeout, use after release, failure at every call, a stop
  that races with events. Correct means: the contract of `dev.h` (module
  `DevMonitor`), no leak, no deadlock, no event missed or repeated.

`PROJECT.json` lists the components, the hazards with the line where each
bites, and the lines each definition models.

## The modules

**SerErrors** has the return codes, `ErrorSet`, the translation of errno values
by `error_set`, and `Werr`, that of Windows error codes by `werr`. What they do
not name is `SER_EFAIL`.

**PosixTime** is the arithmetic of timeouts: `ClockDiff` (`clock__diff`), the
milliseconds `port_wait_ready` makes of it (`TimeSpent`) and the `timeval` it
gives to `select()` (`TimeVal`). It has no state; `PosixSerialProofs` has the
theorems about it.

**PosixSerial** is the data path. Threads are readers, writers and controllers
(of `ser_flush`). A call that is one system call is one action (`SerRead`,
`SerAvailable`, `SerFlush`); a call that waits is entered (`SerReadWait`,
`SerWrite`), answered by `select()` in `SelectReady`, `SelectExpires` or
`SelectFails`, or cut short by a clock that fails (`ClockFails`), and, for a
writer, followed by `WriteSyscall`, which goes back to the wait as the loop
does. `call[t]` holds the C locals (`sent_`, `sz`, `timeout`, the time
`select()` has waited), `ret[t]` what the call returned. `sent_` keeps the width
of `size_t` (`SizeMod` is 2^width), since the code adds -1 to it. The `timeval`
has its overflow: the seconds are those of the timeout, while the rest
(`Remainders`) is exact up to `MaxExact` milliseconds, from where on `*timeout *
1000` does not fit an int (`comms.c:521`), and anything from then on; a negative
rest is refused by `select()`. A second has `Second` milliseconds. Three
outcomes of the system calls deserve a word: a `write()` of a non-blocking tty
takes any part of the buffer for which there is room; a port that is hung up is
ready for reading and writing, gives end of file and refuses writes; and
`select()` may come back later than its timeout (`Tick`). Bytes are the numbers
1, 2, 3, ... the peer sends them under. The kernel, the peer and the cable are
external: they are modelled from how the code uses them.

**WriteContract** is what `comms.h` promises of `ser_write`, and nothing of how
it is done: pieces of the buffer are taken, and a return of 0 means all of it
was. `PosixSerial!WritesToContract` says that the code implements it.

**PosixWatcher** composes the data path with the library's own reading client,
the loop of `run()` in `watcher.c`: read a byte; when there is none, wait; end
when the wait times out.

**PosixPort** is the life of several instances on one port: `ser_create`,
`ser_open` with one action per system call of `port_configure`, `ser_close`,
`ser_destroy`. Options are records; the terminal settings keep the flags the
options decide. `SlowRates` and `FastRates` are the cases of the switch that
exist on Linux; other rates go through `TIOCSSERIAL`. Unplugging hangs up every
descriptor (`fd` becomes "dead"); the next device has the settings the driver
gives it. Every system call may fail on a device that is there, too. `left` is
history: what will not be put back before the device goes, the terminal after a
`port_restore` whose `tcsetattr()` failed, the driver after a custom rate.

**DevMonitor** is the promise of `dev.h`: callbacks only between
`ser_dev_monitor_init` and the return of `ser_dev_monitor_stop`, one at a time.
`ManyLate` says whether more than one may begin after the stop did: on Linux the
loop looks for the request before every event, on macOS and Windows what is
already there is delivered first.

**LinuxMonitor** is the implementation: an action per label and per call that
the other thread can observe, `app` and `td` being the places of the two
threads. `live` is what has been acquired and not yet released. `faults`, chosen
in the initial state and never changed, says what may go wrong in a behaviour:
calls that fail, a thread that is slower than the timeout, a spurious wake up, a
signal, a socket that cannot be enabled or read. So one run covers behaviours
with and without each fault, and a property can say under which it holds.
`known`, `lost` and `late` are history: what the callbacks told, whether an
event did not reach the thread since it began to watch (no room, not readable,
never enabled), how many callbacks began after the stop. After a spurious wake
up the mutex and the condition are destroyed before the thread uses them, which
is undefined; the model lets them work on, as glibc does, and `UsesOnlyLive`
excepts the case by name.

**MacMonitor** is the second implementation of DevMonitor. The run loop sleeps
(`TdWake`) until it is stopped or one of the two notification ports has
something; `DevAdded` and `DevRemoved` are the two callbacks of IOKit, each of
which empties its iterator through `dev_notify` (`TdNext`). `stopped` is a
request that `CFRunLoopStop` made of a loop that runs; made of one that does not
yet run, it is lost. `armed` and the two iterators begin to fill where
`ser_dev_monitor` empties them the first time. `told` counts for each device
what the callbacks said of it, 1 for an addition and -1 for a removal, and
`unseen` the removals in the time when one notification was armed and the other
was not. The two undefined cases of a spurious wake up are as in LinuxMonitor:
the thread goes on with its mutex, and a stop of a run loop that is not known
yet has no effect.

**WinMonitor** is the third. The start event remembers that it was set, so that
nothing is lost there and no wake up is spurious; a thread that is late is
terminated in any of its places. `Terminate` does not wait for that: the thread is
`doomed` and may take more steps, with what the clean up releases at the same
time, until `TdEnds`, its window with it. Messages of
`WM_DEVICECHANGE` are delivered in the order they were sent (`TdDeliver`), those
of other kinds (`Noise`) without a callback; `WM_QUIT` may be retrieved before or
after them.

**WinSerial** is a session on Windows: an application thread opens the port, with
one action per system call of `port_configure`, reads, waits and closes it, while
a second thread writes and flushes. A transfer is a request to the driver
(`reading`, `waiting`, `writing`) that ends with its result, with the device, or
without it, when the wait of the call times out or fails (`GivesUp`): then the
request is left behind (`strays`,
`waitreq = "stray"`) and may still take bytes (`StrayEnds`) or the event of one
(`Arrive`). `rxchar` is the event the driver holds until somebody waits for it.
`PutBack` is a call that restores one of the two settings, whose failure nobody
looks at. `drained`, `abandoned`, `failed` (the `malloc` of this session, a wait of
it) and `left` (the settings that were not put back since the device was plugged
in) are history.

**DevList** is `ser_dev_list_get` and `ser_dev_list_destroy` on all three
platforms, which differ in the calls around one loop: what may fail before it,
which entries are skipped (`Skipped`, `Taken`), what is read of a device that is
gone (`Properties`). On macOS it climbs from the device through the registry:
`Climb` is the number of entries it gets to, `Usb` says for which devices the last
of them is of USB, `Leaves` how many stay retained, and `owed` the devices above
which one does. The list is a heap of nodes with addresses; `lst`, `prev`
and `curr` are the C locals. `Links` says that the nodes, in some order, are the
list.

**PosixSerialProofs**, **PosixWatcherProofs**, **PosixPortProofs**,
**LinuxMonitorProofs**, **MacMonitorProofs**, **WinMonitorProofs**,
**WinSerialProofs** and **DevListProofs** have the theorems about the modules
they are named for.

**MCPosixSerial**, **MCPosixWatcher**, **MCPosixPort**, **MCLinuxMonitor**,
**MCMacMonitor**, **MCWinMonitor**, **MCWinSerial** and **MCDevList** give values to
the constants for TLC and define nothing else. Operators called
`Name_Variant` are mutants: plausible mistakes in the code that the definition
`Name` translates, each of which some property must notice. They take no part in
the specifications.

## The runs

| Run | Question | Properties |
|---|---|---|
| `posix_reader` | Is what `ser_read_wait` and `ser_read` report true, and does an unplugged device end every wait? | `TypeOK`, `ReadyMeansReadable`, `NoFalseTimeout`, `DisconnectIsReal`, `UnplugEndsWaits` |
| `posix_writer` | Does `ser_write` hand over the buffer in order, return, and keep the contract? | `OnlyCallerBytes`, `WriteReturns`, `WritesToContract` |
| `posix_writer_unplugged` | Does a return of 0 mean that all was sent when the device goes? No: see below. | `ZeroMeansAllSent` |
| `posix_watcher` | Can a client lose a byte between its read and its wait, or end too early or never? | `StreamIntact`, `FailureIsReal`, `GivesUpWhenDrained`, `WatcherEnds`, `EveryByteIsPrinted` |
| `linux_monitor` | Does the Linux monitor keep the promise of `dev.h`, without leak, deadlock or missed event, whatever fails? | `TypeOK`, `UsesOnlyLive`, `NoLeak`, `RunningIsInitialized`, `NothingMissed`, `NullHasReason`, `MonitorsDevices`, `InitReturns`, `StopReturns`, `ChangeIsReported` |
| `linux_monitor_slow` | Does `ser_dev_monitor_init` return when the thread is slow? No. | `InitAlwaysReturns` |
| `posix_port` | Are descriptors, options and the settings of terminal and driver right in every life of two instances? | `TypeOK`, `DescriptorIsOwned`, `ClosedMeansRestored`, `OpenHasOptions` |
| `posix_port_timeout` | Is the write timeout the one asked for? No. | `WriteTimeoutIsOption` |
| `mac_monitor` | Does the macOS monitor keep the promise of `dev.h`, tell of every change once, and does a stop that finds the run loop return? | `NothingMissed`, `MonitorsDevices`, `StopReturns` |
| `win_monitor` | Does the Windows monitor keep that promise, use only what it holds and release it? All but a notification, when its thread is terminated. | `HeldWhileUsed`, `MonitorsDevices`, `StopReturns` |
| `win_serial` | On Windows, does 0 mean open, is each setting restored that a call can restore, does a byte wake its reader, and what outlives a call? | `TypeOK`, `ZeroMeansOpen`, `ClosedMeansRestored`, `WakesForBytes`, `NothingOutlivesItsCall` |
| `dev_list` | Is a list complete, well formed and released, on each platform, whatever fails and goes meanwhile? | `ListIsComplete`, `NothingHeld` |

Some properties hold but for a case they name, where the code does something
else; the case is in the model, and each of them is a hazard in `PROJECT.json`:

| Property | Excepts |
|---|---|
| `PosixSerial!NoFalseTimeout` | a timeout above `MaxExact`, 2147483 ms: it may be early, by less than a second (`comms.c:521`) |
| `PosixSerial!DisconnectIsReal` | a `ser_read` of 0 bytes, which is told `SER_EDISCONN` with the device there (`comms.c:683`) |
| `PosixPort!ClosedMeansRestored` | the driver after a custom rate (`comms.c:366`), the terminal after a `tcsetattr()` of `port_restore` that failed (`comms.c:473`), each until the device is unplugged; sessions that overlap |
| `PosixPort!OpenHasOptions` | the driver's divisor that a session before left, which takes the place of a rate of 38400 |
| `LinuxMonitor!UsesOnlyLive`, `RunningIsInitialized` | a spurious wake up |
| `LinuxMonitor!NoLeak` | the pipe of a `pthread_create` that failed |
| `LinuxMonitor!NothingMissed`, `ChangeIsReported` | `lost`: an event the socket had no room for or libudev could not read (`dev_linux.c:239`), a udev monitor that could not be enabled (`dev_linux.c:189`); for the second, a signal |
| `MacMonitor!NothingMissed` | a removal while the monitor is set up, when additions are armed and removals are not (`dev_macos.c:262-300`) |
| `MacMonitor!StopReturns` | a stop before `CFRunLoopRun`, which is lost |
| `WinMonitor!HeldWhileUsed` | a thread that was terminated and has not ended (`win/dev.c:516`), and the notification handle it leaves when it has |
| `WinMonitor!MonitorsDevices` | the callbacks of such a thread |
| `WinSerial!ZeroMeansOpen` | a session whose `malloc` failed: `ser_open` returned 0 (`win/comms.c:250`) |
| `WinSerial!ClosedMeansRestored` | a setting whose restoring call failed (`win/comms.c:234`, 304, 305), and both after a `SetCommMask` that failed (`win/comms.c:286`), until the device is unplugged |
| `WinSerial!WakesForBytes` | `abandoned`: a wait of the session ended before without its event, and its request takes the event of the next byte |
| `WinSerial!NothingOutlivesItsCall` | calls with a timeout, and sessions where a `WaitForSingleObject` failed |
| `DevList!NothingHeld` | on macOS the `io_dev` for which `calloc` failed, and registry entries above a device whose parent is not of USB (`dev_macos.c:120`) |

**Bounds.** The reader's run has an input queue of 2 and up to 4 bytes from the
peer, so the queue overflows, is read in parts and runs empty, and reads of 0, 1
and 2 bytes. A second has 2 ms and an int holds timeouts up to 3 ms in
microseconds, so that of the timeouts 3, 5, 0 and -1 ms one is exact and has
seconds and a rest, one overflows, and two are none; 6 ms are counted, so a wait
may expire, overrun, or be without end. The writer has 2, 5 and 0 ms. The
watcher waits 2 ms or for ever. The writer writes 0, 1 or 3 bytes to an output
queue of 2, so that writes are short and wait for room; `SizeMod` is 8, just
large enough for -1 not to be a size. The watcher's queue takes all the bytes,
since what it promises is about the library and not about overflow. The monitor
has two devices and a socket for two events, so that events queue up in every
order and overflow; no bound limits how often monitors are started and stopped.
The port has two instances and four kinds of options: a standard rate, one with
another format, a custom rate, and a custom rate with an option that is refused
afterwards. The macOS monitor's iterators hold two notifications each, so that
both can hold the same device and each more than one; the Windows monitor's
window has two messages waiting, so that a stop finds some; and the application
starts the next monitor only when a doomed thread has ended, so that there is
one monitoring thread at a time. WinSerial reads one or two bytes of a queue of
three, so that a read may leave some behind, and may have two stray requests of
a kind; timeouts are 0 or 5 ms, which only say whether there is one. DevList has
two devices, one directly below a USB entry and one two entries below the root
of the registry and not of USB, an entry that is none, and an address for each.
Symmetry is used in `posix_port` only, which checks no liveness.

**Fairness.** `StallSpec` lets every thread in `select()` or before `write()`
go on, and time pass: the kernel does that. Nothing is asked of the callers, the
peer, the cable or signals. `FlowSpec` adds that the output queue drains, for
`WriteReturns`: a peer may stall a writer without a timeout for ever. The watcher
is a program, so its own steps are fair too. In LinuxMonitor both threads run and
callbacks return; starting a monitor, stopping it and plugging devices are not
fair. The same holds of MacMonitor and WinMonitor, where in addition `StopReturns`
asks that devices come to rest (`DevicesSettle`): the run loop and the message
loop serve what is there before they look at the request to stop, and the code
has no bound on that. WinSerial and DevList state no liveness and need no
fairness.

**Deadlock** is checked, except for `PosixReader.cfg`, `PosixWatcher.cfg` and
`MacMonitor.cfg`, where the system may really stop: a reader without a timeout
waits on a peer that has sent all of its `MaxRx` bytes, a watcher ends, and a
start of the macOS monitor that times out joins a thread that waits for the
mutex the start holds (`dev_macos.c:446`), while the iterators are full.

## What the runs found

- `ser_write` returns 0 although the device went in the middle of the buffer
  (`comms.c:725`): the code of `error_set(EIO)` is not assigned to `r`. The
  count it stores is short by one as well, since -1 was added to it
  (`comms.c:720`). `WritesToContract` and `ZeroMeansAllSent` together say where
  the contract holds: as long as the device stays and no signal interrupts.
- `ser_dev_monitor_init` hangs when the monitoring thread needs longer than the
  timeout (`dev_linux.c:435`): it joins the thread while it holds the mutex the
  thread must lock before it can end.
- The write timeout is the read timeout (`comms.c:450`); on Windows as well, but
  for a write timeout of 0 (`win/comms.c:225`).

Reading the code for the models showed more, which is modelled as it is and for
which there is no run of its own: the cases in the table above, some against the
words of a header or a comment (a `ser_read` of 0 bytes against `types.h:75`,
settings that stay changed against `comms.c:466` and `win/comms.c:303`); the
start of the macOS monitor, which hangs as the one on Linux does; and that on
Windows the printer ports are in the list, since `strcmp` compares all of "LPT1"
with "LPT" (`win/dev.c:358`, "only COM ports, skip LPT").

## What is proved

Every invariant, action property and refinement that a run finds to hold is a
theorem. Each module with proofs follows the same argument: an invariant
that is inductive, one lemma that the initial states have it, one that every step
keeps it, with a step of the proof per action, and the theorems from it. TLC has
checked the inductive invariants on the instances of the runs as well.

### The Linux monitor

`LinuxMonitorProofs` proves, for every set of devices, every choice of faults
and every size of the socket:

| Theorem | Statement |
|---|---|
| `TypeCorrect` | `Spec => []TypeOK` |
| `NoUseAfterRelease` | `Spec => []UsesOnlyLive` |
| `NothingLeaks` | `Spec => []NoLeak` |
| `ReturnedIsInitialized` | `Spec => []RunningIsInitialized` |
| `NoneIsMissed` | `Spec => []NothingMissed` |
| `FailureHasReason` | `Spec => NullHasReason` |
| `Implements` | `Spec => MonitorsDevices`: LinuxMonitor implements DevMonitor |

The assumptions are `QCapAssumption` (the socket holds at least one event) and
`NoiseAssumption` (the other events are neither "add" nor "remove").

None of the properties is inductive. `UsesOnlyLive`, for one, says that a running
thread has its memory, and fails to follow from itself because the application
frees memory at places where only the history of its wait tells that the thread
is gone. The inductive invariant `IInv` therefore ties the places of the two
threads together: `Threads` (for which places of the application there is a
thread, and what the wait's result is there), `Mutex` (who holds `init_m` where),
`Memory` and `Pipe` (what is acquired where), `Startup` (until the thread has
signalled, the application has not passed its wait) and `LastCallback` (a
callback that begins after the stop is the last). `StepPreserves` has a step per
action, `Invariance` concludes, and every theorem follows from it. `Reason` adds
to `IInv` that only the monitoring thread's own trouble makes the wait time out.
The refinement is proved the usual way: `InitRefines`, and `StepRefines`, in which
the actions of ser_dev_monitor_init are steps of the promise or stutter.

`NothingMissed` is an invariant of the socket: as long as no event was lost,
each queued event is a change from what the callbacks told and the events before
it, and the last one about a device tells whether it is there (`Present`). A
thread that watches and has lost none has a socket that receives (`Receives`,
`KeepsReceiving`). The invariant speaks of the events by their places in the
queue, and so needs no induction over it: `ReceiveMissesNothing` takes the first
event off, `EmitMissesNothing` puts one at the end, and the three lemmas before
them say what that does to the last event about a device.

### The macOS and the Windows monitor

`MacMonitorProofs` and `WinMonitorProofs` prove, for every set of devices, every
choice of faults and any bound on what may wait:

| Module | Theorem | Statement |
|---|---|---|
| MacMonitorProofs | `TypeCorrect` | `Spec => []TypeOK` |
| MacMonitorProofs | `NoneIsMissed` | `Spec => []NothingMissed` |
| MacMonitorProofs | `Implements` | `Spec => MonitorsDevices` |
| WinMonitorProofs | `TypeCorrect` | `Spec => []TypeOK` |
| WinMonitorProofs | `HeldAndReleased` | `Spec => []HeldWhileUsed` |
| WinMonitorProofs | `Implements` | `Spec => MonitorsDevices` |

The bounds are at least one (`IterCapAssumption`, `MsgCapAssumption`), and the
other messages of `WM_DEVICECHANGE` are neither arrivals nor removals
(`NoiseAssumption`). As on Linux, the invariants tie the places of the two
threads together (`Threads`), with who holds the mutex on macOS (`Mutex`), and
on Windows with what the start event remembers (`Startup`) and what is acquired
where (`Memory`). On macOS `Iterators` says where the two iterators may fill:
not before they are asked for. `Accounts` is `NothingMissed`, and the same from
the arming of the first notification on; `TimesLast` and `TimesFirst` say what a
notification put at the end of an iterator, or taken off its head, does to how
often a device is in it, so that no induction over the iterator is needed. In
the refinements the interesting steps are those that end a callback from
outside: `Terminate` on Windows, from which on the callback is left out, and on
macOS the callbacks that are delivered after the stop has begun (`ManyLate`). On
Windows `Threads` also says where a doomed thread may be, and that without
"slow" and "wait" there is none.

### What of liveness is safety

Liveness under fairness is checked by TLC and not proved, but what it rests on is.
Each of the three modules about a monitor has two more theorems:

- `NobodyWaitsInVain` (`Spec => []SomebodyGoesOn`): during a call of
  `ser_dev_monitor_init` or `ser_dev_monitor_stop` the guard of a step of the
  application or of the monitoring thread is true. So the two never wait for each
  other, over a mutex, a condition, an event, a pipe or the end of a thread. It
  names the cases where they do: on Linux and macOS a thread that is slower than
  the timeout, and on macOS a stop that is lost (`StopIsLost`). On Windows there
  is none.
- `EveryStepIsProgress` (`Spec => CallsComeCloser`): a step of the application
  leaves fewer steps to its call (`AppLeft`). A step of the thread leaves fewer to
  the thread (`TdLeft`): on Linux as long as the application waits for it, whatever
  events arrive, since the loop looks at the pipe first; on macOS and Windows as
  long as no more devices come or go, which is the `DevicesSettle` of
  `StopReturns`.

`AppCanGo` and `TdCanGo` write down the guards, as the prover has no ENABLED; that
a step is taken only where they hold is part of `EveryStepIsProgress`, and that
one can be taken wherever they hold TLC has confirmed on the instances of the runs
(they equal `ENABLED (InitStep \/ StopJoin)`, and so on). `Handshake` is what has
to be known beyond `IInv`: until which place of the thread the application waits,
and what a timeout says about the thread.

### The data path

`PosixSerialProofs` proves, for any sizes, timeouts, queues and faults:

| Theorem | Statement | Threads |
|---|---|---|
| `TypeCorrect` | `Spec => []TypeOK` | any |
| `TimeoutsAreTrue` | `Spec => []NoFalseTimeout` | any |
| `DisconnectionsAreReal` | `Spec => []DisconnectIsReal` | any |
| `ReadyIsReadable` | `Spec => []ReadyMeansReadable` | one reader, nobody flushes, any writers |
| `OneWriterSendsItsBytes` | `Spec => []OnlyCallerBytes` | one writer, any others |
| `OneWriterKeepsContract` | `Spec => WritesToContract` | one writer, any others |

The conditions on the threads are hypotheses of the theorems (`SoleReader`,
`SoleWriter`) and not assumptions of the module. They are needed: the library
has no lock, so that a second reader or a flush can take the byte `select()`
announced, and a second writer can take the room, after which the `-1` of a
refused `write()` is added to the first one's index. `NumbersAssumption` says
that the sizes are naturals that leave `size_t` room for one more, and that the
queues can hold something; `ThreadsAssumption`, that a thread has one role.

`NoFalseTimeout` rests on `ExpiredIsLong`: whatever remainder the conversion of
the timeout yields, a `select()` that comes back with it has waited for the seconds
of the timeout, and for all of it where the remainder is exact. `Patient` carries
that from the step to the return.

`OnlyCallerBytes` does not follow from itself, since it does not say that the
write index `sent_` is what the kernel has taken. `WriterInv` does (`Sending`),
and to keep it needs to know that a writer that `select()` let through cannot be
refused for want of room (`Room`): only the writer fills the output queue, while
the line and `ser_flush` empty it. `WantsTheRest` shows that the `size_t`
arithmetic then never wraps. For the contract, `Plugged` says that without
faults the port stays; each step of the writer is then a `Begin`, `Take` or
`Finish` of WriteContract or changes nothing it sees (`BeginImplements`,
`TakeImplements`, `FinishImplements`, `UnseenStutters`).

### The watcher

`PosixWatcherProofs` proves, for any number of bytes, of watchers and any timeout:

| Theorem | Statement | Condition |
|---|---|---|
| `StreamIsIntact` | `WSpec => []StreamIntact` | the input queue can hold every byte that is sent (`QueueIsLarge`) |
| `NothingIsLeft` | `WSpec => GivesUpWhenDrained` | the same |
| `FailuresAreReal` | `WSpec => []FailureIsReal` | no wait can fail: no signals, no failing clock, no timeout above `MaxExact` (`NoFailedWait`) |

The conditions are hypotheses, and needed: a queue that overflows loses bytes in
the kernel, and a signal, a clock that fails or a `timeval` with a negative rest
ends `ser_read_wait` with `SER_EFAIL`.
`WatcherAssumption` says that a watcher may ask for one byte, as it does. The
proofs build on those about PosixSerial: a watcher's step is one of the port
(`WatcherStepsPort`), so that the reader's invariant (`ReaderInv`) holds, and
with it that a timeout is true when it is reported; `WInv` adds the stream, and
`ReadsOneByte` that `ser_read` takes the head of the queue or says why not.
`FailInv` adds that, where none can fail, the wait of a watcher answers 0 or
`SER_ETIMEDOUT` (`Answered`), so that only `ser_read` can tell it to fail.

### The port

`PosixPortProofs` proves, for any instances and any options that
`OptionsAssumption` describes:

| Theorem | Statement |
|---|---|
| `TypeCorrect` | `Spec => []TypeOK` |
| `DescriptorsAreOwned` | `Spec => []DescriptorIsOwned` |
| `SettingsAreRestored` | `Spec => []ClosedMeansRestored` |
| `SessionsHaveOptions` | `Spec => []OpenHasOptions` |

`IInv` adds to the types and to `DescriptorIsOwned` who can have the port
(`Present`, `Exclusive`: as long as it was not shared, one instance at most has
a descriptor that works), what was saved (`Saved`: `tios_old` is the settings to
go back to, unless a session before could not restore them), that the driver is
changed only by a session that counts for it (`DriverLeft`), which options got
past the refusals (`Accepted`, `CustomRate`) and what the settings are for each
place of `ser_open` and `ser_close` (`Applied`).

### Time

`PosixSerialProofs` also proves, for every two times and every timeout, that
`clock__diff` is exact and normalised (`DiffIsExact`), that what is left in
`*timeout` is the time that has elapsed, rounded down to a millisecond
(`SpentIsElapsed`), that it is 0 after a wait shorter than that, which the next
wait of the same `ser_write` takes for no timeout (`ShortWaitForgetsTimeout`),
and that `select()` is given the timeout exactly below 2147484 ms, from where on
the product overflows an int (`TimeValIsExact`).

### The Windows port

`WinSerialProofs` proves, for any options, faults, sizes of reads and bounds:

| Theorem | Statement |
|---|---|
| `TypeCorrect` | `Spec => []TypeOK` |
| `OpenedMeansConfigured` | `Spec => []ZeroMeansOpen` |
| `SettingsAreRestored` | `Spec => []ClosedMeansRestored` |
| `ReaderIsWoken` | `Spec => []WakesForBytes`, when no read has the size 0 |
| `RequestsEndWithTheirCall` | `Spec => []NothingOutlivesItsCall` |

None of the properties but the last follows from itself. `IInv` adds where there
is a handle (`Handles`), which requests the driver may have at each place
(`Requests`: a pending WaitCommEvent has seen no event, a stray one comes from a
timeout), what a session has set (`Configured`), saved and not yet set or already
put back (`Saved`, `Restorable`, for each of the two settings on its own, as long
as it is not in `left`), and that
a byte that arrived since the last empty read is in an event the driver remembers
or in the request that waits (`Remembered`). The last needs `0 \notin Sizes`: a
`ser_read` of no bytes returns `SER_EEMPTY` whatever the queue holds.

### The device list

`DevListProofs` proves, for every finite set of devices and of other entries, any
addresses, any choice of faults and on each of the three platforms:

| Theorem | Statement |
|---|---|
| `TypeCorrect` | `Spec => []TypeOK` |
| `ListsAreComplete` | `Spec => []ListIsComplete` |
| `NothingIsHeld` | `Spec => []NothingHeld` |

`DevicesAssumption` says that the devices and the other entries are finitely many
and not the same, and `PlatformsAssumption` and `NodesAssumption` what platforms
and addresses there are; `ClimbAssumption`, that what is of USB is a device with an
entry above it. Both properties are about one place of the call, where
it has returned or is to free a node; `IInv` says for every place from which
pointer the list begins (`Root`: `prev` while a node is being filled in, `curr`
while nodes are freed) and which nodes it must reach from there (`Linked`). That
every node allocated is reached, in an order that has each once (`AllReached`),
makes the frees safe and complete. The lemmas about it, `OneMoreReached` for a
node in front and `OneLessReached` for the one that is freed, give the new order
explicitly, so that they need no induction over the list. `Named` says that no
device is in two nodes, or in one and still to be looked at; `Kept` that a device
that stays is in one or the other. `Objects` says what is held in each place, and
that an entry is only retained on macOS and above a device that is not directly
below a USB entry.

### Only model-checked

The liveness properties, since the prover has no rules for fairness (for the
monitors, see above for what of them is proved):
`UnplugEndsWaits`, `WriteReturns`, `WatcherEnds`, `EveryByteIsPrinted`,
`InitReturns`, `ChangeIsReported` and the three `StopReturns`; and the absence of
deadlock, which is about ENABLED.

## The plan

In this order:

1. Done: SerErrors, PosixSerial with WriteContract, PosixWatcher, LinuxMonitor
   with DevMonitor, PosixPort, and the proofs about LinuxMonitor, PosixSerial and
   PosixPort.
2. Done: WinSerial, WinMonitor, MacMonitor, DevList, PosixTime, and the proofs
   about WinSerial and PosixTime.
3. Done: the proofs that MacMonitor and WinMonitor implement DevMonitor, and of
   what else the runs check of them; those about PosixWatcher and DevList; and
   that the Linux monitor misses nothing.
4. Done: what of the liveness of the three monitors is safety.
5. The same for the data path: a writer that is not at the end has room to wait
   for, and every `write()` leaves it less to send; an unplugged port lets nobody
   wait; a watcher's timeout comes closer with every byte it prints.

## What is not modelled

The text of error messages and its truncation; the parsing of vendor and product
IDs and the truncation of a device path (an event and an entry of a list have
their device, a model value); rates that Linux has no constant for, and the
branches for macOS in `port_configure`; the receive errors of a line (parity,
framing, break); on Windows `ser_available`, which asks the driver and changes
nothing, the fields of a DCB, and the values of bytes; on macOS the
iterators of the monitor, which are never released, its dictionary after a failed
port, and the registry entries its callbacks leave retained (they are in the model
of the list, which reads a device with the same function), and in which order an
addition and a removal of one device are told, which no property speaks of; on
Windows the undefined accesses of a doomed thread to what has been released; a
callback that stops its own monitor, since `dev.h` does not say who may; the
version; the printing and the arguments of the examples; the build.
