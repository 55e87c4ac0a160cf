# Verification of nettool

TLA+ models of *nettool* (a library of rtnetlink operations, a command-line
program over it, and a program of experiments), checked with TLC. The safety
properties that hold, the two refinements of abstract specifications among them,
are also proved with TLAPS. The source is the reference: every definition follows the lines that
`PROJECT.json` names for it under `map`.

## The system

| part | source | state it keeps | operations |
|---|---|---|---|
| client operations | `libnettool/src/ip_add.c`, `ip_del.c`, `ip_show.c`, `gateway_*.c`, `ip_link.c`, `util.c` | nothing between calls, except the descriptors they leave open; during a call a socket, an uninitialised buffer, an interface index | add and delete an address or a gateway, show both, link up, link down, link info |
| link notification | `libnettool/src/ip_link.c` 19-136 | `g_ModuleInit`, `g_ThreadID` | `nettool_link_notify` |
| list | `libnettool/src/listq.c`, exercised by `test_cpp/src/queue.c` | a TAILQ of calloc'd items and a counter | create, add at the tail, walk, remove, clean, destroy |
| event loop | `nettool/src/main_nettool.c` | one bound socket, the flags of the last `RTM_NEWLINK` | select, read a datagram, print it |
| link commands | `nettool/src/ip_link.c`, `print_info.c` | none | `lu`, `ld`, `li` |
| tables and formatting | `libnettool/src/errno.c`, `debug_src.c`, the family table of `main_nettool.c` | constant | lookup |
| interface watcher | `libnettool/src/ifacewatch.c` | copied from another project, called by nothing | - |
| timespec arithmetic | `test_cpp/src/ts_util.c` | none | add, subtract, compare |
| timers and signals | `Timer.c`, `Test_waitSignal.c`, `Sleep.c` | a POSIX timer, a stop flag, a queued signal | start, wait, stop |
| condition variable | `Test_condition_variable.c` | mutex, condition | wait with a timeout, signal |
| counters | `CCountDown.cpp`, `CCounter.cpp` | a start time and a duration, a count | start, time left, expired |
| fifo and gpio waits | `WaitFifo.cpp`, `WaitGpio.c`, `GpioSelect.c` | a descriptor | wait for a value |
| network helpers | `Network.c`, `NetLib.c` | none | expand IPv6 text, parse a dump |
| experiment selection | `main.cpp`, `test.h`, `test.cpp` | none | a switch over `argv[1]` |
| timespec class test | `tu_UTIL_Timespec.cpp` | prints what a class outside the repository computes | - |
| ipcalc | `test_cpp/src/ipcalc` | vendored | - |

How they interact: a command of `nettool` opens the program's own socket first,
whatever the command, and then either runs the event loop on it or calls one
library operation, which opens a second socket. All the state that matters is
shared with the kernel: the receive queue of every socket, the table of open
descriptors, the interfaces and what is configured on them. The list was written
for the notifications and is not yet used by them; the notification thread is
made and sleeps. The experiments of `test_cpp` share a program and nothing else:
its first argument selects one, which runs alone in its process until it ends.

Where it is hard:

* every system call of an operation can fail and none is checked, so that a call
  goes on with a descriptor of -1 and a buffer that nobody filled;
* descriptors are numbers: threads close and open them while others use theirs;
* dumps come in several datagrams that are built while the reader reads, and the
  interfaces change meanwhile;
* notifications are dropped when the receive buffer is full;
* a flag is tested, acted on and set in three steps;
* items are removed twice, once through freed memory, and the search before the
  removal does not walk the list;
* in the experiments, signals come before the thread that waits for them is
  ready, to a thread that did not block them, or more often than they are taken;
  dates are read at one moment and used at another; several processes meet at one
  path.

`PROJECT.json` lists each of these under `hazards` at the line where it bites,
with the properties that watch it.

## Modules

| module | models | state and actions |
|---|---|---|
| `RtnlKernel` | the kernel as libnettool sees it (external) | pure operators: datagrams, the parts of a dump, the verdict on a change and its effect |
| `AtomicCalls` | what a caller may rely on, without sockets or messages | a change decides and acts in one step; a call begins, and returns a report it may give |
| `NetlinkClient` | the client operations | `pc`, `op`, `dev`, `fd`, `buf` are the locals of each caller; `open`, `queue`, `rest`, `dumping` the sockets; one action for each system call with the code up to the next |
| `MCNetlinkClient` | - | symmetry for TLC |
| `NetlinkClient_proofs` | - | theorems about `NetlinkClient` |
| `LinkNotify` | `nettool_link_notify` | test, create, set and add are separate steps of each caller |
| `OrderedList` | what `listq.h` promises | a sequence of pairs; every operation one step |
| `Listq` | `listq.c` | `next` and `prev` are the TAILQ fields, with the head as one more place; one action for each turn of FindItem's loop |
| `ChangeFeed` | what the watcher of `nettool evloop` may rely on | a set of notices that are still to be shown, whether some were dropped and whether that was said |
| `EventLoop` | `main_nettool.c` | the kernel's notifications, the bounded receive queue, and `pc` of the one thread |
| `Timespec` | `ts_util.c` | operators on dates: `ts_Add`, `ts_Subtract`, the comparisons |
| `TimerSignal` | `Timer.c` | `tmMain`, `tmWorker` the two threads; the timer, the action and the pending set of SIGRTMIN, who is in the handler |
| `WaitSignal` | `Test_waitSignal.c` | the worker between dates, the queue of pending SIG_STOPs, the keys; uses `Timespec` |
| `SleepSignal` | `Sleep.c` | the sleeper, its mask, one pending signal |
| `CondWait` | `Test_condition_variable.c` | both threads, the mutex, the absolute time of the wait; uses `Timespec` |
| `CountDown` | `CountDown_1`, `CountDown_2`, `CCounter`, `CCountDown` | one clock in ticks, what the program read of it |
| `FifoWait` | `WaitFifoChar` | each waiter with the FIFO it has open, the FIFO the path leads to, the bytes in each |
| `GpioPoll` | `GpioSelect.c` | the file offset, `vTv`, the carrier and what is shown of it |
| `AddressText` | `Net_inet_pton`, `getcolon` | the text, the fields printed, the buffer they are appended to |
| `NetLib` | `NetLib.c` | the request, the queue of answers, the walk over a dump |
| `Experiments` | `main()` of `test_cpp` | `chosen`, and the variables of the nine modules above |
| `MCExperiments` | - | values for TLC |
| `*_proofs` | - | theorems about the module they are named after |

`NetlinkClient` extends `RtnlKernel` and has the specification of `AtomicCalls` as
a property, under a mapping that forgets sockets, queues and program counters and
shows reports only once a call has returned. `Listq` instantiates `OrderedList` under a
refinement mapping and has its specification as a property, and so does `EventLoop`
`ChangeFeed`: what is to be shown is what stands in the queue and in `vBuf`. `Experiments` extends
the modules of the experiments: `Main` is the switch, one disjunct for each
argument that selects something modelled, and `Runs` takes the steps of what was
chosen while the variables of all others stay. Functions without a caller in the
repository (`CountDown_1`, `CCountDown`, `WaitFifoChar`, `GpioSelect_Select`,
`Net_1`, `Net_2`) are entered by `Caller`, a program that would call them.

### NetlinkClient

`Call` starts an operation, `Lookup` is `if_nametoindex()`, `Socket`,
`SendFails`, `SendChange` and `SendDump` are the system calls. `util_get_msg`
stands for the `recvmsg()` and the parse that follows it: either a datagram is
taken and its first header counts, or the read fails, -1 becomes the largest
`size_t`, and the first header is that of the old buffer - any header at all if
the buffer was never filled ("stack"). `RecvAck`, `RecvShow` and
`link_info_receive` are the three ways of reading, `ReturnLeaking` and `Close`
the two ways of ending. Operations are disjunctions of these steps, as they are
in the code, where each file repeats the same pattern with another request.

History variables (`verdict`, `heard`, `seen`, `leaked`) record what the kernel
decided, whether a call read an answer, which states its device had during the
call, and which descriptors were lost. No guard reads them outside mutants.

Abstractions: an interface has one flag, up or down, or is absent; an address or
route is set or not; who may change what is one refusal the kernel may always
answer (`Refusals`). A device is named by what its index stands for: one that goes and
comes back under its name is the same device, although the kernel would give it
another index. The text that the show operations print is left out.

### Listq

A handle is an address, as in C. When an item is freed, its `p_Container` keeps
any value: a compiler may drop the `memset()` before a `free()`, and free memory
may be reused, so that a second removal through the same handle sees zero, a
foreign pointer or the list itself. `calloc()` may return the same address
again; the handle then is one of the new item. That `calloc()` fails is not
modelled: `listq_create` and `listq_add_tail` would dereference null. Callers are
assumed not to use a list after `listq_destroy`, and to follow `listq_next` and
`listq_getData` only from items they have not removed, as `main_queue` does.

### EventLoop

The kernel adds a message to the last datagram or to a new one while there is
room; otherwise it drops it, marks the socket congested until it has been read
empty, and makes one `recvmsg()` fail with ENOBUFS. `LoopEvent` and the parts of
`read_event` follow. Only `RTM_NEWLINK_Check` keeps state: one variable for all
devices, as in the code, so that what it prints as changed compares the flags of two
devices when their messages alternate; the flags themselves are printed as they are.
A datagram is assumed to fit the program's buffer of 4096 bytes.

### The experiments

Time is a variable that a tick moves: seconds that are left in `TimerSignal`,
`SleepSignal` and `GpioPoll`, a date in seconds and nanoseconds in `WaitSignal`
and `CondWait`, ticks of a fraction of a second in `CountDown`. Nothing is urgent:
a thread may be delayed past any date, as a scheduler may do, and a tick may come
between any two steps. Only order and lower bounds on time are claimed.

`TimerSignal` separates what POSIX separates: a signal pends for the process or
for a thread, a thread blocks it by its own mask or by being inside the handler,
and its action belongs to the process. `Timer_handler` is two steps, for
`signal(sig, SIG_IGN)` at its end discards what pends. `WaitSignal` queues its
real-time signal up to a limit, `SleepSignal` keeps one and loses the others.

`FifoWait` names a FIFO by the waiter that made it, since it outlives its name.
`GpioPoll` has `select()` look at no descriptor at all, for that is what a first
argument of 2 and a descriptor of 2 or more mean. `AddressText` takes a text as a
sequence of groups and colons, so that `getcolon`'s counting stays and its
character copying is left out. In `NetLib` the kernel's answer is there when the
send returns, as it is for rtnetlink.

## Runs

| run | instance | shows |
|---|---|---|
| `client_safety` | 2 threads, 1 device, 2 descriptors, one operation of each kind, failing reads, refused dumps, shared last datagram | descriptors are accounted for and never confused; answers belong to the call that reads them, and a change or `link_info` that the kernel heard finds its answer (`NeverStranded`); to its callers each operation is atomic (`AtomicCalls`): it acts once, at one instant, and reports on the kernel's word what that instant decided; exhaustion needs a leak; link operations leak only descriptor 0 |
| `client_live` | 1 thread, 2 devices, all nine operations, no faults | what `link_info` hands out is real; calls that got a socket return |
| `client_unchecked` | violation | "we need to check the result" is not done |
| `client_del` | violation | deletion is not the inverse of addition |
| `client_refused` | violation | a message that "should not happen here" does |
| `link_notify` | 3 threads, 4 thread ids, failing creation | only overlapping first calls make threads; 0 means a thread unless creation failed |
| `link_singleton` | violation | two overlapping first calls make two threads |
| `listq` | 4 addresses, 2 data | the list is an ordered list to its callers, with sound links and no lost item; removals within reach return |
| `loop` | 2 devices, 1 flag, 5 changes, 2 datagrams of 2 messages | every notice shown once and in order, later ones never before a loss was said (`ChangeFeed`); no silent loss; catching up and waiting in `select()` alone |
| `loop_drain` | violation | one datagram per event |
| `experiments` | every experiment with the constants below; about 100 000 states | safety, action and liveness properties of each experiment, reached through `main()` |
| `timer_blocked` | violation | the timer's signal is not blocked where it is delivered |

The properties of `experiments`: the stop of the timer's worker is not missed and
only the handler can delay it (`StopIsNotMissed`, `OnlyHandlerDelaysStop`,
`HandledOnce`); a signal ends the process only before its thread is prepared
(`DiesOnlyUnprepared`, over three programs); the period of two seconds is kept
whatever the work takes (`PeriodKept`); `CCounter` waits more than its timeout and
`CountDown_2`, which reads whole seconds at both ends, ends early by less than a
second (`EarlyByLessThanASecond`); an expired countdown stays expired
(`ExpiryIsStable`); a FIFO in use becomes unreachable only through
another waiter (`OrphansHaveRival`) and a waiter alone sees the character it waits
for (`HeadOneEndsWait`); the fields printed of an IPv6 text of hexadecimal groups
are those it stands for (`ExpansionIsRight`); Success is printed for a request the kernel accepted
(`SuccessIsTrue`); no key cuts a sleep short (`SleepsUndisturbed`); pending keys
are answered, a carrier that stays is shown, and what is started ends, a wait on
the condition whose signal was lost included (`KeysAnswered`, `ShowsChange`,
`RunsEnd`). `RunsEnd` asks of the netlink programs that their request was sent: the
code waits for ever for the answer to one that was not.

Bounds, and why they are enough:

* two descriptors for two threads: both hold one, one is reused while the other
  thread is in a call, a leak leaves the next caller with none; nothing in the
  code depends on a number other than 0 and -1. `client_live` has four, so that
  leaks happen and calls still get sockets. Nothing counts calls: a leak shrinks
  the table, so the state space is finite by itself;
* one device suffices for the interleavings of threads; two, in `client_live`,
  make a dump of several datagrams with a change between them;
* the kernel's refusal is EPERM alone: all refusals take the same path but for
  the printed text, and EADDRNOTAVAIL, ESRCH, EEXIST and ENODEV also arise from
  the state;
* four list items: FindItem's walk differs for the first, the second and any
  later item, and a removed handle may be asked for with three left;
* two datagrams of two messages: a full datagram, a full queue, an overrun and
  the recovery from it fit in five changes. `MaxChanges` is the only counter;
* `Sleeps` = 3, `WaitSeconds` = 6: the worker's wait outlasts main's sleeps, as
  1000 s outlast 10, the timer expires at 1, 3 and 5 s, before, during and after
  the stop, and the worker's timeout still comes;
* `NsPerSec` = 2, `MaxDate` = 11, `MaxKeys` = 3, `QueueLimit` = 2: a carry, a
  borrow and dates on both sides of a second; two whole periods and work longer
  than one; one key more than pend at once;
* `SleepSeconds` = 3: a sleep with a start, a middle and an end;
* `CvTimeout` = 2, `CvSleeps` = 2, `CvLastDate` = 9: the signal comes before,
  during and after a wait, and a whole wait fits behind a lost one;
* `TicksPerSec` = 3, `SecPerMin` = 2, `CdLimit` = 2, timeouts -1, 0 and 2,
  minutes -1, 0, 1 and 2, `CdLastTick` = 22: dates at, just after and just before
  a second; negative, empty and real timeouts; every countdown ends before the
  clock does, also when each sleep is a second too long;
* two waiters, texts "1", "0" and "01", `FfMaxBytes` = 3, `FfMaxWrites` = 3: one
  waiter disturbs another in each of its steps; the awaited character comes first,
  behind another or not at all, in one write or several;
* `GpSelectSeconds` = 2, `GpMaxChanges` = 2: the carrier changes and changes back
  between two reads;
* groups 0 and 20, at most eight: every place and length of `::`, with and without
  set bits;
* three addresses, `NlRoom` = 2: a dump in one datagram and in two, NLMSG_DONE
  alone or behind entries; each kind of error that `Net_2` words differently.

Deadlock is checked except in the runs of `EventLoop`, `Experiments` and
`TimerSignal`, whose programs end.

### Fairness

`NetlinkClient`: weak fairness of every caller's steps - a thread inside the
library is scheduled, nobody has to call and no device has to change. `Listq`:
the same for its one thread. `EventLoop`: weak fairness of the program's loop;
the kernel's changes are bounded and not fair, so `CaughtUp` says what happens
when changes pause. A faulty `recvmsg()` may keep `link_info` busy for ever and a
`NLMSG_DONE` that shares a datagram leaves the show operations waiting for ever;
`CallsReturn` is stated for instances without those.

`Experiments`: weak fairness of every thread of `TimerSignal`, `WaitSignal` and
`FifoWait`, of the delivery of a signal that is not blocked, of the programs of
`CountDown`, `GpioPoll` and `NetLib`, of both threads of `CondWait`, and of the
passing of time. Keys, writes, changes of the carrier, other waiters, EINTR, failing
reads, waits on a condition that return without cause and other users of the address
table are not fair. `SleepSignal` and `AddressText` need none: what is said of them
is safety.

### What the violations show

Each quotes a comment that the code does not keep (`findings`): unchecked results
with leaked descriptors (`ip_add.c:94`), the two addresses (`ip_add.c:39`), the
refused dump (`ip_link.c:244`), the module flag (`ip_link.c:35`), the
blocking socket (`main_nettool.c:411`), and the timer's signal (`Timer.c:142`),
which is blocked in the worker alone while main's thread takes it.

FindItem also never returns for an item behind the second. No comment promises
that it does, so there is no violation run: `RemovalReturns` states the exact
limit within which removal, clean and destroy return.

## Proofs

What is proved holds for every value of the constants, from the named
assumptions of the modules alone (`KernelAssumption`, `ClientAssumption`,
`LinkNotifyAssumption`, `TimespecAssumption` and their like); TLC evaluates them on
every run. `ExhaustionCorrect` alone assumes more, and says so. Most assumptions only
give the types of constants; `CondWaitAssumption` also asks for at least one sleep
(main sleeps 60 times).

`NetlinkClient_proofs` proves for every set of threads, devices, descriptors and
faults:

* `TypeCorrect`, `DescriptorsCorrect`, `AnswersCorrect`,
  `LinkChangeCorrect`, `LeaksCorrect`: the properties of `client_safety`. None is
  inductive alone. That an answer is the caller's own needs that the descriptor is
  nobody else's (`DescriptorsAccounted`) and that a number that is not open has
  nothing queued (`ClosedIsClean`); that a caller holds a descriptor only between
  `socket()` and return is `CallShape`; that the report is true needs that the
  answer was the verdict (`AnswersAreMine`) and that it stays so until the call
  returns (`VerdictStands`). `IInv` is their conjunction, with one lemma for each
  action and a step for each conjunct the action can disturb.
* `ReportCorrect`: a call that read an answer reports the kernel's decision; the
  run checks it as a part of the refinement.
* `InfoCorrect`: what `link_info` hands out was real. `InfoInv` follows the dump:
  every entry that is queued tells a state the call has seen, and until the dump
  has told of the device the kernel still has it to walk, unless it was away.
* `NeverStrandedCorrect` and `DumpAdvancesCorrect`: what is safety in `CallsReturn`.
  A call whose request the kernel took finds an answer whenever it is in
  `recvmsg()`, and each datagram after which a loop goes on leaves fewer devices to
  be told of, or the last datagram. `AnswerDue` names the two exceptions, with faults
  and shared datagrams included: `link_info` after an error, the show operations
  after an `NLMSG_DONE` behind entries. `WaitInv` says that exactly one datagram
  waits for a loop over a dump, and that it is marked as the last exactly when the
  dump is over.
* `ClientImplements`: the client implements `AtomicCalls`. The steps of a call are
  invisible except three: its beginning, the `sendmsg()` of a change, which is the
  instant it acts, and its return. The proof goes through the system calls and
  takes from `IInv` what a change may report, from `InfoInv` what `link_info` may
  return and from `OutInv` that a call prints only what belongs to its operation;
  `AsksOwn` says that each operation sends its own request.
* `ExhaustionCorrect`: a call finds no descriptor only after a leak, under
  `Spare` (a free descriptor for each caller, and `socket()` fails only for want
  of one). While a caller holds none, fewer are held than there are callers; the
  argument counts with the library's theorems on cardinality.

`LinkNotify_proofs` proves the four invariants of its run. `IInv` says that the
flag is set once any call has returned, that a call on its way to returning 0 has
made its thread or found the flag set, and that a set flag without a thread means
a failed creation. `ThreadsBounded` (at most one thread for each caller) counts:
the threads made inject into the callers that have passed the test.

`Listq_proofs` proves that the list is what its interface promises. `LInv` says
that items are distinct and that `next` and `prev` lead through the places of
`order`, the head being the place before the first and after the last; adding and
unlinking preserve it by lemmas on sequences. `FindInv` describes the search loop
between its turns. `ListImplements` is the refinement: each step of the TAILQ is a
step of `OrderedList` or a stutter, `listq_clean` and `listq_destroy` being one
abstract step although the code removes item by item. The limit of `RemovalReturns`
is proved from both sides: a search outside `WithinReach` never leaves its loop
(`AstrayForEver`), one within it needs one turn at most (`SearchEnds`) and those of
clean and destroy need none (`CleanFindsFirst`).

`EventLoop_proofs` proves the safety of the loop for any number of devices and any
buffer. `Complete` says where the last state of each device is: shown, in the
datagram that is handled, in the last notice that is queued, or lost behind an
error that is due or printed. `FeedImplements` is the refinement of `ChangeFeed`. It
needs `OrderInv`: every message carries the number of its change as history, and
those of `vBuf` and of the queue grow from each place to the next and from each
datagram to the next, so that the first message of `vBuf` is the oldest of all and
no message stands in two places. An error is said before notices are kept again
because `recvmsg()` returns the pending error before any datagram, and the buffer
stays congested until the last of them is read; a notice dropped meanwhile, after
the error was printed, is not announced again.

`Timespec_proofs`: addition, subtraction and comparison against one number of
nanoseconds, for every `NsPerSec`. `TimerSignal_proofs` relates the action of
the signal, the flag, the pending signals and the handler (`TInv`).

`AddressText_proofs` proves that `getcolon` finds each of the eight fields of every
IPv6 text of hexadecimal groups, with or without `::` (`AddressExpands`); dotted tails
and IPv4 texts are left out, as below. Between the ends of the text and
`::` groups and colons alternate, so that counting the colons before a place is
counting its groups: `ColonsOfPiece` counts them by a bijection, without induction
over the text. The lemmas place the fields before `::`, those behind it, which the
code counts from the end, and the zeros between. The bits that `NetBits` sees in the
32 digits are those of the eight fields (`SameBits`), so that the last of them is
the same. `AInv` carries this through the program.

`Experiments_proofs` proves the properties of the whole program. `StepOfOne` says
that a step of the program is, seen from each experiment, a step of it or none; so
the inductive invariants of the experiments can be joined in `EInv`, each proved
by itself: `WInv` carries the sums of dates through the loop of the periodic wait,
and the other experiments have one of their own. All safety invariants of the run
and `SleepsUndisturbed` follow; `ExpiryIsStable` needs only that dates are whole
(`OInv`) and that a division does not grow when its dividend shrinks. That every
variable keeps its type (`TypeCorrect`) needs more than the types: a FIFO holds no
more bytes than were written (`FRoom`), and the condition's program has sleeps left
as long as it sleeps.

Only model-checked is liveness (`CallsReturn`, `RemovalReturns`, `CaughtUp`,
`KeysAnswered`, `HeadOneEndsWait`, `ShowsChange`, `RunsEnd`): fairness and ENABLED
are out of the prover's reach. For `CallsReturn` and `RemovalReturns` the theorems
named above say that a step is there to take and brings the end nearer; that it is
taken is what the runs check.

## Not modelled

* `WaitGpio.c`: `WaitGpio` never reads again the value it waits for, and
  `CheckReadFile` reads into the array it walks; there is no behaviour to state.
* `ifacewatch.c`: copied from another project, called by nothing.
* `ipcalc`: vendored.
* `errno.c`, `debug_src.c`, the tables of address families and message types in
  `main_nettool.c`: constants and logging. The attribute walks of the event
  handlers and `print_info.c` only print.
* `tu_UTIL_Timespec.cpp`: prints what a class computes whose source is not in the
  repository. The string, `sscanf` and `modf` experiments of `test.cpp` only
  print; `CUtilNet_StateMachine` has no caller.
* IPv4 and dotted texts in `getcolon`: it writes behind its array there, and what
  follows is undefined.
* More than 1025 bytes in a FIFO: `WaitFifo` reads as many as FIONREAD says into an
  array of that size. `FifoAssumption` keeps below it.
* Datagrams that `recvmsg()` cuts to the event loop's 4096 bytes.
* That `calloc()` fails: the list would write through a null pointer.

## What is left

A dump that is interrupted (NLM_F_DUMP_INTR) is ignored by the code and could be
made visible in `RtnlKernel`. If the notification thread is
ever given its work, `LinkNotify`, `Listq` and `NetlinkClient` are the parts to
compose.
