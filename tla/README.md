# csservice in TLA+

The service in `src/src` runs on a Windows machine with an embedded controller
(EC).  It sends commands to the EC, watches a bezel of buttons and a slider,
and serves clients over two named pipes.  This directory holds TLA+ modules of
the parts where threads, retries, failing reads and reused sockets meet, TLC
configurations that check them on small instances, and TLAPS proofs of every
safety property of these runs for every instance.

Contents: 1 the system, 2 the modules, 3 what the runs show, 4 bounds, 5 fairness,
6 proofs, 7 where code and comments disagree, 8 what is not modelled, 9 the plan,
10 how to run.

## 1. The system

| Component | State | Operations | What makes it correct |
|---|---|---|---|
| `EcManager` (`eccommunication/ecmanager.*`) | `m_pendingCommands`, `m_asyncCallbacks`, counters, packet ids | `sendCommandSync`, `sendCommandAsync`, `onCommandDone`, destructor | one reply per command, no callback into a frame that is gone, exact bookkeeping, calls that return |
| `EmiThread` (`emithread.*`), the queue | list of commands, condition, stop flag | `addCmdToQueue`, `run`, `stop` | no command left behind a sleeping thread, a stop that ends |
| `EmiThread::ProcCmd`, the bus | two registers, a shared buffer | send, poll, reset, read, ask for results | one owner of the buffer, no stale response, an end with a dead EC |
| `BezelMonitor` (`bezel/`) | last buttons, slider and presence, first-poll flag | `start`, `onPollTimer`, `stop` | an event for each press and no other, catching up after failed reads |
| `ActionCommandQueue` (`action/`) | pending commands, results, next id | queue, take, store a result | a command in one place, in order |
| `NamedPipeServer` | clients of each pipe, pipe type of each socket | connect, read, disconnect, stop | tables that agree, limits |
| `SecureCommandHandler` | session of each socket: token, last sequence number | authenticate, process | only authenticated clients, each request once |
| `CommandProc` | EC manager, the handlers' helpers | dispatch of some forty commands, one at a time | nothing left open by a failing call, each answer that of its own request |
| `WmiAccess`, `RegistryAccess`, `OS` | one cached WMI connection; nothing; the last error | queries and methods; read, write, delete; power calls | references given back, the right namespace, reads that tell what was written, errors of this request |
| `WindowsService` | service status, `m_shuttingDown`, `m_mutex` | start, control handler, handlers of pipe signals, `cleanup` | a stop that stops, statuses that only go forward |
| EC memory mirror (`ecmemorymirror.*`) | a named shared mapping with a version, a named mutex; this version of the service never creates the writer (`windowsservice.cpp:202-207` is commented out) | create, update, close; open, read, close | whole reads, a mutex that is given back |
| `Logger` | file, size, rotated files | log, rotate | bounded files, nothing lost |
| Display, launcher, port I/O, resources | none | stubs and single calls into Windows | each call passes errors on |

**Who runs where.**  Qt's event loop runs the poll timer, the pipes and the
delivery of `CommandDone`, all on the service's main thread.  `EmiThread` is a
second thread.  A control handler of the service control manager runs on a
third.  The methods of `EcManager` may be called from any thread, and its mutexes
say that they are meant to be; in this version they are called from the main
thread, and `EcCommand` has a worker caller beside it.

**How they talk.**  Pipe server to service to secure handler to `CommandProc`:
direct calls (`Qt::DirectConnection`), so one client request is one step of the
main thread.  `EcManager` to `EmiThread`: a queue with a mutex and a condition.
Back: `FuncDone`, a `std::function` in the command called on the EMI thread, and
`CommandDone`, a queued signal.  Bezel to clients: the action queue, which clients
poll.  EMI thread to EC: registers and a buffer.

**What is hard.**  `FuncDone` is read and called without the lock under which a
caller that times out clears it.  `stop()` sets its flag without the lock of the
wait.  The EC may answer late, after the host gave up, or go on with a command in the background
while later ones succeed.  A button may move between
any two reads of a poll, and any read may fail.  A stop may be delivered while
the service starts, and two threads write the service's status.  Socket addresses are used again.
Disconnecting a client during shutdown calls a handler that changes the table
being walked.  Sequence numbers wrap.  Processes that share the mirror die with its
mutex.  A handler makes up to seven calls in a row, any of which may fail.  `PROJECT.json` lists these hazards at their
lines, with the properties that would catch each.

## 2. The modules

| Module | Models | State and actions in the code's terms |
|---|---|---|
| `EcService` | what the EC manager promises a caller: at most one execution at a time and per command, at most one reply, answers only for executed commands, nothing broken unless a call has timed out | the abstract specification of `EcCommand` |
| `EcCommand` | `EcManager` with `EmiThread`'s queue and thread | a caller's program counter is the place in `sendCommandSync` or `sendCommandAsync` between two releases of `m_mutex`; the EMI thread's is the place in `run`, with the check of `FuncDone` and its call as two steps; `completed` is the local variable the lambda refers to, per call frame |
| `EcCommandProofs` | inductive invariant and theorems about `EcCommand` | |
| `EcMemoryMirrorProofs` | inductive invariant and theorems about `EcMemoryMirror` | |
| `EmiBusProofs`, `BezelActionsProofs`, `PipeSessionsProofs`, `ServiceLifecycleProofs`, `CommandProcProofs` | the same for their modules; `CommandProcProofs` has those of the four modules `CommandProc` composes | |
| `EmiBus` | `ProcCmd`, `SendCmdOut`, `SendCmdGetResults`, `WaitBusReady` | registers `HOST_EC`, `EC_HOST`, the buffer; the EC is the environment |
| `BezelActions` | `BezelMonitor`, `ActionCommandQueue`, and `CommandProc`'s two handlers of action commands | each read of a poll is a step, so the user can act in between; the end of a poll, with all events it queues, is one step |
| `PipeSessions` | `NamedPipeServer`, `SecureCommandHandler`, the service's handlers and the part of `cleanup` about pipes | a handler is a step; the walk of `stopPipe` is one step for each client |
| `ServiceLifecycle` | `WindowsService`: `serviceMain`, `serviceCtrlHandler`, `setServiceStatus`, `cleanup`, the destructor, the mutex of the command handlers | two program counters, for `serviceMain`'s thread and the dispatcher's; `setServiceStatus` is two steps, a write of the shared `m_serviceStatus` and a report; `ptr` holds the pointers `cleanup` tests |
| `EcMemoryMirror` | `ECMemoryWriter` and `ECMemoryReader` in their processes | the shared memory is one record, its data in two parts; a program counter per process is the place between two accesses of the memory; Windows' mutex, with owner, recursion and abandonment, is external |
| `WmiAccess` | `WmiAccess`, COM and a WMI service that may restart | each call of an interface is a step that may fail; `held` counts the references, which the code does not keep |
| `RegistryAccess` | `RegistryAccess` and the three registry handlers | one key; each call into Windows is a step, so that other processes can act between two of them |
| `EcRequests` | `CommandProc`'s EC handlers and `EcManager`'s wrappers | a queue and the EC's ACPI memory; the rest of `EcCommand` and `EmiBus` in summary |
| `PowerControl` | `OS` and `handlePowerCommand` | each call that can fail is a step |
| `CommandProc` | `processCommand`, start and end | composes the four modules before it: a request at a time is handed to one of them |
| `MCPipeSessions` | the function-valued constants of the instances | |

`EcCommand` and `EmiBus` meet in one action: `EmiProcCmd` of `EcCommand` is a
whole run of `EmiBus`, and takes from it that `ProcCmd` ends (`ProcCmdEnds`)
with a result that is SUCCESS or a failure (`TypeOK`: never `IN_PROGRESS`) and
leaves an answer behind a SUCCESS (`SuccessIsOwnAnswer`).  A read of
`BezelActions` is a synchronous call of `EcCommand`, which returns
(`SyncReturns`) and may fail.  `EcRequests` has the same call with its result: commands
in the order of the queue (`EcService`), given up by their caller at any time, and,
when they fail, executed or not.  The EC answers what it has in hand before the next
command is handed over (`BufferOwned`), but the one command that it runs in the
background (`slow`, as in `EmiBus`) it may execute at any time, after later ones that
succeeded, too (`EcSlowDone` of both modules).  It may also be an attempt at a command
of which a later attempt succeeded.  A raw command may be an ACPI write (`rawWrite`).
It is assumed that the EC by itself, and its other commands, leave the cells alone.

The modules that `CommandProc` composes share no variable, as the code's helpers
share none, and requests come one at a time.  Interleaving requests of two of them
shows nothing new, so that `family` chooses one for each behaviour; `NothingLeaks` and
the type invariant speak of all of them.

Definitions named `...Fault`, placed before the definition they vary, are plausible
bugs.  No specification uses them.  Putting one in its place makes TLC find the
property violated that `PROJECT.json` names beside it ("mutants"), which shows
that the property depends on that piece of the code.

Ghost variables are marked in the modules.  They record what a property needs
and no guard reads them, but for the bounds: `outcome`, `status` (what callers
were told), `crashed`, `dangling` (undefined behaviour has happened), `presses`,
`reported`, `sliderEvents`, `blind`, `accepted`, `runs`, `execs`, `broken`, `kept`, `got`, `held`,
`hKeys`, `tokens`, `expected`, `possible`, and `behind` in `ecDone`.  (`accepted` also
lets a client of `PipeSessions` know whether a request it gave up was lost.)

External parts.  The EC in `EmiBus` follows the comment in `WaitBusReady` and what
the host expects of it: it answers a request once, raises `EC_HOST` before it
gives `HOST_EC` back, and keeps one command in the background.  It may be as slow
as it likes, or dead.  The user in `BezelActions` may do anything at any time, within
the bounds.  The clients in `PipeSessions` keep to a protocol: before a client
authenticates itself it may try the token of an earlier connection or a secret that is
not the service's; it authenticates once, numbers its requests one by one, waits for
each response, may send a request again meanwhile, and may give it up, at most
`MaxLost` in a row that were never accepted.  The payload of a request need not be a
command.  Clients close whenever they like.
The service control manager of `ServiceLifecycle` delivers one control at a
time, a stop to a service that is starting or running and an interrogation to
one that is running, as Windows documents it, and `StartServiceCtrlDispatcher` returns
to `main` only after it was told STOPPED, so that the destructor and the end of the
process come after that.  Qt's `quit()` does nothing before
`exec()`, and a `QTimer` is only started by its own thread.
`parsePacket` and the packet format are in a submodule that is not part of the
repository: a packet is its kind, token and number, and several requests read
at once are either refused or taken for the first one.

## 3. What the runs show

| Run | States | Shows |
|---|---|---|
| `EcCommand` | 48 k | Safety, the refinement of `EcService`, and liveness |
| `EcCommandDangling` | violation | `NoDanglingCallback` does not hold |
| `EcCommandStop` | violation | `StopTerminates` does not hold |
| `EmiBus` | 0.37 M | Safety, and an end with a dead EC |
| `BezelActions` | 0.21 M | Safety, and liveness with a bezel that comes and goes |
| `BezelBaseline` | violation | `SliderEventMeansMove` does not hold |
| `PipeSessions` | 0.51 M | Sessions, sequence numbers, limits |
| `PipeSequence` | violation | `SequenceIncreases` does not hold |
| `ServiceLifecycle` | 5 k | Start, stop and cleanup |
| `ServiceStop` | violation | `StopEnds` does not hold |
| `EcMemoryMirror` | 0.68 M | Whole reads and the mutex, with deaths |
| `CommandProc` | 0.48 M | The handlers with failing calls |

**EcCommand.**  `QueueWakesEmi`: the thread is never asleep with a command queued.
`PendingIsWaiting`: the pending table holds exactly the calls in progress.
`SuccessIsExecuted`: a caller told SUCCESS reads a payload nobody is writing.
`ImplementsService`: all of it together does what `EcService` says, commands of callers
that gave up included.  `EcService` breaks only after a time-out, so this contains
`SafeWithoutTimeout`: the unlocked call of `FuncDone` is safe until a call times out, the
strongest statement that is true of that code (section 7).  Liveness: `SyncReturns`, `QueuedIsExecuted`, `CallbackIsCalled`,
the last two unless the manager is stopped.

**EmiBus.**  `BufferOwned`: between the check of the bus and `CMD_PROC` the EC
has nothing in hand, and what is read is the response to what this attempt sent.
`SuccessIsOwnAnswer`: SUCCESS comes with the answer of this very command, through
`GET_RESULT`, too.  `OncePerAttempt`: a command that is sent again may be executed
again (`emithread.cpp:118`), but at most once for each attempt: neither a late
request nor the polls for its result run it once more.  `ProcCmdEnds`.

**BezelActions.**  `EventMeansPress`, `SliderEventsBounded`: no event without a
cause, except the one of section 7.  `CommandInOnePlace`, `CommandsInOrder`: what
is queued is neither doubled nor reordered, whichever client polls and whatever
happens to its response; a response that cannot be written takes its commands
with it (`Lose`).  Liveness: `HeldPressReported`, `SliderSettles`.

**EcMemoryMirror.**  `ReadsAreWhole`: a reader that is told success has one update
whole.  The mutex does that between living processes.  A service that comes back
clears the mapping without it, and only the version saves a reader that copies
around the clearing.  Two cases are left out, as the code does not handle them: a
copy in the middle of the clearing, and a copy of what a writer that died in
`updateMemory` left.  `MutexGivenBack`: no process owns the mutex between its calls,
unless it met it abandoned: `WAIT_ABANDONED` grants it, and both classes return as if it
did not.  The next wait of that process succeeds, and everyone else's times out.  All
this is about the two classes and the programs that use them: the code that would
create an `ECMemoryWriter` in this service is commented out (`windowsservice.cpp:202-207`).

**CommandProc.**  `NothingLeaks`: whichever calls fail, a handler leaves no key, no
token and no interface behind but the cached ones, and the destructor none.
`ProxyIsReady`: a query goes to the namespace it names over a proxy with its security
set, whatever failed before.  `RegistryReadsBack`: a read tells what was written last,
by requests that were told success or by other processes, and of a type that was
asked for; excused are a value that is retyped between the two calls of a read, and a
block that shrinks there.  `AcpiReadsBack`: a read of the EC's memory tells the last
write that succeeded, or one that failed after it, or the one that the EC had in the
background when that last write was answered: a write that was given up may come late
over a later one in this way, and in no other.  Queued writes for namespace 1 go to namespace 0
(`commandproc.cpp:789`), so that nothing is said of it after one.  `ErrorIsOwn`: a
client is told why its own power request failed, though `s_lastError` is static and
never reset.

**PipeSessions.**  `TablesAgree`: the three tables keyed by sockets, also during the
walk of `stopPipe`.  `TypeOK` has the limits of the pipes.  `OnlyAuthenticated`: a
client at the address, or with the token, of an earlier one, or with a wrong secret,
gets no session and no run.  `ProcessedOnce`.  `NextNumberAccepted`: the next request of
a client that counts by one passes the checks, across the rollover, after lost requests,
and after one whose number was kept although its payload could not be deserialized,
for which there is neither a run nor a response (`securecommandhandler.cpp:145-154`).
`SlotsComeBack`.

**ServiceLifecycle.**  `StoppedIsClean`: STOPPED is told only when every object is
deleted.  `CrashOnlyWithoutEc`: neither a late control handler nor the second
`cleanup`, of the destructor, uses what is deleted; the only pointer that leads
nowhere is `m_bezelMonitor` in a process that has no EC, which the constructor does
not initialise and `cleanup` tests.  `StopInLoopEnds`: a stop in the event loop, with no
quit posted before it, ends with STOPPED told, the dispatcher back in `main` and the
service destroyed (or in that crash).  It says nothing of a stop before the loop
(section 7), nor of one that comes once a quit was posted: after the quit of a stop that
came while the service was starting, the manager may believe it RUNNING and deliver
another control, whose handler may overwrite the final STOPPED before it is told.  Then
the dispatcher does not return and the process stays.
`ControlReturns`: the handler gets the mutex in the end.

## 4. Bounds

| Run | Bound | Why it is enough |
|---|---|---|
| `EcCommand` | 2 callers, 2 commands | a command that timed out and is still queued, or in execution, with another one behind it; a caller reuses its frame while its old command is executed.  The theorems hold for any number of both |
| `EmiBus` | 3 commands, 2 attempts, 2 polls | a late response to the first attempt met by the second; a background command left by one command and met by a later one, with one between them |
| `BezelActions` | 2 clients, 1 button, slider positions 0 and 1, 1 press, 1 move, 1 swap, presence checked every 2nd poll | two events in one poll and in two; two clients competing for one queue.  Buttons are compared bit by bit, and a second press adds only repetitions |
| `PipeSessions` | 2 addresses, 2 connections, 1 client for each pipe, 3 requests, 2 copies, 1 lost request in a row | an address used again, an old token tried by the second connection, a pipe that is full while another client waits, and a rollover with a request lost before it, at it or after it |
| | numbers modulo 8, window above 5 and below 3 | stands for 2^32, 0xFFFF0000 and 0x0000FFFF: numbers before, in and after the window, and one of the pipes has clients that skip 0 |
| `ServiceLifecycle` | 4 controls, 2 commands | a late handler of an early stop, another stop and an interrogation, with one to spare; a command before and during a stop |
| `EcMemoryMirror` | 2 readers, 2 updates, 2 deaths, 1 retry (3 in the code) | the writer dies, a new one comes and dies as well, or a reader that met the abandoned mutex does; two readers so that one is locked out by the other; the retry that succeeds, and the one that is too many |
| `CommandProc` | 4 requests of a family | a failing request between two others, and one more |
| | 2 namespaces, 1 row, 1 restart of WMI | a connection that is kept, switched, dropped and dead |
| | 2 names, lengths 0 and 2, 1 change by another process | a value that vanishes, shrinks, grows or is retyped between two calls |
| | 2 byte values | a write, another one over it, and the first coming back from the background |

`MaxCmds`, `MaxControls`, `MaxCommands`, `MaxUpdates`, `MaxDeaths`, `MaxRestarts`,
`MaxRows`, `MaxForeign`, `MaxPower`, `MaxPresses`, `MaxMoves`, `MaxSwaps`, `MaxConns`, `MaxRequests`,
`MaxCopies`, `MaxLost` and `NumCmds` bound what the environment does, in the guards of its
actions only.  Deadlock is not checked: when the environment has spent its bound,
or the service has stopped, nothing needs to happen.

## 5. Fairness

- `EcCommand`: weak fairness of each caller within a call, of the EMI thread, of
  the event loop, of the time-out and of the stop once begun.  Threads are scheduled,
  a mutex is granted in the end, time passes, and `ProcCmd` ends (`ProcCmdEnds`).
  Nothing obliges anyone to begin a call or to stop.  Since a lock is always
  released without waiting for it, weak fairness suffices.
- `EmiBus`: weak fairness of the host only.  `ProcCmdEnds` holds with a dead EC.
- `BezelActions`: the main thread runs its timer and ends a poll it began (weak);
  the EC answers each kind of read again and again (strong, and an assumption on
  the EC, since a dead one reports nothing).  Nothing is assumed of clients.
- `PipeSessions`: the event loop delivers disconnections and connections (weak).
- `ServiceLifecycle`: both threads run (weak); a quit event that was posted is
  delivered, and the control handler gets a mutex that is released again and again
  (strong).  Nothing makes the manager deliver a control.
- `EcMemoryMirror` and `CommandProc` state safety only, and no fairness: a reader may be
  locked out for ever by one that keeps the mutex, and calls into Windows return or not.

## 6. Proofs

`EcCommandProofs` proves, for any non-empty set of callers and any number of
commands:

| Theorem | |
|---|---|
| `TypeCorrect` | `Spec => []TypeOK` |
| `NoLostWakeUp` | `Spec => []QueueWakesEmi` |
| `PendingExact` | `Spec => []PendingIsWaiting` |
| `SuccessSound` | `Spec => []SuccessIsExecuted` |
| `CallbackSafeWithoutTimeout` | `Spec => []SafeWithoutTimeout` |
| `Refinement` | `Spec => ImplementsService` |
| `Invariance` | `Spec => []IInv`, on which the others rest |

Assumptions: those of `EcCommand` on its constants (`CallersAssumption`,
`MaxCmdsAssumption`, `NamesAssumption`: the names `"free"`, `"null"` and `"signal"`
are no callers).  TLC evaluates them in every run of the module.

None of the properties is inductive.  `IInv` adds:

- `LockInv`: `m_mutex` is held by the caller that is about to queue its command;
- `FreshInv`: ids not given out yet are untouched, and calls in progress have
  different ones;
- `QueueInv`: a queued command is queued once and has not been executed, and a
  command about to be queued is not in the queue;
- `ExecInv`: which payload the thread writes, and that an emitted command, or one
  with SUCCESS, has its payload;
- `OpenInv`: a command in a call in progress has that call's lambda, is open, and
  no lambda outlives its call in `FuncDone`;
- `CallbackInv`: while nothing has timed out, the thread never holds a lambda of a
  call that has ended, because a call ends only when its flag is set, and the flag
  is set only as the lambda ends;
- `SleepInv`: the queue is empty from the test to the sleep, because the lock is
  held between them.

Each conjunct has a lemma (`...Step`) with a step for each action that could disturb
it, and `NextIInv` puts them together.  `Refinement` maps a command's life to
`EcService`'s phases (`phaseBar`), and shows that every step is a step of
`EcService` or leaves its variables alone (`ServiceStep`).

`EcMemoryMirrorProofs` proves, for any set of readers and any number of retries,
updates and deaths:

| Theorem | |
|---|---|
| `TypeCorrect` | `Spec => []TypeOK` |
| `MutexReturned` | `Spec => []MutexGivenBack` |
| `WholeReads` | `Spec => []ReadsAreWhole` |
| `Invariance` | `Spec => []IInv`, on which the others rest |

Assumptions: `ProcessesAssumption` (the writer is no reader, and `"free"` is no process)
and `BoundsAssumption` (the bounds are naturals) of `EcMemoryMirror`.  Its `IInv` adds:

- `HandleInv`: a process inside a call has a handle of the mutex, and a writer that is
  closed, or still clearing, has none;
- `MutexInv`: the owner's recursion count is exactly once for a call in progress plus
  once for an abandonment it met (`Owns`), and whoever has either is the owner: this
  bounds the count by 2, and makes the writer's and the readers' calls exclude each
  other;
- `WholeInv`: the memory is whole except while the writer is between its two parts or
  clearing, or has died there (`broken`), and version 0 means an empty memory;
- `CopyInv`: while a reader is between its two parts, the memory is the one its first
  part is from or has been cleared, and then the version, which is 0 again, tells them
  apart unless the first part was empty too.

`EmiBusProofs`, for any number of commands, attempts and polls:

| Theorem | |
|---|---|
| `TypeCorrect` | `Spec => []TypeOK` |
| `OwnedBuffer` | `Spec => []BufferOwned` |
| `OwnAnswer` | `Spec => []SuccessIsOwnAnswer` |
| `BoundedRuns` | `Spec => []OncePerAttempt` |
| `Invariance` | `Spec => []IInv` |

Assumptions: at least one attempt and one poll (`RetriesAssumption`,
`PollsAssumption`; 10 and 79 in the code).  `IInv` adds:

- `BusInv`: who owns the buffer.  Before the request is written the EC has nothing in
  hand; while the host waits, either the request of this attempt is on its way or its
  response is there (`Asked`, `Answered`);
- `SlowInv`: while the host asks for a result, the command in the background is the
  one at hand, and the EC gets no other request;
- `AnswerInv`: what a response says is true (SUCCESS only of what was executed), and
  it is about the request it answers;
- `OpenInv`: no result before the end, which makes results permanent;
- `CountInv`: executions, plus those the EC still owes to a request it was handed or
  to a command in the background, plus the attempts left, never exceed the number of
  attempts.

`BezelActionsProofs`, for any number of buttons, any clients and slider positions:

| Theorem | |
|---|---|
| `TypeCorrect` | `Spec => []TypeOK` |
| `EventsArePresses` | `Spec => []EventMeansPress` |
| `SliderEventsAreMoves` | `Spec => []SliderEventsBounded` |
| `InOrder` | `Spec => []CommandsInOrder` |
| `InOnePlace` | `Spec => []CommandInOnePlace` |
| `Invariance` | `Spec => []IInv` |

Assumptions: 0 is a slider position, `"none"` is no device, a presence check is due
every so many polls (at least one).  `IInv` adds:

- `PressInv`: an edge a poll has seen, or a press it has not read, is a press beyond
  those reported;
- `SliderInv`: each difference along the way from where the slider is, over what the
  poll has read, to the position remembered is a move of its own, or the one position
  a first poll could not read;
- `OrderInv`: what a client has comes before what is on its way to it, and that before
  the queue;
- `PlaceInv`: the ids given out are those queued, lost, on their way or received, and
  no id is with two of them.

`ServiceLifecycleProofs`, for any number of controls and commands:

| Theorem | |
|---|---|
| `TypeCorrect` | `Spec => []TypeOK` |
| `CleanWhenStopped` | `Spec => []StoppedIsClean` |
| `NoCrashWithEc` | `Spec => []CrashOnlyWithoutEc` |
| `Invariance` | `Spec => []IInv` |

`IInv` adds `StoppedInv` (the state STOPPED, anywhere on its way from
`m_serviceStatus` to the manager, comes from the end of `cleanup`, after which nothing is
created) and `PointerInv` (only `m_bezelMonitor` may be unassigned, and only with no EC).

`CommandProcProofs`, for any namespaces, lengths, bytes and bounds:

| Theorem | |
|---|---|
| `TypeCorrect` | `Spec => []TypeOK` |
| `NoLeaks` | `Spec => []NothingLeaks` |
| `ReadyProxy` | `Spec => []ProxyIsReady` |
| `RegistryTold` | `Spec => []RegistryReadsBack` |
| `AcpiTold` | `Spec => []AcpiReadsBack` |
| `OwnError` | `Spec => []ErrorIsOwn` |
| `Invariance` | `Spec => []IInv` |

Assumptions: `""` is no namespace, the default namespace is one, 0 is a byte, lengths and
bounds are naturals.  The conjuncts of `IInv` for the four families of requests are
independent: each is kept by the steps of its own module (`PowerStepInv`, `RegStepInv`,
`WmiStepInv`, `EcStepInv`), and `FamilySteps` shows that a step of `CommandProc` is for each
family a step of it or none.  They add:

- `PowerInv`: the token is open exactly while its privileges are adjusted;
- `RegInv`: the key is open exactly in the places of a request between `openKey` and
  its end;
- `HeldInv`: which references each place of a WMI call holds, and that the cached
  ones are those the flags and the pointer stand for;
- `ConnInv`: a connection that is there is secured and serves `currentNamespace`,
  unless the call is just about to secure it;
- `CellsInv`: what a cell holds, and what may still be written by a command that is
  queued, in the EC's hand or in its background (`Harmless`), is a value a later read may
  tell, or what the request in progress writes (`MayHold`);
- `QueueInv`: the commands in the queue are the handlers', and the one waited for is the
  last of them;
- `DoneInv`: when that one is answered, the queue is empty, the EC has nothing in hand
  after a SUCCESS, and what it may have in the background is the command recorded with
  the answer (`ecDone.behind`) or the answered one.

`PipeSessionsProofs`, for any finite set of sockets, any pipes with their limits,
and any such counter and window:

| Theorem | |
|---|---|
| `TypeCorrect` | `Spec => []TypeOK`, with the limits of the pipes |
| `TablesKnowTheSame` | `Spec => []TablesAgree` |
| `NoneBeforeAuthentication` | `Spec => []OnlyAuthenticated` |
| `NextAccepted` | `Spec => []NextNumberAccepted` |
| `OnceEach` | `Spec => []ProcessedOnce` |
| `Invariance` | `Spec => []IInv` |

Assumptions: the sockets are finitely many (`MaxClients` counts them with
`Cardinality`), a pipe admits at least one client and is not called `"Unknown"`, and
`MaxLost` + 1 < `Low` < `High`, `High` + `MaxLost` + 1 < `Modulus`.  The code has 0x0000FFFF,
0xFFFF0000 and 2^32, which leaves room for 65533 lost requests in a row.  The two outer
inequalities say that a step over the end of the counter begins and ends in the window:
a client that has lost `MaxLost` requests counts from at least `Modulus` - 1 - `MaxLost` to at
most `MaxLost` + 1, if it skips 0, and with one of the two outside the window its request
would be refused.  `IInv` adds:

- `UpTables`, `StopTables`, `DownTables`: how the three tables agree while the service is
  up, in the walk of `stopPipe` (whose handlers change the table being walked), and
  after it;
- `ClientInv`: what a peer sent last, which responses there can be, and how often its
  request has been accepted (at least as often as it was run), by what it waits for;
- `SessionInv`: the session's last number is that of the peer's last request once it has
  been accepted, and before that the one of the last accepted request, which is at most
  `lost` requests back (`Reached`).

The lemmas `Remainder` and `NextRemainder` say what a number is modulo `Modulus` and what
follows it; `Numbers`, that a number but 0 is refused a second time; `NextNumber`, that the
code's test accepts a number after any of the `MaxLost` + 1 before it, with 0 skipped or
not.

Two things came up in the proofs that no run shows.  Definitions of `EcRequests` and
`RegistryAccess` had `CASE` with overlapping arms, where TLA+ leaves open which one is
taken; they are `IF`s in the code's order now.  And the assumption on the numbers of
`PipeSessions` was too weak for clients that skip 0, as said above.

Every safety property of a passing run is stated by a theorem.  Only model-checked are
the liveness properties (`SyncReturns`, `QueuedIsExecuted`, `CallbackIsCalled`,
`ProcCmdEnds`, `HeldPressReported`, `SliderSettles`, `SlotsComeBack`, `ControlReturns`,
`StopInLoopEnds`): fairness and `ENABLED` are out of the prover's reach.

## 7. Where code and comments disagree

1. `ecmanager.cpp:151` clears `FuncDone` "to avoid dangling reference" after a
   time-out.  The EMI thread reads and calls it without that lock
   (`emithread.cpp:70`): it may find it empty between the two, or be inside the
   lambda when the frame goes.  Run `EcCommandDangling`.
2. `emithread.cpp:51`, "Exit thread if requested": flag and wake-up may fall between
   the thread's test and its wait, and the destructor waits for ever.  Run
   `EcCommandStop`.
3. `bezel.cpp:158`, "First poll: just capture baseline, don't fire events": a
   first poll that cannot read the slider takes 0 for its position, and the
   next poll fires.  Run `BezelBaseline`.
4. `securecommandhandler.cpp:210`, "Sequence must always increase": number 0 is
   accepted after any number, so a request with that number that is sent again is
   processed again.  Run `PipeSequence`.
5. `windowsservice.cpp:389`, "Shutdown timeout - forcing exit": a stop before the event
   loop finds nothing to quit, and the timer that should force the exit does not
   exist yet, or is told to start by a thread that does not own it.  Run
   `ServiceStop`.

## 8. What is not modelled

- The logger: planned.
- `WindowsService::runAsApp`, which is the same without a manager, the system calls
  of `install` and `uninstall`, checkpoints of the status, `clearEcState`.
- `EmiPacket` arithmetic (checksums, 16-bit lengths): planned; `EmiBus` has a
  response intact or refused.
- `CommandProc`'s handlers of files and MSRs (one call each, of Qt or of a stub),
  capabilities and system information (which only read) and display (stubs that answer
  success).  `WmiAccess::execMethod` is modelled though no handler calls it.
- Registry strings stored without their terminator by another program
  (`registryaccess.cpp:284`), and the conversion of values to and from VARIANTs.
- Launcher, monitor, port I/O, resources and entry point: sequences of system calls
  without state that interacts with anything here.
- `EmiIo`, a second user of the EMI thread, belongs to tools; the service does
  not use it.  Its second call of `FuncDone` is `EmiEmitTwiceFault` of `EcCommand`.
- Data that no property tells apart: payloads, names, log texts, times.  The copy
  of a payload after a time-out races with the EMI thread; callers ignore
  the payload of a failed call, and `payload = "busy"` stands for whatever it holds.

## 9. The plan

Done: `EcService`, `EcCommand`, `EcCommandProofs`, `EmiBus`, `BezelActions`,
`PipeSessions`, `ServiceLifecycle`, the most concurrent part first; then
`EcMemoryMirror`, `EcMemoryMirrorProofs` and `CommandProc` with `WmiAccess`, `RegistryAccess`, `EcRequests` and
`PowerControl`; then the proofs of `EmiBus`, `ServiceLifecycle`, `BezelActions`,
`CommandProc` and `PipeSessions`.

1. Proofs of what the modules take from each other: an abstract specification of
   `EmiBus` as `EmiProcCmd` of `EcCommand` uses it, and of a session's numbers, with
   their refinements.
2. `EmiPacket`: packet building and checking as functions, against a reference
   definition, with 16-bit arithmetic; `EmiBus`'s `ReadPayload` refers to it.
3. `LogRotation`: sizes and rotated files, with failing opens and removals.

## 10. How to run

    tlasany EcCommand.tla
    tlc -workers 2 -config EcCommand.cfg EcCommand.tla
    tlc -workers 2 -config PipeSessions.cfg MCPipeSessions.tla
    tlc -workers 2 -config CommandProc.cfg CommandProc.tla
    tlapm EcCommandProofs.tla
    tlapm EcMemoryMirrorProofs.tla
    tlapm EmiBusProofs.tla
    tlapm ServiceLifecycleProofs.tla
    tlapm BezelActionsProofs.tla
    tlapm CommandProcProofs.tla
    tlapm PipeSessionsProofs.tla

`PROJECT.json` lists every run with its module, the map from definitions to lines
of the source, the hazards and the properties that cover them.
