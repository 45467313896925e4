# LogHard in TLA+

A specification of LogHard, the C++ logging library in `src/src`, with the
configurations that TLC checks on small instances and theorems that TLAPS
proves for all of them. Source locations below are `file:line` in `src/src`.

## 1. The system

A client makes a `Backend`, adds `Appender`s to it and makes `Logger`s with a
prefix. A log statement such as `logger.info() << "x = " << x;` makes a
`MessageBuilder`, which collects the text in a buffer of the thread, and whose
destructor calls `Backend::doLog`. That locks the backend, tests the priority and
calls every appender in turn. An appender writes to a file, to the standard
streams or to syslog, keeps the message for later, or passes it to another
backend.

| Component | State it keeps | Operations | Used by / uses |
|---|---|---|---|
| `Backend` (Backend.h/.cpp) | `m_mutex` (recursive), `m_appenders` (a set ordered by address), `m_priority` | `doLog`, `setPriority`, `addAppender`, `removeAppender`, `retrieveLock` | called by builders and by `Backend::Appender`; calls `Appender::log` under its mutex |
| `Appender` (Appender.h/.cpp) | `m_priority`, atomic | `log`, `setPriority` | base class of all sinks |
| `Backend::Appender` | the backend it forwards to | two constructors, `doLog` | enters the next backend's `doLog`, so one thread holds several mutexes |
| `Logger::MessageBuilder` (Logger.h/.cpp) | `tl_message`, `tl_offset`, `tl_time`, thread-local and shared by all builders of a thread; `m_backend` | construction, move, `operator<<`, `elide`, destruction | copies the prefix and the `shared_ptr` of a `Logger` |
| `Logger` | `m_backend`, `m_prefix`, `m_basePrefix` | construction from a backend or a Logger, copy, move, `setPrefix`, `retrieveBackendLock`, exception printing | shared ownership of a backend |
| `EarlyAppender` | `m_entries`, `m_freeMessages`, `m_oomMessage`, `m_oom` | `doLog`, `clear`, `logToAppender` | buffers messages until the real appenders exist |
| `FileAppender`, `CFileAppender`, `StdAppender` | a descriptor, owned, borrowed or none | constructor, destructor, `doLog` | `writev`, `fsync` |
| `SyslogAppender` | the static `m_singleInstance`, `m_ident` | constructor, destructor, `doLog` | `openlog`, `syslog`, `closelog` |
| `parsePriority` (PriorityParser.cpp) | none | one function | command lines |
| C API (BackendC, LoggerC, CAPI.h, ErrorC) | `LogHardBackend`, `LogHardLogger`, the last error of each | new, free, add an appender, log | wraps `Backend` and `Logger` |

What is hard here, and what must hold:

* **Backend**: threads log, reconfigure and walk at the same time. A message is
  tested and delivered in one critical section; the set that is walked does not
  change; nothing attached is passed over; appenders agree on the order; mutexes
  are released as often as locked, through the recursion too; no deadlock.
* **MessageBuilder**: one buffer, many ways to reach its end. It is always
  terminated; a message is the beginning of its own text; a cut is marked; a
  builder logs once however often it is moved.
* **EarlyAppender**: no memory, no room. No entry is ever allocated in the
  `noexcept` `doLog`; what is recorded has no hole; a notice tells of skipped
  messages; strings are not made, and lost only where `clear()` loses them. The
  change to the real appender loses and repeats nothing that the priorities on the
  way admit, while other threads log.
* **File appenders**: lines are whole, in their own file, and, for
  `CFileAppender`, survive a crash once their `fsync` has succeeded.
* **SyslogAppender**: at most one, and its ident outlives its use.
* **Logger, C API**: a backend lives as long as something owns it, whatever
  is freed first; no descriptor is left open after that; prefixes nest; of nested exceptions
  every one is printed, once, with the number of all.

`PROJECT.json` lists each hazard at its line, with the properties for it. Some of
them do happen, and the code promises nothing about them; there the properties leave
the case out, in a condition that their comments name (`silent`, `raced`, `dropped`,
`mixed`, `clears = 0`, the mark `"forgot"`), and section 6 lists what happens.

## 2. The modules

| Module | Models | Checked by | Proofs |
|---|---|---|---|
| `Backend` | Backend, Appender, Backend::Appender, retrieveBackendLock | `MCBackend` (2 configurations) | `BackendProofs` |
| `AtomicBackend` | what a Backend promises, without threads' stacks and mutexes | as a property of `Backend` | |
| `BackendRefinement` | how the state of `Backend` is one of `AtomicBackend` | `MCBackend` | `BackendRefinementProofs`, which also has the deliveries of `Backend` |
| `MessageBuilder` | the builders of one thread and their buffer | `MCMessageBuilder` | `MessageBuilderProofs` |
| `EarlyAppender` | one EarlyAppender | `MCEarlyAppender` (3) | `EarlyAppenderProofs` |
| `Handoff` | logToAppender and the change from an EarlyAppender to another appender | `MCHandoff` | `EarlyAppenderProofs` |
| `SyslogAppender` | all SyslogAppenders of a process | `MCSyslogAppender` (2) | `SyslogAppenderProofs` |
| `FileSinks` | the appenders that write to files, descriptors, files | `MCFileSinks` | `FileSinksProofs` |
| `Loggers` | Loggers, their prefixes, the C API objects, ownership | `MCLoggers` | `LoggersProofs` |
| `ExceptionPrinter` | the printing of nested exceptions, as operators | `MCFunctions` | `FunctionsProofs` |
| `PriorityParser` | parsePriority, as operators | `MCFunctions` | `FunctionsProofs` |

The modules meet at the calls between the components. `Backend` begins where
`~MessageBuilder` calls `doLog` (`BeginLog`) and ends where a sink's `doLog` has
been given the message (`SinkDoLog`). What it shows about sinks, that one thread
at a time is in a sink attached to one backend (`SinkExclusion`), is what
`EarlyAppender`, `Handoff` and `FileSinks` assume of their calls.

### Backend

A call of `doLog` is a frame on the stack of its thread, with the backend, the
message, the position of the range-for (`pos`, an address) and a `pc`. `Acquire`
is the `lock_guard` and the test of the priority, `Dispatch` the next appender of
the loop and its own test in `Appender::log`, `SinkDoLog` and `ForwardDoLog` the
virtual call, `Finish` the return, which unlocks. A forward pushes a second frame.
The recursive mutex is `holds[t][b]`, the number of times `t` has locked `b`, and
`CanLock` asks the other threads only. Setting and adding are one action each,
since they run under the mutex from beginning to end; `SetThreshold` and
`ConstructForward` run under none and so happen between any two steps.

Clients may also hold a `Backend::Lock`. If they log through another backend
meanwhile they take two mutexes in an order of their own; with a forward the other
way that deadlocks, and TLC shows it when `Disciplined` is `FALSE`. The code states
no rule, so the model makes one explicit (`MayUse`) and the liveness run assumes it.
That the wiring of backends has no loop is the assumption `AcyclicAssumption`: the
todo at Backend.h:51 says it is not checked.

### AtomicBackend and BackendRefinement

The promise in terms a client can use: a backend serves one message at a time
(`Serve`), offers it to each of its appenders once, in any order (`Filter`,
`Admit`), goes on with the next when a forward has it back, and is configured
between two messages only. There are no threads in it but as the origin of a
message, no positions and no mutexes.

The mapping reads `waiting`, `current`, `todo` and `at` from the frames on the
stacks: a backend's message waits while its frame has not passed the
`lock_guard` and the test (`WaitsFor`), is served while a frame walks (`Serves`),
and the appenders behind the iterator are still to come (`IsBefore`). Three
kinds of steps change nothing there: taking and giving back a `Backend::Lock`, the
call of the next backend's `doLog` by a forward, whose message waits there already,
and a test of the priority that fails, which becomes a `Reject` when the call returns.

### MessageBuilder

`message` is the buffer cell by cell, with `MaxMessageSize` for its 16 KiB; a
character is `<<b, k>>`, the k-th one meant for builder `b`. So a message that
mixes, repeats or omits text shows. `Characters` is the loop of `operator<<(char
const *)`, `AppendString` the copy of `operator<<(std::string)`, whose dots replace
the part that did fit, `AppendFormatted` all operators made by `LOGHARD_LHC_OP`,
with what `snprintf` writes. A move leaves a shell, whose destructor does nothing.

### EarlyAppender

Texts are a record of whose message they begin with, how long they are and
whether they have been cut. `Assigned` gives every outcome of `s.assign()` and of
the loop that follows when it fails: the string may have grown before memory ran
out. The model is of a build with `NDEBUG`, so that the assertions can be stated as
properties and two of them be refuted. `ClearEmpty` is the `pop_back()` of an empty
vector; nothing is said of what follows.

### Handoff

A program, usually the one thread that starts the others, replays the
EarlyAppender into the appender it wants, attaches that and detaches the
EarlyAppender, in any order, once or more often, with and without a
`Backend::Lock`. `logToAppender` locks nothing, so that it is a step for each
entry (`ReplayNext`) up to the end it has read when it began. `Log` is one step,
which is what `SinkExclusion` allows. On its way a message is tested by the backend
(Backend.cpp:85) and by each appender (Appender.cpp:33), a recorded one by the
argument of `logToAppender` (EarlyAppender.cpp:63) and by the real appender again;
the three thresholds are set at any time (`SetPriority`), that of the backend under
its mutex.

Four variables are ghosts. `handover` says how much of the one safe order (lock,
replay everything, attach, unlock) has been done, or that the program has left it
(`"broken"`); a message that is due while the EarlyAppender is detached, or between the
replay and the attachment, breaks it too. `sent` has all that was ever logged,
`due` what no threshold on its way rejects, as they were when it was logged; what is
recorded has to pass that of the real appender as it is until the handover is done.
`skipped` are those for which there was no string. `HandoverComplete` then says that
the real appender has all that is due but what was skipped, in order and once, and
nothing that was not logged. It allows more than is due: a message that the real
appender would have rejected for a while is replayed if it is admitted again by then.

### SyslogAppender

`setEnabled_` is split at its accesses of `m_singleInstance` and at `openlog()` and
`closelog()`. `raced` records whether two calls have ever overlapped; `OneAppender`
and `OwnIdent` are about clients that avoid that, `IdentAlive` about all.

### FileSinks

A POSIX model of descriptors and files under the three appenders: descriptors are
given out again, a write in append mode is one step to the end of the file, a crash
leaves what was synced and perhaps some of the rest. A line is two cells. The system
calls are external to the code and are modelled from how it uses them. `writev` may
write a part (`WriteShort`) and `fsync` may fail (`SyncFails`); the code ignores both
results (CFileAppender.cpp:74, 116). An `fsync` that succeeds leaves on the disk all
that the file has then, as POSIX has it, also where an earlier one has failed. A FILE
that has no descriptor makes the constructor throw (CFileAppender.cpp:95), which
changes nothing.

### PriorityParser

`Branches` is the switch, its chains of `charIs` and their results; `parsePriority`
is what it returns and `Reads` the positions it reads, since the pointer is moved in
conditions that are evaluated only in part.

### ExceptionPrinter

`Printing` is `printException_` as a recursive function of the exception and the two
numbers it is called with, and `Returns` one call of it. An exception knows the one
that was being handled when it was made (`ptr`, 0 for none). `totalLevels` is shared
by all calls, as the reference of the code is: a call returns it with the lines.

### Loggers

`uses[b]` is the `use_count()` of the `shared_ptr` to a backend: the object of the C
API, the Loggers and the builders have one each. `Nested` is the prefix of a Logger
made from another one; a Logger may also be made from a backend alone, and then has
none (`Bare`). The ghost `words` records what clients gave, what of it a Logger has
inherited, and marks Loggers that have been moved, those whose prefix has been set,
and those for which this was both, so that what they had inherited has been forgotten
(Logger.cpp:240). A move takes the words along, as a client would expect, though it
empties `m_basePrefix`. `Position` says which of the words of a prefix a place in it
is, its blanks not counted. An object of the C API whose mutex cannot be initialized stays allocated (`"leaked"`), as in
LoggerC.cpp:37-42 and BackendC.cpp:44-48.

## 3. The runs

| Run | Instance | What it shows |
|---|---|---|
| `MCBackendChain` | 2 threads; A outputs and forwards to B; 2 calls, 3 other operations; the forward made or not at the start | `MutualExclusion`, `LockAccounting`, `IteratorValid`, `StableWalk`, `NothingSkipped`, `OrderAgreement`, `SinkExclusion` |
| `MCBackendDiamond` | 2 threads; A to B and C, B to C; 2 calls, 2 other operations; clients keep to `MayUse`; fairness | `NoDeadlock`, `EveryCallReturns`, and the refinement, `StepsAreAtomic` |
| `MCMessageBuilder` | 2 builders, one after the other or one inside the other, buffer of 4, 4 values of 0 to 5 characters, 1 move | `Terminated`, `PrefixDelivered`, `CutIsMarked`, `LoggedOnce`, `NothingStale` |
| `MCEarlyAppender` | 2 strings, 6 messages of 0, 3 or 7 characters for room 5, 2 calls of `clear()` | `RoomForEntry`, `NoHole`, `NoticeTellsSkips`, `StringsConserved`, `OwnText` |
| `MCEarlyAppenderReuse`, `MCEarlyAppenderCut` | the same | two assertions that do not hold, see 6 |
| `MCHandoff` | 2 strings, 4 messages that fit, the priorities Fatal and Error, 1 call of `clear()`, 1 replay | `HandoverComplete`, `ReplayUndisturbed` |
| `MCSyslogAppender` | 3 appenders, 5 constructor calls | `OneAppender`, `OwnIdent`, `IdentAlive` |
| `MCSyslogAppenderRace` | the same | the assertion of the destructor does not hold, see 6 |
| `MCFunctions` | all words and the ten digits, in any case, cut short or with one wrong character at the end; 4 exceptions, each thrown while any earlier one or none is handled | `KnowsTheWords`, `ReadsInside`, `PrintsEveryCause` |
| `MCFileSinks` | 2 appenders of any kind, 2 files, 2 descriptors, 2 calls that open a file, 2 lines, 1 short write, 1 crash, any `fsync` failing | `WholeLines`, `OwnFile`, `Durable` |
| `MCLoggers` | 2 backends, 3 Loggers with and without a prefix, 2 threads, 4 objects made, 2 log statements, 1 `setPrefix` | `OwnersKeepAlive`, `FilesBalance`, `PrefixNests` |

`TypeOK` is checked in a run of `Backend`, `MessageBuilder`, `EarlyAppender`,
`SyslogAppender`, `FileSinks` and `Loggers`. The two runs of `MCBackend` begin
where start-up code has made and attached the appenders, so that the bounds are
spent on what threads do later; `Spec`, about which the theorems are, begins with
nothing attached.

**Bounds.** Two threads are enough for every race here, since each property that
can fail relates two of them, and a third only adds waiting. Two messages are the
fewest that can be in different orders, and two backends, with one forward, the
fewest between which a walk is nested; the diamond is the smallest wiring in which
one call locks a mutex twice. The buffer of the builders is as small as
lets a value end before, at and behind its end and behind the dots, and lets an
inner builder leave text that an outer one could show. Two strings and
six messages fill the EarlyAppender, overflow it and fill it again after `clear()`;
four messages are enough to fill it, overflow it, hand it over and log behind that,
and two priorities for each of the three thresholds to reject what the others admit.
Four exceptions make every chain of one to four and every way to break it off.
Two descriptors and two opens are the fewest with which two appenders have one file
open in two ways, or a number is given out again after its FILE or FileAppender is
gone; that a number is given out again while another is in use takes a third, and is
left to the theorem. The counters that bound a behaviour are conjuncts of
guards (`MaxCalls`, `MaxAdmin`, ...), so a behaviour simply ends: for that reason
the configurations do not check for deadlock as TLC knows it; that calls do not
wait for one another is `NoDeadlock` and `EveryCallReturns`. Symmetry is used over
threads, builders, appenders, files and Loggers, only where no action tells them
apart, and not in the run with a liveness property.

**Fairness.** `FairWiredSpec` gives weak fairness to every step of a thread that is
inside the library, as a scheduler that does not starve a runnable thread, and to
the release of a `Backend::Lock`, as a client that drops what it has retrieved.
A `std::recursive_mutex` does not queue its waiters, so its acquisition has weak
fairness only; calls are finitely many, and so a waiting thread gets its turn when
the others are done. No fairness makes a client call anything.

## 4. What is proved

For every value of the constants that satisfies the named assumptions:

* **Backend, locking** (`BackendProofs`: `Invariance`, `TypeCorrect`,
  `LocksBalance`, `BackendExclusion`, `WalkIsProtected`, `WalkIsStable`). None of
  the properties is inductive. The invariant adds that two threads never both hold a
  mutex, that the frames below the top of a stack wait in a forward, and
  `LockAccounting`: that the number of locks is the number of Lock objects plus the
  frames past the `lock_guard`. A thread that walks `b` then holds `b`, so `CanLock`
  keeps every other thread from changing what it walks; and it is itself inside the
  call, so it changes nothing either. `AcyclicAssumption` is not needed for these.
* **Backend implements AtomicBackend** (`BackendRefinementProofs`:
  `RefinementInvariance`, `DoLogIsAtomic`, `Implementation`). On top of the above,
  the frames of a stack are a chain of forwards about one message. Their backends
  rise in rank, so that none is on a stack twice: this is where
  `AcyclicAssumption` is needed, and with a loop of forwards the claim is false.
  With the mutual exclusion, at most one frame in all the stacks walks a backend,
  which gives the mapping its values; then each action is a step or a stutter.
* **Backend, deliveries** (`BackendRefinementProofs`). `DeadlockFree`: under
  `Disciplined`, each thread takes mutexes in the order of ranks, the `Lock` of the
  client first (`GuardsFirst`), so among threads that wait for one another one waits
  for the highest backend, whose holder waits for nothing; `HighestAssumption` says
  that there is a highest one, as there is if backends are finitely many.
  `SinksAreExclusive`: provided no sink has two backends (`OneHome`).
  `NoSinkIsSkipped`: every walk has served what is attached before its position,
  which an `addAppender` between two walks cannot spoil. `SinksAgree`: the backend a
  message was logged through stays locked until its call is over, so that its
  outputs, at whatever sinks, all come before those of the next one.
* **MessageBuilder** (`MessageBuilderProofs`). The buffer (`Invariance`,
  `TypeCorrect`, `AlwaysTerminated`, `ExactlyOnce`): the last cell is only
  ever written by `elide()` at `MAX_MESSAGE_SIZE` or by the destructor, and with a
  NUL; and a builder has logged if and only if it is sent, shells or not. The text
  (`ContentInvariance`, `OwnTextDelivered`, `CutsAreMarked`, `NoStaleText`): each cell
  before the offset is a character of a builder at work since the offset was reset,
  or lies behind a NUL where nobody reads it; and where one builder has had the
  buffer for itself, it has filled it with its characters in order (`Filled`) or has
  been cut at a known place (`Cut`).
* **EarlyAppender** (`EarlyAppenderProofs`). `Invariance`, `TypeCorrect`,
  `StringsAreConserved`, `AssertionsHold`: `RoomForEntry` is not inductive. It
  follows from the conservation of strings (free, in use and lost are all of them)
  together with: a notice is last, and there only with `m_oom` set and no string
  free. `ContentInvariance`, `RecordedInOrder`, `SkipsAreTold`, `TextsAreOwn`: what
  is recorded, in which order, and what has been skipped. That texts are their
  messages' own, and that a notice tells of what was skipped, holds until the first
  `clear()` only (see 6).
* **Handoff** (`EarlyAppenderProofs`: `HandoffInvariance`, `NothingLostInHandover`,
  `ReplayIsSafe`). What is recorded has all that the backend's and the EarlyAppender's
  priority admitted, or a notice (`BeforeHandover`); of what is recorded before the next
  entry of the replay the real appender has all that is due to it (`DuringReplay`),
  which is what its threshold still admits (`DueStill`); entries are only ever added
  behind the end of a replay, since `clear()` is another call of the program, and in a
  handover none are, since the backend is locked. Once it is done, the real appender is
  attached and never detached, so that it gets all that follows and is due.
* **SyslogAppender** (`SyslogAppenderProofs`: `AtMostOne`, `UnderOwnIdent`,
  `NoDanglingIdent`, `TypeCorrect`). The ident belongs to an appender that has not
  called `closelog()`, race or no race; without one, a constructor that reads nullptr
  is alone.
* **File appenders** (`FileSinksProofs`: `Invariance`, `TypeCorrect`,
  `LinesReachTheirFile`, `LinesAreWhole`, `SyncedIsDurable`). The invariant has four
  parts. `Ownership`: a descriptor that is open belongs to one `FileAppender`, to a
  FILE of the client or to the process, and is open on the file its owner was made
  for; so a number that is given out again never has two users, and a line goes
  home. `Progress`: a line that is about to be written is in no file and is being
  written by one appender, so that it gets there once. `Contents`: every descriptor
  of a file that is not `mixed` writes at its end, whether in append mode or because
  it is alone, so that nothing is overwritten; the second half of a line comes right
  after its first. `AllOnDisk`: a line whose `fsync` has succeeded is on the disk, whose
  contents are a beginning of the file, so that a crash, which may lose the rest, leaves
  it. All of it is about clients that keep the FILE of a CFileAppender open, and about
  files that are not `mixed`; of a line whose `fsync` failed nothing is claimed.
* **Loggers** (`LoggersProofs`: `OwnersAreCounted`, `TypeCorrect`,
  `BackendsOutliveClients`, `NoDescriptorLeaks`, `PrefixesNest`). `uses[b]` is the
  cardinality of the set of the owners of `b`, leaked objects among them, which every
  action that makes, copies, moves or frees an object changes by one member or by none;
  the backend and its descriptors are there exactly as long as that set has a member.
  `PrefixNests` is not inductive, since `setPrefix` goes back to `m_basePrefix`:
  `Nesting` adds that this reads as the words that have been inherited, or is empty
  after a move. Where nothing has been set there is no blank but at the end
  (`Single`), since the constructor of a nested Logger takes that of the outer prefix
  off, and no name has a blank. Left out are Loggers whose inherited prefix `setPrefix`
  has forgotten after a move, and what is made from them.
* **parsePriority** (`FunctionsProofs`: `NeverReadsPastTheEnd`,
  `TakesTheWordsAndNothingElse`). Both are stated of every sequence of characters,
  which is more than can be typed in the specification. A chain that agrees with
  letters ends before the NUL, since no letter stands for a NUL, and the position
  after it is the first that the next condition reads. A chain that ends where the
  text does says that the text, in small letters, is the word; two chains, one after
  the other, say that it is the two words put together; and the words of the branches
  are those of the table, none of which is there twice.
* **printException** (`FunctionsProofs`: `EveryCauseIsPrinted`). A cause is older than
  what it has caused (`Made`), so that the recursion of `printException_` ends: there
  is a function that does what `Returns` says. What a call prints follows from what
  the call for the cause has printed, and so for all exceptions, since there is no
  oldest one for which it fails. The causes are the least set with the exception that
  has the cause of each of its members, so that they are the exception and the causes
  of its cause.

Each follows the same plan: the invariant holds initially, every action of `Next`
preserves it (one step per action, one lemma for the long ones), and it implies the
property. The assumptions say what the code says or what is outside it:
`BackendAssumption` the kinds of the constants, `AcyclicAssumption` the todo at
Backend.h:51, `HighestAssumption` the finiteness of any program,
`EarlyAppenderAssumption` the assertion of the constructor, `HandoffAssumption` that one
of the priorities is the least urgent (FullDebug), `FileSinksAssumption` that
the descriptors of the standard streams are not among those given out,
`LoggersAssumption` that the objects are distinct and that the names clients give have
no blank, and `MCFunctionsAssumption` that no character of a text is the NUL that ends it.

Induction over data uses no induction theorem, as these take an operator as an
argument: where it is needed (the age of an exception) the proof takes the least number for which the claim fails, which exists since the
numbers are well-founded (`WFMin`), and shows that it does not fail for that one.

Every invariant and action property that a run checks is the statement of a theorem.
Only model-checked is liveness, `EveryCallReturns`, which is out of the prover's reach,
as is `ENABLED`. `Implementation` is about initial states and steps; what fairness
gives to `AtomicBackend` is not part of it.

## 5. What is not modelled

* Formatting of time stamps and of priorities, the digits of numbers, `Uuid`: only
  the length of what they print matters to the buffer.
* `Exception.h/.cpp` (class definitions) and `boost::validate` (a wrapper of
  `parsePriority`).
* The wording of a printed exception, beyond which exception it is about and which
  of how many.
* `LogHardBackend_lastError` and its like, and the lock inside the objects of the C
  API, which macros of another library generate (`sharemind/lasterror.h`,
  `sharemind/recursive_locks.h`). `Loggers` has the errors that the code in `src`
  stores.
* `LogHardBackend_setPriority`: a switch over the same six values before
  `Backend::setPriority`, which module `Backend` has.
* What a failed `fsync` does to the pages it did not write (see FileSinks in 2).
* The reading of `priority` and `threshold` as torn values: one is read under the
  lock, the other is atomic. The unlocked read of `m_priority` at Backend.cpp:42 sees
  the old or the new value.
* Appenders of clients that call back into the library.

## 6. What the code does that it says it does not

* EarlyAppender.cpp:91 asserts `s.empty()`; after `clear()` it is not
  (`NextStringEmpty`). EarlyAppender.cpp:106 asserts `size > m_maxMessageSize`; a
  string reserved for exactly that many characters is full at that size
  (`CutIsLonger`).
* SyslogAppender.cpp:67 asserts `m_singleInstance == this`; two constructors at
  once both register (`DestroysItself`).

Other behaviour met while modelling, about which the code states nothing:

* A formatted value that is as long as the free space loses its last character, and
  one that is longer ends the message without dots, because `snprintf` has put a NUL
  before them (Logger.cpp:107). A prefix longer than the buffer is cut silently.
  `CutIsMarked` excludes both (`silent`).
* `clear()` pops the last entry whether it is the notice or not, and `m_oom` stays
  set: after a first overflow later ones are silent, and a `clear()` without overflow
  loses a message and its string. A message recorded into a reused string without
  memory comes behind the old text (`OwnText` is about the time before).
* The constructors of EarlyAppender throw where `reserveEntries + 1` overflows; the
  model has sizes for which it does not.
* `doLog` of a `CFileAppender` returns as if the line were safe where `writev` has
  written a part of it, or `fsync` has failed.
* An object of the C API whose mutex cannot be initialized is never deleted
  (LoggerC.cpp:37, BackendC.cpp:44), so that its Backend and the descriptors of that
  live for ever. `OwnersKeepAlive` and `FilesBalance` count it as an owner.
* A sink that is attached to two backends is entered by two threads at once, and
  builders inside one another mix their texts; `SinkExclusion` and `PrefixDelivered`
  are about sinks with one backend and statements that have the buffer for themselves.
* The move constructor of `Logger` leaves `m_basePrefix` empty (Logger.cpp:240), so
  `setPrefix` then forgets the inherited prefix, which a copy keeps; `basePrefix()`
  returns `m_prefix` (Logger.h:197).
* `setPrefix` does not take off the blank between the outer prefix and the new one,
  which the constructor of a nested Logger does: the prefix then has two.
* The constructors of `Logger` that make a prefix are `noexcept`, so that running
  out of memory there ends the program although the C API would report it.
* `printException(e, formatter)` calls an overload of `printCurrentException` that
  does not exist (Logger.h:273).

## 7. Plan

Done, in this order: Backend, MessageBuilder, EarlyAppender, SyslogAppender and
their proofs, PriorityParser, FileSinks, Loggers; then AtomicBackend and the
refinement, the proofs about deliveries and deadlock, Handoff, ExceptionPrinter and
the proofs of MessageBuilder's text, of EarlyAppender's contents and of Loggers.

Then came the proofs about FileSinks, about the prefixes of Loggers and about both
functions, for which the positions of words, the causes of an exception and the
recursion of `printException_` were written without recursive operators.

What is left is not more of the code, of which only formatting and wrappers are not
modelled (see 5), and no invariant that runs check but is not proved. It is to make
what is proved say more: that `Handoff`, whose `Log` is one step, may be put on top of
`Backend` (`SinksAreExclusive` is the fact it needs), and that what `AtomicBackend`
promises implies the order and the completeness of deliveries by itself.
