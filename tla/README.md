# A specification of the call center server

The program is a server that pretends to be a call center. An HTTP request
`/phone=<number>` is a call: it waits in a bounded queue until one of a pool of
operators (threads) takes it, lasts for a random time, and is answered with a
status. `/update` and a monitor thread read the configuration file again and
apply it while calls are being served. These TLA+ modules model how the threads
of the server interact; TLC checks them on small instances and TLAPS proves the
most important invariants for all instances.

Paths below are relative to the root of the repository.

## 1. The system

| Part | State | Operations |
|---|---|---|
| `Queue` (`src/queue.cpp`) | the vector `queue_`, its limit, the recorders | `push` (refuses a call when full, replaces a waiting call from the same number), `front`, `pop`, `empty`, `update`, `writeCDR` |
| `ThreadPool` (`src/threadpool.cpp`) | operators, `task_queue_mutex`, `tasks_access`, atomic flags `stopped`, `paused`, `waitForCompletion` | `add_task`, `start`, `stop`, `transferObjects`, constructor, destructor, and `run` on each operator |
| `Task` (`src/task.cpp`) | the CDR with its times, the bounds of its duration, the promise, a view of the number | `doTask` |
| `Manager` (`src/manager.cpp`) | the current pool, `RMin_`, `RMax_`, `updateMtx` | `addTask`, `update`, `setNewThreadPool`, `processRequestForUpdate` |
| `ThreadSafeConfig` (`src/config.cpp`) | the values, `updated`, `notToUpdate`, `lastWriteTime`, `configMutex` | `updateConfig`, `updateWithRequest`, `isUpdated`, getters, the monitor thread |
| `Config` (`src/config.cpp`) | the same values with no thread and no mutex; only tests construct it | `updateConfig`, `updateWithRequest` |
| `JsonParser` (`src/jsonParser.cpp`) | the fields of a file | `parse`, `output`, `outputConfig` |
| `HttpServer` (`src/httpServer.cpp`) | one detached thread per request | `/phone=`, `/update` |
| `ManagerBuilder`, `FileRecorder`, `commonStructures`, `main` | | wiring, formatting |

How they interact:

- A request thread calls `Manager::addTask`, which holds `updateMtx` shared and
  calls `ThreadPool::add_task`, which holds `task_queue_mutex`, calls
  `Queue::push` and notifies one operator. The thread then blocks in
  `future.get()`.
- An operator takes a call under `task_queue_mutex`, serves it with no mutex,
  has the record written and sets the promise.
- `ThreadSafeConfig` calls `Manager::update` (with no lock of its own), which
  holds `updateMtx` exclusively and calls the getters back. If the number of
  operators is to change it builds a new pool, stops the old one, gives the
  queue to the new one, destroys the old one (joining its operators, however
  long their calls last) and starts the new one.
- The two pools have a mutex each and, between the transfer and the join, one
  queue.

What is hard about it: the flags of a pool are set outside the mutex that the
condition variable uses; a pool is replaced while its operators are asleep, on
their way to sleep, at work or about to take a call; the configuration is read
one value at a time while it may change; a flag and a time stamp are shared by
the monitor and all requests; a task refers to memory of its caller.
`PROJECT.json` lists each hazard at its line.

What makes each part correct:

- Queue and pool: a call that was accepted is never lost, never in two places
  and answered once; nobody takes a call from an empty queue; the record and
  the answer agree; no operator sleeps while a call waits; the destructor
  returns.
- Task and server: how long a caller waits is bounded, whatever the line, and so
  is how long an update that replaces the operators keeps everybody waiting;
  records and replies tell the truth about when a call came, was taken and
  ended, by the bounds it came with; calls have different identifiers.
- Manager: the same across the replacement of a pool; the queue is never
  touched under two mutexes at once; old and new pool never serve together;
  the pool that serves has all its operators; updates return.
- Configuration: values are in range whatever the file says; the manager can
  work with what it read at any time, and ends up with the configuration; every
  edit is read; a request is told what became of it.

## 2. The modules

| Module | Models | State and actions |
|---|---|---|
| `Queue` | `queue.cpp`, the promise and the CDR of a task, the files of the recorders | Each operation is one operator: they all run under a mutex that `ThreadPool` models. |
| `ThreadPool` | `threadpool.cpp`, and `future.get()` of `httpServer.cpp` | Operators, one thread per call and the owner of the pool, each with a program counter. Actions take the pool as a parameter. |
| `CallCenter` | nothing of the code: what the center promises, with no threads, locks or flags | Calls join a line, are taken in its order, answered once with one of the `Outcomes`. |
| `Manager` | `manager.cpp`, `transferObjects`, on two places for pools | EXTENDS `ThreadPool`; the owner's thread runs `update()` step by step. |
| `JsonParser` | `jsonParser.cpp`: which files parse, which have an output, which values they give | Operators; a file is the fields that it has. |
| `PlainConfig` | `Config`, the class without threads | One action for `updateWithRequest`. It is also the abstract specification of the next. |
| `Config` | `ThreadSafeConfig`, `processRequestForUpdate`, and what `update()` reads | The file, a clock in seconds, the monitor and the request threads. |
| `Task` | `task.cpp`, against a clock | EXTENDS `Queue`. Calls arrive, operators take them and sleep, updates change the bounds and the staff, time passes. |
| `HttpServer` | `httpServer.cpp`, `generateCallID` | EXTENDS `Task`. Each request is carried out by a thread and gets a reply or none. |
| `MCThreadPool`, `MCManager`, `MCConfig`, `MCHttpServer` | instances for TLC | |
| `QueueProofs`, `ThreadPoolProofs`, `CallCenterProofs`, `ManagerProofs`, `ConfigProofs`, `TaskProofs`, `HttpServerProofs` | | theorems and proofs |
| `WakeupProofs` | | theorems and proofs about the mutexes and condition variables of `ThreadPool` and `Manager` |

A step of `ThreadPool` is what a thread does between two points where another
thread can see it. `run` is the states `loop` (`while (!stopped)`), `lock`,
`test` (the predicate of `wait`), `block`, `wait`, `ready` (`run_allowed()` once
more), `take` (`processTask`), `exec` (`doTask` and `writeCDR`), `reply`
(`set_value`), `rethrow` (the handler of `executeTask`), `finish` and `drain`
(the two reads of line 49), `exit`. The test of the predicate and the blocking
are two steps, although the operator has the mutex throughout: `start()` and
`stop()` do not take the mutex, so they may run in between. That gap is what
`ManagerLostWakeup` finds. Spurious wakeups are steps.

A call is a task and the thread of its request at once. Its states are `new`,
`entered` (in `Manager::addTask`), `push` (in `add_task`, with the mutex),
`get`, `done`, and `failed` (its number did not parse). Numbers are model
values: only their equality matters, and whether `std::stoll` accepts them.

In `Manager`, `updateMtx` has no variable: it is held exclusively exactly while
the owner is not `running`, and shared by the calls that are `entered` or
`push`. The server accepts no connection before the first `startThreadPool`
returns, so the owner holds it then too. A shared lock is never upgraded, so
this is the mutex and not an approximation of it.

A file (`JsonParser`) is the fields that it has, or `Broken`, or `Missing`. The
difference between `parse`, which accepts a file that lacks a field, and `output`,
which throws for it, matters: `Config` takes such a file and works with 0, then
normalised; the constructors of both classes take it as it is; but
`ThreadSafeConfig::updateConfig` logs `output()` before it assigns anything, and
so refuses it. In `Config`, `parsed` is a history variable that records whether
the update of a thread succeeded; no step depends on it. The manager's part is
reduced to `updateMtx` and the four values it applies, because `Manager` has the
rest.

`Task` is the same queue seen from the clock. `ThreadPool` has threads and no
time; in `Task` a thread that can run takes no time, so `Tick` waits until no
operator has anything to do but sleep, and what happens between two readings
of the clock (`addTask` and `push`, `doTask` and `setCdrValues`) happens in one
second. `addTask` stamps the call after it has `updateMtx`, so the time for which
an update keeps callers waiting is not part of their age. Operators are a
number, `staff`. An update that builds a pool of another size (`updateManager`)
leaves `newStaff` different from it, which is `replacing`: updateMtx is held and the
old pool is stopped, so no call comes in and no call is taken until the last
operator at work has ended, and the new staff begins (`setNewThreadPool`). That
threads take no time hides one thing: the notification of `start()` that
`ManagerLostWakeup` shows to get lost is never missed here. The unit of the clock
is a second, and the code truncates ages to seconds.

`HttpServer` adds what a client sees. The thread of a request has an identifier
while it is blocked in `future.get()`, and a new thread may have the identifier
of an ended one (`FreeIds`), as the identifiers of POSIX threads do. A request
for `/update` changes the bounds, the limit and the staff at any time, and is
answered when the operators are replaced; so does the monitor. `Config` says when
they do and what the reply is.

Each `\* Mutant` operator is a plausible bug of the definition after it. No
specification uses them: they show which bug makes which property fail.

## 3. The runs

| Run | Instance | Shows |
|---|---|---|
| `PoolInterface` | 3 calls (two from one number), 2 operators, limit 2, one recorder, tasks that throw, start / stop / restart / destroy in any order, calls before `start` | `PoolTypeOK`, `NoCallLost`, `NoCallTwice`, `RecordMatchesAnswer`, `NeverPopsEmpty`, `JoinedAwake`, `AnswerFinal`, and the pool implements `CallCenter` (`ServesInOrder`) |
| `PoolFair` | 3 calls (two from one number), 2 operators, limit 2, a pool that is started before its first call | `NoIdleOperator`, `EveryCallAnswered`, and the pool implements `CallCenter` with its fairness (`ServesFairly`) |
| `ManagerSwap` | 3 calls (a duplicate and a number that does not parse), 3 operators in 2 places for pools, a first pool of 1 operator and new pools of 1 and 2, limit first 1 and then 2 | `ManagerTypeOK`, `NoCallLost`, `NoCallTwice`, `QueueGuarded`, `OnePoolServes`, `OperatorsStay`, `NumberAlive`, `DistinctNumbers`, `MutexesHeld`, `OldPoolAwake`, `AtMostOneMisses`, and the server implements `CallCenter` (`ServerServesInOrder`) |
| `ManagerLive` | 2 calls, a first pool of 1 operator and new pools of 2 | `UpdateReturns`, `EveryCallReturns` |
| `ConfigUpdates` | the monitor and 2 requests, a first file that is usable or broken, edits to one with values out of range, one with the same number of operators, and none; edits within a second; clock up to 2 | `ConfigTypeOK`, `ManagedUsable`, `AppliedWhenQuiet`, `UpdatesInRange`, `OnlyRequestsLoseEdits`, `RequestsReply`, `MonitorReadsEdits`, and `ThreadSafeConfig` implements `Config` (`ImplementsConfig`) |
| `ServerCalls` | 4 calls (two from one number, one from what is no number), requests of the other kinds, configurations with 1 and 2 operators, limits 1 and 2, bounds 1..2 and 1..1 | `ServerTypeOK`, `AnsweredInTime`, `UpdateInTime`, `RecordTimes`, `TakenInOrder`, `RepliesTrue`, and the server against a clock implements `CallCenter` (`TimedServesInOrder`) |

`MonitorReadsEdits` is what is left of the promise of the Readme that a modified
file is read again: the monitor alone keeps it for edits whose whole seconds
differ from what it has looked at, while there is a file and nobody requests an
update. Each of the three conditions is needed. A second edit within a second
looks like the first; a poll that meets no file ends the thread; and a request
may stamp a time after the edit, which is the finding `ConfigLostEdit`.
`OnlyRequestsLoseEdits` is its part that needs no fairness, and it holds with
requests too: what looks newer to the monitor stays so until somebody reads it,
and the stamp of a request is the only step that can end that otherwise.

`AtMostOneMisses` is what is left of the promise that `ManagerLostWakeup` refutes:
`start()` may miss one operator, never two. `JoinedAwake` and `OldPoolAwake` say why
the destructor may join: no operator of the pool sleeps, and none that saw
`stopped` unset is about to. `MutexesHeld` compares each mutex with the places of all
threads: the exception of a number that does not parse, `wait` and
`transferObjects` release what they have, and nothing else.

`ManagedUsable` is about a mixture: `update()` reads one value after another while
other threads change them, and what it works with at any moment must still be
ordered bounds, an operator, and room for a call.

Six runs show where the program does not do what its documentation says:

| Run | Property | What happens |
|---|---|---|
| `ManagerLostWakeup` | `StartWakesOperators` | `start()` of the new pool notifies between an operator's test of the predicate and its wait: calls that were moved to the pool wait while that operator sleeps. |
| `ManagerJournal` | `AnswersInJournal` | The builder makes the recorders and attaches them to no queue: no call is ever written to the journal. |
| `PoolTerminates` | `NeverTerminated` | A task that throws has its exception set twice; the second `set_exception` throws out of the thread's function. |
| `ConfigStaleReply` | `ReplyIsMine` | `isUpdated` resets one flag for all: of two updates that succeed, one is answered "Could not update". |
| `ConfigLostEdit` | `EditsAreRead` | A request stamps the time when its update ends, so the monitor never reads an edit made during the update. |
| `ServerCallIds` | `CallIdsUnique` | A second call from a number, in a thread with the identifier of an ended one, gets the CallID of the first. |

### Bounds

- Two operators are enough for one to hold a call while the other sleeps,
  tests or takes; three operators in two pools are enough for an old and a new
  pool of different sizes. Operators are interchangeable, so the runs of
  invariants use symmetry; runs of liveness do not.
- Three calls, two of them from one number, reach every branch of `push` at
  limit 1 and 2: a full queue, a duplicate at the front and behind another
  call, and an empty queue. The real limits are 15 to 350; the code compares
  the length with the limit and does nothing else with it.
- Two places for pools are enough: `setNewThreadPool` joins the old pool before
  `update()` ends, and updates exclude each other.
- `MaxTime` bounds the clock of `Config`. Two or three seconds allow an edit, an
  update that takes a second, and another edit during it. When the clock stops
  nothing else does, which is why `EditsAreRead` can be checked.
- `SameSecond` says whether the file may change twice within a second, which the
  code, comparing whole seconds, cannot see. `ConfigUpdates` has such edits;
  the runs of `ReplyIsMine` and `EditsAreRead` do without them, so that what they
  find does not rest on them.
- `MaxTime` of `Task` bounds only the time at which nobody is served: while an
  operator is busy the clock goes on and calls arrive. It is 0 in `ServerCalls`,
  which leaves out nothing but gaps in which the server is idle. With one or two
  operators and durations of one and two seconds a call of the four waits for
  none, one or two others, is taken before, at and after its `RMax`, and finds
  updates before and after it came, and one that waits for an operator at work.
- One request `r1` stands for each kind that is not a call: it may be any of them,
  and carries out no more than one. What the monitor does it may do at any time.
  The identifiers of threads are interchangeable where CallIDs are not looked at
  (`MCNoHash`), and so used with symmetry.
- `EarlyEdits = FALSE` in the run of `EditsAreRead` means that nobody edits the
  file between its first reading and the first look of the monitor at it.
- Deadlock is checked in all runs except those of `Config`, where threads end,
  the clock stops, and so the system may stop. A pool that has been destroyed
  stutters by the action `Ended`.

### Fairness

`PoolFairness` and `ManagerFairness` give weak fairness to each step of a thread
that needs no other thread, and strong fairness to locking a mutex: the code
releases each mutex after a few steps, and the specification assumes that a
thread that finds it free again and again gets it at last (`std::mutex` does not
promise this; schedulers provide it). Nothing is assumed of new calls, new updates, `stop`, the decision to
destroy, or spurious wakeups. In `ManagerFairness` an update that has begun goes
on, since `update()` has no exit but its end. That a call ends is the weak
fairness of `doTask`: it is a `sleep_for`. `ConfigFairSpec` gives weak fairness to
the monitor, which wakes each minute, and to each request that has begun.

`EveryCallReturns` needs new pools of at least two operators, and the
configuration grants them (`normalizeAmountOfOperators`; proved in
`ConfigProofs`). With one operator that missed the notification of `start()`,
the calls that were moved with the queue would wait until the next call comes.

## 4. What is proved

All theorems hold for every value of the constants that satisfies the
assumptions of the modules, named `...Assumption`, which TLC evaluates in every
run. Four theorems assume in addition, where they are stated, that the set of
operators is finite; `NobodyIdle` assumes what the run `PoolFair` chooses, too.

### One pool: `ThreadPoolProofs`, `CallCenterProofs`

For any sets of calls, numbers, operators and recorders, any limit, with and
without tasks that throw:

- `Invariance`: `PoolSpec => []PoolInv`.
- `TypeCorrectness`, `NothingLost`, `NothingTwice`, `NumbersAlive`, `PopsSafe`,
  `AnswersFinal`: the properties `PoolTypeOK`, `NoCallLost`, `NoCallTwice`,
  `NumberAlive`, `NeverPopsEmpty`, `AnswerFinal`.
- `NumbersDistinct`, `AnswersRecorded`: `DistinctNumbers`, `RecordMatchesAnswer`.
- `NobodyIdle`: with finitely many operators, in a pool that is started before its
  first call and not stopped (`EarlyCalls` and `OwnerMayStop` are `FALSE`),
  `NoIdleOperator`.
- `ImplementsCallCenter`: with finitely many operators, `PoolSpec` implements
  `CallCenter` (`ServesInOrder`).

None of these is inductive alone. `PoolInv` adds what makes them so:

- `MutexHeld`: an operator between `lock()` and `unlock()` has the mutex. Without
  it another operator could empty the queue behind one that is about to take.
- `TaskHeld`: an operator has a task exactly from `processTask` to the end of
  `executeTask`, so that `cdr` and `promise` are only changed for calls.
- `Ownership`: waiting calls are of blocked callers, unanswered and distinct
  (`WaitingBlocked`, `QueueDistinct`); a call with an operator has a blocked,
  unanswered caller until its promise is set, and is with one operator
  (`ServedBlocked`, `TasksDistinct`); a call that `add_task` has not let go is
  nowhere and unanswered (`EnteringUnanswered`).

Most steps are `Quiet`: no call moves. What remains is `CallStep(p)`: an operator
takes a call, serves it or ends it, or a caller pushes one. The lemmas about
`CallStep` (`TakeStep`, `AnswerStep`, `PushStep`, `GetStep`, `TaskStep`, `AnswerKept`,
`NumbersStep`, `ReplyStep`, `ViewStep`) assume `CallsInv`, which does not mention the
mutex, and hold for any pool `p`, so the proofs about `Manager` use them too.

`RecordMatchesAnswer` needs `RecordInv`: the record of a call is written before
its answer, by the operator that will give the answer or by the queue, and
nobody wrote one before. `NoIdleOperator` needs `Wakeful`: an operator that is about
to block, and has the mutex, has seen an empty queue, so no call can come between
its test and its wait. That is where `start()` differs from `push`, and why the
assumption that it precedes the calls cannot be dropped: with calls that come
earlier, or move with the queue, its notification may get lost (`ManagerLostWakeup`).

The refinement needs `ReplyKnown`, what an operator is
about to answer, and `FreeOperator`: the operators map onto the calls they
serve, so one operator without a call leaves room for one more in service.

`QueueProofs` has the lemmas about `push` that the other modules cite: what a
replacement leaves of the queue (`ReplaceFacts`), the cases of `push` (`PushCases`),
which calls it answers (`PushAnswers`), where the others are then (`PushPlaces`),
that it keeps their order (`PushOrder`) and their numbers distinct (`PushNumbers`).

### Pools that replace each other: `ManagerProofs`

For any number of updates, any amounts of operators and limits that they name,
and any interleaving with operators and callers:

- `ManagerInvariance`: `ManagerSpec => []ManagerInv`.
- `ManagerTypeCorrectness`, `UpdatesLoseNothing`, `UpdatesRepeatNothing`,
  `UpdatesPopSafely`: `ManagerTypeOK`, `NoCallLost`, `NoCallTwice`, `NeverPopsEmpty`.
- `QueueIsGuarded`, `OneServes`, `OperatorsRemain`: `QueueGuarded`, `OnePoolServes`,
  `OperatorsStay`.
- `UpdatesKeepNumbers`, `UpdatesKeepDistinct`, `UpdatesKeepAnswers`,
  `UpdatesKeepRecords`: `NumberAlive`, `DistinctNumbers`, `AnswerFinal`,
  `RecordMatchesAnswer`.
- `ImplementsStaffedCenter`: with finitely many operators, the server with its
  updates implements `CallCenter` (`ServerServesInOrder`).

`ManagerInv` is `CallsInv` and `PoolsControl`:

- `PoolsInv`: an operator is in one pool, and a pool with operators is the
  current one, or the other one of an update under way.
- `CallersInv`: nobody is in `addTask` during an update, and a caller in `push` has
  the mutex of the current pool.
- `MutexInv`: each operator locks the mutex of its own pool, and the owner has
  the two that `transferObjects` locks.
- `FreshInv`: a pool that has not been started is paused, and its operators are
  at places where they have found nothing to do, even when they already have
  the queue.
- `StayingInv`: a pool that is current, unless it has been stopped, or that is
  about to become current, has not been stopped, and its operators have not
  ended.

From `PoolsInv` and `FreshInv`, the operators that are not idle are all in one pool
(`Active`: the old one while it is being destroyed, else the current one). So
whoever takes or pushes a call has the mutex of that one pool (`OneUser`), which
is why two mutexes do guard one queue. For the refinement, only the join of the
old pool changes the staff, and then nobody is in service (`StaffStep`).

### Mutexes and sleeping operators: `WakeupProofs`

The parts of "every update returns" and "every call returns" that need no
fairness, for any number of calls, operators and updates:

- `MutexesExact` (`MutexesHeld`). `ManagerInv` says that a thread in its section has
  the mutex; `HoldersInside` is the converse. The two together are inductive.
- `JoinsAwake` (`JoinedAwake`) and `UpdateJoinsAwake` (`OldPoolAwake`): for one pool,
  whose owner may destroy it at any time, and for the old pool of an update. The
  invariant speaks of the steps before the join: once `stopped` is set, and it is
  set while nobody has the mutex, no operator is between its test of the
  predicate and its wait, so `notify_all` finds everybody who sleeps.
- `StartMissesOne` (`AtMostOneMisses`), with finitely many operators. `FewAsleep` is the
  choice between two states: every waiting call has an operator on its way, or
  at most one operator sleeps or is about to. `start()` establishes the second: the
  operators that its notification does not find asleep have the mutex, and only
  one can. From the second state an operator can go to sleep beside the sleeper
  only after it has seen an empty queue, which is the first state; a push leads
  from each state to one of the two.

### Time: `TaskProofs`, `HttpServerProofs`

For any sets of calls and requests, any bounds up to `Longest`, any limits and
numbers of operators, and any updates:

- `TimeInvariance`, `RecordInvariance`: `TimeInv` and `RecordInv` hold of `TaskSpec`.
- `ServerDrivesTasks`: `ServerSpec => TaskSpec`. Every handler of the server is a
  step of `Task` or leaves it alone, so what holds of `Task` holds of the server.
- `ServerInvariance`, `ServerTypeCorrectness`, `ServerAnswersInTime`,
  `ServerUpdatesInTime`, `ServerTakesInOrder`, `ServerRecordsTimed`,
  `ServerRepliesTrue`: the properties of the run `ServerCalls`.
- `TaskImplementsCenter`, `ServerImplementsCenter`: `TaskSpec` and `ServerSpec`
  implement `CallCenter` (`TimedServesInOrder`). So the three detailed models, one pool
  with its threads, pools that replace each other, and the server against a
  clock, implement one abstract specification.

`AnsweredInTime` says that no caller waits for `2 * Longest` seconds, however many
calls are in line and however few operators there are. The bound is not that of
the queue's length times the longest call: while somebody waits and time
passes, all operators are busy, or an update waits for those that are; a busy
operator took its call before that call was `RMax` old and will be free within
another `RMax`; and its call arrived no later than any that waits. So when time
passes, no waiting call can be two `RMax` old. `Sleeping` (a busy operator sleeps
for at most `Longest`, and took its call within `Longest`) and `ArrivalOrder` (the
queue is in the order of arrival, behind all calls in service) are the two
parts of `TimeInv` that this rests on. `UpdateInTime` rests on `Joining`: the calls
that an update waits for were taken before it began. These are safety
properties: they say that no call and no update is ever too old. That the
operator does wake is fairness.

`RecordInv` says where each call is and what its record has so far: unrecorded
while it waits, judged by the bounds it came with when it is taken, and closed
when it is answered; `RecordTimes` and, with `RepliesKnown` (a reply is the text for
the status in the promise), `RepliesTrue` follow from it. The refinement uses the
places and the statuses of `RecordInv`, that each number waits once (`push` replaces
the only call from its number), and that the staff is that of a configuration.

### Configuration: `ConfigProofs`

For any contents of the file, any edits and any number of requests:

- `NormalizedInRange` and `NormalizeIdempotent`: the normalisation of any four
  integers is in range, and normalising twice is normalising once. The two
  bounds are clamped to different ranges and then exchanged, so neither is
  obvious.
- `ConfigTypeCorrectness` (`ConfigTypeOK`, in which a thread holds a mutex exactly
  while it is in the code that the mutex guards), `UpdatesAlwaysInRange`
  (`UpdatesInRange`).
- `AlwaysUsable` (`ManagedUsable`): if the first file is usable, the manager always
  has an operator, room for a call and ordered bounds. By `UsableInv`, and because
  `getMinMax` reads both bounds under one lock.
- `AlwaysApplied` (`AppliedWhenQuiet`): by `QuietInv`, one part for each value: the
  manager has it, or a thread has yet to read it.
- `EditsStayToBeRead` (`OnlyRequestsLoseEdits`): by cases of the step. Of the monitor's own
  steps, the poll copies the time of the file before the file is read, so an
  edit between the two is read twice rather than never, and the stamp takes that
  copy and not the clock.
- `ImplementsPlainConfig` (`ImplementsConfig`): `ThreadSafeConfig` implements `Config`.
  `GateInv` is for the case in which the first file could not be read: nobody
  reaches `updateConfig` then.

### Only model-checked

- Liveness under fairness, and the implementation of `CallCenter` with its
  fairness: `EveryCallAnswered`, `ServesFairly`, `EveryCallReturns`, `UpdateReturns`,
  `RequestsReply`, `MonitorReadsEdits`. `ENABLED` and fairness are out of the
  prover's reach.
- What the six runs of section 3 refute.

## 5. What is not modelled

- Logging, and the data races on `logger_`. What a torn read of the vector by
  `run` line 49 may return: the read is modelled as returning the state of the
  queue before or after any concurrent change.
- `setTaskQueue`, `setNewConfig`, `back`, `addPromise`: only tests call them.
  `setThreadID`, whose value only the journal shows. `completed_task_count`,
  `is_working`, `wait_access`: nothing reads them or waits for them.
- Sockets (a request that cannot be read, a reply that cannot be sent, an
  `accept` that fails and ends `run`), the syntax of JSON, the layout of the
  journal, the text of replies, `operatorID`.
- The steps inside an update together with a clock: in `Task` an update is its
  beginning and its end, in `Manager` it has all its steps and no time. So the
  notification of `start()` that `ManagerLostWakeup` shows to get lost is not in
  `Task`, and `AnsweredInTime` is about servers in which it is not lost.
- `stop` followed by `start` of one pool is in `PoolInterface` although the
  program never restarts a pool. What it would meet there, and no property
  states: an operator that finds the queue empty after `stop()` ends for good
  (line 50), and `getSize` still counts it. `OperatorsStay` is that `Manager` never
  gets there.
- `main`, the load test and the build files.

## 6. Plan

Done, in this order: `Queue`, `ThreadPool` with `CallCenter`, `Manager`, `Config`,
the proofs about one pool and about normalisation, `Task` and `HttpServer` with a
clock and the proofs about them, `PlainConfig` and `JsonParser` with the refinement
of `Config`, the replacement of operators in `Task`, the proofs about records,
replies and the configuration, the refinement of `CallCenter` by one pool, the
invariant and the refinement of `Manager`, `NoIdleOperator`, the properties of calls
across updates, mutexes and sleeping operators (`WakeupProofs`), what requests may
lose of the monitor's edits, and the refinement of `CallCenter` by the server
against a clock.

Next, for the model:

1. The server as a whole: `Manager` and `Config` composed, so that the monitor
   and the requests drive the same updates, each with all of its steps.
2. `CallCenter` with a clock, so that the abstract specification promises when
   a call is timed out, and `HttpServer` shown to implement that too.
