----------------------------- MODULE ThreadPool -----------------------------
(***************************************************************************)
(* The pool of operators (src/src/threadpool.cpp): worker threads that     *)
(* take calls from the queue under a mutex and a condition variable, the   *)
(* threads that add calls, and the thread that starts, stops and destroys  *)
(* a pool.  A step is what a thread does between two points where another  *)
(* thread can see it: an atomic flag, the mutex, the condition variable,   *)
(* a promise.                                                              *)
(*                                                                         *)
(* The actions take the pool p as a parameter, because Manager replaces a  *)
(* running pool by a new one that works on the same queue.  Spec below is  *)
(* one pool by itself, under the operations of its interface.              *)
(***************************************************************************)
EXTENDS Queue, FiniteSets

CONSTANTS
    Pools,          \* places for ThreadPool objects
    Operators,      \* the worker threads that pools may create
    NoCall, NoThread, \* "no task", "mutex free"
    Owner,          \* the thread that constructs, starts, stops and destroys pools
    BadNumbers,     \* the numbers that std::stoll rejects
    TaskMayThrow    \* whether doTask may throw a std::exception

\* The threads that lock a task_queue_mutex: operators, callers, each named by
\* its call, and the owner.
Threads == Calls \cup Operators \cup {Owner}

ASSUME PoolAssumption ==
    /\ NoCall \notin Calls
    /\ NoThread \notin Threads
    /\ Calls \cap Operators = {}
    /\ Owner \notin Calls \cup Operators
    /\ BadNumbers \subseteq Numbers
    /\ TaskMayThrow \in BOOLEAN

VARIABLES
    threads,            \* threads[p]: the operators of pool p, {} if there is no such pool
    task_queue_mutex,   \* task_queue_mutex[p]: its holder
    hasQueue,           \* hasQueue[p]: p works on queue_, not on its own empty queue
    stopped, paused, waitForCompletion,  \* the atomic flags of each pool
    operatorPc,         \* where each operator is in ThreadPool::run
    task,               \* task[o]: the call that operator o serves
    callerPc,           \* where the thread of each call is in add_task and future.get
    ownerPc,            \* where the owner is
    terminated          \* std::terminate ended the process

flags == <<hasQueue, stopped, paused, waitForCompletion>>
poolVarsButOwner == <<threads, task_queue_mutex, flags, operatorPc, task, callerPc, terminated>>
poolVars == <<poolVarsButOwner, ownerPc>>
vars == <<queueVars, poolVars>>

OperatorStates ==
    {"none",     \* no such thread
     "loop",     \* while (!stopped)
     "lock",     \* about to lock the mutex
     "test",     \* holds it, about to test the predicate of wait
     "block",    \* holds it, the predicate was false
     "wait",     \* blocked in tasks_access
     "ready",    \* holds it, out of wait, about to test run_allowed again
     "take",     \* holds it, run_allowed was true
     "exec",     \* in executeTask
     "reply",    \* the CDR is written, the promise is not yet set
     "rethrow",  \* the exception of doTask reached executeTask
     "finish",   \* executeTask returned, about to read waitForCompletion
     "drain",    \* about to read task_queue->empty(), without the mutex
     "exit"}     \* run returned

CallerStates ==
    {"new",      \* not started
     "entered",  \* in Manager::addTask
     "push",     \* in add_task, holds the mutex
     "get",      \* in future.get()
     "done",     \* has its result
     "failed"}   \* add_task threw: no result

\* The second line is what the owner does in Manager::update.
OwnerStates ==
    {"constructed", "starting", "running", "stopped", "notifying", "joining", "destroyed",
     "booting", "resize", "compare", "build", "stop", "lockOld", "lockNew", "assign", "swap",
     "start"}

PoolTypeOK ==
    /\ QueueTypeOK
    /\ threads \in [Pools -> SUBSET Operators]
    /\ task_queue_mutex \in [Pools -> Threads \cup {NoThread}]
    /\ hasQueue \in [Pools -> BOOLEAN]
    /\ stopped \in [Pools -> BOOLEAN]
    /\ paused \in [Pools -> BOOLEAN]
    /\ waitForCompletion \in [Pools -> BOOLEAN]
    /\ operatorPc \in [Operators -> OperatorStates]
    /\ task \in [Operators -> Calls \cup {NoCall}]
    /\ callerPc \in [Calls -> CallerStates]
    /\ ownerPc \in OwnerStates
    /\ terminated \in BOOLEAN

-----------------------------------------------------------------------------
(* Threads, the mutex and the condition variable.                          *)

\* The constructor: paused, with |T| operators that start to run.
NewPool(p, T) ==
    /\ threads' = [threads EXCEPT ![p] = T]
    /\ operatorPc' = [o \in Operators |-> IF o \in T THEN "loop" ELSE operatorPc[o]]
    /\ stopped' = [stopped EXCEPT ![p] = FALSE]
    /\ paused' = [paused EXCEPT ![p] = TRUE]
    /\ waitForCompletion' = [waitForCompletion EXCEPT ![p] = FALSE]

\* The state when pool p has been constructed with the operators T, and no other.
FirstPool(p, T, limit) ==
    /\ QueueInit(limit)
    /\ threads = [q \in Pools |-> IF q = p THEN T ELSE {}]
    /\ task_queue_mutex = [q \in Pools |-> NoThread]
    /\ hasQueue = [q \in Pools |-> q = p]
    /\ stopped = [q \in Pools |-> FALSE]
    /\ paused = [q \in Pools |-> TRUE]
    /\ waitForCompletion = [q \in Pools |-> FALSE]
    /\ operatorPc = [o \in Operators |-> IF o \in T THEN "loop" ELSE "none"]
    /\ task = [o \in Operators |-> NoCall]
    /\ callerPc = [c \in Calls |-> "new"]
    /\ ownerPc = "constructed"
    /\ terminated = FALSE

\* Each kind of thread has its own place and leaves those of the others alone.
Step(o, from, to) ==
    /\ operatorPc[o] = from
    /\ operatorPc' = [operatorPc EXCEPT ![o] = to]
    /\ UNCHANGED <<threads, flags, callerPc, ownerPc>>

CallerStep(c, from, to) ==
    /\ callerPc[c] = from
    /\ callerPc' = [callerPc EXCEPT ![c] = to]
    /\ UNCHANGED <<threads, flags, task, ownerPc, terminated>>

OwnerStep(from, to) ==
    /\ ownerPc = from
    /\ ownerPc' = to
    /\ UNCHANGED <<task, callerPc, terminated>>

Lock(p, t) ==
    /\ task_queue_mutex[p] = NoThread
    /\ task_queue_mutex' = [task_queue_mutex EXCEPT ![p] = t]

Unlock(p) == task_queue_mutex' = [task_queue_mutex EXCEPT ![p] = NoThread]

Waiting(p) == {o \in threads[p] : operatorPc[o] = "wait"}

\* A woken operator has to lock the mutex before wait tests the predicate.
Wake(W) == operatorPc' = [o \in Operators |-> IF o \in W THEN "lock" ELSE operatorPc[o]]

getSize(p) == Cardinality(threads[p])

\* Mutant: nobody is notified.
notify_allNobody(p) == UNCHANGED operatorPc

notify_all(p) == Wake(Waiting(p))

notify_one(p) ==
    \/ Waiting(p) = {} /\ UNCHANGED operatorPc
    \/ \E o \in Waiting(p) : Wake({o})

-----------------------------------------------------------------------------
(* ThreadPool::run, one operator o of pool p.                              *)

Answered(c) == promise[c] # NoStatus

run_allowed(p) == hasQueue[p] /\ ~empty /\ ~paused[p]

\* A step by which an operator changes nothing but its place.
Move(o, from, to) ==
    /\ Step(o, from, to)
    /\ UNCHANGED <<queueVars, task_queue_mutex, task, terminated>>

\* while (!stopped)
Loop(p, o) == Move(o, "loop", IF stopped[p] THEN "exit" ELSE "lock")

Acquire(p, o) ==
    /\ Step(o, "lock", "test")
    /\ Lock(p, o)
    /\ UNCHANGED <<queueVars, task, terminated>>

\* The predicate of tasks_access.wait.
Test(p, o) == Move(o, "test", IF run_allowed(p) \/ stopped[p] THEN "ready" ELSE "block")

\* The operator joins the waiters and releases the mutex in one step.
Block(p, o) ==
    /\ Step(o, "block", "wait")
    /\ Unlock(p)
    /\ UNCHANGED <<queueVars, task, terminated>>

\* A condition variable may wake a waiter that nobody notified.
SpuriousWakeup(p, o) == Move(o, "wait", "lock")

\* Mutant: an operator that is out of wait takes a call without testing again.
RetestMissing(p, o) == Move(o, "ready", "take")

\* run_allowed is tested again: the flag that stop() sets without the mutex
\* may have changed, but it may change once more before processTask.
Retest(p, o) == run_allowed(p) /\ Move(o, "ready", "take")

NothingAllowed(p, o) ==
    /\ ~run_allowed(p)
    /\ Step(o, "ready", "loop")
    /\ Unlock(p)
    /\ UNCHANGED <<queueVars, task, terminated>>

\* processTask, then lock.unlock().
processTask(p, o) ==
    /\ Step(o, "take", "exec")
    /\ task' = [task EXCEPT ![o] = front]
    /\ pop
    /\ Unlock(p)
    /\ UNCHANGED <<settings, answers, terminated>>

\* doTask, which waits out the call or finds it too old (module Task), and
\* then writeCDR.
doTask(p, o) ==
    /\ Step(o, "exec", "reply")
    /\ \E s \in {"Completed", "Timeout"} : writeCDR(task[o], s)
    /\ UNCHANGED <<queue_, settings, promise, task_queue_mutex, task, terminated>>

\* Mutant: doTask swallows the exception, and its result is set after it.
doTaskSwallows(p, o) ==
    /\ TaskMayThrow
    /\ Step(o, "exec", "reply")
    /\ set_value(task[o], Exception)
    /\ cdr' = [cdr EXCEPT ![task[o]] = "Completed"]
    /\ UNCHANGED <<queue_, settings, cdrFile, task_queue_mutex, task, terminated>>

\* doTask's own handler stores the exception in the promise and rethrows.
doTaskThrows(p, o) ==
    /\ TaskMayThrow
    /\ Step(o, "exec", "rethrow")
    /\ set_value(task[o], Exception)
    /\ UNCHANGED <<queue_, settings, cdr, cdrFile, task_queue_mutex, task, terminated>>

\* executeTask is over with the task.
LeaveTask(o, from) ==
    /\ Step(o, from, "finish")
    /\ task' = [task EXCEPT ![o] = NoCall]
    /\ UNCHANGED <<queue_, settings, cdr, cdrFile, task_queue_mutex>>

\* executeTask's handler sets the exception again.  A promise that is already
\* satisfied throws, out of the handler and out of the thread's function.
SetExceptionAgain(p, o) ==
    /\ LeaveTask(o, "rethrow")
    /\ IF Answered(task[o]) THEN terminated' = TRUE /\ UNCHANGED promise
                            ELSE set_value(task[o], Exception) /\ UNCHANGED terminated

\* promise_->set_value(res).
Reply(p, o) == LeaveTask(o, "reply") /\ set_value(task[o], cdr[task[o]]) /\ UNCHANGED terminated

\* if (waitForCompletion && task_queue->empty()) break;
Finish(p, o) == Move(o, "finish", IF waitForCompletion[p] THEN "drain" ELSE "loop")

Drain(p, o) == Move(o, "drain", IF empty THEN "exit" ELSE "loop")

\* Every step of an operator that needs no other thread to move first.
RunStep(p, o) ==
    \/ Loop(p, o) \/ Test(p, o) \/ Block(p, o)
    \/ Retest(p, o) \/ NothingAllowed(p, o) \/ processTask(p, o)
    \/ doTask(p, o) \/ doTaskThrows(p, o) \/ SetExceptionAgain(p, o)
    \/ Reply(p, o) \/ Finish(p, o) \/ Drain(p, o)

run(p, o) == RunStep(p, o) \/ Acquire(p, o) \/ SpuriousWakeup(p, o)

-----------------------------------------------------------------------------
(* add_task and future.get, the thread of call c.                          *)

AddTaskLock(p, c, from) ==
    /\ CallerStep(c, from, "push")
    /\ Lock(p, c)
    /\ UNCHANGED <<queueVars, operatorPc>>

\* Mutant: the exception leaves the mutex locked.
AddTaskThrowsKeepsMutex(p, c) ==
    /\ task_queue_mutex[p] = c
    /\ Number[c] \in BadNumbers
    /\ CallerStep(c, "push", "failed")
    /\ UNCHANGED <<queueVars, task_queue_mutex, operatorPc>>

\* std::stoll throws while the mutex is held: no task is added.
AddTaskThrows(p, c) ==
    /\ task_queue_mutex[p] = c
    /\ Number[c] \in BadNumbers
    /\ CallerStep(c, "push", "failed")
    /\ Unlock(p)
    /\ UNCHANGED <<queueVars, operatorPc>>

\* Mutants: only the first call of a burst notifies; no call does.
NotifyAddedFirst(p) == IF empty THEN notify_one(p) ELSE UNCHANGED operatorPc
NotifyAddedNobody(p) == UNCHANGED operatorPc

\* push returns false for a call that it refuses.
NotifyAdded(p) == IF Overloaded THEN UNCHANGED operatorPc ELSE notify_one(p)

\* push, notify_one if it returned true, and the end of the lock_guard.
AddTaskPush(p, c) ==
    /\ task_queue_mutex[p] = c
    /\ Number[c] \notin BadNumbers
    /\ CallerStep(c, "push", "get")
    /\ push(c)
    /\ NotifyAdded(p)
    /\ Unlock(p)

\* future.get() returns: the request, and with it the text of the number,
\* which the task only refers to, is gone.
GetResult(c) ==
    /\ Answered(c)
    /\ CallerStep(c, "get", "done")
    /\ UNCHANGED <<queueVars, task_queue_mutex, operatorPc>>

-----------------------------------------------------------------------------
(* start, stop and the destructor, on the owner's thread.                  *)

\* The owner moves on and leaves the queue and the mutexes alone.
OwnerFlagStep(from, to) == OwnerStep(from, to) /\ UNCHANGED <<queueVars, task_queue_mutex>>

\* start(), up to the last flag but one.
StartFlags(p, from, to) ==
    /\ OwnerFlagStep(from, to)
    /\ paused[p] \/ stopped[p]
    /\ stopped' = [stopped EXCEPT ![p] = FALSE]
    /\ paused' = [paused EXCEPT ![p] = FALSE]
    /\ UNCHANGED <<threads, hasQueue, waitForCompletion, operatorPc>>

\* The rest of start(); it does not lock the mutex before it notifies.
StartNotify(p, from, to) ==
    /\ OwnerFlagStep(from, to)
    /\ waitForCompletion' = [waitForCompletion EXCEPT ![p] = FALSE]
    /\ notify_all(p)
    /\ UNCHANGED <<threads, hasQueue, stopped, paused>>

stop(p, from, to) ==
    /\ OwnerFlagStep(from, to)
    /\ paused' = [paused EXCEPT ![p] = TRUE]
    /\ waitForCompletion' = [waitForCompletion EXCEPT ![p] = TRUE]
    /\ UNCHANGED <<threads, hasQueue, stopped, operatorPc>>

\* Mutant: the destructor sets stopped without the mutex.
DestroyLockMissing(p) == TRUE

DestroyLock(p) == task_queue_mutex[p] = NoThread

\* ~ThreadPool: stopped is set under the mutex ...
DestroyFlag(p, from, to) ==
    /\ OwnerFlagStep(from, to)
    /\ DestroyLock(p)
    /\ stopped' = [stopped EXCEPT ![p] = TRUE]
    /\ UNCHANGED <<threads, hasQueue, paused, waitForCompletion, operatorPc>>

\* ... then the waiters are notified ...
DestroyNotify(p, from, to) ==
    /\ OwnerFlagStep(from, to)
    /\ notify_all(p)
    /\ UNCHANGED <<threads, flags>>

\* ... and all operators joined.
DestroyJoin(p, from, to) ==
    /\ OwnerFlagStep(from, to)
    /\ \A o \in threads[p] : operatorPc[o] = "exit"
    /\ threads' = [threads EXCEPT ![p] = {}]
    /\ operatorPc' = [o \in Operators |-> IF o \in threads[p] THEN "none" ELSE operatorPc[o]]
    /\ hasQueue' = [hasQueue EXCEPT ![p] = FALSE]
    /\ UNCHANGED <<stopped, paused, waitForCompletion>>

-----------------------------------------------------------------------------
(* One pool by itself: Pool, constructed with all the Operators.  Its      *)
(* owner starts it, may stop and restart it, and may destroy it when no    *)
(* thread is in add_task.                                                  *)

CONSTANTS
    Pool,           \* the pool of this specification
    Limit,          \* the size given to its queue
    EarlyCalls,     \* whether calls may be added before start() has returned
    OwnerMayStop    \* whether the owner may stop or destroy the pool

ASSUME ComponentAssumption ==
    /\ Pool \in Pools
    /\ Limit \in Nat
    /\ EarlyCalls \in BOOLEAN
    /\ OwnerMayStop \in BOOLEAN

PoolInit == FirstPool(Pool, Operators, Limit)

InAddTask(c) == callerPc[c] \in {"entered", "push"}

\* When a new call may enter add_task.
Open == ownerPc \in {"running", "stopped"}
                      \cup (IF EarlyCalls THEN {"constructed", "starting"} ELSE {})

start ==
    \/ \E from \in {"constructed", "stopped"} : StartFlags(Pool, from, "starting")
    \/ StartNotify(Pool, "starting", "running")

\* The queue of a pool is public: whoever wires it may attach the recorders,
\* before it is used, since setRecorders takes no mutex.
attachRecorders ==
    /\ ownerPc = "constructed"
    /\ \A c \in Calls : callerPc[c] = "new"
    /\ setRecorders(Recorders)
    /\ UNCHANGED <<queue_, sizeOfQueue, answers, poolVars>>

destroy ==
    \/ /\ \A c \in Calls : ~InAddTask(c)
       /\ \E from \in {"constructed", "running", "stopped"} :
            DestroyFlag(Pool, from, "notifying")
    \/ DestroyNotify(Pool, "notifying", "joining")
    \/ DestroyJoin(Pool, "joining", "destroyed")

add_task(c) ==
    \/ Open /\ AddTaskLock(Pool, c, "new")
    \/ AddTaskThrows(Pool, c)
    \/ AddTaskPush(Pool, c)

\* Once the process has ended, or the pool is gone and the callers have what
\* they can get, nothing moves.
Ended ==
    /\ \/ terminated
       \/ /\ ownerPc = "destroyed"
          /\ \A c \in Calls : callerPc[c] = "get" => ~Answered(c)
    /\ UNCHANGED vars

PoolNext ==
    \/ /\ ~terminated
       /\ \/ \E o \in Operators : o \in threads[Pool] /\ run(Pool, o)
          \/ \E c \in Calls : add_task(c) \/ GetResult(c)
          \/ attachRecorders
          \/ start
          \/ OwnerMayStop /\ (stop(Pool, "running", "stopped") \/ destroy)
    \/ Ended

PoolSpec == PoolInit /\ [][PoolNext]_vars

\* Every thread that can move does, and no thread loses the race for the
\* mutex for ever.  Nothing is assumed of new calls, of stop, of the decision
\* to destroy the pool, or of spurious wakeups.
PoolFairness ==
    /\ \A o \in Operators :
         /\ WF_vars(~terminated /\ o \in threads[Pool] /\ RunStep(Pool, o))
         /\ SF_vars(~terminated /\ o \in threads[Pool] /\ Acquire(Pool, o))
    /\ \A c \in Calls :
         /\ WF_vars(~terminated /\ (AddTaskThrows(Pool, c) \/ AddTaskPush(Pool, c)))
         /\ WF_vars(~terminated /\ GetResult(c))
    /\ WF_vars(~terminated /\ StartFlags(Pool, "constructed", "starting"))
    /\ WF_vars(~terminated /\ StartNotify(Pool, "starting", "running"))
    /\ WF_vars(~terminated /\ DestroyNotify(Pool, "notifying", "joining"))
    /\ WF_vars(~terminated /\ DestroyJoin(Pool, "joining", "destroyed"))

PoolFairSpec == PoolSpec /\ PoolFairness

-----------------------------------------------------------------------------
(* Properties.                                                             *)

Queued(c) == \E i \in DOMAIN queue_ : queue_[i] = c
Served(c) == \E o \in Operators : task[o] = c

\* A caller that add_task let go is never forgotten: its call waits, or an
\* operator has it, or its future is ready.  push moves a call out of the
\* queue in two ways, processTask in a third, and all must leave it somewhere.
NoCallLost ==
    \A c \in Calls : callerPc[c] = "get" => Queued(c) \/ Served(c) \/ Answered(c)

\* No call is in two places: twice in the queue, with two operators, in the
\* queue and with an operator, or answered and still to be answered.  This is
\* what makes each promise_->set_value legal.
NoCallTwice ==
    /\ \A i, j \in DOMAIN queue_ : queue_[i] = queue_[j] => i = j
    /\ \A o1, o2 \in Operators : task[o1] = task[o2] /\ task[o1] # NoCall => o1 = o2
    /\ \A c \in Calls : Queued(c) => ~Served(c) /\ ~Answered(c)
    /\ \A o \in Operators : operatorPc[o] \in {"exec", "reply"} => ~Answered(task[o])

\* A task refers to the text of its caller's number and does not copy it:
\* while push or an operator may read the number, the caller is still blocked
\* in future.get() and the text exists.
NumberAlive ==
    \A c \in Calls :
        Queued(c) \/ (\E o \in Operators : task[o] = c /\ operatorPc[o] \in {"exec", "reply"})
            => callerPc[c] = "get"

\* A caller is told what the journal says: when a result is in the promise,
\* the CDR has that status and every attached recorder has exactly one line
\* with it.
RecordMatchesAnswer ==
    \A c \in Calls :
        promise[c] \in CallStatus =>
            /\ cdr[c] = promise[c]
            /\ \A r \in recorders_ : cdrFile[r][c] = <<promise[c]>>

\* Whoever is about to call front() and pop() finds a call.
NeverPopsEmpty ==
    \A o \in Operators : operatorPc[o] = "take" => ~empty

\* Once start() has returned, an operator sleeps only if every waiting call
\* has an operator of its own on the way to it: notify_one per push is enough.
NoneIdle(p) ==
    ownerPc = "running" /\ Waiting(p) # {} =>
        Len(queue_) <= Cardinality({o \in threads[p] :
                          operatorPc[o] \in {"loop", "lock", "test", "ready", "take", "finish"}})

NoIdleOperator == NoneIdle(Pool)

\* The destructor joins operators that can all come to their end: once it has
\* notified, none of them sleeps, and none that saw stopped unset is about to.
NoneAsleep(p) == \A o \in threads[p] : operatorPc[o] \notin {"block", "wait"}

JoinedAwake == ownerPc = "joining" => NoneAsleep(Pool)

\* A promise is set once: no result replaces another, or an exception a result.
AnswerFinal ==
    [][\A c \in Calls : Answered(c) => promise'[c] = promise[c]]_vars

\* Every call that add_task accepted gets a result.
EveryCallAnswered == \A c \in Calls : callerPc[c] = "get" ~> callerPc[c] = "done"

\* threadpool.cpp:65-70: an exception of a task is logged and stored in its
\* promise; it does not end the server.
NeverTerminated == ~terminated

\* The calls that operators have taken and not answered yet, and what they
\* may be answered.
InService == {task[o] : o \in {w \in Operators : operatorPc[w] \in {"exec", "reply"}}}
Outcomes == {"Completed", "Timeout"} \cup (IF TaskMayThrow THEN {Exception} ELSE {})

\* One pool is a call center with a fixed staff: it serves in the order of
\* arrival, never more calls than it has operators, and never lets a call
\* wait while an operator has nothing to do.
Center == INSTANCE CallCenter WITH
    waiting <- queue_,
    serving <- InService,
    answer <- promise,
    line <- sizeOfQueue,
    staff <- Cardinality(Operators),
    NoAnswer <- NoStatus,
    StaffSizes <- {Cardinality(Operators)},
    LineSizes <- {Limit}

ServesInOrder == Center!CenterSpec
ServesFairly == Center!CenterFairSpec
=============================================================================
