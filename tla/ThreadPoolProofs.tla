-------------------------- MODULE ThreadPoolProofs --------------------------
(***************************************************************************)
(* Proofs about ThreadPool, for every number of calls, operators and       *)
(* recorders and every limit of the queue: its type invariant, that no     *)
(* call is lost or in two places, and that an answer is final.             *)
(***************************************************************************)
EXTENDS ThreadPool, QueueProofs, TLAPS, SequenceTheorems

\* The frames of the actions are expanded everywhere.
USE DEF Step, Move, LeaveTask, CallerStep, OwnerStep, OwnerFlagStep,
        queueVars, settings, answers, flags

-----------------------------------------------------------------------------
(* The inductive invariant.                                                *)

Serving == {"exec", "reply", "rethrow"}

\* An operator that is between lock() and unlock() has the mutex.
MutexHeld ==
    \A o \in Operators :
        operatorPc[o] \in {"test", "block", "ready", "take"} => task_queue_mutex[Pool] = o

\* An operator has a task from processTask to the end of executeTask.
TaskHeld ==
    \A o \in Operators : task[o] # NoCall <=> operatorPc[o] \in Serving

\* The callers of the waiting calls are blocked, and no operator has them.
WaitingBlocked ==
    \A i \in DOMAIN queue_ :
        /\ callerPc[queue_[i]] = "get"
        /\ promise[queue_[i]] = NoStatus
        /\ \A o \in Operators : task[o] # queue_[i]

\* A task that an operator has came from add_task, and until its promise is
\* set its caller is blocked; its result is known before Reply.
ServedBlocked ==
    \A o \in Operators :
        operatorPc[o] \in Serving =>
            /\ callerPc[task[o]] \in {"get", "done"}
            /\ operatorPc[o] # "rethrow" => /\ callerPc[task[o]] = "get"
                                            /\ promise[task[o]] = NoStatus
            /\ operatorPc[o] = "reply" => cdr[task[o]] \in CallStatus

\* Nobody answers a call that add_task has not let go.
EnteringUnanswered ==
    \A c \in Calls : callerPc[c] \notin {"get", "done"} => promise[c] = NoStatus

QueueDistinct == \A i, j \in DOMAIN queue_ : queue_[i] = queue_[j] => i = j

TasksDistinct ==
    \A o1, o2 \in Operators : task[o1] = task[o2] /\ task[o1] # NoCall => o1 = o2

Ownership ==
    /\ WaitingBlocked
    /\ ServedBlocked
    /\ EnteringUnanswered
    /\ QueueDistinct
    /\ TasksDistinct
    /\ NoCallLost

Control == MutexHeld /\ TaskHeld /\ NeverPopsEmpty

PoolInv == PoolTypeOK /\ Control /\ Ownership

\* What a step that concerns a call needs to know, whichever pool takes it.
CallsInv == PoolTypeOK /\ TaskHeld /\ NeverPopsEmpty /\ Ownership

-----------------------------------------------------------------------------
(* Type correctness.                                                       *)

\* The constructed pool has the types of PoolTypeOK.
LEMMA TypeInit == PoolInit => PoolTypeOK
<1> SUFFICES ASSUME PoolInit PROVE PoolTypeOK
  OBVIOUS
<1>1. QueueTypeOK
  BY ComponentAssumption DEF PoolInit, FirstPool, QueueInit, QueueTypeOK
<1>. QED
  BY <1>1, ComponentAssumption DEF PoolInit, FirstPool, PoolTypeOK, Threads, OperatorStates, CallerStates, OwnerStates

\* A wakeup keeps the type of operatorPc.
LEMMA WakeType ==
    ASSUME operatorPc \in [Operators -> OperatorStates], NEW W, Wake(W)
    PROVE  operatorPc' \in [Operators -> OperatorStates]
BY DEF Wake, OperatorStates

\* Every step of an operator keeps the types.  processTask needs that the queue
\* is not empty, the steps of executeTask that the operator has a task.
LEMMA RunType ==
    ASSUME PoolTypeOK, TaskHeld, NeverPopsEmpty,
           NEW p, NEW o \in Operators, run(p, o)
    PROVE  PoolTypeOK'
<1> USE PoolAssumption DEF PoolTypeOK, OperatorStates
<1>1. CASE Loop(p, o)
  BY <1>1 DEF Loop, QueueTypeOK
<1>2. CASE Acquire(p, o)
  BY <1>2 DEF Acquire, Lock, Threads, QueueTypeOK
<1>3. CASE Test(p, o)
  BY <1>3 DEF Test, QueueTypeOK
<1>4. CASE Block(p, o)
  BY <1>4 DEF Block, Unlock, QueueTypeOK
<1>5. CASE SpuriousWakeup(p, o)
  BY <1>5 DEF SpuriousWakeup, QueueTypeOK
<1>6. CASE Retest(p, o)
  BY <1>6 DEF Retest, QueueTypeOK
<1>7. CASE NothingAllowed(p, o)
  BY <1>7 DEF NothingAllowed, Unlock, QueueTypeOK
<1>8. CASE Finish(p, o)
  BY <1>8 DEF Finish, QueueTypeOK
<1>9. CASE Drain(p, o)
  BY <1>9 DEF Drain, QueueTypeOK
<1>10. CASE processTask(p, o)
  <2>1. queue_ # <<>> /\ queue_ \in Seq(Calls)
    BY <1>10 DEF processTask, NeverPopsEmpty, empty, QueueTypeOK
  <2>2. queue_[1] \in Calls /\ Tail(queue_) \in Seq(Calls)
    BY <2>1
  <2>. QED
    BY <1>10, <2>2 DEF processTask, Unlock, front, pop, QueueTypeOK
<1>11. CASE doTask(p, o)
  <2>1. task[o] \in Calls
    BY <1>11 DEF doTask, TaskHeld, Serving
  <2>2. PICK s \in {"Completed", "Timeout"} : writeCDR(task[o], s)
    BY <1>11 DEF doTask
  <2>3. /\ cdr' \in [Calls -> CallStatus \cup {NoStatus}]
        /\ cdrFile' \in [Recorders -> [Calls -> Seq(CallStatus)]]
    BY <2>1, <2>2, WriteCDRType DEF CallStatus
  <2>. QED
    BY <1>11, <2>3 DEF doTask, QueueTypeOK
<1>12. CASE doTaskThrows(p, o)
  BY <1>12 DEF doTaskThrows, set_value, QueueTypeOK
<1>13. CASE SetExceptionAgain(p, o)
  BY <1>13 DEF SetExceptionAgain, Answered, set_value, QueueTypeOK
<1>14. CASE Reply(p, o)
  <2>1. task[o] \in Calls
    BY <1>14 DEF Reply, TaskHeld, Serving
  <2>. QED
    BY <1>14, <2>1 DEF Reply, set_value, QueueTypeOK
<1>. QED
  BY <1>1, <1>2, <1>3, <1>4, <1>5, <1>6, <1>7, <1>8, <1>9, <1>10, <1>11, <1>12,
     <1>13, <1>14 DEF run, RunStep

\* What the thread of a call does.
CallerActs(p, c, from) ==
    AddTaskLock(p, c, from) \/ AddTaskThrows(p, c) \/ AddTaskPush(p, c) \/ GetResult(c)

\* A step of start(), stop() or the destructor.
OwnerActs(p, from, to) ==
    \/ StartFlags(p, from, to) \/ StartNotify(p, from, to) \/ stop(p, from, to)
    \/ DestroyFlag(p, from, to) \/ DestroyNotify(p, from, to) \/ DestroyJoin(p, from, to)

\* Every step of a caller keeps the types.
LEMMA CallerType ==
    ASSUME PoolTypeOK, NEW p, NEW c \in Calls, NEW from, CallerActs(p, c, from)
    PROVE  PoolTypeOK'
<1> USE PoolAssumption DEF PoolTypeOK, CallerStates
<1>1. CASE AddTaskLock(p, c, from)
  BY <1>1 DEF AddTaskLock, Lock, Threads, QueueTypeOK
<1>2. CASE AddTaskThrows(p, c)
  BY <1>2 DEF AddTaskThrows, Unlock, QueueTypeOK
<1>3. CASE AddTaskPush(p, c)
  <2>1. QueueTypeOK'
    BY <1>3, PushType DEF AddTaskPush
  <2>2. operatorPc' \in [Operators -> OperatorStates]
    BY <1>3, WakeType DEF AddTaskPush, NotifyAdded, notify_one
  <2>. QED
    BY <1>3, <2>1, <2>2 DEF AddTaskPush, Unlock
<1>4. CASE GetResult(c)
  BY <1>4 DEF GetResult, QueueTypeOK
<1>. QED
  BY <1>1, <1>2, <1>3, <1>4 DEF CallerActs

\* Every step of the owner keeps the types.
LEMMA OwnerType ==
    ASSUME PoolTypeOK, NEW p, NEW from, NEW to \in OwnerStates, OwnerActs(p, from, to)
    PROVE  PoolTypeOK'
<1> USE DEF PoolTypeOK
<1>1. CASE StartFlags(p, from, to)
  BY <1>1 DEF StartFlags, QueueTypeOK
<1>2. CASE StartNotify(p, from, to)
  BY <1>2, WakeType DEF StartNotify, notify_all, QueueTypeOK
<1>3. CASE stop(p, from, to)
  BY <1>3 DEF stop, QueueTypeOK
<1>4. CASE DestroyFlag(p, from, to)
  BY <1>4 DEF DestroyFlag, QueueTypeOK
<1>5. CASE DestroyNotify(p, from, to)
  BY <1>5, WakeType DEF DestroyNotify, notify_all, QueueTypeOK
<1>6. CASE DestroyJoin(p, from, to)
  BY <1>6 DEF DestroyJoin, OperatorStates, QueueTypeOK
<1>. QED
  BY <1>1, <1>2, <1>3, <1>4, <1>5, <1>6 DEF OwnerActs

\* Every step keeps the types.
LEMMA TypeStep ==
    ASSUME PoolTypeOK, Control, [PoolNext]_vars
    PROVE  PoolTypeOK'
<1>1. CASE UNCHANGED vars
  BY <1>1 DEF vars, poolVars, poolVarsButOwner, PoolTypeOK, QueueTypeOK
<1>2. CASE \E o \in Operators : run(Pool, o)
  BY <1>2, RunType DEF Control
<1>3. CASE \E c \in Calls : add_task(c) \/ GetResult(c)
  BY <1>3, CallerType DEF add_task, CallerActs
<1>4. CASE attachRecorders
  BY <1>4 DEF attachRecorders, setRecorders, poolVars, poolVarsButOwner, PoolTypeOK, QueueTypeOK
<1>5. CASE start
  BY <1>5, OwnerType DEF start, OwnerActs, OwnerStates
<1>6. CASE stop(Pool, "running", "stopped")
  BY <1>6, OwnerType DEF OwnerActs, OwnerStates
<1>7. CASE destroy
  BY <1>7, OwnerType DEF destroy, OwnerActs, OwnerStates
<1>. QED
  BY <1>1, <1>2, <1>3, <1>4, <1>5, <1>6, <1>7 DEF PoolNext, Ended

-----------------------------------------------------------------------------
(* Who has the mutex, a task, a call to take.                              *)

\* A notification moves waiters to the lock, and nobody else.
LEMMA WakeFacts ==
    ASSUME PoolTypeOK, NEW p,
           notify_one(p) \/ notify_all(p) \/ UNCHANGED operatorPc
    PROVE  \A o \in Operators :
              \/ operatorPc'[o] = operatorPc[o]
              \/ operatorPc[o] = "wait" /\ operatorPc'[o] = "lock"
BY DEF notify_one, notify_all, Wake, Waiting, PoolTypeOK

\* Every step keeps Control.  Whoever changes the queue has the mutex, so no
\* operator is about to take a call.
LEMMA ControlStep ==
    ASSUME PoolTypeOK, Control, [PoolNext]_vars
    PROVE  Control'
<1> USE PoolAssumption, ComponentAssumption
        DEF PoolTypeOK, Control, MutexHeld, TaskHeld, Serving, NeverPopsEmpty, empty
<1>1. CASE UNCHANGED vars
  BY <1>1 DEF vars, poolVars, poolVarsButOwner
<1>2. ASSUME NEW o \in Operators, o \in threads[Pool], run(Pool, o)
      PROVE  Control'
  <2>1. CASE Loop(Pool, o)
    BY <2>1 DEF Loop
  <2>2. CASE Acquire(Pool, o)
    BY <2>2 DEF Acquire, Lock, Threads
  <2>3. CASE Test(Pool, o)
    BY <2>3 DEF Test
  <2>4. CASE Block(Pool, o)
    BY <2>4 DEF Block, Unlock
  <2>5. CASE SpuriousWakeup(Pool, o)
    BY <2>5 DEF SpuriousWakeup
  <2>6. CASE Retest(Pool, o)
    BY <2>6 DEF Retest, run_allowed
  <2>7. CASE NothingAllowed(Pool, o)
    BY <2>7 DEF NothingAllowed, Unlock
  <2>8. CASE Finish(Pool, o)
    BY <2>8 DEF Finish
  <2>9. CASE Drain(Pool, o)
    BY <2>9 DEF Drain
  <2>10. CASE processTask(Pool, o)
    <3>1. queue_ # <<>> /\ queue_ \in Seq(Calls)
      BY <2>10 DEF processTask, QueueTypeOK
    <3>2. queue_[1] \in Calls
      BY <3>1
    <3>. QED
      BY <2>10, <3>2 DEF processTask, Unlock, front, pop
  <2>11. CASE doTask(Pool, o)
    BY <2>11 DEF doTask
  <2>12. CASE doTaskThrows(Pool, o)
    BY <2>12 DEF doTaskThrows
  <2>13. CASE SetExceptionAgain(Pool, o)
    BY <2>13 DEF SetExceptionAgain, Answered
  <2>14. CASE Reply(Pool, o)
    BY <2>14 DEF Reply
  <2>. QED
    BY <1>2, <2>1, <2>2, <2>3, <2>4, <2>5, <2>6, <2>7, <2>8, <2>9, <2>10, <2>11, <2>12,
       <2>13, <2>14 DEF run, RunStep
<1>3. ASSUME NEW c \in Calls, add_task(c) \/ GetResult(c)
      PROVE  Control'
  <2>1. CASE AddTaskLock(Pool, c, "new")
    BY <2>1 DEF AddTaskLock, Lock, Threads
  <2>2. CASE AddTaskThrows(Pool, c)
    BY <2>2 DEF AddTaskThrows, Unlock
  <2>3. CASE AddTaskPush(Pool, c)
    <3>1. \A o \in Operators : operatorPc[o] \notin {"test", "block", "ready", "take"}
      BY <2>3 DEF AddTaskPush
    <3>2. \A o \in Operators : \/ operatorPc'[o] = operatorPc[o]
                               \/ operatorPc[o] = "wait" /\ operatorPc'[o] = "lock"
      BY <2>3, WakeFacts DEF AddTaskPush, NotifyAdded
    <3>. QED
      BY <2>3, <3>1, <3>2 DEF AddTaskPush
  <2>4. CASE GetResult(c)
    BY <2>4 DEF GetResult
  <2>. QED
    BY <1>3, <2>1, <2>2, <2>3, <2>4 DEF add_task
<1>4. CASE attachRecorders
  BY <1>4 DEF attachRecorders, poolVars, poolVarsButOwner
<1>5. CASE start
  <2>1. ASSUME NEW from \in {"constructed", "stopped"}, StartFlags(Pool, from, "starting")
        PROVE  Control'
    BY <2>1 DEF StartFlags
  <2>2. CASE StartNotify(Pool, "starting", "running")
    BY <2>2, WakeFacts DEF StartNotify
  <2>. QED
    BY <1>5, <2>1, <2>2 DEF start
<1>6. CASE stop(Pool, "running", "stopped")
  BY <1>6 DEF stop
<1>7. CASE destroy
  <2>1. ASSUME NEW from \in {"constructed", "running", "stopped"},
               DestroyFlag(Pool, from, "notifying")
        PROVE  Control'
    BY <2>1 DEF DestroyFlag
  <2>2. CASE DestroyNotify(Pool, "notifying", "joining")
    BY <2>2, WakeFacts DEF DestroyNotify
  <2>3. CASE DestroyJoin(Pool, "joining", "destroyed")
    BY <2>3 DEF DestroyJoin
  <2>. QED
    BY <1>7, <2>1, <2>2, <2>3 DEF destroy
<1>8. CASE Ended
  BY <1>8, <1>1 DEF Ended
<1>. QED
  BY <1>1, <1>2, <1>3, <1>4, <1>5, <1>6, <1>7, <1>8 DEF PoolNext

-----------------------------------------------------------------------------
(* Who owns a call.                                                        *)

\* A step is quiet if no call moves: it leaves the queue, the promises and the
\* tasks alone, and lets an operator or a caller move only where Ownership
\* says the same of it before and after.
LEMMA QuietStep ==
    ASSUME PoolTypeOK, TaskHeld, Ownership,
           UNCHANGED <<queue_, promise, task>>,
           \A o \in Operators :
              operatorPc'[o] \in Serving =>
                 operatorPc[o] = operatorPc'[o] \/ operatorPc[o] \in Serving \ {"rethrow"},
           \A o \in Operators :
              operatorPc'[o] = "reply" =>
                 \/ operatorPc[o] = "reply" /\ cdr'[task[o]] = cdr[task[o]]
                 \/ cdr'[task[o]] \in CallStatus,
           \A c \in Calls :
              \/ callerPc'[c] = callerPc[c]
              \/ callerPc[c] \notin {"get", "done"} /\ callerPc'[c] \notin {"get", "done"}
    PROVE  Ownership'
<1> USE DEF PoolTypeOK, QueueTypeOK, Ownership
<1>1. WaitingBlocked'
  BY DEF WaitingBlocked
<1>2. ServedBlocked'
  BY DEF ServedBlocked, TaskHeld, Serving
<1>3. EnteringUnanswered' /\ QueueDistinct' /\ TasksDistinct'
  BY DEF EnteringUnanswered, QueueDistinct, TasksDistinct
<1>4. NoCallLost'
  BY DEF NoCallLost, Queued, Served, Answered
<1>. QED
  BY <1>1, <1>2, <1>3, <1>4

\* The first call moves from the queue to an operator.
LEMMA TakeStep ==
    ASSUME PoolTypeOK, TaskHeld, NeverPopsEmpty, Ownership,
           NEW p, NEW o \in Operators, processTask(p, o)
    PROVE  Ownership'
<1> USE DEF PoolTypeOK, QueueTypeOK, Ownership
<1>1. queue_ \in Seq(Calls) /\ queue_ # <<>> /\ 1 \in DOMAIN queue_ /\ front \in Calls
  BY DEF NeverPopsEmpty, empty, processTask, front
<1>2. /\ DOMAIN queue_' = 1..(Len(queue_) - 1) /\ DOMAIN queue_ = 1..Len(queue_)
      /\ \A i \in DOMAIN queue_' : i + 1 \in DOMAIN queue_ /\ queue_'[i] = queue_[i + 1]
  BY <1>1 DEF processTask, pop
<1>3. /\ operatorPc[o] = "take" /\ operatorPc' = [operatorPc EXCEPT ![o] = "exec"]
      /\ task' = [task EXCEPT ![o] = front] /\ task[o] = NoCall
      /\ UNCHANGED <<promise, callerPc, cdr>>
  BY DEF processTask, TaskHeld, Serving
<1>4. /\ callerPc[front] = "get" /\ promise[front] = NoStatus
      /\ \A w \in Operators : task[w] # front
      /\ \A i \in DOMAIN queue_' : queue_'[i] # front
  <2>1. \A i \in DOMAIN queue_' : i + 1 # 1
    BY <1>1, <1>2
  <2>. QED
    BY <1>1, <1>2, <2>1 DEF WaitingBlocked, QueueDistinct, front
<1>5. WaitingBlocked'
  BY <1>2, <1>3, <1>4 DEF WaitingBlocked
<1>6. ServedBlocked'
  BY <1>1, <1>3, <1>4 DEF ServedBlocked, Serving
<1>7. EnteringUnanswered' /\ TasksDistinct'
  BY <1>3, <1>4 DEF EnteringUnanswered, TasksDistinct
<1>8. QueueDistinct'
  BY <1>2 DEF QueueDistinct
<1>9. ASSUME NEW c \in Calls, callerPc'[c] = "get"
      PROVE  Queued(c)' \/ Served(c)' \/ Answered(c)'
  <2>1. CASE Queued(c)
    <3>1. PICK i \in DOMAIN queue_ : queue_[i] = c
      BY <2>1 DEF Queued
    <3>2. CASE i = 1
      BY <1>3, <3>1, <3>2 DEF Served, front
    <3>3. CASE i # 1
      <4>1. i - 1 \in DOMAIN queue_' /\ queue_'[i - 1] = c
        BY <1>2, <3>1, <3>3
      <4>. QED  BY <4>1 DEF Queued
    <3>. QED  BY <3>2, <3>3
  <2>2. CASE Served(c)
    BY <1>3, <2>2, PoolAssumption DEF Served
  <2>3. CASE Answered(c)
    BY <1>3, <2>3 DEF Answered
  <2>. QED
    BY <1>3, <1>9, <2>1, <2>2, <2>3 DEF NoCallLost
<1>. QED
  BY <1>5, <1>6, <1>7, <1>8, <1>9 DEF NoCallLost

\* The promise of a served call is set, and the operator may be done with it:
\* doTaskThrows, SetExceptionAgain and Reply.
LEMMA AnswerStep ==
    ASSUME PoolTypeOK, TaskHeld, Ownership, NEW p, NEW o \in Operators,
           doTaskThrows(p, o) \/ SetExceptionAgain(p, o) \/ Reply(p, o)
    PROVE  Ownership'
<1> USE DEF PoolTypeOK, QueueTypeOK, Ownership
<1>1. /\ task[o] \in Calls /\ UNCHANGED <<queue_, callerPc>>
      /\ operatorPc[o] \in Serving
      /\ \A w \in Operators \ {o} : operatorPc'[w] = operatorPc[w] /\ task'[w] = task[w]
      /\ \A c \in Calls \ {task[o]} : promise'[c] = promise[c]
      /\ \/ operatorPc'[o] = "rethrow" /\ task'[o] = task[o]
         \/ operatorPc'[o] = "finish" /\ task'[o] = NoCall
  BY PoolAssumption
     DEF doTaskThrows, SetExceptionAgain, Reply, set_value, Answered, TaskHeld, Serving
<1>2. promise'[task[o]] # NoStatus
  <2>1. CASE doTaskThrows(p, o) \/ SetExceptionAgain(p, o)
    BY <1>1, <2>1 DEF doTaskThrows, SetExceptionAgain, set_value, Answered, Exception, NoStatus
  <2>2. CASE Reply(p, o)
    BY <1>1, <2>2 DEF Reply, set_value, ServedBlocked, Serving, CallStatus, NoStatus
  <2>. QED
    BY <2>1, <2>2
<1>3. \A w \in Operators \ {o} : task[w] # task[o]
  BY <1>1, PoolAssumption DEF TasksDistinct
<1>4. \A i \in DOMAIN queue_ : queue_[i] \in Calls /\ queue_[i] # task[o]
  BY DEF WaitingBlocked
<1>5. WaitingBlocked'
  BY <1>1, <1>4, PoolAssumption DEF WaitingBlocked
<1>6. ServedBlocked'
  <2>1. SUFFICES ASSUME NEW w \in Operators, operatorPc'[w] \in Serving
        PROVE  /\ callerPc'[task'[w]] \in {"get", "done"}
               /\ operatorPc'[w] # "rethrow" => /\ callerPc'[task'[w]] = "get"
                                                /\ promise'[task'[w]] = NoStatus
               /\ operatorPc'[w] = "reply" => cdr'[task'[w]] \in CallStatus
    BY DEF ServedBlocked
  <2>2. UNCHANGED cdr
    BY DEF doTaskThrows, SetExceptionAgain, Reply
  <2>3. CASE w # o
    <3>1. task[w] \in Calls \ {task[o]} /\ task'[w] = task[w] /\ operatorPc[w] = operatorPc'[w]
      BY <1>1, <1>3, <2>1, <2>3 DEF TaskHeld
    <3>. QED
      BY <1>1, <2>1, <2>2, <3>1 DEF ServedBlocked
  <2>4. CASE w = o
    BY <1>1, <2>1, <2>4 DEF ServedBlocked, Serving
  <2>. QED
    BY <2>3, <2>4
<1>7. EnteringUnanswered'
  BY <1>1 DEF EnteringUnanswered, ServedBlocked
<1>8. QueueDistinct' /\ TasksDistinct'
  BY <1>1, <1>3 DEF QueueDistinct, TasksDistinct
<1>9. NoCallLost'
  <2>1. SUFFICES ASSUME NEW c \in Calls, callerPc[c] = "get", c # task[o]
        PROVE  Queued(c)' \/ Served(c)' \/ promise'[c] # NoStatus
    BY <1>1, <1>2 DEF NoCallLost, Answered
  <2>2. Queued(c) \/ Served(c) \/ promise[c] # NoStatus
    BY <2>1 DEF NoCallLost, Answered
  <2>3. Queued(c) => Queued(c)'
    BY <1>1 DEF Queued
  <2>4. Served(c) => Served(c)'
    BY <1>1, <2>1 DEF Served
  <2>. QED
    BY <1>1, <2>1, <2>2, <2>3, <2>4
<1>. QED
  BY <1>5, <1>6, <1>7, <1>8, <1>9

\* The call of a caller in add_task is nowhere yet.
LEMMA EnteringNowhere ==
    ASSUME PoolTypeOK, TaskHeld, Ownership, NEW c \in Calls, callerPc[c] \notin {"get", "done"}
    PROVE  /\ promise[c] = NoStatus
           /\ \A i \in DOMAIN queue_ : queue_[i] \in Calls /\ queue_[i] # c
           /\ \A o \in Operators : task[o] # c
<1> USE DEF PoolTypeOK, QueueTypeOK, Ownership
<1>1. promise[c] = NoStatus
  BY DEF EnteringUnanswered
<1>2. \A i \in DOMAIN queue_ : queue_[i] \in Calls /\ queue_[i] # c
  BY DEF WaitingBlocked
<1>3. \A o \in Operators : task[o] # c
  BY PoolAssumption DEF ServedBlocked, TaskHeld
<1>. QED
  BY <1>1, <1>2, <1>3

\* push: the call is queued, or answered, or queued in the place of another
\* one that is answered.
LEMMA PushStep ==
    ASSUME PoolTypeOK, TaskHeld, Ownership, NEW p, NEW c \in Calls, AddTaskPush(p, c)
    PROVE  Ownership'
<1> USE DEF PoolTypeOK, QueueTypeOK, Ownership
<1>1. /\ callerPc[c] = "push" /\ callerPc' = [callerPc EXCEPT ![c] = "get"]
      /\ task' = task /\ push(c)
  BY DEF AddTaskPush
<1>2. /\ promise[c] = NoStatus
      /\ \A i \in DOMAIN queue_ : queue_[i] \in Calls /\ queue_[i] # c
      /\ \A o \in Operators : task[o] # c
  BY <1>1, EnteringNowhere
<1>3. \A o \in Operators : operatorPc'[o] \in Serving => operatorPc'[o] = operatorPc[o]
  BY WakeFacts DEF AddTaskPush, NotifyAdded, Serving
<1>4. \A o \in Operators : operatorPc'[o] \in Serving =>
         task[o] \in Calls /\ callerPc'[task[o]] = callerPc[task[o]]
  BY <1>1, <1>2, <1>3 DEF TaskHeld
<1>5. TasksDistinct'
  BY <1>1 DEF TasksDistinct
<1>6. CASE handleOverloadedTask(c)
  <2>1. /\ queue_' = queue_
        /\ promise' = [promise EXCEPT ![c] = "Overloaded"]
        /\ cdr' = [cdr EXCEPT ![c] = "Overloaded"]
    BY <1>6 DEF handleOverloadedTask, Refuse, writeCDR, set_value
  <2>2. WaitingBlocked' /\ QueueDistinct'
    BY <1>1, <1>2, <2>1 DEF WaitingBlocked, QueueDistinct
  <2>3. ServedBlocked'
    BY <1>1, <1>2, <1>3, <1>4, <2>1 DEF ServedBlocked
  <2>4. EnteringUnanswered'
    BY <1>1, <2>1 DEF EnteringUnanswered
  <2>5. NoCallLost'
    BY <1>1, <2>1 DEF NoCallLost, Queued, Served, Answered, NoStatus
  <2>. QED
    BY <1>5, <2>2, <2>3, <2>4, <2>5
<1>7. CASE /\ queue_' = Append(queue_, c)
           /\ UNCHANGED <<cdr, promise, cdrFile>>
  <2>1. /\ DOMAIN queue_ = 1..Len(queue_) /\ DOMAIN queue_' = 1..(Len(queue_) + 1)
        /\ Len(queue_) \in Nat
        /\ queue_'[Len(queue_) + 1] = c
        /\ \A i \in DOMAIN queue_ : i \in DOMAIN queue_' /\ queue_'[i] = queue_[i]
        /\ \A i \in DOMAIN queue_' : i \in DOMAIN queue_ \/ i = Len(queue_) + 1
    BY <1>7
  <2>2. WaitingBlocked'
    BY <1>1, <1>2, <1>7, <2>1 DEF WaitingBlocked
  <2>3. QueueDistinct'
    <3>1. SUFFICES ASSUME NEW i \in DOMAIN queue_', NEW j \in DOMAIN queue_', queue_'[i] = queue_'[j]
          PROVE  i = j
      BY DEF QueueDistinct
    <3>2. CASE i \in DOMAIN queue_ /\ j \in DOMAIN queue_
      BY <2>1, <3>1, <3>2 DEF QueueDistinct
    <3>3. CASE i = Len(queue_) + 1 \/ j = Len(queue_) + 1
      BY <1>2, <2>1, <3>1, <3>3
    <3>. QED
      BY <2>1, <3>2, <3>3
  <2>4. ServedBlocked'
    BY <1>1, <1>3, <1>4, <1>7 DEF ServedBlocked
  <2>5. EnteringUnanswered'
    BY <1>1, <1>7 DEF EnteringUnanswered
  <2>6. NoCallLost'
    <3>1. Queued(c)' /\ \A e \in Calls : Queued(e) => Queued(e)'
      <4>1. Queued(c)'
        <5>1. Len(queue_) + 1 \in DOMAIN queue_'
          BY <2>1
        <5>. QED  BY <2>1, <5>1 DEF Queued
      <4>. QED  BY <2>1, <4>1 DEF Queued
    <3>. QED
      BY <1>1, <1>7, <3>1 DEF NoCallLost, Served, Answered
  <2>. QED
    BY <1>5, <2>2, <2>3, <2>4, <2>5, <2>6
<1>8. ASSUME NEW k \in Duplicates(c), Refuse(queue_[k], "Duplication"),
             queue_' = Append(RemoveAt(queue_, k), c)
      PROVE  Ownership'
  <2> DEFINE d == queue_[k]
             n == Len(queue_)
  <2>1. /\ DOMAIN queue_ = 1..n /\ DOMAIN queue_' = 1..n /\ n \in Nat /\ k \in 1..n
        /\ queue_'[n] = c
        /\ \A j \in 1..(n - 1) : queue_'[j] = IF j < k THEN queue_[j] ELSE queue_[j + 1]
    <3>1. k \in 1..n /\ queue_ \in Seq(Calls)
      BY DEF Duplicates
    <3> DEFINE q == Append(RemoveAt(queue_, k), c)
    <3>2. /\ q \in Seq(Calls)
          /\ Len(q) = Len(queue_)
          /\ q[Len(queue_)] = c
          /\ \A j \in 1..(Len(queue_) - 1) : q[j] = IF j < k THEN queue_[j] ELSE queue_[j + 1]
      BY ReplaceFacts, <3>1
    <3>3. queue_' = q
      BY <1>8
    <3> HIDE DEF q
    <3>4. DOMAIN queue_ = 1..n /\ n \in Nat /\ DOMAIN q = 1..n
      BY <3>1, <3>2
    <3>. QED
      BY <3>1, <3>2, <3>3, <3>4
  <2>2. /\ promise' = [promise EXCEPT ![d] = "Duplication"]
        /\ cdr' = [cdr EXCEPT ![d] = "Duplication"]
    BY <1>8 DEF Refuse, writeCDR, set_value
  <2>3. d \in Calls /\ d # c /\ callerPc[d] = "get" /\ \A o \in Operators : task[o] # d
    BY <1>2, <2>1 DEF WaitingBlocked
  <2>4. \* Where each place of the new queue comes from.
        \A j \in 1..(n - 1) : \E i \in 1..n : /\ i # k /\ queue_'[j] = queue_[i]
                                               /\ i = IF j < k THEN j ELSE j + 1
    BY <2>1
  <2> HIDE DEF d, n
  <2>5. \A j \in 1..(n - 1) : queue_'[j] \in Calls \ {c, d}
    <3>1. \A i \in 1..n : i # k => queue_[i] # d
      BY <2>1 DEF QueueDistinct, d
    <3>. QED
      BY <1>2, <2>1, <2>4, <3>1
  <2>6. WaitingBlocked'
    <3>1. SUFFICES ASSUME NEW j \in 1..n
          PROVE  /\ callerPc'[queue_'[j]] = "get" /\ promise'[queue_'[j]] = NoStatus
                 /\ \A o \in Operators : task'[o] # queue_'[j]
      BY <2>1 DEF WaitingBlocked
    <3>2. CASE j = n
      BY <1>1, <1>2, <2>1, <2>2, <2>3, <3>2
    <3>3. CASE j # n
      <4>1. j \in 1..(n - 1)
        BY <2>1, <3>3
      <4>2. PICK i \in DOMAIN queue_ : queue_'[j] = queue_[i]
        BY <2>1, <2>4, <4>1
      <4>. QED
        BY <1>1, <2>2, <2>5, <4>1, <4>2 DEF WaitingBlocked
    <3>. QED
      BY <3>2, <3>3
  <2>7. QueueDistinct'
    <3>1. SUFFICES ASSUME NEW j1 \in 1..n, NEW j2 \in 1..n, queue_'[j1] = queue_'[j2]
          PROVE  j1 = j2
      BY <2>1 DEF QueueDistinct
    <3>2. CASE j1 = n \/ j2 = n
      BY <2>1, <2>5, <3>1, <3>2
    <3>3. CASE j1 # n /\ j2 # n
      <4>1. j1 \in 1..(n - 1) /\ j2 \in 1..(n - 1)
        BY <2>1, <3>3
      <4>2. PICK i1 \in 1..n : queue_'[j1] = queue_[i1] /\ i1 = IF j1 < k THEN j1 ELSE j1 + 1
        BY <2>4, <4>1
      <4>3. PICK i2 \in 1..n : queue_'[j2] = queue_[i2] /\ i2 = IF j2 < k THEN j2 ELSE j2 + 1
        BY <2>4, <4>1
      <4>4. i1 = i2
        BY <2>1, <3>1, <4>2, <4>3 DEF QueueDistinct
      <4>. QED
        BY <2>1, <4>1, <4>2, <4>3, <4>4
    <3>. QED
      BY <3>2, <3>3
  <2>8. ServedBlocked'
    BY <1>1, <1>3, <1>4, <2>2, <2>3 DEF ServedBlocked
  <2>9. EnteringUnanswered'
    BY <1>1, <2>2, <2>3 DEF EnteringUnanswered
  <2>10. ASSUME NEW e \in Calls, callerPc'[e] = "get"
         PROVE  Queued(e)' \/ Served(e)' \/ Answered(e)'
    <3>1. CASE e = c
      <4>1. n \in DOMAIN queue_' /\ queue_'[n] = c
        BY <2>1
      <4>. QED  BY <3>1, <4>1 DEF Queued
    <3>2. CASE e = d
      BY <2>2, <2>3, <3>2 DEF Answered, NoStatus
    <3>3. CASE e \notin {c, d} /\ Queued(e)
      <4>1. PICK i \in 1..n : queue_[i] = e /\ i # k
        BY <2>1, <3>3 DEF Queued, d
      <4>2. CASE i < k
        <5>1. i \in 1..(n - 1)
          BY <2>1, <4>2
        <5>2. i \in DOMAIN queue_' /\ queue_'[i] = e
          BY <2>1, <4>1, <4>2, <5>1
        <5>. QED  BY <5>2 DEF Queued
      <4>3. CASE i > k
        <5>1. i - 1 \in 1..(n - 1) /\ ~(i - 1 < k) /\ (i - 1) + 1 = i
          BY <2>1, <4>3
        <5>2. i - 1 \in DOMAIN queue_' /\ queue_'[i - 1] = e
          BY <2>1, <4>1, <5>1
        <5>. QED  BY <5>2 DEF Queued
      <4>. QED
        BY <2>1, <4>1, <4>2, <4>3
    <3>4. CASE e \notin {c, d} /\ ~Queued(e)
      BY <1>1, <2>2, <2>10, <3>4 DEF NoCallLost, Served, Answered
    <3>. QED
      BY <3>1, <3>2, <3>3, <3>4
  <2>. QED
    BY <1>5, <2>6, <2>7, <2>8, <2>9, <2>10 DEF NoCallLost
<1>. QED
  BY <1>1, <1>6, <1>7, <1>8 DEF push, handleTask

\* A caller that has its result is done: nothing is lost with it.
LEMMA GetStep ==
    ASSUME PoolTypeOK, TaskHeld, Ownership, NEW c \in Calls, GetResult(c)
    PROVE  Ownership'
<1> USE DEF PoolTypeOK, QueueTypeOK, Ownership
<1>1. /\ promise[c] # NoStatus /\ callerPc[c] = "get"
      /\ callerPc' = [callerPc EXCEPT ![c] = "done"]
      /\ UNCHANGED <<queue_, promise, cdr, operatorPc, task>>
  BY DEF GetResult, Answered
<1>2. WaitingBlocked'
  BY <1>1 DEF WaitingBlocked
<1>3. ServedBlocked'
  BY <1>1 DEF ServedBlocked, TaskHeld
<1>4. EnteringUnanswered' /\ QueueDistinct' /\ TasksDistinct'
  BY <1>1 DEF EnteringUnanswered, QueueDistinct, TasksDistinct
<1>5. NoCallLost'
  BY <1>1 DEF NoCallLost, Queued, Served, Answered
<1>. QED
  BY <1>2, <1>3, <1>4, <1>5

\* Every step of an operator keeps Ownership.
LEMMA RunOwnership ==
    ASSUME PoolTypeOK, TaskHeld, NeverPopsEmpty, Ownership,
           NEW p, NEW o \in Operators, run(p, o)
    PROVE  Ownership'
<1> USE DEF PoolTypeOK, Serving
<1>1. CASE Loop(p, o)
  BY <1>1, QuietStep DEF Loop
<1>2. CASE Acquire(p, o)
  BY <1>2, QuietStep DEF Acquire
<1>3. CASE Test(p, o)
  BY <1>3, QuietStep DEF Test
<1>4. CASE Block(p, o)
  BY <1>4, QuietStep DEF Block
<1>5. CASE SpuriousWakeup(p, o)
  BY <1>5, QuietStep DEF SpuriousWakeup
<1>6. CASE Retest(p, o)
  BY <1>6, QuietStep DEF Retest
<1>7. CASE NothingAllowed(p, o)
  BY <1>7, QuietStep DEF NothingAllowed
<1>8. CASE Finish(p, o)
  BY <1>8, QuietStep DEF Finish
<1>9. CASE Drain(p, o)
  BY <1>9, QuietStep DEF Drain
<1>10. CASE processTask(p, o)
  BY <1>10, TakeStep
<1>11. CASE doTask(p, o)
  <2>1. PICK s \in {"Completed", "Timeout"} : writeCDR(task[o], s)
    BY <1>11 DEF doTask
  <2>2. task[o] \in Calls
    BY <1>11 DEF doTask, TaskHeld
  <2>3. \A w \in Operators : cdr'[task[w]] = cdr[task[w]] \/ cdr'[task[w]] \in CallStatus
    BY <2>1, <2>2 DEF writeCDR, QueueTypeOK, CallStatus
  <2>4. cdr'[task[o]] \in CallStatus
    BY <2>1, <2>2 DEF writeCDR, QueueTypeOK, CallStatus
  <2>. QED
    BY <1>11, <2>3, <2>4, QuietStep DEF doTask
<1>12. CASE doTaskThrows(p, o) \/ SetExceptionAgain(p, o) \/ Reply(p, o)
  BY <1>12, AnswerStep
<1>. QED
  BY <1>1, <1>2, <1>3, <1>4, <1>5, <1>6, <1>7, <1>8, <1>9, <1>10, <1>11, <1>12
     DEF run, RunStep

\* Every step of a caller keeps Ownership.
LEMMA CallerOwnership ==
    ASSUME PoolTypeOK, TaskHeld, Ownership, NEW p, NEW c \in Calls, NEW from,
           from \notin {"get", "done"}, CallerActs(p, c, from)
    PROVE  Ownership'
<1> USE DEF PoolTypeOK, Serving
<1>1. CASE AddTaskLock(p, c, from)
  BY <1>1, QuietStep DEF AddTaskLock
<1>2. CASE AddTaskThrows(p, c)
  BY <1>2, QuietStep DEF AddTaskThrows
<1>3. CASE AddTaskPush(p, c)
  BY <1>3, PushStep
<1>4. CASE GetResult(c)
  BY <1>4, GetStep
<1>. QED
  BY <1>1, <1>2, <1>3, <1>4 DEF CallerActs

-----------------------------------------------------------------------------
(* The kinds of steps.                                                     *)

\* A step that moves no call, answers none and records nothing.
Quiet ==
    /\ UNCHANGED <<queue_, sizeOfQueue, recorders_, cdr, promise, cdrFile, task>>
    /\ \A o \in Operators :
         operatorPc[o] \in Serving \/ operatorPc'[o] \in Serving => operatorPc'[o] = operatorPc[o]

Answers(p, o) == doTaskThrows(p, o) \/ SetExceptionAgain(p, o) \/ Reply(p, o)

\* What a pool does with calls: nothing, or an operator takes or ends one, or
\* one is added.
CallStep(p) ==
    \/ Quiet
    \/ \E o \in Operators : processTask(p, o) \/ doTask(p, o) \/ Answers(p, o)
    \/ \E c \in Calls : AddTaskPush(p, c)

\* The steps of operators and of callers are of these kinds.
LEMMA ThreadKinds ==
    ASSUME PoolTypeOK, NEW p,
           \/ \E o \in Operators : run(p, o)
           \/ \E c \in Calls, from \in CallerStates : CallerActs(p, c, from)
    PROVE  CallStep(p)
<1> USE DEF PoolTypeOK
<1>1. ASSUME NEW o \in Operators,
             \/ Loop(p, o) \/ Acquire(p, o) \/ Test(p, o) \/ Block(p, o)
             \/ SpuriousWakeup(p, o) \/ Retest(p, o) \/ NothingAllowed(p, o)
             \/ Finish(p, o) \/ Drain(p, o)
      PROVE  Quiet
  BY <1>1 DEF Quiet, Serving, Loop, Acquire, Test, Block, SpuriousWakeup, Retest,
              NothingAllowed, Finish, Drain
<1>2. ASSUME NEW c \in Calls, NEW from,
             AddTaskLock(p, c, from) \/ AddTaskThrows(p, c) \/ GetResult(c)
      PROVE  Quiet
  BY <1>2 DEF Quiet, AddTaskLock, AddTaskThrows, GetResult
<1>3. ASSUME NEW o \in Operators, run(p, o)
      PROVE  Quiet \/ processTask(p, o) \/ doTask(p, o) \/ Answers(p, o)
  BY <1>1, <1>3 DEF run, RunStep, Answers
<1>. QED
  BY <1>2, <1>3 DEF CallStep, CallerActs

\* start(), stop() and the destructor move no call.
LEMMA OwnerKinds ==
    ASSUME PoolTypeOK, NEW p, NEW from, NEW to, OwnerActs(p, from, to)
    PROVE  Quiet /\ UNCHANGED callerPc
<1> USE DEF PoolTypeOK
<1>1. CASE StartFlags(p, from, to) \/ stop(p, from, to) \/ DestroyFlag(p, from, to)
  BY <1>1 DEF Quiet, StartFlags, stop, DestroyFlag
<1>2. CASE StartNotify(p, from, to) \/ DestroyNotify(p, from, to)
  BY <1>2, WakeFacts DEF Quiet, Serving, StartNotify, DestroyNotify
<1>3. CASE DestroyJoin(p, from, to)
  BY <1>3 DEF Quiet, Serving, DestroyJoin
<1>. QED
  BY <1>1, <1>2, <1>3 DEF OwnerActs, StartFlags, StartNotify, stop, DestroyFlag, DestroyNotify,
                          DestroyJoin

\* Every step of the pool is one of them, or attaches the recorders.
LEMMA StepKinds ==
    ASSUME PoolTypeOK, [PoolNext]_vars
    PROVE  CallStep(Pool) \/ attachRecorders
<1>1. CASE UNCHANGED vars
  BY <1>1 DEF CallStep, Quiet, vars, poolVars, poolVarsButOwner
<1>2. CASE start
  BY <1>2, OwnerKinds DEF start, OwnerActs, CallStep
<1>3. CASE stop(Pool, "running", "stopped")
  BY <1>3, OwnerKinds DEF OwnerActs, CallStep
<1>4. CASE destroy
  BY <1>4, OwnerKinds DEF destroy, OwnerActs, CallStep
<1>5. CASE \E o \in Operators : run(Pool, o)
  BY <1>5, ThreadKinds
<1>6. CASE \E c \in Calls : add_task(c) \/ GetResult(c)
  BY <1>6, ThreadKinds DEF add_task, CallerActs, CallerStates
<1>. QED
  BY <1>1, <1>2, <1>3, <1>4, <1>5, <1>6 DEF PoolNext, Ended

\* If no call moves, it stays where Ownership says.
LEMMA QuietOwnership ==
    ASSUME PoolTypeOK, TaskHeld, Ownership, Quiet, UNCHANGED callerPc
    PROVE  Ownership'
BY QuietStep DEF Quiet, Serving

\* An operator gets its task and leaves it with its place.
LEMMA TaskStep ==
    ASSUME PoolTypeOK, TaskHeld, NeverPopsEmpty, NEW p, CallStep(p)
    PROVE  TaskHeld'
<1> USE PoolAssumption DEF PoolTypeOK, TaskHeld, Serving
<1>1. CASE Quiet
  BY <1>1 DEF Quiet
<1>2. ASSUME NEW o \in Operators, processTask(p, o)
      PROVE  TaskHeld'
  <2>1. front \in Calls
    BY <1>2 DEF processTask, NeverPopsEmpty, empty, front, QueueTypeOK
  <2>. QED
    BY <1>2, <2>1 DEF processTask
<1>3. ASSUME NEW o \in Operators, doTask(p, o) \/ Answers(p, o)
      PROVE  TaskHeld'
  BY <1>3 DEF doTask, Answers, doTaskThrows, SetExceptionAgain, Reply
<1>4. ASSUME NEW c \in Calls, AddTaskPush(p, c)
      PROVE  TaskHeld'
  BY <1>4, WakeFacts DEF AddTaskPush, NotifyAdded
<1>. QED
  BY <1>1, <1>2, <1>3, <1>4 DEF CallStep

\* Every step keeps Ownership.
LEMMA OwnershipStep ==
    ASSUME PoolTypeOK, Control, Ownership, [PoolNext]_vars
    PROVE  Ownership'
<1>0. TaskHeld /\ NeverPopsEmpty
  BY DEF Control
<1>1. CASE UNCHANGED vars
  BY <1>0, <1>1, QuietStep DEF vars, poolVars, poolVarsButOwner
<1>2. CASE \E o \in Operators : run(Pool, o)
  BY <1>0, <1>2, RunOwnership
<1>3. CASE \E c \in Calls : add_task(c) \/ GetResult(c)
  <2>1. \E c \in Calls : CallerActs(Pool, c, "new")
    BY <1>3 DEF add_task, CallerActs
  <2>. QED
    BY <1>0, <2>1, CallerOwnership
<1>4. CASE attachRecorders
  BY <1>0, <1>4, QuietStep DEF attachRecorders, poolVars, poolVarsButOwner
<1>5. CASE start \/ stop(Pool, "running", "stopped") \/ destroy
  BY <1>0, <1>5, OwnerKinds, QuietOwnership DEF start, destroy, OwnerActs
<1>. QED
  BY <1>1, <1>2, <1>3, <1>4, <1>5 DEF PoolNext, Ended

-----------------------------------------------------------------------------
(* Theorems.                                                               *)

\* PoolInv is an invariant of the pool: it holds when the pool has been
\* constructed, and every step of every thread keeps it.
THEOREM Invariance == PoolSpec => []PoolInv
<1>1. PoolInit => PoolInv
  <2>1. ASSUME PoolInit
        PROVE  Control /\ Ownership
    BY <2>1 DEF PoolInit, FirstPool, QueueInit, Control, MutexHeld, TaskHeld, Serving, NeverPopsEmpty,
          Ownership, WaitingBlocked, ServedBlocked, EnteringUnanswered, QueueDistinct,
          TasksDistinct, NoCallLost
  <2>. QED
    BY <2>1, TypeInit DEF PoolInv
<1>2. PoolInv /\ [PoolNext]_vars => PoolInv'
  BY TypeStep, ControlStep, OwnershipStep DEF PoolInv
<1>. QED
  BY <1>1, <1>2, PTL DEF PoolSpec

\* Type correctness of the pool, its queue, promises and records.
THEOREM TypeCorrectness == PoolSpec => []PoolTypeOK
BY Invariance, PTL DEF PoolInv

\* However threads are interleaved, a caller that add_task let go has its call
\* in the queue, with an operator, or answered.
THEOREM NothingLost == PoolSpec => []NoCallLost
<1>1. PoolInv => NoCallLost
  BY DEF PoolInv, Ownership
<1>. QED
  BY <1>1, Invariance, PTL

\* No call is in two places, so no promise of a result is set twice.
THEOREM NothingTwice == PoolSpec => []NoCallTwice
<1>1. PoolInv => NoCallTwice
  <2> SUFFICES ASSUME PoolInv PROVE NoCallTwice
    OBVIOUS
  <2>1. \A c \in Calls : Queued(c) => ~Served(c) /\ ~Answered(c)
    BY DEF PoolInv, Ownership, WaitingBlocked, Queued, Served, Answered
  <2>2. \A o \in Operators : operatorPc[o] \in {"exec", "reply"} => ~Answered(task[o])
    BY DEF PoolInv, Ownership, ServedBlocked, Serving, Answered
  <2>. QED
    BY <2>1, <2>2 DEF PoolInv, Ownership, QueueDistinct, TasksDistinct, NoCallTwice
<1>. QED
  BY <1>1, Invariance, PTL

\* While push or an operator may read a number, the caller that owns its text
\* is blocked.
THEOREM NumbersAlive == PoolSpec => []NumberAlive
<1>1. PoolInv => NumberAlive
  BY DEF PoolInv, Ownership, WaitingBlocked, ServedBlocked, Serving, NumberAlive, Queued
<1>. QED
  BY <1>1, Invariance, PTL

\* front() and pop() meet a call, whoever else takes calls from the queue.
THEOREM PopsSafe == PoolSpec => []NeverPopsEmpty
<1>1. PoolInv => NeverPopsEmpty
  BY DEF PoolInv, Control
<1>. QED
  BY <1>1, Invariance, PTL

\* A step sets the promise of a call only while it is not set: the promise of
\* a new call, of a waiting one or of one that an operator has.
LEMMA AnswerKept ==
    ASSUME CallsInv, NEW p, CallStep(p), NEW a \in Calls, Answered(a)
    PROVE  promise'[a] = promise[a]
<1> USE DEF CallsInv, PoolTypeOK, QueueTypeOK, Answered
<1>1. CASE UNCHANGED promise
  BY <1>1
<1>2. ASSUME NEW o \in Operators, Answers(p, o)
      PROVE  promise'[a] = promise[a]
  <2>1. CASE SetExceptionAgain(p, o)
    BY <2>1 DEF SetExceptionAgain, Answered, set_value
  <2>2. CASE doTaskThrows(p, o) \/ Reply(p, o)
    <3>1. promise[task[o]] = NoStatus
      BY <2>2 DEF doTaskThrows, Reply, Ownership, ServedBlocked, Serving
    <3>. QED
      BY <2>2, <3>1 DEF doTaskThrows, Reply, set_value
  <2>. QED
    BY <1>2, <2>1, <2>2 DEF Answers
<1>3. ASSUME NEW c \in Calls, AddTaskPush(p, c)
      PROVE  promise'[a] = promise[a]
  <2>1. promise[c] = NoStatus
    BY <1>3, EnteringNowhere DEF AddTaskPush
  <2>2. \A i \in DOMAIN queue_ : promise[queue_[i]] = NoStatus
    BY DEF Ownership, WaitingBlocked
  <2>. QED
    BY <1>3, <2>1, <2>2
       DEF AddTaskPush, push, handleOverloadedTask, handleTask, Duplicates, Refuse, set_value
<1>. QED
  BY <1>1, <1>2, <1>3 DEF CallStep, Quiet, processTask, doTask

\* A promise is set once: what a caller is told is never replaced, not by a
\* second result and not by the exception of SetExceptionAgain.
THEOREM AnswersFinal == PoolSpec => AnswerFinal
<1>1. ASSUME PoolInv, [PoolNext]_vars, NEW a \in Calls, Answered(a)
      PROVE  promise'[a] = promise[a]
  <2>1. CallsInv
    BY <1>1 DEF PoolInv, Control, CallsInv
  <2>2. CASE attachRecorders
    BY <2>2 DEF attachRecorders
  <2>. QED
    BY <1>1, <2>1, <2>2, StepKinds, AnswerKept DEF PoolInv
<1>2. PoolInv /\ [PoolNext]_vars =>
        [\A c \in Calls : Answered(c) => promise'[c] = promise[c]]_vars
  BY <1>1
<1>. QED
  BY <1>2, Invariance, PTL DEF PoolSpec, AnswerFinal
=============================================================================
