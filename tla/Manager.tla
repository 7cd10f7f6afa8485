------------------------------ MODULE Manager ------------------------------
(***************************************************************************)
(* Manager (src/src/manager.cpp): calls are added to the current pool      *)
(* under updateMtx held shared, and an update, with updateMtx held         *)
(* exclusively, resizes the queue and, if the number of operators is to    *)
(* change, builds a new pool, stops the old one, moves the queue, destroys *)
(* the old pool and starts the new one.                                    *)
(*                                                                         *)
(* The threads of this module are the operators of up to two pools, one    *)
(* thread per call (httpServer.cpp:30) and the owner, which starts the     *)
(* first pool and then makes updates.  Updates exclude each other, so one  *)
(* thread that makes all of them stands for the monitor of the             *)
(* configuration and all the update requests.                              *)
(***************************************************************************)
EXTENDS ThreadPool

CONSTANTS
    FirstOperators, \* the operators of the first pool
    AmountsOfOperators, SizesOfQueue \* what the configuration may say

ASSUME ManagerAssumption ==
    /\ FirstOperators \subseteq Operators
    /\ AmountsOfOperators \subseteq Nat
    /\ SizesOfQueue \subseteq Nat

VARIABLES
    threadPool_,    \* the current pool
    pool            \* the pool that an update builds, then the one it destroys

managerVars == <<vars, threadPool_, pool>>

ManagerInit ==
    /\ FirstPool(Pool, FirstOperators, Limit)
    /\ threadPool_ = Pool
    /\ pool = Pool

\* The pools of the manager stay as they are.
SamePools == UNCHANGED <<threadPool_, pool>>

-----------------------------------------------------------------------------
(* updateMtx.  Its shared holders are the threads inside addTask; it is    *)
(* held exclusively from UpdateLock to the end of update().  Until the     *)
(* server has started the first pool, it accepts no connection.            *)

updateMtxFree == ownerPc = "running"
updateMtxShared == \E c \in Calls : InAddTask(c)

AddTaskEnter(c) ==
    /\ updateMtxFree
    /\ CallerStep(c, "new", "entered")
    /\ UNCHANGED <<queueVars, task_queue_mutex, operatorPc>>
    /\ SamePools

\* add_task of the current pool; the shared lock ends with the call.
AddTask(c) ==
    /\ \/ AddTaskLock(threadPool_, c, "entered")
       \/ AddTaskThrows(threadPool_, c)
       \/ AddTaskPush(threadPool_, c)
    /\ SamePools

-----------------------------------------------------------------------------
(* update() and setNewThreadPool().                                        *)

startThreadPool ==
    /\ \/ StartFlags(threadPool_, "constructed", "booting")
       \/ StartNotify(threadPool_, "booting", "running")
    /\ SamePools

UpdateLock ==
    /\ ~updateMtxShared
    /\ OwnerFlagStep("running", "resize")
    /\ UNCHANGED <<threads, flags, operatorPc>>
    /\ SamePools

\* The queue is shared with the operators, but they do not read its limit.
UpdateQueue ==
    /\ OwnerStep("resize", "compare")
    /\ \E size \in SizesOfQueue : update(size)
    /\ UNCHANGED <<queue_, answers, recorders_, poolVarsButOwner>>
    /\ SamePools

CompareAmount ==
    /\ \E amount \in AmountsOfOperators :
         OwnerStep("compare", IF amount # getSize(threadPool_) THEN "build" ELSE "running")
    /\ UNCHANGED <<queueVars, poolVarsButOwner>>
    /\ SamePools

\* The configuration is read again, and may have changed.
BuildPool ==
    /\ OwnerFlagStep("build", "stop")
    /\ \E p \in {q \in Pools \ {threadPool_} : threads[q] = {}},
          T \in SUBSET {o \in Operators : operatorPc[o] = "none"} :
         /\ Cardinality(T) \in AmountsOfOperators
         /\ NewPool(p, T)
         /\ pool' = p
    /\ UNCHANGED <<hasQueue, threadPool_>>

\* Mutant: the pool that is stopped is the new one.
StopOldStopsNew == stop(pool, "stop", "lockOld") /\ SamePools

StopOld == stop(threadPool_, "stop", "lockOld") /\ SamePools

\* Mutant: transferObjects locks neither mutex.
TransferLockMissing(p, from, to) ==
    OwnerStep(from, to) /\ UNCHANGED <<queueVars, poolVarsButOwner>> /\ SamePools

\* Mutant: the new pool runs from the moment it has the queue.
MoveQueueStarts ==
    /\ hasQueue' = [hasQueue EXCEPT ![pool] = hasQueue[threadPool_]]
    /\ paused' = [paused EXCEPT ![pool] = FALSE]

\* transferObjects: the two mutexes, the pointer to the queue, and both
\* mutexes are released.
TransferLock(p, from, to) ==
    /\ OwnerStep(from, to)
    /\ Lock(p, Owner)
    /\ UNCHANGED <<queueVars, threads, flags, operatorPc>>
    /\ SamePools

MoveQueue ==
    /\ hasQueue' = [hasQueue EXCEPT ![pool] = hasQueue[threadPool_]]
    /\ UNCHANGED paused

Transfer ==
    /\ OwnerStep("assign", "swap")
    /\ MoveQueue
    /\ task_queue_mutex' = [p \in Pools |->
                              IF p \in {threadPool_, pool} THEN NoThread ELSE task_queue_mutex[p]]
    /\ UNCHANGED <<queueVars, threads, stopped, waitForCompletion, operatorPc>>
    /\ SamePools

transferObjects ==
    \/ TransferLock(threadPool_, "lockOld", "lockNew")
    \/ TransferLock(pool, "lockNew", "assign")
    \/ Transfer

\* threadPool_ = pool, which destroys the pool that threadPool_ pointed to.
AssignPool ==
    /\ DestroyFlag(threadPool_, "swap", "notifying")
    /\ threadPool_' = pool
    /\ pool' = threadPool_

DestroyOld ==
    /\ DestroyNotify(pool, "notifying", "joining") \/ DestroyJoin(pool, "joining", "start")
    /\ SamePools

StartNew ==
    /\ \/ StartFlags(threadPool_, "start", "starting")
       \/ StartNotify(threadPool_, "starting", "running")
    /\ SamePools

\* What an update does without waiting for a mutex or for operators.
UpdateStep ==
    \/ UpdateQueue \/ CompareAmount \/ BuildPool \/ StopOld \/ Transfer
    \/ DestroyOld \/ StartNew

setNewThreadPool == StopOld \/ transferObjects \/ AssignPool \/ DestroyOld \/ StartNew

ManagerNext ==
    /\ ~terminated
    /\ \/ \E p \in Pools : \E o \in threads[p] :
            run(p, o) /\ SamePools
       \/ \E c \in Calls :
            \/ AddTaskEnter(c) \/ AddTask(c)
            \/ GetResult(c) /\ SamePools
       \/ startThreadPool
       \/ UpdateLock \/ UpdateQueue \/ CompareAmount \/ BuildPool
       \/ setNewThreadPool

ManagerSpec == ManagerInit /\ [][ManagerNext]_managerVars

\* As for one pool.  Nothing is assumed of new calls and new updates, but an
\* update that has begun goes on, and a thread that asks for a mutex again and
\* again gets it.
ManagerFairness ==
    /\ \A o \in Operators :
         /\ WF_managerVars(~terminated /\ SamePools /\ \E p \in Pools :
                                o \in threads[p] /\ RunStep(p, o))
         /\ SF_managerVars(~terminated /\ SamePools /\ \E p \in Pools :
                                o \in threads[p] /\ Acquire(p, o))
    /\ \A c \in Calls :
         /\ SF_managerVars(AddTask(c) /\ ~terminated)
         /\ WF_managerVars(~terminated /\ SamePools /\ GetResult(c))
    /\ WF_managerVars((startThreadPool \/ UpdateStep) /\ ~terminated)
    /\ SF_managerVars((transferObjects \/ AssignPool) /\ ~terminated)

ManagerFairSpec == ManagerSpec /\ ManagerFairness

-----------------------------------------------------------------------------
(* Properties.                                                             *)

ManagerTypeOK ==
    /\ PoolTypeOK
    /\ threadPool_ \in Pools
    /\ pool \in Pools

\* Two pools share one queue but not a mutex: yet no two threads are in push,
\* in front() and pop(), or in update() of the queue at the same time.
QueueGuarded ==
    LET Inside == {o \in Operators : operatorPc[o] = "take"}
                    \cup {c \in Calls : callerPc[c] = "push"}
    IN /\ Cardinality(Inside) <= 1
       /\ ownerPc \in {"resize", "assign"} => \A c \in Calls : c \notin Inside
       /\ ownerPc = "assign" => Inside = {}

\* The pool that is being replaced and the new one never serve at the same
\* time, so the calls in service never exceed the configured operators, also
\* while an update is under way.
OnePoolServes ==
    \A p, q \in Pools : \A x \in threads[p], y \in threads[q] :
        operatorPc[x] \in {"take", "exec", "reply"} /\ operatorPc[y] \in {"take", "exec", "reply"}
            => p = q

\* An operator that finds the queue of a stopped pool empty ends for good, and
\* start() makes no other: the pool that serves must be one that nobody has
\* stopped, or it serves with fewer operators than were configured.
OperatorsStay ==
    ownerPc = "running" => \A o \in threads[threadPool_] : operatorPc[o] # "exit"

\* Thread t is between the lock and the unlock of the mutex of pool p.
Inside(t, p) ==
    \/ t \in threads[p] /\ operatorPc[t] \in {"test", "block", "ready", "take"}
    \/ t \in Calls /\ callerPc[t] = "push" /\ p = threadPool_
    \/ t = Owner /\ ownerPc \in {"lockNew", "assign"} /\ p = threadPool_
    \/ t = Owner /\ ownerPc = "assign" /\ p = pool

\* No path leaves a mutex locked, or unlocks that of another thread: not the
\* exception of a bad number, not the operator that blocks, and not the
\* transfer, which locks and unlocks the mutexes of two pools.
MutexesHeld ==
    \A p \in Pools : \A t \in Threads : task_queue_mutex[p] = t <=> Inside(t, p)

\* update() joins operators of the old pool that can all come to their end.
OldPoolAwake == ownerPc = "joining" => NoneAsleep(pool)

\* start() may miss one operator, the one that is about to block, but no more:
\* once it has returned, either every waiting call has an operator on its way
\* to it or at most one operator is asleep.  In a pool of two or more somebody
\* is awake while calls wait.
AtMostOneMisses ==
    ownerPc = "running" =>
        \/ NoneIdle(threadPool_)
        \/ Cardinality({o \in threads[threadPool_] : operatorPc[o] \in {"block", "wait"}}) <= 1

\* An update comes to its end, whatever the operators are doing: no cycle of
\* updateMtx, the two mutexes of the pools and the join.
UpdateReturns == ownerPc \notin {"constructed", "booting", "running"} ~> ownerPc = "running"

\* Every call that entered addTask is answered, or refused for its number,
\* also if the pool is replaced.  It holds for new pools of two operators or
\* more, which is what the normalisation of the configuration grants.
EveryCallReturns ==
    \A c \in Calls : callerPc[c] = "entered" ~> callerPc[c] \in {"done", "failed"}

\* interfaces.hpp:261 and manager.hpp:58-60: start() starts the execution of
\* the tasks that were moved to the new pool: none waits while an operator of
\* the pool sleeps.
StartWakesOperators == NoneIdle(threadPool_)

\* Readme.md:6-7: the CallID is used in the journal of calls.  When a call has
\* its result, the journal that the builder made has a line of it.
AnswersInJournal ==
    \A c \in Calls : promise[c] \in CallStatus => \A r \in Recorders : cdrFile[r][c] # <<>>

\* With its updates, the server is a call center whose staff is exchanged only
\* while it serves nobody, and whose line keeps its order.
Server == INSTANCE CallCenter WITH
    waiting <- queue_,
    serving <- InService,
    answer <- promise,
    line <- sizeOfQueue,
    staff <- Cardinality(threads[IF ownerPc \in {"notifying", "joining"} THEN pool
                                                                        ELSE threadPool_]),
    NoAnswer <- NoStatus,
    StaffSizes <- AmountsOfOperators \cup {Cardinality(FirstOperators)},
    LineSizes <- SizesOfQueue \cup {Limit}

ServerServesInOrder == Server!CenterSpec
=============================================================================
