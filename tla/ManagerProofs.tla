---------------------------- MODULE ManagerProofs ----------------------------
(***************************************************************************)
(* Proofs about Manager, for every number of calls, operators, pools and   *)
(* updates: that no call is lost or in two places while pools are          *)
(* exchanged, that two pools which share the queue never use it at the     *)
(* same time, that only one of them serves, and that the pool in use keeps *)
(* its operators.                                                          *)
(***************************************************************************)
EXTENDS Manager, CallCenterProofs

\* As in ThreadPoolProofs.
USE DEF Step, Move, LeaveTask, CallerStep, OwnerStep, OwnerFlagStep, SamePools,
        queueVars, settings, answers, flags

-----------------------------------------------------------------------------
(* The inductive invariant.                                                *)

\* While the owner is here, pool is the new one ...
Building == {"stop", "lockOld", "lockNew", "assign", "swap"}

\* ... and here it is the old one.
Destroying == {"notifying", "joining"}

\* The pool that may serve.
Active == IF ownerPc \in Destroying THEN pool ELSE threadPool_

\* Every operator is in one pool, and an update has two of them.
PoolsInv ==
    /\ ownerPc \in Building \cup Destroying => pool # threadPool_
    /\ \A o \in Operators : operatorPc[o] # "none" <=> \E p \in Pools : o \in threads[p]
    /\ \A p, q \in Pools : \A o \in threads[p] \cap threads[q] : p = q
    /\ \A p \in Pools : \A o \in threads[p] :
         p # threadPool_ => p = pool /\ ownerPc \in Building \cup Destroying

\* updateMtx: nobody is in addTask during an update.
CallersInv ==
    \A c \in Calls :
        /\ InAddTask(c) => ownerPc = "running"
        /\ callerPc[c] = "push" => task_queue_mutex[threadPool_] = c

\* The places of an operator between lock() and unlock().
Holding == {"test", "block", "ready", "take"}

\* Each operator locks the mutex of its own pool; transferObjects locks two.
MutexInv ==
    /\ \A p \in Pools : \A o \in threads[p] :
         operatorPc[o] \in Holding => task_queue_mutex[p] = o
    /\ ownerPc \in {"lockNew", "assign"} => task_queue_mutex[threadPool_] = Owner
    /\ ownerPc = "assign" => task_queue_mutex[pool] = Owner

\* The places of an operator that has found nothing to do.
Idle == {"loop", "lock", "test", "block", "wait", "ready"}

\* A pool that has not been started yet.
Fresh(p) ==
    \/ p = pool /\ ownerPc \in Building
    \/ p = threadPool_ /\ ownerPc \in Destroying \cup {"constructed", "start"}

\* Its operators do nothing, even with the queue in their hands.
FreshInv ==
    \A p \in Pools : Fresh(p) => paused[p] /\ \A o \in threads[p] : operatorPc[o] \in Idle

\* A pool that nobody has stopped.
Staying(p) ==
    \/ p = threadPool_ /\ ownerPc \notin Building \ {"stop"}
    \/ p = pool /\ ownerPc \in Building

\* Its operators do not end.
StayingInv ==
    \A p \in Pools : Staying(p) =>
        /\ ~stopped[p]
        /\ ~waitForCompletion[p]
        /\ \A o \in threads[p] : operatorPc[o] \notin {"drain", "exit"}

PoolsControl == PoolsInv /\ CallersInv /\ MutexInv /\ FreshInv /\ StayingInv

ManagerInv ==
    /\ ManagerTypeOK
    /\ TaskHeld
    /\ NeverPopsEmpty
    /\ Ownership
    /\ PoolsControl

-----------------------------------------------------------------------------
(* What an operator and a caller may change.                               *)

\* An operator moves within one pool.  It gets the mutex only when that is
\* free and releases only the one it has; it stays idle while the pool is
\* paused, and leaves the loop only if the pool was stopped.
LEMMA RunShape ==
    ASSUME PoolTypeOK, NEW p \in Pools, NEW o \in Operators, run(p, o)
    PROVE  /\ UNCHANGED <<threads, flags, callerPc, ownerPc>>
           /\ \A w \in Operators \ {o} : operatorPc'[w] = operatorPc[w]
           /\ operatorPc[o] # "none" /\ operatorPc'[o] # "none"
           /\ \/ /\ task_queue_mutex' = task_queue_mutex
                 /\ operatorPc'[o] \in Holding <=> operatorPc[o] \in Holding
              \/ /\ task_queue_mutex[p] = NoThread /\ operatorPc'[o] \in Holding
                 /\ task_queue_mutex' = [task_queue_mutex EXCEPT ![p] = o]
              \/ /\ operatorPc[o] \in Holding /\ operatorPc'[o] \notin Holding
                 /\ task_queue_mutex' = [task_queue_mutex EXCEPT ![p] = NoThread]
           /\ paused[p] /\ ~stopped[p] /\ operatorPc[o] \in Idle => operatorPc'[o] \in Idle
           /\ ~stopped[p] /\ ~waitForCompletion[p] /\ operatorPc[o] \notin {"drain", "exit"}
                => operatorPc'[o] \notin {"drain", "exit"}
<1> USE DEF PoolTypeOK, OperatorStates, Holding, Idle
<1>1. CASE Loop(p, o)
  BY <1>1 DEF Loop
<1>2. CASE Acquire(p, o)
  BY <1>2 DEF Acquire, Lock
<1>3. CASE Test(p, o)
  BY <1>3 DEF Test
<1>4. CASE Block(p, o)
  BY <1>4 DEF Block, Unlock
<1>5. CASE SpuriousWakeup(p, o)
  BY <1>5 DEF SpuriousWakeup
<1>6. CASE Retest(p, o)
  BY <1>6 DEF Retest, run_allowed
<1>7. CASE NothingAllowed(p, o)
  BY <1>7 DEF NothingAllowed, Unlock
<1>8. CASE processTask(p, o)
  BY <1>8 DEF processTask, Unlock
<1>9. CASE doTask(p, o) \/ doTaskThrows(p, o) \/ SetExceptionAgain(p, o) \/ Reply(p, o)
  BY <1>9 DEF doTask, doTaskThrows, SetExceptionAgain, Reply
<1>10. CASE Finish(p, o) \/ Drain(p, o)
  BY <1>10 DEF Finish, Drain
<1>. QED
  BY <1>1, <1>2, <1>3, <1>4, <1>5, <1>6, <1>7, <1>8, <1>9, <1>10 DEF run, RunStep

\* A caller inside addTask wakes operators and has the mutex in push.
LEMMA CallerShape ==
    ASSUME PoolTypeOK, NEW p \in Pools, NEW c \in Calls, CallerActs(p, c, "entered")
    PROVE  /\ UNCHANGED <<threads, flags, ownerPc>>
           /\ \A d \in Calls \ {c} : callerPc'[d] = callerPc[d]
           /\ \A o \in Operators : \/ operatorPc'[o] = operatorPc[o]
                                   \/ operatorPc[o] = "wait" /\ operatorPc'[o] = "lock"
           /\ \/ /\ callerPc[c] = "entered" /\ callerPc'[c] = "push"
                 /\ task_queue_mutex[p] = NoThread
                 /\ task_queue_mutex' = [task_queue_mutex EXCEPT ![p] = c]
              \/ /\ callerPc[c] = "push" /\ callerPc'[c] \notin {"entered", "push"}
                 /\ task_queue_mutex[p] = c
                 /\ task_queue_mutex' = [task_queue_mutex EXCEPT ![p] = NoThread]
              \/ /\ callerPc[c] \notin {"entered", "push"} /\ callerPc'[c] \notin {"entered", "push"}
                 /\ task_queue_mutex' = task_queue_mutex
<1> USE DEF PoolTypeOK, CallerActs
<1>1. \A o \in Operators : \/ operatorPc'[o] = operatorPc[o]
                           \/ operatorPc[o] = "wait" /\ operatorPc'[o] = "lock"
  BY WakeFacts DEF AddTaskLock, AddTaskThrows, AddTaskPush, GetResult, NotifyAdded
<1>2. CASE AddTaskLock(p, c, "entered")
  BY <1>1, <1>2 DEF AddTaskLock, Lock
<1>3. CASE AddTaskThrows(p, c) \/ AddTaskPush(p, c)
  BY <1>1, <1>3 DEF AddTaskThrows, AddTaskPush, Unlock
<1>4. CASE GetResult(c)
  BY <1>1, <1>4 DEF GetResult
<1>. QED
  BY <1>2, <1>3, <1>4

\* What the owner does, sorted by what it changes.
StartMoves ==
    \/ StartFlags(threadPool_, "constructed", "booting")
    \/ StartNotify(threadPool_, "booting", "running")
    \/ StartFlags(threadPool_, "start", "starting")
    \/ StartNotify(threadPool_, "starting", "running")

OwnerMoves ==
    \/ SamePools /\ (StartMoves \/ DestroyNotify(pool, "notifying", "joining")
                        \/ DestroyJoin(pool, "joining", "start"))
    \/ UpdateLock \/ UpdateQueue \/ CompareAmount \/ BuildPool
    \/ StopOld \/ transferObjects \/ AssignPool

CallerMoves(c) == AddTaskEnter(c) \/ (SamePools /\ CallerActs(threadPool_, c, "entered"))

\* Every step is one of an operator in its pool, a caller, or the owner.
LEMMA ManagerKinds ==
    ASSUME ManagerNext
    PROVE  \/ \E p \in Pools : \E o \in threads[p] : run(p, o) /\ SamePools
           \/ \E c \in Calls : CallerMoves(c)
           \/ OwnerMoves
<1>1. ASSUME NEW c \in Calls, AddTaskEnter(c) \/ AddTask(c) \/ (GetResult(c) /\ SamePools)
      PROVE  CallerMoves(c)
  BY <1>1 DEF AddTask, CallerActs, CallerMoves
<1>2. CASE startThreadPool \/ StartNew
  BY <1>2 DEF startThreadPool, StartNew, StartMoves, OwnerMoves
<1>3. CASE DestroyOld
  BY <1>3 DEF DestroyOld, OwnerMoves
<1>4. CASE \/ UpdateLock \/ UpdateQueue \/ CompareAmount \/ BuildPool
           \/ StopOld \/ transferObjects \/ AssignPool
  BY <1>4 DEF OwnerMoves
<1>. QED
  BY <1>1, <1>2, <1>3, <1>4 DEF ManagerNext, setNewThreadPool

-----------------------------------------------------------------------------
(* PoolsControl, kind by kind.                                             *)

\* A step of an operator keeps PoolsControl.
LEMMA RunControl ==
    ASSUME ManagerTypeOK, PoolsControl, NEW p \in Pools, NEW o \in threads[p], run(p, o), SamePools
    PROVE  PoolsControl'
<1> USE DEF PoolTypeOK, ManagerTypeOK, PoolsControl
<1>1. o \in Operators
  OBVIOUS
<1>2. /\ UNCHANGED <<threads, flags, callerPc, ownerPc>>
      /\ \A w \in Operators \ {o} : operatorPc'[w] = operatorPc[w]
      /\ operatorPc[o] # "none" /\ operatorPc'[o] # "none"
  BY <1>1, RunShape
<1>3. \/ /\ task_queue_mutex' = task_queue_mutex
         /\ operatorPc'[o] \in Holding => operatorPc[o] \in Holding
      \/ /\ task_queue_mutex[p] = NoThread
         /\ task_queue_mutex' = [task_queue_mutex EXCEPT ![p] = o]
      \/ /\ operatorPc[o] \in Holding /\ operatorPc'[o] \notin Holding
         /\ task_queue_mutex' = [task_queue_mutex EXCEPT ![p] = NoThread]
  BY <1>1, RunShape
<1>4. /\ paused[p] /\ ~stopped[p] /\ operatorPc[o] \in Idle => operatorPc'[o] \in Idle
      /\ ~stopped[p] /\ ~waitForCompletion[p] /\ operatorPc[o] \notin {"drain", "exit"}
                => operatorPc'[o] \notin {"drain", "exit"}
  BY <1>1, RunShape
<1>5. \A q \in Pools : o \in threads[q] => q = p
  BY DEF PoolsInv
<1>6. PoolsInv'
  BY <1>1, <1>2 DEF PoolsInv
<1>7. CallersInv'
  BY <1>1, <1>2, <1>3, PoolAssumption DEF CallersInv, MutexInv, InAddTask, Threads
<1>8. MutexInv'
  <2>1. ASSUME NEW q \in Pools, NEW w \in threads[q], operatorPc'[w] \in Holding
        PROVE  task_queue_mutex'[q] = w
    BY <1>1, <1>2, <1>3, <1>5, <2>1, PoolAssumption DEF MutexInv, Threads
  <2>2. ownerPc \in {"lockNew", "assign"} => task_queue_mutex'[threadPool_] = Owner
    BY <1>1, <1>3, PoolAssumption DEF MutexInv, Threads
  <2>3. ownerPc = "assign" => task_queue_mutex'[pool] = Owner
    BY <1>1, <1>3, PoolAssumption DEF MutexInv, Threads
  <2>. QED
    BY <1>2, <2>1, <2>2, <2>3 DEF MutexInv
<1>9. \A q \in Pools : Fresh(q) => Staying(q)
  BY DEF Fresh, Staying, Building, Destroying
<1>10. FreshInv'
  BY <1>1, <1>2, <1>4, <1>5, <1>9 DEF FreshInv, StayingInv, Fresh
<1>11. StayingInv'
  BY <1>1, <1>2, <1>4, <1>5 DEF StayingInv, Staying
<1>. QED
  BY <1>6, <1>7, <1>8, <1>10, <1>11

\* A step of a caller keeps PoolsControl.
LEMMA CallerControl ==
    ASSUME ManagerTypeOK, PoolsControl, NEW c \in Calls, CallerMoves(c)
    PROVE  PoolsControl'
<1> USE DEF PoolTypeOK, ManagerTypeOK, PoolsControl
<1>1. CASE AddTaskEnter(c)
  <2>1. /\ UNCHANGED <<threads, flags, ownerPc, operatorPc, task_queue_mutex, threadPool_, pool>>
        /\ ownerPc = "running" /\ callerPc' = [callerPc EXCEPT ![c] = "entered"]
    BY <1>1 DEF AddTaskEnter, updateMtxFree
  <2>2. CallersInv'
    BY <2>1 DEF CallersInv, InAddTask
  <2>3. PoolsInv' /\ MutexInv'
    BY <2>1 DEF PoolsInv, MutexInv
  <2>4. FreshInv' /\ StayingInv'
    BY <2>1 DEF FreshInv, Fresh, StayingInv, Staying
  <2>. QED  BY <2>2, <2>3, <2>4
<1>2. CASE SamePools /\ CallerActs(threadPool_, c, "entered")
  <2>1. /\ UNCHANGED <<threads, flags, ownerPc, threadPool_, pool>>
        /\ \A d \in Calls \ {c} : callerPc'[d] = callerPc[d]
        /\ \A o \in Operators : \/ operatorPc'[o] = operatorPc[o]
                                \/ operatorPc[o] = "wait" /\ operatorPc'[o] = "lock"
    BY <1>2, CallerShape
  <2>2. \/ /\ callerPc[c] = "entered" /\ callerPc'[c] = "push"
           /\ task_queue_mutex[threadPool_] = NoThread
           /\ task_queue_mutex' = [task_queue_mutex EXCEPT ![threadPool_] = c]
        \/ /\ callerPc[c] = "push" /\ callerPc'[c] \notin {"entered", "push"}
           /\ task_queue_mutex[threadPool_] = c
           /\ task_queue_mutex' = [task_queue_mutex EXCEPT ![threadPool_] = NoThread]
        \/ /\ callerPc'[c] \notin {"entered", "push"}
           /\ task_queue_mutex' = task_queue_mutex
    BY <1>2, CallerShape
  <2>3. CallersInv'
    BY <2>1, <2>2, PoolAssumption DEF CallersInv, InAddTask, Threads
  <2>4. PoolsInv'
    BY <2>1 DEF PoolsInv
  <2>5. MutexInv'
    <3>1. \A o \in Operators : operatorPc'[o] \in Holding => operatorPc[o] \in Holding
      BY <2>1 DEF Holding
    <3>. QED
      BY <2>1, <2>2, <3>1, PoolAssumption DEF MutexInv, Threads
  <2>6. FreshInv'
    BY <2>1 DEF FreshInv, Fresh, Idle
  <2>7. StayingInv'
    BY <2>1 DEF StayingInv, Staying
  <2>. QED  BY <2>3, <2>4, <2>5, <2>6, <2>7
<1>. QED
  BY <1>1, <1>2 DEF CallerMoves

\* start() keeps PoolsControl: it ends the time in which the pool is fresh.
LEMMA StartControl ==
    ASSUME ManagerTypeOK, PoolsControl, StartMoves, SamePools
    PROVE  PoolsControl'
<1> USE DEF PoolTypeOK, ManagerTypeOK, PoolsControl
<1>1. /\ UNCHANGED <<threads, callerPc, task_queue_mutex, threadPool_, pool>>
      /\ \A o \in Operators : \/ operatorPc'[o] = operatorPc[o]
                              \/ operatorPc[o] = "wait" /\ operatorPc'[o] = "lock"
  BY WakeFacts DEF StartMoves, StartFlags, StartNotify
<1>2. /\ ownerPc \in {"constructed", "booting", "start", "starting"}
      /\ ownerPc' \in {"booting", "starting", "running"}
      /\ \A p \in Pools : stopped[p] \/ ~stopped'[p]
      /\ \A p \in Pools : waitForCompletion[p] \/ ~waitForCompletion'[p]
  BY DEF StartMoves, StartFlags, StartNotify
<1>3. PoolsInv'
  BY <1>1, <1>2 DEF PoolsInv, Building, Destroying
<1>4. CallersInv' /\ MutexInv'
  BY <1>1, <1>2 DEF CallersInv, InAddTask, MutexInv, Holding
<1>5. FreshInv'
  BY <1>2 DEF FreshInv, Fresh, Building, Destroying
<1>6. StayingInv'
  BY <1>1, <1>2 DEF StayingInv, Staying, Building
<1>. QED
  BY <1>3, <1>4, <1>5, <1>6

\* The destructor of the old pool keeps PoolsControl.
LEMMA DestroyControl ==
    ASSUME ManagerTypeOK, PoolsControl, SamePools,
           DestroyNotify(pool, "notifying", "joining") \/ DestroyJoin(pool, "joining", "start")
    PROVE  PoolsControl'
<1> USE DEF PoolTypeOK, ManagerTypeOK, PoolsControl, Building, Destroying
<1>1. CASE DestroyNotify(pool, "notifying", "joining")
  <2>1. /\ UNCHANGED <<threads, flags, callerPc, task_queue_mutex, threadPool_, pool>>
        /\ \A o \in Operators : \/ operatorPc'[o] = operatorPc[o]
                                \/ operatorPc[o] = "wait" /\ operatorPc'[o] = "lock"
        /\ ownerPc = "notifying" /\ ownerPc' = "joining"
    BY <1>1, WakeFacts DEF DestroyNotify
  <2>2. PoolsInv' /\ CallersInv' /\ MutexInv'
    BY <2>1 DEF PoolsInv, CallersInv, InAddTask, MutexInv, Holding
  <2>3. FreshInv' /\ StayingInv'
    BY <2>1 DEF FreshInv, Fresh, StayingInv, Staying, Idle
  <2>. QED  BY <2>2, <2>3
<1>2. CASE DestroyJoin(pool, "joining", "start")
  <2>1. /\ UNCHANGED <<stopped, paused, waitForCompletion, callerPc, task_queue_mutex, threadPool_, pool>>
        /\ ownerPc = "joining" /\ ownerPc' = "start"
        /\ threads' = [threads EXCEPT ![pool] = {}]
        /\ \A o \in Operators :
             operatorPc'[o] = IF o \in threads[pool] THEN "none" ELSE operatorPc[o]
    BY <1>2 DEF DestroyJoin
  <2>2. /\ \A p \in Pools : threads'[p] = IF p = pool THEN {} ELSE threads[p]
        /\ \A p \in Pools : \A o \in threads'[p] : o \in Operators /\ operatorPc'[o] = operatorPc[o]
    BY <2>1 DEF PoolsInv
  <2>3. PoolsInv'
    BY <2>1, <2>2 DEF PoolsInv
  <2>4. CallersInv' /\ MutexInv'
    BY <2>1, <2>2 DEF CallersInv, InAddTask, MutexInv, Holding
  <2>5. FreshInv' /\ StayingInv'
    BY <2>1, <2>2 DEF FreshInv, Fresh, StayingInv, Staying
  <2>. QED  BY <2>3, <2>4, <2>5
<1>. QED
  BY <1>1, <1>2

\* What an update does before it touches the pools keeps PoolsControl.
LEMMA UpdateControl ==
    ASSUME ManagerTypeOK, PoolsControl, UpdateLock \/ UpdateQueue \/ CompareAmount
    PROVE  PoolsControl'
<1> USE DEF PoolsControl, Building, Destroying
<1>1. /\ UNCHANGED <<threads, stopped, paused, waitForCompletion, task_queue_mutex, callerPc,
                     operatorPc, threadPool_, pool>>
      /\ ownerPc \in {"running", "resize", "compare"}
      /\ ownerPc' \in {"resize", "compare", "build", "running"}
      /\ \A c \in Calls : ~InAddTask(c)
  BY DEF UpdateLock, UpdateQueue, CompareAmount, updateMtxShared, CallersInv, poolVarsButOwner
<1>2. PoolsInv' /\ CallersInv' /\ MutexInv'
  BY <1>1 DEF PoolsInv, CallersInv, InAddTask, MutexInv
<1>3. FreshInv' /\ StayingInv'
  BY <1>1 DEF FreshInv, Fresh, StayingInv, Staying
<1>. QED
  BY <1>2, <1>3

\* The new pool is paused, and its operators are new.
LEMMA BuildControl ==
    ASSUME ManagerTypeOK, PoolsControl, BuildPool
    PROVE  PoolsControl'
<1> USE DEF PoolTypeOK, ManagerTypeOK, PoolsControl, Building, Destroying
<1>1. PICK p \in Pools \ {threadPool_}, T \in SUBSET {o \in Operators : operatorPc[o] = "none"} :
        threads[p] = {} /\ NewPool(p, T) /\ pool' = p
  BY DEF BuildPool
<1>2. /\ ownerPc = "build" /\ ownerPc' = "stop"
      /\ UNCHANGED <<task_queue_mutex, callerPc, threadPool_>>
      /\ \A q \in Pools : threads'[q] = IF q = p THEN T ELSE threads[q]
      /\ \A o \in Operators : operatorPc'[o] = IF o \in T THEN "loop" ELSE operatorPc[o]
      /\ \A q \in Pools \ {p} : stopped'[q] = stopped[q] /\ waitForCompletion'[q] = waitForCompletion[q]
      /\ paused'[p] /\ ~stopped'[p] /\ ~waitForCompletion'[p]
  BY <1>1 DEF BuildPool, NewPool
<1>3. \A q \in Pools : \A o \in threads[q] : o \in Operators /\ operatorPc[o] # "none"
  BY DEF PoolsInv
<1>4. \A q \in Pools \ {p} : \A o \in threads'[q] : o \in threads[q] /\ operatorPc'[o] = operatorPc[o]
  BY <1>1, <1>2, <1>3
<1>5. \A o \in threads'[p] : o \in Operators /\ o \in T /\ operatorPc'[o] = "loop"
  BY <1>1, <1>2
<1>6. PoolsInv'
  <2>1. \A o \in Operators : operatorPc'[o] # "none" <=> \E q \in Pools : o \in threads'[q]
    BY <1>1, <1>2, <1>3 DEF PoolsInv
  <2>2. \A q, r \in Pools : \A o \in threads'[q] \cap threads'[r] : q = r
    BY <1>1, <1>2, <1>3, <1>4, <1>5 DEF PoolsInv
  <2>. QED  BY <1>1, <1>2, <2>1, <2>2 DEF PoolsInv
<1>7. CallersInv'
  BY <1>2 DEF CallersInv, InAddTask
<1>8. MutexInv'
  BY <1>1, <1>2, <1>4, <1>5 DEF MutexInv, Holding
<1>9. FreshInv'
  BY <1>1, <1>2, <1>5 DEF FreshInv, Fresh, Idle
<1>10. StayingInv'
  BY <1>1, <1>2, <1>4, <1>5 DEF StayingInv, Staying
<1>. QED
  BY <1>6, <1>7, <1>8, <1>9, <1>10

\* setNewThreadPool keeps PoolsControl: it moves the queue under both mutexes,
\* and the pool that it stops is no longer the one that stays.
LEMMA SwapControl ==
    ASSUME ManagerTypeOK, PoolsControl, StopOld \/ transferObjects \/ AssignPool
    PROVE  PoolsControl'
<1> USE DEF PoolTypeOK, ManagerTypeOK, PoolsControl, Building, Destroying
<1>0. UNCHANGED <<threads, operatorPc, callerPc>> /\ ownerPc \in Building
  BY DEF StopOld, stop, transferObjects, TransferLock, Transfer, AssignPool, DestroyFlag
<1>1. CASE StopOld
  <2>1. /\ UNCHANGED <<stopped, task_queue_mutex, threadPool_, pool>>
        /\ ownerPc = "stop" /\ ownerPc' = "lockOld"
        /\ \A p \in Pools : paused[p] => paused'[p]
        /\ \A p \in Pools \ {threadPool_} : waitForCompletion'[p] = waitForCompletion[p]
    BY <1>1 DEF StopOld, stop
  <2>2. PoolsInv' /\ CallersInv' /\ MutexInv'
    BY <1>0, <2>1 DEF PoolsInv, CallersInv, InAddTask, MutexInv
  <2>3. FreshInv' /\ StayingInv'
    BY <1>0, <2>1 DEF FreshInv, Fresh, StayingInv, Staying, PoolsInv
  <2>. QED  BY <2>2, <2>3
<1>2. CASE transferObjects
  <2>1. /\ UNCHANGED <<stopped, paused, waitForCompletion, threadPool_, pool>>
        /\ ownerPc \in {"lockOld", "lockNew", "assign"} /\ ownerPc' \in {"lockNew", "assign", "swap"}
    BY <1>2 DEF transferObjects, TransferLock, Transfer, MoveQueue
  <2>2. PoolsInv' /\ FreshInv' /\ StayingInv'
    BY <1>0, <2>1 DEF PoolsInv, FreshInv, Fresh, StayingInv, Staying
  <2>3. CallersInv'
    BY <1>0, <2>1 DEF CallersInv, InAddTask
  <2>4. ASSUME \/ TransferLock(threadPool_, "lockOld", "lockNew")
               \/ TransferLock(pool, "lockNew", "assign")
        PROVE  MutexInv'
    <3>1. ASSUME NEW p \in {threadPool_, pool}, Lock(p, Owner),
                 ownerPc' = "assign" => p = pool /\ task_queue_mutex[threadPool_] = Owner,
                 ownerPc' = "lockNew" => p = threadPool_,
                 ownerPc' # "swap"
          PROVE  MutexInv'
      <4>1. /\ task_queue_mutex[p] = NoThread
            /\ task_queue_mutex' = [task_queue_mutex EXCEPT ![p] = Owner]
        BY <3>1 DEF Lock
      <4>2. \A q \in Pools : \A o \in threads[q] : o \in Operators /\ o # NoThread
        BY PoolAssumption DEF Threads
      <4>3. \A q \in Pools : \A o \in threads[q] : operatorPc[o] \in Holding => task_queue_mutex'[q] = o
        BY <4>1, <4>2 DEF MutexInv
      <4>4. ownerPc' \in {"lockNew", "assign"} => task_queue_mutex'[threadPool_] = Owner
        BY <3>1, <4>1
      <4>5. ownerPc' = "assign" => task_queue_mutex'[pool] = Owner
        BY <3>1, <4>1
      <4>. QED  BY <1>0, <2>1, <4>3, <4>4, <4>5 DEF MutexInv
    <3>2. CASE TransferLock(threadPool_, "lockOld", "lockNew")
      <4>1. Lock(threadPool_, Owner) /\ ownerPc' = "lockNew"
        BY <3>2 DEF TransferLock
      <4>. QED  BY <3>1, <4>1
    <3>3. CASE TransferLock(pool, "lockNew", "assign")
      <4>1. Lock(pool, Owner) /\ ownerPc = "lockNew" /\ ownerPc' = "assign"
        BY <3>3 DEF TransferLock
      <4>2. task_queue_mutex[threadPool_] = Owner
        BY <4>1 DEF MutexInv
      <4>. QED  BY <3>1, <4>1, <4>2
    <3>. QED
      BY <2>4, <3>2, <3>3
  <2>5. ASSUME Transfer
        PROVE  MutexInv'
    <3>1. /\ ownerPc = "assign" /\ ownerPc' = "swap"
          /\ \A p \in Pools : task_queue_mutex'[p] =
                IF p \in {threadPool_, pool} THEN NoThread ELSE task_queue_mutex[p]
      BY <2>5 DEF Transfer
    <3>2. \A p \in Pools : \A o \in threads[p] : o \in Operators /\ o # Owner
      BY PoolAssumption
    <3>3. \A p \in {threadPool_, pool} : \A o \in threads[p] : operatorPc[o] \notin Holding
      BY <3>1, <3>2 DEF MutexInv
    <3>4. \A p \in Pools : \A o \in threads[p] : operatorPc[o] \in Holding => task_queue_mutex'[p] = o
      BY <3>1, <3>3 DEF MutexInv
    <3>. QED
      BY <1>0, <3>1, <3>4 DEF MutexInv
  <2>. QED  BY <1>2, <2>2, <2>3, <2>4, <2>5 DEF transferObjects
<1>3. CASE AssignPool
  <2>1. /\ UNCHANGED <<paused, waitForCompletion, task_queue_mutex>>
        /\ ownerPc = "swap" /\ ownerPc' = "notifying"
        /\ threadPool_' = pool /\ pool' = threadPool_
        /\ stopped' = [stopped EXCEPT ![threadPool_] = TRUE]
    BY <1>3 DEF AssignPool, DestroyFlag
  <2>2. PoolsInv' /\ CallersInv' /\ MutexInv'
    BY <1>0, <2>1 DEF PoolsInv, CallersInv, InAddTask, MutexInv
  <2>3. FreshInv' /\ StayingInv'
    BY <1>0, <2>1 DEF FreshInv, Fresh, StayingInv, Staying, PoolsInv
  <2>. QED  BY <2>2, <2>3
<1>. QED
  BY <1>1, <1>2, <1>3

\* Every step keeps PoolsControl.
LEMMA ControlKept ==
    ASSUME ManagerTypeOK, PoolsControl, [ManagerNext]_managerVars
    PROVE  PoolsControl'
<1>1. CASE UNCHANGED managerVars
  BY <1>1 DEF managerVars, vars, poolVars, poolVarsButOwner, PoolsControl, PoolsInv, CallersInv,
              InAddTask, MutexInv, FreshInv, Fresh, StayingInv, Staying
<1>2. CASE OwnerMoves
  BY <1>2, StartControl, DestroyControl, UpdateControl, BuildControl, SwapControl DEF OwnerMoves
<1>. QED
  BY <1>1, <1>2, ManagerKinds, RunControl, CallerControl

-----------------------------------------------------------------------------
(* Who serves.                                                             *)

\* Only operators of the active pool leave the places of the idle.
LEMMA OnlyActive ==
    ASSUME ManagerTypeOK, PoolsControl
    PROVE  \A p \in Pools : \A o \in threads[p] : operatorPc[o] \notin Idle => p = Active
BY DEF ManagerTypeOK, PoolsControl, PoolsInv, FreshInv, Fresh, Active, Building, Destroying

\* Whoever is about to take or to push a call has the mutex of the active pool.
LEMMA OneUser ==
    ASSUME ManagerTypeOK, PoolsControl
    PROVE  /\ \A o \in Operators : operatorPc[o] = "take" => task_queue_mutex[Active] = o
           /\ \A c \in Calls : callerPc[c] = "push" => task_queue_mutex[Active] = c
<1> USE DEF PoolsControl
<1>1. ASSUME NEW o \in Operators, operatorPc[o] = "take"
      PROVE  task_queue_mutex[Active] = o
  <2>1. PICK p \in Pools : o \in threads[p]
    BY <1>1 DEF PoolsInv
  <2>2. p = Active
    BY <1>1, <2>1, OnlyActive DEF Idle
  <2>. QED  BY <1>1, <2>1, <2>2 DEF MutexInv, Holding
<1>2. ASSUME NEW c \in Calls, callerPc[c] = "push"
      PROVE  task_queue_mutex[Active] = c
  BY <1>2 DEF CallersInv, InAddTask, Active, Destroying
<1>. QED
  BY <1>1, <1>2

-----------------------------------------------------------------------------
(* The other parts of the invariant.                                       *)

\* Every step keeps the types.
LEMMA ManagerType ==
    ASSUME ManagerTypeOK, TaskHeld, NeverPopsEmpty, [ManagerNext]_managerVars
    PROVE  ManagerTypeOK'
<1> USE DEF ManagerTypeOK
<1>1. CASE UNCHANGED managerVars
  BY <1>1 DEF managerVars, vars, poolVars, poolVarsButOwner, PoolTypeOK, QueueTypeOK
<1>2. ASSUME NEW p \in Pools, NEW o \in threads[p], run(p, o), SamePools
      PROVE  ManagerTypeOK'
  <2>1. o \in Operators
    BY DEF PoolTypeOK
  <2>. QED  BY <1>2, <2>1, RunType
<1>3. ASSUME NEW c \in Calls, CallerMoves(c)
      PROVE  ManagerTypeOK'
  <2>1. CASE AddTaskEnter(c)
    BY <2>1 DEF AddTaskEnter, PoolTypeOK, QueueTypeOK, CallerStates
  <2>. QED  BY <1>3, <2>1, CallerType DEF CallerMoves
<1>4. CASE OwnerMoves
  <2>1. CASE SamePools /\ (StartMoves \/ DestroyNotify(pool, "notifying", "joining")
                             \/ DestroyJoin(pool, "joining", "start"))
    BY <2>1, OwnerType DEF StartMoves, OwnerActs, OwnerStates
  <2>2. CASE UpdateLock
    BY <2>2 DEF UpdateLock, PoolTypeOK, QueueTypeOK, OwnerStates
  <2>3. CASE UpdateQueue
    BY <2>3, ManagerAssumption
       DEF UpdateQueue, update, poolVarsButOwner, PoolTypeOK, QueueTypeOK, OwnerStates
  <2>4. CASE CompareAmount
    <3>1. ownerPc' \in {"build", "running"}
      BY <2>4 DEF CompareAmount
    <3>. QED
      BY <2>4, <3>1 DEF CompareAmount, poolVarsButOwner, PoolTypeOK, QueueTypeOK, OwnerStates
  <2>5. CASE BuildPool
    BY <2>5 DEF BuildPool, NewPool, PoolTypeOK, QueueTypeOK, OwnerStates, OperatorStates
  <2>6. CASE StopOld
    BY <2>6, OwnerType DEF StopOld, OwnerActs, OwnerStates
  <2>7. CASE transferObjects
    BY <2>7 DEF transferObjects, TransferLock, Transfer, MoveQueue, Lock, Threads, poolVarsButOwner,
                PoolTypeOK, QueueTypeOK, OwnerStates
  <2>8. CASE AssignPool
    BY <2>8, OwnerType DEF AssignPool, OwnerActs, OwnerStates
  <2>. QED
    BY <1>4, <2>1, <2>2, <2>3, <2>4, <2>5, <2>6, <2>7, <2>8 DEF OwnerMoves
<1>. QED
  BY <1>1, <1>2, <1>3, <1>4, ManagerKinds

\* The owner moves no call.
LEMMA OwnerQuiet ==
    ASSUME ManagerTypeOK, OwnerMoves
    PROVE  /\ Quiet \/ UpdateQueue
           /\ UNCHANGED callerPc
<1> USE DEF ManagerTypeOK
<1>1. CASE SamePools /\ (StartMoves \/ DestroyNotify(pool, "notifying", "joining")
                           \/ DestroyJoin(pool, "joining", "start"))
  BY <1>1, OwnerKinds DEF StartMoves, OwnerActs
<1>2. CASE UpdateLock \/ UpdateQueue \/ CompareAmount
  BY <1>2 DEF UpdateLock, UpdateQueue, CompareAmount, poolVarsButOwner, Quiet
<1>3. CASE BuildPool
  BY <1>3 DEF BuildPool, NewPool, Quiet, Serving, PoolTypeOK
<1>4. CASE StopOld \/ AssignPool
  BY <1>4, OwnerKinds DEF StopOld, AssignPool, OwnerActs
<1>5. CASE transferObjects
  BY <1>5 DEF transferObjects, TransferLock, Transfer, poolVarsButOwner, Quiet
<1>. QED
  BY <1>1, <1>2, <1>3, <1>4, <1>5 DEF OwnerMoves

\* Every step is one of a pool on calls, or gives the queue its limit.
LEMMA ManagerCallSteps ==
    ASSUME ManagerTypeOK, [ManagerNext]_managerVars
    PROVE  (\E p \in Pools : CallStep(p)) \/ UpdateQueue
<1> USE DEF ManagerTypeOK
<1>1. CASE UNCHANGED managerVars
  BY <1>1 DEF managerVars, vars, poolVars, poolVarsButOwner, CallStep, Quiet
<1>2. ASSUME NEW p \in Pools, NEW o \in threads[p], run(p, o)
      PROVE  CallStep(p)
  <2>1. o \in Operators
    BY DEF PoolTypeOK
  <2>. QED  BY <1>2, <2>1, ThreadKinds
<1>3. ASSUME NEW c \in Calls, CallerMoves(c)
      PROVE  CallStep(threadPool_)
  <2>1. CASE AddTaskEnter(c)
    BY <2>1 DEF AddTaskEnter, CallStep, Quiet
  <2>2. CASE CallerActs(threadPool_, c, "entered")
    <3>1. "entered" \in CallerStates
      BY DEF CallerStates
    <3>. QED  BY <2>2, <3>1, ThreadKinds
  <2>. QED  BY <1>3, <2>1, <2>2 DEF CallerMoves
<1>4. CASE OwnerMoves
  BY <1>4, OwnerQuiet DEF CallStep
<1>. QED
  BY <1>1, <1>2, <1>3, <1>4, ManagerKinds

\* Every step keeps Ownership.
LEMMA ManagerOwnership ==
    ASSUME ManagerInv, [ManagerNext]_managerVars
    PROVE  Ownership'
<1> USE DEF ManagerInv, ManagerTypeOK
<1>1. CASE UNCHANGED managerVars
  BY <1>1, QuietOwnership DEF managerVars, vars, poolVars, poolVarsButOwner, Quiet
<1>2. ASSUME NEW p \in Pools, NEW o \in threads[p], run(p, o)
      PROVE  Ownership'
  <2>1. o \in Operators
    BY DEF PoolTypeOK
  <2>. QED  BY <1>2, <2>1, RunOwnership
<1>3. ASSUME NEW c \in Calls, CallerMoves(c)
      PROVE  Ownership'
  <2>1. CASE AddTaskEnter(c)
    BY <2>1, QuietStep DEF AddTaskEnter, PoolTypeOK
  <2>. QED  BY <1>3, <2>1, CallerOwnership DEF CallerMoves
<1>4. CASE OwnerMoves
  <2>1. CASE Quiet
    BY <1>4, <2>1, OwnerQuiet, QuietOwnership
  <2>2. CASE UpdateQueue
    BY <2>2, QuietStep DEF UpdateQueue, poolVarsButOwner
  <2>. QED  BY <1>4, <2>1, <2>2, OwnerQuiet
<1>. QED
  BY <1>1, <1>2, <1>3, <1>4, ManagerKinds

\* Every step keeps NeverPopsEmpty: the pools share the queue but not a mutex,
\* and yet nobody else takes a call that an operator is about to take.
LEMMA ManagerPops ==
    ASSUME ManagerInv, [ManagerNext]_managerVars
    PROVE  NeverPopsEmpty'
<1> USE DEF ManagerInv, ManagerTypeOK
<1>1. ASSUME UNCHANGED queue_,
             \A o \in Operators : operatorPc'[o] = "take" => operatorPc[o] = "take"
      PROVE  NeverPopsEmpty'
  BY <1>1 DEF NeverPopsEmpty, empty
<1>2. ASSUME NEW p \in Pools, NEW o \in threads[p], run(p, o)
      PROVE  NeverPopsEmpty'
  <2>1. o \in Operators
    BY DEF PoolTypeOK
  <2>2. \A w \in Operators \ {o} : operatorPc'[w] = operatorPc[w]
    BY <1>2, <2>1, RunShape
  <2>3. CASE Retest(p, o)
    BY <2>3 DEF Retest, run_allowed, NeverPopsEmpty, empty
  <2>4. CASE processTask(p, o)
    <3>1. operatorPc[o] = "take" /\ operatorPc'[o] = "exec"
      BY <2>1, <2>4 DEF processTask, PoolTypeOK
    <3>2. \A w \in Operators \ {o} : operatorPc[w] # "take"
      BY <2>1, <3>1, OneUser
    <3>. QED  BY <2>2, <3>1, <3>2 DEF NeverPopsEmpty
  <2>5. CASE ~Retest(p, o) /\ ~processTask(p, o)
    <3>1. UNCHANGED queue_ /\ operatorPc'[o] # "take"
      BY <1>2, <2>1, <2>5 DEF run, RunStep, Loop, Acquire, Test, Block, SpuriousWakeup,
         NothingAllowed, doTask, doTaskThrows, SetExceptionAgain, Reply, Finish, Drain, PoolTypeOK
    <3>. QED  BY <1>1, <2>2, <3>1
  <2>. QED  BY <2>3, <2>4, <2>5
<1>3. ASSUME NEW c \in Calls, CallerMoves(c)
      PROVE  NeverPopsEmpty'
  <2>1. CASE AddTaskEnter(c)
    BY <1>1, <2>1 DEF AddTaskEnter
  <2>2. CASE CallerActs(threadPool_, c, "entered")
    <3>1. \A o \in Operators : operatorPc'[o] = "take" => operatorPc[o] = "take"
      BY <2>2, CallerShape
    <3>2. CASE AddTaskPush(threadPool_, c)
      <4>1. callerPc[c] = "push"
        BY <3>2 DEF AddTaskPush
      <4>2. \A o \in Operators : operatorPc[o] # "take"
        BY <4>1, OneUser, PoolAssumption
      <4>. QED  BY <3>1, <4>2 DEF NeverPopsEmpty
    <3>. QED
      BY <1>1, <2>2, <3>1, <3>2 DEF CallerActs, AddTaskLock, AddTaskThrows, GetResult
  <2>. QED  BY <1>3, <2>1, <2>2 DEF CallerMoves
<1>4. CASE OwnerMoves
  <2>1. CASE Quiet
    <3>1. UNCHANGED queue_
      BY <2>1 DEF Quiet
    <3>2. \A o \in Operators : operatorPc'[o] = "take" => operatorPc[o] = "take"
      <4>1. CASE SamePools /\ (StartMoves \/ DestroyNotify(pool, "notifying", "joining"))
        BY <4>1, WakeFacts DEF StartMoves, StartFlags, StartNotify, DestroyNotify
      <4>2. CASE DestroyJoin(pool, "joining", "start")
        BY <4>2 DEF DestroyJoin
      <4>3. CASE BuildPool
        BY <4>3 DEF BuildPool, NewPool
      <4>. QED
        BY <1>4, <4>1, <4>2, <4>3 DEF OwnerMoves, UpdateLock, UpdateQueue, CompareAmount, StopOld,
           stop, transferObjects, TransferLock, Transfer, AssignPool, DestroyFlag, poolVarsButOwner
    <3>. QED  BY <1>1, <3>1, <3>2
  <2>2. CASE UpdateQueue
    BY <1>1, <2>2 DEF UpdateQueue, poolVarsButOwner
  <2>. QED  BY <1>4, <2>1, <2>2, OwnerQuiet
<1>5. CASE UNCHANGED managerVars
  BY <1>1, <1>5 DEF managerVars, vars, poolVars, poolVarsButOwner
<1>. QED
  BY <1>2, <1>3, <1>4, <1>5, ManagerKinds

-----------------------------------------------------------------------------
(* Theorems.                                                               *)

\* ManagerInv is an invariant of the manager, of its pools and of its callers.
THEOREM ManagerInvariance == ManagerSpec => []ManagerInv
<1>1. ManagerInit => ManagerInv
  <2> SUFFICES ASSUME ManagerInit PROVE ManagerInv
    OBVIOUS
  <2> USE ComponentAssumption, ManagerAssumption DEF ManagerInit, FirstPool, QueueInit
  <2>1. ManagerTypeOK
    <3>1. QueueTypeOK
      BY DEF QueueTypeOK
    <3>. QED
      BY <3>1 DEF ManagerTypeOK, PoolTypeOK, Threads, OperatorStates, CallerStates, OwnerStates
  <2>2. TaskHeld /\ NeverPopsEmpty
    BY DEF TaskHeld, Serving, NeverPopsEmpty
  <2>3. Ownership
    BY DEF Ownership, WaitingBlocked, ServedBlocked, Serving, EnteringUnanswered, QueueDistinct,
           TasksDistinct, NoCallLost
  <2>4. PoolsInv /\ CallersInv /\ MutexInv
    BY DEF PoolsInv, CallersInv, InAddTask, MutexInv, Holding, Building, Destroying
  <2>5. FreshInv /\ StayingInv
    BY DEF FreshInv, Fresh, Idle, StayingInv, Staying, Building, Destroying
  <2>. QED  BY <2>1, <2>2, <2>3, <2>4, <2>5 DEF ManagerInv, PoolsControl
<1>2. ASSUME ManagerInv, [ManagerNext]_managerVars
      PROVE  ManagerInv'
  <2>1. ManagerTypeOK' /\ PoolsControl' /\ Ownership' /\ NeverPopsEmpty'
    BY <1>2, ManagerType, ControlKept, ManagerOwnership, ManagerPops DEF ManagerInv
  <2>2. TaskHeld'
    BY <1>2, ManagerCallSteps, TaskStep
       DEF ManagerInv, ManagerTypeOK, UpdateQueue, poolVarsButOwner, TaskHeld
  <2>. QED  BY <2>1, <2>2 DEF ManagerInv
<1>. QED
  BY <1>1, <1>2, PTL DEF ManagerSpec

\* Type correctness of the manager and of all its pools.
THEOREM ManagerTypeCorrectness == ManagerSpec => []ManagerTypeOK
BY ManagerInvariance, PTL DEF ManagerInv

\* However often the pools are exchanged, and however their operators and the
\* callers are interleaved with that, a call that addTask let go is in the
\* queue, with an operator, or answered.
THEOREM UpdatesLoseNothing == ManagerSpec => []NoCallLost
<1>1. ManagerInv => NoCallLost
  BY DEF ManagerInv, Ownership
<1>. QED
  BY <1>1, ManagerInvariance, PTL

\* No call is in two places, also while two pools have pointers to the queue.
THEOREM UpdatesRepeatNothing == ManagerSpec => []NoCallTwice
<1>1. ManagerInv => NoCallTwice
  <2> SUFFICES ASSUME ManagerInv PROVE NoCallTwice
    OBVIOUS
  <2>1. \A c \in Calls : Queued(c) => ~Served(c) /\ ~Answered(c)
    BY DEF ManagerInv, Ownership, WaitingBlocked, Queued, Served, Answered
  <2>2. \A o \in Operators : operatorPc[o] \in {"exec", "reply"} => ~Answered(task[o])
    BY DEF ManagerInv, Ownership, ServedBlocked, Serving, Answered
  <2>. QED
    BY <2>1, <2>2 DEF ManagerInv, Ownership, QueueDistinct, TasksDistinct, NoCallTwice
<1>. QED
  BY <1>1, ManagerInvariance, PTL

\* front() and pop() meet a call, whichever pool's operator calls them.
THEOREM UpdatesPopSafely == ManagerSpec => []NeverPopsEmpty
<1>1. ManagerInv => NeverPopsEmpty
  BY DEF ManagerInv
<1>. QED
  BY <1>1, ManagerInvariance, PTL

\* No two threads use the queue at the same time, although each of the two
\* pools protects it with a mutex of its own.
THEOREM QueueIsGuarded == ManagerSpec => []QueueGuarded
<1>1. ManagerInv => QueueGuarded
  <2> SUFFICES ASSUME ManagerInv PROVE QueueGuarded
    OBVIOUS
  <2> DEFINE Within == {o \in Operators : operatorPc[o] = "take"}
                          \cup {c \in Calls : callerPc[c] = "push"}
             Holder == {task_queue_mutex[Active]}
  <2>1. Within \subseteq Holder
    BY OneUser DEF ManagerInv
  <2>2. IsFiniteSet(Holder) /\ Cardinality(Holder) = 1
    BY FS_Singleton
  <2>3. Cardinality(Within) <= 1
    BY <2>1, <2>2, FS_Subset
  <2>4. ownerPc \in {"resize", "assign"} => \A c \in Calls : c \notin Within
    BY PoolAssumption DEF ManagerInv, PoolsControl, CallersInv, InAddTask
  <2>5. ownerPc = "assign" => Within = {}
    <3>1. ownerPc = "assign" => task_queue_mutex[Active] = Owner
      BY DEF ManagerInv, PoolsControl, MutexInv, Active, Destroying
    <3>. QED  BY <2>1, <3>1, PoolAssumption
  <2>. QED  BY <2>3, <2>4, <2>5 DEF QueueGuarded
<1>. QED
  BY <1>1, ManagerInvariance, PTL

\* The operators that have calls are all in one pool.
THEOREM OneServes == ManagerSpec => []OnePoolServes
<1>1. ManagerInv => OnePoolServes
  BY OnlyActive DEF ManagerInv, OnePoolServes, Idle
<1>. QED
  BY <1>1, ManagerInvariance, PTL

\* The pool in use keeps all its operators: it is never one that was stopped.
THEOREM OperatorsRemain == ManagerSpec => []OperatorsStay
<1>1. ManagerInv => OperatorsStay
  BY DEF ManagerInv, ManagerTypeOK, PoolsControl, StayingInv, Staying, Building, OperatorsStay
<1>. QED
  BY <1>1, ManagerInvariance, PTL

\* Setting the limit of the queue leaves the calls and the answers alone.
LEMMA ResizeFrame ==
    ASSUME UpdateQueue
    PROVE  UNCHANGED <<queue_, answers, recorders_, operatorPc, task, callerPc>>
BY DEF UpdateQueue, poolVarsButOwner

\* The text of a number is alive while push or an operator may read it, however
\* long the replacement of a pool holds its call up.
THEOREM UpdatesKeepNumbers == ManagerSpec => []NumberAlive
<1>1. ManagerInv => NumberAlive
  BY DEF ManagerInv, Ownership, WaitingBlocked, ServedBlocked, Serving, NumberAlive, Queued
<1>. QED
  BY <1>1, ManagerInvariance, PTL

\* At most one call of each number waits, whatever pools are exchanged and
\* however the limit changes.
THEOREM UpdatesKeepDistinct == ManagerSpec => []DistinctNumbers
<1>1. ManagerInit => DistinctNumbers
  BY DEF ManagerInit, FirstPool, QueueInit, DistinctNumbers
<1>2. ASSUME ManagerInv, DistinctNumbers, [ManagerNext]_managerVars
      PROVE  DistinctNumbers'
  <2>1. CASE UpdateQueue
    BY <1>2, <2>1, ResizeFrame DEF DistinctNumbers
  <2>. QED
    BY <1>2, <2>1, NumbersStep, ManagerCallSteps DEF ManagerInv, ManagerTypeOK, CallsInv
<1>. QED
  BY <1>1, <1>2, ManagerInvariance, PTL DEF ManagerSpec

\* A promise is set once, by whichever pool serves the call, or by push.
THEOREM UpdatesKeepAnswers == ManagerSpec => AnswerFinal
<1>1. ASSUME ManagerInv, [ManagerNext]_managerVars, NEW a \in Calls, Answered(a)
      PROVE  promise'[a] = promise[a]
  <2>1. CallsInv /\ ManagerTypeOK
    BY <1>1 DEF ManagerInv, ManagerTypeOK, CallsInv
  <2>2. CASE UpdateQueue
    BY <2>2, ResizeFrame
  <2>. QED
    BY <1>1, <2>1, <2>2, ManagerCallSteps, AnswerKept
<1>2. ManagerInv /\ [ManagerNext]_managerVars =>
        [\A c \in Calls : Answered(c) => promise'[c] = promise[c]]_vars
  BY <1>1 DEF managerVars
<1>. QED
  BY <1>2, ManagerInvariance, PTL DEF ManagerSpec, AnswerFinal

\* The CDR of a call agrees with what its caller is told, also if another pool
\* serves it than the one it was added to.  The builder attaches no recorder,
\* so of the files RecordMatchesAnswer says nothing here.
THEOREM UpdatesKeepRecords == ManagerSpec => []RecordMatchesAnswer
<1>1. ManagerInit => RecordInv
  BY DEF ManagerInit, FirstPool, QueueInit, RecordInv, RecordMatchesAnswer, Unrecorded, NoStatus, CallStatus
<1>2. ASSUME ManagerInv, ManagerInv', RecordInv, [ManagerNext]_managerVars
      PROVE  RecordInv'
  <2>1. CASE UpdateQueue
    BY <1>2, <2>1, ResizeFrame DEF RecordInv, RecordMatchesAnswer, Unrecorded
  <2>. QED
    BY <1>2, <2>1, RecordsStep, ManagerCallSteps DEF ManagerInv, ManagerTypeOK, CallsInv
<1>3. RecordInv => RecordMatchesAnswer
  BY DEF RecordInv
<1>. QED
  BY <1>1, <1>2, <1>3, ManagerInvariance, PTL DEF ManagerSpec

-----------------------------------------------------------------------------
(* The refinement.                                                         *)

Sizes == AmountsOfOperators \cup {Cardinality(FirstOperators)}

\* The pool in use and the one that is to replace it have sizes that the
\* configuration named.
StaffInv ==
    /\ Cardinality(threads[threadPool_]) \in Sizes
    /\ ownerPc \in Building => Cardinality(threads[pool]) \in Sizes

Staff == threads[Active]

\* Only the end of the old pool changes the staff, and then nobody is served.
LEMMA StaffStep ==
    ASSUME ManagerInv, StaffInv, [ManagerNext]_managerVars
    PROVE  /\ StaffInv'
           /\ \/ UNCHANGED Staff
              \/ /\ Quiet /\ InService = {}
                 /\ Cardinality(Staff') \in Sizes
<1> USE DEF ManagerInv, ManagerTypeOK, PoolTypeOK, StaffInv, Staff, Active, Building, Destroying
<1>1. CASE UNCHANGED <<threads, threadPool_, pool, ownerPc>>
  BY <1>1
<1>2. ASSUME NEW p \in Pools, NEW o \in threads[p], run(p, o), SamePools
      PROVE  UNCHANGED <<threads, threadPool_, pool, ownerPc>>
  <2>1. o \in Operators
    OBVIOUS
  <2>. QED  BY <1>2, <2>1, RunShape
<1>3. ASSUME NEW c \in Calls, CallerMoves(c)
      PROVE  UNCHANGED <<threads, threadPool_, pool, ownerPc>>
  BY <1>3, CallerShape DEF CallerMoves, AddTaskEnter
<1>4. CASE OwnerMoves
  <2>1. CASE SamePools /\ (StartMoves \/ DestroyNotify(pool, "notifying", "joining"))
    <3>1. /\ UNCHANGED <<threads, threadPool_, pool>>
          /\ \/ ownerPc \notin Building \cup Destroying /\ ownerPc' \notin Building \cup Destroying
             \/ ownerPc = "notifying" /\ ownerPc' = "joining"
      BY <2>1 DEF StartMoves, StartFlags, StartNotify, DestroyNotify
    <3>. QED  BY <3>1
  <2>2. CASE SamePools /\ DestroyJoin(pool, "joining", "start")
    <3>1. /\ UNCHANGED <<threadPool_, pool>> /\ ownerPc = "joining" /\ ownerPc' = "start"
          /\ threads' = [threads EXCEPT ![pool] = {}]
          /\ \A o \in threads[pool] : operatorPc[o] = "exit"
      BY <2>2 DEF DestroyJoin
    <3>2. pool # threadPool_
      BY <3>1 DEF PoolsControl, PoolsInv
    <3>3. InService = {}
      <4>1. ASSUME NEW o \in Operators, operatorPc[o] \in {"exec", "reply"} PROVE FALSE
        <5>1. PICK p \in Pools : o \in threads[p]
          BY <4>1 DEF PoolsControl, PoolsInv
        <5>2. p = pool
          BY <3>1, <4>1, <5>1, OnlyActive DEF Idle
        <5>. QED  BY <3>1, <4>1, <5>1, <5>2
      <4>. QED  BY <4>1 DEF InService
    <3>4. Quiet
      BY <2>2, OwnerKinds DEF OwnerActs
    <3>. QED  BY <3>1, <3>2, <3>3, <3>4
  <2>3. CASE UpdateLock \/ UpdateQueue \/ CompareAmount
    <3>1. /\ UNCHANGED <<threads, threadPool_, pool>>
          /\ ownerPc \in {"running", "resize", "compare"}
          /\ ownerPc' \in {"resize", "compare", "build", "running"}
      BY <2>3 DEF UpdateLock, UpdateQueue, CompareAmount, poolVarsButOwner
    <3>. QED  BY <3>1
  <2>4. CASE BuildPool
    <3>1. PICK p \in Pools \ {threadPool_}, T \in SUBSET Operators :
            Cardinality(T) \in AmountsOfOperators /\ threads' = [threads EXCEPT ![p] = T] /\ pool' = p
      BY <2>4 DEF BuildPool, NewPool
    <3>2. UNCHANGED threadPool_ /\ ownerPc = "build" /\ ownerPc' = "stop"
      BY <2>4 DEF BuildPool
    <3>. QED  BY <3>1, <3>2 DEF Sizes
  <2>5. CASE StopOld \/ transferObjects \/ AssignPool
    <3>1. UNCHANGED threads
      BY <2>5 DEF StopOld, stop, transferObjects, TransferLock, Transfer, AssignPool, DestroyFlag,
                  poolVarsButOwner
    <3>2. \/ /\ UNCHANGED <<threadPool_, pool>>
             /\ ownerPc \in Building /\ ownerPc' \in Building
          \/ /\ ownerPc = "swap" /\ ownerPc' = "notifying"
             /\ threadPool_' = pool /\ pool' = threadPool_
      BY <2>5 DEF StopOld, stop, transferObjects, TransferLock, Transfer, AssignPool, DestroyFlag
    <3>. QED  BY <3>1, <3>2
  <2>. QED
    BY <1>4, <2>1, <2>2, <2>3, <2>4, <2>5 DEF OwnerMoves
<1>5. CASE UNCHANGED managerVars
  BY <1>1, <1>5 DEF managerVars, vars, poolVars, poolVarsButOwner
<1>. QED
  BY <1>1, <1>2, <1>3, <1>4, <1>5, ManagerKinds

\* push is Reject or Join of the server too, since it leaves the staff alone.
LEMMA ServerJoins ==
    ASSUME NEW c \in Calls, Center!Reject(c) \/ Center!Join(c), UNCHANGED Staff
    PROVE  Server!Reject(c) \/ Server!Join(c)
<1> USE DEF Staff, Active, Destroying
<1>1. /\ Server!IsNew(c) <=> Center!IsNew(c)
      /\ Server!SameNumber(c) = Center!SameNumber(c)
      /\ \A i : Server!RemoveAt(queue_, i) = Center!RemoveAt(queue_, i)
  BY DEF Server!IsNew, Center!IsNew, Server!SameNumber, Center!SameNumber,
         Server!RemoveAt, Center!RemoveAt
<1>2. CASE Center!Reject(c)
  BY <1>1, <1>2 DEF Center!Reject, Server!Reject
<1>3. CASE Center!Join(c)
  BY <1>1, <1>3 DEF Center!Join, Server!Join
<1>. QED
  BY <1>2, <1>3

\* With its updates, the server of finitely many operators is a call center
\* whose staff is exchanged only while it serves nobody and whose line keeps
\* its order: no call is reordered, answered twice, or served by more operators
\* than the configuration names, however updates meet the calls.
THEOREM ImplementsStaffedCenter ==
    ASSUME IsFiniteSet(Operators)
    PROVE  ManagerSpec => ServerServesInOrder
<1> DEFINE Inv == ReplyKnown /\ DistinctNumbers /\ StaffInv
<1>1. ManagerInit => Server!CenterInit /\ Inv
  <2> SUFFICES ASSUME ManagerInit PROVE Server!CenterInit /\ Inv
    OBVIOUS
  <2> USE DEF ManagerInit, FirstPool, QueueInit
  <2>1. InService = {}
    BY DEF InService
  <2>2. ReplyKnown /\ DistinctNumbers
    BY DEF ReplyKnown, DistinctNumbers
  <2>3. ownerPc \notin Building \cup Destroying /\ threads[threadPool_] = FirstOperators
    BY ComponentAssumption DEF Building, Destroying
  <2>4. StaffInv
    BY <2>3 DEF StaffInv, Sizes
  <2>5. Server!Cardinality(FirstOperators) = Cardinality(FirstOperators)
    BY DEF Server!Cardinality, Cardinality
  <2>. QED
    BY <2>1, <2>2, <2>3, <2>4, <2>5 DEF Server!CenterInit, Destroying
<1>2. ASSUME ManagerInv, ManagerInv', Inv, [ManagerNext]_managerVars
      PROVE  Inv' /\ [Server!CenterNext]_(Server!callCenterVars)
  <2>1. CallsInv /\ CallsInv' /\ PoolTypeOK /\ ManagerTypeOK
    BY <1>2 DEF ManagerInv, ManagerTypeOK, CallsInv
  <2>2. /\ StaffInv'
        /\ \/ UNCHANGED Staff
           \/ Quiet /\ InService = {} /\ Cardinality(Staff') \in Sizes
    BY <1>2, StaffStep
  <2>3. CASE UpdateQueue
    <3>1. /\ UNCHANGED <<queue_, cdr, promise, operatorPc, task>> /\ sizeOfQueue' \in SizesOfQueue
          /\ ~Quiet \/ UNCHANGED sizeOfQueue
      BY <2>3 DEF UpdateQueue, update, poolVarsButOwner, Quiet
    <3>2. UNCHANGED InService
      BY <3>1 DEF InService
    <3>3. ReplyKnown' /\ DistinctNumbers'
      BY <1>2, <3>1 DEF ReplyKnown, Answered, DistinctNumbers
    <3>4. UNCHANGED Staff
      BY <2>3 DEF UpdateQueue, poolVarsButOwner, Staff, Active, Destroying
    <3>5. Server!Resize
      BY <3>1, <3>2, <3>4 DEF Server!Resize, Staff, Active, Destroying
    <3>. QED  BY <2>2, <3>3, <3>5 DEF Server!CenterNext
  <2>4. ASSUME NEW p \in Pools, CallStep(p)
        PROVE  Inv' /\ [Server!CenterNext]_(Server!callCenterVars)
    <3>1. ReplyKnown' /\ DistinctNumbers' /\ StaffInv'
      BY <1>2, <2>1, <2>2, <2>4, ReplyStep, NumbersStep
    <3>2. CASE UNCHANGED View /\ UNCHANGED Staff
      BY <3>1, <3>2 DEF View, Staff, Active, Destroying, Server!callCenterVars
    <3>3. CASE UNCHANGED View /\ InService = {} /\ Cardinality(Staff') \in Sizes
      <4>1. Server!Restaff
        BY <3>3 DEF View, Sizes, Staff, Active, Destroying, Server!Restaff
      <4>. QED  BY <3>1, <4>1 DEF Server!CenterNext
    <3>4. ASSUME TakesFirst, UNCHANGED Staff, NEW o \in Operators, processTask(p, o)
          PROVE  Server!Serve
      <4>1. operatorPc[o] = "take"
        BY <3>4 DEF processTask
      <4>2. \A w \in Operators : operatorPc[w] \in {"take", "exec", "reply"} => w \in Staff
        BY <1>2, OnlyActive DEF ManagerInv, PoolsControl, PoolsInv, Idle, Staff
      <4>3. Active \in Pools /\ IsFiniteSet(Staff)
        BY <2>1, FS_Subset DEF ManagerTypeOK, PoolTypeOK, Active, Staff
      <4>4. Cardinality(InService) < Cardinality(Staff)
        BY <4>1, <4>2, <4>3, FreeOperator
      <4>5. /\ Server!Cardinality(InService) = Cardinality(InService)
            /\ Server!Cardinality(Staff) = Cardinality(Staff)
        BY DEF Server!Cardinality, Cardinality
      <4>. QED
        BY <3>4, <4>4, <4>5 DEF TakesFirst, Server!Serve, Staff, Active, Destroying
    <3>5. ASSUME NEW c \in Calls, Ends(c), UNCHANGED Staff
          PROVE  Server!Finish(c)
      BY <3>5 DEF Ends, Staff, Active, Destroying, Server!Finish
    <3>6. CASE Quiet
      BY <2>1, <2>2, <3>2, <3>3, <3>6, QuietStutters
    <3>7. CASE ~Quiet
      BY <1>2, <2>1, <2>2, <2>4, <3>1, <3>2, <3>4, <3>5, <3>7, ViewStep, ServerJoins
         DEF Server!CenterNext
    <3>. QED  BY <3>6, <3>7
  <2>. QED
    BY <1>2, <2>1, <2>3, <2>4, ManagerCallSteps
<1>. QED
  BY <1>1, <1>2, ManagerInvariance, PTL DEF ManagerSpec, ServerServesInOrder, Server!CenterSpec
=============================================================================
