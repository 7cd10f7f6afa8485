---------------------------- MODULE WakeupProofs ----------------------------
(***************************************************************************)
(* Proofs about the mutexes and condition variables of ThreadPool and      *)
(* Manager, for every number of calls, operators and updates: that each    *)
(* mutex is held by the one thread that is in its section, that the        *)
(* destructor joins no operator that sleeps, and that start() misses one   *)
(* operator at most.  These are the parts of the promises "every update    *)
(* returns" and "every call returns" that do not need fairness.            *)
(***************************************************************************)
EXTENDS ManagerProofs

\* As in ThreadPoolProofs.
USE DEF Step, Move, LeaveTask, CallerStep, OwnerStep, OwnerFlagStep, SamePools,
        queueVars, settings, answers, flags

-----------------------------------------------------------------------------
(* The mutexes.                                                            *)

\* The half of MutexesHeld that ManagerInv does not say: whoever has a mutex
\* is in its section.
HoldersInside ==
    \A p \in Pools : \A t \in Threads : task_queue_mutex[p] = t => Inside(t, p)

\* A step of an operator keeps HoldersInside.
LEMMA RunHolders ==
    ASSUME ManagerInv, HoldersInside, NEW p \in Pools, NEW o \in threads[p], run(p, o), SamePools
    PROVE  HoldersInside'
<1> USE DEF ManagerInv, ManagerTypeOK, PoolTypeOK, PoolsControl, Threads
<1>0. o \in Operators
  OBVIOUS
<1>1. /\ UNCHANGED <<threads, callerPc, ownerPc>>
      /\ \A w \in Operators \ {o} : operatorPc'[w] = operatorPc[w]
      /\ \/ /\ task_queue_mutex' = task_queue_mutex
            /\ operatorPc'[o] \in Holding <=> operatorPc[o] \in Holding
         \/ /\ task_queue_mutex[p] = NoThread /\ operatorPc'[o] \in Holding
            /\ task_queue_mutex' = [task_queue_mutex EXCEPT ![p] = o]
         \/ /\ operatorPc[o] \in Holding /\ operatorPc'[o] \notin Holding
            /\ task_queue_mutex' = [task_queue_mutex EXCEPT ![p] = NoThread]
  BY <1>0, RunShape
<1>2. \A q \in Pools : o \in threads[q] => q = p
  BY DEF PoolsInv
<1>3. ASSUME NEW q \in Pools, NEW t \in Threads, task_queue_mutex'[q] = t
      PROVE  Inside(t, q)'
  <2>1. CASE t # o
    <3>1. task_queue_mutex[q] = t
      BY <1>1, <1>3, <2>1, PoolAssumption
    <3>2. t \in threads[q] => t \in Operators
      OBVIOUS
    <3>. QED  BY <1>1, <2>1, <3>1, <3>2 DEF HoldersInside, Inside
  <2>2. CASE t = o
    <3>1. o # NoThread /\ o \notin Calls /\ o # Owner
      BY <1>0, PoolAssumption
    <3>2. CASE task_queue_mutex[q] = o
      <4>1. o \in threads[q] /\ operatorPc[o] \in Holding
        BY <2>2, <3>1, <3>2 DEF HoldersInside, Inside, Holding
      <4>2. operatorPc'[o] \in Holding
        BY <1>1, <1>2, <1>3, <2>2, <3>1, <4>1
      <4>. QED  BY <1>1, <2>2, <4>1, <4>2 DEF Inside, Holding
    <3>3. CASE task_queue_mutex[q] # o
      BY <1>1, <1>3, <2>2, <3>1, <3>3 DEF Inside, Holding
    <3>. QED  BY <3>2, <3>3
  <2>. QED  BY <2>1, <2>2
<1>. QED
  BY <1>3 DEF HoldersInside

\* A step of a caller keeps HoldersInside.
LEMMA CallerHolders ==
    ASSUME ManagerInv, HoldersInside, NEW c \in Calls, CallerMoves(c)
    PROVE  HoldersInside'
<1> USE DEF ManagerInv, ManagerTypeOK, PoolTypeOK, Threads
<1>1. CASE AddTaskEnter(c)
  BY <1>1 DEF AddTaskEnter, HoldersInside, Inside
<1>2. CASE SamePools /\ CallerActs(threadPool_, c, "entered")
  <2>1. /\ UNCHANGED <<threads, ownerPc, threadPool_, pool>>
        /\ \A d \in Calls \ {c} : callerPc'[d] = callerPc[d]
        /\ \A o \in Operators : \/ operatorPc'[o] = operatorPc[o]
                                \/ operatorPc[o] = "wait" /\ operatorPc'[o] = "lock"
        /\ \/ /\ callerPc'[c] = "push" /\ task_queue_mutex[threadPool_] = NoThread
              /\ task_queue_mutex' = [task_queue_mutex EXCEPT ![threadPool_] = c]
           \/ /\ task_queue_mutex[threadPool_] = c /\ callerPc'[c] # "push"
              /\ task_queue_mutex' = [task_queue_mutex EXCEPT ![threadPool_] = NoThread]
           \/ /\ callerPc[c] # "push" /\ task_queue_mutex' = task_queue_mutex
    BY <1>2, CallerShape
  <2>2. ASSUME NEW q \in Pools, NEW t \in Threads, task_queue_mutex'[q] = t
        PROVE  Inside(t, q)'
    <3>1. CASE t # c
      <4>1. task_queue_mutex[q] = t
        BY <2>1, <2>2, <3>1, PoolAssumption
      <4>2. t \in threads[q] => t \in Operators
        OBVIOUS
      <4>. QED  BY <2>1, <3>1, <4>1, <4>2 DEF HoldersInside, Inside
    <3>2. CASE t = c
      <4>1. c # NoThread /\ c \notin Operators /\ c # Owner
        BY PoolAssumption
      <4>2. task_queue_mutex[q] = c => callerPc[c] = "push" /\ q = threadPool_
        BY <4>1 DEF HoldersInside, Inside
      <4>. QED  BY <2>1, <2>2, <3>2, <4>1, <4>2 DEF Inside
    <3>. QED  BY <3>1, <3>2
  <2>. QED  BY <2>2 DEF HoldersInside
<1>. QED
  BY <1>1, <1>2 DEF CallerMoves

\* A step of the owner keeps HoldersInside.
LEMMA OwnerHolders ==
    ASSUME ManagerInv, HoldersInside, OwnerMoves
    PROVE  HoldersInside'
<1> USE DEF ManagerInv, ManagerTypeOK, PoolTypeOK, PoolsControl
<1>0. \A p \in Pools : \A o \in threads[p] : o \in Operators /\ operatorPc[o] # "none"
  BY DEF PoolsInv
<1>1. CASE SamePools /\ (StartMoves \/ DestroyNotify(pool, "notifying", "joining"))
  <2>1. /\ UNCHANGED <<threads, callerPc, task_queue_mutex, threadPool_, pool>>
        /\ \A o \in Operators : \/ operatorPc'[o] = operatorPc[o]
                                \/ operatorPc[o] = "wait" /\ operatorPc'[o] = "lock"
        /\ ownerPc \notin {"lockNew", "assign"}
    BY <1>1, WakeFacts DEF StartMoves, StartFlags, StartNotify, DestroyNotify
  <2>. QED  BY <1>0, <2>1 DEF HoldersInside, Inside
<1>2. CASE SamePools /\ DestroyJoin(pool, "joining", "start")
  <2>1. /\ UNCHANGED <<callerPc, task_queue_mutex, threadPool_, pool>>
        /\ ownerPc = "joining"
        /\ threads' = [threads EXCEPT ![pool] = {}]
        /\ \A o \in threads[pool] : operatorPc[o] = "exit"
        /\ \A o \in Operators : o \notin threads[pool] => operatorPc'[o] = operatorPc[o]
    BY <1>2 DEF DestroyJoin
  <2>2. \A p \in Pools : \A o \in threads[p] : o \in threads[pool] => p = pool
    BY DEF PoolsInv
  <2>3. \A p \in Pools : \A o \in threads[p] : p # pool => o \in threads'[p] /\ operatorPc'[o] = operatorPc[o]
    BY <1>0, <2>1, <2>2
  <2>. QED  BY <2>1, <2>3 DEF HoldersInside, Inside
<1>3. CASE UpdateLock \/ UpdateQueue \/ CompareAmount \/ StopOld
  BY <1>3 DEF UpdateLock, UpdateQueue, CompareAmount, StopOld, stop, poolVarsButOwner,
              HoldersInside, Inside
<1>4. CASE BuildPool
  <2>1. PICK p \in Pools \ {threadPool_}, T \in SUBSET {o \in Operators : operatorPc[o] = "none"} :
          threads[p] = {} /\ NewPool(p, T)
    BY <1>4 DEF BuildPool
  <2>2. UNCHANGED <<callerPc, task_queue_mutex, threadPool_>> /\ ownerPc = "build"
    BY <1>4 DEF BuildPool
  <2>3. \A q \in Pools : \A o \in threads[q] : o \in threads'[q] /\ operatorPc'[o] = operatorPc[o]
    BY <1>0, <2>1 DEF NewPool
  <2>. QED  BY <2>2, <2>3 DEF HoldersInside, Inside
<1>5. CASE transferObjects
  <2>1. /\ UNCHANGED <<threads, operatorPc, callerPc, threadPool_, pool>>
        /\ ownerPc \in Building /\ ownerPc' \in Building
        /\ \/ /\ ownerPc = "lockOld" /\ ownerPc' = "lockNew"
              /\ task_queue_mutex' = [task_queue_mutex EXCEPT ![threadPool_] = Owner]
           \/ /\ ownerPc = "lockNew" /\ ownerPc' = "assign"
              /\ task_queue_mutex' = [task_queue_mutex EXCEPT ![pool] = Owner]
           \/ /\ ownerPc = "assign"
              /\ task_queue_mutex' = [p \in Pools |-> IF p \in {threadPool_, pool} THEN NoThread
                                                                       ELSE task_queue_mutex[p]]
    BY <1>5 DEF transferObjects, TransferLock, Transfer, Lock, Building
  <2>2. ASSUME NEW q \in Pools, NEW t \in Threads, task_queue_mutex'[q] = t
        PROVE  Inside(t, q)'
    <3>1. CASE t # Owner
      <4>1. task_queue_mutex[q] = t
        BY <2>1, <2>2, <3>1, PoolAssumption
      <4>. QED  BY <2>1, <3>1, <4>1 DEF HoldersInside, Inside
    <3>2. CASE t = Owner
      <4>1. Owner # NoThread /\ Owner \notin Calls /\ \A p \in Pools : Owner \notin threads[p]
        BY PoolAssumption DEF Threads
      <4>2. task_queue_mutex[q] = Owner =>
              \/ ownerPc \in {"lockNew", "assign"} /\ q = threadPool_
              \/ ownerPc = "assign" /\ q = pool
        BY <4>1 DEF HoldersInside, Inside, Threads
      <4>. QED  BY <2>1, <2>2, <3>2, <4>1, <4>2 DEF Inside
    <3>. QED  BY <3>1, <3>2
  <2>. QED  BY <2>2 DEF HoldersInside
<1>6. CASE AssignPool
  <2>1. /\ UNCHANGED <<threads, operatorPc, callerPc, task_queue_mutex>> /\ ownerPc = "swap"
    BY <1>6 DEF AssignPool, DestroyFlag
  <2>2. \A c \in Calls : callerPc[c] # "push"
    BY <2>1 DEF CallersInv, InAddTask
  <2>. QED  BY <2>1, <2>2 DEF HoldersInside, Inside
<1>. QED
  BY <1>1, <1>2, <1>3, <1>4, <1>5, <1>6 DEF OwnerMoves

\* Whichever way a thread leaves its section, by its end, by an exception, by
\* blocking on the condition variable, or by the end of a transfer, the mutex
\* is free after it, and nobody else unlocks it.
THEOREM MutexesExact == ManagerSpec => []MutexesHeld
<1>1. ManagerInit => HoldersInside
  BY PoolAssumption DEF ManagerInit, FirstPool, HoldersInside
<1>2. ASSUME ManagerInv, HoldersInside, [ManagerNext]_managerVars
      PROVE  HoldersInside'
  <2>1. CASE UNCHANGED managerVars
    BY <1>2, <2>1 DEF managerVars, vars, poolVars, poolVarsButOwner, HoldersInside, Inside
  <2>. QED
    BY <1>2, <2>1, ManagerKinds, RunHolders, CallerHolders, OwnerHolders
<1>3. ManagerInv /\ HoldersInside => MutexesHeld
  BY DEF ManagerInv, PoolsControl, MutexInv, CallersInv, Holding, HoldersInside, Inside, MutexesHeld
<1>. QED
  BY <1>1, <1>2, <1>3, ManagerInvariance, PTL DEF ManagerSpec

-----------------------------------------------------------------------------
(* The end of a pool.                                                      *)

\* In a pool that is stopped for good nobody goes to sleep.
LEMMA StoppedRun ==
    ASSUME PoolTypeOK, NEW p \in Pools, stopped[p], NEW o \in Operators, run(p, o),
           operatorPc[o] # "block"
    PROVE  operatorPc'[o] \notin {"block", "wait"}
BY DEF PoolTypeOK, run, RunStep, Loop, Acquire, Test, Block, SpuriousWakeup, Retest, NothingAllowed,
       processTask, doTask, doTaskThrows, SetExceptionAgain, Reply, Finish, Drain

\* From the flag, which the destructor sets while it has the mutex, nobody is
\* about to sleep, and from the notification nobody sleeps.
Ending(p, from, to) ==
    ownerPc \in {from, to} =>
        /\ stopped[p]
        /\ \A o \in threads[p] : /\ operatorPc[o] # "block"
                                 /\ ownerPc = to => operatorPc[o] # "wait"

\* The operators that the destructor joins are awake, also if it came while
\* some of them slept, were on their way to sleep, or were at work.
THEOREM JoinsAwake == PoolSpec => []JoinedAwake
<1> DEFINE EndInv == Ending(Pool, "notifying", "joining")
<1>1. PoolInit => EndInv
  BY DEF PoolInit, FirstPool, Ending
<1>2. ASSUME PoolInv, EndInv, [PoolNext]_vars
      PROVE  EndInv'
  <2> USE ComponentAssumption DEF PoolInv, PoolTypeOK, Ending
  <2>1. CASE UNCHANGED <<threads, stopped, ownerPc, operatorPc>>
    BY <1>2, <2>1
  <2>2. ASSUME NEW o \in Operators, run(Pool, o)
        PROVE  EndInv'
    <3>1. /\ UNCHANGED <<threads, stopped, ownerPc>>
          /\ \A w \in Operators \ {o} : operatorPc'[w] = operatorPc[w]
      BY <1>2, <2>2, RunShape
    <3>2. stopped[Pool] /\ operatorPc[o] # "block" => operatorPc'[o] \notin {"block", "wait"}
      BY <1>2, <2>2, StoppedRun
    <3>. QED  BY <1>2, <3>1, <3>2
  <2>3. ASSUME NEW c \in Calls, add_task(c) \/ GetResult(c)
        PROVE  EndInv'
    <3>1. /\ UNCHANGED <<threads, stopped, ownerPc>>
          /\ \A o \in Operators : \/ operatorPc'[o] = operatorPc[o]
                                  \/ operatorPc[o] = "wait" /\ operatorPc'[o] = "lock"
      BY <1>2, <2>3, WakeFacts
         DEF add_task, AddTaskLock, AddTaskThrows, AddTaskPush, NotifyAdded, GetResult
    <3>. QED  BY <1>2, <3>1
  <2>4. CASE start \/ stop(Pool, "running", "stopped")
    BY <1>2, <2>4 DEF start, StartFlags, StartNotify, stop
  <2>5. ASSUME NEW from \in {"constructed", "running", "stopped"}, DestroyFlag(Pool, from, "notifying")
        PROVE  EndInv'
    <3>1. \A o \in threads[Pool] : operatorPc[o] # "block"
      BY <1>2, <2>5, PoolAssumption DEF DestroyFlag, DestroyLock, Control, MutexHeld, Threads
    <3>. QED  BY <1>2, <2>5, <3>1 DEF DestroyFlag
  <2>6. CASE DestroyNotify(Pool, "notifying", "joining")
    <3>1. \A o \in threads[Pool] :
            operatorPc'[o] = IF operatorPc[o] = "wait" THEN "lock" ELSE operatorPc[o]
      BY <1>2, <2>6 DEF DestroyNotify, notify_all, Wake, Waiting
    <3>. QED  BY <1>2, <2>6, <3>1 DEF DestroyNotify
  <2>7. CASE DestroyJoin(Pool, "joining", "destroyed")
    BY <1>2, <2>7 DEF DestroyJoin
  <2>. QED
    BY <1>2, <2>1, <2>2, <2>3, <2>4, <2>5, <2>6, <2>7
       DEF PoolNext, Ended, destroy, vars, poolVars, poolVarsButOwner, attachRecorders
<1>3. EndInv => JoinedAwake
  BY DEF Ending, JoinedAwake, NoneAsleep
<1>. QED
  BY <1>1, <1>2, <1>3, Invariance, PTL DEF PoolSpec

\* update() joins operators of the old pool that are awake: the flag was set
\* while their mutex was free, after the transfer had held it.
THEOREM UpdateJoinsAwake == ManagerSpec => []OldPoolAwake
<1> DEFINE EndInv == Ending(pool, "notifying", "joining")
<1>1. ManagerInit => EndInv
  BY DEF ManagerInit, FirstPool, Ending
<1>2. ASSUME ManagerInv, EndInv, [ManagerNext]_managerVars
      PROVE  EndInv'
  <2> USE DEF ManagerInv, ManagerTypeOK, PoolTypeOK, Ending
  <2>1. CASE UNCHANGED <<threads, stopped, ownerPc, operatorPc, pool>>
    BY <1>2, <2>1
  <2>2. ASSUME NEW p \in Pools, NEW o \in threads[p], run(p, o), SamePools
        PROVE  EndInv'
    <3>1. /\ o \in Operators /\ UNCHANGED <<threads, stopped, ownerPc>>
          /\ \A w \in Operators \ {o} : operatorPc'[w] = operatorPc[w]
      BY <1>2, <2>2, RunShape
    <3>2. stopped[p] /\ operatorPc[o] # "block" => operatorPc'[o] \notin {"block", "wait"}
      BY <1>2, <2>2, <3>1, StoppedRun
    <3>3. o \in threads[pool] => p = pool
      BY <1>2 DEF PoolsControl, PoolsInv
    <3>. QED  BY <1>2, <2>2, <3>1, <3>2, <3>3
  <2>3. ASSUME NEW c \in Calls, CallerMoves(c)
        PROVE  EndInv'
    <3>1. /\ UNCHANGED <<threads, stopped, ownerPc, pool>>
          /\ \A o \in Operators : \/ operatorPc'[o] = operatorPc[o]
                                  \/ operatorPc[o] = "wait" /\ operatorPc'[o] = "lock"
      BY <1>2, <2>3, CallerShape DEF CallerMoves, AddTaskEnter
    <3>. QED  BY <1>2, <3>1
  <2>4. CASE AssignPool
    <3>1. \A o \in threads[threadPool_] : operatorPc[o] # "block"
      BY <1>2, <2>4, PoolAssumption
         DEF AssignPool, DestroyFlag, DestroyLock, PoolsControl, MutexInv, Holding, Threads
    <3>. QED  BY <1>2, <2>4, <3>1 DEF AssignPool, DestroyFlag
  <2>5. CASE SamePools /\ DestroyNotify(pool, "notifying", "joining")
    <3>1. \A o \in threads[pool] :
            operatorPc'[o] = IF operatorPc[o] = "wait" THEN "lock" ELSE operatorPc[o]
      BY <1>2, <2>5 DEF DestroyNotify, notify_all, Wake, Waiting
    <3>. QED  BY <1>2, <2>5, <3>1 DEF DestroyNotify
  <2>6. CASE OwnerMoves /\ ~AssignPool /\ ~(SamePools /\ DestroyNotify(pool, "notifying", "joining"))
    <3>1. ownerPc' \notin Destroying
      BY <1>2, <2>6 DEF OwnerMoves, StartMoves, StartFlags, StartNotify, DestroyJoin, UpdateLock,
         UpdateQueue, CompareAmount, BuildPool, StopOld, stop, transferObjects, TransferLock, Transfer,
         Destroying
    <3>. QED  BY <3>1 DEF Destroying
  <2>. QED
    BY <1>2, <2>1, <2>2, <2>3, <2>4, <2>5, <2>6, ManagerKinds
       DEF managerVars, vars, poolVars, poolVarsButOwner
<1>3. EndInv => OldPoolAwake
  BY DEF Ending, OldPoolAwake, NoneAsleep
<1>. QED
  BY <1>1, <1>2, <1>3, ManagerInvariance, PTL DEF ManagerSpec

-----------------------------------------------------------------------------
(* What start() may miss.                                                  *)

\* The pool in use runs, or is looked at by an update that may leave it alone.
Running == {"running", "resize", "compare"}

\* The pool in use has the queue, and from StartFlags to stop() it may take
\* calls.
InUse ==
    /\ hasQueue[threadPool_]
    /\ ownerPc = "swap" => hasQueue[pool]
    /\ ownerPc \in Running \cup {"booting", "starting", "build", "stop"} => ~paused[threadPool_]

Asleep(p) == {o \in threads[p] : operatorPc[o] \in {"block", "wait"}}

\* The operators of p are enough for the waiting calls, or at most one of them
\* sleeps through a call.
FewAsleep(p) == Attended(p) \/ Cardinality(Asleep(p)) <= 1

\* Every step keeps InUse.
LEMMA InUseStep ==
    ASSUME ManagerInv, InUse, [ManagerNext]_managerVars
    PROVE  InUse'
<1> USE DEF ManagerInv, ManagerTypeOK, PoolTypeOK, InUse, Running
<1>1. CASE UNCHANGED <<flags, ownerPc, threadPool_, pool>>
  BY <1>1
<1>2. ASSUME NEW p \in Pools, NEW o \in threads[p], run(p, o), SamePools
      PROVE  UNCHANGED <<flags, ownerPc, threadPool_, pool>>
  <2>1. o \in Operators
    OBVIOUS
  <2>. QED  BY <1>2, <2>1, RunShape
<1>3. ASSUME NEW c \in Calls, CallerMoves(c)
      PROVE  UNCHANGED <<flags, ownerPc, threadPool_, pool>>
  BY <1>3, CallerShape DEF CallerMoves, AddTaskEnter
<1>4. CASE SamePools /\ StartMoves
  BY <1>4 DEF StartMoves, StartFlags, StartNotify
<1>5. CASE SamePools /\ DestroyNotify(pool, "notifying", "joining")
  BY <1>5 DEF DestroyNotify
<1>6. CASE SamePools /\ DestroyJoin(pool, "joining", "start")
  BY <1>6 DEF DestroyJoin, PoolsControl, PoolsInv, Destroying
<1>7. CASE UpdateLock \/ UpdateQueue \/ CompareAmount
  BY <1>7 DEF UpdateLock, UpdateQueue, CompareAmount, poolVarsButOwner
<1>8. CASE BuildPool
  BY <1>8 DEF BuildPool, NewPool
<1>9. CASE StopOld
  BY <1>9 DEF StopOld, stop
<1>10. CASE transferObjects
  BY <1>10 DEF transferObjects, TransferLock, Transfer, MoveQueue
<1>11. CASE AssignPool
  BY <1>11 DEF AssignPool, DestroyFlag
<1>. QED
  BY <1>1, <1>2, <1>3, <1>4, <1>5, <1>6, <1>7, <1>8, <1>9, <1>10, <1>11, ManagerKinds
     DEF OwnerMoves, managerVars, vars, poolVars, poolVarsButOwner

\* A set within a set of one.
LEMMA AtMostOne ==
    ASSUME NEW S, NEW x, S \subseteq {x}
    PROVE  Cardinality(S) <= 1
<1>1. IsFiniteSet({x}) /\ Cardinality({x}) = 1
  BY FS_Singleton
<1>2. Cardinality(S) <= Cardinality({x})
  BY <1>1, FS_Subset
<1>. QED
  BY <1>1, <1>2

\* Fewer cannot be more than one.
LEMMA FewerAsleep ==
    ASSUME NEW p, IsFiniteSet(threads[p]), Asleep(p)' \subseteq Asleep(p), Cardinality(Asleep(p)) <= 1
    PROVE  Cardinality(Asleep(p)') <= 1
<1> DEFINE S == Asleep(p)
           T == Asleep(p)'
<1>1. S \subseteq threads[p]
  BY DEF Asleep
<1> HIDE DEF S, T
<1>2. T \subseteq S /\ Cardinality(S) <= 1
  BY DEF S, T
<1>3. Cardinality(T) <= Cardinality(S) /\ Cardinality(S) \in Nat /\ Cardinality(T) \in Nat
  BY <1>1, <1>2, FS_Subset, FS_CardinalityType
<1>4. Cardinality(T) <= 1
  BY <1>2, <1>3
<1>. QED
  BY <1>4 DEF T

\* No operator of a running pool goes to sleep beside another while calls wait.
LEMMA FewAsleepRun ==
    ASSUME PoolTypeOK, NeverPopsEmpty, NEW p \in Pools, IsFiniteSet(threads[p]), Works(p),
           FewAsleep(p), NEW o \in threads[p], run(p, o),
           \A w \in threads[p] : operatorPc[w] = "block" => task_queue_mutex[p] = w
    PROVE  FewAsleep(p)'
<1> USE DEF PoolTypeOK, QueueTypeOK
<1>0. /\ o \in Operators /\ UNCHANGED threads
      /\ \A w \in Operators \ {o} : operatorPc'[w] = operatorPc[w]
  BY RunShape
<1>1. CASE Attended(p) /\ (operatorPc[o] = "block" => queue_ = <<>> \/ Waiting(p) # {})
  BY <1>1, AttendedRun DEF FewAsleep
<1>2. CASE operatorPc[o] = "block" /\ Waiting(p) = {}
  <2>1. \A w \in threads[p] \ {o} : operatorPc'[w] \notin {"block", "wait"}
    BY <1>0, <1>2 DEF Waiting
  <2>2. Asleep(p)' \subseteq {o}
    BY <1>0, <2>1 DEF Asleep
  <2>. QED  BY <2>2, AtMostOne DEF FewAsleep
<1>3. CASE Cardinality(Asleep(p)) <= 1
  <2>1. CASE Test(p, o) /\ queue_ = <<>>
    <3>1. queue_' = <<>>
      BY <2>1 DEF Test
    <3>. QED  BY <1>0, <3>1, ComingCount DEF FewAsleep, Attended
  <2>2. CASE ~(Test(p, o) /\ queue_ = <<>>)
    <3>1. operatorPc'[o] \in {"block", "wait"} => operatorPc[o] \in {"block", "wait"}
      BY <1>0, <2>2
         DEF Works, run_allowed, empty, run, RunStep, Loop, Acquire, Test, Block, SpuriousWakeup,
             Retest, NothingAllowed, processTask, doTask, doTaskThrows, SetExceptionAgain, Reply,
             Finish, Drain
    <3>2. Asleep(p)' \subseteq Asleep(p)
      BY <1>0, <3>1 DEF Asleep
    <3>. QED  BY <1>3, <3>2, FewerAsleep DEF FewAsleep
  <2>. QED  BY <2>1, <2>2
<1>. QED
  BY <1>1, <1>2, <1>3 DEF FewAsleep

\* While the pool runs, and when it begins to, at most one of its operators
\* sleeps through a call.
LEMMA FewAsleepStep ==
    ASSUME IsFiniteSet(Operators), ManagerInv, InUse, [ManagerNext]_managerVars,
           ownerPc \in Running => FewAsleep(threadPool_), ownerPc' \in Running
    PROVE  FewAsleep(threadPool_)'
<1> USE DEF ManagerInv, ManagerTypeOK, PoolTypeOK
<1>0. /\ threadPool_ \in Pools /\ IsFiniteSet(threads[threadPool_])
      /\ \A w \in threads[threadPool_] : operatorPc[w] = "block" => task_queue_mutex[threadPool_] = w
  BY FS_Subset DEF PoolsControl, MutexInv, Holding
<1>1. ASSUME UNCHANGED <<queue_, threads, operatorPc, threadPool_>>, ownerPc \in Running
      PROVE  FewAsleep(threadPool_)'
  BY <1>1 DEF FewAsleep, Attended, Coming, Waiting, Asleep
<1>2. ASSUME NEW p \in Pools, NEW o \in threads[p], run(p, o), SamePools
      PROVE  FewAsleep(threadPool_)'
  <2>1. o \in Operators /\ ownerPc \in Running
    BY <1>2, RunShape
  <2>2. p = threadPool_
    BY <2>1 DEF PoolsControl, PoolsInv, Building, Destroying, Running
  <2>3. Works(threadPool_)
    BY <2>1 DEF InUse, PoolsControl, StayingInv, Staying, Building, Running, Works
  <2>4. FewAsleep(p)'
    BY <1>0, <1>2, <2>1, <2>2, <2>3, FewAsleepRun
  <2>. QED  BY <1>2, <2>2, <2>4 DEF FewAsleep, Attended, Coming, Waiting, Asleep
<1>3. ASSUME NEW c \in Calls, CallerMoves(c)
      PROVE  FewAsleep(threadPool_)'
  <2>1. UNCHANGED <<threads, ownerPc, threadPool_>>
    BY <1>3, CallerShape DEF CallerMoves, AddTaskEnter
  <2>2. CASE UNCHANGED <<queue_, operatorPc>>
    BY <1>1, <2>1, <2>2
  <2>3. CASE AddTaskPush(threadPool_, c)
    <3>1. CASE Attended(threadPool_)
      <4>1. Attended(threadPool_)'
        BY <1>0, <2>1, <2>3, <3>1, AttendedPush DEF Attended, Coming, Waiting
      <4>. QED  BY <4>1 DEF FewAsleep
    <3>2. CASE Cardinality(Asleep(threadPool_)) <= 1
      <4>1. \A w \in Operators : operatorPc'[w] \in {"block", "wait"} => operatorPc[w] \in {"block", "wait"}
        BY <2>3, WakeFacts DEF AddTaskPush, NotifyAdded
      <4>2. Asleep(threadPool_)' \subseteq Asleep(threadPool_)
        BY <2>1, <4>1 DEF Asleep
      <4>. QED  BY <1>0, <2>1, <3>2, <4>2, FewerAsleep DEF FewAsleep, Asleep
    <3>. QED  BY <2>1, <3>1, <3>2 DEF FewAsleep
  <2>. QED
    BY <1>3, <2>2, <2>3
       DEF CallerMoves, CallerActs, AddTaskEnter, AddTaskLock, AddTaskThrows, GetResult
<1>4. CASE OwnerMoves
  <2>1. CASE SamePools /\ StartMoves
    <3>1. notify_all(threadPool_) /\ UNCHANGED <<threads, threadPool_>>
      BY <2>1 DEF StartMoves, StartFlags, StartNotify, Running
    <3>2. \A w \in threads[threadPool_] :
            operatorPc'[w] \in {"block", "wait"} => operatorPc[w] = "block"
      BY <3>1 DEF notify_all, Wake, Waiting
    <3>3. Asleep(threadPool_)' \subseteq {task_queue_mutex[threadPool_]}
      BY <1>0, <3>1, <3>2 DEF Asleep
    <3>. QED  BY <3>3, AtMostOne DEF FewAsleep
  <2>2. CASE UpdateLock \/ UpdateQueue \/ CompareAmount
    BY <1>1, <2>2 DEF UpdateLock, UpdateQueue, CompareAmount, poolVarsButOwner, Running
  <2>3. CASE ~(SamePools /\ StartMoves) /\ ~(UpdateLock \/ UpdateQueue \/ CompareAmount)
    <3>1. ownerPc' \notin Running
      BY <1>4, <2>3 DEF OwnerMoves, DestroyNotify, DestroyJoin, BuildPool, StopOld, stop,
         transferObjects, TransferLock, Transfer, AssignPool, DestroyFlag, Running
    <3>. QED  BY <3>1
  <2>. QED  BY <2>1, <2>2, <2>3
<1>5. CASE UNCHANGED managerVars
  BY <1>1, <1>5 DEF managerVars, vars, poolVars, poolVarsButOwner
<1>. QED
  BY <1>2, <1>3, <1>4, <1>5, ManagerKinds

\* start() notifies without the mutex and so may miss the operator that has it,
\* but nobody else: from then on either every waiting call has an operator on
\* its way to it, or at most one operator is asleep.
THEOREM StartMissesOne ==
    ASSUME IsFiniteSet(Operators)
    PROVE  ManagerSpec => []AtMostOneMisses
<1> DEFINE Inv == InUse /\ (ownerPc \in Running => FewAsleep(threadPool_))
<1>1. ManagerInit => Inv
  BY ComponentAssumption DEF ManagerInit, FirstPool, InUse, Running
<1>2. ManagerInv /\ Inv /\ [ManagerNext]_managerVars => Inv'
  BY InUseStep, FewAsleepStep
<1>3. Inv => AtMostOneMisses
  BY DEF FewAsleep, Attended, Coming, Asleep, Running, AtMostOneMisses, NoneIdle
<1>. QED
  BY <1>1, <1>2, <1>3, ManagerInvariance, PTL DEF ManagerSpec
=============================================================================
