-------------------------- MODULE CallCenterProofs --------------------------
(***************************************************************************)
(* Proofs about ThreadPool, for every number of calls, operators and       *)
(* recorders and every limit of the queue: that at most one call per       *)
(* number waits, that answers and records agree, that no operator sleeps   *)
(* while a call waits, and that the pool implements CallCenter.            *)
(***************************************************************************)
EXTENDS ThreadPoolProofs, FiniteSetTheorems

\* As in ThreadPoolProofs.
USE DEF Step, Move, LeaveTask, CallerStep, OwnerStep, OwnerFlagStep,
        queueVars, settings, answers, flags

-----------------------------------------------------------------------------
(* One waiting call per number.                                            *)

\* Every step keeps the numbers distinct.
LEMMA NumbersStep ==
    ASSUME CallsInv, DistinctNumbers, NEW p, CallStep(p)
    PROVE  DistinctNumbers'
<1> USE DEF CallsInv, PoolTypeOK, QueueTypeOK
<1>1. CASE UNCHANGED queue_
  BY <1>1 DEF DistinctNumbers
<1>2. ASSUME NEW o \in Operators, processTask(p, o)
      PROVE  DistinctNumbers'
  <2>1. queue_ \in Seq(Calls) /\ queue_ # <<>> /\ queue_' = Tail(queue_)
    BY <1>2 DEF NeverPopsEmpty, empty, processTask, pop
  <2>2. \A i \in DOMAIN queue_' : i \in Int /\ i + 1 \in DOMAIN queue_ /\ queue_'[i] = queue_[i + 1]
    BY <2>1
  <2>3. SUFFICES ASSUME NEW i \in DOMAIN queue_', NEW j \in DOMAIN queue_',
                        Number[queue_'[i]] = Number[queue_'[j]]
                 PROVE  i = j
    BY DEF DistinctNumbers
  <2>4. i + 1 = j + 1
    BY <2>2, <2>3 DEF DistinctNumbers
  <2>. QED  BY <2>2, <2>4
<1>3. ASSUME NEW c \in Calls, AddTaskPush(p, c)
      PROVE  DistinctNumbers'
  BY <1>3, PushNumbers DEF AddTaskPush
<1>. QED
  BY <1>1, <1>2, <1>3
     DEF CallStep, Quiet, Answers, doTask, doTaskThrows, SetExceptionAgain, Reply

\* At most one call of each number waits, whatever was added, taken and
\* refused before.
THEOREM NumbersDistinct == PoolSpec => []DistinctNumbers
<1>1. PoolInit => DistinctNumbers
  BY DEF PoolInit, FirstPool, QueueInit, DistinctNumbers
<1>2. ASSUME PoolInv, DistinctNumbers, [PoolNext]_vars
      PROVE  DistinctNumbers'
  <2>1. CASE attachRecorders
    BY <1>2, <2>1 DEF attachRecorders, DistinctNumbers
  <2>. QED
    BY <1>2, <2>1, NumbersStep, StepKinds DEF PoolInv, Control, CallsInv
<1>. QED
  BY <1>1, <1>2, Invariance, PTL DEF PoolSpec

-----------------------------------------------------------------------------
(* Answers and records.                                                    *)

Unrecorded(c) == \A r \in Recorders : cdrFile[r][c] = <<>>

\* A record is written before the answer, by the operator that will give it,
\* and nobody has written one of that call before.
RecordInv ==
    /\ \A c \in Calls :
         \/ promise[c] # NoStatus
         \/ \E o \in Operators : task[o] = c /\ operatorPc[o] = "reply"
         \/ Unrecorded(c)
    /\ \A o \in Operators : operatorPc[o] = "reply" =>
         \A r \in recorders_ : cdrFile[r][task[o]] = <<cdr[task[o]]>>
    /\ RecordMatchesAnswer

\* A file with no line for a call has one after a record.
LEMMA OneLine == ASSUME NEW s PROVE Append(<<>>, s) = <<s>>
OBVIOUS

\* writeCDR concerns one call, in the files of the attached recorders.
LEMMA WriteCDRFacts ==
    ASSUME QueueTypeOK, NEW c \in Calls, NEW s \in CallStatus, writeCDR(c, s)
    PROVE  /\ cdr'[c] = s
           /\ \A r \in recorders_ : cdrFile'[r][c] = Append(cdrFile[r][c], s)
           /\ \A d \in Calls \ {c} : cdr'[d] = cdr[d] /\ \A r \in Recorders : cdrFile'[r][d] = cdrFile[r][d]
<1> USE DEF QueueTypeOK
<1>1. cdr' = [cdr EXCEPT ![c] = s]
  BY DEF writeCDR
<1>2. ASSUME NEW r \in Recorders
      PROVE  /\ r \in recorders_ => cdrFile'[r][c] = Append(cdrFile[r][c], s)
             /\ \A d \in Calls \ {c} : cdrFile'[r][d] = cdrFile[r][d]
  <2>1. cdrFile[r] \in [Calls -> Seq(CallStatus)]
    OBVIOUS
  <2>2. cdrFile'[r] = IF r \in recorders_ THEN [cdrFile[r] EXCEPT ![c] = Append(@, s)] ELSE cdrFile[r]
    BY DEF writeCDR, makeRecord
  <2>. QED  BY <2>1, <2>2
<1>. QED
  BY <1>1, <1>2

\* push changes nothing of a call, or records and answers one that was waiting
\* or is new.
LEMMA PushRecords ==
    ASSUME QueueTypeOK, NEW c \in Calls, push(c), NEW d \in Calls
    PROVE  \/ /\ promise'[d] = promise[d] /\ cdr'[d] = cdr[d]
              /\ \A r \in Recorders : cdrFile'[r][d] = cdrFile[r][d]
           \/ /\ d = c \/ InQueue(d)
              /\ cdr'[d] = promise'[d] /\ promise'[d] \in CallStatus
              /\ \A r \in recorders_ : cdrFile'[r][d] = Append(cdrFile[r][d], promise'[d])
<1> USE DEF QueueTypeOK
<1>1. ASSUME NEW e \in Calls, e = c \/ InQueue(e), NEW s \in CallStatus, Refuse(e, s)
      PROVE  \/ /\ promise'[d] = promise[d] /\ cdr'[d] = cdr[d]
                /\ \A r \in Recorders : cdrFile'[r][d] = cdrFile[r][d]
             \/ /\ d = c \/ InQueue(d)
                /\ cdr'[d] = promise'[d] /\ promise'[d] \in CallStatus
                /\ \A r \in recorders_ : cdrFile'[r][d] = Append(cdrFile[r][d], promise'[d])
  <2>1. writeCDR(e, s) /\ promise' = [promise EXCEPT ![e] = s]
    BY <1>1 DEF Refuse, set_value
  <2>2. CASE d = e
    BY <1>1, <2>1, <2>2, WriteCDRFacts
  <2>3. CASE d # e
    BY <1>1, <2>1, <2>3, WriteCDRFacts
  <2>. QED  BY <2>2, <2>3
<1>2. CASE handleOverloadedTask(c)
  BY <1>1, <1>2 DEF handleOverloadedTask, CallStatus
<1>3. CASE UNCHANGED answers
  BY <1>3
<1>4. ASSUME NEW i \in Duplicates(c), Refuse(queue_[i], "Duplication")
      PROVE  queue_[i] \in Calls /\ InQueue(queue_[i])
  BY DEF Duplicates, InQueue
<1>. QED
  BY <1>1, <1>2, <1>3, <1>4 DEF push, handleTask, CallStatus

\* Every step keeps RecordInv, whichever pool takes it.
LEMMA RecordsStep ==
    ASSUME CallsInv, CallsInv', RecordInv, NEW p, CallStep(p)
    PROVE  RecordInv'
<1> USE DEF CallsInv, PoolTypeOK, QueueTypeOK, Serving
<1>1. \A o \in Operators : operatorPc[o] \in Serving => task[o] \in Calls
  BY DEF TaskHeld
<1>2. CASE Quiet
  <2>1. UNCHANGED <<promise, cdr, cdrFile, recorders_, task>>
    BY <1>2 DEF Quiet
  <2>2. \A o \in Operators : operatorPc'[o] = "reply" <=> operatorPc[o] = "reply"
    BY <1>2 DEF Quiet
  <2>3. \A c \in Calls : Unrecorded(c)' <=> Unrecorded(c)
    BY <2>1 DEF Unrecorded
  <2>4. RecordMatchesAnswer'
    BY <2>1 DEF RecordInv, RecordMatchesAnswer
  <2> HIDE DEF CallsInv, PoolTypeOK, QueueTypeOK
  <2>. QED  BY <2>1, <2>2, <2>3, <2>4 DEF RecordInv
<1>3. ASSUME NEW o \in Operators, processTask(p, o)
      PROVE  RecordInv'
  <2>1. /\ UNCHANGED <<promise, cdr, cdrFile, recorders_>>
        /\ operatorPc[o] = "take" /\ operatorPc'[o] = "exec"
        /\ \A w \in Operators \ {o} : operatorPc'[w] = operatorPc[w] /\ task'[w] = task[w]
    BY <1>3 DEF processTask
  <2>2. \A c \in Calls : Unrecorded(c)' <=> Unrecorded(c)
    BY <2>1 DEF Unrecorded
  <2>3. \A w \in Operators : operatorPc'[w] = "reply" <=> operatorPc[w] = "reply" /\ w # o
    BY <2>1
  <2>4. RecordMatchesAnswer'
    BY <2>1 DEF RecordInv, RecordMatchesAnswer
  <2>. QED  BY <2>1, <2>2, <2>3, <2>4 DEF RecordInv
<1>4. ASSUME NEW o \in Operators, doTask(p, o)
      PROVE  RecordInv'
  <2>1. PICK s \in CallStatus : writeCDR(task[o], s)
    BY <1>4 DEF doTask, CallStatus
  <2>2. /\ UNCHANGED <<promise, recorders_, task>>
        /\ operatorPc[o] = "exec" /\ operatorPc' = [operatorPc EXCEPT ![o] = "reply"]
    BY <1>4 DEF doTask
  <2>3. task[o] \in Calls /\ promise[task[o]] = NoStatus
    BY <1>1, <2>2 DEF Ownership, ServedBlocked
  <2>4. \A w \in Operators \ {o} : task[w] # task[o]
    BY <2>3, PoolAssumption DEF Ownership, TasksDistinct
  <2>5. Unrecorded(task[o])
    BY <2>2, <2>3, <2>4 DEF RecordInv
  <2>6. /\ cdr'[task[o]] = s
        /\ \A r \in recorders_ : cdrFile'[r][task[o]] = <<s>>
        /\ \A d \in Calls \ {task[o]} : cdr'[d] = cdr[d] /\ \A r \in Recorders : cdrFile'[r][d] = cdrFile[r][d]
    <3>1. \A r \in recorders_ : Append(cdrFile[r][task[o]], s) = <<s>>
      BY <2>5, OneLine DEF Unrecorded
    <3> HIDE DEF CallsInv, PoolTypeOK, QueueTypeOK
    <3>2. QueueTypeOK
      BY DEF CallsInv, PoolTypeOK
    <3>3. /\ cdr'[task[o]] = s
          /\ \A r \in recorders_ : cdrFile'[r][task[o]] = Append(cdrFile[r][task[o]], s)
          /\ \A d \in Calls \ {task[o]} : cdr'[d] = cdr[d] /\ \A r \in Recorders : cdrFile'[r][d] = cdrFile[r][d]
      BY <2>1, <2>3, <3>2, WriteCDRFacts
    <3>. QED  BY <3>1, <3>3
  <2>7. ASSUME NEW c \in Calls
        PROVE  \/ promise'[c] # NoStatus
               \/ \E w \in Operators : task'[w] = c /\ operatorPc'[w] = "reply"
               \/ Unrecorded(c)'
    BY <2>2, <2>6 DEF RecordInv, Unrecorded
  <2>8. ASSUME NEW w \in Operators, operatorPc'[w] = "reply"
        PROVE  \A r \in recorders_ : cdrFile'[r][task[w]] = <<cdr'[task[w]]>>
    BY <1>1, <2>2, <2>4, <2>6, <2>8 DEF RecordInv
  <2>9. RecordMatchesAnswer'
    BY <2>2, <2>3, <2>6 DEF RecordInv, RecordMatchesAnswer, CallStatus, NoStatus
  <2>. QED  BY <2>2, <2>7, <2>8, <2>9 DEF RecordInv
<1>5. ASSUME NEW o \in Operators, Answers(p, o)
      PROVE  RecordInv'
  <2>1. /\ UNCHANGED <<cdr, cdrFile, recorders_>> /\ task[o] \in Calls
        /\ \A w \in Operators \ {o} : operatorPc'[w] = operatorPc[w] /\ task'[w] = task[w]
        /\ operatorPc'[o] \in {"rethrow", "finish"}
        /\ \/ operatorPc[o] = "reply" /\ promise' = [promise EXCEPT ![task[o]] = cdr[task[o]]]
           \/ operatorPc[o] # "reply" /\ promise' = [promise EXCEPT ![task[o]] = Exception]
           \/ operatorPc[o] # "reply" /\ promise' = promise
    BY <1>1, <1>5 DEF Answers, doTaskThrows, SetExceptionAgain, Reply, set_value
  <2>2. operatorPc[o] = "reply" => cdr[task[o]] # NoStatus
    BY <2>1 DEF Ownership, ServedBlocked, CallStatus, NoStatus
  <2>3. \A c \in Calls : Unrecorded(c)' <=> Unrecorded(c)
    BY <2>1 DEF Unrecorded
  <2>4. \A w \in Operators : operatorPc'[w] = "reply" <=> operatorPc[w] = "reply" /\ w # o
    BY <2>1
  <2>5. \A c \in Calls : promise[c] # NoStatus => promise'[c] # NoStatus
    BY <2>1, <2>2 DEF Exception, NoStatus
  <2>6. operatorPc[o] = "reply" => promise'[task[o]] # NoStatus
    BY <2>1, <2>2
  <2>7. ASSUME NEW c \in Calls
        PROVE  \/ promise'[c] # NoStatus
               \/ \E w \in Operators : task'[w] = c /\ operatorPc'[w] = "reply"
               \/ Unrecorded(c)'
    BY <2>1, <2>3, <2>4, <2>5, <2>6 DEF RecordInv
  <2>8. RecordMatchesAnswer'
    <3>1. ASSUME NEW c \in Calls, promise'[c] \in CallStatus
          PROVE  cdr[c] = promise'[c] /\ \A r \in recorders_ : cdrFile[r][c] = <<promise'[c]>>
      <4>1. CASE operatorPc[o] = "reply" /\ c = task[o]
        BY <2>1, <4>1 DEF RecordInv
      <4>2. CASE promise'[c] = promise[c]
        BY <3>1, <4>2 DEF RecordInv, RecordMatchesAnswer
      <4>. QED  BY <2>1, <3>1, <4>1, <4>2 DEF CallStatus, Exception
    <3>. QED  BY <2>1, <3>1 DEF RecordMatchesAnswer
  <2>. QED  BY <2>1, <2>4, <2>7, <2>8 DEF RecordInv
<1>6. ASSUME NEW c \in Calls, AddTaskPush(p, c)
      PROVE  RecordInv'
  <2>1. push(c) /\ UNCHANGED <<task, recorders_>>
    BY <1>6 DEF AddTaskPush, push
  <2>2. \A w \in Operators : operatorPc[w] = "reply" <=> operatorPc'[w] = "reply"
    BY <1>6, WakeFacts DEF AddTaskPush, NotifyAdded
  <2>3. ASSUME NEW d \in Calls, d = c \/ InQueue(d)
        PROVE  Unrecorded(d)
    <3>1. CASE d = c
      BY <1>6, <3>1, EnteringNowhere DEF AddTaskPush , RecordInv
    <3>2. CASE InQueue(d)
      BY <3>2 DEF InQueue, Ownership, WaitingBlocked, RecordInv
    <3>. QED  BY <2>3, <3>1, <3>2
  <2>4. ASSUME NEW d \in Calls
        PROVE  \/ /\ promise'[d] = promise[d] /\ cdr'[d] = cdr[d]
                  /\ \A r \in Recorders : cdrFile'[r][d] = cdrFile[r][d]
               \/ /\ cdr'[d] = promise'[d] /\ promise'[d] \in CallStatus
                  /\ \A r \in recorders_ : cdrFile'[r][d] = <<promise'[d]>>
    <3>1. Unrecorded(d) => \A r \in recorders_ : Append(cdrFile[r][d], promise'[d]) = <<promise'[d]>>
      BY OneLine DEF Unrecorded
    <3>. QED  BY <2>1, <2>3, <3>1, PushRecords
  <2>5. \A o \in Operators : operatorPc'[o] = "reply" => task'[o] \in Calls /\ promise'[task'[o]] = NoStatus
    BY <1>1, <2>1, <2>2 DEF Ownership, ServedBlocked
  <2>6. ASSUME NEW d \in Calls
        PROVE  \/ promise'[d] # NoStatus
               \/ \E w \in Operators : task'[w] = d /\ operatorPc'[w] = "reply"
               \/ Unrecorded(d)'
    <3>1. CASE promise'[d] \in CallStatus
      BY <3>1 DEF CallStatus, NoStatus
    <3>2. CASE promise'[d] = promise[d] /\ \A r \in Recorders : cdrFile'[r][d] = cdrFile[r][d]
      <4>1. Unrecorded(d)' <=> Unrecorded(d)
        BY <3>2 DEF Unrecorded
      <4>. QED  BY <2>1, <2>2, <3>2, <4>1 DEF RecordInv
    <3>. QED  BY <2>4, <3>1, <3>2
  <2>7. ASSUME NEW w \in Operators, operatorPc'[w] = "reply"
        PROVE  \A r \in recorders_ : cdrFile'[r][task'[w]] = <<cdr'[task'[w]]>>
    <3>1. /\ cdr'[task[w]] = cdr[task[w]]
          /\ \A r \in Recorders : cdrFile'[r][task[w]] = cdrFile[r][task[w]]
      BY <2>1, <2>4, <2>5, <2>7 DEF CallStatus, NoStatus
    <3>. QED  BY <2>1, <2>2, <2>7, <3>1 DEF RecordInv
  <2>8. RecordMatchesAnswer'
    <3>1. ASSUME NEW d \in Calls, promise'[d] \in CallStatus
          PROVE  cdr'[d] = promise'[d] /\ \A r \in recorders_ : cdrFile'[r][d] = <<promise'[d]>>
      BY <2>4, <3>1 DEF RecordInv, RecordMatchesAnswer
    <3>. QED  BY <2>1, <3>1 DEF RecordMatchesAnswer
  <2>. QED  BY <2>1, <2>6, <2>7, <2>8 DEF RecordInv
<1>. QED
  BY <1>2, <1>3, <1>4, <1>5, <1>6 DEF CallStep

\* Nothing is written before the recorders are attached.
LEMMA RecordersAttached ==
    ASSUME PoolInv, RecordInv, attachRecorders
    PROVE  RecordInv'
<1> USE DEF PoolInv, PoolTypeOK, QueueTypeOK
<1>1. \A c \in Calls : promise[c] = NoStatus
  BY EnteringNowhere DEF attachRecorders, Control
<1>2. \A o \in Operators : operatorPc[o] # "reply"
  <2>1. \A o \in Operators : operatorPc[o] \in Serving => task[o] \in Calls
    BY DEF Control, TaskHeld
  <2>. QED  BY <2>1 DEF attachRecorders, Ownership, ServedBlocked, Serving
<1>. QED
  BY <1>1, <1>2 DEF RecordInv, RecordMatchesAnswer, Unrecorded, attachRecorders, poolVars,
                    poolVarsButOwner, NoStatus, CallStatus

\* What a caller is told is what the files say, in one line: no interleaving
\* of operators and callers writes a second line, or another status.
THEOREM AnswersRecorded == PoolSpec => []RecordMatchesAnswer
<1>1. PoolInit => RecordInv
  BY DEF PoolInit, FirstPool, QueueInit, RecordInv, RecordMatchesAnswer, Unrecorded, NoStatus, CallStatus
<1>2. PoolInv /\ PoolInv' /\ RecordInv /\ [PoolNext]_vars => RecordInv'
  BY RecordsStep, RecordersAttached, StepKinds DEF PoolInv, Control, CallsInv
<1>3. RecordInv => RecordMatchesAnswer
  BY DEF RecordInv
<1>. QED
  BY <1>1, <1>2, <1>3, Invariance, PTL DEF PoolSpec

-----------------------------------------------------------------------------
(* No operator sleeps while a call waits.                                  *)

\* The operators of pool p that will look at the queue before they sleep.
Coming(p) ==
    {o \in threads[p] : operatorPc[o] \in {"loop", "lock", "test", "ready", "take", "finish"}}

\* NoneIdle(p), without the state of the owner.
Attended(p) == Waiting(p) # {} => Len(queue_) <= Cardinality(Coming(p))

\* An operator of p that is not about to read a flag or the queue reads these.
Works(p) == hasQueue[p] /\ ~paused[p] /\ ~stopped[p] /\ ~waitForCompletion[p]

\* What of a pool that is started before its first call, and not stopped, makes
\* one notification per call enough.  An operator that is about to block saw no
\* call, and nobody can add one while it has the mutex.
Wakeful ==
    /\ ownerPc \in {"constructed", "starting", "running"}
    /\ ownerPc # "running" => queue_ = <<>> /\ \A c \in Calls : callerPc[c] = "new"
    /\ threads[Pool] = Operators /\ hasQueue[Pool]
    /\ ~stopped[Pool] /\ ~waitForCompletion[Pool]
    /\ ownerPc \in {"starting", "running"} => ~paused[Pool]
    /\ \A o \in Operators : operatorPc[o] = "block" => queue_ = <<>>

\* How many are coming when one goes, one comes, or none of them goes.
LEMMA ComingCount ==
    ASSUME NEW p, IsFiniteSet(threads[p]), UNCHANGED threads
    PROVE  /\ Cardinality(Coming(p)) \in Nat /\ Cardinality(Coming(p)') \in Nat
           /\ Coming(p) \subseteq Coming(p)' => Cardinality(Coming(p)) <= Cardinality(Coming(p)')
           /\ \A o \in Coming(p) : Coming(p) \ {o} \subseteq Coming(p)'
                => Cardinality(Coming(p)) - 1 <= Cardinality(Coming(p)')
           /\ \A o \in Coming(p)' \ Coming(p) : Coming(p) \subseteq Coming(p)'
                => Cardinality(Coming(p)) + 1 <= Cardinality(Coming(p)')
<1>1. Coming(p) \subseteq threads[p] /\ Coming(p)' \subseteq threads[p]
  BY DEF Coming
<1> DEFINE C == Coming(p)
           D == Coming(p)'
<1> HIDE DEF C, D
<1>2. /\ IsFiniteSet(C) /\ IsFiniteSet(D)
      /\ Cardinality(C) \in Nat /\ Cardinality(D) \in Nat
  BY <1>1, FS_Subset, FS_CardinalityType DEF C, D
<1>3. C \subseteq D => Cardinality(C) <= Cardinality(D)
  BY <1>2, FS_Subset
<1>4. ASSUME NEW o \in C, C \ {o} \subseteq D
      PROVE  Cardinality(C) - 1 <= Cardinality(D)
  <2>1. Cardinality(C \ {o}) = Cardinality(C) - 1
    BY <1>2, FS_RemoveElement
  <2>2. Cardinality(C \ {o}) <= Cardinality(D)
    BY <1>2, <1>4, FS_Subset
  <2>. QED  BY <2>1, <2>2
<1>5. ASSUME NEW o \in D \ C, C \subseteq D
      PROVE  Cardinality(C) + 1 <= Cardinality(D)
  <2>1. C \cup {o} \subseteq D /\ Cardinality(C \cup {o}) = Cardinality(C) + 1
    BY <1>2, <1>5, FS_AddElement
  <2>. QED  BY <1>2, <2>1, FS_Subset
<1>. QED
  BY <1>2, <1>3, <1>4, <1>5 DEF C, D

\* An operator goes to sleep only if the queue is empty, and takes one call at
\* a time: it leaves no call unattended, but for the one that was about to
\* block when a call came.
LEMMA AttendedRun ==
    ASSUME PoolTypeOK, NeverPopsEmpty, NEW p \in Pools, IsFiniteSet(threads[p]), Works(p),
           Attended(p), NEW o \in threads[p], run(p, o),
           operatorPc[o] = "block" => queue_ = <<>> \/ Waiting(p) # {}
    PROVE  Attended(p)'
<1> USE DEF PoolTypeOK, QueueTypeOK, Works
<1>0. /\ o \in Operators /\ UNCHANGED threads
      /\ \A w \in Operators \ {o} : operatorPc'[w] = operatorPc[w]
  BY DEF run, RunStep, Loop, Acquire, Test, Block, SpuriousWakeup, Retest, NothingAllowed,
         processTask, doTask, doTaskThrows, SetExceptionAgain, Reply, Finish, Drain
<1>1. CASE processTask(p, o)
  <2>1. /\ operatorPc[o] = "take" /\ operatorPc'[o] = "exec" /\ queue_' = Tail(queue_)
        /\ queue_ # <<>>
    BY <1>0, <1>1 DEF processTask, pop, NeverPopsEmpty, empty
  <2>2. Len(queue_') = Len(queue_) - 1 /\ Len(queue_) \in Nat
    BY <2>1
  <2>3. o \in Coming(p) /\ Coming(p) \ {o} \subseteq Coming(p)' /\ Waiting(p)' \subseteq Waiting(p)
    BY <1>0, <2>1 DEF Coming, Waiting
  <2>4. Cardinality(Coming(p)) - 1 <= Cardinality(Coming(p)')
        /\ Cardinality(Coming(p)) \in Nat /\ Cardinality(Coming(p)') \in Nat
    BY <1>0, <2>3, ComingCount
  <2>. QED  BY <2>2, <2>3, <2>4 DEF Attended
<1>2. CASE queue_ = <<>> /\ queue_' = <<>>
  BY <1>0, <1>2, ComingCount DEF Attended
<1>3. CASE ~processTask(p, o) /\ ~(queue_ = <<>> /\ queue_' = <<>>)
  <2>1. queue_' = queue_
    BY <1>3 DEF run, RunStep, Loop, Acquire, Test, Block, SpuriousWakeup, Retest, NothingAllowed,
         doTask, doTaskThrows, SetExceptionAgain, Reply, Finish, Drain
  <2>2. /\ operatorPc[o] \in {"loop", "lock", "test", "ready", "take", "finish"}
             => operatorPc'[o] \in {"loop", "lock", "test", "ready", "take", "finish"}
        /\ operatorPc'[o] = "wait" => operatorPc[o] = "block"
    BY <1>0, <1>3, <2>1
       DEF run, RunStep, Loop, Acquire, Test, Block, SpuriousWakeup, Retest, NothingAllowed,
         doTask, doTaskThrows, SetExceptionAgain, Reply, Finish, Drain, run_allowed, empty
  <2>3. Coming(p) \subseteq Coming(p)'
    BY <1>0, <2>2 DEF Coming
  <2>4. Waiting(p)' # {} => Waiting(p) # {}
    BY <1>0, <1>3, <2>1, <2>2 DEF Waiting
  <2>5. /\ Cardinality(Coming(p)) <= Cardinality(Coming(p)')
        /\ Cardinality(Coming(p)) \in Nat /\ Cardinality(Coming(p)') \in Nat
    BY <1>0, <2>3, ComingCount
  <2>6. Len(queue_) \in Nat
    OBVIOUS
  <2>. QED  BY <2>1, <2>4, <2>5, <2>6 DEF Attended
<1>. QED
  BY <1>1, <1>2, <1>3

\* push adds one call at most, and then wakes an operator if one sleeps.
LEMMA AttendedPush ==
    ASSUME PoolTypeOK, NEW p \in Pools, IsFiniteSet(threads[p]), Attended(p),
           NEW c \in Calls, AddTaskPush(p, c)
    PROVE  Attended(p)'
<1> USE DEF PoolTypeOK, QueueTypeOK
<1>1. UNCHANGED threads /\ push(c) /\ NotifyAdded(p)
  BY DEF AddTaskPush
<1>2. Len(queue_) \in Nat
  OBVIOUS
<1>3. \/ Overloaded /\ queue_' = queue_
      \/ ~Overloaded /\ Len(queue_') \in {Len(queue_), Len(queue_) + 1}
  BY <1>1, <1>2, PushCases DEF Overloaded
<1>4. CASE UNCHANGED operatorPc
  <2>1. Coming(p)' = Coming(p) /\ Waiting(p)' = Waiting(p)
    BY <1>1, <1>4 DEF Coming, Waiting
  <2>2. Overloaded \/ Waiting(p) = {}
    <3>1. ASSUME NEW o \in Waiting(p), Wake({o}) PROVE FALSE
      <4>1. o \in Operators /\ operatorPc[o] = "wait"
        BY DEF Waiting
      <4>. QED  BY <1>4, <3>1, <4>1 DEF Wake
    <3>. QED  BY <1>1, <3>1 DEF NotifyAdded, notify_one
  <2>. QED  BY <1>3, <2>1, <2>2 DEF Attended
<1>5. ASSUME NEW o \in Waiting(p), Wake({o}), ~Overloaded
      PROVE  Attended(p)'
  <2>1. o \in threads[p] /\ o \in Operators /\ operatorPc[o] = "wait"
    BY <1>5 DEF Waiting
  <2>2. o \in Coming(p)' \ Coming(p) /\ Coming(p) \subseteq Coming(p)'
    BY <1>1, <1>5, <2>1 DEF Coming, Wake
  <2>3. /\ Cardinality(Coming(p)) \in Nat /\ Cardinality(Coming(p)') \in Nat
        /\ Cardinality(Coming(p)) + 1 <= Cardinality(Coming(p)')
    BY <1>1, <2>2, ComingCount
  <2>4. Len(queue_) <= Cardinality(Coming(p))
    BY <1>5 DEF Attended
  <2>. QED  BY <1>2, <1>3, <1>5, <2>3, <2>4 DEF Attended
<1>. QED
  BY <1>1, <1>4, <1>5 DEF NotifyAdded, notify_one

\* Every step of a pool that is not stopped, and gets no call before start()
\* has returned, keeps Wakeful.
LEMMA WakefulStep ==
    ASSUME ~EarlyCalls, ~OwnerMayStop, PoolInv, Wakeful, [PoolNext]_vars
    PROVE  Wakeful'
<1> USE ComponentAssumption DEF PoolInv, PoolTypeOK, QueueTypeOK
<1>1. CASE UNCHANGED vars
  BY <1>1 DEF vars, poolVars, poolVarsButOwner, Wakeful
<1>2. ASSUME NEW o \in Operators, run(Pool, o)
      PROVE  Wakeful'
  <2>1. UNCHANGED <<threads, hasQueue, stopped, paused, waitForCompletion, ownerPc, callerPc>>
    BY <1>2 DEF run, RunStep, Loop, Acquire, Test, Block, SpuriousWakeup, Retest, NothingAllowed,
         processTask, doTask, doTaskThrows, SetExceptionAgain, Reply, Finish, Drain
  <2>2. CASE processTask(Pool, o)
    <3>1. /\ operatorPc[o] = "take" /\ operatorPc' = [operatorPc EXCEPT ![o] = "exec"]
          /\ queue_ # <<>>
      BY <2>2 DEF processTask, Control, NeverPopsEmpty, empty
    <3>. QED  BY <2>1, <3>1 DEF Wakeful
  <2>3. CASE Test(Pool, o)
    <3>1. /\ operatorPc[o] = "test" /\ UNCHANGED queue_
          /\ operatorPc' = [operatorPc EXCEPT ![o] = operatorPc'[o]]
          /\ operatorPc'[o] = "block" => ~run_allowed(Pool)
      BY <2>3 DEF Test
    <3>2. run_allowed(Pool) \/ queue_ = <<>>
      BY DEF Wakeful, run_allowed, empty
    <3>. QED  BY <2>1, <3>1, <3>2 DEF Wakeful
  <2>4. CASE ~processTask(Pool, o) /\ ~Test(Pool, o)
    <3>1. /\ UNCHANGED queue_
          /\ \A w \in Operators : operatorPc'[w] = "block" => operatorPc[w] = "block"
      BY <1>2, <2>4 DEF run, RunStep, Loop, Acquire, Block, SpuriousWakeup, Retest, NothingAllowed,
           doTask, doTaskThrows, SetExceptionAgain, Reply, Finish, Drain
    <3>. QED  BY <2>1, <3>1 DEF Wakeful
  <2>. QED  BY <2>2, <2>3, <2>4
<1>3. ASSUME NEW c \in Calls, AddTaskLock(Pool, c, "new"), Open
      PROVE  Wakeful'
  <2>1. ownerPc = "running"
    BY <1>3 DEF Open, Wakeful
  <2>. QED  BY <1>3, <2>1 DEF AddTaskLock, Wakeful
<1>4. ASSUME NEW c \in Calls, AddTaskThrows(Pool, c) \/ AddTaskPush(Pool, c) \/ GetResult(c)
      PROVE  Wakeful'
  <2>1. /\ callerPc[c] # "new" /\ ownerPc = "running"
        /\ UNCHANGED <<threads, hasQueue, stopped, paused, waitForCompletion, ownerPc>>
    BY <1>4 DEF AddTaskThrows, AddTaskPush, GetResult, Wakeful
  <2>2. CASE UNCHANGED <<queue_, operatorPc>>
    BY <2>1, <2>2 DEF Wakeful
  <2>3. CASE AddTaskPush(Pool, c)
    <3>1. \A o \in Operators : operatorPc[o] # "block"
      BY <2>3, PoolAssumption DEF AddTaskPush, Control, MutexHeld
    <3>2. \A o \in Operators : operatorPc'[o] # "block"
      BY <2>3, <3>1, WakeFacts DEF AddTaskPush, NotifyAdded
    <3>. QED  BY <2>1, <3>2 DEF Wakeful
  <2>. QED  BY <1>4, <2>2, <2>3 DEF AddTaskThrows, GetResult
<1>5. CASE attachRecorders
  BY <1>5 DEF attachRecorders, poolVars, poolVarsButOwner, Wakeful
<1>6. CASE StartFlags(Pool, "constructed", "starting")
  BY <1>6 DEF StartFlags, Wakeful
<1>7. CASE StartFlags(Pool, "stopped", "starting")
  BY <1>7 DEF StartFlags, Wakeful
<1>8. CASE StartNotify(Pool, "starting", "running")
  <2>1. \A o \in Operators : operatorPc'[o] = "block" => operatorPc[o] = "block"
    BY <1>8, WakeFacts DEF StartNotify
  <2>. QED  BY <1>8, <2>1 DEF StartNotify, Wakeful
<1>. QED
  BY <1>1, <1>2, <1>3, <1>4, <1>5, <1>6, <1>7, <1>8 DEF PoolNext, Ended, add_task, start

\* Once the pool runs, every step keeps Attended, and it runs when the queue
\* is empty.
LEMMA AttendedStep ==
    ASSUME IsFiniteSet(Operators), ~EarlyCalls, ~OwnerMayStop, PoolInv, Wakeful, Wakeful',
           ownerPc = "running" => Attended(Pool), [PoolNext]_vars, ownerPc' = "running"
    PROVE  Attended(Pool)'
<1>1. CASE ownerPc # "running"
  <2>1. queue_ = <<>> /\ queue_' = queue_
    <3>1. \A c \in Calls : ~AddTaskPush(Pool, c)
      BY <1>1 DEF AddTaskPush, Wakeful
    <3>. QED
      BY <1>1, <3>1 DEF Wakeful, PoolNext, Ended, vars, start, StartFlags, StartNotify, add_task,
           AddTaskLock, AddTaskThrows, GetResult, attachRecorders, run, RunStep, Loop, Acquire,
           Test, Block, SpuriousWakeup, Retest, NothingAllowed, doTask, doTaskThrows,
           SetExceptionAgain, Reply, Finish, Drain, processTask, poolVars, poolVarsButOwner
  <2>2. UNCHANGED threads
    BY DEF PoolNext, Ended, vars, start, StartFlags, StartNotify, add_task,
           AddTaskLock, AddTaskThrows, AddTaskPush, GetResult, attachRecorders, run, RunStep, Loop,
           Acquire, Test, Block, SpuriousWakeup, Retest, NothingAllowed, doTask, doTaskThrows,
           SetExceptionAgain, Reply, Finish, Drain, processTask, poolVars, poolVarsButOwner
  <2>3. threads[Pool] = Operators
    BY DEF Wakeful
  <2>. QED  BY <2>1, <2>2, <2>3, ComingCount DEF Attended
<1>2. CASE ownerPc = "running" /\ UNCHANGED <<queue_, operatorPc, threads>>
  BY <1>2 DEF Attended, Coming, Waiting
<1>3. ASSUME ownerPc = "running", NEW o \in Operators, run(Pool, o)
      PROVE  Attended(Pool)'
  <2>1. /\ threads[Pool] = Operators /\ Works(Pool)
        /\ operatorPc[o] = "block" => queue_ = <<>>
    BY <1>3 DEF Wakeful, Works
  <2>. QED  BY <1>3, <2>1, AttendedRun, ComponentAssumption DEF PoolInv, Control
<1>4. ASSUME ownerPc = "running", NEW c \in Calls, AddTaskPush(Pool, c)
      PROVE  Attended(Pool)'
  <2>1. threads[Pool] = Operators
    BY DEF Wakeful
  <2>. QED  BY <1>4, <2>1, AttendedPush, ComponentAssumption DEF PoolInv
<1>. QED
  BY <1>1, <1>2, <1>3, <1>4
     DEF PoolNext, Ended, vars, poolVars, poolVarsButOwner, add_task, AddTaskLock, AddTaskThrows,
         GetResult, attachRecorders, start, StartFlags, StartNotify

\* A pool that is started before its first call, and not stopped, lets no
\* operator sleep while a call waits that nobody is coming for.
THEOREM NobodyIdle ==
    ASSUME IsFiniteSet(Operators), ~EarlyCalls, ~OwnerMayStop
    PROVE  PoolSpec => []NoIdleOperator
<1> DEFINE IdleInv == Wakeful /\ (ownerPc = "running" => Attended(Pool))
<1>1. PoolInit => IdleInv
  BY ComponentAssumption DEF PoolInit, FirstPool, QueueInit, Wakeful
<1>2. PoolInv /\ IdleInv /\ [PoolNext]_vars => IdleInv'
  BY WakefulStep, AttendedStep
<1>3. IdleInv => NoIdleOperator
  BY DEF Wakeful, Attended, Coming, NoIdleOperator, NoneIdle
<1>. QED
  BY <1>1, <1>2, <1>3, Invariance, PTL DEF PoolSpec

-----------------------------------------------------------------------------
(* The refinement.                                                         *)

\* What an operator is about to answer.
ReplyKnown ==
    \A o \in Operators :
        /\ operatorPc[o] = "reply" => cdr[task[o]] \in {"Completed", "Timeout"}
        /\ operatorPc[o] = "rethrow" => Answered(task[o])

\* Every step keeps ReplyKnown: nobody else writes the CDR of a task that an
\* operator has, and an answer is final.
LEMMA ReplyStep ==
    ASSUME CallsInv, CallsInv', ReplyKnown, NEW p, CallStep(p)
    PROVE  ReplyKnown'
<1> USE DEF CallsInv, PoolTypeOK, QueueTypeOK, Serving
<1>1. \A a \in Calls : Answered(a) => Answered(a)'
  BY AnswerKept DEF Answered
<1>2. \A o \in Operators : operatorPc[o] \in Serving => task[o] \in Calls
  BY DEF TaskHeld
<1>3. CASE Quiet
  BY <1>1, <1>2, <1>3 DEF ReplyKnown, Quiet, Answered
<1>4. ASSUME NEW o \in Operators, processTask(p, o)
      PROVE  ReplyKnown'
  BY <1>4 DEF ReplyKnown, processTask, Answered
<1>5. ASSUME NEW o \in Operators, doTask(p, o)
      PROVE  ReplyKnown'
  <2>1. PICK s \in {"Completed", "Timeout"} : cdr' = [cdr EXCEPT ![task[o]] = s]
    BY <1>5 DEF doTask, writeCDR
  <2>. QED  BY <1>2, <1>5, <2>1 DEF ReplyKnown, doTask, Answered
<1>6. ASSUME NEW o \in Operators, Answers(p, o)
      PROVE  ReplyKnown'
  <2>1. /\ UNCHANGED cdr
        /\ \A w \in Operators \ {o} : operatorPc'[w] = operatorPc[w] /\ task'[w] = task[w]
        /\ operatorPc'[o] \in {"rethrow", "finish"}
        /\ operatorPc'[o] = "rethrow" => task' = task /\ Answered(task[o])'
    BY <1>2, <1>6 DEF Answers, doTaskThrows, SetExceptionAgain, Reply, set_value, Answered,
                      Exception, NoStatus
  <2>. QED  BY <1>1, <1>2, <2>1 DEF ReplyKnown
<1>7. ASSUME NEW c \in Calls, AddTaskPush(p, c)
      PROVE  ReplyKnown'
  <2>1. push(c) /\ UNCHANGED task
    BY <1>7 DEF AddTaskPush, push
  <2>2. \A w \in Operators : operatorPc'[w] \in Serving => operatorPc'[w] = operatorPc[w]
    BY <1>7, WakeFacts DEF AddTaskPush, NotifyAdded
  <2>3. ASSUME NEW w \in Operators, operatorPc'[w] = "reply"
        PROVE  cdr'[task[w]] \in {"Completed", "Timeout"}
    <3>1. task[w] \in Calls /\ promise'[task[w]] = NoStatus /\ operatorPc[w] = "reply"
      BY <1>2, <2>1, <2>2, <2>3 DEF Ownership, ServedBlocked
    <3>2. cdr'[task[w]] = cdr[task[w]]
      BY <2>1, <3>1, PushAnswers DEF NoStatus
    <3>. QED  BY <3>1, <3>2 DEF ReplyKnown
  <2>4. ASSUME NEW w \in Operators, operatorPc'[w] = "rethrow"
        PROVE  Answered(task[w])'
    BY <1>1, <1>2, <2>1, <2>2, <2>4 DEF ReplyKnown, Answered
  <2>. QED  BY <2>1, <2>3, <2>4 DEF ReplyKnown
<1>. QED
  BY <1>3, <1>4, <1>5, <1>6, <1>7 DEF CallStep

\* What a call center sees of a pool.
View == <<queue_, InService, promise, sizeOfQueue>>

TakesFirst ==
    /\ queue_ # <<>>
    /\ queue_' = Tail(queue_)
    /\ InService' = InService \cup {Head(queue_)}
    /\ UNCHANGED <<promise, sizeOfQueue>>

Ends(c) ==
    /\ c \in InService
    /\ InService' = InService \ {c}
    /\ \E s \in Outcomes : promise' = [promise EXCEPT ![c] = s]
    /\ UNCHANGED <<queue_, sizeOfQueue>>

\* A quiet step shows nothing, nor does the end of doTask.
LEMMA QuietStutters ==
    ASSUME PoolTypeOK, NEW p, Quiet \/ \E o \in Operators : doTask(p, o)
    PROVE  UNCHANGED View
<1>1. UNCHANGED <<queue_, promise, sizeOfQueue, task>>
  BY DEF Quiet, doTask
<1>2. \A o \in Operators : operatorPc'[o] \in {"exec", "reply"} <=> operatorPc[o] \in {"exec", "reply"}
  BY DEF Quiet, Serving, doTask, PoolTypeOK
<1>3. UNCHANGED InService
  BY <1>1, <1>2 DEF InService
<1>. QED
  BY <1>1, <1>3 DEF View

\* An operator that has no call leaves room for one more in service.
LEMMA FreeOperator ==
    ASSUME NEW T, IsFiniteSet(T), NEW o \in T, operatorPc[o] \notin {"exec", "reply"},
           \A w \in Operators : operatorPc[w] \in {"exec", "reply"} => w \in T
    PROVE  Cardinality(InService) < Cardinality(T)
<1> DEFINE Busy == {w \in Operators : operatorPc[w] \in {"exec", "reply"}}
           f == [w \in Busy |-> task[w]]
<1>1. /\ IsFiniteSet(T \ {o})
      /\ Cardinality(T \ {o}) = Cardinality(T) - 1
      /\ Cardinality(T) \in Nat
  BY FS_RemoveElement, FS_CardinalityType
<1>2. Busy \subseteq T \ {o}
  OBVIOUS
<1>3. IsFiniteSet(Busy) /\ Cardinality(Busy) <= Cardinality(T \ {o})
  BY <1>1, <1>2, FS_Subset
<1>4. f \in Surjection(Busy, InService)
  BY DEF InService, Surjection
<1>5. /\ Cardinality(InService) <= Cardinality(Busy)
      /\ Cardinality(InService) \in Nat /\ Cardinality(Busy) \in Nat
  BY <1>3, <1>4, FS_Surjection, FS_CardinalityType
<1>. QED
  BY <1>1, <1>3, <1>5

\* The call that an operator takes is the oldest one.
LEMMA TakeServes ==
    ASSUME CallsInv, NEW p, NEW o \in Operators, processTask(p, o)
    PROVE  TakesFirst
<1> USE DEF CallsInv, PoolTypeOK, QueueTypeOK
<1>1. /\ operatorPc[o] = "take" /\ operatorPc' = [operatorPc EXCEPT ![o] = "exec"]
      /\ task' = [task EXCEPT ![o] = queue_[1]] /\ queue_' = Tail(queue_)
      /\ UNCHANGED <<promise, sizeOfQueue>>
  BY DEF processTask, front, pop
<1>2. queue_ # <<>> /\ Head(queue_) = queue_[1]
  BY <1>1 DEF NeverPopsEmpty, empty
<1>3. InService' = InService \cup {queue_[1]}
  BY <1>1 DEF InService
<1>. QED
  BY <1>1, <1>2, <1>3 DEF TakesFirst

\* Reply ends a service, and so does an exception of doTask; the exception that
\* executeTask sets again reaches nobody.
LEMMA AnswerFinishes ==
    ASSUME CallsInv, ReplyKnown, NEW p, NEW o \in Operators, Answers(p, o)
    PROVE  (\E c \in Calls : Ends(c)) \/ UNCHANGED View
<1> USE DEF CallsInv, PoolTypeOK, QueueTypeOK
<1>1. UNCHANGED <<queue_, sizeOfQueue>>
  BY DEF Answers, doTaskThrows, SetExceptionAgain, Reply
<1>2. CASE SetExceptionAgain(p, o)
  <2>1. promise' = promise
    BY <1>2 DEF SetExceptionAgain, ReplyKnown
  <2>2. InService' = InService
    BY <1>2 DEF SetExceptionAgain, InService
  <2>. QED  BY <1>1, <2>1, <2>2 DEF View
<1>3. CASE doTaskThrows(p, o) \/ Reply(p, o)
  <2>1. task[o] \in Calls /\ operatorPc[o] \in {"exec", "reply"}
    BY <1>3 DEF doTaskThrows, Reply, TaskHeld, Serving
  <2>2. PICK s \in Outcomes : promise' = [promise EXCEPT ![task[o]] = s]
    BY <1>3 DEF doTaskThrows, Reply, ReplyKnown, Outcomes, set_value
  <2>3. /\ operatorPc'[o] \notin {"exec", "reply"}
        /\ \A w \in Operators \ {o} : operatorPc'[w] = operatorPc[w] /\ task'[w] = task[w]
    BY <1>3 DEF doTaskThrows, Reply
  <2>4. \A w \in Operators \ {o} : task[w] # task[o]
    BY <2>1, PoolAssumption DEF Ownership, TasksDistinct
  <2>5. task[o] \in InService
    BY <2>1 DEF InService
  <2>6. ASSUME NEW x
        PROVE  x \in InService' <=> x \in InService /\ x # task[o]
    <3>1. x \in InService' <=> \E w \in Operators \ {o} : operatorPc'[w] \in {"exec", "reply"} /\ x = task'[w]
      BY <2>3 DEF InService
    <3>. QED  BY <2>3, <2>4, <3>1 DEF InService
  <2>7. InService' = InService \ {task[o]}
    BY <2>6
  <2>. QED  BY <1>1, <2>1, <2>2, <2>5, <2>7 DEF Ends
<1>. QED
  BY <1>2, <1>3 DEF Answers

\* push is Reject or Join.
LEMMA PushJoins ==
    ASSUME CallsInv, DistinctNumbers, NEW p, NEW c \in Calls, AddTaskPush(p, c)
    PROVE  Center!Reject(c) \/ Center!Join(c)
<1> USE DEF CallsInv, PoolTypeOK, QueueTypeOK
<1>1. push(c) /\ UNCHANGED <<task, sizeOfQueue>>
  BY DEF AddTaskPush, push
<1>2. \A o \in Operators :
        operatorPc[o] \in {"exec", "reply"} <=> operatorPc'[o] \in {"exec", "reply"}
  BY WakeFacts DEF AddTaskPush, NotifyAdded
<1>3. InService' = InService
  BY <1>1, <1>2 DEF InService
<1>4. Center!IsNew(c)
  BY EnteringNowhere DEF AddTaskPush, InService, Center!IsNew
<1>5. CASE Len(queue_) >= sizeOfQueue /\ queue_' = queue_ /\ promise' = [promise EXCEPT ![c] = "Overloaded"]
  BY <1>1, <1>3, <1>4, <1>5 DEF Center!Reject
<1>6. CASE /\ Len(queue_) < sizeOfQueue /\ promise' = promise
           /\ queue_' = Append(queue_, c) /\ Duplicates(c) = {}
  BY <1>1, <1>3, <1>4, <1>6 DEF Center!Join, Center!SameNumber, Duplicates
<1>7. ASSUME NEW k \in Duplicates(c), Len(queue_) < sizeOfQueue,
             promise' = [promise EXCEPT ![queue_[k]] = "Duplication"],
             queue_' = Append(RemoveAt(queue_, k), c)
      PROVE  Center!Join(c)
  <2>1. k \in DOMAIN queue_ /\ Center!SameNumber(c) = {k}
    BY DEF Duplicates, DistinctNumbers, Center!SameNumber
  <2>2. Center!RemoveAt(queue_, k) = RemoveAt(queue_, k)
    BY DEF RemoveAt, Center!RemoveAt
  <2>. QED  BY <1>1, <1>3, <1>4, <1>7, <2>1, <2>2 DEF Center!Join
<1>. QED
  BY <1>1, <1>5, <1>6, <1>7, PushCases

\* Every step of a pool is one of these to the call center.
LEMMA ViewStep ==
    ASSUME CallsInv, ReplyKnown, DistinctNumbers, NEW p, CallStep(p)
    PROVE  \/ UNCHANGED View
           \/ TakesFirst /\ \E o \in Operators : processTask(p, o)
           \/ \E c \in Calls : Ends(c)
           \/ \E c \in Calls : AddTaskPush(p, c) /\ (Center!Reject(c) \/ Center!Join(c))
BY QuietStutters, TakeServes, AnswerFinishes, PushJoins DEF CallStep, CallsInv

\* With its callers and its owner, a pool of finitely many operators is a call
\* center: calls are taken in the order in which they were added, no more of
\* them than there are operators, and a call is answered once, by an operator
\* or because of the limit or of a later call from its number.
THEOREM ImplementsCallCenter ==
    ASSUME IsFiniteSet(Operators)
    PROVE  PoolSpec => ServesInOrder
<1> DEFINE Inv == ReplyKnown /\ sizeOfQueue = Limit
<1>1. PoolInit => Center!CenterInit /\ Inv
  <2> SUFFICES ASSUME PoolInit PROVE Center!CenterInit /\ Inv
    OBVIOUS
  <2>1. InService = {}
    BY DEF PoolInit, FirstPool, InService
  <2>. QED  BY <2>1 DEF PoolInit, FirstPool, QueueInit, ReplyKnown, Center!CenterInit
<1>2. ASSUME PoolInv, PoolInv', Inv, DistinctNumbers, [PoolNext]_vars
      PROVE  Inv' /\ [Center!CenterNext]_(Center!callCenterVars)
  <2>1. CallsInv /\ CallsInv' /\ PoolTypeOK
    BY <1>2 DEF PoolInv, Control, CallsInv
  <2>2. CASE attachRecorders
    <3>1. UNCHANGED <<queue_, promise, sizeOfQueue, cdr, operatorPc, task>>
      BY <2>2 DEF attachRecorders, poolVars, poolVarsButOwner
    <3>2. UNCHANGED InService
      BY <3>1 DEF InService
    <3>. QED
      BY <1>2, <3>1, <3>2 DEF ReplyKnown, Answered, Center!callCenterVars
  <2>3. CASE CallStep(Pool)
    <3>1. ReplyKnown'
      BY <1>2, <2>1, <2>3, ReplyStep
    <3>2. CASE UNCHANGED View
      BY <1>2, <3>1, <3>2 DEF View, Center!callCenterVars
    <3>3. ASSUME TakesFirst, NEW o \in Operators, processTask(Pool, o)
          PROVE  sizeOfQueue' = sizeOfQueue /\ Center!Serve
      <4>1. Cardinality(InService) < Cardinality(Operators)
        BY <3>3, FreeOperator DEF processTask
      <4>2. Center!Cardinality(InService) = Cardinality(InService)
        BY DEF Center!Cardinality, Cardinality
      <4>. QED  BY <3>3, <4>1, <4>2 DEF TakesFirst, Center!Serve
    <3>4. ASSUME NEW c \in Calls, Ends(c)
          PROVE  sizeOfQueue' = sizeOfQueue /\ Center!Finish(c)
      BY <3>4 DEF Ends, Center!Finish
    <3>5. ASSUME NEW c \in Calls, Center!Reject(c) \/ Center!Join(c)
          PROVE  sizeOfQueue' = sizeOfQueue
      BY <3>5 DEF Center!Reject, Center!Join
    <3>. QED
      BY <1>2, <2>1, <2>3, <3>1, <3>2, <3>3, <3>4, <3>5, ViewStep DEF Center!CenterNext
  <2>. QED
    BY <1>2, <2>1, <2>2, <2>3, StepKinds
<1>. QED
  BY <1>1, <1>2, Invariance, NumbersDistinct, PTL DEF PoolSpec, ServesInOrder, Center!CenterSpec
=============================================================================
