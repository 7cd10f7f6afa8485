----------------------------- MODULE TaskProofs -----------------------------
(***************************************************************************)
(* Proofs about Task, for any number of calls and of operators and any     *)
(* configurations: an operator answers every call within twice the longest *)
(* RMax, an update is held up for no longer than RMax, calls are taken in  *)
(* the order of their arrival, the records agree with the clock, and the   *)
(* whole implements CallCenter.                                            *)
(***************************************************************************)
EXTENDS Task, QueueProofs, FiniteSetTheorems

USE DEF updateVars, timeVars, replacing

-----------------------------------------------------------------------------
(* The inductive invariant.                                                *)

\* The line is in the order of arrival, and all that operators have taken
\* arrived no later.
ArrivalOrder ==
    /\ \A i, j \in DOMAIN queue_ : i <= j => startTime[queue_[i]] <= startTime[queue_[j]]
    /\ \A i \in DOMAIN queue_ : startTime[queue_[i]] <= now
    /\ \A d \in serving, i \in DOMAIN queue_ : startTime[d] <= startTime[queue_[i]]

\* An operator that is busy took its call in time, and is busy no longer than
\* the call lasts.
Sleeping ==
    \A d \in serving :
        /\ now <= operatorCallTime[d] + callDuration[d]
        /\ startTime[d] <= operatorCallTime[d] /\ operatorCallTime[d] <= now
        /\ callDuration[d] <= Longest
        /\ callDuration[d] > 0 => operatorCallTime[d] - startTime[d] < Longest

\* A status belongs to a call that is answered or in service.
Recorded ==
    /\ \A c \in Calls : cdr[c] # NoStatus => promise[c] # NoStatus \/ c \in serving
    /\ \A d \in serving : cdr[d] \in CallStatus

Taken(c) == cdr[c] \in {"Completed", "Timeout"}

\* What operators have taken arrived before what waits.
TakenFirst ==
    \A c \in Calls : Taken(c) =>
        /\ startTime[c] <= now
        /\ operatorCallTime[c] <= now
        /\ \A i \in DOMAIN queue_ : startTime[c] <= startTime[queue_[i]]

\* While an update waits for operators, all that are at work took their calls
\* before it.
Joining ==
    replacing => updateTime <= now /\ \A d \in serving : operatorCallTime[d] <= updateTime

TimeInv ==
    /\ TaskTypeOK
    /\ ArrivalOrder
    /\ Sleeping
    /\ Recorded
    /\ TakenFirst
    /\ AnsweredInTime
    /\ TakenInOrder
    /\ Joining
    /\ UpdateInTime

\* A lower bound is at most its upper bound, which is at most Longest.
LEMMA BoundsFacts ==
    \A b \in Bounds : b \in Nat \X Nat /\ b[1] <= b[2] /\ b[2] <= Longest
BY TaskAssumption DEF Bounds

-----------------------------------------------------------------------------
\* An idle server that nobody has called is in time.
LEMMA TimeInit == TaskInit => TimeInv
<1> SUFFICES ASSUME TaskInit PROVE TimeInv
  OBVIOUS
<1>1. QueueTypeOK /\ queue_ = <<>> /\ cdr = [c \in Calls |-> NoStatus]
  BY TaskAssumption DEF TaskInit, QueueInit, QueueTypeOK, settings, answers
<1>2. TaskTypeOK
  <2>1. PICK v \in Configurations : bounds = v.bounds /\ staff = v.amountOfOperators
    BY DEF TaskInit
  <2>2. bounds \in Bounds /\ staff \in Nat \ {0}
    BY <2>1, TaskAssumption DEF Bounds
  <2>3. (CHOOSE b \in Bounds : TRUE) \in Bounds
    BY <2>2
  <2>. QED  BY <1>1, <2>2, <2>3 DEF TaskInit, TaskTypeOK, Zero
<1>3. ArrivalOrder /\ Sleeping /\ AnsweredInTime
  BY <1>1 DEF TaskInit, ArrivalOrder, Sleeping, AnsweredInTime, Waits
<1>4. Recorded /\ TakenFirst /\ TakenInOrder
  BY <1>1 DEF TaskInit, Recorded, TakenFirst, Taken, TakenInOrder, NoStatus
<1>5. Joining /\ UpdateInTime
  BY DEF TaskInit, Joining, UpdateInTime
<1>. QED
  BY <1>2, <1>3, <1>4, <1>5 DEF TimeInv

\* A new call arrives after all others and has waited for no time.
LEMMA AddTaskStep ==
    ASSUME TimeInv, NEW c \in Calls, addTask(c)
    PROVE  TimeInv'
<1> USE DEF TimeInv, TaskTypeOK
<1>1. /\ New(c) /\ push(c) /\ now' = now /\ serving' = serving /\ UNCHANGED updateVars
      /\ ~replacing
      /\ startTime' = [startTime EXCEPT ![c] = now]
  BY DEF addTask
<1>2. QueueTypeOK'
  BY <1>1, PushType
<1>3. \A d \in Calls : \/ /\ operatorCallTime'[d] = operatorCallTime[d]
                          /\ callDuration'[d] = callDuration[d]
                       \/ operatorCallTime'[d] = now /\ callDuration'[d] = 0
  BY DEF addTask, processCDR
<1>4. TaskTypeOK'
  BY <1>1, <1>2 DEF addTask, processCDR
<1>5. \* Where the calls of the new line come from.
      \A j1, j2 \in DOMAIN queue_' :
         j1 <= j2 =>
           \/ queue_'[j2] = c
           \/ \E i1, i2 \in DOMAIN queue_ :
                i1 <= i2 /\ queue_'[j1] = queue_[i1] /\ queue_'[j2] = queue_[i2]
  BY <1>1, PushOrder
<1>6. /\ \A i \in DOMAIN queue_ : queue_[i] \in Calls \ {c}
      /\ \A j \in DOMAIN queue_' : queue_'[j] \in Calls /\ j \in Int
  <2> HIDE DEF TimeInv, TaskTypeOK
  <2>1. queue_ \in Seq(Calls) /\ queue_' \in Seq(Calls)
    BY <1>2 DEF QueueTypeOK, TimeInv, TaskTypeOK
  <2>2. \A s \in Seq(Calls) : \A i \in DOMAIN s : s[i] \in Calls /\ i \in Int
    OBVIOUS
  <2>3. \A i \in DOMAIN queue_ : queue_[i] # c
    BY <1>1 DEF New, Waits
  <2>. QED  BY <2>1, <2>2, <2>3
<1>7. \A j \in DOMAIN queue_' :
        queue_'[j] = c \/ \E i \in DOMAIN queue_ : queue_'[j] = queue_[i]
  BY <1>5, <1>6
<1>8. /\ startTime'[c] = now
      /\ \A d \in Calls \ {c} : startTime'[d] = startTime[d]
      /\ c \notin serving /\ promise[c] = NoStatus /\ cdr[c] = NoStatus
  BY <1>1 DEF New, Recorded
<1>9. \A d \in serving : d \in Calls \ {c} /\ startTime[d] <= now
  BY <1>8 DEF Sleeping
<1>10. ArrivalOrder'
  <2>1. ASSUME NEW i \in DOMAIN queue_', NEW j \in DOMAIN queue_', i <= j
        PROVE  startTime'[queue_'[i]] <= startTime'[queue_'[j]]
    <3>1. CASE queue_'[j] = c
      <4>1. startTime'[queue_'[i]] <= now
        BY <1>4, <1>6, <1>7, <1>8 DEF ArrivalOrder
      <4>. QED  BY <1>8, <3>1, <4>1
    <3>2. CASE queue_'[j] # c
      <4>1. PICK i1, i2 \in DOMAIN queue_ :
              i1 <= i2 /\ queue_'[i] = queue_[i1] /\ queue_'[j] = queue_[i2]
        BY <1>5, <2>1, <3>2
      <4>. QED  BY <1>6, <1>8, <4>1 DEF ArrivalOrder
    <3>. QED  BY <3>1, <3>2
  <2>2. \A i \in DOMAIN queue_' : startTime'[queue_'[i]] <= now'
    BY <1>1, <1>6, <1>7, <1>8 DEF ArrivalOrder
  <2>3. \A d \in serving', i \in DOMAIN queue_' : startTime'[d] <= startTime'[queue_'[i]]
    BY <1>1, <1>6, <1>7, <1>8, <1>9 DEF ArrivalOrder
  <2>. QED  BY <2>1, <2>2, <2>3 DEF ArrivalOrder
<1>11. Sleeping'
  <2>1. SUFFICES ASSUME NEW d \in serving
        PROVE  /\ now <= operatorCallTime'[d] + callDuration'[d]
               /\ startTime[d] <= operatorCallTime'[d] /\ operatorCallTime'[d] <= now
               /\ callDuration'[d] <= Longest
               /\ callDuration'[d] > 0 => operatorCallTime'[d] - startTime[d] < Longest
    BY <1>1, <1>8, <1>9 DEF Sleeping
  <2>2. d \in Calls
    BY <1>9
  <2>. QED  BY <1>3, <1>9, <2>2, TaskAssumption DEF Sleeping
<1>12. Recorded'
  <2>1. \A d \in Calls : \/ promise'[d] = promise[d] /\ cdr'[d] = cdr[d]
                         \/ cdr'[d] = promise'[d] /\ promise'[d] \in {"Overloaded", "Duplication"}
    BY <1>1, PushAnswers
  <2>. QED  BY <1>1, <1>9, <2>1 DEF Recorded, CallStatus, NoStatus
<1>13. \* The calls that operators have taken are not touched.
       \A d \in Calls : Taken(d)' =>
         /\ Taken(d) /\ d # c /\ startTime'[d] = startTime[d]
         /\ operatorCallTime'[d] = operatorCallTime[d]
  <2>1. SUFFICES ASSUME NEW d \in Calls, Taken(d)'
        PROVE  /\ Taken(d) /\ d # c /\ startTime'[d] = startTime[d]
               /\ operatorCallTime'[d] = operatorCallTime[d]
    OBVIOUS
  <2>2. promise'[d] = promise[d] /\ cdr'[d] = cdr[d]
    BY <1>1, <2>1, PushAnswers DEF Taken
  <2>3. Taken(d) /\ d # c
    BY <1>8, <2>1, <2>2 DEF Taken, NoStatus
  <2>4. operatorCallTime'[d] = operatorCallTime[d]
    BY <2>2 DEF addTask, processCDR
  <2>. QED  BY <1>8, <2>3, <2>4
<1>14. TakenFirst'
  BY <1>1, <1>6, <1>7, <1>8, <1>13 DEF TakenFirst
<1>15. TakenInOrder'
  BY <1>13 DEF TakenInOrder, Taken
<1>16. AnsweredInTime'
  <2>1. SUFFICES ASSUME NEW d \in Calls, Waits(d)' \/ d \in serving
        PROVE  now - startTime'[d] < 2 * Longest
    BY <1>1 DEF AnsweredInTime
  <2>2. CASE d = c
    BY <1>8, <2>2, TaskAssumption
  <2>3. CASE d # c
    <3>1. Waits(d) \/ d \in serving
      BY <1>7, <2>1, <2>3 DEF Waits
    <3>. QED  BY <1>8, <2>3, <3>1 DEF AnsweredInTime
  <2>. QED  BY <2>2, <2>3
<1>17. Joining' /\ UpdateInTime'
  BY <1>1 DEF Joining, UpdateInTime
<1>. QED
  BY <1>4, <1>10, <1>11, <1>12, <1>14, <1>15, <1>16, <1>17

\* The first call arrived no later than the others, and its operator sleeps
\* only if the call came within RMax.
LEMMA ProcessTaskStep ==
    ASSUME TimeInv, processTask
    PROVE  TimeInv'
<1> USE DEF TimeInv, TaskTypeOK
<1> DEFINE f == front
           n == Len(queue_)
<1>1. /\ n \in Nat \ {0} /\ DOMAIN queue_ = 1..n /\ f = queue_[1] /\ f \in Calls
      /\ 1 \in DOMAIN queue_
      /\ queue_' \in Seq(Calls) /\ DOMAIN queue_' = 1..(n - 1)
      /\ \A i \in DOMAIN queue_' : i + 1 \in DOMAIN queue_ /\ queue_'[i] = queue_[i + 1]
  <2>1. queue_ \in Seq(Calls) /\ queue_ # <<>> /\ queue_' = Tail(queue_)
    BY DEF processTask, empty, pop, QueueTypeOK
  <2>. QED  BY <2>1 DEF front
<1> HIDE DEF n
<1>2. /\ operatorCallTime' = [operatorCallTime EXCEPT ![f] = now]
      /\ cdr' = [cdr EXCEPT ![f] = IF InTime(f) THEN "Completed" ELSE "Timeout"]
      /\ startTime' = startTime /\ now' = now /\ promise' = promise /\ endTime' = endTime
      /\ taskBounds' = taskBounds /\ serving' = serving \cup {f} /\ ~replacing
      /\ UNCHANGED <<sizeOfQueue, recorders_, cdrFile, updateVars>>
  BY DEF processTask, setCdrValues, OperatorFree, settings
<1>3. PICK d \in IF InTime(f) THEN getDuration(f) ELSE {0} :
        callDuration' = [callDuration EXCEPT ![f] = d]
  BY DEF processTask, setCdrValues
<1> HIDE DEF f
<1>4. RMin(f) \in Nat /\ RMax(f) \in Nat /\ RMax(f) <= Longest /\ RMin(f) <= RMax(f)
  <2>1. taskBounds[f] \in Bounds
    BY <1>1
  <2>. QED  BY <2>1, BoundsFacts DEF RMin, RMax
<1>5. /\ d \in Nat /\ d <= Longest
      /\ d > 0 => now - startTime[f] < Longest
  <2>1. CASE InTime(f)
    <3>1. d \in RMin(f)..RMax(f) /\ now - startTime[f] < RMax(f)
      BY <1>3, <2>1 DEF InTime, getDuration
    <3>2. startTime[f] \in Nat /\ now \in Nat /\ Longest \in Nat
      BY <1>1, TaskAssumption
    <3>. QED  BY <1>4, <3>1, <3>2
  <2>2. CASE ~InTime(f)
    BY <1>3, <2>2, TaskAssumption
  <2>. QED  BY <2>1, <2>2
<1>6. TaskTypeOK'
  <2>1. QueueTypeOK'
    BY <1>1, <1>2 DEF QueueTypeOK, CallStatus
  <2>. QED  BY <1>1, <1>2, <1>3, <1>5, <2>1
<1>7. \A i \in DOMAIN queue_' : \E j \in DOMAIN queue_ : j = i + 1 /\ queue_'[i] = queue_[j]
  BY <1>1
<1>8. \A i \in DOMAIN queue_ : startTime[f] <= startTime[queue_[i]]
  <2>1. \A i \in DOMAIN queue_ : 1 <= i
    BY <1>1
  <2>. QED  BY <1>1, <2>1 DEF ArrivalOrder
<1>9. startTime[f] <= now /\ now - startTime[f] < 2 * Longest
  <2>1. Waits(f)
    BY <1>1 DEF Waits
  <2>. QED  BY <1>1, <2>1 DEF ArrivalOrder, AnsweredInTime
<1>10. ArrivalOrder'
  <2>1. ASSUME NEW i \in DOMAIN queue_', NEW j \in DOMAIN queue_', i <= j
        PROVE  startTime'[queue_'[i]] <= startTime'[queue_'[j]]
    <3>1. i + 1 \in DOMAIN queue_ /\ j + 1 \in DOMAIN queue_ /\ i + 1 <= j + 1
      BY <1>1, <2>1
    <3>. QED  BY <1>1, <1>2, <3>1 DEF ArrivalOrder
  <2>2. \A i \in DOMAIN queue_' : startTime'[queue_'[i]] <= now'
    BY <1>2, <1>7 DEF ArrivalOrder
  <2>3. \A e \in serving', i \in DOMAIN queue_' : startTime'[e] <= startTime'[queue_'[i]]
    BY <1>2, <1>7, <1>8 DEF ArrivalOrder
  <2>. QED  BY <2>1, <2>2, <2>3 DEF ArrivalOrder
<1>11. Sleeping'
  <2>1. ASSUME NEW e \in serving', e # f
        PROVE  /\ e \in serving /\ e \in Calls
               /\ operatorCallTime'[e] = operatorCallTime[e] /\ callDuration'[e] = callDuration[e]
    BY <1>2, <1>3, <2>1
  <2>2. operatorCallTime'[f] = now /\ callDuration'[f] = d
    BY <1>1, <1>2, <1>3
  <2>. QED  BY <1>1, <1>2, <1>5, <1>9, <2>1, <2>2 DEF Sleeping
<1>12. Recorded'
  BY <1>1, <1>2 DEF Recorded, CallStatus, QueueTypeOK
<1>13. \A c \in Calls : Taken(c)' =>
         \/ c = f /\ operatorCallTime'[c] = now
         \/ c # f /\ Taken(c) /\ operatorCallTime'[c] = operatorCallTime[c]
  BY <1>1, <1>2 DEF Taken
<1>14. TakenFirst'
  <2>1. SUFFICES ASSUME NEW c \in Calls, Taken(c)'
        PROVE  /\ startTime[c] <= now /\ operatorCallTime'[c] <= now
               /\ \A i \in DOMAIN queue_' : startTime[c] <= startTime[queue_'[i]]
    BY <1>2 DEF TakenFirst
  <2>2. CASE c = f
    BY <1>1, <1>7, <1>8, <1>9, <1>13, <2>1, <2>2
  <2>3. CASE c # f
    BY <1>7, <1>13, <2>1, <2>3 DEF TakenFirst
  <2>. QED  BY <2>2, <2>3
<1>15. TakenInOrder'
  <2>1. SUFFICES ASSUME NEW c \in Calls, NEW e \in Calls, Taken(c)', Taken(e)',
                        startTime[c] < startTime[e]
        PROVE  operatorCallTime'[c] <= operatorCallTime'[e]
    BY <1>2 DEF TakenInOrder, Taken
  <2>2. CASE e = f
    <3>1. operatorCallTime'[c] <= now
      BY <1>13, <2>1 DEF TakenFirst
    <3>. QED  BY <1>13, <2>1, <2>2, <3>1
  <2>3. CASE e # f /\ c = f
    <3>1. Taken(e) /\ 1 \in DOMAIN queue_ /\ f = queue_[1]
      BY <1>1, <1>13, <2>1, <2>3
    <3>2. startTime[e] <= startTime[f]
      BY <3>1 DEF TakenFirst
    <3>. QED  BY <1>1, <2>1, <2>3, <3>2
  <2>4. CASE e # f /\ c # f
    BY <1>13, <2>1, <2>4 DEF TakenInOrder, Taken
  <2>. QED  BY <2>2, <2>3, <2>4
<1>16. AnsweredInTime'
  <2>1. SUFFICES ASSUME NEW c \in Calls, Waits(c)' \/ c \in serving'
        PROVE  now - startTime[c] < 2 * Longest
    BY <1>2 DEF AnsweredInTime
  <2>2. c = f \/ Waits(c) \/ c \in serving
    BY <1>2, <1>7, <2>1 DEF Waits
  <2>. QED  BY <1>9, <2>2 DEF AnsweredInTime
<1>17. Joining' /\ UpdateInTime'
  BY <1>2 DEF Joining, UpdateInTime
<1>. QED
  BY <1>6, <1>10, <1>11, <1>12, <1>14, <1>15, <1>16, <1>17

\* A call that is over leaves service, and nothing else changes its place.
LEMMA ExecuteTaskStep ==
    ASSUME TimeInv, NEW c \in Calls, executeTask(c)
    PROVE  TimeInv'
<1> USE DEF TimeInv, TaskTypeOK
<1>1. /\ c \in serving /\ serving' = serving \ {c} /\ cdr[c] \in CallStatus
      /\ cdr' = cdr /\ promise' = [promise EXCEPT ![c] = cdr[c]]
      /\ UNCHANGED <<queue_, now, startTime, operatorCallTime, callDuration, updateVars>>
  <2>1. c \in serving /\ cdr[c] \in CallStatus
    BY DEF executeTask, Recorded
  <2>2. cdr' = cdr
    BY DEF executeTask, writeCDR, QueueTypeOK
  <2>. QED  BY <2>1, <2>2 DEF executeTask, set_value
<1>2. TaskTypeOK'
  <2>1. /\ cdr' \in [Calls -> CallStatus \cup {NoStatus}]
        /\ cdrFile' \in [Recorders -> [Calls -> Seq(CallStatus)]]
    BY <1>1, WriteCDRType DEF executeTask
  <2>2. QueueTypeOK'
    BY <1>1, <2>1 DEF executeTask, QueueTypeOK, settings
  <2>. QED  BY <1>1, <2>2 DEF executeTask
<1>3. ArrivalOrder' /\ Sleeping'
  BY <1>1 DEF ArrivalOrder, Sleeping
<1>4. Recorded'
  BY <1>1 DEF Recorded, QueueTypeOK, CallStatus, NoStatus
<1>5. TakenFirst' /\ TakenInOrder'
  BY <1>1 DEF TakenFirst, TakenInOrder, Taken
<1>6. AnsweredInTime'
  BY <1>1 DEF AnsweredInTime, Waits
<1>7. Joining' /\ UpdateInTime'
  BY <1>1 DEF Joining, UpdateInTime
<1>. QED
  BY <1>2, <1>3, <1>4, <1>5, <1>6, <1>7

\* Time passes only while every operator is busy or nobody waits.  A busy
\* operator took a call that arrived no later than those that wait, within
\* RMax of its arrival, and it will be free within another RMax.
LEMMA TickStep ==
    ASSUME TimeInv, Tick
    PROVE  TimeInv'
<1> USE DEF TimeInv, TaskTypeOK
<1>1. /\ now' = now + 1 /\ \A d \in serving : ~Due(d)
      /\ empty \/ ~OperatorFree
      /\ replacing => serving # {}
      /\ UNCHANGED <<queue_, sizeOfQueue, cdr, promise, recorders_, cdrFile, updateVars,
                     taskBounds, startTime, operatorCallTime, endTime, callDuration, serving>>
  BY DEF Tick, queueVars, settings, answers
<1>2. TaskTypeOK'
  BY <1>1 DEF QueueTypeOK
<1>3. \A d \in serving :
        /\ d \in Calls
        /\ now + 1 <= operatorCallTime[d] + callDuration[d]
        /\ callDuration[d] > 0 /\ callDuration[d] <= Longest
        /\ operatorCallTime[d] - startTime[d] < Longest
  BY <1>1 DEF Due, Sleeping
<1>4. ArrivalOrder' /\ Sleeping'
  <2>1. ArrivalOrder'
    BY <1>1 DEF ArrivalOrder, QueueTypeOK
  <2>2. Sleeping'
    BY <1>1, <1>3 DEF Sleeping
  <2>. QED  BY <2>1, <2>2
<1>5. Recorded' /\ TakenFirst' /\ TakenInOrder'
  BY <1>1 DEF Recorded, TakenFirst, TakenInOrder, Taken
<1>6. AnsweredInTime'
  <2>1. SUFFICES ASSUME NEW c \in Calls, Waits(c) \/ c \in serving
        PROVE  now + 1 - startTime[c] < 2 * Longest
    BY <1>1 DEF AnsweredInTime, Waits
  <2>2. CASE c \in serving
    BY <1>3, <2>2, TaskAssumption
  <2>3. CASE Waits(c)
    <3>1. PICK i \in DOMAIN queue_ : queue_[i] = c
      BY <2>3 DEF Waits
    <3>2. serving # {}
      <4>1. queue_ # <<>>
        BY <3>1
      <4>2. SUFFICES ASSUME serving = {}
            PROVE  FALSE
        OBVIOUS
      <4>3. ~(Cardinality(serving) < staff)
        BY <1>1, <4>1, <4>2 DEF empty, OperatorFree
      <4>4. Cardinality({}) < staff
        <5>1. Cardinality({}) = 0
          BY FS_EmptySet
        <5>2. staff \in Nat \ {0}
          OBVIOUS
        <5>. QED  BY <5>1, <5>2
      <4>5. Cardinality(serving) = Cardinality({})
        BY <4>2
      <4>. QED  BY <4>3, <4>4, <4>5
    <3>3. PICK d \in serving : startTime[d] <= startTime[c]
      BY <3>1, <3>2 DEF ArrivalOrder
    <3>. QED  BY <1>3, <3>3, TaskAssumption
  <2>. QED  BY <2>1, <2>2, <2>3
<1>7. Joining'
  BY <1>1 DEF Joining
<1>8. UpdateInTime'
  <2>1. SUFFICES ASSUME replacing PROVE now + 1 - updateTime <= Longest
    BY <1>1 DEF UpdateInTime
  <2>2. PICK d \in serving : operatorCallTime[d] <= updateTime
    BY <1>1, <2>1 DEF Joining
  <2>. QED  BY <1>3, <2>2, TaskAssumption
<1>. QED
  BY <1>2, <1>4, <1>5, <1>6, <1>7, <1>8

\* An update changes what new calls get, and no call.
LEMMA UpdateStep ==
    ASSUME TimeInv, NEW v \in Configurations, updateManager(v)
    PROVE  TimeInv'
<1> USE DEF TimeInv, TaskTypeOK
<1>0. /\ UNCHANGED <<queue_, cdr, promise, cdrFile, recorders_, now, taskBounds, timeVars, serving>>
      /\ bounds' \in Bounds /\ staff' = staff /\ newStaff' \in Nat \ {0} /\ sizeOfQueue' \in Nat
      /\ updateTime' \in Nat /\ (replacing' => updateTime' = now)
  BY TaskAssumption DEF updateManager, update, answers, Bounds
<1>1. TaskTypeOK'
  BY <1>0 DEF QueueTypeOK
<1>2. ArrivalOrder' /\ Sleeping' /\ AnsweredInTime'
  BY <1>0 DEF ArrivalOrder, Sleeping, AnsweredInTime, Waits
<1>3. Recorded' /\ TakenFirst' /\ TakenInOrder'
  BY <1>0 DEF Recorded, TakenFirst, TakenInOrder, Taken
<1>4. Joining' /\ UpdateInTime'
  <2>1. Joining'
    BY <1>0 DEF Joining, Sleeping
  <2>2. UpdateInTime'
    <3>1. now \in Nat /\ now - now = 0 /\ 0 <= Longest
      BY TaskAssumption
    <3>. QED  BY <1>0, <3>1 DEF UpdateInTime
  <2>. QED  BY <2>1, <2>2
<1>. QED
  BY <1>1, <1>2, <1>3, <1>4

\* The end of a replacement concerns no call.
LEMMA NewPoolStep ==
    ASSUME TimeInv, setNewThreadPool
    PROVE  TimeInv'
<1> USE DEF TimeInv, OldPoolOver, setNewThreadPool, queueVars, settings, answers
<1>1. TaskTypeOK'
  BY DEF TaskTypeOK, QueueTypeOK
<1>2. ArrivalOrder' /\ Sleeping' /\ AnsweredInTime'
  BY DEF ArrivalOrder, Sleeping, AnsweredInTime, Waits
<1>3. Recorded' /\ TakenFirst' /\ TakenInOrder' /\ Joining' /\ UpdateInTime'
  BY DEF Recorded, TakenFirst, TakenInOrder, Taken, Joining, UpdateInTime
<1>. QED
  BY <1>1, <1>2, <1>3

\* A step of something else keeps calls in time.
LEMMA TimeStutter ==
    ASSUME TimeInv, UNCHANGED taskVars
    PROVE  TimeInv'
<1> USE DEF TimeInv, taskVars, queueVars, settings, answers
<1>1. TaskTypeOK'
  BY DEF TaskTypeOK, QueueTypeOK
<1>2. ArrivalOrder' /\ Sleeping' /\ AnsweredInTime'
  BY DEF ArrivalOrder, Sleeping, AnsweredInTime, Waits
<1>3. Recorded' /\ TakenFirst' /\ TakenInOrder' /\ Joining' /\ UpdateInTime'
  BY DEF Recorded, TakenFirst, TakenInOrder, Taken, Joining, UpdateInTime
<1>. QED
  BY <1>1, <1>2, <1>3

-----------------------------------------------------------------------------
(* Theorems.                                                               *)

\* TimeInv is an inductive invariant of tasks, operators and the clock.
THEOREM TimeInvariance == TaskSpec => []TimeInv
<1>1. ASSUME TimeInv, [TaskNext]_taskVars
      PROVE  TimeInv'
  <2>1. CASE \E c \in Calls : addTask(c)
    BY <1>1, <2>1, AddTaskStep
  <2>2. CASE processTask
    BY <1>1, <2>2, ProcessTaskStep
  <2>3. CASE \E c \in Calls : executeTask(c)
    BY <1>1, <2>3, ExecuteTaskStep
  <2>4. CASE Update \/ setNewThreadPool
    BY <1>1, <2>4, UpdateStep, NewPoolStep DEF Update
  <2>5. CASE Tick
    BY <1>1, <2>5, TickStep
  <2>6. CASE UNCHANGED taskVars
    BY <1>1, <2>6, TimeStutter
  <2>. QED
    BY <1>1, <2>1, <2>2, <2>3, <2>4, <2>5, <2>6 DEF TaskNext, Operate
<1>. QED
  BY <1>1, TimeInit, PTL DEF TaskSpec

-----------------------------------------------------------------------------
(* The records.                                                            *)

\* A call waits once, is not in service while it waits, and is not answered
\* before it is over.
Places ==
    /\ \A i, j \in DOMAIN queue_ : queue_[i] = queue_[j] => i = j
    /\ \A c \in Calls : Waits(c) => c \notin serving /\ promise[c] = NoStatus
    /\ \A c \in serving : promise[c] = NoStatus /\ Taken(c)

\* The status that an operator chose agrees with the age of the call, which
\* was judged by the bounds of its arrival.
Judged ==
    \A c \in Calls : Taken(c) =>
        /\ startTime[c] <= operatorCallTime[c]
        /\ cdr[c] = "Completed" => /\ operatorCallTime[c] - startTime[c] < RMax(c)
                                   /\ callDuration[c] \in RMin(c)..RMax(c)
        /\ cdr[c] = "Timeout" => /\ operatorCallTime[c] - startTime[c] >= RMax(c)
                                 /\ callDuration[c] = 0

\* The call that replaced a duplicate is no longer new, so its times stay.
Replaced(c) ==
    \E d \in Calls \ {c} : ~New(d) /\ Number[d] = Number[c] /\ startTime[d] = endTime[c]

Answers ==
    \A c \in Calls : promise[c] # NoStatus =>
        /\ promise[c] = cdr[c]
        /\ startTime[c] <= operatorCallTime[c]
        /\ endTime[c] = operatorCallTime[c] + callDuration[c]
        /\ promise[c] = "Overloaded" => endTime[c] = startTime[c]
        /\ promise[c] = "Duplication" => callDuration[c] = 0 /\ Replaced(c)

RecordInv == Places /\ Judged /\ Answers

\* What addTask(c) does to each call.
LEMMA AddTaskFields ==
    ASSUME TimeInv, RecordInv, NEW c \in Calls, addTask(c), NEW d \in Calls
    PROVE  \/ /\ d # c /\ promise'[d] = promise[d] /\ cdr'[d] = cdr[d]
              /\ (Waits(d)' <=> Waits(d)) /\ startTime'[d] = startTime[d]
              /\ taskBounds'[d] = taskBounds[d] /\ operatorCallTime'[d] = operatorCallTime[d]
              /\ endTime'[d] = endTime[d] /\ callDuration'[d] = callDuration[d]
           \/ /\ d # c /\ promise'[d] = "Duplication" /\ cdr'[d] = "Duplication"
              /\ Waits(d) /\ ~Waits(d)' /\ startTime'[d] = startTime[d]
              /\ taskBounds'[d] = taskBounds[d]
              /\ operatorCallTime'[d] = now /\ endTime'[d] = now /\ callDuration'[d] = 0
              /\ Number[d] = Number[c] /\ Waits(c)'
           \/ /\ d = c /\ startTime'[d] = now /\ Waits(d)'
              /\ promise'[d] = NoStatus /\ cdr'[d] = NoStatus
           \/ /\ d = c /\ startTime'[d] = now /\ ~Waits(d)'
              /\ promise'[d] = "Overloaded" /\ cdr'[d] = "Overloaded"
              /\ operatorCallTime'[d] = now /\ endTime'[d] = now /\ callDuration'[d] = 0
<1>1. /\ QueueTypeOK /\ startTime \in [Calls -> Nat] /\ taskBounds \in [Calls -> Bounds]
      /\ push(c) /\ New(c) /\ ~InQueue(c) /\ promise[c] = NoStatus /\ cdr[c] = NoStatus
      /\ \A i, j \in DOMAIN queue_ : queue_[i] = queue_[j] => i = j
  BY DEF addTask, New, Waits, InQueue, TimeInv, TaskTypeOK, Recorded, RecordInv, Places
<1>2. \/ d # c /\ (InQueue(d)' <=> InQueue(d)) /\ promise'[d] = promise[d]
      \/ /\ d # c /\ InQueue(d) /\ ~InQueue(d)' /\ promise'[d] = "Duplication"
         /\ Number[d] = Number[c] /\ InQueue(c)'
      \/ d = c /\ InQueue(d)' /\ promise'[d] = promise[d]
      \/ d = c /\ ~InQueue(d)' /\ promise'[d] = "Overloaded"
  BY <1>1, PushPlaces
<1>3. \/ promise'[d] = promise[d] /\ cdr'[d] = cdr[d]
      \/ cdr'[d] = promise'[d] /\ promise'[d] \in {"Overloaded", "Duplication"}
  BY <1>1, PushAnswers
<1>4. promise[d] # NoStatus => promise[d] = cdr[d]
  BY DEF RecordInv, Answers
<1>5. InQueue(d) => promise[d] = NoStatus
  BY DEF RecordInv, Places, InQueue, Waits
<1>6. /\ Waits(d)' = InQueue(d)' /\ Waits(d) = InQueue(d) /\ Waits(c)' = InQueue(c)'
  BY DEF Waits, InQueue
<1>7. /\ operatorCallTime'[d] = IF promise'[d] # promise[d] THEN now ELSE operatorCallTime[d]
      /\ endTime'[d] = IF promise'[d] # promise[d] THEN now ELSE endTime[d]
      /\ callDuration'[d] = IF promise'[d] # promise[d] THEN 0 ELSE callDuration[d]
  BY DEF addTask, processCDR
<1>8. /\ startTime'[c] = now
      /\ d # c => startTime'[d] = startTime[d] /\ taskBounds'[d] = taskBounds[d]
  BY <1>1 DEF addTask
<1> HIDE DEF InQueue
<1>9. CASE d # c /\ (InQueue(d)' <=> InQueue(d)) /\ promise'[d] = promise[d]
  <2>1. cdr'[d] = cdr[d]
    BY <1>3, <1>4, <1>9 DEF NoStatus
  <2>. QED  BY <1>6, <1>7, <1>8, <1>9, <2>1
<1>10. CASE /\ d # c /\ InQueue(d) /\ ~InQueue(d)' /\ promise'[d] = "Duplication"
            /\ Number[d] = Number[c] /\ InQueue(c)'
  BY <1>3, <1>5, <1>6, <1>7, <1>8, <1>10 DEF NoStatus
<1>11. CASE d = c /\ InQueue(d)' /\ promise'[d] = promise[d]
  BY <1>1, <1>3, <1>6, <1>8, <1>11 DEF NoStatus
<1>12. CASE d = c /\ ~InQueue(d)' /\ promise'[d] = "Overloaded"
  BY <1>1, <1>3, <1>6, <1>7, <1>8, <1>12 DEF NoStatus
<1>. QED
  BY <1>2, <1>9, <1>10, <1>11, <1>12

\* add_task and push keep records truthful: a refused call ends when it came, a
\* replaced one without a duration.
LEMMA AddTaskRecords ==
    ASSUME TimeInv, RecordInv, NEW c \in Calls, addTask(c)
    PROVE  RecordInv'
<1>1. /\ New(c) /\ c \notin serving /\ serving' = serving /\ now \in Nat
      /\ QueueTypeOK /\ push(c) /\ ~InQueue(c) /\ serving \subseteq Calls
      /\ operatorCallTime \in [Calls -> Nat] /\ callDuration \in [Calls -> Nat]
  BY DEF addTask, New, TimeInv, TaskTypeOK, InQueue, Waits
<1>2. \A d \in Calls : ~New(d) \/ d = c => ~New(d)'
  BY <1>1, AddTaskFields DEF New, NoStatus
<1>3. Places'
  <2>1. \A i, j \in DOMAIN queue_' : queue_'[i] = queue_'[j] => i = j
    BY <1>1, PushPlaces DEF RecordInv, Places
  <2>2. \A d \in Calls : Waits(d)' => d \notin serving /\ promise'[d] = NoStatus
    BY <1>1, AddTaskFields DEF RecordInv, Places
  <2>3. \A d \in serving : promise'[d] = NoStatus /\ Taken(d)'
    BY <1>1, AddTaskFields DEF RecordInv, Places, Taken
  <2>. QED  BY <1>1, <2>1, <2>2, <2>3 DEF Places
<1>4. Judged'
  <2>1. SUFFICES ASSUME NEW d \in Calls, Taken(d)'
        PROVE  /\ Taken(d) /\ cdr'[d] = cdr[d] /\ startTime'[d] = startTime[d]
               /\ taskBounds'[d] = taskBounds[d] /\ operatorCallTime'[d] = operatorCallTime[d]
               /\ callDuration'[d] = callDuration[d]
    BY DEF RecordInv, Judged, Taken, RMin, RMax
  <2>2. cdr'[d] \in {"Completed", "Timeout"}
    BY <2>1 DEF Taken
  <2>. QED  BY <2>2, AddTaskFields DEF Taken, NoStatus
<1>5. Answers'
  <2>1. SUFFICES ASSUME NEW d \in Calls, promise'[d] # NoStatus
        PROVE  /\ promise'[d] = cdr'[d]
               /\ startTime'[d] <= operatorCallTime'[d]
               /\ endTime'[d] = operatorCallTime'[d] + callDuration'[d]
               /\ promise'[d] = "Overloaded" => endTime'[d] = startTime'[d]
               /\ promise'[d] = "Duplication" => callDuration'[d] = 0 /\ Replaced(d)'
    BY DEF Answers
  <2>2. CASE /\ d # c /\ promise'[d] = promise[d] /\ cdr'[d] = cdr[d]
             /\ startTime'[d] = startTime[d]
             /\ operatorCallTime'[d] = operatorCallTime[d]
             /\ endTime'[d] = endTime[d] /\ callDuration'[d] = callDuration[d]
    <3>1. ASSUME Replaced(d) PROVE Replaced(d)'
      <4>1. PICK e \in Calls \ {d} : ~New(e) /\ Number[e] = Number[d] /\ startTime[e] = endTime[d]
        BY <3>1 DEF Replaced
      <4>2. e # c /\ ~New(e)'
        BY <1>1, <1>2, <4>1
      <4>3. startTime'[e] = startTime[e]
        BY <4>2, AddTaskFields
      <4>. QED  BY <2>2, <4>1, <4>2, <4>3 DEF Replaced
    <3>. QED  BY <2>1, <2>2, <3>1 DEF RecordInv, Answers
  <2>3. CASE /\ d # c /\ promise'[d] = "Duplication" /\ cdr'[d] = "Duplication"
             /\ Waits(d) /\ startTime'[d] = startTime[d]
             /\ operatorCallTime'[d] = now /\ endTime'[d] = now /\ callDuration'[d] = 0
             /\ Number[d] = Number[c]
    <3>1. startTime[d] <= now
      BY <2>3 DEF TimeInv, ArrivalOrder, Waits
    <3>2. startTime'[c] = now /\ ~New(c)'
      BY <1>2, AddTaskFields
    <3>3. Replaced(d)'
      BY <2>3, <3>2 DEF Replaced
    <3>. QED  BY <1>1, <2>3, <3>1, <3>3
  <2>4. CASE /\ d = c /\ startTime'[d] = now /\ promise'[d] = "Overloaded" /\ cdr'[d] = "Overloaded"
             /\ operatorCallTime'[d] = now /\ endTime'[d] = now /\ callDuration'[d] = 0
    BY <1>1, <2>4
  <2>. QED  BY <2>1, <2>2, <2>3, <2>4, AddTaskFields
<1>. QED
  BY <1>3, <1>4, <1>5 DEF RecordInv

\* The call that an operator takes has not been answered, and nobody else has
\* it.
LEMMA ProcessTaskRecords ==
    ASSUME TimeInv, RecordInv, processTask
    PROVE  RecordInv'
<1>0. PICK f \in Calls : f = front
  BY DEF processTask, empty, front, QueueTypeOK, TimeInv, TaskTypeOK
<1>1. /\ queue_ \in Seq(Calls) /\ queue_ # <<>> /\ 1 \in DOMAIN queue_ /\ f = queue_[1]
      /\ f \in Calls /\ Waits(f) /\ now \in Nat /\ serving \subseteq Calls
      /\ queue_' \in Seq(Calls)
      /\ \A i \in DOMAIN queue_' : i + 1 \in DOMAIN queue_ /\ i + 1 # 1 /\ queue_'[i] = queue_[i + 1]
  <2>1. queue_ \in Seq(Calls) /\ queue_ # <<>> /\ queue_' = Tail(queue_)
    BY DEF processTask, empty, pop, QueueTypeOK, TimeInv, TaskTypeOK
  <2>2. 1 \in DOMAIN queue_ /\ f = queue_[1]
    BY <1>0, <2>1 DEF front
  <2>3. /\ f \in Calls /\ queue_' \in Seq(Calls)
        /\ \A i \in DOMAIN queue_' :
             i + 1 \in DOMAIN queue_ /\ i + 1 # 1 /\ queue_'[i] = queue_[i + 1]
    BY <2>1, <2>2
  <2>4. now \in Nat /\ serving \subseteq Calls
    BY DEF TimeInv, TaskTypeOK
  <2>. QED  BY <2>1, <2>2, <2>3, <2>4 DEF Waits
<1>2. /\ promise' = promise /\ startTime' = startTime /\ endTime' = endTime /\ now' = now
      /\ taskBounds' = taskBounds /\ serving' = serving \cup {f}
      /\ operatorCallTime' = [operatorCallTime EXCEPT ![f] = now]
      /\ cdr' = [cdr EXCEPT ![f] = IF InTime(f) THEN "Completed" ELSE "Timeout"]
      /\ \E d \in IF InTime(f) THEN getDuration(f) ELSE {0} :
           callDuration' = [callDuration EXCEPT ![f] = d]
  BY <1>0 DEF processTask, setCdrValues
<1>3. /\ cdr \in [Calls -> CallStatus \cup {NoStatus}] /\ operatorCallTime \in [Calls -> Nat]
      /\ callDuration \in [Calls -> Nat] /\ startTime \in [Calls -> Nat]
  BY DEF TimeInv, TaskTypeOK, QueueTypeOK
<1>4. f \notin serving /\ promise[f] = NoStatus
  BY <1>1 DEF RecordInv, Places
<1>5. startTime[f] <= now
  BY <1>1 DEF TimeInv, ArrivalOrder
<1>6. \A d \in Calls \ {f} :
        /\ cdr'[d] = cdr[d] /\ operatorCallTime'[d] = operatorCallTime[d]
        /\ callDuration'[d] = callDuration[d]
  BY <1>2, <1>3
<1>7. \A d \in Calls : Waits(d)' => Waits(d) /\ d # f
  BY <1>1 DEF Waits, RecordInv, Places
<1>8. Places'
  <2>1. \A i, j \in DOMAIN queue_' : queue_'[i] = queue_'[j] => i = j
    <3>1. SUFFICES ASSUME NEW i \in DOMAIN queue_', NEW j \in DOMAIN queue_', queue_'[i] = queue_'[j]
          PROVE  i = j
      OBVIOUS
    <3>2. i + 1 = j + 1 /\ i \in Int /\ j \in Int
      BY <1>1, <3>1 DEF RecordInv, Places
    <3>. QED  BY <3>2
  <2>2. \A d \in serving' : Taken(d)'
    BY <1>1, <1>2, <1>3, <1>6 DEF RecordInv, Places, Taken
  <2>. QED  BY <1>1, <1>2, <1>4, <1>7, <2>1, <2>2 DEF RecordInv, Places
<1>9. Judged'
  <2>1. \A d \in Calls \ {f} : Taken(d)' => Taken(d)
    BY <1>6 DEF Taken
  <2>2. PICK u \in IF InTime(f) THEN getDuration(f) ELSE {0} : callDuration'[f] = u
    BY <1>1, <1>2, <1>3
  <2>3. operatorCallTime'[f] = now /\ cdr'[f] = (IF InTime(f) THEN "Completed" ELSE "Timeout")
    BY <1>1, <1>2, <1>3
  <2>4. RMin(f)' = RMin(f) /\ RMax(f)' = RMax(f) /\ RMax(f) \in Int /\ startTime'[f] = startTime[f]
    <3>1. taskBounds[f] \in Bounds
      BY <1>1 DEF TimeInv, TaskTypeOK
    <3>2. RMax(f) \in Int
      BY <3>1, BoundsFacts DEF RMax
    <3>. QED  BY <1>2, <3>2 DEF RMin, RMax
  <2>5. /\ startTime'[f] <= operatorCallTime'[f]
        /\ cdr'[f] = "Completed" => /\ operatorCallTime'[f] - startTime'[f] < RMax(f)'
                                    /\ callDuration'[f] \in RMin(f)'..RMax(f)'
        /\ cdr'[f] = "Timeout" => /\ operatorCallTime'[f] - startTime'[f] >= RMax(f)'
                                  /\ callDuration'[f] = 0
    BY <1>1, <1>3, <1>5, <2>2, <2>3, <2>4 DEF InTime, getDuration
  <2>6. ASSUME NEW d \in Calls, d # f, Taken(d)'
        PROVE  /\ startTime'[d] <= operatorCallTime'[d]
               /\ cdr'[d] = "Completed" => /\ operatorCallTime'[d] - startTime'[d] < RMax(d)'
                                           /\ callDuration'[d] \in RMin(d)'..RMax(d)'
               /\ cdr'[d] = "Timeout" => /\ operatorCallTime'[d] - startTime'[d] >= RMax(d)'
                                         /\ callDuration'[d] = 0
    BY <1>2, <1>6, <2>1, <2>6 DEF RecordInv, Judged, RMin, RMax
  <2>7. \A d \in Calls : d = f \/ d # f
    OBVIOUS
  <2>. QED  BY <2>5, <2>6, <2>7 DEF Judged
<1>10. \A d \in Calls : ~New(d) => ~New(d)'
  <2>1. \A d \in Calls : Waits(d) => d = f \/ Waits(d)'
    <3>1. \A i \in DOMAIN queue_ : i = 1 \/ (i - 1 \in DOMAIN queue_' /\ queue_'[i - 1] = queue_[i])
      BY <1>1 DEF processTask, pop
    <3>. QED  BY <1>1, <3>1 DEF Waits
  <2>. QED  BY <1>2, <2>1 DEF New
<1>11. Answers'
  <2>1. \A d \in Calls : Replaced(d) => Replaced(d)'
    BY <1>2, <1>10 DEF Replaced
  <2>. QED  BY <1>2, <1>4, <1>6, <2>1 DEF RecordInv, Answers
<1>. QED
  BY <1>8, <1>9, <1>11 DEF RecordInv

\* A call that is over ends when its duration has passed, not later.
LEMMA ExecuteTaskRecords ==
    ASSUME TimeInv, RecordInv, NEW c \in Calls, executeTask(c)
    PROVE  RecordInv'
<1>1. /\ c \in serving /\ serving' = serving \ {c} /\ cdr[c] \in CallStatus
      /\ cdr' = cdr /\ promise' = [promise EXCEPT ![c] = cdr[c]]
      /\ endTime' = [endTime EXCEPT ![c] = now] /\ Due(c)
      /\ UNCHANGED <<queue_, now, taskBounds, startTime, operatorCallTime, callDuration>>
  <2>1. c \in serving /\ cdr[c] \in CallStatus
    BY DEF executeTask, TimeInv, Recorded
  <2>2. cdr' = cdr
    BY DEF executeTask, writeCDR, TimeInv, TaskTypeOK, QueueTypeOK
  <2>. QED  BY <2>1, <2>2 DEF executeTask, set_value
<1>2. /\ promise \in [Calls -> CallStatus \cup {NoStatus, Exception}] /\ endTime \in [Calls -> Nat]
      /\ now \in Nat /\ operatorCallTime \in [Calls -> Nat] /\ callDuration \in [Calls -> Nat]
  BY DEF TimeInv, TaskTypeOK, QueueTypeOK
<1>3. now = operatorCallTime[c] + callDuration[c] /\ startTime[c] <= operatorCallTime[c]
  BY <1>1, <1>2 DEF Due, TimeInv, Sleeping
<1>4. promise'[c] = cdr[c] /\ endTime'[c] = now /\ promise[c] = NoStatus /\ ~Waits(c)
  BY <1>1, <1>2 DEF RecordInv, Places
<1>5. \A d \in Calls \ {c} : promise'[d] = promise[d] /\ endTime'[d] = endTime[d]
  BY <1>1, <1>2
<1>6. Places'
  BY <1>1, <1>4, <1>5 DEF RecordInv, Places, Waits, Taken
<1>7. Judged'
  BY <1>1 DEF RecordInv, Judged, Taken, RMin, RMax
<1>8. \A d \in Calls : ~New(d) => ~New(d)'
  <2>1. cdr[c] # NoStatus
    BY <1>1 DEF CallStatus, NoStatus
  <2>. QED  BY <1>1, <1>4, <1>5, <2>1 DEF New, Waits
<1>9. cdr[c] \in {"Completed", "Timeout"}
  BY <1>1 DEF RecordInv, Places, Taken
<1>10. Answers'
  <2>1. \A d \in Calls \ {c} : Replaced(d) => Replaced(d)'
    BY <1>1, <1>5, <1>8 DEF Replaced
  <2>. QED  BY <1>1, <1>3, <1>4, <1>5, <1>9, <2>1 DEF RecordInv, Answers
<1>. QED
  BY <1>6, <1>7, <1>10 DEF RecordInv

\* Time and updates change no record.
LEMMA RecordStutter ==
    ASSUME RecordInv,
           UNCHANGED <<queue_, cdr, promise, taskBounds, timeVars, serving>>
    PROVE  RecordInv'
<1>1. Places' /\ Judged'
  BY DEF RecordInv, Places, Judged, Waits, Taken, RMin, RMax
<1>2. Answers'
  BY DEF RecordInv, Answers, Replaced, New, Waits
<1>. QED
  BY <1>1, <1>2 DEF RecordInv

\* Every step of calls in time keeps their records truthful.
LEMMA RecordStep ==
    ASSUME TimeInv, RecordInv, [TaskNext]_taskVars
    PROVE  RecordInv'
<1>1. CASE \E c \in Calls : addTask(c)
  BY <1>1, AddTaskRecords
<1>2. CASE processTask
  BY <1>2, ProcessTaskRecords
<1>3. CASE \E c \in Calls : executeTask(c)
  BY <1>3, ExecuteTaskRecords
<1>4. CASE Update \/ setNewThreadPool \/ Tick \/ UNCHANGED taskVars
  <2>1. UNCHANGED <<queue_, cdr, promise, taskBounds, timeVars, serving>>
    BY <1>4 DEF Update, updateManager, setNewThreadPool, Tick, taskVars, queueVars, answers
  <2>. QED  BY <2>1, RecordStutter
<1>. QED
  BY <1>1, <1>2, <1>3, <1>4 DEF TaskNext, Operate

\* The records agree with the clock, for any updates of the bounds while calls
\* wait.
THEOREM RecordInvariance == TaskSpec => []RecordInv
<1>1. TaskInit => RecordInv
  <2> SUFFICES ASSUME TaskInit PROVE RecordInv
    OBVIOUS
  <2>1. queue_ = <<>> /\ cdr = [c \in Calls |-> NoStatus] /\ promise = [c \in Calls |-> NoStatus]
        /\ serving = {}
    BY DEF TaskInit, QueueInit
  <2>. QED
    BY <2>1 DEF RecordInv, Places, Judged, Answers, Taken, Waits, NoStatus
<1>2. TimeInv /\ RecordInv /\ [TaskNext]_taskVars => RecordInv'
  BY RecordStep
<1>. QED
  BY <1>1, <1>2, TimeInvariance, PTL DEF TaskSpec

\* RecordInv is strong enough for RecordTimes.
LEMMA RecordsTimed ==
    ASSUME TimeInv, RecordInv
    PROVE  RecordTimes
<1> SUFFICES ASSUME NEW c \in Calls, promise[c] # NoStatus
             PROVE  /\ 0 <= operatorCallTime[c] - startTime[c]
                    /\ endTime[c] = operatorCallTime[c] + callDuration[c]
                    /\ promise[c] = "Completed" =>
                         /\ operatorCallTime[c] - startTime[c] < RMax(c)
                         /\ callDuration[c] \in RMin(c)..RMax(c)
                    /\ promise[c] = "Timeout" =>
                         operatorCallTime[c] - startTime[c] >= RMax(c) /\ callDuration[c] = 0
                    /\ promise[c] = "Overloaded" => endTime[c] = startTime[c]
                    /\ promise[c] = "Duplication" =>
                         \E d \in Calls \ {c} :
                           Number[d] = Number[c] /\ startTime[d] = endTime[c] /\ callDuration[c] = 0
  BY DEF RecordTimes
<1>1. startTime[c] \in Nat /\ operatorCallTime[c] \in Nat
  BY DEF TimeInv, TaskTypeOK
<1>2. startTime[c] <= operatorCallTime[c] /\ promise[c] = cdr[c]
  BY DEF RecordInv, Answers
<1>3. 0 <= operatorCallTime[c] - startTime[c]
  BY <1>1, <1>2
<1>4. promise[c] \in {"Completed", "Timeout"} => Taken(c)
  BY <1>2 DEF Taken
<1>. QED
  BY <1>2, <1>3, <1>4 DEF RecordInv, Answers, Judged, Replaced

-----------------------------------------------------------------------------
(* The call center.                                                        *)

\* What the refinement needs besides: an update has the amount of operators
\* from a configuration, and each number waits once.
Staffed == newStaff \in {v.amountOfOperators : v \in Configurations}
CenterInv == DistinctNumbers /\ Staffed

\* push is Reject or Join.
LEMMA AddTaskJoins ==
    ASSUME TimeInv, DistinctNumbers, NEW c \in Calls, addTask(c)
    PROVE  Center!Reject(c) \/ Center!Join(c)
<1>1. QueueTypeOK /\ push(c) /\ UNCHANGED <<sizeOfQueue, serving, staff>>
  BY DEF TimeInv, TaskTypeOK, addTask, push, settings
<1>2. Center!IsNew(c)
  BY DEF addTask, New, Waits, Center!IsNew
<1>3. CASE Len(queue_) >= sizeOfQueue /\ queue_' = queue_ /\ promise' = [promise EXCEPT ![c] = "Overloaded"]
  BY <1>1, <1>2, <1>3 DEF Center!Reject
<1>4. CASE /\ Len(queue_) < sizeOfQueue /\ promise' = promise
           /\ queue_' = Append(queue_, c) /\ Duplicates(c) = {}
  BY <1>1, <1>2, <1>4 DEF Center!Join, Center!SameNumber, Duplicates
<1>5. ASSUME NEW k \in Duplicates(c), Len(queue_) < sizeOfQueue,
             promise' = [promise EXCEPT ![queue_[k]] = "Duplication"],
             queue_' = Append(RemoveAt(queue_, k), c)
      PROVE  Center!Join(c)
  <2>1. k \in DOMAIN queue_ /\ Center!SameNumber(c) = {k}
    BY DEF Duplicates, DistinctNumbers, Center!SameNumber
  <2>2. Center!RemoveAt(queue_, k) = RemoveAt(queue_, k)
    BY DEF RemoveAt, Center!RemoveAt
  <2>. QED  BY <1>1, <1>2, <1>5, <2>1, <2>2 DEF Center!Join
<1>. QED
  BY <1>1, <1>3, <1>4, <1>5, PushCases

\* The operator that takes the first call serves it.
LEMMA ProcessTaskServes ==
    ASSUME TimeInv, processTask
    PROVE  Center!Serve
<1>1. /\ queue_ \in Seq(Calls) /\ queue_ # <<>> /\ queue_' = Tail(queue_)
      /\ serving' = serving \cup {queue_[1]} /\ Cardinality(serving) < staff
      /\ UNCHANGED <<promise, sizeOfQueue, staff>>
  BY DEF TimeInv, TaskTypeOK, QueueTypeOK, processTask, empty, pop, front, OperatorFree, settings
<1>2. Head(queue_) = queue_[1]
  BY <1>1
<1>3. Center!Cardinality(serving) = Cardinality(serving)
  BY DEF Center!Cardinality, Cardinality
<1>. QED
  BY <1>1, <1>2, <1>3 DEF Center!Serve

\* A call that is over has been served, or was too old.
LEMMA ExecuteTaskFinishes ==
    ASSUME RecordInv, NEW c \in Calls, executeTask(c)
    PROVE  Center!Finish(c)
<1>1. c \in serving /\ cdr[c] \in {"Completed", "Timeout"}
  BY DEF executeTask, RecordInv, Places, Taken
<1>2. promise' = [promise EXCEPT ![c] = cdr[c]]
  BY DEF executeTask, set_value
<1>. QED
  BY <1>1, <1>2 DEF executeTask, settings, Center!Finish

\* The line keeps its numbers distinct.
LEMMA LineStep ==
    ASSUME TimeInv, CenterInv, [TaskNext]_taskVars
    PROVE  CenterInv'
<1> USE DEF CenterInv
<1>1. CASE \E c \in Calls : addTask(c)
  <2>1. PICK c \in Calls : push(c) /\ UNCHANGED newStaff
    BY <1>1 DEF addTask
  <2>. QED  BY <2>1, PushNumbers DEF TimeInv, TaskTypeOK, Staffed
<1>2. CASE processTask
  <2>1. queue_ \in Seq(Calls) /\ queue_ # <<>> /\ queue_' = Tail(queue_) /\ newStaff' = newStaff
    BY <1>2 DEF TimeInv, TaskTypeOK, QueueTypeOK, processTask, empty, pop
  <2>2. \A i \in DOMAIN queue_' :
          i \in Int /\ i + 1 \in DOMAIN queue_ /\ queue_'[i] = queue_[i + 1]
    BY <2>1
  <2>3. \A i, j \in DOMAIN queue_' : i + 1 = j + 1 => i = j
    BY <2>2
  <2>. QED  BY <2>1, <2>2, <2>3 DEF DistinctNumbers, Staffed
<1>3. CASE \E v \in Configurations : updateManager(v)
  BY <1>3 DEF updateManager, DistinctNumbers, Staffed
<1>4. CASE UNCHANGED <<queue_, newStaff>>
  BY <1>4 DEF DistinctNumbers, Staffed
<1>5. CASE (\E c \in Calls : executeTask(c)) \/ setNewThreadPool \/ Tick \/ UNCHANGED taskVars
  BY <1>4, <1>5 DEF executeTask, setNewThreadPool, Tick, taskVars, queueVars
<1>. QED
  BY <1>1, <1>2, <1>3, <1>5 DEF TaskNext, Operate, Update

\* Every step of a call, of the operators, of an update and of the clock is a
\* step of the call center, or none.
LEMMA CenterStep ==
    ASSUME TimeInv, RecordInv, CenterInv, [TaskNext]_taskVars
    PROVE  [Center!CenterNext]_(Center!callCenterVars)
<1>1. ASSUME NEW c \in Calls, addTask(c)
      PROVE  Center!CenterNext
  BY <1>1, AddTaskJoins DEF CenterInv, Center!CenterNext
<1>2. CASE processTask
  BY <1>2, ProcessTaskServes DEF Center!CenterNext
<1>3. ASSUME NEW c \in Calls, executeTask(c)
      PROVE  Center!CenterNext
  BY <1>3, ExecuteTaskFinishes DEF Center!CenterNext
<1>4. CASE Update
  <2>1. Center!Resize
    BY <1>4 DEF Update, updateManager, update, answers, Center!Resize
  <2>. QED  BY <2>1 DEF Center!CenterNext
<1>5. CASE setNewThreadPool
  <2>1. Center!Restaff
    BY <1>5 DEF setNewThreadPool, OldPoolOver, CenterInv, Staffed, queueVars, settings, answers,
       Center!Restaff
  <2>. QED  BY <2>1 DEF Center!CenterNext
<1>6. CASE Tick \/ UNCHANGED taskVars
  BY <1>6 DEF Tick, taskVars, queueVars, settings, answers, Center!callCenterVars
<1>. QED
  BY <1>1, <1>2, <1>3, <1>4, <1>5, <1>6 DEF TaskNext, Operate

\* Calls in time implement the call center: whatever the clock says, calls are
\* taken from the front of the line by a staff that changes only while nobody
\* is served.
THEOREM TaskImplementsCenter == TaskSpec => TimedServesInOrder
<1>1. TaskInit => Center!CenterInit /\ CenterInv
  BY DEF TaskInit, QueueInit, Center!CenterInit, CenterInv, Staffed, DistinctNumbers
<1>2. TimeInv /\ CenterInv /\ [TaskNext]_taskVars => CenterInv'
  BY LineStep
<1>3. TimeInv /\ RecordInv /\ CenterInv /\ [TaskNext]_taskVars
      => [Center!CenterNext]_(Center!callCenterVars)
  BY CenterStep
<1>. QED
  BY <1>1, <1>2, <1>3, TimeInvariance, RecordInvariance, PTL
     DEF TaskSpec, TimedServesInOrder, Center!CenterSpec
=============================================================================
