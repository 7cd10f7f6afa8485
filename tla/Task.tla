-------------------------------- MODULE Task --------------------------------
(***************************************************************************)
(* Calls in time (src/src/task.cpp): a call keeps the bounds RMin..RMax    *)
(* that were in force when it came; an operator that takes it within RMax  *)
(* of its arrival lets it last for a time drawn from the bounds, and an    *)
(* operator that takes it later dismisses it at once.                      *)
(*                                                                         *)
(* ThreadPool has the threads and no clock.  Here the clock is what        *)
(* matters, and a thread that can run takes no time: Tick waits for it.    *)
(* So an operator always notices a call that it may take (in the code it   *)
(* may sleep through start(): Manager), and of an update that replaces the *)
(* pool only the wait for the operators in service is left.                *)
(* The unit of the clock is a second, and the code truncates ages to       *)
(* seconds, which changes no comparison with a whole number of them.       *)
(***************************************************************************)
EXTENDS Queue, FiniteSets

CONSTANTS
    Configurations, \* what the configuration may hold, the two bounds as a pair
    Longest,    \* the largest RMax among them
    MaxTime     \* the clock goes on after MaxTime only while calls are served

ASSUME TaskAssumption ==
    /\ Longest \in Nat \ {0}
    /\ Configurations \subseteq
         [bounds : {b \in Nat \X Nat : b[1] <= b[2] /\ b[2] <= Longest},
          sizeOfQueue : Nat, amountOfOperators : Nat \ {0}]
    /\ MaxTime \in Nat

VARIABLES
    now,                \* system_clock::now()
    bounds,             \* Manager::RMin_ and RMax_
    taskBounds,         \* taskBounds[c]: Task::RMin_ and RMax_ of call c
    startTime, operatorCallTime, endTime, callDuration,  \* fields of the CDR of each call
    serving,            \* the calls that operators have taken
    staff,              \* the number of operators of the pool that serves
    newStaff,           \* that of the pool which an update has built, if any, or staff
    updateTime          \* since when an update waits for the operators of the old pool

Bounds == {v.bounds : v \in Configurations}

timeVars == <<startTime, operatorCallTime, endTime, callDuration>>
updateVars == <<bounds, staff, newStaff, updateTime>>
taskVars == <<queueVars, now, taskBounds, timeVars, serving, updateVars>>

TaskTypeOK ==
    /\ QueueTypeOK
    /\ now \in Nat
    /\ bounds \in Bounds
    /\ taskBounds \in [Calls -> Bounds]
    /\ startTime \in [Calls -> Nat]
    /\ operatorCallTime \in [Calls -> Nat]
    /\ endTime \in [Calls -> Nat]
    /\ callDuration \in [Calls -> Nat]
    /\ serving \subseteq Calls
    /\ staff \in Nat \ {0}
    /\ newStaff \in Nat \ {0}
    /\ updateTime \in Nat

Zero == [c \in Calls |-> 0]

TaskInit ==
    /\ \E v \in Configurations :
         QueueInit(v.sizeOfQueue) /\ bounds = v.bounds /\ staff = v.amountOfOperators
    /\ now = 0
    /\ taskBounds = [c \in Calls |-> CHOOSE b \in Bounds : TRUE]  \* until there is a task
    /\ startTime = Zero /\ operatorCallTime = Zero /\ endTime = Zero /\ callDuration = Zero
    /\ newStaff = staff
    /\ serving = {}
    /\ updateTime = 0

-----------------------------------------------------------------------------
RMin(c) == taskBounds[c][1]
RMax(c) == taskBounds[c][2]

Waits(c) == \E i \in DOMAIN queue_ : queue_[i] = c

\* setNewThreadPool waits for the operators of the old pool.
replacing == newStaff # staff

\* Not yet a task.
New(c) == promise[c] = NoStatus /\ ~Waits(c) /\ c \notin serving

\* The calls that the queue answers in this step get these times.
processCDR ==
    LET Stamp(field, t) ==
          [c \in Calls |-> IF promise'[c] # promise[c] THEN t ELSE field[c]]
    IN  /\ operatorCallTime' = Stamp(operatorCallTime, now)
        /\ endTime' = Stamp(endTime, now)
        /\ callDuration' = Stamp(callDuration, 0)

\* Manager::addTask makes the task and has it pushed; not before updateMtx is
\* free of an update that waits for operators.
addTask(c) ==
    /\ New(c) /\ ~replacing
    /\ taskBounds' = [taskBounds EXCEPT ![c] = bounds]
    /\ startTime' = [startTime EXCEPT ![c] = now]
    /\ push(c)
    /\ processCDR
    /\ UNCHANGED <<now, serving, updateVars>>

\* Mutant: a call that has waited for exactly RMax is still served.
InTimeAtLimit(c) == now - startTime[c] <= RMax(c)

\* Mutant: calls that wait are judged by the bounds of today.
InTimeToday(c) == now - startTime[c] < bounds[2]

InTime(c) == now - startTime[c] < RMax(c)

\* uniform_int_distribution includes both bounds.
getDuration(c) == RMin(c)..RMax(c)

setCdrValues(c) ==
    /\ operatorCallTime' = [operatorCallTime EXCEPT ![c] = now]
    /\ cdr' = [cdr EXCEPT ![c] = IF InTime(c) THEN "Completed" ELSE "Timeout"]
    /\ \E d \in IF InTime(c) THEN getDuration(c) ELSE {0} :
         callDuration' = [callDuration EXCEPT ![c] = d]

\* Mutant: the pool that is being replaced goes on taking calls.
OperatorFreeUnstopped == Cardinality(serving) < staff

\* The operators of a stopped pool take no call, and those of the new one
\* begin when it is gone.
OperatorFree == ~replacing /\ Cardinality(serving) < staff

\* A free operator takes the first call, up to the sleep in doTask.
processTask ==
    /\ ~empty /\ OperatorFree
    /\ pop
    /\ serving' = serving \cup {front}
    /\ setCdrValues(front)
    /\ UNCHANGED <<settings, promise, cdrFile, now, taskBounds, startTime, endTime, updateVars>>

\* The sleep of logCallDetails is over.
Due(c) == now >= operatorCallTime[c] + callDuration[c]

\* The rest of doTask and of executeTask.
executeTask(c) ==
    /\ c \in serving /\ Due(c)
    /\ endTime' = [endTime EXCEPT ![c] = now]
    /\ writeCDR(c, cdr[c])
    /\ set_value(c, cdr[c])
    /\ serving' = serving \ {c}
    /\ UNCHANGED <<queue_, settings, now, taskBounds, startTime, operatorCallTime, callDuration,
                   updateVars>>

\* Manager::update: with another number of operators it stops the pool, and
\* has to wait until the last of them is done with its call.
updateManager(v) ==
    /\ ~replacing
    /\ bounds' = v.bounds
    /\ update(v.sizeOfQueue)
    /\ newStaff' = v.amountOfOperators
    /\ UNCHANGED staff
    /\ updateTime' = IF replacing' THEN now ELSE 0
    /\ UNCHANGED <<queue_, answers, recorders_, now, taskBounds, timeVars, serving>>

\* Mutant: the new pool is started before the operators of the old one are
\* joined.
OldPoolOverUnjoined == replacing

OldPoolOver == replacing /\ serving = {}

\* The old pool is destroyed and the new one started.
setNewThreadPool ==
    /\ OldPoolOver
    /\ staff' = newStaff
    /\ updateTime' = 0
    /\ UNCHANGED <<queueVars, now, taskBounds, timeVars, serving, bounds, newStaff>>

\* Time passes when no operator can do anything but sleep.
Tick ==
    /\ empty \/ ~OperatorFree
    /\ \A c \in serving : ~Due(c)
    /\ replacing => serving # {}
    /\ now < MaxTime \/ serving # {}
    /\ now' = now + 1
    /\ UNCHANGED <<queueVars, taskBounds, timeVars, serving, updateVars>>

Operate == processTask \/ \E c \in Calls : executeTask(c)

Update == \E v \in Configurations : updateManager(v)

TaskNext ==
    \/ \E c \in Calls : addTask(c)
    \/ Operate
    \/ Update \/ setNewThreadPool
    \/ Tick

TaskSpec == TaskInit /\ [][TaskNext]_taskVars

-----------------------------------------------------------------------------
(* Properties.                                                             *)

\* No caller waits for twice the longest RMax, however many calls are in line
\* before it and however few operators there are: an operator is busy for at
\* most RMax with a call that it took within RMax of its arrival, and the
\* calls that became older meanwhile are dismissed at once.
AnsweredInTime ==
    \A c \in Calls :
        Waits(c) \/ c \in serving => now - startTime[c] < 2 * Longest

\* An update that replaces the pool, and with it every new call and every
\* other update, is held up for at most the longest RMax: the operators that
\* it waits for were at work when it began, and take nothing more.
UpdateInTime == replacing => now - updateTime <= Longest

\* What the record of an answered call says of its times, and that it says so
\* by the bounds that were in force when the call came.
RecordTimes ==
    \A c \in Calls :
        LET delay == operatorCallTime[c] - startTime[c]
        IN  promise[c] # NoStatus =>
              /\ 0 <= delay
              /\ endTime[c] = operatorCallTime[c] + callDuration[c]
              /\ promise[c] = "Completed" => delay < RMax(c) /\ callDuration[c] \in RMin(c)..RMax(c)
              /\ promise[c] = "Timeout" => delay >= RMax(c) /\ callDuration[c] = 0
              /\ promise[c] = "Overloaded" => endTime[c] = startTime[c]
              /\ promise[c] = "Duplication" =>
                   \E d \in Calls \ {c} :
                       Number[d] = Number[c] /\ startTime[d] = endTime[c] /\ callDuration[c] = 0

\* The records show that operators take calls in the order of their arrival,
\* and that a caller who calls again goes to the end of the line.
TakenInOrder ==
    \A c, d \in Calls :
        /\ cdr[c] \in {"Completed", "Timeout"}
        /\ cdr[d] \in {"Completed", "Timeout"}
        /\ startTime[c] < startTime[d]
        => operatorCallTime[c] <= operatorCallTime[d]

\* Against the clock, too, the server is a call center: a staff that is
\* exchanged by updates, and only while it serves nobody, takes calls from the
\* front of one line and answers each once, as served or as too old.
Center == INSTANCE CallCenter WITH
    waiting <- queue_,
    answer <- promise,
    line <- sizeOfQueue,
    NoAnswer <- NoStatus,
    Outcomes <- {"Completed", "Timeout"},
    StaffSizes <- {v.amountOfOperators : v \in Configurations},
    LineSizes <- {v.sizeOfQueue : v \in Configurations}

TimedServesInOrder == Center!CenterSpec
=============================================================================
