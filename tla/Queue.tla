------------------------------- MODULE Queue -------------------------------
(***************************************************************************)
(* The bounded queue of waiting calls (src/src/queue.cpp), with the three  *)
(* things its operations change besides the vector itself: the CDR of a    *)
(* task, the promise its caller is blocked on, and the files of the        *)
(* attached recorders.  Every operation runs under the task_queue_mutex of *)
(* the pool that owns the queue, so each is one step here; ThreadPool      *)
(* models the mutex.                                                       *)
(***************************************************************************)
EXTENDS Integers, Sequences, SequencesExt

CONSTANTS
    Calls,       \* the tasks: one per "/phone=" request
    Numbers,     \* the callers' phone numbers
    Number,      \* Number[c] is Task::number_ of call c
    Recorders    \* the recorders that exist

ASSUME QueueAssumption == Number \in [Calls -> Numbers]

VARIABLES
    queue_,       \* the vector of waiting calls, front first
    sizeOfQueue,  \* the limit that push compares the length with
    cdr,          \* cdr[c]: CDR::status of the task, NoStatus until it is set
    promise,      \* promise[c]: what future.get() returns, NoStatus while it blocks
    recorders_,   \* the recorders attached to the queue
    cdrFile       \* cdrFile[r][c]: the statuses recorder r wrote for call c

settings == <<sizeOfQueue, recorders_>>
answers == <<cdr, promise, cdrFile>>
queueVars == <<queue_, settings, answers>>

NoStatus == "NoStatus"
Exception == "Exception"     \* the promise holds an exception, not a Result

\* CallStatus, without Awaiting and Rejected, which the code never assigns.
CallStatus == {"Completed", "Duplication", "Overloaded", "Timeout"}

QueueTypeOK ==
    /\ queue_ \in Seq(Calls)
    /\ sizeOfQueue \in Nat
    /\ cdr \in [Calls -> CallStatus \cup {NoStatus}]
    /\ promise \in [Calls -> CallStatus \cup {NoStatus, Exception}]
    /\ recorders_ \subseteq Recorders
    /\ cdrFile \in [Recorders -> [Calls -> Seq(CallStatus)]]

QueueInit(size) ==
    /\ queue_ = <<>>
    /\ sizeOfQueue = size
    /\ cdr = [c \in Calls |-> NoStatus]
    /\ promise = [c \in Calls |-> NoStatus]
    /\ recorders_ = {}
    /\ cdrFile = [r \in Recorders |-> [c \in Calls |-> <<>>]]

-----------------------------------------------------------------------------
empty == queue_ = <<>>

\* A file keeps one sequence per call: the order of lines of different calls is
\* abstracted.
makeRecord(lines, c, s) == [lines EXCEPT ![c] = Append(@, s)]

\* The CDR of call c gets status s and goes to every attached recorder.
writeCDR(c, s) ==
    /\ cdr' = [cdr EXCEPT ![c] = s]
    /\ cdrFile' = [r \in Recorders |->
                    IF r \in recorders_ THEN makeRecord(cdrFile[r], c, s) ELSE cdrFile[r]]

\* std::promise::set_value and set_exception.
set_value(c, v) == promise' = [promise EXCEPT ![c] = v]

\* processCDR and set_value, for a call the queue answers by itself.
Refuse(c, s) == writeCDR(c, s) /\ set_value(c, s)

\* Mutants: the call is refused with a status that no result has; its promise
\* is set and no record written; it is refused and queued all the same.
handleOverloadedTaskRejected(c) == Refuse(c, "Rejected") /\ UNCHANGED queue_
handleOverloadedTaskNoRecord(c) == set_value(c, "Overloaded") /\ UNCHANGED <<queue_, cdr, cdrFile>>
handleOverloadedTaskQueued(c) == Refuse(c, "Overloaded") /\ queue_' = Append(queue_, c)

handleOverloadedTask(c) == Refuse(c, "Overloaded") /\ UNCHANGED queue_

\* Mutant: duplicates are recognised by the task, not by the number.
DuplicatesByTask(c) == {i \in DOMAIN queue_ : queue_[i] = c}

\* The positions of the waiting calls from the number of c.
Duplicates(c) == {i \in DOMAIN queue_ : Number[queue_[i]] = Number[c]}

\* Mutant: the duplicate is erased, and its promise dropped with it.
handleTaskDropsPromise(c) ==
    /\ UNCHANGED answers
    /\ queue_' = Append(SelectSeq(queue_, LAMBDA d : Number[d] # Number[c]), c)

\* Mutant: the duplicate is answered and stays in the queue.
handleTaskKeepsDuplicate(c) ==
    /\ queue_' = Append(queue_, c)
    /\ \/ Duplicates(c) = {} /\ UNCHANGED answers
       \/ \E i \in Duplicates(c) : Refuse(queue_[i], "Duplication")

\* Mutant: a new call goes to the front.
handleTaskInFront(c) == Duplicates(c) = {} /\ queue_' = <<c>> \o queue_ /\ UNCHANGED answers

\* The first waiting call with the same number is answered and erased, and c
\* goes to the back.
handleTask(c) ==
    \/ /\ Duplicates(c) = {}
       /\ queue_' = Append(queue_, c)
       /\ UNCHANGED answers
    \/ \E i \in Duplicates(c) :
         /\ \A j \in Duplicates(c) : i <= j
         /\ Refuse(queue_[i], "Duplication")
         /\ queue_' = Append(RemoveAt(queue_, i), c)

\* Mutant: the limit is off by one.
OverloadedOffByOne == Len(queue_) > sizeOfQueue

\* push: the limit is tested before the search for a duplicate.
Overloaded == Len(queue_) >= sizeOfQueue

push(c) ==
    /\ \/ Overloaded /\ handleOverloadedTask(c)
       \/ ~Overloaded /\ handleTask(c)
    /\ UNCHANGED settings

front == queue_[1]

pop == queue_' = Tail(queue_)

update(size) == sizeOfQueue' = size

setRecorders(R) == recorders_' = R

-----------------------------------------------------------------------------
(* Properties.                                                             *)

\* At most one waiting call per number.
DistinctNumbers ==
    \A i, j \in DOMAIN queue_ : Number[queue_[i]] = Number[queue_[j]] => i = j
=============================================================================
