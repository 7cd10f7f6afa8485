----------------------------- MODULE HttpServer -----------------------------
(***************************************************************************)
(* The server as its clients see it (src/src/httpServer.cpp): each         *)
(* connection has a detached thread of its own, which reads one request,   *)
(* has it carried out, and sends the reply or closes the connection        *)
(* without one.  A request for "/phone=" is a call of Task; the thread is  *)
(* blocked until the promise of the call is set.                           *)
(***************************************************************************)
EXTENDS Task

CONSTANTS
    BadNumbers,     \* the numbers that std::stoll rejects
    UpdateRequests, \* requests for "/update"
    OtherRequests,  \* requests for another path
    OtherMethods,   \* requests that are not GET
    ThreadIds,      \* the identifiers that threads may have
    Hash,           \* Hash[t]: std::hash of the identifier t
    NoThread,       \* "no thread"
    NumberValue,    \* NumberValue[n]: what std::stoll returns for n
    Modulus         \* 2^64 in the code: CallID is unsigned

Requests == Calls \cup UpdateRequests \cup OtherRequests \cup OtherMethods

ASSUME ServerAssumption ==
    /\ BadNumbers \subseteq Numbers
    /\ Calls \cap (UpdateRequests \cup OtherRequests \cup OtherMethods) = {}
    /\ NoThread \notin ThreadIds
    /\ Hash \in [ThreadIds -> Nat]
    /\ NumberValue \in [Numbers -> Nat]
    /\ Modulus \in Nat \ {0}

VARIABLES
    thread,     \* thread[c]: the thread of the request of call c while it is blocked
    requestPc,  \* where the thread of each request is
    callID,     \* callID[c]: Task::taskId_
    reply       \* reply[r]: what the client gets

serverVars == <<thread, requestPc, callID, reply>>
allVars == <<taskVars, serverVars>>

Replies == {"none", "closed", "ok", "not_found", "forbidden", "conflict",
            "too_many_requests", "request_timeout"}

ServerTypeOK ==
    /\ TaskTypeOK
    /\ thread \in [Calls -> ThreadIds \cup {NoThread}]
    /\ requestPc \in [Requests -> {"new", "get", "joining", "ended"}]
    /\ callID \in [Calls -> Nat]
    /\ reply \in [Requests -> Replies]

ServerInit ==
    /\ TaskInit
    /\ thread = [c \in Calls |-> NoThread]
    /\ requestPc = [r \in Requests |-> "new"]
    /\ callID = Zero
    /\ reply = [r \in Requests |-> "none"]

-----------------------------------------------------------------------------
(* What a thread does before it calls the manager, it does for itself: the *)
(* connection, the thread and the reading of the request are one step with *)
(* that call.                                                              *)

\* The reply v is sent, or the connection closed without one, and the thread
\* ends.
End(r, from, v) ==
    /\ requestPc[r] = from
    /\ requestPc' = [requestPc EXCEPT ![r] = "ended"]
    /\ reply' = [reply EXCEPT ![r] = v]
    /\ UNCHANGED callID

\* A new thread may have the identifier of a thread that has ended.
FreeIds == {t \in ThreadIds : \A c \in Calls : thread[c] # t}

generateCallID(t, c) == (Hash[t] + NumberValue[Number[c]]) % Modulus

\* processPhoneCall up to future.get().  What std::stoll throws is no
\* future_error: it reaches handleHttpRequest, which sends nothing.
processPhoneCall(c) ==
    \/ /\ Number[c] \in BadNumbers
       /\ End(c, "new", "closed")
       /\ UNCHANGED <<taskVars, thread>>
    \/ /\ Number[c] \notin BadNumbers
       /\ requestPc[c] = "new"
       /\ requestPc' = [requestPc EXCEPT ![c] = "get"]
       /\ \E t \in FreeIds :
            /\ thread' = [thread EXCEPT ![c] = t]
            /\ callID' = [callID EXCEPT ![c] = generateCallID(t, c)]
       /\ addTask(c)
       /\ UNCHANGED reply

\* Mutant: without its break, the case Completed falls through to the next.
workWithCallStatusFallsThrough(s) ==
    CASE s \in {"Completed", "Duplication"} -> "conflict"
      [] s = "Overloaded" -> "too_many_requests"
      [] s = "Timeout" -> "request_timeout"

workWithCallStatus(s) ==
    CASE s = "Completed" -> "ok"
      [] s = "Duplication" -> "conflict"
      [] s = "Overloaded" -> "too_many_requests"
      [] s = "Timeout" -> "request_timeout"

\* The rest of processPhoneCall.
getResult(c) ==
    /\ promise[c] # NoStatus
    /\ End(c, "get", workWithCallStatus(promise[c]))
    /\ thread' = [thread EXCEPT ![c] = NoThread]
    /\ UNCHANGED taskVars

\* Config has what the reply to an update depends on, and why it may be the
\* reply to another.
EndUpdate(r, from) == \E v \in {"ok", "forbidden"} : End(r, from, v)

\* The thread is in the update as long as it replaces the pool.
processUpdate(r) ==
    /\ \/ UNCHANGED taskVars /\ EndUpdate(r, "new")
       \/ Update /\ ~replacing' /\ EndUpdate(r, "new")
       \/ /\ Update /\ replacing'
          /\ requestPc[r] = "new"
          /\ requestPc' = [requestPc EXCEPT ![r] = "joining"]
          /\ UNCHANGED <<callID, reply>>
    /\ UNCHANGED thread

notFound(r) == End(r, "new", "not_found") /\ UNCHANGED <<taskVars, thread>>

notGet(r) == End(r, "new", "closed") /\ UNCHANGED <<taskVars, thread>>

handleHttpRequest(r) ==
    \/ r \in Calls /\ processPhoneCall(r)
    \/ r \in UpdateRequests /\ processUpdate(r)
    \/ r \in OtherRequests /\ notFound(r)
    \/ r \in OtherMethods /\ notGet(r)

\* The monitor of the configuration updates the manager too.
monitor == Update /\ UNCHANGED serverVars

\* The end of an update that replaced the pool: of the request that waits for
\* it, or of the monitor's.
PoolReplaced ==
    /\ setNewThreadPool
    /\ UNCHANGED thread
    /\ \/ \E r \in UpdateRequests : EndUpdate(r, "joining")
       \/ /\ \A r \in UpdateRequests : requestPc[r] # "joining"
          /\ UNCHANGED <<requestPc, callID, reply>>

ServerNext ==
    \/ \E r \in Requests : handleHttpRequest(r)
    \/ \E c \in Calls : getResult(c)
    \/ (Operate \/ Tick) /\ UNCHANGED serverVars
    \/ monitor \/ PoolReplaced

ServerSpec == ServerInit /\ [][ServerNext]_allVars

-----------------------------------------------------------------------------
(* Properties.                                                             *)

\* What a client is told agrees with what the records say of the times of its
\* call and of others: success of a call that an operator took in time and let
\* last as the bounds say, a timeout of one that was too old, a conflict of one
\* that another call from its number replaced, and no reply to no number.
RepliesTrue ==
    \A c \in Calls :
        LET delay == operatorCallTime[c] - startTime[c]
        IN  /\ reply[c] = "ok" =>
                 delay < RMax(c) /\ endTime[c] - operatorCallTime[c] \in RMin(c)..RMax(c)
            /\ reply[c] = "request_timeout" => delay >= RMax(c)
            /\ reply[c] = "conflict" =>
                 \E d \in Calls \ {c} : Number[d] = Number[c] /\ startTime[d] = endTime[c]
            /\ reply[c] = "closed" => Number[c] \in BadNumbers

\* Readme.md:5-6: a unique identifier is generated for each request.
CallIdsUnique ==
    \A c, d \in Calls :
        /\ {requestPc[c], requestPc[d]} \subseteq {"get", "ended"}
        /\ {Number[c], Number[d]} \cap BadNumbers = {}
        /\ callID[c] = callID[d]
        => c = d
=============================================================================
