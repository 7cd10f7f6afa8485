-------------------------- MODULE HttpServerProofs --------------------------
(***************************************************************************)
(* Proofs about HttpServer, for any number of clients and of threads: what *)
(* the requests make the server do is what TaskProofs is about, and what   *)
(* the clients are told is true.                                           *)
(***************************************************************************)
EXTENDS HttpServer, TaskProofs

-----------------------------------------------------------------------------
(* The server drives tasks, operators and the clock.                       *)

\* Each handler is a step of a task, or none.
LEMMA ServerStepsTask ==
    ASSUME [ServerNext]_allVars
    PROVE  [TaskNext]_taskVars
<1>1. ASSUME NEW r \in Requests, handleHttpRequest(r)
      PROVE  [TaskNext]_taskVars
  <2>1. CASE r \in Calls /\ processPhoneCall(r)
    BY <2>1 DEF processPhoneCall, TaskNext
  <2>2. CASE processUpdate(r)
    BY <2>2 DEF processUpdate, TaskNext
  <2>3. CASE notFound(r) \/ notGet(r)
    BY <2>3 DEF notFound, notGet
  <2>. QED  BY <1>1, <2>1, <2>2, <2>3 DEF handleHttpRequest
<1>2. ASSUME NEW c \in Calls, getResult(c)
      PROVE  [TaskNext]_taskVars
  BY <1>2 DEF getResult
<1>3. CASE monitor \/ PoolReplaced
  BY <1>3 DEF monitor, PoolReplaced, TaskNext
<1>4. CASE Operate \/ Tick
  BY <1>4 DEF TaskNext
<1>5. CASE UNCHANGED allVars
  BY <1>5 DEF allVars
<1>. QED
  BY <1>1, <1>2, <1>3, <1>4, <1>5 DEF ServerNext

\* What requests make the server do, tasks and operators may do.
THEOREM ServerDrivesTasks == ServerSpec => TaskSpec
<1>1. ServerInit => TaskInit
  BY DEF ServerInit
<1>. QED
  BY <1>1, ServerStepsTask, PTL DEF ServerSpec, TaskSpec

\* No call of the server waits, or is served, for twice the longest RMax.
THEOREM ServerAnswersInTime == ServerSpec => []AnsweredInTime
<1>1. TimeInv => AnsweredInTime
  BY DEF TimeInv
<1>. QED
  BY <1>1, TimeInvariance, ServerDrivesTasks, PTL

\* An update of the server that replaces the pool is held up for at most the
\* longest RMax.
THEOREM ServerUpdatesInTime == ServerSpec => []UpdateInTime
<1>1. TimeInv => UpdateInTime
  BY DEF TimeInv
<1>. QED
  BY <1>1, TimeInvariance, ServerDrivesTasks, PTL

\* The operators of the server take calls in the order of their arrival.
THEOREM ServerTakesInOrder == ServerSpec => []TakenInOrder
<1>1. TimeInv => TakenInOrder
  BY DEF TimeInv
<1>. QED
  BY <1>1, TimeInvariance, ServerDrivesTasks, PTL

\* With its clients the server implements the call center, for any number of
\* them and whatever updates they ask for.
THEOREM ServerImplementsCenter == ServerSpec => TimedServesInOrder
BY TaskImplementsCenter, ServerDrivesTasks, PTL

-----------------------------------------------------------------------------
(* Replies.                                                                *)

\* The status of a call that is answered is one that a reply exists for.
LEMMA AnswerKnown ==
    ASSUME TimeInv, RecordInv, NEW c \in Calls, promise[c] # NoStatus
    PROVE  promise[c] \in CallStatus
BY DEF TimeInv, TaskTypeOK, QueueTypeOK, RecordInv, Answers

\* An answer stays, so what was replied stays true.
LEMMA AnswerStays ==
    ASSUME TimeInv, RecordInv, [TaskNext]_taskVars, NEW c \in Calls, promise[c] # NoStatus
    PROVE  promise'[c] = promise[c]
<1>1. ASSUME NEW d \in Calls, addTask(d)
      PROVE  promise'[c] = promise[c]
  <2>1. d # c
    BY <1>1 DEF addTask, New
  <2>2. ~Waits(c)
    BY DEF RecordInv, Places
  <2>. QED  BY <1>1, <2>1, <2>2, AddTaskFields
<1>2. ASSUME NEW d \in Calls, executeTask(d)
      PROVE  promise'[c] = promise[c]
  <2>1. d # c
    BY <1>2 DEF executeTask, RecordInv, Places
  <2>. QED  BY <1>2, <2>1 DEF executeTask, set_value, TimeInv, TaskTypeOK, QueueTypeOK
<1>3. CASE processTask \/ Update \/ setNewThreadPool \/ Tick \/ UNCHANGED taskVars
  BY <1>3 DEF processTask, Update, updateManager, setNewThreadPool, Tick, taskVars, queueVars,
              answers
<1>. QED
  BY <1>1, <1>2, <1>3 DEF TaskNext, Operate

\* What was sent to the client of a call is what its promise says.
RepliesKnown ==
    \A c \in Calls : reply[c] # "none" =>
        \/ reply[c] = "closed" /\ Number[c] \in BadNumbers
        \/ promise[c] # NoStatus /\ reply[c] = workWithCallStatus(promise[c])

\* The text for a status is a reply.
LEMMA ReplyType ==
    ASSUME NEW s \in CallStatus
    PROVE  workWithCallStatus(s) \in Replies
BY DEF CallStatus, workWithCallStatus, Replies

ServerInv == ServerTypeOK /\ RepliesKnown

\* A request ends with a reply of the right type, and no other request sends one.
LEMMA EndFacts ==
    ASSUME ServerTypeOK, NEW r \in Requests, NEW from, NEW v \in Replies, End(r, from, v)
    PROVE  /\ requestPc' \in [Requests -> {"new", "get", "joining", "ended"}]
           /\ callID' \in [Calls -> Nat] /\ reply' \in [Requests -> Replies]
           /\ reply'[r] = v /\ \A q \in Requests \ {r} : reply'[q] = reply[q]
BY DEF ServerTypeOK, End

\* Each handler keeps the threads of requests, and what they sent, in agreement
\* with the promises.
LEMMA ServerStep ==
    ASSUME TimeInv, RecordInv, TimeInv', [TaskNext]_taskVars, ServerInv, [ServerNext]_allVars
    PROVE  ServerInv'
<1> USE DEF ServerInv
<1>1. /\ TaskTypeOK' /\ Calls \subseteq Requests /\ UpdateRequests \subseteq Requests
      /\ \A c \in Calls : promise[c] # NoStatus => promise'[c] = promise[c]
      /\ "closed" \in Replies /\ "not_found" \in Replies /\ {"ok", "forbidden"} \subseteq Replies
  BY AnswerStays DEF TimeInv, Requests, Replies
<1>2. \* A step that sends nothing to a caller.
      ASSUME \A c \in Calls : reply'[c] = reply[c]
      PROVE  RepliesKnown'
  BY <1>1, <1>2 DEF RepliesKnown
<1>3. ASSUME NEW c \in Calls, processPhoneCall(c)
      PROVE  ServerInv'
  <2>1. CASE Number[c] \in BadNumbers
    <3>1. End(c, "new", "closed") /\ UNCHANGED <<taskVars, thread>>
      BY <1>3, <2>1 DEF processPhoneCall
    <3>2. /\ requestPc' \in [Requests -> {"new", "get", "joining", "ended"}]
          /\ callID' \in [Calls -> Nat] /\ reply' \in [Requests -> Replies]
          /\ reply'[c] = "closed" /\ \A q \in Requests \ {c} : reply'[q] = reply[q]
      BY <1>1, <3>1, EndFacts
    <3>3. ServerTypeOK'
      BY <1>1, <3>1, <3>2 DEF ServerTypeOK
    <3>4. RepliesKnown'
      BY <1>1, <2>1, <3>2 DEF RepliesKnown
    <3>. QED  BY <3>3, <3>4
  <2>2. CASE Number[c] \notin BadNumbers
    <3>1. PICK t \in FreeIds : /\ thread' = [thread EXCEPT ![c] = t]
                               /\ callID' = [callID EXCEPT ![c] = generateCallID(t, c)]
      BY <1>3, <2>2 DEF processPhoneCall
    <3>2. t \in ThreadIds
      BY DEF FreeIds
    <3>3. generateCallID(t, c) \in Nat
      <4>1. /\ Hash[t] \in Nat /\ NumberValue[Number[c]] \in Nat /\ Modulus \in Nat \ {0}
        BY <3>2, ServerAssumption, QueueAssumption
      <4>2. \A x, y \in Nat, m \in Nat \ {0} : (x + y) % m \in Nat
        OBVIOUS
      <4>. QED  BY <4>1, <4>2 DEF generateCallID
    <3>4. requestPc' = [requestPc EXCEPT ![c] = "get"] /\ reply' = reply
      BY <1>3, <2>2 DEF processPhoneCall
    <3>5. ServerTypeOK'
      BY <1>1, <3>1, <3>2, <3>3, <3>4 DEF ServerTypeOK
    <3>. QED  BY <1>2, <3>4, <3>5
  <2>. QED  BY <2>1, <2>2
<1>4. \* A reply to a request that is no call.
      ASSUME NEW r \in UpdateRequests \cup OtherRequests \cup OtherMethods, NEW from,
             NEW v \in Replies, End(r, from, v), UNCHANGED thread
      PROVE  ServerInv'
  <2>1. r \in Requests /\ r \notin Calls
    BY ServerAssumption DEF Requests
  <2>2. /\ requestPc' \in [Requests -> {"new", "get", "joining", "ended"}]
        /\ callID' \in [Calls -> Nat] /\ reply' \in [Requests -> Replies]
        /\ \A q \in Requests \ {r} : reply'[q] = reply[q]
    BY <1>4, <2>1, EndFacts
  <2>3. ServerTypeOK'
    BY <1>1, <1>4, <2>2 DEF ServerTypeOK
  <2>. QED  BY <1>1, <1>2, <2>1, <2>2, <2>3
<1>5. ASSUME NEW r \in UpdateRequests, processUpdate(r)
      PROVE  ServerInv'
  <2>1. CASE EndUpdate(r, "new")
    BY <1>1, <1>4, <1>5, <2>1 DEF processUpdate, EndUpdate
  <2>2. CASE requestPc' = [requestPc EXCEPT ![r] = "joining"] /\ UNCHANGED <<callID, reply>>
    <3>1. ServerTypeOK'
      BY <1>1, <1>5, <2>2 DEF processUpdate, ServerTypeOK
    <3>. QED  BY <1>2, <2>2, <3>1
  <2>. QED  BY <1>5, <2>1, <2>2 DEF processUpdate
<1>6. ASSUME NEW r, (r \in OtherRequests /\ notFound(r)) \/ (r \in OtherMethods /\ notGet(r))
      PROVE  ServerInv'
  BY <1>1, <1>4, <1>6 DEF notFound, notGet
<1>7. ASSUME NEW c \in Calls, getResult(c)
      PROVE  ServerInv'
  <2>1. promise[c] # NoStatus /\ promise[c] \in CallStatus /\ promise'[c] = promise[c]
    BY <1>1, <1>7, AnswerKnown DEF getResult
  <2>2. PICK v \in Replies : v = workWithCallStatus(promise[c])
    BY <2>1, ReplyType
  <2>3. End(c, "get", v) /\ thread' = [thread EXCEPT ![c] = NoThread]
    BY <1>7, <2>2 DEF getResult
  <2>4. /\ requestPc' \in [Requests -> {"new", "get", "joining", "ended"}]
        /\ callID' \in [Calls -> Nat] /\ reply' \in [Requests -> Replies]
        /\ reply'[c] = v /\ \A q \in Requests \ {c} : reply'[q] = reply[q]
    BY <1>1, <2>3, EndFacts
  <2>5. ServerTypeOK'
    BY <1>1, <2>3, <2>4 DEF ServerTypeOK
  <2>6. RepliesKnown'
    BY <1>1, <2>1, <2>2, <2>4 DEF RepliesKnown
  <2>. QED  BY <2>5, <2>6
<1>8. CASE PoolReplaced
  <2>1. CASE \E r \in UpdateRequests : EndUpdate(r, "joining")
    BY <1>1, <1>4, <1>8, <2>1 DEF PoolReplaced, EndUpdate
  <2>2. CASE UNCHANGED <<requestPc, callID, reply>>
    <3>1. ServerTypeOK'
      BY <1>1, <1>8, <2>2 DEF PoolReplaced, ServerTypeOK
    <3>. QED  BY <1>2, <2>2, <3>1
  <2>. QED  BY <1>8, <2>1, <2>2 DEF PoolReplaced
<1>9. CASE UNCHANGED serverVars
  <2>1. ServerTypeOK'
    BY <1>1, <1>9 DEF serverVars, ServerTypeOK
  <2>. QED  BY <1>2, <1>9, <2>1 DEF serverVars
<1>. QED
  BY <1>3, <1>5, <1>6, <1>7, <1>8, <1>9
     DEF ServerNext, handleHttpRequest, monitor, allVars

\* Types, and what was sent to clients.
THEOREM ServerInvariance == ServerSpec => []ServerInv
<1>1. ServerInit => ServerInv
  <2> SUFFICES ASSUME ServerInit PROVE ServerInv
    OBVIOUS
  <2>1. TaskTypeOK /\ Calls \subseteq Requests
    BY TimeInit DEF ServerInit, TimeInv, Requests
  <2>2. ServerTypeOK
    BY <2>1 DEF ServerInit, ServerTypeOK, Replies, Zero
  <2>3. RepliesKnown
    BY <2>1 DEF ServerInit, RepliesKnown
  <2>. QED  BY <2>2, <2>3 DEF ServerInv
<1>2. /\ TimeInv /\ RecordInv /\ TimeInv' /\ [TaskNext]_taskVars /\ ServerInv
      /\ [ServerNext]_allVars
      => ServerInv'
  BY ServerStep
<1>3. [ServerNext]_allVars => [TaskNext]_taskVars
  BY ServerStepsTask
<1>. QED
  BY <1>1, <1>2, <1>3, TimeInvariance, RecordInvariance, ServerDrivesTasks, PTL
     DEF ServerSpec

\* The variables of the server keep their types.
THEOREM ServerTypeCorrectness == ServerSpec => []ServerTypeOK
<1>1. ServerInv => ServerTypeOK
  BY DEF ServerInv
<1>. QED
  BY <1>1, ServerInvariance, PTL

\* The records of the server agree with the clock and with the bounds of the
\* arrival of each call.
THEOREM ServerRecordsTimed == ServerSpec => []RecordTimes
<1>1. TimeInv /\ RecordInv => RecordTimes
  BY RecordsTimed
<1>. QED
  BY <1>1, TimeInvariance, RecordInvariance, ServerDrivesTasks, PTL

\* What a client is told agrees with the times in the records, for any number
\* of clients and whatever updates are made meanwhile.
THEOREM ServerRepliesTrue == ServerSpec => []RepliesTrue
<1>1. TimeInv /\ RecordInv /\ ServerInv => RepliesTrue
  <2> SUFFICES ASSUME TimeInv, RecordInv, ServerInv, NEW c \in Calls
               PROVE  /\ reply[c] = "ok" =>
                          /\ operatorCallTime[c] - startTime[c] < RMax(c)
                          /\ endTime[c] - operatorCallTime[c] \in RMin(c)..RMax(c)
                      /\ reply[c] = "request_timeout" =>
                           operatorCallTime[c] - startTime[c] >= RMax(c)
                      /\ reply[c] = "conflict" =>
                           \E d \in Calls \ {c} :
                             Number[d] = Number[c] /\ startTime[d] = endTime[c]
                      /\ reply[c] = "closed" => Number[c] \in BadNumbers
    BY DEF RepliesTrue
  <2>1. CASE reply[c] = "closed" /\ Number[c] \in BadNumbers
    BY <2>1
  <2>2. CASE promise[c] # NoStatus /\ reply[c] = workWithCallStatus(promise[c])
    <3>1. /\ promise[c] \in CallStatus /\ promise[c] = cdr[c]
          /\ endTime[c] = operatorCallTime[c] + callDuration[c]
          /\ operatorCallTime[c] \in Nat /\ callDuration[c] \in Nat
      BY <2>2, AnswerKnown DEF RecordInv, Answers, TimeInv, TaskTypeOK
    <3>2. endTime[c] - operatorCallTime[c] = callDuration[c]
      BY <3>1
    <3>3. /\ reply[c] = "ok" => promise[c] = "Completed"
          /\ reply[c] = "request_timeout" => promise[c] = "Timeout"
          /\ reply[c] = "conflict" => promise[c] = "Duplication"
          /\ reply[c] # "closed"
      BY <2>2, <3>1 DEF workWithCallStatus, CallStatus
    <3>. QED
      BY <2>2, <3>1, <3>2, <3>3 DEF RecordInv, Answers, Judged, Taken, Replaced
  <2>3. CASE reply[c] = "none"
    BY <2>3
  <2>. QED  BY <2>1, <2>2, <2>3 DEF ServerInv, RepliesKnown
<1>. QED
  BY <1>1, TimeInvariance, RecordInvariance, ServerDrivesTasks, ServerInvariance, PTL
=============================================================================
