----------------------------- MODULE CallCenter -----------------------------
(***************************************************************************)
(* What the call center promises, without threads, locks and flags: calls  *)
(* wait in a line of bounded length and are taken in the order of the      *)
(* line; at most Staff of them are served at a time; a second call from a  *)
(* number replaces the first; each call gets one answer.                   *)
(*                                                                         *)
(* ThreadPool, Manager and, against a clock, Task are shown to implement   *)
(* this specification.                                                     *)
(***************************************************************************)
EXTENDS Integers, Sequences, SequencesExt, FiniteSets

CONSTANTS
    Calls,          \* the calls
    Number,         \* the number each of them comes from
    NoAnswer,       \* "not answered yet"
    Outcomes,       \* what a service may end with
    StaffSizes,     \* how many operators there may be
    LineSizes       \* how long the line may be

VARIABLES
    waiting,        \* the calls in the line, the oldest first
    serving,        \* the calls that operators have taken
    answer,         \* what each caller is told
    line,           \* the limit of the line
    staff           \* the number of operators

callCenterVars == <<waiting, serving, answer, line, staff>>

CenterInit ==
    /\ waiting = <<>>
    /\ serving = {}
    /\ answer = [c \in Calls |-> NoAnswer]
    /\ line \in LineSizes
    /\ staff \in StaffSizes

IsNew(c) ==
    /\ answer[c] = NoAnswer
    /\ c \notin serving
    /\ \A i \in DOMAIN waiting : waiting[i] # c

\* The places in the line of calls from the number of c.
SameNumber(c) == {i \in DOMAIN waiting : Number[waiting[i]] = Number[c]}

Reject(c) ==
    /\ IsNew(c)
    /\ Len(waiting) >= line
    /\ answer' = [answer EXCEPT ![c] = "Overloaded"]
    /\ UNCHANGED <<waiting, serving, line, staff>>

\* c joins the line.  A call from its number, there is one at most, leaves it.
Join(c) ==
    /\ IsNew(c)
    /\ Len(waiting) < line
    /\ \/ /\ SameNumber(c) = {}
          /\ waiting' = Append(waiting, c)
          /\ UNCHANGED answer
       \/ \E i \in DOMAIN waiting :
          /\ SameNumber(c) = {i}
          /\ waiting' = Append(RemoveAt(waiting, i), c)
          /\ answer' = [answer EXCEPT ![waiting[i]] = "Duplication"]
    /\ UNCHANGED <<serving, line, staff>>

\* An operator takes the oldest call.
Serve ==
    /\ waiting # <<>>
    /\ Cardinality(serving) < staff
    /\ serving' = serving \cup {Head(waiting)}
    /\ waiting' = Tail(waiting)
    /\ UNCHANGED <<answer, line, staff>>

Finish(c) ==
    /\ c \in serving
    /\ serving' = serving \ {c}
    /\ \E s \in Outcomes : answer' = [answer EXCEPT ![c] = s]
    /\ UNCHANGED <<waiting, line, staff>>

\* A new configuration.  A shorter line drops nobody, and the operators are
\* replaced only when none of them serves a call.
Resize ==
    /\ line' \in LineSizes
    /\ UNCHANGED <<waiting, serving, answer, staff>>

Restaff ==
    /\ serving = {}
    /\ staff' \in StaffSizes
    /\ UNCHANGED <<waiting, serving, answer, line>>

CenterNext ==
    \/ \E c \in Calls : Reject(c) \/ Join(c) \/ Finish(c)
    \/ Serve
    \/ Resize
    \/ Restaff

CenterSpec == CenterInit /\ [][CenterNext]_callCenterVars

\* Calls are not left to wait while an operator is free, and services end.
CenterFairSpec ==
    /\ CenterSpec
    /\ WF_callCenterVars(Serve)
    /\ \A c \in Calls : WF_callCenterVars(Finish(c))
=============================================================================
