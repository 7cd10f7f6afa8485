---------------------------- MODULE QueueProofs ----------------------------
(***************************************************************************)
(* What the operations of Queue do to the sequence of waiting calls, for   *)
(* the proofs about the modules that use it.                               *)
(***************************************************************************)
EXTENDS Queue, TLAPS, SequenceTheorems

\* The groups of variables are expanded everywhere.
USE DEF settings, answers

-----------------------------------------------------------------------------
(* Sequences.                                                              *)

\* The elements of a concatenation.
LEMMA ConcatFacts ==
    ASSUME NEW S, NEW a \in Seq(S), NEW b \in Seq(S)
    PROVE  /\ a \o b \in Seq(S)
           /\ Len(a \o b) = Len(a) + Len(b)
           /\ \A j \in 1..(Len(a) + Len(b)) :
                (a \o b)[j] = IF j <= Len(a) THEN a[j] ELSE b[j - Len(a)]
OBVIOUS

\* What is left of a sequence when one element is removed.
LEMMA RemoveAtFacts ==
    ASSUME NEW S, NEW s \in Seq(S), NEW i \in 1..Len(s)
    PROVE  /\ RemoveAt(s, i) \in Seq(S)
           /\ Len(RemoveAt(s, i)) = Len(s) - 1
           /\ \A j \in 1..(Len(s) - 1) :
                RemoveAt(s, i)[j] = IF j < i THEN s[j] ELSE s[j + 1]
<1> DEFINE a == SubSeq(s, 1, i - 1)
           b == SubSeq(s, i + 1, Len(s))
<1>1. a \in Seq(S) /\ Len(a) = i - 1 /\ \A j \in 1..(i - 1) : a[j] = s[j]
  OBVIOUS
<1>2. b \in Seq(S) /\ Len(b) = Len(s) - i /\ \A j \in 1..(Len(s) - i) : b[j] = s[i + j]
  OBVIOUS
<1>3. RemoveAt(s, i) = a \o b
  BY DEF RemoveAt
<1> HIDE DEF a, b
<1>4. /\ a \o b \in Seq(S)
      /\ Len(a \o b) = Len(s) - 1
      /\ \A j \in 1..(Len(s) - 1) : (a \o b)[j] = IF j < i THEN a[j] ELSE b[j - (i - 1)]
  <2>1. Len(a) + Len(b) = Len(s) - 1 /\ Len(a) = i - 1 /\ i \in Int
    BY <1>1, <1>2
  <2>2. /\ a \o b \in Seq(S)
        /\ Len(a \o b) = Len(a) + Len(b)
        /\ \A j \in 1..(Len(a) + Len(b)) :
             (a \o b)[j] = IF j <= Len(a) THEN a[j] ELSE b[j - Len(a)]
    BY ConcatFacts, <1>1, <1>2
  <2>3. ASSUME NEW j \in 1..(Len(s) - 1)
        PROVE  (a \o b)[j] = IF j < i THEN a[j] ELSE b[j - (i - 1)]
    <3>1. j <= Len(a) <=> j < i
      BY <2>1
    <3>. QED  BY <2>1, <2>2, <3>1
  <2>. QED  BY <2>1, <2>2, <2>3
<1>5. ASSUME NEW j \in 1..(Len(s) - 1)
      PROVE  RemoveAt(s, i)[j] = IF j < i THEN s[j] ELSE s[j + 1]
  <2>1. CASE j < i
    BY <1>1, <1>3, <1>4, <2>1
  <2>2. CASE ~(j < i)
    <3>1. j - (i - 1) \in 1..(Len(s) - i) /\ i + (j - (i - 1)) = j + 1
      BY <2>2
    <3>. QED  BY <1>2, <1>3, <1>4, <2>2, <3>1
  <2>. QED  BY <2>1, <2>2
<1>. QED
  BY <1>3, <1>4, <1>5

\* The queue that handleTask leaves when it replaces the i-th call by a new one.
LEMMA ReplaceFacts ==
    ASSUME NEW S, NEW s \in Seq(S), NEW i \in 1..Len(s), NEW c \in S
    PROVE  LET t == Append(RemoveAt(s, i), c)
           IN  /\ t \in Seq(S)
               /\ Len(t) = Len(s)
               /\ t[Len(s)] = c
               /\ \A j \in 1..(Len(s) - 1) : t[j] = IF j < i THEN s[j] ELSE s[j + 1]
<1> DEFINE r == RemoveAt(s, i)
           t == Append(r, c)
<1>1. /\ r \in Seq(S) /\ Len(r) = Len(s) - 1
      /\ \A j \in 1..(Len(s) - 1) : r[j] = IF j < i THEN s[j] ELSE s[j + 1]
  BY RemoveAtFacts
<1> HIDE DEF r
<1>2. /\ t \in Seq(S) /\ Len(t) = Len(r) + 1 /\ t[Len(r) + 1] = c
      /\ \A j \in 1..Len(r) : t[j] = r[j]
  BY <1>1
<1> HIDE DEF t
<1>. QED
  BY <1>1, <1>2 DEF t, r

-----------------------------------------------------------------------------
(* The operations.                                                         *)

\* A CDR that is written keeps the types of the CDRs and of the files.
LEMMA WriteCDRType ==
    ASSUME QueueTypeOK, NEW c \in Calls, NEW s \in CallStatus, writeCDR(c, s)
    PROVE  /\ cdr' \in [Calls -> CallStatus \cup {NoStatus}]
           /\ cdrFile' \in [Recorders -> [Calls -> Seq(CallStatus)]]
<1>1. cdr' \in [Calls -> CallStatus \cup {NoStatus}]
  BY DEF QueueTypeOK, writeCDR
<1>2. ASSUME NEW r \in Recorders
      PROVE  cdrFile'[r] \in [Calls -> Seq(CallStatus)]
  <2>1. cdrFile[r] \in [Calls -> Seq(CallStatus)] /\ Append(cdrFile[r][c], s) \in Seq(CallStatus)
    BY DEF QueueTypeOK
  <2>2. makeRecord(cdrFile[r], c, s) \in [Calls -> Seq(CallStatus)]
    BY <2>1 DEF makeRecord
  <2>. QED  BY <2>1, <2>2 DEF writeCDR
<1>. QED
  BY <1>1, <1>2 DEF writeCDR

\* push keeps the types, whether it queues the call, answers it or answers
\* another one in its place.
LEMMA PushType ==
    ASSUME QueueTypeOK, NEW c \in Calls, push(c)
    PROVE  QueueTypeOK'
<1> USE DEF QueueTypeOK
<1>0. "Overloaded" \in CallStatus /\ "Duplication" \in CallStatus
  BY DEF CallStatus
<1>1. CASE handleOverloadedTask(c)
  <2>1. /\ cdr' \in [Calls -> CallStatus \cup {NoStatus}]
        /\ cdrFile' \in [Recorders -> [Calls -> Seq(CallStatus)]]
    BY <1>0, <1>1, WriteCDRType DEF handleOverloadedTask, Refuse
  <2>. QED
    BY <1>0, <1>1, <2>1 DEF handleOverloadedTask, Refuse, set_value, push
<1>2. CASE /\ queue_' = Append(queue_, c)
           /\ UNCHANGED <<cdr, promise, cdrFile>>
  BY <1>2 DEF push
<1>3. ASSUME NEW i \in Duplicates(c), Refuse(queue_[i], "Duplication"),
             queue_' = Append(RemoveAt(queue_, i), c)
      PROVE  QueueTypeOK'
  <2>1. i \in 1..Len(queue_) /\ queue_[i] \in Calls
    BY DEF Duplicates
  <2>2. /\ cdr' \in [Calls -> CallStatus \cup {NoStatus}]
        /\ cdrFile' \in [Recorders -> [Calls -> Seq(CallStatus)]]
    BY <1>0, <1>3, <2>1, WriteCDRType DEF Refuse
  <2>3. queue_' \in Seq(Calls)
    BY <1>3, <2>1, ReplaceFacts
  <2>. QED
    BY <1>0, <1>3, <2>1, <2>2, <2>3 DEF Refuse, set_value, push
<1>. QED
  BY <1>1, <1>2, <1>3 DEF push, handleTask

\* The calls that push leaves in the queue keep their order, and a new one
\* stands behind all of them.
LEMMA PushOrder ==
    ASSUME QueueTypeOK, NEW c \in Calls, push(c)
    PROVE  \A j1, j2 \in DOMAIN queue_' :
             j1 <= j2 =>
               \/ queue_'[j2] = c
               \/ \E i1, i2 \in DOMAIN queue_ :
                    i1 <= i2 /\ queue_'[j1] = queue_[i1] /\ queue_'[j2] = queue_[i2]
<1> USE DEF QueueTypeOK
<1> DEFINE n == Len(queue_)
<1>0. n \in Nat /\ DOMAIN queue_ = 1..n
  OBVIOUS
<1> SUFFICES ASSUME NEW j1 \in DOMAIN queue_', NEW j2 \in DOMAIN queue_', j1 <= j2
             PROVE  \/ queue_'[j2] = c
                    \/ \E i1, i2 \in DOMAIN queue_ :
                         i1 <= i2 /\ queue_'[j1] = queue_[i1] /\ queue_'[j2] = queue_[i2]
  OBVIOUS
<1>1. CASE handleOverloadedTask(c)
  BY <1>1 DEF handleOverloadedTask
<1>2. CASE queue_' = Append(queue_, c)
  <2>1. DOMAIN queue_' = 1..(n + 1) /\ queue_'[n + 1] = c /\ \A i \in 1..n : queue_'[i] = queue_[i]
    BY <1>2
  <2>2. CASE j2 = n + 1
    BY <2>1, <2>2
  <2>3. CASE j2 # n + 1
    <3> HIDE DEF n
    <3>1. j1 \in 1..n /\ j2 \in 1..n
      BY <1>0, <2>1, <2>3
    <3>. QED  BY <1>0, <2>1, <3>1
  <2>. QED  BY <2>2, <2>3
<1>3. ASSUME NEW k \in Duplicates(c), queue_' = Append(RemoveAt(queue_, k), c)
      PROVE  \/ queue_'[j2] = c
             \/ \E i1, i2 \in DOMAIN queue_ :
                  i1 <= i2 /\ queue_'[j1] = queue_[i1] /\ queue_'[j2] = queue_[i2]
  <2> DEFINE q == Append(RemoveAt(queue_, k), c)
  <2>1. k \in 1..n
    BY <1>0 DEF Duplicates
  <2>2. /\ q \in Seq(Calls) /\ Len(q) = n /\ q[n] = c
        /\ \A j \in 1..(n - 1) : q[j] = IF j < k THEN queue_[j] ELSE queue_[j + 1]
    BY <2>1, ReplaceFacts
  <2>3. queue_' = q
    BY <1>3
  <2> HIDE DEF q
  <2>4. DOMAIN queue_' = 1..n
    BY <2>2, <2>3
  <2>5. CASE j2 = n
    BY <2>2, <2>3, <2>5
  <2>6. CASE j2 # n
    <3> HIDE DEF n
    <3>1. j1 \in 1..(n - 1) /\ j2 \in 1..(n - 1)
      BY <1>0, <2>4, <2>6
    <3> DEFINE i1 == IF j1 < k THEN j1 ELSE j1 + 1
               i2 == IF j2 < k THEN j2 ELSE j2 + 1
    <3>2. i1 \in 1..n /\ i2 \in 1..n /\ i1 <= i2
      BY <1>0, <2>1, <3>1
    <3>3. queue_'[j1] = queue_[i1] /\ queue_'[j2] = queue_[i2]
      BY <2>2, <2>3, <3>1
    <3>. QED  BY <1>0, <3>2, <3>3
  <2>. QED  BY <2>5, <2>6
<1>4. \/ handleOverloadedTask(c)
      \/ queue_' = Append(queue_, c)
      \/ \E k \in Duplicates(c) : queue_' = Append(RemoveAt(queue_, k), c)
  BY DEF push, handleTask
<1>. QED
  BY <1>1, <1>2, <1>3, <1>4

\* push gives a call the same new status in its record and its promise, or
\* changes neither.
LEMMA PushAnswers ==
    ASSUME QueueTypeOK, NEW c \in Calls, push(c), NEW d \in Calls
    PROVE  \/ promise'[d] = promise[d] /\ cdr'[d] = cdr[d]
           \/ cdr'[d] = promise'[d] /\ promise'[d] \in {"Overloaded", "Duplication"}
<1> USE DEF QueueTypeOK, Refuse, writeCDR, set_value
<1>1. CASE handleOverloadedTask(c)
  BY <1>1 DEF handleOverloadedTask
<1>2. CASE UNCHANGED <<cdr, promise, cdrFile>>
  BY <1>2
<1>3. ASSUME NEW i \in Duplicates(c), Refuse(queue_[i], "Duplication")
      PROVE  \/ promise'[d] = promise[d] /\ cdr'[d] = cdr[d]
             \/ cdr'[d] = promise'[d] /\ promise'[d] \in {"Overloaded", "Duplication"}
  <2>1. queue_[i] \in Calls
    BY DEF Duplicates
  <2>. QED  BY <1>3, <2>1
<1>. QED
  BY <1>1, <1>2, <1>3 DEF push, handleTask

\* What push does, position by position.
LEMMA PushCases ==
    ASSUME QueueTypeOK, NEW c \in Calls, push(c)
    PROVE  LET n == Len(queue_)
           IN \/ /\ Len(queue_) >= sizeOfQueue
                 /\ queue_' = queue_ /\ promise' = [promise EXCEPT ![c] = "Overloaded"]
              \/ /\ Len(queue_) < sizeOfQueue
                 /\ queue_' \in Seq(Calls) /\ Len(queue_') = n + 1 /\ queue_'[n + 1] = c
                 /\ \A j \in 1..n : queue_'[j] = queue_[j]
                 /\ promise' = promise
                 /\ queue_' = Append(queue_, c)
                 /\ Duplicates(c) = {}
              \/ \E k \in 1..n :
                 /\ Len(queue_) < sizeOfQueue
                 /\ Number[queue_[k]] = Number[c]
                 /\ queue_' \in Seq(Calls) /\ Len(queue_') = n /\ queue_'[n] = c
                 /\ \A j \in 1..(n - 1) : queue_'[j] = IF j < k THEN queue_[j] ELSE queue_[j + 1]
                 /\ promise' = [promise EXCEPT ![queue_[k]] = "Duplication"]
                 /\ queue_' = Append(RemoveAt(queue_, k), c)
                 /\ k \in Duplicates(c) /\ \A j \in Duplicates(c) : k <= j
<1> USE DEF QueueTypeOK
<1> DEFINE n == Len(queue_)
<1>0. n \in Nat /\ DOMAIN queue_ = 1..n /\ sizeOfQueue \in Nat
  OBVIOUS
<1>1. CASE Overloaded /\ handleOverloadedTask(c)
  BY <1>1 DEF Overloaded, handleOverloadedTask, Refuse, set_value
<1>2. CASE ~Overloaded /\ Duplicates(c) = {} /\ queue_' = Append(queue_, c) /\ UNCHANGED answers
  <2>1. /\ queue_' \in Seq(Calls) /\ Len(queue_') = n + 1 /\ queue_'[n + 1] = c
        /\ \A j \in 1..n : queue_'[j] = queue_[j]
    BY <1>2
  <2>2. Len(queue_) < sizeOfQueue /\ promise' = promise
    BY <1>0, <1>2 DEF Overloaded
  <2>. QED  BY <1>2, <2>1, <2>2
<1>3. ASSUME ~Overloaded, NEW k \in Duplicates(c), \A j \in Duplicates(c) : k <= j,
             Refuse(queue_[k], "Duplication"), queue_' = Append(RemoveAt(queue_, k), c)
      PROVE  /\ Len(queue_) < sizeOfQueue /\ k \in 1..n
             /\ Number[queue_[k]] = Number[c]
             /\ queue_' \in Seq(Calls) /\ Len(queue_') = n /\ queue_'[n] = c
             /\ \A j \in 1..(n - 1) : queue_'[j] = IF j < k THEN queue_[j] ELSE queue_[j + 1]
             /\ promise' = [promise EXCEPT ![queue_[k]] = "Duplication"]
  <2>1. k \in 1..n /\ Number[queue_[k]] = Number[c]
    BY <1>0 DEF Duplicates
  <2>2. Len(queue_) < sizeOfQueue
    BY <1>0, <1>3 DEF Overloaded
  <2>3. promise' = [promise EXCEPT ![queue_[k]] = "Duplication"]
    BY <1>3 DEF Refuse, set_value
  <2>4. /\ queue_' \in Seq(Calls) /\ Len(queue_') = n /\ queue_'[n] = c
        /\ \A j \in 1..(n - 1) : queue_'[j] = IF j < k THEN queue_[j] ELSE queue_[j + 1]
    <3> DEFINE q == Append(RemoveAt(queue_, k), c)
    <3>1. /\ q \in Seq(Calls) /\ Len(q) = n /\ q[n] = c
          /\ \A j \in 1..(n - 1) : q[j] = IF j < k THEN queue_[j] ELSE queue_[j + 1]
      <4> HIDE DEF QueueTypeOK
      <4>1. queue_ \in Seq(Calls) /\ k \in 1..Len(queue_)
        BY <2>1 DEF QueueTypeOK
      <4>. QED  BY <4>1, ReplaceFacts
    <3>2. queue_' = q
      BY <1>3
    <3> HIDE DEF q
    <3>. QED  BY <3>1, <3>2
  <2>. QED  BY <2>1, <2>2, <2>3, <2>4
<1>. QED
  BY <1>1, <1>2, <1>3 DEF push, handleTask

InQueue(c) == \E i \in DOMAIN queue_ : queue_[i] = c

\* Where push leaves the calls, if none waits twice and the new one does not.
LEMMA PushPlaces ==
    ASSUME QueueTypeOK, NEW c \in Calls, push(c), ~InQueue(c),
           \A i, j \in DOMAIN queue_ : queue_[i] = queue_[j] => i = j
    PROVE  /\ \A i, j \in DOMAIN queue_' : queue_'[i] = queue_'[j] => i = j
           /\ \A d \in Calls :
                \/ d # c /\ (InQueue(d)' <=> InQueue(d)) /\ promise'[d] = promise[d]
                \/ /\ d # c /\ InQueue(d) /\ ~InQueue(d)' /\ promise'[d] = "Duplication"
                   /\ Number[d] = Number[c] /\ InQueue(c)'
                \/ d = c /\ InQueue(d)' /\ promise'[d] = promise[d]
                \/ d = c /\ ~InQueue(d)' /\ promise'[d] = "Overloaded"
<1> USE DEF QueueTypeOK, InQueue
<1> DEFINE n == Len(queue_)
<1>0. n \in Nat /\ DOMAIN queue_ = 1..n
  OBVIOUS
<1>1. CASE queue_' = queue_ /\ promise' = [promise EXCEPT ![c] = "Overloaded"]
  BY <1>1
<1>2. CASE /\ queue_' \in Seq(Calls) /\ Len(queue_') = n + 1 /\ queue_'[n + 1] = c
           /\ \A j \in 1..n : queue_'[j] = queue_[j]
           /\ promise' = promise
  <2> HIDE DEF n
  <2>1. DOMAIN queue_' = 1..(n + 1)
    BY <1>2
  <2>2. \A i \in 1..n : queue_[i] # c
    BY <1>0
  <2>3. \A i, j \in DOMAIN queue_' : queue_'[i] = queue_'[j] => i = j
    BY <1>0, <1>2, <2>1, <2>2
  <2>4. \A d \in Calls : InQueue(d)' <=> d = c \/ InQueue(d)
    <3>1. /\ n + 1 \in 1..(n + 1)
          /\ \A i \in 1..(n + 1) : i = n + 1 \/ i \in 1..n
          /\ \A i \in 1..n : i \in 1..(n + 1)
      BY <1>0
    <3>. QED  BY <1>0, <1>2, <2>1, <3>1
  <2>. QED  BY <1>2, <2>3, <2>4
<1>3. ASSUME NEW k \in 1..n,
             Number[queue_[k]] = Number[c],
             queue_' \in Seq(Calls) /\ Len(queue_') = n /\ queue_'[n] = c,
             \A j \in 1..(n - 1) : queue_'[j] = IF j < k THEN queue_[j] ELSE queue_[j + 1],
             promise' = [promise EXCEPT ![queue_[k]] = "Duplication"]
      PROVE  /\ \A i, j \in DOMAIN queue_' : queue_'[i] = queue_'[j] => i = j
             /\ \A d \in Calls :
                  \/ d # c /\ (InQueue(d)' <=> InQueue(d)) /\ promise'[d] = promise[d]
                  \/ /\ d # c /\ InQueue(d) /\ ~InQueue(d)' /\ promise'[d] = "Duplication"
                     /\ Number[d] = Number[c] /\ InQueue(c)'
                  \/ d = c /\ InQueue(d)' /\ promise'[d] = promise[d]
  <2> DEFINE Old(j) == IF j < k THEN j ELSE j + 1
             e == queue_[k]
  <2> HIDE DEF n
  <2>1. DOMAIN queue_' = 1..n /\ e \in Calls /\ n \in 1..n
    BY <1>0, <1>3
  <2>2. \A j \in 1..(n - 1) : Old(j) \in 1..n /\ Old(j) # k /\ queue_'[j] = queue_[Old(j)]
    BY <1>0, <1>3
  <2>3. \A i, j \in 1..(n - 1) : Old(i) = Old(j) => i = j
    BY <1>0
  <2>4. \A i \in 1..n : i # k => \E j \in 1..(n - 1) : Old(j) = i
    <3>1. SUFFICES ASSUME NEW i \in 1..n, i # k PROVE \E j \in 1..(n - 1) : Old(j) = i
      OBVIOUS
    <3>2. CASE i < k
      <4>1. i \in 1..(n - 1) /\ Old(i) = i
        BY <1>0, <1>3, <3>1, <3>2
      <4>. QED  BY <4>1
    <3>3. CASE ~(i < k)
      <4>1. i - 1 \in 1..(n - 1) /\ Old(i - 1) = i
        BY <1>0, <3>1, <3>3
      <4>. QED  BY <4>1
    <3>. QED  BY <3>2, <3>3
  <2> HIDE DEF Old
  <2>5. \A i \in 1..n : queue_[i] # c
    BY <1>0
  <2>6. \A i \in 1..n : i # n => i \in 1..(n - 1)
    BY <1>0
  <2>7. \A i, j \in DOMAIN queue_' : queue_'[i] = queue_'[j] => i = j
    BY <1>0, <1>3, <2>1, <2>2, <2>3, <2>5, <2>6
  <2>8. \A d \in Calls : InQueue(d)' <=> d = c \/ (InQueue(d) /\ d # e)
    <3>1. \A j \in 1..(n - 1) : j \in 1..n
      BY <1>0
    <3>2. ASSUME NEW d \in Calls, InQueue(d)'
          PROVE  d = c \/ (InQueue(d) /\ d # e)
      <4>1. PICK j \in 1..n : queue_'[j] = d
        BY <2>1, <3>2
      <4>2. CASE j # n
        <5>1. j \in 1..(n - 1) /\ Old(j) \in 1..n /\ Old(j) # k /\ queue_[Old(j)] = d
          BY <2>2, <2>6, <4>1, <4>2
        <5>. QED  BY <1>0, <1>3, <5>1
      <4>. QED  BY <1>3, <4>1, <4>2
    <3>3. ASSUME NEW d \in Calls, InQueue(d), d # e
          PROVE  InQueue(d)'
      <4>1. PICK i \in 1..n : queue_[i] = d
        BY <1>0, <3>3
      <4>2. PICK j \in 1..(n - 1) : Old(j) = i
        BY <2>4, <3>3, <4>1
      <4>. QED  BY <2>1, <2>2, <3>1, <4>1, <4>2
    <3>4. InQueue(c)'
      BY <1>3, <2>1
    <3>. QED  BY <3>2, <3>3, <3>4
  <2>9. InQueue(e) /\ e # c /\ Number[e] = Number[c] /\ promise'[e] = "Duplication"
    BY <1>0, <1>3, <2>1, <2>5
  <2>10. \A d \in Calls : d # e => promise'[d] = promise[d]
    BY <1>3, <2>1
  <2>11. InQueue(c)'
    BY <1>3, <2>1
  <2> HIDE DEF e, InQueue
  <2>12. ASSUME NEW d \in Calls
         PROVE  \/ d # c /\ (InQueue(d)' <=> InQueue(d)) /\ promise'[d] = promise[d]
                \/ /\ d # c /\ InQueue(d) /\ ~InQueue(d)' /\ promise'[d] = "Duplication"
                   /\ Number[d] = Number[c] /\ InQueue(c)'
                \/ d = c /\ InQueue(d)' /\ promise'[d] = promise[d]
    <3>1. CASE d = e
      BY <2>1, <2>8, <2>9, <2>11, <3>1
    <3>2. CASE d # e /\ d = c
      BY <2>8, <2>10, <3>2
    <3>3. CASE d # e /\ d # c
      <4>1. InQueue(d)' <=> InQueue(d)
        BY <2>8, <3>3
      <4>. QED  BY <2>10, <3>3, <4>1
    <3>. QED  BY <3>1, <3>2, <3>3
  <2>. QED  BY <2>7, <2>12
<1>. QED
  BY <1>1, <1>2, <1>3, PushCases

\* push keeps the numbers in the queue distinct: it erases the one call that
\* has the number of the new one.
LEMMA PushNumbers ==
    ASSUME QueueTypeOK, DistinctNumbers, NEW c \in Calls, push(c)
    PROVE  DistinctNumbers'
<1> USE DEF QueueTypeOK
<1> DEFINE n == Len(queue_)
<1>0. n \in Nat /\ DOMAIN queue_ = 1..n
  OBVIOUS
<1>1. CASE queue_' = queue_
  BY <1>1 DEF DistinctNumbers
<1>2. CASE /\ queue_' \in Seq(Calls) /\ Len(queue_') = n + 1 /\ queue_'[n + 1] = c
           /\ \A j \in 1..n : queue_'[j] = queue_[j]
           /\ Duplicates(c) = {}
  <2> HIDE DEF n
  <2>1. DOMAIN queue_' = 1..(n + 1) /\ \A j \in 1..(n + 1) : j = n + 1 \/ j \in 1..n
    BY <1>0, <1>2
  <2>2. \A j \in 1..n : Number[queue_'[j]] # Number[c]
    BY <1>0, <1>2 DEF Duplicates
  <2>3. SUFFICES ASSUME NEW i \in 1..(n + 1), NEW j \in 1..(n + 1),
                        Number[queue_'[i]] = Number[queue_'[j]]
                 PROVE  i = j
    BY <2>1 DEF DistinctNumbers
  <2>4. CASE i = n + 1 \/ j = n + 1
    BY <1>2, <2>1, <2>2, <2>3, <2>4
  <2>5. CASE i \in 1..n /\ j \in 1..n
    BY <1>0, <1>2, <2>3, <2>5 DEF DistinctNumbers
  <2>. QED  BY <2>1, <2>4, <2>5
<1>3. ASSUME NEW k \in 1..n, Number[queue_[k]] = Number[c],
             queue_' \in Seq(Calls), Len(queue_') = n, queue_'[n] = c,
             \A j \in 1..(n - 1) : queue_'[j] = IF j < k THEN queue_[j] ELSE queue_[j + 1]
      PROVE  DistinctNumbers'
  <2> HIDE DEF n
  <2> DEFINE Old(j) == IF j < k THEN j ELSE j + 1
  <2>1. DOMAIN queue_' = 1..n /\ \A j \in 1..n : j = n \/ j \in 1..(n - 1)
    BY <1>0, <1>3
  <2>2. \A j \in 1..(n - 1) : Old(j) \in 1..n /\ Old(j) # k /\ queue_'[j] = queue_[Old(j)]
    BY <1>0, <1>3
  <2>3. \A i, j \in 1..(n - 1) : Old(i) = Old(j) => i = j
    BY <1>0
  <2> HIDE DEF Old
  <2>4. ASSUME NEW j \in 1..(n - 1)
        PROVE  Number[queue_'[j]] # Number[c]
    <3>1. Old(j) \in DOMAIN queue_ /\ k \in DOMAIN queue_ /\ Old(j) # k
      BY <1>0, <2>2
    <3>. QED  BY <1>3, <2>2, <3>1 DEF DistinctNumbers
  <2>5. SUFFICES ASSUME NEW i \in 1..n, NEW j \in 1..n, Number[queue_'[i]] = Number[queue_'[j]]
                 PROVE  i = j
    BY <2>1 DEF DistinctNumbers
  <2>6. CASE i = n \/ j = n
    BY <1>3, <2>1, <2>4, <2>5, <2>6
  <2>7. CASE i \in 1..(n - 1) /\ j \in 1..(n - 1)
    <3>1. Old(i) = Old(j)
      BY <1>0, <2>2, <2>5, <2>7 DEF DistinctNumbers
    <3>. QED  BY <2>3, <2>7, <3>1
  <2>. QED  BY <2>1, <2>6, <2>7
<1>. QED
  BY <1>1, <1>2, <1>3, PushCases
=============================================================================
