---------------------------- MODULE ConfigProofs ----------------------------
(***************************************************************************)
(* Proofs about Config, for every content of the file, every number of     *)
(* update requests and every edit: what the normalisation returns, its     *)
(* types, that an update leaves values in range, that the manager can work *)
(* with what it reads and in the end works with the configuration, and     *)
(* that ThreadSafeConfig implements Config.                                *)
(***************************************************************************)
EXTENDS Config, TLAPS

-----------------------------------------------------------------------------
(* Normalisation.                                                          *)

\* What each field becomes.
LowOf(d) == Clamp(d["RMin"], 4, 100)
HighOf(d) == Clamp(d["RMax"], 5, 140)
AmountOf(d) == Clamp(d["AmountOfOperators"], 2, 80)
SizeOf(d) == Clamp(d["SizeOfQueue"], 15, 350)

\* What the four values are clamped to.
LEMMA ClampedFields ==
    ASSUME NEW d \in Data
    PROVE  /\ LowOf(d) \in 4..100 /\ (d["RMin"] \in 4..100 => LowOf(d) = d["RMin"])
           /\ HighOf(d) \in 5..140 /\ (d["RMax"] \in 5..140 => HighOf(d) = d["RMax"])
           /\ AmountOf(d) \in 2..80
           /\ d["AmountOfOperators"] \in 2..80 => AmountOf(d) = d["AmountOfOperators"]
           /\ SizeOf(d) \in 15..350
           /\ d["SizeOfQueue"] \in 15..350 => SizeOf(d) = d["SizeOfQueue"]
<1>1. /\ d["RMin"] \in Int /\ d["RMax"] \in Int
      /\ d["AmountOfOperators"] \in Int /\ d["SizeOfQueue"] \in Int
  BY DEF Data, Fields
<1>2. LowOf(d) \in 4..100 /\ (d["RMin"] \in 4..100 => LowOf(d) = d["RMin"])
  BY <1>1 DEF LowOf, Clamp
<1>3. HighOf(d) \in 5..140 /\ (d["RMax"] \in 5..140 => HighOf(d) = d["RMax"])
  BY <1>1 DEF HighOf, Clamp
<1>4. /\ AmountOf(d) \in 2..80
      /\ d["AmountOfOperators"] \in 2..80 => AmountOf(d) = d["AmountOfOperators"]
  BY <1>1 DEF AmountOf, Clamp
<1>5. /\ SizeOf(d) \in 15..350
      /\ d["SizeOfQueue"] \in 15..350 => SizeOf(d) = d["SizeOfQueue"]
  BY <1>1 DEF SizeOf, Clamp
<1>. QED
  BY <1>2, <1>3, <1>4, <1>5

\* What normalizeData makes of each field.
LEMMA NormalizeFacts ==
    ASSUME NEW d \in Data
    PROVE  /\ normalizeData(d) \in Data
           /\ normalizeData(d)["RMin"] = IF LowOf(d) > HighOf(d) THEN HighOf(d) ELSE LowOf(d)
           /\ normalizeData(d)["RMax"] = IF LowOf(d) > HighOf(d) THEN LowOf(d) ELSE HighOf(d)
           /\ normalizeData(d)["AmountOfOperators"] = AmountOf(d)
           /\ normalizeData(d)["SizeOfQueue"] = SizeOf(d)
<1> DEFINE a == normalizeRMinRMax(d)
           b == normalizeAmountOfOperators(a)
           n == normalizeSizeOfQueue(b)
<1>1. /\ LowOf(d) \in Int /\ HighOf(d) \in Int /\ AmountOf(d) \in Int /\ SizeOf(d) \in Int
  BY ClampedFields
<1>2. a = [d EXCEPT !["RMin"] = IF LowOf(d) > HighOf(d) THEN HighOf(d) ELSE LowOf(d),
                    !["RMax"] = IF LowOf(d) > HighOf(d) THEN LowOf(d) ELSE HighOf(d)]
  BY DEF normalizeRMinRMax, LowOf, HighOf
<1>3. /\ a \in Data
      /\ a["RMin"] = IF LowOf(d) > HighOf(d) THEN HighOf(d) ELSE LowOf(d)
      /\ a["RMax"] = IF LowOf(d) > HighOf(d) THEN LowOf(d) ELSE HighOf(d)
      /\ a["AmountOfOperators"] = d["AmountOfOperators"] /\ a["SizeOfQueue"] = d["SizeOfQueue"]
  BY <1>1, <1>2 DEF Data, Fields
<1>4. b = [a EXCEPT !["AmountOfOperators"] = AmountOf(a)]
  BY DEF normalizeAmountOfOperators, AmountOf
<1>5. AmountOf(a) = AmountOf(d)
  BY <1>3 DEF AmountOf
<1> HIDE DEF a
<1>6. /\ b \in Data /\ b["RMin"] = a["RMin"] /\ b["RMax"] = a["RMax"]
      /\ b["AmountOfOperators"] = AmountOf(d) /\ b["SizeOfQueue"] = d["SizeOfQueue"]
  BY <1>1, <1>3, <1>4, <1>5 DEF Data, Fields
<1>7. n = [b EXCEPT !["SizeOfQueue"] = SizeOf(b)]
  BY DEF normalizeSizeOfQueue, SizeOf
<1>8. SizeOf(b) = SizeOf(d)
  BY <1>6 DEF SizeOf
<1> HIDE DEF b
<1>9. /\ n \in Data /\ n["RMin"] = b["RMin"] /\ n["RMax"] = b["RMax"]
      /\ n["AmountOfOperators"] = b["AmountOfOperators"] /\ n["SizeOfQueue"] = SizeOf(d)
  BY <1>1, <1>6, <1>7, <1>8 DEF Data, Fields
<1>10. normalizeData(d) = n
  BY DEF normalizeData, a, b
<1> HIDE DEF n
<1>. QED
  BY <1>3, <1>6, <1>9, <1>10

\* The ranges of the four normalised fields.
LEMMA NormalizedFields ==
    ASSUME NEW d \in Data
    PROVE  LET n == normalizeData(d)
           IN  /\ n \in Data
               /\ n["RMin"] \in 4..100 /\ n["RMax"] \in 5..140
               /\ n["RMin"] <= n["RMax"] /\ ~(n["RMin"] > n["RMax"])
               /\ n["AmountOfOperators"] \in 2..80 /\ n["SizeOfQueue"] \in 15..350
<1> DEFINE n == normalizeData(d)
<1>1. /\ LowOf(d) \in 4..100 /\ HighOf(d) \in 5..140
      /\ AmountOf(d) \in 2..80 /\ SizeOf(d) \in 15..350
  BY ClampedFields
<1>2. /\ n \in Data
      /\ n["RMin"] = IF LowOf(d) > HighOf(d) THEN HighOf(d) ELSE LowOf(d)
      /\ n["RMax"] = IF LowOf(d) > HighOf(d) THEN LowOf(d) ELSE HighOf(d)
      /\ n["AmountOfOperators"] = AmountOf(d) /\ n["SizeOfQueue"] = SizeOf(d)
  BY NormalizeFacts
<1> HIDE DEF n
<1>3. /\ n["RMin"] \in 4..100 /\ n["RMax"] \in 5..140
      /\ n["RMin"] <= n["RMax"] /\ ~(n["RMin"] > n["RMax"])
  <2>1. CASE LowOf(d) > HighOf(d)
    BY <1>1, <1>2, <2>1
  <2>2. CASE ~(LowOf(d) > HighOf(d))
    BY <1>1, <1>2, <2>2
  <2>. QED  BY <2>1, <2>2
<1>. QED
  BY <1>1, <1>2, <1>3 DEF n

\* config.cpp:327-383: whatever was parsed, the normalised values are in range.
\* The lower bound is at least 4 also if the two are exchanged.
THEOREM NormalizedInRange == \A d \in Data : InRange(normalizeData(d))
<1> SUFFICES ASSUME NEW d \in Data PROVE InRange(normalizeData(d))
  OBVIOUS
<1> DEFINE n == normalizeData(d)
<1>1. /\ n["RMin"] \in 4..100 /\ n["RMax"] \in 5..140 /\ n["RMin"] <= n["RMax"]
      /\ n["AmountOfOperators"] \in 2..80 /\ n["SizeOfQueue"] \in 15..350
  BY NormalizedFields
<1> HIDE DEF n
<1>2. InRange(n)
  BY <1>1 DEF InRange
<1>. QED
  BY <1>2 DEF n

\* Normalised values pass through: to normalise twice is to normalise once,
\* although the two bounds may have been exchanged.
THEOREM NormalizeIdempotent == \A d \in Data : normalizeData(normalizeData(d)) = normalizeData(d)
<1> SUFFICES ASSUME NEW d \in Data PROVE normalizeData(normalizeData(d)) = normalizeData(d)
  OBVIOUS
<1> DEFINE n == normalizeData(d)
           m == normalizeData(n)
<1>1. /\ n \in Data
      /\ n["RMin"] \in 4..100 /\ n["RMax"] \in 5..140 /\ ~(n["RMin"] > n["RMax"])
      /\ n["AmountOfOperators"] \in 2..80 /\ n["SizeOfQueue"] \in 15..350
  BY NormalizedFields
<1> HIDE DEF n
<1>2. /\ m \in Data
      /\ m["RMin"] = n["RMin"] /\ m["RMax"] = n["RMax"]
      /\ m["AmountOfOperators"] = n["AmountOfOperators"] /\ m["SizeOfQueue"] = n["SizeOfQueue"]
  <2>1. /\ LowOf(n) = n["RMin"] /\ HighOf(n) = n["RMax"]
        /\ AmountOf(n) = n["AmountOfOperators"] /\ SizeOf(n) = n["SizeOfQueue"]
    BY <1>1, ClampedFields
  <2>. QED
    BY <1>1, <2>1, NormalizeFacts
<1> HIDE DEF m
<1>3. \A f \in Fields : m[f] = n[f]
  BY <1>2 DEF Fields
<1>4. m = n
  BY <1>1, <1>2, <1>3 DEF Data
<1>. QED
  BY <1>4 DEF m, n

\* Both classes normalise alike.
LEMMA NormalizeAlike ==
    ASSUME NEW d \in Data
    PROVE  normalizeData(d) = Plain!normalizeData(d)
<1> DEFINE n == normalizeData(d)
           m == Plain!normalizeData(d)
<1>1. /\ d["RMin"] \in Int /\ d["RMax"] \in Int
      /\ d["AmountOfOperators"] \in Int /\ d["SizeOfQueue"] \in Int
  BY DEF Data, Fields
<1>2. /\ LowOf(d) = Plain!Within(d["RMin"], 4, 100)
      /\ HighOf(d) = Plain!Within(d["RMax"], 5, 140)
      /\ AmountOf(d) = Plain!Within(d["AmountOfOperators"], 2, 80)
      /\ SizeOf(d) = Plain!Within(d["SizeOfQueue"], 15, 350)
  BY <1>1 DEF LowOf, HighOf, AmountOf, SizeOf, Clamp, Plain!Within
<1>3. LowOf(d) \in Int /\ HighOf(d) \in Int
  BY ClampedFields
<1>4. /\ m["RMin"] = IF LowOf(d) <= HighOf(d) THEN LowOf(d) ELSE HighOf(d)
      /\ m["RMax"] = IF LowOf(d) <= HighOf(d) THEN HighOf(d) ELSE LowOf(d)
      /\ m["AmountOfOperators"] = AmountOf(d)
      /\ m["SizeOfQueue"] = SizeOf(d)
  BY <1>2 DEF Plain!normalizeData, Plain!Fields
<1>7. m = [x \in Fields |-> m[x]]
  BY DEF Plain!normalizeData, Plain!Fields, Fields
<1> HIDE DEF m
<1>5. \A f \in Fields : n[f] = m[f]
  BY <1>3, <1>4, NormalizeFacts DEF Fields
<1>6. n = [x \in Fields |-> n[x]]
  BY NormalizeFacts DEF Data
<1> HIDE DEF n
<1>8. n = m
  BY <1>5, <1>6, <1>7
<1>. QED
  BY <1>8 DEF n, m

-----------------------------------------------------------------------------
(* Files.                                                                  *)

\* Whatever a file lacks, what is made of it is Data; and the constructors of
\* both classes know the same values for a file that they cannot read.
LEMMA ParsedData ==
    /\ \A v \in Contents : outputConfig(v) \in Data
    /\ DefaultData \in Data /\ InRange(DefaultData)
<1>1. ASSUME NEW v \in Contents PROVE outputConfig(v) \in Data
  BY ParserAssumption DEF outputConfig, Data
<1>2. DefaultData \in Data
  BY DEF DefaultData, Data, Fields
<1>3. InRange(DefaultData)
  BY DEF InRange, DefaultData, Fields
<1>. QED
  BY <1>1, <1>2, <1>3

-----------------------------------------------------------------------------
(* The steps.                                                              *)

\* Everybody's steps, those of monitor and requests together.
LEMMA NextCases ==
    ASSUME ConfigNext
    PROVE  \/ Tick \/ Edit \/ RunMonitoring \/ Poll \/ StampMonitor
           \/ \E t \in Threads : UpdateConfigLock(t) \/ updateConfig(t) \/ notify(t)
           \/ \E r \in Requests : updateWithRequest(r) \/ StampRequest(r) \/ isUpdated(r)
BY DEF ConfigNext, updateConfigThread, processRequestForUpdate, Common, Threads

\* updateConfig is the one step that changes data_, to what it reads.
DataStep(t) ==
    /\ pc[t] = "parse"
    /\ HasOutput(file)
    /\ data_' = normalizeData(outputConfig(file))
    /\ UNCHANGED <<file, notToUpdate>>

\* A step changes the configuration only as updateConfig does, and the file
\* only as somebody edits it.
LEMMA DataChange ==
    ASSUME [ConfigNext]_configVars
    PROVE  (data_' = data_ /\ (file' = file \/ file' \in Edits)) \/ \E t \in Threads : DataStep(t)
<1>1. ASSUME NEW t \in Threads, updateConfig(t)
      PROVE  (data_' = data_ /\ file' = file) \/ DataStep(t)
  BY <1>1 DEF updateConfig, DataStep, GoTo, config, fileVars
<1>2. ASSUME NEW t \in Threads, UpdateConfigLock(t) \/ notify(t)
      PROVE  data_' = data_ /\ file' = file
  BY <1>2 DEF UpdateConfigLock, notify, UpdateLock, getMinMax, getSizeOfQueue, CompareAmount,
     getAmountOfOperators, Read, GoTo, config, fileVars
<1>3. CASE Tick \/ Edit \/ UNCHANGED configVars
  BY <1>3 DEF Tick, Edit, configVars, serverVars, config, fileVars
<1>4. CASE RunMonitoring \/ Poll \/ StampMonitor
  BY <1>4 DEF RunMonitoring, Poll, lastTime, StampMonitor, Stamp, GoTo, config, fileVars
<1>5. ASSUME NEW r \in Requests, updateWithRequest(r) \/ StampRequest(r) \/ isUpdated(r)
      PROVE  data_' = data_ /\ file' = file
  BY <1>5 DEF updateWithRequest, StampRequest, Stamp, isUpdated, GoTo, config, fileVars
<1>. QED
  BY <1>1, <1>2, <1>3, <1>4, <1>5, NextCases

-----------------------------------------------------------------------------
(* Types.                                                                  *)

ThreadStates ==
    {"start", "lock", "parse", "notify", "minMax", "size", "compare",
     "build", "stamp", "isUpdated", "sleep", "done", "ended"}

\* What is true of the places of threads after one of them moves.
LEMMA Moved ==
    ASSUME pc \in [Threads -> ThreadStates], NEW t \in Threads,
           NEW from, NEW to \in ThreadStates, GoTo(t, from, to)
    PROVE  /\ pc' \in [Threads -> ThreadStates]
           /\ pc[t] = from /\ pc'[t] = to
           /\ \A u \in Threads : u # t => pc'[u] = pc[u]
           /\ UNCHANGED <<file, mtime, now, notToUpdate>>
BY DEF GoTo, fileVars

\* The file, the values and the times.
ValueTypes ==
    /\ file \in Contents \cup {Broken, Missing}
    /\ mtime \in Nat /\ now \in Nat /\ mtime <= now
    /\ data_ \in Data
    /\ updated \in BOOLEAN /\ notToUpdate \in BOOLEAN
    /\ lastWriteTime \in Nat /\ currentWriteTime \in Nat
    /\ RMin_ \in Int /\ RMax_ \in Int /\ sizeOfQueue \in Int /\ size \in Int
    /\ parsed \in [Threads -> BOOLEAN]
    /\ reply \in [Requests -> {"none", "Updated", "Could not update"}]

\* The threads and the two mutexes.
ThreadTypes ==
    /\ pc \in [Threads -> ThreadStates]
    /\ configMutex \in Threads \cup {NoOne}
    /\ \A t \in Threads : configMutex = t <=> pc[t] = "parse"
    /\ updateMtx \in Threads \cup {NoOne}
    /\ \A t \in Threads : updateMtx = t <=> Updating(t)

\* Every step keeps the types of the values.
LEMMA ValueStep ==
    ASSUME ValueTypes, [ConfigNext]_configVars
    PROVE  ValueTypes'
<1>1. data_["RMin"] \in Int /\ data_["RMax"] \in Int
      /\ data_["AmountOfOperators"] \in Int /\ data_["SizeOfQueue"] \in Int
  BY DEF ValueTypes, Data, Fields
<1>0. /\ file \in Contents \cup {Broken, Missing}
      /\ mtime \in Nat /\ now \in Nat /\ mtime <= now
  BY DEF ValueTypes
<1>2. data_' \in Data
  <2>1. CASE data_' = data_
    BY <2>1 DEF ValueTypes
  <2>2. ASSUME NEW t \in Threads, DataStep(t)
        PROVE  data_' \in Data
    BY <2>2, ParsedData, NormalizeFacts DEF DataStep, HasOutput, Parses
  <2>. QED
    BY <2>1, <2>2, DataChange
<1>3. CASE Tick \/ Edit \/ UNCHANGED configVars
  <2>1. /\ UNCHANGED <<updated, notToUpdate, times, managed, results>>
        /\ UNCHANGED fileVars \/ Tick \/ Edit
    BY <1>3 DEF Tick, Edit, configVars, serverVars, config
  <2>2. /\ file' \in Contents \cup {Broken, Missing}
        /\ mtime' \in Nat /\ now' \in Nat /\ mtime' <= now'
    <3>1. CASE UNCHANGED fileVars
      BY <3>1 DEF ValueTypes, fileVars
    <3>2. CASE Tick
      <4>1. file' = file /\ mtime' = mtime /\ now' = now + 1
        BY <3>2 DEF Tick
      <4>. QED
        BY <1>0, <4>1
    <3>3. CASE Edit
      <4>1. file' \in Edits /\ mtime' = now /\ now' = now
        BY <3>3 DEF Edit
      <4>2. file' \in Contents \cup {Broken, Missing}
        BY <4>1, ParserAssumption
      <4>. QED
        BY <1>0, <4>1, <4>2
    <3>. QED
      BY <2>1, <3>1, <3>2, <3>3
  <2>. QED
    BY <1>2, <2>1, <2>2 DEF ValueTypes, times, managed, results
<1>4. CASE RunMonitoring \/ Poll \/ StampMonitor
  BY <1>2, <1>4 DEF ValueTypes, RunMonitoring, Poll, lastTime, StampMonitor, Stamp, GoTo,
     config, fileVars, managed, results
<1>5. ASSUME NEW t \in Threads, UpdateConfigLock(t) \/ updateConfig(t)
      PROVE  ValueTypes'
  <2>1. HasOutput(file) \in BOOLEAN
    BY DEF HasOutput, Parses
  <2>. QED
    BY <1>2, <1>5, <2>1 DEF ValueTypes, UpdateConfigLock, updateConfig, GoTo,
       config, fileVars, times, managed, results
<1>6. ASSUME NEW t \in Threads, notify(t)
      PROVE  ValueTypes'
  BY <1>1, <1>2, <1>6 DEF ValueTypes, notify, UpdateLock, getMinMax, getSizeOfQueue,
     CompareAmount, getAmountOfOperators, Read, GoTo, config, fileVars, times, managed, results
<1>7. ASSUME NEW r \in Requests, updateWithRequest(r) \/ StampRequest(r) \/ isUpdated(r)
      PROVE  ValueTypes'
  BY <1>2, <1>7 DEF ValueTypes, updateWithRequest, StampRequest, Stamp, isUpdated, GoTo,
     config, fileVars, times, managed, results
<1>. QED
  BY <1>3, <1>4, <1>5, <1>6, <1>7, NextCases

\* Every step keeps the places of the threads and the mutexes in agreement.
LEMMA ThreadStep ==
    ASSUME ThreadTypes, [ConfigNext]_configVars
    PROVE  ThreadTypes'
<1>1. NoOne \notin Threads /\ Monitor \in Threads /\ Requests \subseteq Threads
  BY ConfigAssumption DEF Threads
<1>2. CASE Tick \/ Edit \/ UNCHANGED configVars
  BY <1>2 DEF ThreadTypes, Updating, Tick, Edit, configVars, serverVars
<1>3. ASSUME NEW t \in Threads, NEW from \in ThreadStates, NEW to \in ThreadStates,
             GoTo(t, from, to), UNCHANGED <<configMutex, updateMtx>>,
             from = "parse" <=> to = "parse",
             from \in {"minMax", "size", "compare", "build"}
               <=> to \in {"minMax", "size", "compare", "build"}
      PROVE  ThreadTypes'
  <2>1. /\ pc' \in [Threads -> ThreadStates] /\ pc[t] = from /\ pc'[t] = to
        /\ \A u \in Threads : u # t => pc'[u] = pc[u]
    BY <1>3, Moved DEF ThreadTypes
  <2>. QED
    BY <1>3, <2>1 DEF ThreadTypes, Updating
<1>4. CASE RunMonitoring \/ Poll \/ StampMonitor
  <2>1. UNCHANGED <<configMutex, updateMtx>>
    BY <1>4 DEF RunMonitoring, Poll, lastTime, StampMonitor, Stamp
  <2>2. \/ GoTo(Monitor, "start", "ended") \/ GoTo(Monitor, "start", "sleep")
        \/ GoTo(Monitor, "sleep", "ended") \/ GoTo(Monitor, "sleep", "lock")
        \/ GoTo(Monitor, "stamp", "sleep")
    BY <1>4 DEF RunMonitoring, Poll, lastTime, StampMonitor, Stamp
  <2>. QED
    BY <1>1, <1>3, <2>1, <2>2 DEF ThreadStates
<1>5. ASSUME NEW r \in Requests, updateWithRequest(r) \/ StampRequest(r) \/ isUpdated(r)
      PROVE  ThreadTypes'
  <2>1. UNCHANGED <<configMutex, updateMtx>>
    BY <1>5 DEF updateWithRequest, StampRequest, Stamp, isUpdated
  <2>2. \/ GoTo(r, "start", "isUpdated") \/ GoTo(r, "start", "lock")
        \/ GoTo(r, "stamp", "isUpdated") \/ GoTo(r, "isUpdated", "done")
    BY <1>5 DEF updateWithRequest, StampRequest, Stamp, isUpdated
  <2>. QED
    BY <1>1, <1>3, <2>1, <2>2 DEF ThreadStates
<1>6. ASSUME NEW t \in Threads, UpdateConfigLock(t) \/ updateConfig(t)
      PROVE  ThreadTypes'
  <2>1. CASE UpdateConfigLock(t)
    <3>1. /\ pc' \in [Threads -> ThreadStates] /\ pc[t] = "lock" /\ pc'[t] = "parse"
          /\ \A u \in Threads : u # t => pc'[u] = pc[u]
      BY <2>1, Moved DEF UpdateConfigLock, ThreadTypes, ThreadStates
    <3>. QED
      BY <1>1, <2>1, <3>1 DEF UpdateConfigLock, ThreadTypes, Updating
  <2>2. CASE updateConfig(t)
    <3>1. /\ pc' \in [Threads -> ThreadStates] /\ pc[t] = "parse" /\ pc'[t] = "notify"
          /\ \A u \in Threads : u # t => pc'[u] = pc[u]
      BY <2>2, Moved DEF updateConfig, ThreadTypes, ThreadStates
    <3>2. configMutex' = NoOne /\ updateMtx' = updateMtx
      BY <2>2 DEF updateConfig, UnlockConfigMutex
    <3>. QED
      BY <1>1, <3>1, <3>2 DEF ThreadTypes, Updating
  <2>. QED
    BY <1>6, <2>1, <2>2
<1>7. ASSUME NEW t \in Threads, notify(t)
      PROVE  ThreadTypes'
  <2>1. configMutex' = configMutex
    BY <1>7 DEF notify, UpdateLock, getMinMax, getSizeOfQueue, CompareAmount,
       getAmountOfOperators, Read
  <2>2. CASE UpdateLock(t)
    <3>1. /\ pc' \in [Threads -> ThreadStates] /\ pc[t] = "notify" /\ pc'[t] = "minMax"
          /\ \A u \in Threads : u # t => pc'[u] = pc[u]
      BY <2>2, Moved DEF UpdateLock, ThreadTypes, ThreadStates
    <3>. QED
      BY <1>1, <2>1, <2>2, <3>1 DEF UpdateLock, ThreadTypes, Updating
  <2>3. CASE \/ GoTo(t, "minMax", "size") \/ GoTo(t, "size", "compare")
             \/ GoTo(t, "compare", "build")
    <3>1. pc[t] \in {"minMax", "size", "compare"} /\ pc' = [pc EXCEPT ![t] = pc'[t]]
      BY <2>3 DEF GoTo, ThreadTypes
    <3>2. pc'[t] \in {"size", "compare", "build"}
      BY <2>3 DEF GoTo, ThreadTypes
    <3>3. ~UpdateLock(t) /\ ~getAmountOfOperators(t)
      BY <3>1 DEF UpdateLock, getAmountOfOperators, Read, GoTo
    <3>4. ~Read(t, "compare", "stamp")
      BY <3>2 DEF Read, GoTo, ThreadTypes
    <3>5. updateMtx' = updateMtx
      BY <1>7, <3>3, <3>4 DEF notify, getMinMax, getSizeOfQueue, CompareAmount
    <3>. QED
      BY <1>3, <2>1, <2>3, <3>5 DEF ThreadStates
  <2>4. CASE \E from \in {"compare", "build"} : GoTo(t, from, "stamp") /\ updateMtx' = NoOne
    <3>1. PICK from \in {"compare", "build"} : GoTo(t, from, "stamp") /\ updateMtx' = NoOne
      BY <2>4
    <3>2. /\ pc' \in [Threads -> ThreadStates] /\ pc[t] = from /\ pc'[t] = "stamp"
          /\ \A u \in Threads : u # t => pc'[u] = pc[u]
      BY <3>1, Moved DEF ThreadTypes, ThreadStates
    <3>. QED
      BY <1>1, <2>1, <3>1, <3>2 DEF ThreadTypes, Updating
  <2>. QED
    BY <1>7, <2>2, <2>3, <2>4 DEF notify, getMinMax, getSizeOfQueue, CompareAmount,
       getAmountOfOperators, Read, UnlockUpdateMtx
<1>. QED
  BY <1>2, <1>4, <1>5, <1>6, <1>7, NextCases

\* Both are inductive, each by itself.
LEMMA ConfigTypes == ConfigSpec => [](ValueTypes /\ ThreadTypes)
<1>1. ConfigInit => ValueTypes /\ ThreadTypes
  <2> SUFFICES ASSUME ConfigInit PROVE ValueTypes /\ ThreadTypes
    OBVIOUS
  <2>1. data_ \in Data
    BY ParsedData DEF ConfigInit, Parses
  <2>2. /\ data_["RMin"] \in Int /\ data_["RMax"] \in Int
        /\ data_["AmountOfOperators"] \in Int /\ data_["SizeOfQueue"] \in Int
    BY <2>1 DEF Data, Fields
  <2>3. notToUpdate \in BOOLEAN
    BY DEF ConfigInit, Parses
  <2>4. file \in Contents \cup {Broken, Missing}
    BY ParserAssumption DEF ConfigInit
  <2>6. /\ RMin_ \in Int /\ RMax_ \in Int /\ sizeOfQueue \in Int /\ size \in Int
        /\ parsed \in [Threads -> BOOLEAN]
        /\ reply \in [Requests -> {"none", "Updated", "Could not update"}]
    BY <2>2 DEF ConfigInit
  <2>7. mtime = 0 /\ now = 0 /\ updated = FALSE /\ lastWriteTime = 0 /\ currentWriteTime = 0
    BY DEF ConfigInit
  <2>8. ValueTypes
    <3>1. mtime \in Nat /\ now \in Nat /\ mtime <= now /\ lastWriteTime \in Nat /\ currentWriteTime \in Nat
      BY <2>7
    <3>2. updated \in BOOLEAN
      BY <2>7
    <3>. QED
      BY <2>1, <2>3, <2>4, <2>6, <3>1, <3>2 DEF ValueTypes
  <2>5. ThreadTypes
    BY ConfigAssumption DEF ConfigInit, ThreadTypes, ThreadStates, Updating, Threads
  <2>. QED
    BY <2>5, <2>8
<1>2. ValueTypes /\ ThreadTypes /\ [ConfigNext]_configVars => (ValueTypes /\ ThreadTypes)'
  BY ValueStep, ThreadStep
<1>. QED
  BY <1>1, <1>2, PTL DEF ConfigSpec

\* The types of everything, and each of the two mutexes is held by a thread
\* exactly while it is in the code that it guards.
THEOREM ConfigTypeCorrectness == ConfigSpec => []ConfigTypeOK
<1>1. ValueTypes /\ ThreadTypes => ConfigTypeOK
  BY DEF ValueTypes, ThreadTypes, ConfigTypeOK, ThreadStates
<1>. QED
  BY <1>1, ConfigTypes, PTL

-----------------------------------------------------------------------------
(* The values that the manager works with.                                 *)

\* Only the getters change them, each to what the configuration has.
LEMMA ManagedChange ==
    ASSUME [ConfigNext]_configVars
    PROVE  /\ UNCHANGED <<RMin_, RMax_>> \/ (RMin_' = data_["RMin"] /\ RMax_' = data_["RMax"])
           /\ sizeOfQueue' = sizeOfQueue \/ sizeOfQueue' = data_["SizeOfQueue"]
           /\ size' = size \/ size' = data_["AmountOfOperators"]
<1>1. CASE UNCHANGED managed
  BY <1>1 DEF managed
<1>2. ASSUME NEW t \in Threads, getMinMax(t) \/ getSizeOfQueue(t) \/ getAmountOfOperators(t)
      PROVE  /\ UNCHANGED <<RMin_, RMax_>> \/ (RMin_' = data_["RMin"] /\ RMax_' = data_["RMax"])
             /\ sizeOfQueue' = sizeOfQueue \/ sizeOfQueue' = data_["SizeOfQueue"]
             /\ size' = size \/ size' = data_["AmountOfOperators"]
  BY <1>2 DEF getMinMax, getSizeOfQueue, getAmountOfOperators
<1>3. CASE Tick \/ Edit \/ RunMonitoring \/ Poll \/ StampMonitor \/ UNCHANGED configVars
  <2>1. UNCHANGED managed
    BY <1>3 DEF Tick, Edit, RunMonitoring, Poll, lastTime, StampMonitor, Stamp, configVars,
       serverVars
  <2>. QED
    BY <1>1, <2>1
<1>4. ASSUME NEW t \in Threads,
             UpdateConfigLock(t) \/ updateConfig(t) \/ UpdateLock(t) \/ CompareAmount(t)
      PROVE  UNCHANGED managed
  BY <1>4 DEF UpdateConfigLock, updateConfig, UpdateLock, CompareAmount
<1>5. ASSUME NEW r \in Requests, updateWithRequest(r) \/ StampRequest(r) \/ isUpdated(r)
      PROVE  UNCHANGED managed
  BY <1>5 DEF updateWithRequest, StampRequest, Stamp, isUpdated
<1>. QED
  BY <1>1, <1>2, <1>3, <1>4, <1>5, NextCases DEF notify

UsableData(d) == Usable(d["RMin"], d["RMax"], d["AmountOfOperators"], d["SizeOfQueue"])

\* What is in the configuration can be used, and so can what was read of it.
UsableInv ==
    FirstUsable => UsableData(data_) /\ Usable(RMin_, RMax_, size, sizeOfQueue)

\* The configuration can be used after every step, if it could before.
LEMMA UsableChange ==
    ASSUME ValueTypes, [ConfigNext]_configVars, UsableData(data_)
    PROVE  UsableData(data_')
<1>1. CASE data_' = data_
  BY <1>1
<1>2. ASSUME NEW t \in Threads, DataStep(t)
      PROVE  UsableData(data_')
  <2>1. data_' \in Data /\ InRange(data_')
    BY <1>2, ParsedData, NormalizeFacts, NormalizedInRange DEF DataStep, HasOutput, Parses
  <2>. QED
    BY <2>1 DEF InRange, UsableData, Usable, Data, Fields
<1>. QED
  BY <1>1, <1>2, DataChange

\* UsableInv is inductive.
LEMMA UsableInvariance == ConfigSpec => []UsableInv
<1>1. ConfigInit => UsableInv
  <2> SUFFICES ASSUME ConfigInit, FirstUsable
               PROVE  UsableData(data_) /\ Usable(RMin_, RMax_, size, sizeOfQueue)
    BY DEF UsableInv
  <2>1. CASE Parses(file)
    <3>1. UsableData(outputConfig(file))
      BY <2>1 DEF ConfigInit, Parses, FirstUsable, UsableData
    <3>2. data_ = outputConfig(file)
      BY <2>1 DEF ConfigInit
    <3>. QED
      BY <3>1, <3>2 DEF ConfigInit, UsableData
  <2>2. CASE ~Parses(file)
    <3>1. UsableData(DefaultData)
      BY ParsedData DEF UsableData, Usable, InRange, Data, Fields
    <3>2. data_ = DefaultData
      BY <2>2 DEF ConfigInit
    <3>. QED
      BY <3>1, <3>2 DEF ConfigInit, UsableData
  <2>. QED
    BY <2>1, <2>2
<1>2. UsableInv /\ ValueTypes /\ [ConfigNext]_configVars => UsableInv'
  <2> SUFFICES ASSUME UsableInv, ValueTypes, [ConfigNext]_configVars, FirstUsable
               PROVE  UsableData(data_') /\ Usable(RMin_', RMax_', size', sizeOfQueue')
    BY DEF UsableInv, FirstUsable, UsableData
  <2>1. UsableData(data_) /\ Usable(RMin_, RMax_, size, sizeOfQueue)
    BY DEF UsableInv
  <2>2. UsableData(data_')
    BY <2>1, UsableChange
  <2>3. Usable(RMin_', RMax_', size', sizeOfQueue')
    BY <2>1, ManagedChange DEF UsableData, Usable
  <2>. QED
    BY <2>2, <2>3
<1>. QED
  BY <1>1, <1>2, ConfigTypes, PTL DEF ConfigSpec

\* If the first file is usable, the manager works with values that it can use,
\* whatever is written into the file later and whenever update() reads it.
THEOREM AlwaysUsable == ConfigSpec => []ManagedUsable
<1>1. UsableInv => ManagedUsable
  BY DEF UsableInv, ManagedUsable
<1>. QED
  BY <1>1, UsableInvariance, PTL

\* Whatever is written into the file, an update leaves values in range.
THEOREM UpdatesAlwaysInRange == ConfigSpec => UpdatesInRange
<1>1. [ConfigNext]_configVars => [data_' # data_ => InRange(data_')]_configVars
  <2> SUFFICES ASSUME [ConfigNext]_configVars, data_' # data_ PROVE InRange(data_')
    OBVIOUS
  <2>1. PICK t \in Threads : DataStep(t)
    BY DataChange
  <2>. QED
    BY <2>1, ParsedData, NormalizedInRange DEF DataStep, HasOutput, Parses
<1>. QED
  BY <1>1, PTL DEF ConfigSpec, UpdatesInRange

-----------------------------------------------------------------------------
(* The configuration is applied.                                           *)

\* Some thread is in one of these places.
Pending(places) == \E t \in Threads : pc[t] \in places

BeforeMinMax == {"notify", "minMax"}
BeforeSize == {"notify", "minMax", "size"}
BeforeAmount == {"notify", "minMax", "size", "compare", "build"}

\* Between a change of the configuration and the end of the update that it
\* causes, some thread has still to read each value that differs.
BoundsQuiet == Pending(BeforeMinMax) \/ (RMin_ = data_["RMin"] /\ RMax_ = data_["RMax"])
SizeQuiet == Pending(BeforeSize) \/ sizeOfQueue = data_["SizeOfQueue"]
AmountQuiet == Pending(BeforeAmount) \/ size = data_["AmountOfOperators"]

QuietInv == BoundsQuiet /\ SizeQuiet /\ AmountQuiet

\* A thread that stays in the places, or was not there, leaves somebody there.
LEMMA PendingKept ==
    ASSUME pc \in [Threads -> ThreadStates], NEW t \in Threads,
           NEW from, NEW to \in ThreadStates, GoTo(t, from, to),
           NEW places, from \in places => to \in places, Pending(places) \/ to \in places
    PROVE  Pending(places)'
<1>1. /\ pc[t] = from /\ pc'[t] = to
      /\ \A u \in Threads : u # t => pc'[u] = pc[u]
  BY Moved
<1>. QED
  BY <1>1 DEF Pending

\* A step in which a thread moves and no value changes.
LEMMA QuietMove ==
    ASSUME pc \in [Threads -> ThreadStates], QuietInv, NEW t \in Threads,
           NEW from, NEW to \in ThreadStates, GoTo(t, from, to),
           from \in BeforeMinMax => to \in BeforeMinMax,
           from \in BeforeSize => to \in BeforeSize,
           from \in BeforeAmount => to \in BeforeAmount,
           data_' = data_, UNCHANGED managed
    PROVE  QuietInv'
<1>1. BoundsQuiet'
  BY PendingKept DEF QuietInv, BoundsQuiet, managed
<1>2. SizeQuiet'
  BY PendingKept DEF QuietInv, SizeQuiet, managed
<1>3. AmountQuiet'
  BY PendingKept DEF QuietInv, AmountQuiet, managed
<1>. QED
  BY <1>1, <1>2, <1>3 DEF QuietInv

\* The moves that QuietMove is about.
LEMMA QuietPlaces ==
    ASSUME pc \in [Threads -> ThreadStates], QuietInv, data_' = data_, UNCHANGED managed,
           NEW t \in Threads,
           \/ GoTo(t, "start", "ended") \/ GoTo(t, "start", "sleep")
           \/ GoTo(t, "sleep", "ended") \/ GoTo(t, "sleep", "lock")
           \/ GoTo(t, "stamp", "sleep") \/ GoTo(t, "stamp", "isUpdated")
           \/ GoTo(t, "start", "isUpdated") \/ GoTo(t, "start", "lock")
           \/ GoTo(t, "isUpdated", "done") \/ GoTo(t, "lock", "parse")
           \/ GoTo(t, "notify", "minMax") \/ GoTo(t, "compare", "build")
    PROVE  QuietInv'
BY QuietMove DEF ThreadStates, BeforeMinMax, BeforeSize, BeforeAmount

\* The steps that change a value, or that need no more of them.
LEMMA QuietRead ==
    ASSUME pc \in [Threads -> ThreadStates], QuietInv, NEW t \in Threads, notify(t)
    PROVE  QuietInv'
<1>1. data_' = data_
  BY DEF notify, UpdateLock, getMinMax, getSizeOfQueue, CompareAmount, getAmountOfOperators,
     Read, config
<1>2. CASE UpdateLock(t)
  BY <1>1, <1>2, QuietPlaces DEF UpdateLock
<1>3. CASE getMinMax(t)
  <2>1. GoTo(t, "minMax", "size") /\ UNCHANGED <<sizeOfQueue, size>>
    BY <1>3 DEF getMinMax, Read
  <2>2. BoundsQuiet'
    BY <1>1, <1>3 DEF getMinMax, BoundsQuiet
  <2>3. SizeQuiet'
    BY <1>1, <2>1, PendingKept DEF QuietInv, SizeQuiet, BeforeSize, ThreadStates
  <2>4. AmountQuiet'
    BY <1>1, <2>1, PendingKept DEF QuietInv, AmountQuiet, BeforeAmount, ThreadStates
  <2>. QED
    BY <2>2, <2>3, <2>4 DEF QuietInv
<1>4. CASE getSizeOfQueue(t)
  <2>1. GoTo(t, "size", "compare") /\ UNCHANGED <<RMin_, RMax_, size>>
    BY <1>4 DEF getSizeOfQueue, Read
  <2>2. BoundsQuiet'
    BY <1>1, <2>1, PendingKept DEF QuietInv, BoundsQuiet, BeforeMinMax, ThreadStates
  <2>3. SizeQuiet'
    BY <1>1, <1>4 DEF getSizeOfQueue, SizeQuiet
  <2>4. AmountQuiet'
    BY <1>1, <2>1, PendingKept DEF QuietInv, AmountQuiet, BeforeAmount, ThreadStates
  <2>. QED
    BY <2>2, <2>3, <2>4 DEF QuietInv
<1>5. CASE CompareAmount(t)
  <2>1. CASE GoTo(t, "compare", "build")
    BY <1>1, <1>5, <2>1, QuietPlaces DEF CompareAmount
  <2>2. CASE GoTo(t, "compare", "stamp") /\ SameAmount
    <3>1. UNCHANGED managed
      BY <1>5 DEF CompareAmount
    <3>2. BoundsQuiet'
      BY <1>1, <2>2, <3>1, PendingKept DEF QuietInv, BoundsQuiet, BeforeMinMax, ThreadStates, managed
    <3>3. SizeQuiet'
      BY <1>1, <2>2, <3>1, PendingKept DEF QuietInv, SizeQuiet, BeforeSize, ThreadStates, managed
    <3>4. AmountQuiet'
      BY <1>1, <2>2, <3>1 DEF AmountQuiet, SameAmount, managed
    <3>. QED
      BY <3>2, <3>3, <3>4 DEF QuietInv
  <2>. QED
    BY <1>5, <2>1, <2>2 DEF CompareAmount, Read
<1>6. CASE getAmountOfOperators(t)
  <2>1. GoTo(t, "build", "stamp") /\ UNCHANGED <<RMin_, RMax_, sizeOfQueue>>
    BY <1>6 DEF getAmountOfOperators, Read
  <2>2. BoundsQuiet'
    BY <1>1, <2>1, PendingKept DEF QuietInv, BoundsQuiet, BeforeMinMax, ThreadStates
  <2>3. SizeQuiet'
    BY <1>1, <2>1, PendingKept DEF QuietInv, SizeQuiet, BeforeSize, ThreadStates
  <2>4. AmountQuiet'
    BY <1>1, <1>6 DEF getAmountOfOperators, AmountQuiet
  <2>. QED
    BY <2>2, <2>3, <2>4 DEF QuietInv
<1>. QED
  BY <1>2, <1>3, <1>4, <1>5, <1>6 DEF notify

\* Every step keeps QuietInv.
LEMMA QuietStep ==
    ASSUME ThreadTypes, QuietInv, [ConfigNext]_configVars
    PROVE  QuietInv'
<1>1. pc \in [Threads -> ThreadStates] /\ Monitor \in Threads /\ Requests \subseteq Threads
  BY DEF ThreadTypes, Threads
<1>2. CASE Tick \/ Edit \/ UNCHANGED configVars
  BY <1>2 DEF QuietInv, BoundsQuiet, SizeQuiet, AmountQuiet, Pending, Tick, Edit, configVars,
     serverVars, config, managed
<1>3. CASE RunMonitoring \/ Poll \/ StampMonitor
  <2>1. data_' = data_ /\ UNCHANGED managed
    BY <1>3 DEF RunMonitoring, Poll, lastTime, StampMonitor, Stamp, config
  <2>2. \/ GoTo(Monitor, "start", "ended") \/ GoTo(Monitor, "start", "sleep")
        \/ GoTo(Monitor, "sleep", "ended") \/ GoTo(Monitor, "sleep", "lock")
        \/ GoTo(Monitor, "stamp", "sleep")
    BY <1>3 DEF RunMonitoring, Poll, lastTime, StampMonitor, Stamp
  <2>. QED
    BY <1>1, <2>1, <2>2, QuietPlaces
<1>4. ASSUME NEW r \in Requests, updateWithRequest(r) \/ StampRequest(r) \/ isUpdated(r)
      PROVE  QuietInv'
  <2>1. data_' = data_ /\ UNCHANGED managed
    BY <1>4 DEF updateWithRequest, StampRequest, Stamp, isUpdated, config
  <2>2. \/ GoTo(r, "start", "isUpdated") \/ GoTo(r, "start", "lock")
        \/ GoTo(r, "stamp", "isUpdated") \/ GoTo(r, "isUpdated", "done")
    BY <1>4 DEF updateWithRequest, StampRequest, Stamp, isUpdated
  <2>. QED
    BY <1>1, <2>1, <2>2, QuietPlaces
<1>5. ASSUME NEW t \in Threads, UpdateConfigLock(t)
      PROVE  QuietInv'
  BY <1>1, <1>5, QuietPlaces DEF UpdateConfigLock, config
<1>6. ASSUME NEW t \in Threads, updateConfig(t)
      PROVE  QuietInv'
  <2>1. pc'[t] = "notify"
    BY <1>1, <1>6 DEF updateConfig, GoTo
  <2>. QED
    BY <2>1 DEF QuietInv, BoundsQuiet, SizeQuiet, AmountQuiet, Pending, BeforeMinMax, BeforeSize,
       BeforeAmount
<1>. QED
  BY <1>1, <1>2, <1>3, <1>4, <1>5, <1>6, QuietRead, NextCases

\* The manager may have read a mixture, but what it then works with is never
\* the mixture: when no update is under way, it works with the configuration,
\* however many updates were under way at the same time.
THEOREM AlwaysApplied == ConfigSpec => []AppliedWhenQuiet
<1>1. ConfigInit => QuietInv
  BY DEF ConfigInit, QuietInv, BoundsQuiet, SizeQuiet, AmountQuiet
<1>2. ThreadTypes /\ QuietInv /\ [ConfigNext]_configVars => QuietInv'
  BY QuietStep
<1>3. QuietInv => AppliedWhenQuiet
  BY DEF QuietInv, BoundsQuiet, SizeQuiet, AmountQuiet, Pending, BeforeMinMax, BeforeSize,
     BeforeAmount, AppliedWhenQuiet, Updating
<1>. QED
  BY <1>1, <1>2, <1>3, ConfigTypes, PTL DEF ConfigSpec

-----------------------------------------------------------------------------
(* What the monitor has still to read.                                     *)

\* A step that changes no time keeps what is to be read, if the monitor does
\* not end and has not just read the file.
LEMMA ReadLater ==
    ASSUME ToBeRead, UNCHANGED <<file, mtime, times>>,
           \/ pc'[Monitor] = pc[Monitor]
           \/ pc'[Monitor] \in {"lock", "parse"}
           \/ pc[Monitor] \notin {"sleep", "lock", "parse"} /\ pc'[Monitor] \notin {"start", "ended"}
    PROVE  ToBeRead'
BY DEF ToBeRead, times

\* No step but the stamp of a request loses what is to be read.
LEMMA ReadStep ==
    ASSUME ThreadTypes, [ConfigNext]_configVars, ToBeRead, HasOutput(file), file' = file,
           \A r \in Requests : pc[r] = "stamp" => pc'[r] = "stamp"
    PROVE  ToBeRead' \/ data_' = normalizeData(outputConfig(file))
<1>1. pc \in [Threads -> ThreadStates] /\ Monitor \in Threads /\ Requests \subseteq Threads
      /\ \A r \in Requests : r # Monitor
  BY ConfigAssumption DEF ThreadTypes, Threads
<1>2. CASE Tick \/ UNCHANGED configVars
  BY <1>2, ReadLater DEF Tick, configVars, fileVars, serverVars
<1>3. CASE Edit
  BY <1>3 DEF Edit
<1>4. CASE RunMonitoring
  BY <1>4 DEF RunMonitoring, lastTime, GoTo, ToBeRead
<1>5. CASE Poll
  BY <1>1, <1>5 DEF Poll, lastTime, GoTo, fileVars, ToBeRead
<1>6. CASE StampMonitor
  <2>1. pc[Monitor] = "stamp" /\ pc'[Monitor] = "sleep" /\ lastWriteTime' = currentWriteTime
        /\ UNCHANGED <<file, mtime, currentWriteTime>>
    BY <1>1, <1>6 DEF StampMonitor, Stamp, GoTo, fileVars
  <2>. QED  BY <2>1 DEF ToBeRead
<1>7. ASSUME NEW t \in Threads, updateConfig(t)
      PROVE  data_' = normalizeData(outputConfig(file))
  BY <1>7 DEF updateConfig
<1>8. ASSUME NEW t \in Threads, UpdateConfigLock(t)
      PROVE  ToBeRead'
  <2>1. UNCHANGED <<file, mtime, times>> /\ pc' = [pc EXCEPT ![t] = "parse"]
    BY <1>8 DEF UpdateConfigLock, GoTo, fileVars
  <2>. QED  BY <1>1, <2>1, ReadLater
<1>9. ASSUME NEW t \in Threads, notify(t)
      PROVE  ToBeRead'
  <2>1. /\ UNCHANGED <<file, mtime, times>>
        /\ pc[t] \in {"notify", "minMax", "size", "compare", "build"}
        /\ \E to \in {"minMax", "size", "compare", "build", "stamp"} : pc' = [pc EXCEPT ![t] = to]
    BY <1>9 DEF notify, UpdateLock, getMinMax, getSizeOfQueue, CompareAmount,
       getAmountOfOperators, Read, GoTo, fileVars
  <2>2. pc'[Monitor] = pc[Monitor] \/ (t = Monitor /\ pc'[Monitor] \notin {"start", "ended"})
    BY <1>1, <2>1
  <2>. QED  BY <2>1, <2>2, ReadLater
<1>10. ASSUME NEW r \in Requests, updateWithRequest(r) \/ StampRequest(r) \/ isUpdated(r)
       PROVE  ToBeRead'
  <2>1. ~StampRequest(r)
    <3>1. SUFFICES ASSUME StampRequest(r) PROVE FALSE
      OBVIOUS
    <3>2. pc[r] = "stamp" /\ pc' = [pc EXCEPT ![r] = "isUpdated"]
      BY <3>1 DEF StampRequest, Stamp, GoTo
    <3>. QED  BY <1>1, <3>2
  <2>2. UNCHANGED <<file, mtime, times>> /\ \E to \in ThreadStates : pc' = [pc EXCEPT ![r] = to]
    BY <1>10, <2>1 DEF updateWithRequest, isUpdated, GoTo, fileVars, ThreadStates
  <2>. QED  BY <1>1, <2>2, ReadLater
<1>. QED
  BY <1>2, <1>3, <1>4, <1>5, <1>6, <1>7, <1>8, <1>9, <1>10, NextCases

\* Whatever edits, updates and requests there are, an edit that the monitor has
\* still to read stays so until it is read or replaced; only the stamp of a
\* request can lose it.
THEOREM EditsStayToBeRead == ConfigSpec => OnlyRequestsLoseEdits
<1>1. ThreadTypes /\ [ConfigNext]_configVars
      => [ToBeRead /\ HasOutput(file) /\ file' = file
            /\ (\A r \in Requests : pc[r] = "stamp" => pc'[r] = "stamp")
          => ToBeRead' \/ data_' = normalizeData(outputConfig(file))]_configVars
  BY ReadStep
<1>. QED
  BY <1>1, ConfigTypes, PTL DEF ConfigSpec, OnlyRequestsLoseEdits

-----------------------------------------------------------------------------
(* ThreadSafeConfig implements Config.                                     *)

\* If the first file could not be read, no thread ever comes to updateConfig.
GateInv == notToUpdate => \A t \in Threads : pc[t] \in {"start", "isUpdated", "done"}

\* No step leads a thread to updateConfig while notToUpdate is set, and nothing
\* sets it later.
LEMMA GateStep ==
    ASSUME ThreadTypes, GateInv, [ConfigNext]_configVars
    PROVE  GateInv'
<1>1. pc \in [Threads -> ThreadStates] /\ Monitor \in Threads /\ Requests \subseteq Threads
  BY DEF ThreadTypes, Threads
<1>2. CASE Tick \/ Edit \/ UNCHANGED configVars
  BY <1>2 DEF GateInv, Tick, Edit, configVars, serverVars
<1>3. ASSUME NEW t \in Threads, NEW from \in ThreadStates, NEW to \in ThreadStates,
             GoTo(t, from, to),
             notToUpdate => from \notin {"start", "isUpdated", "done"}
                            \/ to \in {"start", "isUpdated", "done"}
      PROVE  GateInv'
  BY <1>1, <1>3, Moved DEF GateInv
<1>4. CASE RunMonitoring \/ Poll \/ StampMonitor
  <2>1. \/ ~notToUpdate /\ (GoTo(Monitor, "start", "ended") \/ GoTo(Monitor, "start", "sleep"))
        \/ GoTo(Monitor, "sleep", "ended") \/ GoTo(Monitor, "sleep", "lock")
        \/ GoTo(Monitor, "stamp", "sleep")
    BY <1>4 DEF RunMonitoring, Poll, lastTime, StampMonitor, Stamp
  <2>. QED
    BY <1>1, <1>3, <2>1 DEF ThreadStates
<1>5. ASSUME NEW r \in Requests, updateWithRequest(r) \/ StampRequest(r) \/ isUpdated(r)
      PROVE  GateInv'
  <2>1. \/ GoTo(r, "start", "isUpdated") \/ (~notToUpdate /\ GoTo(r, "start", "lock"))
        \/ GoTo(r, "stamp", "isUpdated") \/ GoTo(r, "isUpdated", "done")
    BY <1>5 DEF updateWithRequest, StampRequest, Stamp, isUpdated
  <2>. QED
    BY <1>1, <1>3, <2>1 DEF ThreadStates
<1>6. ASSUME NEW t \in Threads, UpdateConfigLock(t) \/ updateConfig(t) \/ notify(t)
      PROVE  GateInv'
  <2>1. \/ GoTo(t, "lock", "parse") \/ GoTo(t, "parse", "notify") \/ GoTo(t, "notify", "minMax")
        \/ GoTo(t, "minMax", "size") \/ GoTo(t, "size", "compare") \/ GoTo(t, "compare", "build")
        \/ GoTo(t, "compare", "stamp") \/ GoTo(t, "build", "stamp")
    BY <1>6 DEF UpdateConfigLock, updateConfig, notify, UpdateLock, getMinMax, getSizeOfQueue,
       CompareAmount, getAmountOfOperators, Read
  <2>. QED
    BY <1>3, <2>1 DEF ThreadStates
<1>. QED
  BY <1>2, <1>4, <1>5, <1>6, NextCases

\* What both classes make of a file is the same.
LEMMA SameFiles ==
    ASSUME NEW f
    PROVE  /\ outputConfig(f) = Plain!outputConfig(f)
           /\ Parses(f) <=> Plain!Parses(f)
BY DEF outputConfig, Plain!outputConfig, Parses, Plain!Parses, Fields, Plain!Fields

\* Only the constructor sets notToUpdate.
LEMMA GateFixed ==
    ASSUME [ConfigNext]_configVars
    PROVE  notToUpdate' = notToUpdate
<1>1. CASE Tick \/ Edit \/ UNCHANGED configVars
  BY <1>1 DEF Tick, Edit, configVars, serverVars
<1>2. CASE RunMonitoring \/ Poll \/ StampMonitor
  BY <1>2 DEF RunMonitoring, Poll, lastTime, StampMonitor, Stamp, GoTo
<1>3. ASSUME NEW t \in Threads, UpdateConfigLock(t) \/ updateConfig(t) \/ notify(t)
      PROVE  notToUpdate' = notToUpdate
  BY <1>3 DEF UpdateConfigLock, updateConfig, notify, UpdateLock, getMinMax, getSizeOfQueue,
     CompareAmount, getAmountOfOperators, Read, GoTo
<1>4. ASSUME NEW r \in Requests, updateWithRequest(r) \/ StampRequest(r) \/ isUpdated(r)
      PROVE  notToUpdate' = notToUpdate
  BY <1>4 DEF updateWithRequest, StampRequest, Stamp, isUpdated, GoTo
<1>. QED
  BY <1>1, <1>2, <1>3, <1>4, NextCases

\* config.cpp:148-303 against config.cpp:13-67: what the threads do to the
\* values is what one thread may do, one reading of the file at a time, and
\* nothing if the first file could not be read.
THEOREM ImplementsPlainConfig == ConfigSpec => ImplementsConfig
<1>1. ConfigInit => Plain!PlainInit
  <2> SUFFICES ASSUME ConfigInit PROVE Plain!PlainInit
    OBVIOUS
  <2>1. DefaultData = [x \in Plain!Fields |-> CASE x = "RMin" -> 10
                                                [] x = "RMax" -> 15
                                                [] x = "AmountOfOperators" -> 2
                                                [] x = "SizeOfQueue" -> 15]
    BY DEF DefaultData, Fields, Plain!Fields
  <2>. QED
    BY <2>1, SameFiles DEF ConfigInit, Plain!PlainInit
<1>2. ConfigInit => GateInv
  BY DEF ConfigInit, GateInv
<1>3. ThreadTypes /\ GateInv /\ [ConfigNext]_configVars => GateInv'
  BY GateStep
<1>4. GateInv /\ [ConfigNext]_configVars
        => [Plain!updateWithRequest \/ Plain!Edit]_(Plain!plainVars)
  <2> SUFFICES ASSUME GateInv, [ConfigNext]_configVars
               PROVE  [Plain!updateWithRequest \/ Plain!Edit]_(Plain!plainVars)
    OBVIOUS
  <2>1. notToUpdate' = notToUpdate
    BY GateFixed
  <2>2. CASE data_' = data_ /\ (file' = file \/ file' \in Edits)
    BY <2>1, <2>2 DEF Plain!Edit, Plain!plainVars
  <2>3. ASSUME NEW t \in Threads, DataStep(t)
        PROVE  Plain!updateWithRequest
    <3>1. ~notToUpdate
      BY <2>3 DEF GateInv, DataStep
    <3>2. Parses(file) /\ data_' = normalizeData(outputConfig(file)) /\ file' = file
      BY <2>3 DEF DataStep, HasOutput
    <3>3. normalizeData(outputConfig(file)) = Plain!normalizeData(Plain!outputConfig(file))
      BY <3>2, ParsedData, NormalizeAlike, SameFiles DEF Parses
    <3>. QED
      BY <2>1, <3>1, <3>2, <3>3, SameFiles DEF Plain!updateWithRequest, Plain!updateConfig
  <2>. QED
    BY <2>2, <2>3, DataChange
<1>. QED
  BY <1>1, <1>2, <1>3, <1>4, ConfigTypes, PTL DEF ConfigSpec, ImplementsConfig, Plain!PlainSpec
=============================================================================
