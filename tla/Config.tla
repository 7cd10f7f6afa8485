------------------------------- MODULE Config -------------------------------
(***************************************************************************)
(* The configuration (ThreadSafeConfig, src/src/config.cpp) and its path   *)
(* into the server: the file that somebody edits, the monitor thread that  *)
(* polls its modification time, "/update" requests, and Manager::update,   *)
(* which reads the new values one getter at a time.                        *)
(*                                                                         *)
(* A step is what a thread does under one acquisition of configMutex, or   *)
(* one access to a field that no mutex protects.  Of Manager::update, the  *)
(* module keeps updateMtx and the values it applies; Manager has the rest. *)
(***************************************************************************)
EXTENDS JsonParser

CONSTANTS
    Monitor,        \* the monitor thread
    Requests,       \* the threads that handle "/update"
    NoOne,          \* "mutex free"
    MaxTime,        \* bound of the clock, in seconds
    EarlyEdits,     \* whether the file may change before the monitor has looked at it
    SameSecond      \* whether it may change twice within a second

ASSUME ConfigAssumption ==
    /\ Monitor \notin Requests /\ NoOne \notin Requests \cup {Monitor}
    /\ MaxTime \in Nat
    /\ EarlyEdits \in BOOLEAN /\ SameSecond \in BOOLEAN

Threads == Requests \cup {Monitor}

VARIABLES
    file, mtime,        \* the file and its modification time
    now,                \* the clock
    data_, updated, notToUpdate, lastWriteTime,  \* fields of ThreadSafeConfig
    configMutex,        \* its holder
    currentWriteTime,   \* a local variable of the monitor
    updateMtx,          \* Manager's: its exclusive holder
    RMin_, RMax_, sizeOfQueue, size,  \* what Manager, its queue and its pool work with
    pc,                 \* where each thread is
    parsed,             \* whether the updateConfig of a thread succeeded
    reply               \* what processRequestForUpdate returned

fileVars == <<file, mtime, now>>
config == <<data_, updated>>
times == <<lastWriteTime, currentWriteTime>>
managed == <<RMin_, RMax_, sizeOfQueue, size>>
results == <<parsed, reply>>
serverVars == <<config, notToUpdate, times, configMutex, updateMtx, managed, pc, results>>
configVars == <<fileVars, serverVars>>

-----------------------------------------------------------------------------
(* Normalisation.                                                          *)

Clamp(x, low, high) == IF x >= high THEN high ELSE IF x <= low THEN low ELSE x

\* Mutant: the bounds are clamped and never exchanged.
normalizeRMinRMaxNoSwap(d) ==
    [d EXCEPT !["RMin"] = Clamp(@, 4, 100), !["RMax"] = Clamp(@, 5, 140)]

\* The two bounds are clamped first, and exchanged if they are then in the
\* wrong order.
normalizeRMinRMax(d) ==
    LET low == Clamp(d["RMin"], 4, 100)
        high == Clamp(d["RMax"], 5, 140)
    IN [d EXCEPT !["RMin"] = IF low > high THEN high ELSE low,
                 !["RMax"] = IF low > high THEN low ELSE high]

normalizeAmountOfOperators(d) == [d EXCEPT !["AmountOfOperators"] = Clamp(@, 2, 80)]

normalizeSizeOfQueue(d) == [d EXCEPT !["SizeOfQueue"] = Clamp(@, 15, 350)]

normalizeData(d) ==
    normalizeSizeOfQueue(normalizeAmountOfOperators(normalizeRMinRMax(d)))

DefaultData ==
    [f \in Fields |-> CASE f = "RMin" -> 10
                        [] f = "RMax" -> 15
                        [] f = "AmountOfOperators" -> 2
                        [] f = "SizeOfQueue" -> 15]

-----------------------------------------------------------------------------
\* The constructors: the first values are not normalised, and a file that
\* cannot be read turns updates off for good.
ConfigInit ==
    /\ file \in InitialFiles
    /\ mtime = 0
    /\ now = 0
    /\ notToUpdate = ~Parses(file)
    /\ data_ = IF Parses(file) THEN outputConfig(file) ELSE DefaultData
    /\ updated = FALSE
    /\ lastWriteTime = 0
    /\ configMutex = NoOne
    /\ currentWriteTime = 0
    /\ updateMtx = NoOne
    /\ RMin_ = data_["RMin"]
    /\ RMax_ = data_["RMax"]
    /\ sizeOfQueue = data_["SizeOfQueue"]
    /\ size = data_["AmountOfOperators"]
    /\ pc = [t \in Threads |-> "start"]
    /\ parsed = [t \in Threads |-> FALSE]
    /\ reply = [r \in Requests |-> "none"]

\* A step of thread t.
GoTo(t, from, to) ==
    /\ pc[t] = from
    /\ pc' = [pc EXCEPT ![t] = to]
    /\ UNCHANGED <<fileVars, notToUpdate>>

-----------------------------------------------------------------------------
(* The world: time, and whoever edits the file.                            *)

Tick ==
    /\ now < MaxTime
    /\ now' = now + 1
    /\ UNCHANGED <<file, mtime, serverVars>>

\* std::time_t tells no finer than seconds.
Edit ==
    /\ SameSecond \/ now > mtime
    /\ EarlyEdits \/ pc[Monitor] # "start"
    /\ file' \in Edits \ {file}
    /\ mtime' = now
    /\ UNCHANGED <<now, serverVars>>

-----------------------------------------------------------------------------
(* updateConfig and notify, of the monitor and of a request.               *)

UpdateConfigLock(t) ==
    /\ GoTo(t, "lock", "parse")
    /\ configMutex = NoOne
    /\ configMutex' = t
    /\ UNCHANGED <<config, times, updateMtx, managed, results>>

\* Mutant: the manager is notified with configMutex still locked.
KeepConfigMutex == UNCHANGED configMutex

UnlockConfigMutex == configMutex' = NoOne

\* A file that cannot be read, or lacks a field, is logged and changes nothing.
updateConfig(t) ==
    /\ GoTo(t, "parse", "notify")
    /\ parsed' = [parsed EXCEPT ![t] = HasOutput(file)]
    /\ \/ HasOutput(file) /\ data_' = normalizeData(outputConfig(file)) /\ updated' = TRUE
       \/ ~HasOutput(file) /\ UNCHANGED config
    /\ UnlockConfigMutex
    /\ UNCHANGED <<times, updateMtx, managed, reply>>

\* Manager::update.
UpdateLock(t) ==
    /\ GoTo(t, "notify", "minMax")
    /\ updateMtx = NoOne
    /\ updateMtx' = t
    /\ UNCHANGED <<config, times, configMutex, managed, results>>

\* Mutant: updateMtx is not released.
KeepUpdateMtx == UNCHANGED updateMtx

UnlockUpdateMtx == updateMtx' = NoOne

\* A getter locks configMutex for itself.
Read(t, from, to) ==
    /\ configMutex = NoOne
    /\ GoTo(t, from, to)
    /\ UNCHANGED <<config, times, configMutex, results>>

getMinMax(t) ==
    /\ Read(t, "minMax", "size")
    /\ RMin_' = data_["RMin"] /\ RMax_' = data_["RMax"]
    /\ UNCHANGED <<updateMtx, sizeOfQueue, size>>

getSizeOfQueue(t) ==
    /\ Read(t, "size", "compare")
    /\ sizeOfQueue' = data_["SizeOfQueue"]
    /\ UNCHANGED <<updateMtx, RMin_, RMax_, size>>

\* Mutant: the pool is replaced only by a larger one.
EnoughOperators == data_["AmountOfOperators"] <= size

SameAmount == data_["AmountOfOperators"] = size

\* The number of operators is read once to be compared ...
CompareAmount(t) ==
    /\ \/ ~SameAmount /\ Read(t, "compare", "build") /\ UNCHANGED updateMtx
       \/ SameAmount /\ Read(t, "compare", "stamp") /\ UnlockUpdateMtx
    /\ UNCHANGED managed

\* ... and again to build the new pool.
getAmountOfOperators(t) ==
    /\ Read(t, "build", "stamp")
    /\ size' = data_["AmountOfOperators"]
    /\ UnlockUpdateMtx
    /\ UNCHANGED <<RMin_, RMax_, sizeOfQueue>>

notify(t) ==
    \/ UpdateLock(t) \/ getMinMax(t) \/ getSizeOfQueue(t)
    \/ CompareAmount(t) \/ getAmountOfOperators(t)

\* lastWriteTime is set without a mutex.
Stamp(t, to, time) ==
    /\ GoTo(t, "stamp", to)
    /\ lastWriteTime' = time
    /\ UNCHANGED <<config, currentWriteTime, configMutex, updateMtx, managed, results>>

-----------------------------------------------------------------------------
(* The monitor: updateConfigThread.                                        *)

\* last_write_time of a file that does not exist throws; the handler logs it
\* and the thread ends.
lastTime(from, to, variable) ==
    /\ \/ file = Missing /\ GoTo(Monitor, from, "ended") /\ UNCHANGED variable
       \/ file # Missing /\ GoTo(Monitor, from, to) /\ variable' = mtime
    /\ UNCHANGED <<config, configMutex, updateMtx, managed, results>>

\* Mutant: the monitor is started although updates are turned off.
RunMonitoringAlways == lastTime("start", "sleep", lastWriteTime) /\ UNCHANGED currentWriteTime

RunMonitoring ==
    /\ ~notToUpdate
    /\ lastTime("start", "sleep", lastWriteTime)
    /\ UNCHANGED currentWriteTime

\* After each sleep.  A file that has not changed sends the monitor back to
\* sleep.
Poll ==
    /\ file # Missing => mtime > lastWriteTime
    /\ lastTime("sleep", "lock", currentWriteTime)
    /\ UNCHANGED lastWriteTime

\* Mutant: the monitor stamps the time of its own update, as a request does.
StampMonitorNow == Stamp(Monitor, "sleep", now)

StampMonitor == Stamp(Monitor, "sleep", currentWriteTime)

-----------------------------------------------------------------------------
(* A request: processRequestForUpdate.                                     *)

updateWithRequest(r) ==
    /\ GoTo(r, "start", IF notToUpdate THEN "isUpdated" ELSE "lock")
    /\ UNCHANGED <<config, times, configMutex, updateMtx, managed, results>>

\* The clock, not the time of the file that was read.
StampRequest(r) == Stamp(r, "isUpdated", now)

isUpdated(r) ==
    /\ GoTo(r, "isUpdated", "done")
    /\ configMutex = NoOne
    /\ reply' = [reply EXCEPT ![r] = IF updated THEN "Updated" ELSE "Could not update"]
    /\ updated' = FALSE
    /\ UNCHANGED <<data_, times, configMutex, updateMtx, managed, parsed>>

Common(t) == UpdateConfigLock(t) \/ updateConfig(t) \/ notify(t)
updateConfigThread == RunMonitoring \/ Poll \/ Common(Monitor) \/ StampMonitor
processRequestForUpdate(r) ==
    updateWithRequest(r) \/ Common(r) \/ StampRequest(r) \/ isUpdated(r)

ConfigNext ==
    \/ Tick
    \/ Edit
    \/ updateConfigThread
    \/ \E r \in Requests : processRequestForUpdate(r)

ConfigSpec == ConfigInit /\ [][ConfigNext]_configVars

\* The monitor wakes up each minute, and a thread that is in a request or in
\* an update goes on with it.
ConfigFairSpec ==
    /\ ConfigSpec
    /\ WF_configVars(updateConfigThread)
    /\ \A r \in Requests : WF_configVars(processRequestForUpdate(r) /\ pc[r] # "start")

-----------------------------------------------------------------------------
(* Properties.                                                             *)

Updating(t) == pc[t] \in {"minMax", "size", "compare", "build"}

ConfigTypeOK ==
    /\ file \in Contents \cup {Broken, Missing}
    /\ mtime \in Nat /\ now \in Nat /\ mtime <= now
    /\ data_ \in Data
    /\ updated \in BOOLEAN /\ notToUpdate \in BOOLEAN
    /\ lastWriteTime \in Nat /\ currentWriteTime \in Nat
    /\ configMutex \in Threads \cup {NoOne}
    /\ \A t \in Threads : configMutex = t <=> pc[t] = "parse"
    /\ updateMtx \in Threads \cup {NoOne}
    /\ \A t \in Threads : updateMtx = t <=> Updating(t)
    /\ RMin_ \in Int /\ RMax_ \in Int /\ sizeOfQueue \in Int /\ size \in Int
    /\ pc \in [Threads -> {"start", "lock", "parse", "notify", "minMax", "size", "compare",
                          "build", "stamp", "isUpdated", "sleep", "done", "ended"}]
    /\ parsed \in [Threads -> BOOLEAN]
    /\ reply \in [Requests -> {"none", "Updated", "Could not update"}]

\* What the tasks, the queue and the pool rely on: a duration is drawn from
\* RMin..RMax, which must not be empty, there is an operator, and a call may
\* wait.
Usable(min, max, amount, limit) == min <= max /\ 0 < amount /\ 0 < limit

InRange(d) ==
    /\ 4 <= d["RMin"] /\ d["RMin"] <= d["RMax"] /\ d["RMax"] <= 140
    /\ d["AmountOfOperators"] \in 2..80
    /\ d["SizeOfQueue"] \in 15..350

\* Whatever is written into the file, an update leaves values in range.
UpdatesInRange ==
    [][data_' # data_ => InRange(data_')]_configVars

FirstUsable ==
    \A v \in InitialFiles \cap Contents :
        LET d == outputConfig(v)
        IN  Usable(d["RMin"], d["RMax"], d["AmountOfOperators"], d["SizeOfQueue"])

\* The manager can work with what it has read, even if the configuration
\* changes while update() reads it and it gets a mixture of two: the bounds of
\* the duration of a call come from one of them.  The first configuration,
\* which nothing normalises, has to be usable.
ManagedUsable == FirstUsable => Usable(RMin_, RMax_, size, sizeOfQueue)

\* The manager may read a mixture of two configurations, one value of the
\* old, the next of the new.  But when no thread is on its way from the
\* configuration to the manager, the manager works with the configuration.
AppliedWhenQuiet ==
    (\A t \in Threads : pc[t] # "notify" /\ ~Updating(t)) =>
        /\ RMin_ = data_["RMin"] /\ RMax_ = data_["RMax"]
        /\ sizeOfQueue = data_["SizeOfQueue"]
        /\ size = data_["AmountOfOperators"]

Complete == {v \in Contents : HasOutput(v)}

\* Readme.md:83-84: a file that was modified is read again.
EditsAreRead ==
    \A v \in Complete :
        [](file = v /\ ~notToUpdate => <>(data_ \in {v, normalizeData(v)} \/ file # v))

\* The monitor alone keeps that promise for every edit that the whole seconds
\* of a time can tell from what it has looked at, also for one made while it
\* is in an update, as long as there is a file and nobody requests an update: a
\* poll that meets no file ends it, and a request may stamp a time after the
\* edit (ConfigLostEdit).
MonitorReadsEdits ==
    [](file # Missing /\ \A r \in Requests : pc[r] = "start") =>
        \A v \in Complete :
            file = v /\ pc[Monitor] # "start" /\ mtime > lastWriteTime /\ mtime > currentWriteTime
                ~> data_ = normalizeData(v) \/ file # v

\* An edit that the monitor has still to read: it looks newer to the monitor
\* than the last time it stamped, and than the time of the update that it is in
\* if it has read the file for that update already.
ToBeRead ==
    /\ file # Missing /\ pc[Monitor] \notin {"start", "ended"}
    /\ mtime > lastWriteTime
    /\ mtime > currentWriteTime \/ pc[Monitor] \in {"sleep", "lock", "parse"}

\* What the monitor has still to read stays so until it is read, by the monitor
\* or for a request, or replaced by a newer edit: no step can lose it but the
\* stamp of a request.
OnlyRequestsLoseEdits ==
    [][ToBeRead /\ HasOutput(file) /\ file' = file
        /\ (\A r \in Requests : pc[r] = "stamp" => pc'[r] = "stamp")
       => ToBeRead' \/ data_' = normalizeData(outputConfig(file))]_configVars

\* A request is answered, whatever the monitor and other requests do.
RequestsReply == \A r \in Requests : pc[r] = "lock" ~> pc[r] = "done"

\* manager.hpp:82: the reply is "Updated" if the configuration was updated, and
\* otherwise the refusal.
ReplyIsMine ==
    \A r \in Requests : reply[r] # "none" => (reply[r] = "Updated") = parsed[r]

\* With all its threads, ThreadSafeConfig does to its values only what Config
\* does for one thread: each change is by one reading of the file, and there
\* is none if the first file could not be read.
Plain == INSTANCE PlainConfig

ImplementsConfig == Plain!PlainSpec
=============================================================================
