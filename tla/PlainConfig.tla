---------------------------- MODULE PlainConfig ----------------------------
(***************************************************************************)
(* The class Config (src/src/config.cpp:13-146): the configuration of a    *)
(* program with one thread.  It changes only when somebody asks for it, by *)
(* one reading of the file, and never if the first file could not be read. *)
(* Module Config shows that ThreadSafeConfig, with its threads, does no    *)
(* more.                                                                   *)
(***************************************************************************)
EXTENDS JsonParser

VARIABLES file, data_, notToUpdate

plainVars == <<file, data_, notToUpdate>>

PlainInit ==
    /\ file \in InitialFiles
    /\ notToUpdate = ~Parses(file)
    /\ data_ = IF Parses(file) THEN outputConfig(file)
               ELSE [x \in Fields |-> CASE x = "RMin" -> 10
                                        [] x = "RMax" -> 15
                                        [] x = "AmountOfOperators" -> 2
                                        [] x = "SizeOfQueue" -> 15]

Within(x, low, high) == IF x < low THEN low ELSE IF x > high THEN high ELSE x

normalizeData(d) ==
    LET min == Within(d["RMin"], 4, 100)
        max == Within(d["RMax"], 5, 140)
    IN  [x \in Fields |->
            CASE x = "RMin" -> IF min <= max THEN min ELSE max
              [] x = "RMax" -> IF min <= max THEN max ELSE min
              [] x = "AmountOfOperators" -> Within(d[x], 2, 80)
              [] x = "SizeOfQueue" -> Within(d[x], 15, 350)]

\* A field that the file lacks is 0, which is then normalised.
updateConfig == data_' = normalizeData(outputConfig(file))

updateWithRequest ==
    /\ ~notToUpdate
    /\ Parses(file)
    /\ updateConfig
    /\ UNCHANGED <<file, notToUpdate>>

\* Whoever edits the file.
Edit ==
    /\ file' \in Edits
    /\ UNCHANGED <<data_, notToUpdate>>

PlainSpec == PlainInit /\ [][updateWithRequest \/ Edit]_plainVars
=============================================================================
