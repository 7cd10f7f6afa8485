------------------------------ MODULE MCConfig ------------------------------
(***************************************************************************)
(* Instances of Config for TLC: a first configuration, one whose values    *)
(* are all out of range and whose bounds are in the wrong order, one with  *)
(* the same number of operators as the first, and one that lacks fields.   *)
(***************************************************************************)
EXTENDS Config

CONSTANTS r1, r2

Values(min, max, operators, queue) ==
    [f \in Fields |-> CASE f = "RMin" -> min
                        [] f = "RMax" -> max
                        [] f = "AmountOfOperators" -> operators
                        [] f = "SizeOfQueue" -> queue]

First == Values(10, 15, 5, 15)
Wild == Values(200, 3, 1, 1000)
Same == Values(20, 30, 5, 100)
Partial == [f \in {"RMin", "SizeOfQueue"} |-> 120]

MCInitial == {First, Broken}
MCFirst == {First}
MCContents == {First, Wild, Same, Partial}

MCEdits == {First, Wild, Same, Partial}
MCEditsMissing == {Wild, Same, Missing}
=============================================================================
