---------------------------- MODULE MCThreadPool ----------------------------
(***************************************************************************)
(* Instances of ThreadPool for TLC: one pool, calls c1 and c2 from the     *)
(* same number and c3 from another.                                        *)
(***************************************************************************)
EXTENDS ThreadPool

CONSTANTS c1, c2, c3, o1, o2, file, same, other

MCCalls == {c1, c2, c3}
MCTwoCalls == {c1, c3}
MCNumber == [c \in Calls |-> IF c = c3 THEN other ELSE same]

\* Operators are interchangeable.  Calls are not: their numbers differ.
OperatorSymmetry == Permutations(Operators)
=============================================================================
