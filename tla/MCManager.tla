----------------------------- MODULE MCManager -----------------------------
(***************************************************************************)
(* Instances of Manager for TLC: two places for pools and three operators, *)
(* of whom o1 is the first pool; calls c1 and c2 from one number, c3 from  *)
(* another, c4 from a number that does not parse.                          *)
(***************************************************************************)
EXTENDS Manager

CONSTANTS c1, c2, c3, c4, o1, o2, o3, file, same, other, bad, poolA, poolB

MCNumber == [c \in Calls |-> IF c = c3 THEN other ELSE IF c = c4 THEN bad ELSE same]

\* The operators that are not in the first pool are interchangeable.
NewOperatorSymmetry == Permutations(Operators \ FirstOperators)
=============================================================================
