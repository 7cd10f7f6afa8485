---------------------------- MODULE MCHttpServer ----------------------------
(***************************************************************************)
(* Instances of HttpServer for TLC: calls c1 and c2 from one number, c3    *)
(* and c4 from another, c5 from what is no number.                         *)
(***************************************************************************)
EXTENDS HttpServer

CONSTANTS c1, c2, c3, c4, c5, r1, same, other, bad, t1, t2, t3

MCNumber == [c \in Calls |-> CASE c \in {c1, c2} -> same
                               [] c \in {c3, c4} -> other
                               [] c = c5 -> bad]

MCNumberValue == [n \in Numbers |-> CASE n = same -> 1
                                      [] n = other -> 10
                                      [] n = bad -> 0]

\* Where the identifiers of calls are not looked at, those of threads are
\* interchangeable.
MCHash == [t \in ThreadIds |-> CASE t = t1 -> 100 [] t = t2 -> 200]
MCNoHash == [t \in ThreadIds |-> 0]
ThreadSymmetry == Permutations(ThreadIds)

Configuration(min, max, size, operators) ==
    [bounds |-> <<min, max>>, sizeOfQueue |-> size, amountOfOperators |-> operators]

MCConfigurations ==
    {Configuration(1, 2, 1, 1), Configuration(1, 1, 2, 2), Configuration(1, 2, 2, 1)}
MCOneConfiguration == {Configuration(1, 2, 2, 1)}
=============================================================================
