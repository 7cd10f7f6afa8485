----------------------------- MODULE JsonParser -----------------------------
(***************************************************************************)
(* What the program makes of a configuration file (src/src/jsonParser.cpp) *)
(* of which boost::property_tree accepts the syntax.  A file is the fields *)
(* that it has; others than the four are ignored.                          *)
(***************************************************************************)
EXTENDS Integers

CONSTANTS
    Contents,       \* what may be in the file
    Broken,         \* a file that is no JSON, or has a value that is no integer
    Missing,        \* no file
    InitialFiles,   \* what the constructor of a configuration may find
    Edits           \* what the file may become

Fields == {"RMin", "RMax", "AmountOfOperators", "SizeOfQueue"}
Data == [Fields -> Int]

ASSUME ParserAssumption ==
    /\ \A v \in Contents : DOMAIN v \subseteq Fields /\ \A f \in DOMAIN v : v[f] \in Int
    /\ Broken \notin Contents /\ Missing \notin Contents
    /\ InitialFiles \subseteq Contents \cup {Broken, Missing}
    /\ Edits \subseteq Contents \cup {Broken, Missing}

\* parse() returns; otherwise it throws.
Parses(f) == f \in Contents

\* output() throws if one of the fields is missing.
HasOutput(f) == Parses(f) /\ DOMAIN f = Fields

\* outputConfig(), a map whose operator[] returns 0 for a field it lacks.
outputConfig(f) == [x \in Fields |-> IF x \in DOMAIN f THEN f[x] ELSE 0]
=============================================================================
