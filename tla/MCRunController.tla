-------------------------- MODULE MCRunController --------------------------
(***************************************************************************)
(* Small directories for TLC.                                              *)
(***************************************************************************)
EXTENDS RunControllerProperties, HotReloadRefinement

CONSTANTS A, B, C, p1, p2

MCUnits == {A, B, C}

OnePath == {p1}
TwoPaths == {p1, p2}

Unit(name, handlers) == [name |-> name, handlers |-> handlers, compiles |-> TRUE]
BadUnit(name) == [name |-> name, handlers |-> {}, compiles |-> FALSE]

Text(units) == [parses |-> TRUE, units |-> units]
Garbage == [parses |-> FALSE, units |-> <<>>]

\* One file, in one version that loads, one whose second unit does not compile
\* and one that does not parse.
OneFile ==
  [p \in OnePath |->
    {Text(<<Unit(A, {"MdInit", "MdSuperInit", "MdReload", "UTest"}),
            Unit(B, {"Finalize", "UTest", "UBenchmark"})>>),
     Text(<<Unit(A, {"MdInit"}), BadUnit(B), Unit(C, {})>>),
     Garbage}]

\* Two files that both define the unit A.
TwoFiles ==
  [p \in TwoPaths |->
    IF p = p1 THEN {Text(<<Unit(A, {"Finalize"})>>)}
              ELSE {Text(<<Unit(B, {"Finalize"}), Unit(A, {})>>)}]

\* Scripts that test themselves, and an empty file.
TestFiles ==
  [p \in TwoPaths |->
    IF p = p1 THEN {Text(<<Unit(A, {"MdInit", "UTest"})>>)}
              ELSE {Text(<<Unit(B, {"MdSuperInit", "UTest"})>>), Text(<<>>)}]
=============================================================================
