-------------------------- MODULE ScriptProperties --------------------------
(***************************************************************************)
(* What the source of a unit says (Semantics) against what its compiled    *)
(* code does (Compiler and VM).                                            *)
(***************************************************************************)
EXTENDS ScriptRuns, Semantics

EndedAs(end) ==
  /\ outcome.status = end.status
  /\ end.status = "returned" => outcome.value = end.value
  /\ output = end.output

\* When a handler ends, it has returned the value, or thrown, and printed what
\* its source says: whatever ran on this VM before it, and left on the stack.
ResultsAgree ==
  handler # "none" /\ ~Running =>
    EndedAs(Call(unit, handler_index(unit, handler), Nil))
=============================================================================
