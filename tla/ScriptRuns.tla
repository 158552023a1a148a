----------------------------- MODULE ScriptRuns -----------------------------
(***************************************************************************)
(* A unit is compiled and its handlers are executed, in any order and any  *)
(* number of times, on one VM.                                             *)
(***************************************************************************)
EXTENDS WellMade, Compiler, Names

CONSTANTS
  Sources,      \* units that may be loaded
  MaxLeftover   \* bound on the operands that handlers leave by throwing

ASSUME ScriptAssumption == MaxLeftover \in Nat /\ Sources \subseteq Seq(HandlerDecl)

VARIABLES
  unit,         \* the source of the unit that is loaded
  handler       \* the handler begun last

scriptVars == <<vmVars, unit, handler>>

ScriptInit ==
  /\ VMInit
  /\ unit \in Sources
  /\ funcs = IF Compiles(unit) THEN compile_unit(unit) ELSE <<>>
  /\ handler = "none"

\* VM::execute_handler finds the handler by its name.
ExecuteHandler(name) ==
  /\ funcs # <<>> /\ Len(eval_stack) <= MaxLeftover
  /\ Execute(handler_index(unit, name))
  /\ handler' = name
  /\ UNCHANGED unit

\* compile_unit has thrown and there is no module, or the bound is reached.
NothingToDo ==
  /\ ~Running /\ (funcs = <<>> \/ Len(eval_stack) > MaxLeftover)
  /\ UNCHANGED scriptVars

ScriptNext ==
  \/ Step /\ UNCHANGED <<unit, handler>>
  \/ \E i \in DOMAIN unit : ExecuteHandler(unit[i].name)
  \/ NothingToDo

\* The VM executes instructions until the handler ends.
ScriptSpec ==
  ScriptInit /\ [][ScriptNext]_scriptVars /\ WF_scriptVars(Step /\ UNCHANGED <<unit, handler>>)

-----------------------------------------------------------------------------
(* Properties                                                               *)

\* Compiled code is well made, so that the VM executes it without meeting one
\* of its guards (WellMadeCodeRuns).  It does not change after compile_unit.
CompiledIsWellMade == handler = "none" => AllWellMade

\* compile_unit accepts a unit exactly if it has code for all that is in it and
\* each name is declared before it is used, in the order of the text, or is
\* that of a host function that is called.  Of an empty unit it makes no function.
AcceptsIffResolved ==
  unit # <<>> => (funcs # <<>> <=> \A i \in DOMAIN unit : Resolved(unit[i]))

\* Scripts that end by their source end when they are compiled.
HandlersEnd == Running ~> ~Running
=============================================================================
