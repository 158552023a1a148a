------------------------------ MODULE Scripts ------------------------------
(***************************************************************************)
(* What a script file is to the runtime: a list of units, each with a name *)
(* and some handlers the runtime knows by name.  The parser turns the text *)
(* of the file into this list or throws, and compile_unit then turns each  *)
(* unit into a module or throws.                                           *)
(***************************************************************************)
EXTENDS Naturals, Sequences

CONSTANTS
  Units,        \* names a script may give to its units
  Paths,        \* paths of script files in the scripts directory
  Contents      \* path -> contents an editor may give that file

\* The handlers run_controller.cpp calls: those of a load, and those of the sweeps
\* over the registry.
LoadHandlers == {"MdInit", "MdSuperInit", "MdReload"}
SweepHandlers == {"Finalize", "UTest", "UBenchmark"}
HandlerNames == LoadHandlers \cup SweepHandlers

\* A parsed unit; "compiles" says that compile_unit does not throw on it.
UnitSource == [name: Units, handlers: SUBSET HandlerNames, compiles: BOOLEAN]

\* A text that does not parse has no units.
Content == [parses: BOOLEAN, units: Seq(UnitSource)]

ASSUME ContentsAssumption == \A p \in Paths : Contents[p] \subseteq Content
=============================================================================
