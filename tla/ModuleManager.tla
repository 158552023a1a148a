--------------------------- MODULE ModuleManager ---------------------------
(***************************************************************************)
(* The registry of loaded script units: the globals G_MODULES and          *)
(* super_called of src/runtime/module.cpp, the heap of Module objects they *)
(* point into, and the active-call count that ActiveCallGuard of           *)
(* src/runtime/vm.cpp keeps on each of them.                               *)
(*                                                                         *)
(* This is a component: it has state, initial values and one operator per  *)
(* operation.  The threads that call the operations, and the order they do *)
(* it in, are those of RunController, which extends this module.           *)
(*                                                                         *)
(* A pointer is a number: 0 is nullptr and m > 0 is the m-th Module ever   *)
(* allocated.  Numbers are never reused, so a pointer kept across a delete *)
(* stays recognisable as dangling.                                         *)
(***************************************************************************)
EXTENDS Scripts

CONSTANT NoThread     \* owner of a free mutex

nullptr == 0

VARIABLES
  inst,             \* every Module allocated so far, in order of allocation
  modules,          \* unit name -> installed instance
  pending_reclaim,  \* replaced instances waiting for tick_reclaim
  modules_mtx,      \* thread that holds the registry's mutex
  super_called      \* the process-wide flag that guards MdSuperInit

managerVars == <<inst, modules, pending_reclaim, modules_mtx, super_called>>

(***************************************************************************)
(* A Module object.  "freed" stands for delete; "path" and "version" are   *)
(* history: the file, and the content of it, that the unit was compiled    *)
(* from.                                                                   *)
(***************************************************************************)
Module ==
  [name: Units, handlers: SUBSET HandlerNames, active_calls: Nat,
   mdinit_called: BOOLEAN, freed: BOOLEAN, path: Paths, version: Nat]

Installed == {modules[u] : u \in Units} \ {nullptr}

Live == {m \in DOMAIN inst : ~inst[m].freed}

ManagerTypeOK ==
  /\ inst \in Seq(Module)
  /\ modules \in [Units -> 0..Len(inst)]
  /\ pending_reclaim \subseteq DOMAIN inst
  /\ super_called \in BOOLEAN

ManagerInit ==
  /\ inst = <<>>
  /\ modules = [u \in Units |-> nullptr]
  /\ pending_reclaim = {}
  /\ modules_mtx = NoThread
  /\ super_called = FALSE

-----------------------------------------------------------------------------
(* Operations                                                               *)

\* module_from_compiled: a fresh instance of a unit of a file's content.
module_from_compiled(unit, path, version) ==
  [name |-> unit.name, handlers |-> unit.handlers, active_calls |-> 0,
   mdinit_called |-> FALSE, freed |-> FALSE, path |-> path, version |-> version]

Has(m, h) == h \in inst[m].handlers

\* Mutant: the emplace of the insert branch is used for the replacement too.
HotSwapInstall_Emplace(newm) ==
  /\ modules_mtx = NoThread
  /\ inst' = Append(inst, newm)
  /\ modules' = [modules EXCEPT ![newm.name] = IF @ = nullptr THEN Len(inst) + 1 ELSE @]

\* First critical section of hot_swap: insert or replace under modules_mtx.
\* The replaced instance is modules[newm.name] in the state before the step.
HotSwapInstall(newm) ==
  /\ modules_mtx = NoThread
  /\ inst' = Append(inst, newm)
  /\ modules' = [modules EXCEPT ![newm.name] = Len(inst) + 1]

\* Mutants: newm is queued in the place of old; nothing is queued.
HotSwapQueue_New(old) ==
  pending_reclaim' = pending_reclaim \cup (IF old = nullptr THEN {} ELSE {Len(inst)})
HotSwapQueue_Nothing(old) == UNCHANGED pending_reclaim

\* Second critical section of hot_swap: queue the replaced instance, if any.
HotSwapQueue(old) ==
  pending_reclaim' = pending_reclaim \cup ({old} \ {nullptr})

\* tick_reclaim: delete every queued instance that no call is running in.
tick_reclaim ==
  LET idle == {m \in pending_reclaim : inst[m].active_calls = 0}
  IN  /\ pending_reclaim' = pending_reclaim \ idle
      /\ inst' = [m \in DOMAIN inst |->
                    IF m \in idle THEN [inst[m] EXCEPT !.freed = TRUE] ELSE inst[m]]

\* Mutant: the guard is made of a copy of the module.
EnterCall_Copy(m) == UNCHANGED inst

\* The constructor and the destructor of ActiveCallGuard; "initialised" says
\* that the caller has set mdinit_called as well.
EnterCall(m) == inst' = [inst EXCEPT ![m].active_calls = @ + 1]
LeaveCall(m, initialised) ==
  inst' = [inst EXCEPT ![m].active_calls = @ - 1,
                       ![m].mdinit_called = @ \/ initialised]
=============================================================================
