----------------------------- MODULE HotReload -----------------------------
(***************************************************************************)
(* What hot reload promises to a script's author, with no thread, pointer, *)
(* registry, reference count or mutex in sight:                            *)
(*                                                                         *)
(*  - a file is read in one piece, and its units come into service one at  *)
(*    a time, in the order of the text that was read, whatever has become  *)
(*    of the file since; a load may stop early, but never skips a unit;    *)
(*  - a unit is served by one code at any moment, and goes from one to the *)
(*    next only by a load: it is never taken out of service;               *)
(*  - a handler is entered in the code that serves its unit at that        *)
(*    moment, one handler runs at a time, and while it runs no unit is     *)
(*    replaced, so that all of it executes against the same units.         *)
(***************************************************************************)
EXTENDS Scripts

CONSTANT Nowhere    \* the path of no file

VARIABLES
  disk,       \* path -> write time and content of the file
  serving,    \* unit -> code that serves it
  loading,    \* the file being loaded, and its units that are still to come
  executing   \* the unit and the code of the handler that runs

hotReloadVars == <<disk, serving, loading, executing>>

\* The code of a unit: the file, and the content of it, that it was compiled from.
NoCode == [path |-> Nowhere, version |-> 0]
CodeFrom(p, version) == [path |-> p, version |-> version]

\* A load with nothing left to install is over.
NoLoad == [code |-> NoCode, units |-> <<>>]
LoadOf(code, units) == IF units = <<>> THEN NoLoad ELSE [code |-> code, units |-> units]

Nobody == [unit |-> "none", code |-> NoCode]

HotReloadInit ==
  /\ serving = [u \in Units |-> NoCode]
  /\ loading = NoLoad
  /\ executing = Nobody

-----------------------------------------------------------------------------
\* Somebody writes or deletes a file.
Edit == disk' # disk /\ UNCHANGED <<serving, loading, executing>>

Read(p) ==
  /\ loading = NoLoad /\ executing = Nobody
  /\ loading' = LoadOf(CodeFrom(p, disk[p].time), disk[p].units)
  /\ UNCHANGED <<disk, serving, executing>>

Install ==
  /\ loading # NoLoad /\ executing = Nobody
  /\ LET u == Head(loading.units) IN
     u.compiles /\ serving' = [serving EXCEPT ![u.name] = loading.code]
  /\ loading' = LoadOf(loading.code, Tail(loading.units))
  /\ UNCHANGED <<disk, executing>>

\* The next unit does not compile.
Abandon ==
  /\ loading # NoLoad /\ executing = Nobody
  /\ ~Head(loading.units).compiles
  /\ loading' = NoLoad
  /\ UNCHANGED <<disk, serving, executing>>

Call(u) ==
  /\ executing = Nobody
  /\ serving[u] # NoCode
  /\ executing' = [unit |-> u, code |-> serving[u]]
  /\ UNCHANGED <<disk, serving, loading>>

\* A handler that throws may end the load that called it.
Leave ==
  /\ executing # Nobody
  /\ executing' = Nobody
  /\ loading' \in {loading, NoLoad}
  /\ UNCHANGED <<disk, serving>>

HotReloadNext ==
  \/ Edit \/ Install \/ Abandon \/ Leave
  \/ \E p \in Paths : Read(p)
  \/ \E u \in Units : Call(u)

HotReloadSpec == HotReloadInit /\ [][HotReloadNext]_hotReloadVars
=============================================================================
