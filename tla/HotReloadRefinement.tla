------------------------ MODULE HotReloadRefinement ------------------------
(***************************************************************************)
(* RunController implements HotReload.  The mapping reads what serves a    *)
(* unit in the registry, and what is being loaded and executed in the      *)
(* locals of whichever thread is at it: that there never are two such      *)
(* threads is part of what is shown.                                       *)
(***************************************************************************)
EXTENDS RunController

CodeOf(m) == [path |-> inst[m].path, version |-> inst[m].version]

ServingCode ==
  [u \in Units |-> IF modules[u] = nullptr THEN [path |-> NoPath, version |-> 0]
                                           ELSE CodeOf(modules[u])]

\* The units t's load has still to install: the first one of its list is
\* installed as soon as t has left the statement "unit".
ToInstall(t) ==
  IF job[t].units = <<>> \/ pc[t] = "unit" THEN job[t].units ELSE Tail(job[t].units)

Loader == IF ToInstall("main") # <<>> THEN "main" ELSE "watcher"

LoadInProgress ==
  IF ToInstall(Loader) = <<>>
  THEN [code |-> [path |-> NoPath, version |-> 0], units |-> <<>>]
  ELSE [code |-> [path |-> job[Loader].path, version |-> job[Loader].version],
        units |-> ToInstall(Loader)]

Executor == IF frame["main"].m # nullptr THEN "main" ELSE "watcher"

HandlerInProgress ==
  LET m == frame[Executor].m IN
  IF m = nullptr
  THEN [unit |-> "none", code |-> [path |-> NoPath, version |-> 0]]
  ELSE [unit |-> inst[m].name, code |-> CodeOf(m)]

H == INSTANCE HotReload WITH
       Nowhere <- NoPath, serving <- ServingCode,
       loading <- LoadInProgress, executing <- HandlerInProgress

\* Every behaviour of the two threads, seen through the mapping, is one of hot
\* reload's: whole files read at one moment, units installed in order without
\* a gap, handlers entered in current code, and no unit replaced under a
\* handler that runs (compile_and_register, hot_swap and the sweeps).
ImplementsHotReload == H!HotReloadSpec
=============================================================================
