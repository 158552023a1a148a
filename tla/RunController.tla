--------------------------- MODULE RunController ---------------------------
(***************************************************************************)
(* The process: src/run_controller.cpp driving the registry of             *)
(* ModuleManager over the directory of ScriptDir.                          *)
(*                                                                         *)
(* Two threads.  "main" scans and loads every script, then either runs one *)
(* of the batch modes and returns, or starts the "watcher", waits for      *)
(* Enter, asks the watcher to stop, joins it and calls Finalize a last     *)
(* time.  The watcher rescans every 400 ms, reloads what changed, forgets  *)
(* what was removed, calls every Finalize and reclaims replaced modules.   *)
(* Neither VM nor scripts_map has a lock: that the two threads never use   *)
(* them together rests on where the watcher is started and joined.         *)
(*                                                                         *)
(* pc[t] names the statement thread t is about to execute.  A step is one  *)
(* access to the disk, one critical section, or the start or the end of a  *)
(* handler's execution; what runs between two of those touches only the    *)
(* thread's own locals.  A handler's body is abstracted to how it ends: it *)
(* returns a value, truthy or not, or throws (a host function can), and on *)
(* the way it may read standard input.                                     *)
(***************************************************************************)
EXTENDS ModuleManager, ScriptDir

CONSTANTS
  NoPath,           \* path of a thread that is not loading any file
  Modes,            \* modes the command line may select
  MaxEnter,         \* bound on the lines the user types
  MayEndEarly,      \* may the process end by an uncaught exception or by exit?
  ScriptsReadStdin  \* may handlers call io.input?

Threads == {"main", "watcher"}

ASSUME ControllerAssumption ==
  /\ NoPath \notin Paths /\ NoThread \notin Threads
  /\ Modes \subseteq {"Watch", "Test", "Benchmark", "Production"}
  /\ MaxEnter \in Nat
  /\ MayEndEarly \in BOOLEAN /\ ScriptsReadStdin \in BOOLEAN

VARIABLES
  pc,             \* thread -> statement it is at
  job,            \* thread -> locals of its compile_and_register
  frame,          \* thread -> handler it is executing
  mods,           \* thread -> modules its sweep over the registry has still to call
  any_stop,       \* thread -> any_requested_stop of call_finalize_all
  scripts_map,    \* path -> last_write, 0 for a path that is not a key
  todo,           \* paths the loop over the directory or scripts_map has still to visit
  mode, rescan,   \* rescan: initial_scan_and_load has to run once more
  stop_flag,
  crashed,        \* the process was ended by std::terminate or std::exit
  lines, eof,     \* standard input: unread lines, and whether it is closed
  (* history *)
  entered,        \* the user has pressed Enter, or closed standard input
  lastRead,       \* path -> write time of the content slurped last
  clean,          \* path -> its last load went through all the units of the file
  superRuns,      \* executions of MdSuperInit begun
  stopAsked       \* a Finalize has asked the watcher to stop

localVars == <<job, frame, mods, any_stop>>
scriptVars == <<scripts_map, todo>>
flagVars == <<mode, rescan, stop_flag, crashed>>
worldVars == <<dirVars, lines, eof, entered>>
historyVars == <<lastRead, clean, superRuns, stopAsked>>
vars == <<managerVars, pc, localVars, scriptVars, flagVars, worldVars, historyVars>>

NoJob == [path |-> NoPath, is_new |-> FALSE, units |-> <<>>, version |-> 0,
          m |-> nullptr, old |-> nullptr]

\* "again" and "asked" say that the handler is the second run of a failed UTest,
\* and that it has read its line of input (one per execution, to bound them).
NoFrame == [m |-> nullptr, h |-> "none", again |-> FALSE, asked |-> FALSE]

Finished == pc["main"] = "done" \/ crashed

Init ==
  /\ ManagerInit
  /\ DirInit
  /\ mode \in Modes
  /\ pc = [t \in Threads |-> IF t = "main" THEN "init" ELSE "idle"]
  /\ job = [t \in Threads |-> NoJob]
  /\ frame = [t \in Threads |-> NoFrame]
  /\ mods = [t \in Threads |-> {}]
  /\ any_stop = [t \in Threads |-> FALSE]
  /\ scripts_map = [p \in Paths |-> 0] /\ todo = {}
  /\ rescan = (mode = "Production")
  /\ stop_flag = FALSE /\ crashed = FALSE
  /\ lines = 0 /\ eof = FALSE /\ entered = FALSE
  /\ lastRead = [p \in Paths |-> 0] /\ clean = [p \in Paths |-> FALSE]
  /\ superRuns = 0 /\ stopAsked = FALSE

At(t, from) == ~crashed /\ pc[t] = from
Goto(t, to) == pc' = [pc EXCEPT ![t] = to]
Transition(t, from, to) == At(t, from) /\ Goto(t, to)

-----------------------------------------------------------------------------
(* Executing handlers                                                       *)

\* VM::execute_handler: thread t enters handler h of m.
BeginHandler(t, m, h) ==
  /\ EnterCall(m)
  /\ frame' = [frame EXCEPT ![t] = [NoFrame EXCEPT !.m = m, !.h = h]]
  /\ Goto(t, "exec")

InHandler(t, handlers) == At(t, "exec") /\ frame[t].h \in handlers

\* Mutant: a plain decrement after the call, which an exception jumps over.
EndHandler_NoGuard(t) == UNCHANGED inst /\ frame' = [frame EXCEPT ![t] = NoFrame]

\* The handler is left, by return or by exception: its guard is destroyed.
EndHandler(t) ==
  LeaveCall(frame[t].m, FALSE) /\ frame' = [frame EXCEPT ![t] = NoFrame]

\* io.input: the handler waits for a line, and takes it.
ScriptAsksInput(t) ==
  /\ ScriptsReadStdin /\ ~frame[t].asked
  /\ Transition(t, "exec", "input")
  /\ frame' = [frame EXCEPT ![t].asked = TRUE]
  /\ UNCHANGED <<managerVars, job, mods, any_stop, scriptVars, flagVars, worldVars,
                 historyVars>>

TakeLine == (lines > 0 \/ eof) /\ lines' = IF lines > 0 THEN lines - 1 ELSE 0

ScriptGetsInput(t) ==
  /\ Transition(t, "input", "exec")
  /\ TakeLine
  /\ UNCHANGED <<managerVars, localVars, scriptVars, flagVars, dirVars, eof, entered,
                 historyVars>>

-----------------------------------------------------------------------------
(* compile_and_register, called by main's initial load and by the watcher   *)

BeginLoad(t, p, is_new) ==
  /\ job' = [job EXCEPT ![t] = [NoJob EXCEPT !.path = p, !.is_new = is_new]]
  /\ Goto(t, "slurp")

\* It is left: at its end, by an early return, or by an exception it catches.
LeaveLoad(t) ==
  /\ job' = [job EXCEPT ![t] = NoJob]
  /\ Goto(t, IF t = "main" THEN "load" ELSE "visit")

\* What no step of a load changes.
LoadUnchanged ==
  UNCHANGED <<mods, any_stop, scriptVars, flagVars, worldVars, stopAsked>>

\* slurp_file, parse_program and the early return on a file without units.
\* A file that is gone or does not parse throws; the exception is caught.  A unit
\* that is not closed has the parser append handlers until memory is used up:
\* that bad_alloc is caught like any other, if the process survives (ProcessEnds).
Slurp(t) ==
  LET p == job[t].path
      f == disk[p]
  IN
  /\ At(t, "slurp")
  /\ lastRead' = [lastRead EXCEPT ![p] = IF Exists(p) THEN f.time ELSE @]
  /\ clean' = [clean EXCEPT ![p] = f.parses /\ f.units = <<>>]
  /\ IF f.parses /\ f.units # <<>>
     THEN /\ job' = [job EXCEPT ![t].units = f.units, ![t].version = f.time]
          /\ Goto(t, "unit")
     ELSE LeaveLoad(t)
  /\ LoadUnchanged /\ UNCHANGED <<managerVars, frame, superRuns>>

\* Mutant: the exception is caught inside the loop over the units.
UnitFails_Continue(t) ==
  /\ At(t, "unit")
  /\ ~Head(job[t].units).compiles
  /\ IF Tail(job[t].units) = <<>>
     THEN LeaveLoad(t)
     ELSE job' = [job EXCEPT ![t].units = Tail(@)] /\ UNCHANGED pc
  /\ LoadUnchanged /\ UNCHANGED <<managerVars, frame, lastRead, clean, superRuns>>

\* compile_unit throws: the units before this one stay installed.
UnitFails(t) ==
  /\ At(t, "unit")
  /\ ~Head(job[t].units).compiles
  /\ LeaveLoad(t)
  /\ LoadUnchanged /\ UNCHANGED <<managerVars, frame, lastRead, clean, superRuns>>

\* compile_unit, module_from_compiled and hot_swap up to its first unlock.
InstallUnit(t) ==
  LET u == Head(job[t].units) IN
  /\ Transition(t, "unit", "queue")
  /\ u.compiles
  /\ HotSwapInstall(module_from_compiled(u, job[t].path, job[t].version))
  /\ job' = [job EXCEPT ![t].m = Len(inst) + 1, ![t].old = modules[u.name]]
  /\ LoadUnchanged
  /\ UNCHANGED <<pending_reclaim, modules_mtx, super_called, frame, lastRead, clean,
                 superRuns>>

\* The rest of hot_swap.
QueueOld(t) ==
  /\ Transition(t, "queue", "mdinit")
  /\ HotSwapQueue(job[t].old)
  /\ job' = [job EXCEPT ![t].old = nullptr]
  /\ LoadUnchanged
  /\ UNCHANGED <<inst, modules, modules_mtx, super_called, frame, lastRead, clean,
                 superRuns>>

\* MdInit runs with modules_mtx held.
CallMdInit(t) ==
  LET m == job[t].m IN
  /\ At(t, "mdinit")
  /\ modules_mtx = NoThread
  /\ IF ~inst[m].mdinit_called /\ Has(m, "MdInit")
     THEN BeginHandler(t, m, "MdInit") /\ modules_mtx' = t
     ELSE Goto(t, "super") /\ UNCHANGED <<inst, frame, modules_mtx>>
  /\ LoadUnchanged
  /\ UNCHANGED <<modules, pending_reclaim, super_called, job, lastRead, clean, superRuns>>

\* Mutant: super_called is only tested.
CallMdSuperInit_Test(t) ==
  LET m == job[t].m IN
  /\ At(t, "super")
  /\ IF Has(m, "MdSuperInit") /\ ~super_called
     THEN superRuns' = superRuns + 1 /\ BeginHandler(t, m, "MdSuperInit")
     ELSE Goto(t, "reload") /\ UNCHANGED <<superRuns, inst, frame>>
  /\ LoadUnchanged
  /\ UNCHANGED <<modules, pending_reclaim, modules_mtx, super_called, job, lastRead, clean>>

\* super_called.test_and_set() comes before the call.
CallMdSuperInit(t) ==
  LET m == job[t].m IN
  /\ At(t, "super")
  /\ IF Has(m, "MdSuperInit") /\ ~super_called
     THEN /\ super_called' = TRUE /\ superRuns' = superRuns + 1
          /\ BeginHandler(t, m, "MdSuperInit")
     ELSE Goto(t, "reload") /\ UNCHANGED <<super_called, superRuns, inst, frame>>
  /\ LoadUnchanged
  /\ UNCHANGED <<modules, pending_reclaim, modules_mtx, job, lastRead, clean>>

\* The end of the loop's body: on to the next unit, or out of the function.
NextUnit(t) ==
  LET rest == Tail(job[t].units) IN
  IF rest = <<>>
  THEN LeaveLoad(t) /\ clean' = [clean EXCEPT ![job[t].path] = TRUE]
  ELSE /\ job' = [job EXCEPT ![t].units = rest, ![t].m = nullptr]
       /\ Goto(t, "unit") /\ UNCHANGED clean

CallMdReload(t) ==
  LET m == job[t].m IN
  /\ At(t, "reload")
  /\ IF ~job[t].is_new /\ Has(m, "MdReload")
     THEN BeginHandler(t, m, "MdReload") /\ UNCHANGED <<job, clean>>
     ELSE NextUnit(t) /\ UNCHANGED <<inst, frame>>
  /\ LoadUnchanged
  /\ UNCHANGED <<modules, pending_reclaim, modules_mtx, super_called, lastRead, superRuns>>

\* Mutant: lock() without an unlock() on the way out.
UnlockAfter_Never(h) == UNCHANGED modules_mtx

\* modules_mtx is released by whatever leaves the block that runs MdInit.
UnlockAfter(h) == modules_mtx' = IF h = "MdInit" THEN NoThread ELSE modules_mtx

LoadHandlerReturns(t) ==
  LET h == frame[t].h IN
  /\ InHandler(t, {"MdInit", "MdSuperInit", "MdReload"})
  /\ LeaveCall(frame[t].m, h = "MdInit")
  /\ frame' = [frame EXCEPT ![t] = NoFrame]
  /\ UnlockAfter(h)
  /\ IF h = "MdReload"
     THEN NextUnit(t)
     ELSE Goto(t, IF h = "MdInit" THEN "super" ELSE "reload") /\ UNCHANGED <<job, clean>>
  /\ LoadUnchanged
  /\ UNCHANGED <<modules, pending_reclaim, super_called, lastRead, superRuns>>

\* Mutant: MdInit is called through call_handler_void, which swallows exceptions.
LoadHandlerThrows_Swallowed(t) ==
  /\ InHandler(t, {"MdInit", "MdSuperInit", "MdReload"})
  /\ EndHandler(t)
  /\ UnlockAfter(frame[t].h)
  /\ IF frame[t].h = "MdInit" THEN Goto(t, "super") /\ UNCHANGED job ELSE LeaveLoad(t)
  /\ LoadUnchanged
  /\ UNCHANGED <<modules, pending_reclaim, super_called, lastRead, clean, superRuns>>

\* The catch clause ends the load: the units after this one are not loaded.
LoadHandlerThrows(t) ==
  /\ InHandler(t, {"MdInit", "MdSuperInit", "MdReload"})
  /\ EndHandler(t)
  /\ UnlockAfter(frame[t].h)
  /\ LeaveLoad(t)
  /\ LoadUnchanged
  /\ UNCHANGED <<modules, pending_reclaim, super_called, lastRead, clean, superRuns>>

-----------------------------------------------------------------------------
(* Sweeps over the registry: call_finalize_all, by either thread, and       *)
(* run_tests and run_benchmarks, by main                                    *)

SweepHandler(t) ==
  CASE t = "main" /\ mode = "Test"      -> "UTest"
    [] t = "main" /\ mode = "Benchmark" -> "UBenchmark"
    [] OTHER                            -> "Finalize"

\* The pointers are copied under modules_mtx and used after it is released.
CollectModules(t) ==
  /\ modules_mtx = NoThread
  /\ Transition(t, "collect", "sweep")
  /\ mods' = [mods EXCEPT ![t] = Installed]
  /\ any_stop' = [any_stop EXCEPT ![t] = FALSE]
  /\ UNCHANGED <<managerVars, job, frame, scriptVars, flagVars, worldVars, historyVars>>

\* What no call of a sweep changes.
SweepUnchanged ==
  UNCHANGED <<modules, pending_reclaim, modules_mtx, super_called, job, scriptVars, mode,
              rescan, stop_flag, worldVars, lastRead, clean, superRuns>>

\* The next module, in the unspecified order of an unordered_map.
SweepModule(t) ==
  \E m \in mods[t] :
    /\ At(t, "sweep")
    /\ mods' = [mods EXCEPT ![t] = @ \ {m}]
    /\ IF Has(m, SweepHandler(t))
       THEN BeginHandler(t, m, SweepHandler(t))
       ELSE UNCHANGED <<inst, frame, pc>>
    /\ SweepUnchanged /\ UNCHANGED <<any_stop, crashed, stopAsked>>

FinalizeAsksStop(t) ==
  /\ InHandler(t, {"Finalize"})
  /\ EndHandler(t) /\ Goto(t, "sweep")
  /\ any_stop' = [any_stop EXCEPT ![t] = TRUE]
  /\ stopAsked' = (stopAsked \/ t = "watcher")
  /\ SweepUnchanged /\ UNCHANGED <<mods, crashed>>

\* Mutant: any_requested_stop is assigned each module's answer.
SweepCallEnds_LastAnswer(t) ==
  /\ InHandler(t, {"Finalize", "UTest", "UBenchmark"})
  /\ EndHandler(t) /\ Goto(t, "sweep")
  /\ any_stop' = [any_stop EXCEPT ![t] = FALSE]
  /\ SweepUnchanged /\ UNCHANGED <<mods, crashed, stopAsked>>

\* A Finalize that returns a falsy value, a UTest that passes, a UBenchmark; and,
\* as call_handler_bool and call_handler_void swallow it, what a handler throws.
SweepCallEnds(t) ==
  /\ InHandler(t, {"Finalize", "UTest", "UBenchmark"})
  /\ EndHandler(t) /\ Goto(t, "sweep")
  /\ SweepUnchanged /\ UNCHANGED <<mods, any_stop, crashed, stopAsked>>

\* A UTest that throws or does not return truthy is executed once more, for
\* the report to show what it returns.
UTestFails ==
  /\ InHandler("main", {"UTest"})
  /\ ~frame["main"].again
  /\ frame' = [frame EXCEPT !["main"].again = TRUE]
  /\ SweepUnchanged /\ UNCHANGED <<pc, inst, mods, any_stop, crashed, stopAsked>>

\* That time the VM is called directly, and nothing catches what is thrown.
UTestThrowsAgain ==
  /\ InHandler("main", {"UTest"})
  /\ frame["main"].again
  /\ crashed' = TRUE
  /\ SweepUnchanged /\ UNCHANGED <<pc, inst, frame, mods, any_stop, stopAsked>>

-----------------------------------------------------------------------------
(* The watcher                                                              *)

\* A step in which a thread only moves to another statement.
OnlyMoves ==
  UNCHANGED <<managerVars, localVars, scriptVars, flagVars, worldVars, historyVars>>

\* The loop's condition; the 400 ms sleep follows.
WatchCheck ==
  /\ At("watcher", "check")
  /\ Goto("watcher", IF stop_flag THEN "ended" ELSE "sleep")
  /\ OnlyMoves

\* What iterating over the directory from now on returns: the files that are
\* there, and perhaps some that are created before the iterator gets to them.
OpenDirectory ==
  \E later \in SUBSET {p \in Paths : ~Exists(p)} :
    todo' = {p \in Paths : Exists(p)} \cup later

\* A loop over the keys of scripts_map is about to start.
LoopOverScripts == todo' = {p \in Paths : scripts_map[p] # 0}

WatchScan ==
  /\ Transition("watcher", "sleep", "visit")
  /\ OpenDirectory
  /\ UNCHANGED <<managerVars, localVars, scripts_map, flagVars, worldVars, historyVars>>

\* Mutant: only later write times count as changes.
Changed_Newer(p) == Exists(p) /\ disk[p].time > scripts_map[p]

\* A file is to be loaded: it is new to scripts_map, or has another write time.
Changed(p) == Exists(p) /\ disk[p].time # scripts_map[p]

\* One directory entry: skip it, load a new script, or reload a changed one.
\* The write time is recorded before the file is read.
WatchVisit ==
  \E p \in todo :
    /\ At("watcher", "visit")
    /\ todo' = todo \ {p}
    /\ IF Changed(p)
       THEN /\ scripts_map' = [scripts_map EXCEPT ![p] = disk[p].time]
            /\ BeginLoad("watcher", p, scripts_map[p] = 0)
       ELSE UNCHANGED <<scripts_map, job, pc>>
    /\ UNCHANGED <<managerVars, frame, mods, any_stop, flagVars, worldVars, historyVars>>

\* Mutant: the write times are recorded once per scan, after it.
WatchVisited_Record ==
  /\ todo = {}
  /\ Transition("watcher", "visit", "purge")
  /\ LoopOverScripts
  /\ scripts_map' = [p \in Paths |-> IF scripts_map[p] = 0 THEN 0 ELSE disk[p].time]
  /\ UNCHANGED <<managerVars, localVars, flagVars, worldVars, historyVars>>

WatchVisited ==
  /\ todo = {}
  /\ Transition("watcher", "visit", "purge")
  /\ LoopOverScripts
  /\ UNCHANGED <<managerVars, localVars, scripts_map, flagVars, worldVars, historyVars>>

\* A script whose file is gone is forgotten; its modules stay installed.
WatchPurge ==
  \E p \in todo :
    /\ At("watcher", "purge")
    /\ todo' = todo \ {p}
    /\ scripts_map' = IF Exists(p) THEN scripts_map ELSE [scripts_map EXCEPT ![p] = 0]
    /\ UNCHANGED <<managerVars, pc, localVars, flagVars, worldVars, historyVars>>

WatchPurged == todo = {} /\ Transition("watcher", "purge", "collect") /\ OnlyMoves

\* Mutant: the result of call_finalize_all is stored, over main's request too.
WatchFinalized_Store ==
  /\ At("watcher", "sweep") /\ mods["watcher"] = {}
  /\ Goto("watcher", IF any_stop["watcher"] THEN "ended" ELSE "reclaim")
  /\ stop_flag' = any_stop["watcher"]
  /\ UNCHANGED <<managerVars, localVars, scriptVars, mode, rescan, crashed, worldVars,
                 historyVars>>

\* call_finalize_all has returned: stop the watcher, or go on to reclaim.
WatchFinalized ==
  /\ At("watcher", "sweep") /\ mods["watcher"] = {}
  /\ Goto("watcher", IF any_stop["watcher"] THEN "ended" ELSE "reclaim")
  /\ stop_flag' = (stop_flag \/ any_stop["watcher"])
  /\ UNCHANGED <<managerVars, localVars, scriptVars, mode, rescan, crashed, worldVars,
                 historyVars>>

WatchReclaim ==
  /\ Transition("watcher", "reclaim", "check")
  /\ tick_reclaim
  /\ UNCHANGED <<modules, modules_mtx, super_called, localVars, scriptVars, flagVars,
                 worldVars, historyVars>>

-----------------------------------------------------------------------------
(* The main thread                                                          *)

\* initial_scan_and_load, first loop: stat every script.
InitialScan ==
  /\ Transition("main", "init", "scan")
  /\ OpenDirectory
  /\ UNCHANGED <<managerVars, localVars, scripts_map, flagVars, worldVars, historyVars>>

\* emplace does not overwrite what an earlier scan recorded.
InitialStat ==
  \E p \in todo :
    /\ At("main", "scan")
    /\ todo' = todo \ {p}
    /\ scripts_map' = IF scripts_map[p] = 0
                      THEN [scripts_map EXCEPT ![p] = disk[p].time]
                      ELSE scripts_map
    /\ UNCHANGED <<managerVars, pc, localVars, flagVars, worldVars, historyVars>>

InitialScanned ==
  /\ todo = {}
  /\ Transition("main", "scan", "load")
  /\ LoopOverScripts
  /\ UNCHANGED <<managerVars, localVars, scripts_map, flagVars, worldVars, historyVars>>

\* Second loop: load every script, in no particular order.
InitialLoad ==
  \E p \in todo :
    /\ At("main", "load")
    /\ todo' = todo \ {p}
    /\ BeginLoad("main", p, TRUE)
    /\ UNCHANGED <<managerVars, frame, mods, any_stop, scripts_map, flagVars, worldVars,
                   historyVars>>


\* The switch on the mode in run(); run_production scans and loads again.
InitialLoaded ==
  /\ todo = {}
  /\ At("main", "load")
  /\ Goto("main", CASE mode = "Watch" -> "start"
                    [] rescan         -> "init"
                    [] OTHER          -> "collect")
  /\ rescan' = FALSE
  /\ UNCHANGED <<managerVars, localVars, scriptVars, mode, stop_flag, crashed, worldVars,
                 historyVars>>

StartWatcher ==
  /\ At("main", "start")
  /\ stop_flag' = FALSE
  /\ pc' = [pc EXCEPT !["main"] = "getline", !["watcher"] = "check"]
  /\ UNCHANGED <<managerVars, localVars, scriptVars, mode, rescan, crashed, worldVars,
                 historyVars>>

\* getline(cin, dummy): a line, or the end of the input.
GetLine ==
  /\ Transition("main", "getline", "stop")
  /\ TakeLine
  /\ UNCHANGED <<managerVars, localVars, scriptVars, flagVars, dirVars, eof, entered,
                 historyVars>>

SetStop ==
  /\ Transition("main", "stop", "join")
  /\ stop_flag' = TRUE
  /\ UNCHANGED <<managerVars, localVars, scriptVars, mode, rescan, crashed, worldVars,
                 historyVars>>

\* Mutant: the watcher is detached.
JoinWatcher_Detach == Transition("main", "join", "collect") /\ OnlyMoves

JoinWatcher ==
  /\ pc["watcher"] = "ended"
  /\ Transition("main", "join", "collect")
  /\ OnlyMoves

\* The last sweep is over; a request to stop is ignored here.
Return == mods["main"] = {} /\ Transition("main", "sweep", "done") /\ OnlyMoves

\* The parser takes all the memory there is (the run unclosed_unit).
ParserIsKilled(t) ==
  LET p == job[t].path IN pc[t] = "slurp" /\ Exists(p) /\ ~disk[p].parses

\* The process ends under both threads: recursive_directory_iterator or fs::exists
\* throws, which nothing catches, or a handler calls io.flush_and_exit.
ProcessEnds(t) ==
  /\ MayEndEarly /\ ~crashed
  /\ pc[t] \in {"init", "scan", "sleep", "visit", "purge", "exec"} \/ ParserIsKilled(t)
  /\ crashed' = TRUE
  /\ UNCHANGED <<managerVars, pc, localVars, scriptVars, mode, rescan, stop_flag,
                 worldVars, historyVars>>

-----------------------------------------------------------------------------
(* Specification                                                            *)

Load(t) ==
  \/ Slurp(t) \/ UnitFails(t) \/ InstallUnit(t) \/ QueueOld(t)
  \/ CallMdInit(t) \/ CallMdSuperInit(t) \/ CallMdReload(t)
  \/ LoadHandlerReturns(t) \/ LoadHandlerThrows(t)

Sweep(t) ==
  CollectModules(t) \/ SweepModule(t) \/ FinalizeAsksStop(t) \/ SweepCallEnds(t)

EitherThread(t) ==
  Load(t) \/ Sweep(t) \/ ScriptAsksInput(t) \/ ScriptGetsInput(t) \/ ProcessEnds(t)

Main ==
  \/ EitherThread("main")
  \/ InitialScan \/ InitialStat \/ InitialScanned \/ InitialLoad \/ InitialLoaded
  \/ UTestFails \/ UTestThrowsAgain
  \/ StartWatcher \/ GetLine \/ SetStop \/ JoinWatcher \/ Return

Watcher ==
  \/ EitherThread("watcher")
  \/ WatchCheck \/ WatchScan \/ WatchVisit \/ WatchVisited \/ WatchPurge \/ WatchPurged
  \/ WatchFinalized \/ WatchReclaim

EditFile == \E p \in Paths : Write(p) /\ UNCHANGED <<lines, eof, entered>>

RemoveFile == \E p \in Paths : Delete(p) /\ UNCHANGED <<lines, eof, entered>>

\* One press is enough unless scripts read the input too.
PressEnter ==
  /\ ~eof /\ lines < MaxEnter /\ (entered => ScriptsReadStdin)
  /\ lines' = lines + 1 /\ entered' = TRUE
  /\ UNCHANGED <<dirVars, eof>>

CloseStdin ==
  /\ ~eof
  /\ eof' = TRUE /\ entered' = TRUE
  /\ UNCHANGED <<dirVars, lines>>

Environment ==
  /\ ~Finished
  /\ EditFile \/ RemoveFile \/ PressEnter \/ CloseStdin
  /\ UNCHANGED <<managerVars, pc, localVars, scriptVars, flagVars, historyVars>>

\* The process has returned from main, or has been terminated.
Terminated == Finished /\ UNCHANGED vars

Next == Main \/ Watcher \/ Environment \/ Terminated

Spec == Init /\ [][Next]_vars

\* Neither thread waits for the other on more than a mutex or the join, and a
\* handler that is called ends: each thread takes the step it is ready to take.
FairSpec == Spec /\ WF_vars(Main) /\ WF_vars(Watcher)
=============================================================================
