---------------------- MODULE RunControllerProperties ----------------------
(***************************************************************************)
(* What RunController promises.  The first group is about the two threads  *)
(* and the modules they hold pointers to, the second about what is loaded  *)
(* and which handlers run, the last about progress.                        *)
(***************************************************************************)
EXTENDS RunController

Loading == {"slurp", "unit", "queue", "mdinit", "super", "reload"}
Executing == {"exec", "input"}
Shared == Loading \cup Executing \cup {"collect", "sweep"}
MainOnly == {"init", "scan", "load", "start", "getline", "stop", "join", "done"}
WatcherOnly == {"idle", "check", "sleep", "visit", "purge", "reclaim", "ended"}

Job == [path: Paths \cup {NoPath}, is_new: BOOLEAN, units: Seq(UnitSource),
        version: Nat, m: Nat, old: Nat]

Frame == [m: Nat, h: HandlerNames \cup {"none"}, again: BOOLEAN, asked: BOOLEAN]

\* Every variable has values of its type, and each thread is at a statement of
\* its own code or of the functions both threads call.
TypeOK ==
  /\ ManagerTypeOK
  /\ modules_mtx \in Threads \cup {NoThread}
  /\ DirTypeOK
  /\ pc \in [Threads -> MainOnly \cup WatcherOnly \cup Shared]
  /\ pc["main"] \notin WatcherOnly /\ pc["watcher"] \notin MainOnly
  /\ job \in [Threads -> Job]
  /\ frame \in [Threads -> Frame]
  /\ mods \in [Threads -> SUBSET Nat]
  /\ any_stop \in [Threads -> BOOLEAN]
  /\ scripts_map \in [Paths -> Nat]
  /\ todo \subseteq Paths
  /\ mode \in Modes
  /\ rescan \in BOOLEAN /\ stop_flag \in BOOLEAN /\ crashed \in BOOLEAN
  /\ lines \in Nat /\ eof \in BOOLEAN /\ entered \in BOOLEAN
  /\ superRuns \in Nat /\ stopAsked \in BOOLEAN
  /\ lastRead \in [Paths -> Nat]
  /\ clean \in [Paths -> BOOLEAN]

-----------------------------------------------------------------------------
(* The two threads and the modules                                          *)

\* The statements at which a thread may use the VM, scripts_map or a Module.
MainBusy == pc["main"] \notin {"start", "getline", "stop", "join", "done"}
WatcherBusy == pc["watcher"] \notin {"idle", "ended"}

\* Neither the VM's stacks nor scripts_map has a lock: the two threads are
\* never both at a statement that uses them (vm.h, run_controller.h).
ThreadExclusion == ~(MainBusy /\ WatcherBusy)

\* The pointers a thread will still dereference.
Held(t) == ({job[t].m, job[t].old, frame[t].m} \cup mods[t]) \ {nullptr}

\* No thread holds a pointer to a module that tick_reclaim has deleted: not in
\* a load, not in a handler's frame, not in a sweep's copy of the registry.
NoDanglingPointer == \A t \in Threads : Held(t) \cap Live = Held(t)

\* A module that has been allocated and not deleted is in exactly one of three
\* places: installed under its own name only, replaced and about to be queued,
\* or queued for reclaim; a deleted one is in none of them.  So hot_swap and
\* tick_reclaim neither leak a module nor delete one twice.
OwnedOnce ==
  LET InHand == {job[t].old : t \in Threads} \ {nullptr} IN
  /\ Live = Installed \cup InHand \cup pending_reclaim
  /\ pending_reclaim \cap (Installed \cup InHand) = {}
  /\ Installed \cap InHand = {}
  /\ \A u \in Units : modules[u] # nullptr => inst[modules[u]].name = u

\* active_calls counts the frames that execute in a module, whatever way the
\* earlier ones were left: a count that stayed up would keep a replaced module
\* queued for ever.
CallsCounted ==
  \A m \in DOMAIN inst :
    inst[m].active_calls =
      (IF frame["main"].m = m THEN 1 ELSE 0) + (IF frame["watcher"].m = m THEN 1 ELSE 0)

\* modules_mtx is held exactly while a thread executes an MdInit; whatever way
\* MdInit ends, the registry is unlocked again.
MutexHeldByMdInit ==
  \A t \in Threads : (modules_mtx = t) <=> (frame[t].h = "MdInit")

-----------------------------------------------------------------------------
(* Loading                                                                  *)

\* The write time of p has been recorded, and the read that goes with it is
\* still to come: at once, or later in main's initial load.
ToBeRead(p) ==
  \/ \E t \in Threads : pc[t] = "slurp" /\ job[t].path = p
  \/ pc["watcher"] = "idle" /\ (pc["main"] = "scan" \/ p \in todo)

\* No edit is lost: if scripts_map records the write time the file has now, so
\* that no later scan will look at the file again, then the content that was
\* read last is the one the file has now.
NoLostEdit ==
  \A p \in Paths :
    Exists(p) /\ scripts_map[p] = disk[p].time /\ ~ToBeRead(p) =>
      lastRead[p] = disk[p].time

\* When that content was loaded to its end, each of its units is installed
\* from it, unless another file has since installed a unit of that name.
InstalledIsCurrent ==
  \A p \in Paths :
    Exists(p) /\ lastRead[p] = disk[p].time /\ clean[p] =>
      \A i \in DOMAIN disk[p].units :
        LET m == modules[disk[p].units[i].name] IN
        m # nullptr /\ (inst[m].path = p => inst[m].version = disk[p].time)

\* A load that failed half way leaves the units before the failure new and the
\* others old, never the other way round: of two installed units of the
\* content read last, the one that comes first in the file was installed last.
\* A unit the file defines more than once counts where it comes first.
LoadsArePrefixes ==
  \A p \in Paths :
    Exists(p) /\ lastRead[p] = disk[p].time =>
      \A i, j \in DOMAIN disk[p].units :
        LET m == modules[disk[p].units[i].name]
            n == modules[disk[p].units[j].name]
        IN  /\ i < j /\ \A h \in 1..j - 1 : disk[p].units[h].name # disk[p].units[j].name
            /\ m # nullptr /\ n # nullptr /\ inst[m].path = p /\ inst[n].path = p
            /\ inst[n].version = disk[p].time
            => inst[m].version = disk[p].time

\* MdReload and MdSuperInit run only in a module whose MdInit, if it has one,
\* has returned: an MdInit that threw ends the load.
InitialisedFirst ==
  \A t \in Threads :
    frame[t].h \in {"MdReload", "MdSuperInit"} /\ Has(frame[t].m, "MdInit") =>
      inst[frame[t].m].mdinit_called

\* MdSuperInit is begun once in the life of the process, whatever scripts,
\* rescans and exceptions come.
SuperInitOnce == superRuns <= 1

\* A Finalize that asks the watcher to stop is obeyed at the end of the sweep,
\* whatever the others of the sweep answer: nothing is scanned after it.
StopHonoured ==
  stopAsked => pc["watcher"] \in Executing \cup {"sweep", "ended"} /\
               (pc["watcher"] \in Executing => frame["watcher"].h = "Finalize")

-----------------------------------------------------------------------------
(* Progress, under FairSpec                                                 *)

Watching == pc["watcher"] # "idle" /\ ~stop_flag

\* "press Enter to exit": once the user has pressed Enter, the process ends.
EnterExits == entered /\ mode = "Watch" ~> Finished

\* A content a file keeps is read, unless the watcher is asked to stop.
EditsAreRead ==
  \A p \in Paths, k \in Times :
    Watching /\ disk[p].time = k ~>
      lastRead[p] = k \/ disk[p].time # k \/ stop_flag \/ crashed

\* Replaced modules are deleted in the end, unless the watcher is asked to stop.
ReplacedAreReclaimed ==
  Watching /\ pending_reclaim # {} ~> pending_reclaim = {} \/ stop_flag \/ crashed


\* --test gets to the end of main, where it has printed "[UTest FAILED] module="
\* for each test that did not pass and "UTest: total=... failed=..." for all.
TestReturns == mode = "Test" ~> pc["main"] = "done"
=============================================================================
