------------------------ MODULE RunControllerSafety -------------------------
(***************************************************************************)
(* Theorems about what RunController keeps: the modules it owns, the edits *)
(* it has seen, and what it has installed (InstalledIsCurrent,             *)
(* LoadsArePrefixes).                                                      *)
(***************************************************************************)
EXTENDS RunControllerProofs

-----------------------------------------------------------------------------
(* Who owns a module                                                        *)

\* What thread t holds: nothing outside of a load, a sweep or a handler, a
\* replaced module only until it has queued it, and never a deleted one.
HoldOK(t) ==
  /\ ~InLoad(t) => job[t] = NoJob
  /\ pc[t] \notin Executing \cup {"sweep"} \/ InLoadHandler(t) => mods[t] = {}
  /\ job[t].old # nullptr => pc[t] = "queue"
  /\ Held(t) \subseteq Live

OwnInv == OwnedOnce /\ \A t \in Threads : HoldOK(t)

LEMMA LiveGrows ==
  ASSUME Base, [Next]_vars, ~WatchReclaim
  PROVE  Live \subseteq Live'
<1>1. HeapInv /\ PcInv
  BY DEF Base
<1> QED
  BY <1>1, HeapGrows DEF Live

LEMMA ReclaimHold ==
  ASSUME Base, OwnInv, WatchReclaim, NEW t \in Threads
  PROVE  HoldOK(t)' /\ Held(t) = {}
<1> USE DEF Base
<1>1. pc[t] \in {"reclaim", "getline", "stop",
   "join"} /\ pc'[t] \notin Loading \cup Executing
  BY DEF WatchReclaim, Transition, At, Goto, PcInv, PcOK, WatcherAlone, Threads, Loading,
     Executing
<1>2. ~InLoad(t) /\ ~InLoadHandler(t) /\ pc[t] \notin Executing
  BY <1>1 DEF InLoad, InLoadHandler, Loading, Executing
<1>3. job[t] = NoJob /\ mods[t] = {} /\ frame[t] = NoFrame
  BY <1>1, <1>2 DEF OwnInv, HoldOK, HeapInv, FrameOK
<1>4. Held(t) = {}
  BY <1>3 DEF Held, NoJob, NoFrame
<1>5. UNCHANGED <<job, mods, frame>>
  BY DEF WatchReclaim, localVars
<1>6. Held(t)' = {}
  BY <1>4, <1>5 DEF Held
<1> QED
  BY <1>1, <1>3, <1>4, <1>5, <1>6 DEF HoldOK, NoJob

LEMMA KeepsStillHold ==
  ASSUME Base, OwnInv, [Next]_vars, ~WatchReclaim, NEW t \in Threads, KeepsStill(t)
  PROVE  HoldOK(t)'
<1>1. HoldOK(t)
  BY DEF OwnInv
<1>2. Held(t)' \subseteq Live'
  BY <1>1, LiveGrows DEF HoldOK, Held, KeepsStill
<1>3. CASE pc'[t] = pc[t]
  BY <1>1, <1>2, <1>3 DEF HoldOK, KeepsStill, InLoad, InLoadHandler
<1>4. CASE pc'[t] # pc[t]
  <2>1. ~InLoad(t) /\ ~InLoad(t)' /\ ~InLoadHandler(t) /\ ~InLoadHandler(t)' /\ mods[t] = {}
    BY <1>1, <1>4 DEF KeepsStill, HoldOK, InLoad, InLoadHandler, Executing
  <2>2. job'[t] = NoJob /\ mods'[t] = {}
    BY <1>1, <2>1 DEF HoldOK, KeepsStill
  <2> QED
    BY <1>2, <2>1, <2>2 DEF HoldOK, NoJob
<1> QED
  BY <1>3, <1>4

\* Outside of a load: thread t at "sweep", in a sweep's handler, or at no
\* statement of either kind.
LEMMA SweepHold ==
  ASSUME Base, OwnInv, [Next]_vars, ~WatchReclaim, NEW t \in Threads,
         ~InLoad(t), ~InLoad(t)', UNCHANGED job,
         frame'[t].m \in {nullptr, frame[t].m} \cup mods[t],
         mods'[t] \subseteq mods[t] \cup Installed,
         pc'[t] \in Executing \cup {"sweep"}
  PROVE  HoldOK(t)'
<1>1. HoldOK(t) /\ Installed \subseteq Live
  BY DEF OwnInv, OwnedOnce
<1>2. job'[t] = NoJob
  BY <1>1 DEF HoldOK
<1>3. 0 \notin Installed
  BY DEF Installed, nullptr
<1>4. Held(t)' \subseteq Live'
  BY <1>1, <1>3, LiveGrows DEF HoldOK, Held, nullptr
<1>5. ~InLoadHandler(t)'
  BY DEF InLoad
<1> QED
  BY <1>2, <1>4, <1>5 DEF HoldOK, NoJob, nullptr

\* Inside of one.
LEMMA LoadHold ==
  ASSUME Base, OwnInv, [Next]_vars, ~WatchReclaim, NEW t \in Threads,
         InLoad(t), UNCHANGED mods, ~InLoad(t)' => job'[t] = NoJob,
         pc'[t] # "sweep", InLoad(t)' \/ pc'[t] \notin Executing,
         job'[t].m \in {nullptr, job[t].m} \cup Live',
         job'[t].old # nullptr => pc'[t] = "queue",
         job'[t].old \in {nullptr, job[t].old} \cup Live',
         frame'[t].m \in {nullptr, job[t].m, frame[t].m}
  PROVE  HoldOK(t)'
<1>1. HoldOK(t)
  BY DEF OwnInv
<1>2. mods[t] = {}
  BY <1>1 DEF HoldOK, InLoad, Loading, Executing
<1>3. Held(t)' \subseteq Live'
  BY <1>1, <1>2, LiveGrows DEF HoldOK, Held, nullptr
<1> QED
  BY <1>2, <1>3 DEF HoldOK, InLoad

LEMMA HoldNext ==
  ASSUME Base, OwnInv, [Next]_vars, NEW t \in Threads
  PROVE  HoldOK(t)'
<1> USE DEF Base
<1>1. CASE WatchReclaim
  BY <1>1, ReclaimHold
<1> SUFFICES ASSUME ~WatchReclaim PROVE HoldOK(t)'
  BY <1>1
<1>2. CASE KeepsStill(t)
  BY <1>2, KeepsStillHold
<1>3. HoldOK(t) /\ job[t] \in Job
  BY DEF OwnInv, HeapInv
<1>4. CASE StartsLoad(t)
  <2>1. PICK p \in Paths, b \in BOOLEAN : BeginLoad(t, p, b)
    BY <1>4 DEF StartsLoad
  <2>2. job'[t].m = nullptr /\ job'[t].old = nullptr
    BY <2>1 DEF BeginLoad, HeapInv, NoJob
  <2>3. pc'[t] = "slurp" /\ UNCHANGED <<mods, frame>>
    BY <1>4, <2>1 DEF StartsLoad, BeginLoad, Goto, PcInv, PcOK
  <2>4. mods[t] = {} /\ frame[t] = NoFrame
    BY <1>3, <1>4 DEF StartsLoad, HoldOK, HeapInv, FrameOK
  <2>5. Held(t)' = {}
    BY <2>2, <2>3, <2>4 DEF Held, NoFrame
  <2> QED
    BY <2>2, <2>3, <2>4, <2>5 DEF HoldOK, InLoad, Loading
<1>5. CASE CollectModules(t)
  <2>1. pc[t] = "collect" /\ pc'[t] = "sweep" /\ UNCHANGED <<job,
     frame>> /\ mods'[t] = Installed
    BY <1>5 DEF CollectModules, Transition, At, Goto, PcInv, PcOK, HeapInv
  <2>2. ~InLoad(t) /\ ~InLoad(t)'
    BY <2>1 DEF InLoad, InLoadHandler, Loading, Executing
  <2> QED
    BY <2>1, <2>2, SweepHold
<1>6. CASE SweepModule(t)
  <2>1. PICK m \in mods[t] :
          /\ pc[t] = "sweep" /\ mods' = [mods EXCEPT ![t] = @ \ {m}] /\ UNCHANGED job
          /\ \/ BeginHandler(t, m, SweepHandler(t))
             \/ UNCHANGED <<frame, pc>>
    BY <1>6 DEF SweepModule, At, SweepUnchanged
  <2>2. mods'[t] \subseteq mods[t]
    BY <2>1 DEF HeapInv
  <2>3. ~InLoad(t)
    BY <2>1 DEF InLoad, InLoadHandler, Loading, Executing
  <2>4. CASE BeginHandler(t, m, SweepHandler(t))
    <3>1. frame'[t].h = SweepHandler(t) /\ frame'[t].m = m /\ pc'[t] = "exec"
      BY <2>4, BeginFrame DEF BeginHandler, Goto, PcInv, PcOK
    <3>2. ~InLoad(t)'
      BY <3>1 DEF InLoad, InLoadHandler, LoadHandlers, SweepHandler, Loading
    <3> QED
      BY <2>1, <2>2, <2>3, <3>1, <3>2, SweepHold DEF Executing
  <2>5. CASE UNCHANGED <<frame, pc>>
    <3>1. ~InLoad(t)'
      BY <2>3, <2>5 DEF InLoad, InLoadHandler
    <3> QED
      BY <2>1, <2>2, <2>3, <2>5, <3>1, SweepHold
  <2> QED
    BY <2>1, <2>4, <2>5
<1>7. CASE FinalizeAsksStop(t) \/ SweepCallEnds(t)
  <2>1. /\ pc[t] = "exec" /\ frame[t].h \notin LoadHandlers
        /\ pc'[t] = "sweep" /\ frame' = [frame EXCEPT ![t] = NoFrame] /\ UNCHANGED <<job,
           mods>>
    BY <1>7 DEF FinalizeAsksStop, SweepCallEnds, EndHandler, InHandler, At, Goto, PcInv,
       PcOK,
       SweepUnchanged, LoadHandlers
  <2>2. ~InLoad(t) /\ ~InLoad(t)' /\ frame'[t].m = nullptr
    BY <2>1, EndFrame DEF InLoad, InLoadHandler, Loading, Executing
  <2> QED
    BY <2>1, <2>2, SweepHold
<1>8. CASE ScriptAsksInput(t) \/ ScriptGetsInput(t) \/ (t = "main" /\ UTestFails)
  <2>1. UNCHANGED <<job, mods>> /\ pc[t] \in Executing /\ pc'[t] \in Executing
    BY <1>8 DEF ScriptAsksInput, ScriptGetsInput, UTestFails, SweepUnchanged,
       localVars, InHandler, Transition, At, Goto, PcInv, PcOK, Executing
  <2>2. \/ frame' = [frame EXCEPT ![t].asked = TRUE]
        \/ frame' = [frame EXCEPT ![t].again = TRUE]
        \/ UNCHANGED frame
    BY <1>8 DEF ScriptAsksInput, ScriptGetsInput, UTestFails, localVars
  <2>3. frame'[t].h = frame[t].h /\ frame'[t].m = frame[t].m
    BY <2>2 DEF HeapInv, Frame
  <2>4. InLoad(t)' = InLoad(t) /\ InLoadHandler(t)' = InLoadHandler(t)
    BY <2>1, <2>3 DEF InLoad, InLoadHandler, Executing, Loading
  <2>5. Held(t)' \subseteq Live'
    BY <1>3, <2>1, <2>3, LiveGrows DEF HoldOK, Held
  <2> QED
    BY <1>3, <2>1, <2>3, <2>4, <2>5 DEF HoldOK, Executing
<1>9. CASE Load(t)
  <2> USE DEF At, Goto, Transition, PcInv, PcOK, Executing, Loading, LoadUnchanged
  <2>1. ASSUME LeaveLoad(t) PROVE job'[t] = NoJob /\ pc'[t] \in {"load",
     "visit"} /\ ~InLoad(t)'
    BY <2>1 DEF LeaveLoad, HeapInv, InLoad, InLoadHandler
  <2>2. ASSUME LeaveLoad(t), InLoad(t), UNCHANGED mods,
               frame' = [frame EXCEPT ![t] = NoFrame] \/ UNCHANGED frame
        PROVE  HoldOK(t)'
    <3>1. frame'[t].m \in {nullptr, frame[t].m}
      BY <2>2, EndFrame
    <3>2. job'[t].m = nullptr /\ job'[t].old = nullptr
      BY <2>1, <2>2 DEF NoJob
    <3> QED
      BY <2>1, <2>2, <3>1, <3>2, LoadHold
  <2>3. ASSUME NEW h \in LoadHandlers, InLoad(t), pc[t] # "queue", BeginHandler(t,
     job[t].m, h),
               UNCHANGED <<job, mods>>
        PROVE  HoldOK(t)'
    <3>1. frame'[t].h = h /\ frame'[t].m = job[t].m /\ pc'[t] = "exec"
      BY <2>3, BeginFrame DEF BeginHandler
    <3>2. InLoad(t)'
      BY <3>1 DEF InLoad, InLoadHandler
    <3>3. job[t].old = nullptr
      BY <1>3, <2>3 DEF HoldOK
    <3> QED
      BY <2>3, <3>1, <3>2, <3>3, LoadHold
  <2>4. ASSUME NextUnit(t), InLoad(t), UNCHANGED mods, pc[t] # "queue",
               frame' = [frame EXCEPT ![t] = NoFrame] \/ UNCHANGED frame
        PROVE  HoldOK(t)'
    <3>1. CASE LeaveLoad(t)
      BY <2>2, <2>4, <3>1
    <3>2. CASE /\ Goto(t, "unit")
               /\ job' = [job EXCEPT ![t].units = Tail(job[t].units), ![t].m = nullptr]
      <4>1. pc'[t] = "unit" /\ job'[t].m = nullptr /\ job'[t].old = job[t].old
        BY <3>2 DEF HeapInv, Job
      <4>2. InLoad(t)' /\ job[t].old = nullptr
        BY <1>3, <2>4, <4>1 DEF InLoad, HoldOK
      <4>3. frame'[t].m \in {nullptr, frame[t].m}
        BY <2>4, EndFrame
      <4> QED
        BY <2>4, <4>1, <4>2, <4>3, LoadHold
    <3> QED
      BY <2>4, <3>1, <3>2 DEF NextUnit
  <2>5. ASSUME NEW to \in {"super", "reload", "mdinit"}, Goto(t, to), InLoad(t),
     UNCHANGED mods,
               job'[t].old = nullptr, job'[t].m = job[t].m,
               frame' = [frame EXCEPT ![t] = NoFrame] \/ UNCHANGED frame
        PROVE  HoldOK(t)'
    <3>1. pc'[t] = to /\ InLoad(t)'
      BY <2>5 DEF InLoad
    <3>2. frame'[t].m \in {nullptr, frame[t].m}
      BY <2>5, EndFrame
    <3> QED
      BY <2>5, <3>1, <3>2, LoadHold
  <2>6. CASE Slurp(t)
    <3>1. InLoad(t) /\ UNCHANGED <<mods, frame>> /\ job[t].old = nullptr
      BY <1>3, <2>6 DEF Slurp, InLoad, HoldOK
    <3>2. CASE LeaveLoad(t)
      BY <2>2, <3>1, <3>2
    <3>3. CASE ~LeaveLoad(t)
      <4>1. pc'[t] = "unit" /\ job'[t].m = job[t].m /\ job'[t].old = job[t].old
        BY <2>6, <3>3 DEF Slurp, HeapInv, Job
      <4>2. InLoad(t)'
        BY <4>1 DEF InLoad
      <4> QED
        BY <3>1, <4>1, <4>2, LoadHold
    <3> QED
      BY <3>2, <3>3
  <2>7. CASE UnitFails(t)
    BY <2>2, <2>7 DEF UnitFails, InLoad
  <2>8. CASE InstallUnit(t)
    <3> DEFINE u == Head(job[t].units)
    <3>1. /\ pc[t] = "unit" /\ pc'[t] = "queue" /\ UNCHANGED <<mods, frame>>
          /\ job' = [job EXCEPT ![t].m = Len(inst) + 1, ![t].old = modules[u.name]]
          /\ HotSwapInstall(module_from_compiled(u, job[t].path, job[t].version))
      BY <2>8 DEF InstallUnit
    <3>2. u \in UnitSource /\ job[t].path \in Paths /\ job[t].version \in Nat
      BY <3>1, HeadTailProperties DEF HeapInv, JobOK, InLoad, Job
    <3>3. module_from_compiled(u, job[t].path, job[t].version) \in Module
          /\ ~module_from_compiled(u, job[t].path, job[t].version).freed
      BY <3>2 DEF module_from_compiled, Module, UnitSource
    <3>4. modules[u.name] \in {nullptr} \cup Live
      BY <3>2 DEF OwnInv, OwnedOnce, Installed, UnitSource
    <3>5. Len(inst) + 1 \in Live'
      BY <3>1, <3>3, HotSwapInstallEffect, LenProperties DEF Live, HeapInv, ManagerTypeOK
    <3> HIDE DEF u
    <3>6. job'[t].m = Len(inst) + 1 /\ job'[t].old = modules[u.name]
      BY <3>1 DEF HeapInv, Job
    <3>7. InLoad(t) /\ InLoad(t)'
      BY <3>1 DEF InLoad
    <3> QED
      BY <3>1, <3>4, <3>5, <3>6, <3>7, LiveGrows, LoadHold
  <2>9. CASE QueueOld(t)
    <3>1. job'[t].old = nullptr /\ job'[t].m = job[t].m
      BY <2>9 DEF QueueOld, HeapInv, Job
    <3> QED
      BY <2>5, <2>9, <3>1 DEF QueueOld, InLoad
  <2>10. CASE CallMdInit(t)
    <3>1. InLoad(t) /\ pc[t] # "queue" /\ UNCHANGED <<job, mods>> /\ job[t].old = nullptr
      BY <1>3, <2>10 DEF CallMdInit, InLoad, HoldOK
    <3> QED
      BY <2>3, <2>5, <2>10, <3>1 DEF CallMdInit, LoadHandlers
  <2>11. CASE CallMdSuperInit(t)
    <3>1. InLoad(t) /\ pc[t] # "queue" /\ UNCHANGED <<job, mods>> /\ job[t].old = nullptr
      BY <1>3, <2>11 DEF CallMdSuperInit, InLoad, HoldOK
    <3> QED
      BY <2>3, <2>5, <2>11, <3>1 DEF CallMdSuperInit, LoadHandlers
  <2>12. CASE CallMdReload(t)
    <3>1. InLoad(t) /\ pc[t] # "queue" /\ UNCHANGED mods
      BY <2>12 DEF CallMdReload, InLoad
    <3> QED
      BY <2>3, <2>4, <2>12, <3>1 DEF CallMdReload, LoadHandlers
  <2>13. CASE LoadHandlerReturns(t)
    <3>1. /\ InLoad(t) /\ pc[t] # "queue" /\ UNCHANGED mods
          /\ frame' = [frame EXCEPT ![t] = NoFrame] /\ job[t].old = nullptr
      BY <1>3, <2>13 DEF LoadHandlerReturns, InHandler, InLoad, InLoadHandler,
         LoadHandlers, HoldOK
    <3> QED
      BY <2>4, <2>5, <2>13, <3>1 DEF LoadHandlerReturns
  <2>14. CASE LoadHandlerThrows(t)
    <3>1. InLoad(t) /\ UNCHANGED mods /\ frame' = [frame EXCEPT ![t] = NoFrame] /\ LeaveLoad(t)
      BY <2>14 DEF LoadHandlerThrows, EndHandler, InHandler, InLoad, InLoadHandler,
         LoadHandlers
    <3> QED
      BY <2>2, <3>1
  <2> QED
    BY <1>9, <2>6, <2>7, <2>8, <2>9, <2>10, <2>11, <2>12, <2>13, <2>14 DEF Load
<1> QED
  BY <1>2, <1>4, <1>5, <1>6, <1>7, <1>8, <1>9, ThreadSteps DEF HandlerStep, Load

\* The steps that change who owns a module.
LEMMA OwnSteps ==
  ASSUME [Next]_vars
  PROVE  \/ \E t \in Threads : InstallUnit(t) \/ QueueOld(t)
         \/ WatchReclaim
         \/ UNCHANGED <<modules, pending_reclaim>>
<1> USE DEF managerVars, Threads
<1>1. ASSUME NEW t \in Threads, EitherThread(t)
      PROVE  InstallUnit(t) \/ QueueOld(t) \/ UNCHANGED <<modules, pending_reclaim>>
  BY <1>1 DEF EitherThread, Load, Sweep, Slurp, UnitFails, CallMdInit, CallMdSuperInit,
     CallMdReload, LoadHandlerReturns, LoadHandlerThrows, LoadUnchanged, CollectModules,
     SweepModule, FinalizeAsksStop, SweepCallEnds, SweepUnchanged, ScriptAsksInput,
     ScriptGetsInput, ProcessEnds
<1>2. CASE Main
  BY <1>1, <1>2 DEF Main, InitialScan, InitialStat, InitialScanned, InitialLoad,
     InitialLoaded, UTestFails, UTestThrowsAgain, SweepUnchanged, StartWatcher, GetLine,
        SetStop,
     JoinWatcher, Return, OnlyMoves
<1>3. CASE Watcher
  BY <1>1, <1>3 DEF Watcher, WatchCheck, WatchScan, WatchVisit, WatchVisited, WatchPurge,
     WatchPurged, WatchFinalized, OnlyMoves
<1> QED
  BY <1>2, <1>3 DEF Next, Environment, Terminated, vars

InHand == {job[t].old : t \in Threads} \ {nullptr}

LEMMA OldIsPrivate ==
  ASSUME Base, OwnInv, NEW t \in Threads, pc[t] \in {"unit", "queue"}
  PROVE  InHand = {job[t].old} \ {nullptr}
<1>1. \A s \in Threads \ {t} : pc[s] # "queue"
  BY DEF Base, PcInv, PcOK, WatcherAlone, Threads
<1> QED
  BY <1>1 DEF InHand, OwnInv, HoldOK

LEMMA OwnedNext ==
  ASSUME Base, OwnInv, [Next]_vars
  PROVE  OwnedOnce'
<1> USE DEF Base
<1>0. /\ inst \in Seq(Module) /\ DOMAIN inst = 1..Len(inst) /\ Len(inst) \in Nat
      /\ modules \in [Units -> 0..Len(inst)] /\ pending_reclaim \subseteq DOMAIN inst
  BY LenProperties DEF HeapInv, ManagerTypeOK
<1>1. /\ Live = Installed \cup InHand \cup pending_reclaim
      /\ pending_reclaim \cap (Installed \cup InHand) = {}
      /\ Installed \cap InHand = {}
      /\ \A u \in Units : modules[u] # nullptr => inst[modules[u]].name = u
  BY DEF OwnInv, OwnedOnce, InHand
<1>2. ASSUME /\ Live' = Installed' \cup InHand' \cup pending_reclaim'
             /\ pending_reclaim' \cap (Installed' \cup InHand') = {}
             /\ Installed' \cap InHand' = {}
             /\ \A u \in Units : modules'[u] # nullptr => inst'[modules'[u]].name = u
      PROVE  OwnedOnce'
  BY <1>2 DEF OwnedOnce, InHand
<1>3. ASSUME UNCHANGED modules
      PROVE  /\ Installed' = Installed
             /\ \A u \in Units : modules'[u] # nullptr => inst'[modules'[u]].name = u
  BY <1>0, <1>1, <1>3, HeapGrows DEF Installed, SameSource, nullptr
<1>4. CASE WatchReclaim
  <2> DEFINE idle == {m \in pending_reclaim : inst[m].active_calls = 0}
  <2>1. tick_reclaim /\ UNCHANGED <<modules, job>>
    BY <1>4 DEF WatchReclaim, localVars
  <2>2. /\ DOMAIN inst' = DOMAIN inst /\ pending_reclaim' = pending_reclaim \ idle
        /\ \A k \in DOMAIN inst :
             inst'[k].freed =
               (inst[k].freed \/ (k \in pending_reclaim /\ inst[k].active_calls = 0))
    BY <1>0, <2>1, TickReclaimEffect DEF tick_reclaim
  <2>6. \A k \in DOMAIN inst : inst'[k].freed <=> inst[k].freed \/ k \in idle
    BY <2>2
  <2>3. idle \subseteq pending_reclaim
    OBVIOUS
  <2> HIDE DEF idle
  <2>4. Live' = Live \ idle
    BY <2>2, <2>6 DEF Live
  <2>5. InHand' = InHand
    BY <2>1 DEF InHand
  <2> QED
    BY <1>1, <1>2, <1>3, <2>1, <2>2, <2>3, <2>4, <2>5
<1>5. CASE \E t \in Threads : InstallUnit(t)
  <2> PICK t \in Threads : InstallUnit(t)
    BY <1>5
  <2> DEFINE u == Head(job[t].units)
             r == module_from_compiled(u, job[t].path, job[t].version)
             n == Len(inst) + 1
             old == modules[u.name]
  <2>1. u \in UnitSource /\ job[t].path \in Paths /\ job[t].version \in Nat
    BY HeadTailProperties DEF InstallUnit, Transition, At, HeapInv, JobOK, InLoad, Loading,
       Job
  <2>2. r \in Module /\ ~r.freed /\ r.name = u.name /\ u.name \in Units
    BY <2>1 DEF module_from_compiled, Module, UnitSource
  <2>3. HotSwapInstall(r)
    BY DEF InstallUnit
  <2>4. /\ pc[t] = "unit" /\ pc'[t] = "queue" /\ UNCHANGED pending_reclaim
        /\ job' = [job EXCEPT ![t].m = n, ![t].old = old]
    BY DEF InstallUnit, Transition, At, Goto, PcInv, PcOK
  <2> HIDE DEF u, r
  <2>5. /\ DOMAIN inst' = 1..n /\ \A k \in DOMAIN inst : inst'[k] = inst[k]
        /\ inst'[n] = r
    BY <1>0, <2>2, <2>3, HotSwapInstallEffect
  <2>6. modules' = [modules EXCEPT ![u.name] = n]
    BY <2>2, <2>3 DEF HotSwapInstall
  <2>7. n \notin DOMAIN inst /\ n # 0 /\ DOMAIN inst' = DOMAIN inst \cup {n}
    BY <1>0, <2>5
  <2>8. old = 0 \/ old \in Installed
    BY <2>2 DEF Installed, nullptr
  <2>9. \A v \in Units : modules[v] = old /\ old # 0 => v = u.name
    BY <1>1, <2>2 DEF nullptr
  <2> HIDE DEF n
  <2>10. Installed' = (Installed \ {old}) \cup {n}
    BY <1>0, <2>2, <2>6, <2>7, <2>9 DEF Installed, nullptr
  <2>11. Live' = Live \cup {n}
    BY <2>2, <2>5, <2>7 DEF Live
  <2>12. InHand = {}
    <3>1. job[t].old = nullptr
      BY <2>4 DEF OwnInv, HoldOK
    <3> QED
      BY <2>4, <3>1, OldIsPrivate
  <2> HIDE DEF old
  <2>13. InHand' = {old} \ {nullptr}
    <3>1. job'[t].old = old /\ \A s \in Threads \ {t} : job'[s] = job[s]
      BY <2>4 DEF HeapInv, Job
    <3> QED
      BY <2>12, <3>1 DEF InHand
  <2>14. \A v \in Units : modules'[v] # nullptr => inst'[modules'[v]].name = v
    BY <1>0, <1>1, <2>2, <2>5, <2>6, <2>7 DEF nullptr
  <2>15. n \notin Live /\ n \notin pending_reclaim /\ n # old /\ n \notin Installed
    <3>1. old \in 0..Len(inst) /\ Installed \subseteq DOMAIN inst
      BY <1>0, <2>2 DEF old, Installed, nullptr
    <3> QED
      BY <1>0, <2>7, <3>1 DEF Live
  <2>16. /\ Live' = Installed' \cup InHand' \cup pending_reclaim'
         /\ pending_reclaim' \cap (Installed' \cup InHand') = {}
         /\ Installed' \cap InHand' = {}
    <3>1. Live = Installed \cup pending_reclaim /\ pending_reclaim \cap Installed = {}
      BY <1>1, <2>12
    <3>2. 0 \notin Installed
      BY DEF Installed, nullptr
    <3>3. CASE old = 0
      <4>1. Installed' = Installed \cup {n} /\ InHand' = {}
        BY <2>10, <2>13, <3>2, <3>3 DEF nullptr
      <4> QED
        BY <2>4, <2>11, <2>15, <3>1, <4>1
    <3>4. CASE old # 0
      <4>1. InHand' = {old} /\ old \in Installed
        BY <2>8, <2>13, <3>4 DEF nullptr
      <4> QED
        BY <2>4, <2>10, <2>11, <2>15, <3>1, <4>1
    <3> QED
      BY <3>3, <3>4
  <2> QED
    BY <1>2, <2>14, <2>16
<1>6. CASE \E t \in Threads : QueueOld(t)
  <2> PICK t \in Threads : QueueOld(t)
    BY <1>6
  <2>1. /\ UNCHANGED <<inst, modules>> /\ pc[t] = "queue"
        /\ pending_reclaim' = pending_reclaim \cup ({job[t].old} \ {nullptr})
        /\ job' = [job EXCEPT ![t].old = nullptr]
    BY DEF QueueOld, HotSwapQueue, Transition, At
  <2>2. InHand = {job[t].old} \ {nullptr}
    BY <2>1, OldIsPrivate
  <2>3. InHand' = {}
    <3>1. job'[t].old = nullptr /\ \A s \in Threads \ {t} : job'[s] = job[s]
      BY <2>1 DEF HeapInv, Job
    <3>2. \A s \in Threads \ {t} : job[s].old = nullptr
      BY <2>1 DEF OwnInv, HoldOK, PcInv, PcOK, WatcherAlone, Threads
    <3> QED
      BY <3>1, <3>2 DEF InHand
  <2>4. Live' = Live
    BY <2>1 DEF Live
  <2> QED
    BY <1>1, <1>2, <1>3, <2>1, <2>2, <2>3, <2>4
<1>7. CASE /\ UNCHANGED <<modules, pending_reclaim>> /\ ~WatchReclaim
           /\ ~ \E t \in Threads : InstallUnit(t) \/ QueueOld(t)
  <2>1. \A t \in Threads : job'[t].old = job[t].old
    <3> SUFFICES ASSUME NEW t \in Threads PROVE job'[t].old = job[t].old
      OBVIOUS
    <3>1. HoldOK(t) /\ HoldOK(t)'
      BY HoldNext DEF OwnInv
    <3>2. CASE KeepsStill(t)
      BY <3>2 DEF KeepsStill
    <3>3. CASE pc[t] # "queue" /\ pc'[t] # "queue"
      BY <3>1, <3>3 DEF HoldOK
    <3>4. KeepsStill(t) \/ (pc[t] # "queue" /\ pc'[t] # "queue")
      <4> USE DEF At, Goto, Transition, PcInv, PcOK
      <4>1. CASE Load(t)
        BY <1>7, <4>1 DEF Load, Slurp, UnitFails, CallMdInit, CallMdSuperInit, CallMdReload,
           LoadHandlerReturns, LoadHandlerThrows, InHandler, LeaveLoad, NextUnit,
              BeginHandler
      <4>2. CASE HandlerStep(t) /\ ~Load(t)
        BY <4>2 DEF HandlerStep, Load, SweepModule, FinalizeAsksStop, SweepCallEnds,
           InHandler,
           BeginHandler, ScriptAsksInput, ScriptGetsInput, UTestFails
      <4>3. CASE CollectModules(t) \/ StartsLoad(t)
        BY <4>3 DEF CollectModules, StartsLoad, BeginLoad, Loading
      <4> QED
        BY <4>1, <4>2, <4>3, ThreadSteps
    <3> QED
      BY <3>2, <3>3, <3>4
  <2>2. InHand' = InHand
    BY <2>1 DEF InHand
  <2>3. DOMAIN inst' = DOMAIN inst
    <3>1. CASE \E t \in Threads : HandlerStep(t)
      <4>1. PICK t \in Threads : HandlerStep(t)
        BY <3>1
      <4>2. \/ \E m, h : BeginHandler(t, m, h) \/ \E n, b : LeaveCall(n, b)
            \/ UNCHANGED inst
        BY <4>1 DEF HandlerStep, CallMdInit, CallMdSuperInit, CallMdReload,
           LoadHandlerReturns,
           LoadHandlerThrows, SweepModule, FinalizeAsksStop, SweepCallEnds, EndHandler,
           ScriptAsksInput, ScriptGetsInput, UTestFails, managerVars
      <4> QED
        BY <4>2 DEF BeginHandler, EnterCall, LeaveCall
    <3> QED
      BY <1>7, <3>1, HeapSteps
  <2>4. Live' = Live
    BY <1>7, <2>3, HeapGrows DEF Live
  <2> QED
    BY <1>1, <1>2, <1>3, <1>7, <2>2, <2>4
<1> QED
  BY <1>4, <1>5, <1>6, <1>7, OwnSteps

LEMMA OwnInit == Init => OwnInv
<1> SUFFICES ASSUME Init PROVE OwnInv
  OBVIOUS
<1>1. /\ inst = <<>> /\ DOMAIN inst = {} /\ pending_reclaim = {}
      /\ \A u \in Units : modules[u] = nullptr
  BY DEF Init, ManagerInit
<1>2. \A t \in Threads : /\ job[t] = NoJob /\ frame[t] = NoFrame /\ mods[t] = {}
                         /\ pc[t] \in {"init", "idle"}
  BY DEF Init
<1>3. Live = {} /\ Installed = {} /\ \A t \in Threads : Held(t) = {} /\ job[t].old = nullptr
  BY <1>1, <1>2 DEF Live, Installed, Held, NoJob, NoFrame
<1>4. OwnedOnce
  BY <1>1, <1>3 DEF OwnedOnce
<1>5. \A t \in Threads : HoldOK(t)
  BY <1>2, <1>3 DEF HoldOK
<1> QED
  BY <1>4, <1>5 DEF OwnInv

LEMMA OwnAlways == Spec => [](Base /\ OwnInv)
<1>1. Base /\ OwnInv /\ [Next]_vars => (Base /\ OwnInv)'
  <2> SUFFICES ASSUME Base, OwnInv, [Next]_vars PROVE Base' /\ OwnInv'
    OBVIOUS
  <2>1. \A t \in Threads : HoldOK(t)'
    BY HoldNext
  <2> QED
    BY <2>1, BaseNext, OwnedNext DEF OwnInv
<1> QED
  BY <1>1, BaseInit, OwnInit, PTL DEF Spec

\* hot_swap and tick_reclaim neither leak a module nor delete one twice.
THEOREM OwnedExactlyOnce == Spec => []OwnedOnce
<1>1. Base /\ OwnInv => OwnedOnce
  BY DEF OwnInv
<1> QED
  BY <1>1, OwnAlways, PTL

\* tick_reclaim deletes nothing a thread still has a pointer to, although
\* call_finalize_all copies the pointers and lets go of the mutex.
THEOREM NothingDangles == Spec => []NoDanglingPointer
<1>1. Base /\ OwnInv => NoDanglingPointer
  BY DEF OwnInv, HoldOK, NoDanglingPointer
<1> QED
  BY <1>1, OwnAlways, PTL

-----------------------------------------------------------------------------
(* Edits                                                                    *)

MainLoads == pc["main"] \in {"scan", "load"} \/ InLoad("main")

\* A time in scripts_map is one its file has had, so the fresh time of an edit
\* differs from it; and main's loop over the scripts is over when it is left.
EditInv ==
  /\ NoLostEdit
  /\ \A p \in Paths : {scripts_map[p], disk[p].time} \subseteq usedTimes[p] \cup {0}
  /\ pc["watcher"] = "idle" /\ ~MainLoads => todo = {}

LEMMA SlurpGoesOn ==
  ASSUME Base, [Next]_vars, NEW t \in Threads, ~Slurp(t), pc[t] = "slurp"
  PROVE  pc'[t] = "slurp" /\ job'[t] = job[t]
<1> USE DEF Base, At, Goto, Transition
<1>1. ~Load(t) /\ ~HandlerStep(t)
  BY DEF Load, UnitFails, InstallUnit, QueueOld, CallMdInit, CallMdSuperInit, CallMdReload,
     LoadHandlerReturns, LoadHandlerThrows, InHandler, HandlerStep, SweepModule,
        FinalizeAsksStop,
     SweepCallEnds, ScriptAsksInput, ScriptGetsInput, UTestFails
<1>2. ~CollectModules(t) /\ ~StartsLoad(t)
  BY DEF CollectModules, StartsLoad, Loading
<1>3. KeepsStill(t)
  BY <1>1, <1>2, ThreadSteps
<1> QED
  BY <1>3 DEF KeepsStill, Loading

\* A step that touches neither the directory nor what is known of it.
LEMMA EditSame ==
  ASSUME Base, EditInv, [Next]_vars, \A t \in Threads : ~Slurp(t),
         UNCHANGED <<dirVars, scripts_map, lastRead, todo>>,
         pc'["watcher"] = "idle" <=> pc["watcher"] = "idle",
         pc["main"] = "scan" => pc'["main"] = "scan",
         MainLoads => MainLoads'
  PROVE  EditInv'
<1>1. ASSUME NEW p \in Paths, ToBeRead(p) PROVE ToBeRead(p)'
  BY <1>1, SlurpGoesOn DEF ToBeRead
<1> QED
  BY <1>1 DEF EditInv, NoLostEdit, Exists, dirVars

LEMMA EditSlurp ==
  ASSUME Base, EditInv, [Next]_vars, NEW t \in Threads, Slurp(t)
  PROVE  EditInv'
<1> USE DEF Base, PcInv, PcOK, Threads, At, Goto, Transition
<1> DEFINE p == job[t].path
<1>1. p \in Paths /\ pc[t] = "slurp"
  BY DEF Slurp, HeapInv, JobOK, InLoad, Loading
<1>2. UNCHANGED <<dirVars, scripts_map, todo>>
  BY DEF Slurp, LoadUnchanged, scriptVars, worldVars
<1>3. /\ Exists(p) => lastRead'[p] = disk[p].time
      /\ \A q \in Paths \ {p} : lastRead'[q] = lastRead[q]
  BY <1>1 DEF Slurp, DataOK
<1>4. /\ pc'[t] \in {"unit", IF t = "main" THEN "load" ELSE "visit"}
      /\ \A s \in Threads \ {t} : pc'[s] = pc[s] /\ job'[s] = job[s]
  BY DEF Slurp, LeaveLoad, HeapInv
<1>5. pc'["watcher"] = "idle" <=> pc["watcher"] = "idle"
  BY <1>1, <1>4
<1>6. pc["main"] = "scan" => pc'["main"] = "scan"
  BY <1>1, <1>4
<1> HIDE DEF p
<1>7. ASSUME NEW q \in Paths \ {p}, ToBeRead(q) PROVE ToBeRead(q)'
  BY <1>1, <1>2, <1>4, <1>5, <1>6, <1>7 DEF ToBeRead, p
<1>8. NoLostEdit'
  BY <1>1, <1>2, <1>3, <1>7 DEF EditInv, NoLostEdit, Exists, dirVars
<1>9. MainLoads => MainLoads'
  <2>1. CASE t = "main"
    BY <1>4, <2>1 DEF MainLoads, InLoad, Loading
  <2>2. CASE t # "main"
    <3>1. UNCHANGED frame
      BY DEF Slurp
    <3> QED
      BY <1>4, <2>2, <3>1 DEF MainLoads, InLoad, InLoadHandler
  <2> QED
    BY <2>1, <2>2
<1> QED
  BY <1>2, <1>5, <1>8, <1>9 DEF EditInv, dirVars

LEMMA EditEither ==
  ASSUME Base, EditInv, [Next]_vars, NEW t \in Threads, EitherThread(t)
  PROVE  EditInv'
<1> USE DEF Base, PcInv, PcOK, Threads, At, Goto, Transition
<1>1. CASE \E s \in Threads : Slurp(s)
  BY <1>1, EditSlurp
<1> SUFFICES ASSUME \A s \in Threads : ~Slurp(s) PROVE EditInv'
  BY <1>1
<1>2. UNCHANGED <<dirVars, scripts_map, lastRead, todo>>
  <2>1. CASE Load(t)
    BY <2>1 DEF Load, UnitFails, InstallUnit, QueueOld, CallMdInit, CallMdSuperInit,
       CallMdReload,
       LoadHandlerReturns, LoadHandlerThrows, LoadUnchanged, scriptVars, worldVars
  <2>2. CASE Sweep(t)
    BY <2>2 DEF Sweep, CollectModules, SweepModule, FinalizeAsksStop, SweepCallEnds,
       SweepUnchanged,
       scriptVars, worldVars, historyVars
  <2> QED
    BY <2>1, <2>2 DEF EitherThread, ScriptAsksInput, ScriptGetsInput, ProcessEnds,
       scriptVars,
       worldVars, historyVars
<1>3. \A s \in Threads \ {t} : pc'[s] = pc[s] /\ KeepsStill(s)
  <2>1. CASE Load(t)
    BY <2>1, OtherKeepsStill DEF EitherThread, Load, UnitFails, InstallUnit, QueueOld,
       CallMdInit,
       CallMdSuperInit, CallMdReload, LoadHandlerReturns, LoadHandlerThrows, NextUnit,
          LeaveLoad,
       BeginHandler
  <2>2. CASE Sweep(t)
    BY <2>2, OtherKeepsStill DEF EitherThread, Sweep, CollectModules, SweepModule,
       FinalizeAsksStop, SweepCallEnds, BeginHandler
  <2>3. CASE ScriptAsksInput(t) \/ ScriptGetsInput(t) \/ ProcessEnds(t)
    BY <2>3, OtherKeepsStill DEF EitherThread, ScriptAsksInput, ScriptGetsInput,
       ProcessEnds
  <2> QED
    BY <2>1, <2>2, <2>3 DEF EitherThread
<1>4. UNCHANGED pc \/ (pc[t] \notin {"idle", "scan"} /\ pc'[t] # "idle")
  <2>1. CASE Load(t)
    BY <2>1 DEF Load, UnitFails, InstallUnit, QueueOld, CallMdInit, CallMdSuperInit,
       CallMdReload, LoadHandlerReturns, LoadHandlerThrows, InHandler, NextUnit, LeaveLoad,
       BeginHandler
  <2>2. CASE Sweep(t)
    BY <2>2 DEF Sweep, CollectModules, SweepModule, FinalizeAsksStop, SweepCallEnds,
       InHandler,
       BeginHandler
  <2>3. CASE ScriptAsksInput(t) \/ ScriptGetsInput(t) \/ ProcessEnds(t)
    BY <2>3 DEF ScriptAsksInput, ScriptGetsInput, ProcessEnds
  <2> QED
    BY <2>1, <2>2, <2>3 DEF EitherThread
<1>5. MainLoads => MainLoads'
  <2>1. CASE t = "watcher"
    BY <1>3, <2>1 DEF KeepsStill, MainLoads, InLoad, InLoadHandler
  <2>2. CASE t = "main" /\ Load(t)
    <3>1. \/ pc'[t] \in Loading \cup {"load"}
          \/ \E h \in LoadHandlers : BeginHandler(t, job[t].m, h)
      BY <2>2 DEF Load, UnitFails, InstallUnit, QueueOld, CallMdInit, CallMdSuperInit,
         CallMdReload, LoadHandlerReturns, LoadHandlerThrows, NextUnit, LeaveLoad,
         LoadHandlers, Loading
    <3>2. ASSUME NEW h \in LoadHandlers, BeginHandler(t, job[t].m, h) PROVE InLoadHandler(t)'
      <4>1. pc'[t] = "exec"
        BY <3>2 DEF BeginHandler
      <4>2. frame'[t].h = h
        <5> DEFINE m == job[t].m
        <5>1. BeginHandler(t, m, h)
          BY <3>2
        <5> HIDE DEF m
        <5> QED
          BY <5>1, BeginFrame
      <4> QED
        BY <4>1, <4>2 DEF InLoadHandler, Executing
    <3> QED
      BY <2>2, <3>1, <3>2 DEF MainLoads, InLoad
  <2>3. CASE t = "main" /\ Sweep(t)
    <3>1. ~MainLoads
      BY <2>3 DEF Sweep, CollectModules, SweepModule, FinalizeAsksStop, SweepCallEnds,
         InHandler,
         MainLoads, InLoad, InLoadHandler, LoadHandlers, Loading, Executing
    <3> QED
      BY <3>1
  <2>4. CASE t = "main" /\ (ScriptAsksInput(t) \/ ScriptGetsInput(t) \/ ProcessEnds(t))
    <3>1. /\ UNCHANGED pc \/ {pc["main"], pc'["main"]} \subseteq Executing
          /\ frame'["main"].h = frame["main"].h
      BY <2>4 DEF ScriptAsksInput, ScriptGetsInput, ProcessEnds, localVars, HeapInv,
         Frame,
         Executing
    <3> QED
      BY <3>1 DEF MainLoads, InLoad, InLoadHandler, Loading, Executing
  <2> QED
    BY <2>1, <2>2, <2>3, <2>4 DEF EitherThread
<1> QED
  BY <1>2, <1>3, <1>4, <1>5, EditSame

LEMMA EditMain ==
  ASSUME Base, PhaseInv, EditInv, [Next]_vars, Main, \A t \in Threads : ~Slurp(t),
         ~EitherThread("main")
  PROVE  EditInv'
<1> USE DEF Base, PcInv, PcOK, Threads, At, Goto, Transition, scriptVars, worldVars,
   historyVars
<1>0. /\ \A p \in Paths : scripts_map[p] \in Nat /\ disk[p].time \in Nat
      /\ DOMAIN scripts_map = Paths /\ todo \subseteq Paths
  BY DEF DataOK, DirTypeOK
<1>1. CASE InitialScan
  <2>1. /\ pc'["main"] = "scan" /\ pc'["watcher"] = pc["watcher"] /\ pc["main"] = "init"
        /\ UNCHANGED <<dirVars, scripts_map, lastRead>>
    BY <1>1 DEF InitialScan
  <2>2. pc["watcher"] = "idle" \/ pc["watcher"] = "ended"
    BY <2>1 DEF WatcherAlone
  <2>3. \A p \in Paths : ToBeRead(p) => ToBeRead(p)'
    BY <2>1, SlurpGoesOn DEF ToBeRead
  <2> QED
    BY <2>1, <2>3 DEF EditInv, NoLostEdit, MainLoads, Exists, dirVars
<1>2. CASE InitialStat
  <2>1. PICK p \in todo :
          /\ todo' = todo \ {p}
          /\ scripts_map' = IF scripts_map[p] = 0
                            THEN [scripts_map EXCEPT ![p] = disk[p].time] ELSE scripts_map
    BY <1>2 DEF InitialStat
  <2>2. pc["main"] = "scan" /\ UNCHANGED <<pc, job, dirVars, lastRead, frame>>
    BY <1>2 DEF InitialStat, localVars
  <2>3. \A q \in Paths : scripts_map'[q] \in {scripts_map[q], disk[q].time}
    BY <1>0, <2>1
  <2>4. CASE pc["watcher"] = "idle"
    <3>1. \A q \in Paths : ToBeRead(q)'
      BY <2>2, <2>4 DEF ToBeRead
    <3> QED
      BY <2>2, <2>3, <3>1 DEF EditInv, NoLostEdit, MainLoads, dirVars
  <2>5. CASE pc["watcher"] # "idle"
    BY <2>2, <2>5 DEF PhaseInv, Executing
  <2> QED
    BY <2>4, <2>5
<1>3. CASE InitialScanned
  <2>1. /\ pc["main"] = "scan" /\ pc'["main"] = "load" /\ pc'["watcher"] = pc["watcher"]
        /\ UNCHANGED <<job, dirVars, scripts_map, lastRead>>
        /\ todo' = {p \in Paths : scripts_map[p] # 0}
    BY <1>3 DEF InitialScanned, LoopOverScripts, localVars
  <2>2. pc["watcher"] = "idle"
    BY <2>1 DEF PhaseInv, Executing
  <2>3. \A p \in Paths : scripts_map[p] # 0 => ToBeRead(p)'
    BY <2>1, <2>2 DEF ToBeRead
  <2> QED
    BY <2>1, <2>3 DEF EditInv, NoLostEdit, MainLoads, Exists, dirVars
<1>4. CASE InitialLoad
  <2>1. PICK p \in todo : todo' = todo \ {p} /\ BeginLoad("main", p, TRUE)
    BY <1>4 DEF InitialLoad
  <2>2. pc["main"] = "load" /\ UNCHANGED <<dirVars, scripts_map, lastRead>>
    BY <1>4 DEF InitialLoad
  <2>3. /\ pc'["main"] = "slurp" /\ pc'["watcher"] = pc["watcher"]
        /\ job'["main"].path = p /\ job'["watcher"] = job["watcher"]
    BY <2>1 DEF BeginLoad, HeapInv, NoJob
  <2>4. pc["watcher"] = "idle"
    BY <2>2 DEF PhaseInv, Executing
  <2>5. \A q \in Paths : ToBeRead(q) => ToBeRead(q)'
    <3> SUFFICES ASSUME NEW q \in Paths, ToBeRead(q) PROVE ToBeRead(q)'
      OBVIOUS
    <3>1. CASE q = p
      BY <2>3, <3>1 DEF ToBeRead
    <3>2. CASE q # p
      <4>1. q \in todo
        BY <2>2, <2>4 DEF ToBeRead
      <4> QED
        BY <2>1, <2>3, <2>4, <3>2, <4>1 DEF ToBeRead
    <3> QED
      BY <3>1, <3>2
  <2>6. MainLoads'
    BY <2>3 DEF MainLoads, InLoad, Loading
  <2> QED
    BY <2>2, <2>5, <2>6 DEF EditInv, NoLostEdit, Exists, dirVars
<1>5. CASE InitialLoaded
  <2>1. /\ pc["main"] = "load" /\ pc'["main"] \in {"start", "init", "collect"} /\ todo = {}
        /\ pc'["watcher"] = pc["watcher"]
        /\ UNCHANGED <<job, dirVars, scripts_map, lastRead, todo>>
    BY <1>5 DEF InitialLoaded, localVars
  <2>2. \A p \in Paths : ToBeRead(p) => ToBeRead(p)'
    BY <2>1 DEF ToBeRead
  <2> QED
    BY <2>1, <2>2 DEF EditInv, NoLostEdit, Exists, dirVars
<1>6. CASE StartWatcher
  <2>1. /\ pc["main"] = "start" /\ pc'["main"] = "getline" /\ pc'["watcher"] = "check"
        /\ UNCHANGED <<job, dirVars, scripts_map, lastRead, todo>>
    BY <1>6 DEF StartWatcher, localVars
  <2>2. pc["watcher"] = "idle" => todo = {}
    BY <2>1 DEF EditInv, MainLoads, InLoad, InLoadHandler, Loading, Executing
  <2>3. \A p \in Paths : ToBeRead(p) => ToBeRead(p)'
    BY <2>1, <2>2, SlurpGoesOn DEF ToBeRead
  <2> QED
    BY <2>1, <2>3 DEF EditInv, NoLostEdit, Exists, dirVars
<1>7. CASE UTestFails \/ UTestThrowsAgain
  <2>1. /\ UNCHANGED <<pc, dirVars, scripts_map, lastRead, todo>> /\ pc["main"] = "exec"
        /\ frame["main"].h \notin LoadHandlers
    BY <1>7 DEF UTestFails, UTestThrowsAgain, SweepUnchanged, InHandler, LoadHandlers
  <2>2. ~MainLoads
    BY <2>1 DEF MainLoads, InLoad, InLoadHandler, Loading
  <2> QED
    BY <2>1, <2>2, EditSame
<1>8. CASE GetLine \/ SetStop \/ JoinWatcher \/ Return
  <2>1. /\ pc["main"] \in {"getline", "stop", "join", "sweep"} /\ pc'["watcher"] = pc["watcher"]
        /\ UNCHANGED <<dirVars, scripts_map, lastRead, todo>>
    BY <1>8 DEF GetLine, SetStop, JoinWatcher, Return, OnlyMoves
  <2>2. ~MainLoads
    BY <2>1 DEF MainLoads, InLoad, InLoadHandler, Loading, Executing
  <2> QED
    BY <2>1, <2>2, EditSame
<1> QED
  BY <1>1, <1>2, <1>3, <1>4, <1>5, <1>6, <1>7, <1>8 DEF Main

LEMMA EditWatcher ==
  ASSUME Base, EditInv, [Next]_vars, Watcher, \A t \in Threads : ~Slurp(t),
         ~EitherThread("watcher")
  PROVE  EditInv'
<1> USE DEF Base, PcInv, PcOK, Threads, At, Goto, Transition, scriptVars, worldVars,
   historyVars
<1>0. /\ \A p \in Paths : scripts_map[p] \in Nat /\ disk[p].time \in Nat
      /\ DOMAIN scripts_map = Paths /\ todo \subseteq Paths
  BY DEF DataOK, DirTypeOK
<1>1. /\ pc["watcher"] # "idle" /\ pc'["watcher"] # "idle" /\ pc'["main"] = pc["main"]
      /\ UNCHANGED <<dirVars, lastRead>>
  BY DEF Watcher, WatchCheck, WatchScan, WatchVisit, BeginLoad, WatchVisited, WatchPurge,
     WatchPurged, WatchFinalized, WatchReclaim, OnlyMoves
<1>2. \A p \in Paths : ToBeRead(p) => ToBeRead(p)'
  BY <1>1, SlurpGoesOn DEF ToBeRead
<1>3. CASE UNCHANGED scripts_map
  BY <1>1, <1>2, <1>3 DEF EditInv, NoLostEdit, Exists, dirVars
<1>4. CASE WatchVisit /\ scripts_map' # scripts_map
  <2>1. PICK p \in todo : /\ scripts_map' = [scripts_map EXCEPT ![p] = disk[p].time]
                          /\ BeginLoad("watcher", p, scripts_map[p] = 0)
    BY <1>4 DEF WatchVisit
  <2>2. pc'["watcher"] = "slurp" /\ job'["watcher"].path = p
    BY <2>1 DEF BeginLoad, HeapInv, NoJob
  <2>3. ToBeRead(p)'
    BY <2>2 DEF ToBeRead
  <2>4. scripts_map'[p] = disk[p].time /\ \A q \in Paths \ {p} : scripts_map'[q] = scripts_map[q]
    BY <1>0, <2>1
  <2> QED
    BY <1>1, <1>2, <2>3, <2>4 DEF EditInv, NoLostEdit, Exists, dirVars
<1>5. CASE WatchPurge
  <2>1. PICK p \in todo :
          scripts_map' = IF Exists(p) THEN scripts_map ELSE [scripts_map EXCEPT ![p] = 0]
    BY <1>5 DEF WatchPurge
  <2>2. \A q \in Paths : scripts_map'[q] \in {scripts_map[q], 0}
    BY <1>0, <2>1
  <2> QED
    BY <1>1, <1>2, <2>2 DEF EditInv, NoLostEdit, Exists, dirVars
<1> QED
  BY <1>3, <1>4, <1>5 DEF Watcher, WatchCheck, WatchScan, WatchVisited, WatchPurged,
     WatchFinalized, WatchReclaim, OnlyMoves

LEMMA EditEnvironment ==
  ASSUME Base, EditInv, Environment
  PROVE  EditInv'
<1> USE DEF Base
<1>1. UNCHANGED <<pc, job, frame, scripts_map, todo, lastRead>>
  BY DEF Environment, localVars, scriptVars, historyVars
<1>2. \A p \in Paths : ToBeRead(p)' = ToBeRead(p)
  BY <1>1 DEF ToBeRead
<1>3. MainLoads' = MainLoads
  BY <1>1 DEF MainLoads, InLoad, InLoadHandler
<1>4. ASSUME NEW p \in Paths, \A q \in Paths \ {p} : disk'[q] = disk[q],
             \/ /\ disk'[p].time # 0 /\ disk'[p].time \notin usedTimes[p]
                /\ usedTimes' = [usedTimes EXCEPT ![p] = @ \cup {disk'[p].time}]
             \/ disk'[p].time = 0 /\ UNCHANGED usedTimes
      PROVE  EditInv'
  <2>1. \A q \in Paths : usedTimes[q] \subseteq usedTimes'[q]
        /\ disk'[q].time \in usedTimes'[q] \cup {0} \cup {disk[q].time}
    BY <1>4 DEF DataOK, DirTypeOK
  <2>2. \A q \in Paths : {scripts_map'[q], disk'[q].time} \subseteq usedTimes'[q] \cup {0}
    BY <1>1, <2>1 DEF EditInv
  <2>3. disk'[p].time = 0 \/ scripts_map[p] # disk'[p].time
    BY <1>4 DEF EditInv
  <2>4. NoLostEdit'
    BY <1>1, <1>2, <1>4, <2>3 DEF EditInv, NoLostEdit, Exists
  <2> QED
    BY <1>1, <1>3, <2>2, <2>4 DEF EditInv
<1>5. CASE EditFile
  <2>1. PICK p \in Paths : Write(p)
    BY <1>5 DEF EditFile
  <2>2. PICK k \in Times \ usedTimes[p], c \in Contents[p] :
          /\ disk' = [disk EXCEPT ![p] = File(k, c)]
          /\ usedTimes' = [usedTimes EXCEPT ![p] = @ \cup {k}]
    BY <2>1 DEF Write
  <2>3. disk'[p].time = k /\ k # 0 /\ \A q \in Paths \ {p} : disk'[q] = disk[q]
    BY <2>2, TimesAssumption DEF DataOK, DirTypeOK, File
  <2> QED
    BY <1>4, <2>2, <2>3
<1>6. CASE RemoveFile
  <2>1. PICK p \in Paths : disk' = [disk EXCEPT ![p] = NoFile] /\ UNCHANGED usedTimes
    BY <1>6 DEF RemoveFile, Delete
  <2>2. disk'[p].time = 0 /\ \A q \in Paths \ {p} : disk'[q] = disk[q]
    BY <2>1 DEF DataOK, DirTypeOK, NoFile
  <2> QED
    BY <1>4, <2>1, <2>2
<1>7. CASE PressEnter \/ CloseStdin
  <2>1. UNCHANGED dirVars
    BY <1>7 DEF PressEnter, CloseStdin
  <2> QED
    BY <1>1, <1>2, <1>3, <2>1 DEF EditInv, NoLostEdit, Exists, dirVars
<1> QED
  BY <1>5, <1>6, <1>7 DEF Environment

LEMMA EditNext ==
  ASSUME Base, PhaseInv, EditInv, [Next]_vars
  PROVE  EditInv'
<1>1. CASE \E t \in Threads : Slurp(t) \/ EitherThread(t)
  BY <1>1, EditSlurp, EditEither
<1>2. CASE ~ \E t \in Threads : Slurp(t) \/ EitherThread(t)
  <2>1. Main => EditInv'
    BY <1>2, EditMain DEF Threads
  <2>2. Watcher => EditInv'
    BY <1>2, EditWatcher DEF Threads
  <2>3. Environment => EditInv'
    BY EditEnvironment
  <2>4. UNCHANGED vars => EditInv'
    BY <1>2, EditSame DEF vars, MainLoads, InLoad, InLoadHandler, scriptVars, worldVars,
       localVars,
       historyVars
  <2> QED
    BY <2>1, <2>2, <2>3, <2>4 DEF Next, Terminated
<1> QED
  BY <1>1, <1>2

LEMMA EditInit == Init => EditInv
<1> SUFFICES ASSUME Init PROVE EditInv
  OBVIOUS
<1>1. \A p \in Paths : scripts_map[p] = 0 /\ disk[p].time \in usedTimes[p] \cup {0}
  BY DEF Init, DirInit
<1>2. todo = {}
  BY DEF Init
<1> QED
  BY <1>1, <1>2 DEF EditInv, NoLostEdit, Exists

LEMMA EditAlways == Spec => [](Base /\ PhaseInv /\ StopInv /\ EditInv)
<1>1. (Base /\ PhaseInv /\ StopInv) /\ EditInv /\ [Next]_vars => EditInv'
  BY EditNext
<1> QED
  BY <1>1, StopAlways, EditInit, PTL DEF Spec

\* The write time of a file is recorded only together with the read of what
\* was written then, so no later scan skips an edit that has not been read.
THEOREM EditsKept == Spec => []NoLostEdit
<1>1. EditInv => NoLostEdit
  BY DEF EditInv
<1> QED
  BY <1>1, EditAlways, PTL

-----------------------------------------------------------------------------
(* What is installed.  The registry is compared with a file that an editor  *)
(* may change at any moment, also in the middle of its load.  Write times   *)
(* settle it: what is installed carries a time its file has had, and a new  *)
(* content has a time it has not had, so after an edit nothing counts as    *)
(* current until the file is read again.                                    *)

\* A unit of this name is installed, and not from an outdated content of p.
Fresh(p, u) ==
  /\ modules[u] # nullptr
  /\ inst[modules[u]].path = p => inst[modules[u]].version = disk[p].time

\* It is installed from the content p has now.
Current(p, u) ==
  /\ modules[u] # nullptr
  /\ inst[modules[u]].path = p /\ inst[modules[u]].version = disk[p].time

UnitName(p, i) == disk[p].units[i].name

\* The times of what is installed and of what was read are times the file had,
\* and the current one is installed only if it was read last.
VersionsOK ==
  /\ \A p \in Paths : {lastRead[p], disk[p].time} \subseteq usedTimes[p] \cup {0}
  /\ \A u \in Units : modules[u] # nullptr =>
       LET r == inst[modules[u]] IN
       /\ r.version \in usedTimes[r.path]
       /\ r.version = disk[r.path].time => lastRead[r.path] = r.version

TextsExist == \A p \in Paths : disk[p].parses => Exists(p)

\* s is what is left of the units of p from the k-th on.
Rest(s, p, k) ==
  /\ k \in 1..Len(disk[p].units)
  /\ Len(s) = Len(disk[p].units) - k + 1
  /\ \A i \in 1..Len(s) : s[i] = disk[p].units[k + i - 1]

\* A load of the content the file still has: its units up to the k-th are
\* installed, the k-th itself from the installation on.
LoadedUpTo(t, k) ==
  LET p == job[t].path IN
  /\ Rest(job[t].units, p, k)
  /\ \A i \in 1..k - 1 : Fresh(p, UnitName(p, i))
  /\ pc[t] # "unit" => Fresh(p, UnitName(p, k))

LoadOK(t) ==
  LET p == job[t].path IN
  job[t].units # <<>> =>
    /\ p \in Paths
    /\ job[t].version = lastRead[p] /\ lastRead[p] # 0
    /\ lastRead[p] = disk[p].time => \E k \in Nat : LoadedUpTo(t, k)

\* The first mention of the j-th unit's name is the j-th unit.
FirstOfName(p, j) == \A h \in 1..j - 1 : UnitName(p, h) # UnitName(p, j)

PrefixesOK ==
  \A p \in Paths : \A i, j \in 1..Len(disk[p].units) :
    i < j /\ FirstOfName(p, j) /\ Current(p, UnitName(p, j)) => Fresh(p, UnitName(p, i))

CleanOK ==
  \A p \in Paths :
    Exists(p) /\ lastRead[p] = disk[p].time /\ clean[p] =>
      \A i \in 1..Len(disk[p].units) : Fresh(p, UnitName(p, i))

LoadInv ==
  /\ VersionsOK /\ TextsExist
  /\ \A t \in Threads : LoadOK(t)
  /\ PrefixesOK /\ CleanOK

LEMMA UnitsTyped ==
  ASSUME Base, NEW p \in Paths
  PROVE  /\ disk[p].units \in Seq(UnitSource)
         /\ Len(disk[p].units) \in Nat /\ DOMAIN disk[p].units = 1..Len(disk[p].units)
         /\ \A i \in 1..Len(disk[p].units) : UnitName(p, i) \in Units
<1>1. disk[p].units \in Seq(UnitSource)
  BY DEF Base, DataOK, DirTypeOK
<1> DEFINE us == disk[p].units
<1>2. Len(us) \in Nat /\ DOMAIN us = 1..Len(us)
  BY <1>1, LenProperties
<1>3. ASSUME NEW i \in 1..Len(us) PROVE UnitName(p, i) \in Units
  <2>1. us[i] \in UnitSource
    BY <1>1, <1>2, ElementOfSeq
  <2> QED
    BY <2>1 DEF UnitName, UnitSource
<1> QED
  BY <1>1, <1>2, <1>3

LEMMA TimesTyped ==
  ASSUME Base, NEW p \in Paths
  PROVE  /\ usedTimes[p] \subseteq Nat \ {0} /\ lastRead[p] \in Nat /\ disk[p].time \in Nat
  BY TimesAssumption DEF Base, DataOK, DirTypeOK

LEMMA LoadInvInit == Init => LoadInv
<1> SUFFICES ASSUME Init PROVE LoadInv
  OBVIOUS
<1>0. Base
  BY BaseInit
<1>1. \A u \in Units : modules[u] = nullptr
  BY DEF Init, ManagerInit
<1>2. \A p \in Paths : lastRead[p] = 0 /\ ~clean[p]
  BY DEF Init
<1>3. \A t \in Threads : job[t].units = <<>>
  BY DEF Init, NoJob
<1>4. TextsExist
  <2> SUFFICES ASSUME NEW p \in Paths, disk[p].parses PROVE disk[p].time # 0
    BY DEF TextsExist, Exists
  <2>1. disk[p] = NoFile \/ Exists(p)
    <3> DEFINE S == {File(StartTime, c) : c \in UNION {Contents[q] : q \in Paths}}
    <3>1. disk[p] \in {NoFile} \cup S
      BY DEF Init, DirInit
    <3>2. \A f \in S : f.time # 0
      BY TimesAssumption DEF File
    <3> HIDE DEF S
    <3> QED
      BY <3>1, <3>2 DEF Exists
  <2> QED
    BY <2>1 DEF NoFile, Exists
<1>5. \A p \in Paths, i \in Nat : i \in 1..Len(disk[p].units) => ~Current(p, UnitName(p, i))
  BY <1>0, <1>1, UnitsTyped DEF Current
<1>6. PrefixesOK
  BY <1>0, <1>5, UnitsTyped DEF PrefixesOK
<1>7. VersionsOK /\ CleanOK
  BY <1>1, <1>2 DEF VersionsOK, CleanOK, Init, DirInit
<1>8. \A t \in Threads : LoadOK(t)
  BY <1>3 DEF LoadOK
<1> QED
  BY <1>4, <1>6, <1>7, <1>8 DEF LoadInv

LEMMA LoadInvGives ==
  ASSUME Base, LoadInv
  PROVE  InstalledIsCurrent /\ LoadsArePrefixes
<1>1. InstalledIsCurrent
  BY UnitsTyped DEF LoadInv, CleanOK, InstalledIsCurrent, Fresh, UnitName
<1>2. LoadsArePrefixes
  <2> SUFFICES ASSUME NEW p \in Paths, NEW i \in 1..Len(disk[p].units),
                      NEW j \in 1..Len(disk[p].units), i < j, FirstOfName(p, j),
                      Current(p, UnitName(p, j)),
                      inst[modules[UnitName(p, i)]].path = p
               PROVE  inst[modules[UnitName(p, i)]].version = disk[p].time
    BY UnitsTyped DEF LoadsArePrefixes, FirstOfName, Current, UnitName
  <2>1. Fresh(p, UnitName(p, i))
    BY DEF LoadInv, PrefixesOK
  <2> QED
    BY <2>1 DEF Fresh
<1> QED
  BY <1>1, <1>2

-----------------------------------------------------------------------------
(* Steps                                                                    *)

\* The end of a unit's turn, with or without MdReload.
Advance(t) == NextUnit(t) /\ (CallMdReload(t) \/ LoadHandlerReturns(t))

LoadingStep(t) == Slurp(t) \/ InstallUnit(t) \/ Advance(t)

LEMMA LoadingSteps ==
  ASSUME [Next]_vars, \A t \in Threads : ~LoadingStep(t), ~Environment
  PROVE  UNCHANGED <<dirVars, modules, lastRead, clean>>
<1> USE DEF managerVars, worldVars, historyVars, Threads, LoadingStep, Advance
<1>1. ASSUME NEW t \in Threads, EitherThread(t)
      PROVE  UNCHANGED <<dirVars, modules, lastRead, clean>>
  <2>1. CASE Load(t)
    BY <2>1 DEF Load, UnitFails, QueueOld, CallMdInit, CallMdSuperInit, CallMdReload,
       LoadHandlerReturns, LoadHandlerThrows, LoadUnchanged
  <2>2. CASE Sweep(t)
    BY <2>2 DEF Sweep, CollectModules, SweepModule, FinalizeAsksStop, SweepCallEnds,
       SweepUnchanged
  <2>3. CASE ScriptAsksInput(t) \/ ScriptGetsInput(t) \/ ProcessEnds(t)
    BY <2>3 DEF ScriptAsksInput, ScriptGetsInput, ProcessEnds
  <2> QED
    BY <1>1, <2>1, <2>2, <2>3 DEF EitherThread
<1>2. CASE Main
  BY <1>1, <1>2 DEF Main, InitialScan, InitialStat, InitialScanned, InitialLoad,
     InitialLoaded, UTestFails, UTestThrowsAgain, SweepUnchanged, StartWatcher, GetLine,
     SetStop, JoinWatcher, Return, OnlyMoves
<1>3. CASE Watcher
  BY <1>1, <1>3 DEF Watcher, WatchCheck, WatchScan, WatchVisit, WatchVisited, WatchPurge,
     WatchPurged, WatchFinalized, WatchReclaim, OnlyMoves
<1> QED
  BY <1>2, <1>3 DEF Next, Terminated, vars

\* t's load stays where it was, as far as the units are concerned.
LoadStays(t) ==
  /\ job'[t].units = job[t].units
  /\ job'[t].path = job[t].path /\ job'[t].version = job[t].version
  /\ pc'[t] # "unit" => pc[t] # "unit"

LEMMA OtherLoads ==
  ASSUME Base, [Next]_vars, NEW t \in Threads, ~LoadingStep(t)
  PROVE  job'[t].units = <<>> \/ LoadStays(t)
<1> USE DEF Base, HeapInv, LoadStays, Advance, LoadingStep, Goto, At, Transition
<1>1. CASE UnitFails(t) \/ LoadHandlerThrows(t)
  BY <1>1 DEF UnitFails, LoadHandlerThrows, LeaveLoad, NoJob
<1>2. CASE QueueOld(t)
  BY <1>2 DEF QueueOld, Job
<1>3. CASE CallMdInit(t) \/ CallMdSuperInit(t)
  BY <1>3 DEF CallMdInit, CallMdSuperInit
<1>4. CASE CallMdReload(t) \/ LoadHandlerReturns(t)
  BY <1>4 DEF CallMdReload, LoadHandlerReturns, InHandler
<1>5. CASE HandlerStep(t) \/ CollectModules(t)
  BY <1>1, <1>3, <1>4, <1>5 DEF HandlerStep, SweepModule, FinalizeAsksStop, SweepCallEnds,
     ScriptAsksInput, ScriptGetsInput, UTestFails, CollectModules, InHandler, SweepUnchanged,
     localVars
<1>6. CASE StartsLoad(t)
  BY <1>6 DEF StartsLoad, BeginLoad, NoJob
<1>7. CASE KeepsStill(t)
  BY <1>7 DEF KeepsStill, Loading
<1> QED
  BY <1>1, <1>2, <1>3, <1>4, <1>5, <1>6, <1>7, ThreadSteps DEF Load

\* While one thread is in a load the other one is in none.
LEMMA LoadsAlone ==
  ASSUME Base, OwnInv, NEW t \in Threads, pc[t] \in Loading \cup Executing,
         NEW s \in Threads \ {t}
  PROVE  job[s].units = <<>>
<1>1. pc[s] \notin Loading \cup Executing
  BY DEF Base, PcInv, PcOK, WatcherAlone, Threads, Loading, Executing
<1>2. job[s] = NoJob
  BY <1>1 DEF OwnInv, HoldOK, InLoad, InLoadHandler
<1> QED
  BY <1>2 DEF NoJob

-----------------------------------------------------------------------------
(* What each of them preserves                                              *)

LEMMA InstalledTyped ==
  ASSUME Base, NEW u \in Units, modules[u] # nullptr
  PROVE  modules[u] \in DOMAIN inst /\ inst[modules[u]].path \in Paths
<1>1. modules[u] \in DOMAIN inst
  BY LenProperties DEF Base, HeapInv, ManagerTypeOK, nullptr
<1>2. inst[modules[u]] \in Module
  BY <1>1, Instances DEF Base, HeapInv, ManagerTypeOK
<1> QED
  BY <1>1, <1>2 DEF Module

LEMMA LoadSame ==
  ASSUME Base, LoadInv, [Next]_vars, UNCHANGED <<dirVars, modules, lastRead, clean>>,
         \A t \in Threads : job'[t].units = <<>> \/ LoadStays(t)
  PROVE  LoadInv'
<1>0. ASSUME NEW u \in Units, modules[u] # nullptr
      PROVE  /\ inst'[modules[u]].path = inst[modules[u]].path
             /\ inst'[modules[u]].version = inst[modules[u]].version
  BY <1>0, InstalledTyped, HeapGrows DEF Base, SameSource
<1>1. ASSUME NEW p \in Paths, NEW u \in Units
      PROVE  Fresh(p, u)' = Fresh(p, u) /\ Current(p, u)' = Current(p, u)
  BY <1>0 DEF Fresh, Current, dirVars
<1>2. \A p \in Paths : \A i \in 1..Len(disk[p].units) :
        /\ Fresh(p, UnitName(p, i))' = Fresh(p, UnitName(p, i))
        /\ Current(p, UnitName(p, i))' = Current(p, UnitName(p, i))
  BY <1>1, UnitsTyped DEF UnitName, dirVars
<1>3. VersionsOK' /\ TextsExist'
  BY <1>0 DEF LoadInv, VersionsOK, TextsExist, Exists, dirVars
<1>4. PrefixesOK' /\ CleanOK'
  BY <1>2 DEF LoadInv, PrefixesOK, CleanOK, Exists, FirstOfName, UnitName, dirVars
<1>5. ASSUME NEW t \in Threads, LoadStays(t), NEW k \in Nat, LoadedUpTo(t, k),
             job[t].path \in Paths
      PROVE  LoadedUpTo(t, k)'
  <2> PICK p \in Paths : p = job[t].path /\ p = job'[t].path
    BY <1>5 DEF LoadStays
  <2>1. Rest(job[t].units, p, k) /\ Rest(job[t].units, p, k)'
    BY <1>5 DEF LoadedUpTo, LoadStays, Rest, dirVars
  <2>2. /\ k \in 1..Len(disk[p].units) /\ Len(disk[p].units) \in Nat
        /\ \A i \in 1..k : i \in 1..Len(disk[p].units)
    BY <2>1, UnitsTyped DEF Rest
  <2>3. \A i \in 1..k : Fresh(p, UnitName(p, i))' = Fresh(p, UnitName(p, i))
    BY <1>2, <2>2
  <2>4. (\A i \in 1..k - 1 : Fresh(p, UnitName(p, i))) /\ (pc[t] # "unit" => Fresh(p, UnitName(p, k)))
    BY <1>5 DEF LoadedUpTo
  <2>5. (\A i \in 1..k - 1 : Fresh(p, UnitName(p, i))') /\ (pc'[t] # "unit" => Fresh(p, UnitName(p, k))')
    BY <1>5, <2>2, <2>3, <2>4 DEF LoadStays
  <2> QED
    BY <2>1, <2>5 DEF LoadedUpTo
<1>6. ASSUME NEW t \in Threads PROVE LoadOK(t)'
  BY <1>5 DEF LoadInv, LoadOK, LoadStays, dirVars
<1> QED
  BY <1>3, <1>4, <1>6 DEF LoadInv

\* What a step of t's load leaves alone.
LEMMA LoaderOnly ==
  ASSUME Base, OwnInv, NEW t \in Threads, Load(t), pc[t] \in Loading \cup Executing,
         NEW s \in Threads \ {t}
  PROVE  LoadOK(s)'
<1>1. KeepsStill(s)
  BY OtherKeepsStill DEF EitherThread, Base
<1>2. job'[s].units = <<>>
  BY <1>1, LoadsAlone DEF KeepsStill
<1> QED
  BY <1>2 DEF LoadOK

LEMMA LoadSlurp ==
  ASSUME Base, OwnInv, LoadInv, NEW t \in Threads, Slurp(t)
  PROVE  LoadInv'
<1> PICK p : p = job[t].path
  OBVIOUS
<1>1. p \in Paths /\ pc[t] = "slurp" /\ pc[t] \in Loading \cup Executing
  BY DEF Slurp, At, Base, HeapInv, JobOK, InLoad, Loading
<1>2. UNCHANGED <<inst, modules, disk, usedTimes>>
  BY DEF Slurp, LoadUnchanged, managerVars, worldVars, dirVars
<1>3. /\ lastRead'[p] = IF Exists(p) THEN disk[p].time ELSE lastRead[p]
      /\ clean'[p] => disk[p].parses /\ disk[p].units = <<>>
      /\ \A q \in Paths \ {p} : lastRead'[q] = lastRead[q] /\ clean'[q] = clean[q]
  BY <1>1, Zenon DEF Slurp, Base, DataOK
<1>4. lastRead'[p] \in {lastRead[p], disk[p].time}
  BY <1>3
<1>5. \/ job'[t].units = <<>>
      \/ /\ disk[p].parses /\ job'[t].path = p
         /\ job'[t].units = disk[p].units /\ job'[t].version = disk[p].time
         /\ disk[p].units # <<>> /\ pc'[t] = "unit"
  BY <1>1 DEF Slurp, LeaveLoad, NoJob, Goto, Base, PcInv, PcOK, HeapInv, Job
<1>6. VersionsOK'
  <2>1. \A q \in Paths : {lastRead'[q], disk'[q].time} \subseteq usedTimes'[q] \cup {0}
    <3>1. disk[p].time \in usedTimes[p] \cup {0}
      BY <1>1 DEF LoadInv, VersionsOK
    <3> QED
      BY <1>1, <1>2, <1>3, <1>4, <3>1 DEF LoadInv, VersionsOK
  <2>2. ASSUME NEW u \in Units, modules[u] # nullptr
        PROVE  LET r == inst[modules[u]] IN
               /\ r.version \in usedTimes[r.path]
               /\ r.version = disk[r.path].time => lastRead'[r.path] = r.version
    <3>1. inst[modules[u]].path \in Paths
      BY <2>2, InstalledTyped
    <3> QED
      BY <1>3, <1>4, <2>2, <3>1 DEF LoadInv, VersionsOK
  <2> QED
    BY <1>2, <2>1, <2>2 DEF VersionsOK
<1>7. TextsExist'
  BY <1>2 DEF LoadInv, TextsExist, Exists
<1>8. PrefixesOK'
  <2>1. \A q, u : Fresh(q, u)' = Fresh(q, u) /\ Current(q, u)' = Current(q, u)
    BY <1>2 DEF Fresh, Current
  <2>2. \A q, i : UnitName(q, i)' = UnitName(q, i)
    BY <1>2 DEF UnitName
  <2>3. \A q, j : FirstOfName(q, j)' = FirstOfName(q, j)
    BY <2>2 DEF FirstOfName
  <2>4. PrefixesOK
    BY DEF LoadInv
  <2> QED
    BY <1>2, <2>1, <2>2, <2>3, <2>4 DEF PrefixesOK
<1>9. CleanOK'
  <2> SUFFICES ASSUME NEW q \in Paths, Exists(q)', lastRead'[q] = disk'[q].time, clean'[q],
                      NEW i \in 1..Len(disk'[q].units)
               PROVE  Fresh(q, UnitName(q, i))'
    BY DEF CleanOK
  <2>1. CASE q = p
    <3>1. Len(disk[q].units) = 0
      BY <1>3, <2>1
    <3> QED
      BY <1>2, <3>1
  <2>2. CASE q # p
    BY <1>2, <1>3, <2>2 DEF LoadInv, CleanOK, Exists, Fresh, UnitName
  <2> QED
    BY <2>1, <2>2
<1>10. LoadOK(t)'
  <2>1. CASE job'[t].units = <<>>
    BY <2>1 DEF LoadOK
  <2>2. CASE job'[t].units # <<>>
    <3>1. Exists(p) /\ lastRead'[p] = disk[p].time /\ disk[p].time # 0
      BY <1>1, <1>3, <1>5, <2>2 DEF LoadInv, TextsExist, Exists
    <3>2. Len(disk[p].units) \in Nat /\ Len(disk[p].units) > 0
      BY <1>1, <1>5, <2>2, UnitsTyped, EmptySeq
    <3>3. /\ job'[t].path = p /\ job'[t].units = disk'[p].units
          /\ job'[t].version = lastRead'[p] /\ pc'[t] = "unit"
      BY <1>2, <1>5, <2>2, <3>1
    <3>4. Rest(job[t].units, p, 1)'
      BY <1>2, <3>2, <3>3 DEF Rest
    <3>5. LoadedUpTo(t, 1)'
      <4>1. \A i \in 1..1 - 1 : FALSE
        OBVIOUS
      <4> QED
        BY <3>3, <3>4, <4>1 DEF LoadedUpTo
    <3>6. 1 \in Nat /\ p \in Paths /\ lastRead'[p] # 0
      BY <1>1, <3>1
    <3> QED
      BY <3>3, <3>5, <3>6 DEF LoadOK
  <2> QED
    BY <2>1, <2>2
<1>11. \A s \in Threads \ {t} : LoadOK(s)'
  BY <1>1, LoaderOnly DEF Load
<1> QED
  BY <1>6, <1>7, <1>8, <1>9, <1>10, <1>11 DEF LoadInv

\* What is left of p's units begins with the k-th.
LEMMA RestFacts ==
  ASSUME NEW s \in Seq(UnitSource), s # <<>>, NEW p \in Paths, NEW k \in Nat, Rest(s, p, k),
         Len(disk[p].units) \in Nat
  PROVE  /\ Head(s) = disk[p].units[k]
         /\ Tail(s) = <<>> => k = Len(disk[p].units)
         /\ Tail(s) # <<>> => Rest(Tail(s), p, k + 1)
<1>1. /\ Len(s) \in Nat /\ Len(s) > 0 /\ Tail(s) \in Seq(UnitSource)
      /\ Len(Tail(s)) = Len(s) - 1
      /\ \A i \in 1..Len(Tail(s)) : Tail(s)[i] = s[i + 1]
  BY HeadTailProperties, LenProperties, EmptySeq
<1>2. Head(s) = s[1]
  BY <1>1
<1>3. s[1] = disk[p].units[k]
  BY <1>1 DEF Rest
<1>4. Tail(s) = <<>> <=> Len(Tail(s)) = 0
  BY <1>1, EmptySeq
<1> PICK n \in Nat : n = Len(disk[p].units)
  OBVIOUS
<1> PICK l \in Nat : l = Len(s)
  BY <1>1
<1> PICK r \in Nat : r = Len(Tail(s))
  BY <1>1
<1>5. k \in 1..n /\ l = n - k + 1 /\ r = l - 1
  BY <1>1 DEF Rest
<1>6. ASSUME Tail(s) # <<>> PROVE Rest(Tail(s), p, k + 1)
  <2>1. r # 0
    BY <1>4, <1>6
  <2>2. k + 1 \in 1..n /\ r = n - (k + 1) + 1
    BY <1>5, <2>1
  <2>3. ASSUME NEW i \in 1..r
        PROVE  Tail(s)[i] = disk[p].units[k + 1 + i - 1]
    <3>1. i + 1 \in 1..l /\ k + (i + 1) - 1 = k + 1 + i - 1
      BY <1>5
    <3>2. Tail(s)[i] = s[i + 1]
      BY <1>1
    <3>3. s[i + 1] = disk[p].units[k + (i + 1) - 1]
      BY <3>1 DEF Rest
    <3> QED
      BY <3>1, <3>2, <3>3
  <2> QED
    BY <2>2, <2>3 DEF Rest
<1>7. ASSUME Tail(s) = <<>> PROVE k = n
  <2>1. r = 0
    BY <1>4, <1>7
  <2> QED
    BY <1>5, <2>1
<1> QED
  BY <1>2, <1>3, <1>6, <1>7

LEMMA LoadInstall ==
  ASSUME Base, OwnInv, LoadInv, NEW t \in Threads, InstallUnit(t)
  PROVE  LoadInv'
<1> PICK p : p = job[t].path
  OBVIOUS
<1> PICK v : v = job[t].version
  OBVIOUS
<1> PICK u : u = Head(job[t].units)
  OBVIOUS
<1> PICK n : n = Len(inst) + 1
  OBVIOUS
<1>1. /\ p \in Paths /\ pc[t] = "unit" /\ pc[t] \in Loading \cup Executing
      /\ job[t] \in Job /\ job[t].units # <<>>
  BY DEF InstallUnit, Transition, At, Base, HeapInv, JobOK, InLoad, Loading
<1>2. u \in UnitSource /\ u.name \in Units /\ v \in Nat
  <2>1. job[t].units \in Seq(UnitSource) /\ v \in Nat
    BY <1>1 DEF Job
  <2>2. u \in UnitSource
    BY <1>1, <2>1, HeadTailProperties
  <2> QED
    BY <2>1, <2>2 DEF UnitSource
<1>3. UNCHANGED <<disk, usedTimes, lastRead, clean>>
  BY DEF InstallUnit, LoadUnchanged, worldVars, dirVars
<1>4. /\ job'[t].units = job[t].units /\ job'[t].path = p /\ job'[t].version = v
      /\ pc'[t] = "queue"
  BY <1>1 DEF InstallUnit, Transition, Goto, Base, HeapInv, Job, PcInv, PcOK
<1>5. /\ modules'[u.name] = n /\ n # nullptr
      /\ \A x \in Units \ {u.name} : modules'[x] = modules[x]
      /\ inst'[n].path = p /\ inst'[n].version = v
      /\ \A m \in DOMAIN inst : inst'[m] = inst[m]
  <2> DEFINE r == module_from_compiled(u, p, v)
  <2>1. HotSwapInstall(r)
    BY DEF InstallUnit
  <2>2. r \in Module /\ r.path = p /\ r.version = v /\ r.name = u.name
    BY <1>1, <1>2 DEF module_from_compiled, Module, UnitSource
  <2> HIDE DEF r
  <2>3. /\ inst \in Seq(Module) /\ modules \in [Units -> 0..Len(inst)] /\ n \in Nat /\ n # 0
    BY LenProperties DEF Base, HeapInv, ManagerTypeOK
  <2>4. inst'[n] = r /\ \A m \in DOMAIN inst : inst'[m] = inst[m]
    BY <2>1, <2>2, <2>3, HotSwapInstallEffect
  <2>5. modules' = [modules EXCEPT ![u.name] = n]
    BY <2>1, <2>2 DEF HotSwapInstall
  <2> QED
    BY <1>2, <2>2, <2>3, <2>4, <2>5 DEF nullptr
<1>6. ASSUME NEW q \in Paths, NEW x \in Units, x # u.name
      PROVE  Fresh(q, x)' = Fresh(q, x) /\ Current(q, x)' = Current(q, x)
  <2>1. modules[x] # nullptr => inst'[modules[x]] = inst[modules[x]]
    BY <1>5, InstalledTyped
  <2> QED
    BY <1>3, <1>5, <1>6, <2>1 DEF Fresh, Current
<1>7. ASSUME NEW q \in Paths \ {p}
      PROVE  Fresh(q, u.name)' /\ ~Current(q, u.name)'
  BY <1>5 DEF Fresh, Current
<1>8. /\ v = lastRead[p] /\ v # 0
      /\ lastRead[p] = disk[p].time => \E k \in Nat : LoadedUpTo(t, k)
  BY <1>1 DEF LoadInv, LoadOK
<1>9. lastRead[p] = disk[p].time => Fresh(p, u.name)'
  BY <1>3, <1>5, <1>8 DEF Fresh
<1>10. ASSUME NEW x \in Units, Current(p, x)
       PROVE  lastRead[p] = disk[p].time
  BY <1>10 DEF LoadInv, VersionsOK, Current
<1>11. ASSUME NEW x \in Units, Current(p, x)'
       PROVE  lastRead[p] = disk[p].time
  <2>1. CASE x = u.name
    BY <1>3, <1>5, <1>8, <1>11, <2>1 DEF Current
  <2>2. CASE x # u.name
    BY <1>1, <1>6, <1>10, <1>11, <2>2
  <2> QED
    BY <2>1, <2>2
<1>12. ASSUME NEW q \in Paths, NEW x \in Units, q = p => lastRead[p] = disk[p].time, Fresh(q, x)
       PROVE  Fresh(q, x)'
  BY <1>6, <1>7, <1>9, <1>12
<1>13. ASSUME NEW q \in Paths, NEW i \in 1..Len(disk[q].units) PROVE UnitName(q, i) \in Units
  BY UnitsTyped
<1>14. \A q \in Paths : \A i \in Nat : UnitName(q, i)' = UnitName(q, i)
  BY <1>3 DEF UnitName
<1>15. VersionsOK'
  <2>1. v \in usedTimes[p]
    BY <1>1, <1>8 DEF LoadInv, VersionsOK
  <2>2. ASSUME NEW x \in Units, modules'[x] # nullptr
        PROVE  LET r == inst'[modules'[x]] IN
               /\ r.version \in usedTimes[r.path]
               /\ r.version = disk[r.path].time => lastRead[r.path] = r.version
    <3>1. CASE x = u.name
      BY <1>5, <1>8, <2>1, <3>1
    <3>2. CASE x # u.name
      <4>1. modules'[x] = modules[x] /\ inst'[modules[x]] = inst[modules[x]]
        BY <1>5, <2>2, <3>2, InstalledTyped
      <4> QED
        BY <2>2, <4>1 DEF LoadInv, VersionsOK
    <3> QED
      BY <3>1, <3>2
  <2> QED
    BY <1>3, <2>2 DEF LoadInv, VersionsOK
<1>16. TextsExist'
  BY <1>3 DEF LoadInv, TextsExist, Exists
<1>17. CleanOK'
  <2> SUFFICES ASSUME NEW q \in Paths, Exists(q), lastRead[q] = disk[q].time, clean[q],
                      NEW i \in 1..Len(disk[q].units)
               PROVE  Fresh(q, UnitName(q, i))'
    BY <1>3, <1>14 DEF CleanOK, Exists
  <2>1. Fresh(q, UnitName(q, i)) /\ UnitName(q, i) \in Units
    BY <1>13 DEF LoadInv, CleanOK
  <2> PICK x \in Units : x = UnitName(q, i)
    BY <2>1
  <2>2. Fresh(q, x)'
    BY <1>12, <2>1
  <2> QED
    BY <1>14, <2>2
<1>18. ASSUME NEW k \in Nat, LoadedUpTo(t, k)
       PROVE  /\ Rest(job[t].units, p, k) /\ k \in 1..Len(disk[p].units)
              /\ UnitName(p, k) = u.name
              /\ \A i \in 1..k - 1 : Fresh(p, UnitName(p, i))
              /\ \A i \in 1..k : i \in 1..Len(disk[p].units)
  <2>1. Rest(job[t].units, p, k) /\ \A i \in 1..k - 1 : Fresh(p, UnitName(p, i))
    BY <1>18 DEF LoadedUpTo
  <2>2. job[t].units \in Seq(UnitSource) /\ Len(disk[p].units) \in Nat
    BY <1>1, UnitsTyped DEF Job
  <2>3. u = disk[p].units[k]
    BY <1>1, <2>1, <2>2, RestFacts
  <2> QED
    BY <2>1, <2>2, <2>3 DEF Rest, UnitName
<1>19. PrefixesOK'
  <2> SUFFICES ASSUME NEW q \in Paths, NEW i \in 1..Len(disk[q].units),
                      NEW j \in 1..Len(disk[q].units), i < j, FirstOfName(q, j),
                      Current(q, UnitName(q, j))'
               PROVE  Fresh(q, UnitName(q, i))'
    BY <1>3 DEF PrefixesOK, FirstOfName, UnitName
  <2> PICK x \in Units, y \in Units : x = UnitName(q, i) /\ y = UnitName(q, j)
    BY <1>13
  <2>0. i \in Nat /\ j \in Nat /\ UnitName(q, i)' = x /\ UnitName(q, j)' = y
    BY <1>14, UnitsTyped
  <2>1. Current(q, y)'
    BY <2>0
  <2>2. q = p => lastRead[p] = disk[p].time
    BY <1>11, <2>1
  <2>3. Fresh(q, x)
    <3>1. CASE y # u.name
      <4>1. Current(q, UnitName(q, j))
        BY <1>6, <2>1, <3>1
      <4>2. Fresh(q, UnitName(q, i))
        BY <4>1 DEF LoadInv, PrefixesOK
      <4> QED
        BY <4>2
    <3>2. CASE y = u.name
      <4>1. q = p
        BY <1>7, <2>1, <3>2
      <4>2. PICK k \in Nat : LoadedUpTo(t, k)
        BY <1>8, <2>2, <4>1
      <4>3. ~(k \in 1..j - 1)
        BY <1>18, <3>2, <4>1, <4>2 DEF FirstOfName
      <4>4. i \in 1..k - 1
        BY <1>18, <2>0, <4>2, <4>3
      <4> QED
        BY <1>18, <4>1, <4>2, <4>4
    <3> QED
      BY <3>1, <3>2
  <2>4. Fresh(q, x)'
    BY <1>12, <2>2, <2>3
  <2> QED
    BY <2>0, <2>4
<1>20. LoadOK(t)'
  <2>1. ASSUME lastRead[p] = disk[p].time PROVE \E k \in Nat : LoadedUpTo(t, k)'
    <3> PICK k \in Nat : LoadedUpTo(t, k)
      BY <1>8, <2>1
    <3>0. Rest(job[t].units, p, k)
      BY <1>18
    <3>1. Rest(job[t].units, p, k)'
      BY <1>3, <1>4, <3>0 DEF Rest
    <3>2. Fresh(p, UnitName(p, k))'
      <4>1. UnitName(p, k) = u.name /\ Fresh(p, u.name)'
        BY <1>9, <1>18, <2>1
      <4>2. UnitName(p, k)' = u.name
        BY <1>1, <1>14, <4>1
      <4> PICK x : x = u.name
        OBVIOUS
      <4>3. Fresh(p, x)'
        BY <1>3, <1>5, <1>8, <2>1 DEF Fresh
      <4> QED
        BY <4>2, <4>3
    <3>3. ASSUME NEW i \in 1..k - 1 PROVE Fresh(p, UnitName(p, i))'
      <4>1. i \in Nat /\ i \in 1..Len(disk[p].units) /\ Fresh(p, UnitName(p, i))
        BY <1>18
      <4> PICK x \in Units : x = UnitName(p, i)
        BY <1>1, <1>13, <4>1
      <4>2. Fresh(p, x)'
        BY <1>1, <1>12, <2>1, <4>1
      <4> QED
        BY <1>1, <1>14, <4>1, <4>2
    <3>4. LoadedUpTo(t, k)'
      BY <1>4, <3>1, <3>2, <3>3 DEF LoadedUpTo
    <3> QED
      BY <3>4
  <2> QED
    BY <1>1, <1>3, <1>4, <1>8, <2>1 DEF LoadOK
<1>21. \A s \in Threads \ {t} : LoadOK(s)'
  BY <1>1, LoaderOnly DEF Load
<1> QED
  BY <1>15, <1>16, <1>17, <1>19, <1>20, <1>21 DEF LoadInv

LEMMA LoadAdvance ==
  ASSUME Base, OwnInv, LoadInv, [Next]_vars, NEW t \in Threads, Advance(t)
  PROVE  LoadInv'
<1> PICK p : p = job[t].path
  OBVIOUS
<1>1. /\ Load(t) /\ InLoad(t) /\ pc[t] \in (Loading \cup Executing) \ {"unit"}
      /\ p \in Paths /\ job[t] \in Job /\ job[t].units # <<>>
  <2>1. CASE CallMdReload(t)
    BY <2>1 DEF CallMdReload, At, Base, HeapInv, JobOK, InLoad, Loading, Load
  <2>2. CASE LoadHandlerReturns(t)
    BY <2>2 DEF LoadHandlerReturns, InHandler, At, Base, HeapInv, JobOK, InLoad,
       InLoadHandler, LoadHandlers, Loading, Executing, Load
  <2> QED
    BY <2>1, <2>2 DEF Advance
<1>2. UNCHANGED <<modules, disk, usedTimes, lastRead>>
  BY DEF Advance, CallMdReload, LoadHandlerReturns, LoadUnchanged, worldVars, dirVars
<1>3. ASSUME NEW x \in Units, modules[x] # nullptr
      PROVE  /\ inst'[modules[x]].path = inst[modules[x]].path
             /\ inst'[modules[x]].version = inst[modules[x]].version
  BY <1>3, InstalledTyped, HeapGrows DEF Base, SameSource
<1>4. ASSUME NEW q \in Paths, NEW x \in Units
      PROVE  Fresh(q, x)' = Fresh(q, x) /\ Current(q, x)' = Current(q, x)
  BY <1>2, <1>3 DEF Fresh, Current
<1>5. \A q \in Paths : \A i \in 1..Len(disk[q].units) :
        /\ Fresh(q, UnitName(q, i))' = Fresh(q, UnitName(q, i))
        /\ Current(q, UnitName(q, i))' = Current(q, UnitName(q, i))
  BY <1>2, <1>4, UnitsTyped DEF UnitName
<1>6. VersionsOK' /\ TextsExist'
  BY <1>2, <1>3 DEF LoadInv, VersionsOK, TextsExist, Exists
<1>7. PrefixesOK'
  BY <1>2, <1>5 DEF LoadInv, PrefixesOK, FirstOfName, UnitName
<1>8. job[t].units \in Seq(UnitSource) /\ Len(disk[p].units) \in Nat
  BY <1>1, UnitsTyped DEF Job
<1>9. /\ job[t].version = lastRead[p] /\ lastRead[p] # 0
      /\ lastRead[p] = disk[p].time => \E k \in Nat : LoadedUpTo(t, k)
  BY <1>1 DEF LoadInv, LoadOK
<1>10. ASSUME NEW k \in Nat, LoadedUpTo(t, k)
       PROVE  /\ \A i \in 1..k : i \in 1..Len(disk[p].units) /\ Fresh(p, UnitName(p, i))
              /\ Tail(job[t].units) = <<>> => k = Len(disk[p].units)
              /\ Tail(job[t].units) # <<>> => Rest(Tail(job[t].units), p, k + 1)
  <2>1. /\ Rest(job[t].units, p, k) /\ \A i \in 1..k - 1 : Fresh(p, UnitName(p, i))
        /\ Fresh(p, UnitName(p, k))
    BY <1>1, <1>10 DEF LoadedUpTo
  <2>2. \A i \in 1..k : i \in 1..Len(disk[p].units) /\ (i \in 1..k - 1 \/ i = k)
    BY <1>8, <2>1 DEF Rest
  <2>3. /\ Tail(job[t].units) = <<>> => k = Len(disk[p].units)
        /\ Tail(job[t].units) # <<>> => Rest(Tail(job[t].units), p, k + 1)
    BY <1>1, <1>8, <2>1, RestFacts
  <2> QED
    BY <2>1, <2>2, <2>3
<1>11. \A s \in Threads \ {t} : LoadOK(s)'
  BY <1>1, LoaderOnly
<1>12. CASE Tail(job[t].units) = <<>>
  <2>1. clean'[p] /\ \A q \in Paths \ {p} : clean'[q] = clean[q]
    BY <1>1, <1>12 DEF Advance, NextUnit, Base, DataOK
  <2>2. job'[t].units = <<>>
    BY <1>12 DEF Advance, NextUnit, LeaveLoad, NoJob, Base, HeapInv
  <2>3. LoadOK(t)'
    BY <2>2 DEF LoadOK
  <2>4. ASSUME lastRead[p] = disk[p].time, NEW i \in 1..Len(disk[p].units)
        PROVE  Fresh(p, UnitName(p, i))
    BY <1>9, <1>10, <1>12, <2>4
  <2>5. ASSUME NEW q \in Paths, Exists(q), lastRead[q] = disk[q].time, clean'[q],
               NEW i \in 1..Len(disk[q].units)
        PROVE  Fresh(q, UnitName(q, i))
    <3>1. CASE q = p
      BY <2>4, <2>5, <3>1
    <3>2. CASE q # p
      BY <2>1, <2>5, <3>2 DEF LoadInv, CleanOK
    <3> QED
      BY <3>1, <3>2
  <2>6. CleanOK'
    BY <1>2, <1>5, <2>5 DEF CleanOK, Exists
  <2> QED
    BY <1>6, <1>7, <1>11, <2>3, <2>6 DEF LoadInv
<1>13. CASE Tail(job[t].units) # <<>>
  <2>1. UNCHANGED clean
    BY <1>13 DEF Advance, NextUnit
  <2>2. CleanOK'
    BY <1>2, <1>5, <2>1 DEF LoadInv, CleanOK, Exists
  <2>3. /\ job'[t].units = Tail(job[t].units) /\ job'[t].path = p
        /\ job'[t].version = job[t].version /\ pc'[t] = "unit"
    BY <1>1, <1>13 DEF Advance, NextUnit, Goto, Base, HeapInv, PcInv, PcOK, Job
  <2>4. ASSUME lastRead[p] = disk[p].time PROVE \E k \in Nat : LoadedUpTo(t, k)'
    <3> PICK k \in Nat : LoadedUpTo(t, k)
      BY <1>9, <2>4
    <3>1. Rest(Tail(job[t].units), p, k + 1)
      BY <1>10, <1>13
    <3>2. Rest(job[t].units, p, k + 1)'
      BY <1>2, <2>3, <3>1 DEF Rest
    <3>3. \A i \in 1..(k + 1) - 1 : Fresh(p, UnitName(p, i))'
      BY <1>1, <1>5, <1>10
    <3>4. k + 1 \in Nat /\ LoadedUpTo(t, k + 1)'
      BY <2>3, <3>2, <3>3 DEF LoadedUpTo
    <3> QED
      BY <3>4
  <2>5. LoadOK(t)'
    BY <1>1, <1>2, <1>9, <2>3, <2>4 DEF LoadOK
  <2> QED
    BY <1>6, <1>7, <1>11, <2>2, <2>5 DEF LoadInv
<1> QED
  BY <1>12, <1>13

\* An edit gives the file a time nothing that was read or installed carries.
LEMMA LoadEdit ==
  ASSUME Base, LoadInv, UNCHANGED <<inst, modules, pc, job, lastRead, clean>>,
         NEW p \in Paths, \A q \in Paths \ {p} : disk'[q] = disk[q],
         disk'[p].parses => disk'[p].time # 0, disk'[p].units \in Seq(UnitSource),
         \/ /\ disk'[p].time # 0 /\ disk'[p].time \notin usedTimes[p]
            /\ usedTimes' = [usedTimes EXCEPT ![p] = @ \cup {disk'[p].time}]
         \/ disk'[p].time = 0 /\ UNCHANGED usedTimes
  PROVE  LoadInv'
<1>1. /\ \A q \in Paths : usedTimes[q] \subseteq usedTimes'[q]
      /\ disk'[p].time \in usedTimes'[p] \cup {0} /\ disk'[p].time \notin usedTimes[p]
  BY TimesTyped DEF Base, DataOK, DirTypeOK
<1>2. \A q \in Paths : lastRead[q] \in usedTimes[q] \cup {0}
  BY DEF LoadInv, VersionsOK
<1>3. ASSUME NEW x \in Units, modules[x] # nullptr
      PROVE  /\ inst[modules[x]].path \in Paths
             /\ inst[modules[x]].version \in usedTimes[inst[modules[x]].path]
             /\ inst[modules[x]].path = p => inst[modules[x]].version # disk'[p].time
  BY <1>1, <1>3, InstalledTyped DEF LoadInv, VersionsOK
<1>4. VersionsOK'
  <2>1. ASSUME NEW q \in Paths
        PROVE  {lastRead'[q], disk'[q].time} \subseteq usedTimes'[q] \cup {0}
    BY <1>1 DEF LoadInv, VersionsOK
  <2>2. ASSUME NEW x \in Units, modules[x] # nullptr
        PROVE  LET r == inst[modules[x]] IN
               /\ r.version \in usedTimes'[r.path]
               /\ r.version = disk'[r.path].time => lastRead[r.path] = r.version
    <3>1. CASE inst[modules[x]].path = p
      BY <1>1, <1>3, <2>2, <3>1
    <3>2. CASE inst[modules[x]].path # p
      BY <1>1, <1>3, <2>2, <3>2 DEF LoadInv, VersionsOK
    <3> QED
      BY <3>1, <3>2
  <2> QED
    BY <2>1, <2>2 DEF VersionsOK
<1>5. TextsExist'
  BY DEF LoadInv, TextsExist, Exists
<1>6. ASSUME NEW q \in Paths \ {p}, NEW x
      PROVE  Fresh(q, x)' = Fresh(q, x) /\ Current(q, x)' = Current(q, x)
  BY DEF Fresh, Current
<1>7. ASSUME NEW q \in Paths \ {p}, NEW i \in 1..Len(disk[q].units)
      PROVE  /\ Fresh(q, UnitName(q, i))' = Fresh(q, UnitName(q, i))
             /\ Current(q, UnitName(q, i))' = Current(q, UnitName(q, i))
  BY DEF Fresh, Current, UnitName
<1>8. lastRead[p] = disk'[p].time => disk'[p].time = 0
  BY <1>1, <1>2
<1>9. CleanOK'
  BY <1>7, <1>8 DEF LoadInv, CleanOK, Exists
<1>10. ASSUME NEW x \in Units PROVE ~Current(p, x)'
  BY <1>3 DEF Current
<1>11. PrefixesOK'
  <2> SUFFICES ASSUME NEW q \in Paths, NEW i \in 1..Len(disk'[q].units),
                      NEW j \in 1..Len(disk'[q].units), i < j, FirstOfName(q, j)',
                      Current(q, UnitName(q, j))'
               PROVE  Fresh(q, UnitName(q, i))'
    BY DEF PrefixesOK
  <2>1. CASE q = p
    <3> PICK us \in Seq(UnitSource) : us = disk'[p].units
      OBVIOUS
    <3>1. us[j] \in UnitSource
      BY <2>1, ElementOfSeq, LenProperties
    <3> PICK x \in Units : x = UnitName(q, j)'
      BY <2>1, <3>1 DEF UnitName, UnitSource
    <3>2. Current(p, x)'
      BY <2>1
    <3> QED
      BY <1>10, <3>2
  <2>2. CASE q # p
    BY <1>7, <2>2 DEF LoadInv, PrefixesOK, FirstOfName, UnitName
  <2> QED
    BY <2>1, <2>2
<1>12. ASSUME NEW t \in Threads PROVE LoadOK(t)'
  <2> SUFFICES ASSUME job[t].units # <<>> PROVE LoadOK(t)'
    BY DEF LoadOK
  <2> PICK q : q = job[t].path
    OBVIOUS
  <2>1. /\ q \in Paths /\ job[t].version = lastRead[q] /\ lastRead[q] # 0
        /\ lastRead[q] = disk[q].time => \E k \in Nat : LoadedUpTo(t, k)
    BY DEF LoadInv, LoadOK
  <2>2. CASE q = p
    <3>1. lastRead[p] # disk'[p].time
      BY <1>8, <2>1, <2>2
    <3> QED
      BY <2>1, <2>2, <3>1 DEF LoadOK
  <2>3. CASE q # p
    <3>1. ASSUME NEW k \in Nat, LoadedUpTo(t, k) PROVE LoadedUpTo(t, k)'
      <4>1. disk'[q] = disk[q] /\ q = job'[t].path
        BY <2>1, <2>3
      <4>2. Rest(job[t].units, q, k)'
        BY <3>1, <4>1 DEF LoadedUpTo, Rest
      <4>3. \A i \in 1..k : Fresh(q, UnitName(q, i))' = Fresh(q, UnitName(q, i))
        BY <4>1 DEF Fresh, UnitName
      <4>4. (\A i \in 1..k - 1 : Fresh(q, UnitName(q, i)))
            /\ (pc[t] # "unit" => Fresh(q, UnitName(q, k)))
        BY <3>1 DEF LoadedUpTo
      <4>5. (\A i \in 1..k - 1 : Fresh(q, UnitName(q, i))')
            /\ (pc'[t] # "unit" => Fresh(q, UnitName(q, k))')
        BY <4>3, <4>4, <4>1, <3>1 DEF LoadedUpTo, Rest
      <4> QED
        BY <4>1, <4>2, <4>5 DEF LoadedUpTo
    <3> QED
      BY <2>1, <2>3, <3>1 DEF LoadOK
  <2> QED
    BY <2>2, <2>3
<1> QED
  BY <1>4, <1>5, <1>9, <1>11, <1>12 DEF LoadInv

LEMMA LoadEnvironment ==
  ASSUME Base, LoadInv, [Next]_vars, Environment
  PROVE  LoadInv'
<1>1. UNCHANGED <<inst, modules, pc, job, lastRead, clean>>
  BY DEF Environment, managerVars, localVars, historyVars
<1>2. CASE EditFile
  <2> PICK p \in Paths : Write(p)
    BY <1>2 DEF EditFile
  <2> PICK k \in Times \ usedTimes[p], c \in Contents[p] :
        /\ disk' = [disk EXCEPT ![p] = File(k, c)]
        /\ usedTimes' = [usedTimes EXCEPT ![p] = @ \cup {k}]
    BY DEF Write
  <2>1. /\ disk'[p] = File(k, c) /\ disk'[p].time = k /\ k # 0
        /\ disk'[p].units \in Seq(UnitSource)
        /\ \A q \in Paths \ {p} : disk'[q] = disk[q]
    BY FileTyped, TimesAssumption DEF Base, DataOK, DirTypeOK, File
  <2> QED
    BY <1>1, <2>1, LoadEdit
<1>3. CASE RemoveFile
  <2> PICK p \in Paths : disk' = [disk EXCEPT ![p] = NoFile] /\ UNCHANGED usedTimes
    BY <1>3 DEF RemoveFile, Delete
  <2>1. /\ disk'[p].time = 0 /\ disk'[p].parses = FALSE
        /\ disk'[p].units = <<>> /\ disk'[p].units \in Seq(UnitSource)
        /\ \A q \in Paths \ {p} : disk'[q] = disk[q]
    BY DEF Base, DataOK, DirTypeOK, NoFile
  <2> QED
    BY <1>1, <2>1, LoadEdit
<1>4. CASE PressEnter \/ CloseStdin
  <2>1. UNCHANGED dirVars
    BY <1>4 DEF PressEnter, CloseStdin
  <2> QED
    BY <1>1, <2>1, LoadSame DEF LoadStays
<1> QED
  BY <1>2, <1>3, <1>4 DEF Environment

LEMMA LoadNext ==
  ASSUME Base, OwnInv, LoadInv, [Next]_vars
  PROVE  LoadInv'
<1>1. CASE \E t \in Threads : LoadingStep(t)
  BY <1>1, LoadSlurp, LoadInstall, LoadAdvance DEF LoadingStep
<1>2. CASE Environment
  BY <1>2, LoadEnvironment
<1>3. CASE ~Environment /\ \A t \in Threads : ~LoadingStep(t)
  BY <1>3, LoadingSteps, OtherLoads, LoadSame
<1> QED
  BY <1>1, <1>2, <1>3

LEMMA LoadAlways == Spec => [](Base /\ LoadInv)
<1>1. (Base /\ OwnInv) /\ LoadInv /\ [Next]_vars => LoadInv'
  BY LoadNext
<1> QED
  BY <1>1, OwnAlways, LoadInvInit, PTL DEF Spec

\* Once a content has been loaded to its end, all of its units are installed,
\* and none from an older content of the file.
THEOREM CurrentIsInstalled == Spec => []InstalledIsCurrent
<1>1. Base /\ LoadInv => InstalledIsCurrent
  BY LoadInvGives
<1> QED
  BY <1>1, LoadAlways, PTL

\* A load that is not over, or was ended half way, has installed the first
\* units of the file and none behind them.
THEOREM PrefixesAreLoaded == Spec => []LoadsArePrefixes
<1>1. Base /\ LoadInv => LoadsArePrefixes
  BY LoadInvGives
<1> QED
  BY <1>1, LoadAlways, PTL
=============================================================================
