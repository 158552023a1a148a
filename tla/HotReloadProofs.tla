--------------------------- MODULE HotReloadProofs ---------------------------
(***************************************************************************)
(* RunController implements HotReload, for any directory, any scripts and  *)
(* any interleaving of the two threads.                                    *)
(*                                                                         *)
(* At most one thread is in a load and at most one in a handler, so what   *)
(* the mapping sees is that thread's load and that thread's handler.  What *)
(* has to be known besides is that the modules a thread is about to call   *)
(* are installed: then their code is the one that serves the unit.         *)
(***************************************************************************)
EXTENDS HotReloadRefinement, RunControllerSafety

\* The module a load has made, and those a sweep has still to call, are installed;
\* a load that has not read its file yet has no units.
CallInv ==
  \A t \in Threads : /\ HasModule(t) => job[t].m \in Installed
                     /\ mods[t] \subseteq Installed
                     /\ pc[t] = "slurp" => job[t].units = <<>>

LEMMA CallInit == Init => CallInv
  BY DEF Init, CallInv, HasModule, InLoadHandler, Executing

\* Outside of InstallUnit.
LEMMA CallSteps ==
  ASSUME Base, [Next]_vars, NEW t \in Threads, ~InstallUnit(t)
  PROVE  /\ mods'[t] \subseteq mods[t] \cup Installed
         /\ HasModule(t)' => HasModule(t) /\ job'[t].m = job[t].m
         /\ pc'[t] = "slurp" => job'[t].units = <<>> \/ (pc[t] = "slurp" /\ job'[t] = job[t])
<1> USE DEF Base, HeapInv, At, Goto, Transition
<1>0. DOMAIN pc = Threads /\ DOMAIN mods = Threads /\ DOMAIN job = Threads
  BY DEF PcInv, PcOK
<1>1. CASE Slurp(t) \/ UnitFails(t) \/ LoadHandlerThrows(t)
  <2>1. pc'[t] \in {"unit", "load", "visit"} /\ UNCHANGED mods
    BY <1>0, <1>1 DEF Slurp, UnitFails, LoadHandlerThrows, LeaveLoad, LoadUnchanged
  <2> QED
    BY <2>1 DEF HasModule, InLoadHandler, Executing
<1>2. CASE QueueOld(t)
  BY <1>0, <1>2 DEF QueueOld, LoadUnchanged, HasModule, Job
<1>3. CASE CallMdInit(t) \/ CallMdSuperInit(t)
  <2>1. UNCHANGED <<job, mods>> /\ HasModule(t) /\ pc'[t] \in {"exec", "super", "reload"}
    BY <1>0, <1>3 DEF CallMdInit, CallMdSuperInit, BeginHandler, LoadUnchanged, HasModule
  <2> QED
    BY <2>1
<1>4. CASE CallMdReload(t) \/ LoadHandlerReturns(t)
  <2>1. UNCHANGED mods /\ HasModule(t)
    BY <1>4 DEF CallMdReload, LoadHandlerReturns, InHandler, LoadUnchanged, HasModule,
       InLoadHandler, LoadHandlers, Executing
  <2>2. (UNCHANGED job /\ pc'[t] \in {"exec", "super", "reload"}) \/ NextUnit(t)
    BY <1>0, <1>4 DEF CallMdReload, LoadHandlerReturns, BeginHandler
  <2>3. NextUnit(t) => pc'[t] \in {"unit", "load", "visit"}
    BY <1>0 DEF NextUnit, LeaveLoad
  <2> QED
    BY <2>1, <2>2, <2>3 DEF HasModule, InLoadHandler, Executing
<1>5. CASE SweepModule(t)
  <2>1. PICK m \in mods[t] :
          /\ pc[t] = "sweep" /\ mods' = [mods EXCEPT ![t] = @ \ {m}]
          /\ BeginHandler(t, m, SweepHandler(t)) \/ UNCHANGED pc
    BY <1>5 DEF SweepModule
  <2>2. SweepHandler(t) \notin LoadHandlers
    BY DEF SweepHandler, LoadHandlers
  <2>3. ASSUME BeginHandler(t, m, SweepHandler(t)) PROVE ~HasModule(t)'
    <3>1. frame'[t].h = SweepHandler(t) /\ pc'[t] = "exec"
      BY <1>0, <2>3, BeginFrame DEF BeginHandler
    <3> QED
      BY <2>2, <3>1 DEF HasModule, InLoadHandler
  <2>4. ASSUME UNCHANGED pc PROVE ~HasModule(t)'
    BY <2>1, <2>4 DEF HasModule, InLoadHandler, Executing
  <2>5. pc'[t] # "slurp" /\ mods'[t] \subseteq mods[t]
    BY <1>0, <2>1 DEF BeginHandler
  <2> QED
    BY <2>1, <2>3, <2>4, <2>5
<1>6. CASE FinalizeAsksStop(t) \/ SweepCallEnds(t)
  <2>1. pc'[t] = "sweep" /\ UNCHANGED mods
    BY <1>0, <1>6 DEF FinalizeAsksStop, SweepCallEnds, SweepUnchanged
  <2> QED
    BY <2>1 DEF HasModule, InLoadHandler, Executing
<1>7. CASE ScriptAsksInput(t) \/ ScriptGetsInput(t) \/ (t = "main" /\ UTestFails)
  <2>1. /\ {pc[t], pc'[t]} \subseteq Executing /\ frame'[t].h = frame[t].h
        /\ UNCHANGED <<job, mods>>
    BY <1>0, <1>7 DEF ScriptAsksInput, ScriptGetsInput, UTestFails, InHandler, SweepUnchanged,
       localVars, Executing, Frame
  <2> QED
    BY <2>1 DEF HasModule, InLoadHandler, Executing
<1>8. CASE CollectModules(t)
  <2>1. pc'[t] = "sweep" /\ mods'[t] = Installed
    BY <1>0, <1>8 DEF CollectModules
  <2> QED
    BY <2>1 DEF HasModule, InLoadHandler, Executing
<1>9. CASE StartsLoad(t)
  <2>1. pc'[t] = "slurp" /\ job'[t].units = <<>> /\ UNCHANGED mods
    BY <1>0, <1>9 DEF StartsLoad, BeginLoad, NoJob
  <2> QED
    BY <2>1 DEF HasModule, InLoadHandler, Executing
<1>10. CASE KeepsStill(t)
  BY <1>10 DEF KeepsStill, HasModule, InLoadHandler, Loading, Executing
<1> QED
  BY <1>1, <1>2, <1>3, <1>4, <1>5, <1>6, <1>7, <1>8, <1>9, <1>10, ThreadSteps
  DEF Load, HandlerStep

LEMMA ModulesChange ==
  ASSUME [Next]_vars, \A t \in Threads : ~InstallUnit(t)
  PROVE  UNCHANGED modules
  BY OwnSteps DEF QueueOld, WatchReclaim

LEMMA InstalledModule ==
  ASSUME Base, NEW u \in Units, modules[u] # nullptr
  PROVE  modules[u] \in DOMAIN inst /\ inst[modules[u]].path \in Paths
<1>1. modules[u] \in DOMAIN inst
  BY LenProperties DEF Base, HeapInv, ManagerTypeOK, nullptr
<1>2. inst[modules[u]] \in Module
  BY <1>1, Instances DEF Base, HeapInv, ManagerTypeOK
<1> QED
  BY <1>1, <1>2 DEF Module

\* While one thread is in a load or a handler, the other is in neither.
LEMMA OneBusy ==
  ASSUME Base, OwnInv, NEW t \in Threads, pc[t] \in Loading \cup Executing \cup {"sweep"},
         NEW s \in Threads \ {t}
  PROVE  /\ job[s] = NoJob /\ frame[s] = NoFrame /\ mods[s] = {}
         /\ pc[s] \notin Loading \cup Executing
<1>1. pc[s] \notin Loading \cup Executing \cup {"sweep"}
  BY DEF Base, PcInv, PcOK, WatcherAlone, Threads, Loading, Executing
<1> QED
  BY <1>1 DEF OwnInv, HoldOK, InLoad, InLoadHandler, Base, HeapInv, FrameOK

LEMMA CallNext ==
  ASSUME Base, OwnInv, CallInv, [Next]_vars
  PROVE  CallInv'
<1>1. CASE \A t \in Threads : ~InstallUnit(t)
  <2>1. Installed' = Installed
    BY <1>1, ModulesChange DEF Installed
  <2> QED
    BY <1>1, <2>1, CallSteps DEF CallInv
<1>2. ASSUME NEW t \in Threads, InstallUnit(t) PROVE CallInv'
  <2>1. pc[t] = "unit" /\ pc[t] \in Loading \cup Executing \cup {"sweep"} /\ UNCHANGED mods
    BY <1>2 DEF InstallUnit, Transition, At, LoadUnchanged, Loading
  <2>2. mods[t] = {}
    BY <2>1 DEF OwnInv, HoldOK, Executing
  <2>3. ASSUME NEW s \in Threads \ {t} 
        PROVE  mods[s] = {} /\ ~HasModule(s)' /\ pc'[s] # "slurp"
    <3>1. KeepsStill(s) /\ mods[s] = {} /\ pc[s] \notin Loading \cup Executing
      BY <1>2, <2>1, OtherKeepsStill, OneBusy DEF EitherThread, Load, Base
    <3> QED
      BY <3>1 DEF KeepsStill, HasModule, InLoadHandler, Loading, Executing
  <2>4. job'[t].m \in Installed'
    <3> PICK u : u = Head(job[t].units).name
      OBVIOUS
    <3>1. job[t].units \in Seq(UnitSource) /\ job[t].units # <<>>
      BY <2>1 DEF Base, HeapInv, Job, JobOK, InLoad, Loading
    <3>2. u \in Units
      <4>1. Head(job[t].units) \in UnitSource
        BY <3>1, HeadTailProperties
      <4> QED
        BY <4>1 DEF UnitSource
    <3>3. job'[t].m = Len(inst) + 1 /\ modules' = [modules EXCEPT ![u] = Len(inst) + 1]
      BY <1>2 DEF InstallUnit, HotSwapInstall, module_from_compiled, Base, HeapInv, Job
    <3>4. Len(inst) + 1 # nullptr /\ modules'[u] = Len(inst) + 1
      BY <3>2, <3>3, LenProperties DEF Base, HeapInv, ManagerTypeOK, nullptr
    <3> QED
      BY <3>2, <3>3, <3>4 DEF Installed
  <2>5. pc'[t] = "queue"
    BY <1>2 DEF InstallUnit, Transition, Goto, Base, PcInv, PcOK
  <2> QED
    BY <2>1, <2>2, <2>3, <2>4, <2>5 DEF CallInv
<1> QED
  BY <1>1, <1>2

LEMMA CallAlways == Spec => [](Base /\ OwnInv /\ CallInv)
<1>1. (Base /\ OwnInv) /\ CallInv /\ [Next]_vars => CallInv'
  BY CallNext
<1> QED
  BY <1>1, OwnAlways, CallInit, PTL DEF Spec

-----------------------------------------------------------------------------
(* What the mapping sees                                                    *)

NoLoading == [code |-> [path |-> NoPath, version |-> 0], units |-> <<>>]
NoHandler == [unit |-> "none", code |-> [path |-> NoPath, version |-> 0]]

LoadBy(t) ==
  IF ToInstall(t) = <<>> THEN NoLoading
  ELSE [code |-> [path |-> job[t].path, version |-> job[t].version], units |-> ToInstall(t)]

HandlerBy(t) ==
  IF frame[t].m = nullptr THEN NoHandler
  ELSE [unit |-> inst[frame[t].m].name, code |-> CodeOf(frame[t].m)]

LEMMA LoadSeen ==
  ASSUME NEW t \in Threads, \A s \in Threads \ {t} : ToInstall(s) = <<>>
  PROVE  LoadInProgress = LoadBy(t)
  BY DEF LoadInProgress, LoadBy, Loader, NoLoading, Threads

LEMMA LoadSeenNext ==
  ASSUME NEW t \in Threads, \A s \in Threads \ {t} : ToInstall(s)' = <<>>
  PROVE  LoadInProgress' = LoadBy(t)'
  BY DEF LoadInProgress, LoadBy, Loader, NoLoading, Threads

LEMMA HandlerSeen ==
  ASSUME NEW t \in Threads, \A s \in Threads \ {t} : frame[s].m = nullptr
  PROVE  HandlerInProgress = HandlerBy(t)
  BY DEF HandlerInProgress, HandlerBy, Executor, NoHandler, Threads

LEMMA HandlerSeenNext ==
  ASSUME NEW t \in Threads, \A s \in Threads \ {t} : frame'[s].m = nullptr
  PROVE  HandlerInProgress' = HandlerBy(t)'
  BY DEF HandlerInProgress, HandlerBy, Executor, NoHandler, Threads

LEMMA NobodySeen ==
  ASSUME \A s \in Threads : frame[s].m = nullptr
  PROVE  HandlerInProgress = NoHandler
  BY DEF HandlerInProgress, Executor, NoHandler, Threads

\* t's load is where it was.
SameLoad(t) ==
  /\ ToInstall(t)' = ToInstall(t)
  /\ ToInstall(t) # <<>> => job'[t].path = job[t].path /\ job'[t].version = job[t].version

LEMMA LoadUnseen ==
  ASSUME \A t \in Threads : SameLoad(t)
  PROVE  LoadInProgress' = LoadInProgress
  BY DEF LoadInProgress, Loader, SameLoad, Threads

\* No step changes where a module comes from.
LEMMA InstKept ==
  ASSUME Base, [Next]_vars, NEW m \in DOMAIN inst
  PROVE  inst'[m].name = inst[m].name /\ CodeOf(m)' = CodeOf(m)
  BY HeapGrows DEF Base, SameSource, CodeOf

LEMMA HandlerUnseen ==
  ASSUME Base, [Next]_vars, \A t \in Threads : frame'[t].m = frame[t].m
  PROVE  HandlerInProgress' = HandlerInProgress
<1>1. ASSUME NEW t \in Threads, frame[t].m # nullptr
      PROVE  /\ inst'[frame[t].m].name = inst[frame[t].m].name
             /\ CodeOf(frame[t].m)' = CodeOf(frame[t].m)
  <2> PICK m : m = frame[t].m
    OBVIOUS
  <2>1. m \in DOMAIN inst
    BY <1>1 DEF Base, HeapInv, FrameOK, NoFrame
  <2>2. inst'[m].name = inst[m].name /\ CodeOf(m)' = CodeOf(m)
    BY <2>1, InstKept
  <2>3. CodeOf(frame[t].m)' = CodeOf(m)'
    BY DEF CodeOf
  <2> QED
    BY <2>2, <2>3
<1> QED
  BY <1>1 DEF HandlerInProgress, Executor, Threads

LEMMA ServingSame ==
  ASSUME Base, [Next]_vars, UNCHANGED modules
  PROVE  ServingCode' = ServingCode
<1>1. ASSUME NEW u \in Units, modules[u] # nullptr
      PROVE  CodeOf(modules[u])' = CodeOf(modules[u])
  <2> PICK m : m = modules[u]
    OBVIOUS
  <2>1. m \in DOMAIN inst
    BY <1>1, LenProperties DEF Base, HeapInv, ManagerTypeOK, nullptr
  <2>2. CodeOf(m)' = CodeOf(m)
    BY <2>1, InstKept
  <2> QED
    BY <2>2 DEF CodeOf
<1> QED
  BY <1>1 DEF ServingCode

-----------------------------------------------------------------------------
(* Each step, seen through the mapping                                      *)

HotReloadStep == [H!HotReloadNext]_H!hotReloadVars

Unseen == UNCHANGED <<disk, ServingCode, LoadInProgress, HandlerInProgress>>

LEMMA UnseenStep == Unseen => HotReloadStep
  BY DEF Unseen, HotReloadStep, H!hotReloadVars

\* The other thread, in a step of one that is in a load or a handler.
LEMMA OtherUnseen ==
  ASSUME Base, OwnInv, NEW t \in Threads, pc[t] \in Loading \cup Executing \cup {"sweep"},
         EitherThread(t), NEW s \in Threads \ {t}
  PROVE  /\ ToInstall(s) = <<>> /\ ToInstall(s)' = <<>>
         /\ frame[s].m = nullptr /\ frame'[s].m = nullptr
<1>1. job[s] = NoJob /\ frame[s] = NoFrame
  BY OneBusy
<1>2. job'[s] = job[s] /\ frame'[s] = frame[s]
  BY OtherKeepsStill DEF Base, KeepsStill
<1> QED
  BY <1>1, <1>2 DEF NoJob, NoFrame, ToInstall

\* A step of t's load during which no handler runs.
LEMMA LoadStep ==
  ASSUME Base, OwnInv, [Next]_vars, NEW t \in Threads, Load(t), pc[t] \in {"slurp", "unit"}
  PROVE  /\ LoadInProgress = LoadBy(t) /\ LoadInProgress' = LoadBy(t)'
         /\ HandlerInProgress = NoHandler /\ HandlerInProgress' = NoHandler
<1>1. pc[t] \in Loading \cup Executing \cup {"sweep"} /\ EitherThread(t)
  BY DEF Loading, EitherThread
<1>2. \A s \in Threads \ {t} : ToInstall(s) = <<>> /\ ToInstall(s)' = <<>>
  BY <1>1, OtherUnseen
<1>3. UNCHANGED frame
  BY DEF Load, Slurp, UnitFails, InstallUnit, QueueOld, CallMdInit, CallMdSuperInit,
     CallMdReload, LoadHandlerReturns, LoadHandlerThrows, InHandler, Transition, At
<1>4. \A s \in Threads : frame[s].m = nullptr
  <2>1. frame[t] = NoFrame
    BY DEF Base, HeapInv, FrameOK, Executing
  <2> QED
    BY <1>1, <2>1, OtherUnseen DEF NoFrame
<1>5. HandlerInProgress = NoHandler /\ HandlerInProgress' = HandlerInProgress
  BY <1>3, <1>4, NobodySeen, HandlerUnseen
<1> QED
  BY <1>2, <1>5, LoadSeen, LoadSeenNext

LEMMA SlurpStep ==
  ASSUME Base, OwnInv, CallInv, [Next]_vars, NEW t \in Threads, Slurp(t)
  PROVE  HotReloadStep
<1> PICK p : p = job[t].path
  OBVIOUS
<1>1. pc[t] = "slurp" /\ p \in Paths /\ Load(t)
  BY DEF Slurp, At, Base, HeapInv, JobOK, InLoad, Loading, Load
<1>2. /\ LoadInProgress = LoadBy(t) /\ LoadInProgress' = LoadBy(t)'
      /\ HandlerInProgress = NoHandler /\ HandlerInProgress' = NoHandler
  BY <1>1, LoadStep
<1>3. UNCHANGED <<disk, modules>>
  BY DEF Slurp, LoadUnchanged, managerVars, worldVars, dirVars
<1>4. ServingCode' = ServingCode
  BY <1>3, ServingSame
<1>5. LoadBy(t) = NoLoading
  BY <1>1 DEF CallInv, ToInstall, LoadBy
<1>6. CASE job'[t].units = <<>>
  <2>1. LoadBy(t)' = NoLoading
    BY <1>6 DEF LoadBy, ToInstall, NoLoading
  <2> QED
    BY <1>2, <1>3, <1>4, <1>5, <2>1, UnseenStep DEF Unseen
<1>7. CASE job'[t].units # <<>>
  <2>1. /\ job'[t].path = p /\ job'[t].units = disk[p].units /\ job'[t].version = disk[p].time
        /\ pc'[t] = "unit"
    BY <1>1, <1>7 DEF Slurp, LeaveLoad, NoJob, Goto, Base, PcInv, PcOK, HeapInv, Job
  <2>2. LoadBy(t)' = [code |-> [path |-> p, version |-> disk[p].time], units |-> disk[p].units]
        /\ disk[p].units # <<>>
    BY <1>7, <2>1 DEF LoadBy, ToInstall
  <2>3. H!Read(p)
    BY <1>2, <1>3, <1>4, <1>5, <2>2
    DEF H!Read, H!NoLoad, H!NoCode, H!Nobody, H!LoadOf, H!CodeFrom, NoLoading, NoHandler
  <2> QED
    BY <1>1, <2>3 DEF HotReloadStep, H!HotReloadNext
<1> QED
  BY <1>6, <1>7

LEMMA UnitFailsStep ==
  ASSUME Base, OwnInv, [Next]_vars, NEW t \in Threads, UnitFails(t)
  PROVE  HotReloadStep
<1>1. pc[t] = "unit" /\ Load(t) /\ job[t].units # <<>> /\ ~Head(job[t].units).compiles
  BY DEF UnitFails, At, Base, HeapInv, JobOK, InLoad, Loading, Load
<1>2. /\ LoadInProgress = LoadBy(t) /\ LoadInProgress' = LoadBy(t)'
      /\ HandlerInProgress = NoHandler /\ HandlerInProgress' = NoHandler
  BY <1>1, LoadStep
<1>3. UNCHANGED <<disk, modules>>
  BY DEF UnitFails, LoadUnchanged, managerVars, worldVars, dirVars
<1>4. ServingCode' = ServingCode
  BY <1>3, ServingSame
<1>5. LoadBy(t) = [code |-> [path |-> job[t].path, version |-> job[t].version],
                   units |-> job[t].units]
  BY <1>1 DEF LoadBy, ToInstall
<1>6. LoadBy(t)' = NoLoading
  <2>1. job'[t].units = <<>>
    BY DEF UnitFails, LeaveLoad, NoJob, Base, HeapInv
  <2> QED
    BY <2>1 DEF LoadBy, ToInstall, NoLoading
<1>7. H!Abandon
  BY <1>1, <1>2, <1>3, <1>4, <1>5, <1>6
  DEF H!Abandon, H!NoLoad, H!NoCode, H!Nobody, NoLoading, NoHandler
<1> QED
  BY <1>7 DEF HotReloadStep, H!HotReloadNext

LEMMA InstallStep ==
  ASSUME Base, OwnInv, [Next]_vars, NEW t \in Threads, InstallUnit(t)
  PROVE  HotReloadStep
<1> PICK u : u = Head(job[t].units)
  OBVIOUS
<1> PICK code : code = [path |-> job[t].path, version |-> job[t].version]
  OBVIOUS
<1> PICK rest : rest = Tail(job[t].units)
  OBVIOUS
<1>1. /\ pc[t] = "unit" /\ Load(t) /\ job[t].units # <<>> /\ u.compiles
      /\ job[t] \in Job /\ job[t].path \in Paths
  BY DEF InstallUnit, Transition, At, Base, HeapInv, JobOK, InLoad, Loading, Load
<1>2. /\ LoadInProgress = LoadBy(t) /\ LoadInProgress' = LoadBy(t)'
      /\ HandlerInProgress = NoHandler /\ HandlerInProgress' = NoHandler
  BY <1>1, LoadStep
<1>3. UNCHANGED disk
  BY DEF InstallUnit, LoadUnchanged, worldVars, dirVars
<1>4. u \in UnitSource /\ u.name \in Units
  <2>1. job[t].units \in Seq(UnitSource)
    BY <1>1 DEF Job
  <2>2. u \in UnitSource
    BY <1>1, <2>1, HeadTailProperties
  <2> QED
    BY <2>2 DEF UnitSource
<1>5. LoadBy(t) = [code |-> code, units |-> job[t].units]
  BY <1>1 DEF LoadBy, ToInstall
<1>6. LoadBy(t)' = IF rest = <<>> THEN NoLoading ELSE [code |-> code, units |-> rest]
  <2>1. /\ job'[t].units = job[t].units /\ job'[t].path = job[t].path
        /\ job'[t].version = job[t].version /\ pc'[t] = "queue"
    BY <1>1 DEF InstallUnit, Transition, Goto, Base, HeapInv, PcInv, PcOK, Job
  <2>2. ToInstall(t)' = rest
    BY <1>1, <2>1 DEF ToInstall
  <2> QED
    BY <2>1, <2>2 DEF LoadBy, NoLoading
<1>7. ServingCode' = [ServingCode EXCEPT ![u.name] = code]
  <2> PICK n : n = Len(inst) + 1
    OBVIOUS
  <2>1. /\ inst \in Seq(Module) /\ modules \in [Units -> 0..Len(inst)] /\ n \in Nat /\ n # 0
    BY LenProperties DEF Base, HeapInv, ManagerTypeOK
  <2>2. /\ modules' = [modules EXCEPT ![u.name] = n]
        /\ inst'[n].path = job[t].path /\ inst'[n].version = job[t].version
    <3> DEFINE r == module_from_compiled(u, job[t].path, job[t].version)
    <3>1. HotSwapInstall(r)
      BY DEF InstallUnit
    <3>2. /\ r \in Module /\ r.path = job[t].path /\ r.version = job[t].version
          /\ r.name = u.name
      BY <1>1, <1>4 DEF module_from_compiled, Module, UnitSource, Job
    <3> HIDE DEF r
    <3>3. inst'[n] = r
      BY <2>1, <3>1, <3>2, HotSwapInstallEffect
    <3> QED
      BY <3>1, <3>2, <3>3 DEF HotSwapInstall
  <2>3. ASSUME NEW x \in Units, x # u.name PROVE ServingCode'[x] = ServingCode[x]
    <3>1. modules'[x] = modules[x]
      BY <2>1, <2>2, <2>3
    <3>2. ASSUME modules[x] # nullptr PROVE CodeOf(modules[x])' = CodeOf(modules[x])
      <4> PICK m : m = modules[x]
        OBVIOUS
      <4>1. m \in DOMAIN inst
        BY <2>1, <2>3, <3>2, LenProperties DEF nullptr
      <4>2. CodeOf(m)' = CodeOf(m)
        BY <4>1, InstKept
      <4> QED
        BY <3>1, <4>2 DEF CodeOf
    <3> QED
      BY <2>3, <3>1, <3>2 DEF ServingCode
  <2>4. ServingCode'[u.name] = code
    <3>1. modules'[u.name] = n /\ n # nullptr
      BY <1>4, <2>1, <2>2 DEF nullptr
    <3> QED
      BY <1>4, <2>2, <3>1 DEF ServingCode, CodeOf
  <2> QED
    BY <2>3, <2>4 DEF ServingCode
<1>8. H!Install
  BY <1>1, <1>2, <1>3, <1>5, <1>6, <1>7
  DEF H!Install, H!NoLoad, H!NoCode, H!Nobody, H!LoadOf, NoLoading, NoHandler
<1> QED
  BY <1>8 DEF HotReloadStep, H!HotReloadNext

\* A handler is entered: its module is installed, so its code serves its unit.
LEMMA BeginStep ==
  ASSUME Base, OwnInv, [Next]_vars, NEW t \in Threads, NEW m \in Installed, NEW h,
         BeginHandler(t, m, h), EitherThread(t),
         pc[t] \in {"mdinit", "super", "reload", "sweep"}, UNCHANGED <<disk, modules, job>>
  PROVE  HotReloadStep
<1>1. /\ pc[t] \in Loading \cup Executing \cup {"sweep"}
      /\ pc[t] \notin Executing /\ pc[t] # "unit" /\ pc'[t] = "exec"
  BY DEF Loading, Executing, BeginHandler, Goto, Base, PcInv, PcOK
<1>2. /\ \A s \in Threads \ {t} : ToInstall(s) = <<>> /\ ToInstall(s)' = <<>>
      /\ \A s \in Threads \ {t} : frame[s].m = nullptr /\ frame'[s].m = nullptr
  BY <1>1, OtherUnseen
<1>3. PICK u \in Units : modules[u] = m /\ m # nullptr /\ inst[m].name = u
  BY DEF Installed, OwnInv, OwnedOnce
<1>4. m \in DOMAIN inst /\ inst[m].path \in Paths
  BY <1>3, InstalledModule
<1>5. HandlerInProgress = NoHandler
  <2>1. frame[t] = NoFrame
    BY <1>1 DEF Base, HeapInv, FrameOK
  <2> QED
    BY <1>2, <2>1, NobodySeen DEF NoFrame
<1>6. HandlerInProgress' = [unit |-> u, code |-> CodeOf(m)]
  <2>1. frame'[t].m = m
    BY BeginFrame DEF Base
  <2>2. HandlerInProgress' = HandlerBy(t)'
    BY <1>2, HandlerSeenNext
  <2>3. inst'[m].name = u /\ CodeOf(m)' = CodeOf(m)
    BY <1>3, <1>4, InstKept
  <2> QED
    BY <1>3, <2>1, <2>2, <2>3 DEF HandlerBy, CodeOf
<1>7. LoadInProgress' = LoadInProgress
  <2>1. SameLoad(t)
    BY <1>1 DEF SameLoad, ToInstall
  <2>2. \A s \in Threads \ {t} : SameLoad(s)
    BY <1>2 DEF SameLoad
  <2> QED
    BY <2>1, <2>2, LoadUnseen
<1>8. ServingCode' = ServingCode
  BY ServingSame
<1>9. ServingCode[u] = CodeOf(m) /\ CodeOf(m) # [path |-> NoPath, version |-> 0]
  BY <1>3, <1>4, ControllerAssumption DEF ServingCode, CodeOf
<1>10. H!Call(u)
  BY <1>5, <1>6, <1>7, <1>8, <1>9 DEF H!Call, H!Nobody, H!NoCode, NoHandler
<1> QED
  BY <1>10 DEF HotReloadStep, H!HotReloadNext

\* A handler is left, and its load goes on or ends.
LEMMA EndStep ==
  ASSUME Base, OwnInv, [Next]_vars, NEW t \in Threads, EitherThread(t), pc[t] \in Executing,
         frame' = [frame EXCEPT ![t] = NoFrame], UNCHANGED <<disk, modules>>,
         LoadBy(t)' \in {LoadBy(t), NoLoading}
  PROVE  HotReloadStep
<1>1. /\ \A s \in Threads \ {t} : ToInstall(s) = <<>> /\ ToInstall(s)' = <<>>
      /\ \A s \in Threads \ {t} : frame[s].m = nullptr /\ frame'[s].m = nullptr
  BY OtherUnseen
<1> PICK m : m = frame[t].m
  OBVIOUS
<1>2. m \in DOMAIN inst /\ m # nullptr /\ inst[m].path \in Paths
  <2>1. m \in DOMAIN inst /\ m # nullptr
    BY LenProperties DEF Base, HeapInv, FrameOK, ManagerTypeOK, nullptr
  <2>2. inst[m] \in Module
    BY <2>1, Instances DEF Base, HeapInv, ManagerTypeOK
  <2> QED
    BY <2>1, <2>2 DEF Module
<1>3. HandlerInProgress # NoHandler
  <2>1. HandlerInProgress = HandlerBy(t)
    BY <1>1, HandlerSeen
  <2>2. HandlerBy(t) = [unit |-> inst[m].name, code |-> CodeOf(m)]
    BY <1>2 DEF HandlerBy
  <2> QED
    BY <1>2, <2>1, <2>2, ControllerAssumption DEF CodeOf, NoHandler
<1>4. HandlerInProgress' = NoHandler
  <2>1. frame'[t].m = nullptr
    BY EndFrame DEF Base
  <2> QED
    BY <1>1, <2>1, HandlerSeenNext DEF HandlerBy, NoHandler
<1>5. LoadInProgress' \in {LoadInProgress, NoLoading}
  BY <1>1, LoadSeen, LoadSeenNext
<1>6. ServingCode' = ServingCode
  BY ServingSame
<1>7. H!Leave
  BY <1>3, <1>4, <1>5, <1>6 DEF H!Leave, H!Nobody, H!NoCode, H!NoLoad, NoHandler, NoLoading
<1> QED
  BY <1>7 DEF HotReloadStep, H!HotReloadNext

-----------------------------------------------------------------------------
(* Steps of handlers                                                        *)

LEMMA SameLoadBy ==
  ASSUME NEW t \in Threads, SameLoad(t)
  PROVE  LoadBy(t)' = LoadBy(t)
  BY DEF SameLoad, LoadBy, NoLoading

\* Between two units, the list of those to install stays as it is.
LEMMA NextUnitSame ==
  ASSUME Base, NEW t \in Threads, NextUnit(t), pc[t] # "unit", job[t].units # <<>>
  PROVE  SameLoad(t)
<1> PICK rest : rest = Tail(job[t].units)
  OBVIOUS
<1>0. job \in [Threads -> Job] /\ DOMAIN pc = Threads
  BY DEF Base, HeapInv, PcInv, PcOK
<1>1. ToInstall(t) = rest
  BY DEF ToInstall
<1>2. CASE rest = <<>>
  <2>1. job'[t].units = <<>>
    BY <1>0, <1>2 DEF NextUnit, LeaveLoad, NoJob
  <2> QED
    BY <1>1, <1>2, <2>1 DEF SameLoad, ToInstall
<1>3. CASE rest # <<>>
  <2>1. /\ pc'[t] = "unit" /\ job'[t].units = rest
        /\ job'[t].path = job[t].path /\ job'[t].version = job[t].version
    <3>1. /\ job' = [job EXCEPT ![t].units = rest, ![t].m = nullptr]
          /\ pc' = [pc EXCEPT ![t] = "unit"]
      BY <1>3 DEF NextUnit, Goto
    <3>2. job'[t] = [job[t] EXCEPT !.units = rest, !.m = nullptr]
      BY <1>0, <3>1
    <3>3. job[t] \in Job
      BY <1>0
    <3>4. pc'[t] = "unit"
      BY <1>0, <3>1
    <3> QED
      BY <3>2, <3>3, <3>4 DEF Job
  <2> QED
    BY <1>1, <2>1 DEF SameLoad, ToInstall
<1> QED
  BY <1>2, <1>3

\* A step in which no handler is entered or left.
LEMMA HandlerStays ==
  ASSUME Base, [Next]_vars, NEW t \in Threads, EitherThread(t), SameLoad(t),
         \A s \in Threads : frame'[s].m = frame[s].m, UNCHANGED <<disk, modules>>
  PROVE  HotReloadStep
<1>1. ASSUME NEW s \in Threads \ {t} PROVE SameLoad(s)
  <2>1. KeepsStill(s)
    BY OtherKeepsStill DEF Base
  <2> QED
    BY <2>1 DEF KeepsStill, SameLoad, ToInstall, Loading
<1>2. LoadInProgress' = LoadInProgress
  BY <1>1, LoadUnseen
<1> QED
  BY <1>2, HandlerUnseen, ServingSame, UnseenStep DEF Unseen

LEMMA CallStep ==
  ASSUME Base, OwnInv, CallInv, [Next]_vars, NEW t \in Threads,
         CallMdInit(t) \/ CallMdSuperInit(t) \/ CallMdReload(t)
  PROVE  HotReloadStep
<1>1. EitherThread(t) /\ UNCHANGED <<disk, modules>>
  BY DEF EitherThread, Load, CallMdInit, CallMdSuperInit, CallMdReload, LoadUnchanged,
     worldVars, dirVars
<1>2. pc[t] \in {"mdinit", "super", "reload"}
  BY DEF CallMdInit, CallMdSuperInit, CallMdReload, At
<1>3. job[t].m \in Installed /\ job[t].units # <<>>
  BY <1>2 DEF CallInv, HasModule, Base, HeapInv, JobOK, InLoad, Loading
<1>4. \/ UNCHANGED job /\ \E h : BeginHandler(t, job[t].m, h)
      \/ UNCHANGED <<job, frame>> /\ pc'[t] \in {"super", "reload"}
      \/ UNCHANGED frame /\ NextUnit(t)
  <2>1. CASE CallMdInit(t) \/ CallMdSuperInit(t)
    BY <2>1 DEF CallMdInit, CallMdSuperInit, Goto, Base, PcInv, PcOK
  <2>2. CASE CallMdReload(t)
    BY <2>2 DEF CallMdReload
  <2> QED
    BY <2>1, <2>2
<1>5. ASSUME NEW h, UNCHANGED job, BeginHandler(t, job[t].m, h) PROVE HotReloadStep
  <2> PICK m : m = job[t].m
    OBVIOUS
  <2>1. m \in Installed /\ BeginHandler(t, m, h)
    BY <1>3, <1>5
  <2>2. pc[t] \in {"mdinit", "super", "reload", "sweep"} /\ UNCHANGED <<disk, modules, job>>
    BY <1>1, <1>2, <1>5
  <2> QED
    BY <1>1, <2>1, <2>2, BeginStep
<1>6. CASE UNCHANGED <<job, frame>> /\ pc'[t] \in {"super", "reload"}
  <2>1. SameLoad(t)
    BY <1>2, <1>6 DEF SameLoad, ToInstall
  <2> QED
    BY <1>1, <1>6, <2>1, HandlerStays
<1>7. CASE UNCHANGED frame /\ NextUnit(t)
  <2>1. SameLoad(t)
    BY <1>2, <1>3, <1>7, NextUnitSame
  <2> QED
    BY <1>1, <1>7, <2>1, HandlerStays
<1> QED
  BY <1>4, <1>5, <1>6, <1>7

LEMMA SweepStep ==
  ASSUME Base, OwnInv, CallInv, [Next]_vars, NEW t \in Threads, SweepModule(t)
  PROVE  HotReloadStep
<1>1. EitherThread(t) /\ UNCHANGED <<disk, modules, job>> /\ pc[t] = "sweep"
  BY DEF EitherThread, Sweep, SweepModule, SweepUnchanged, At, worldVars, dirVars
<1>2. PICK m \in mods[t] : \/ BeginHandler(t, m, SweepHandler(t))
                           \/ UNCHANGED <<frame, pc>>
  BY DEF SweepModule
<1>3. CASE BeginHandler(t, m, SweepHandler(t))
  <2> PICK h : h = SweepHandler(t)
    OBVIOUS
  <2>1. m \in Installed /\ BeginHandler(t, m, h)
    BY <1>3 DEF CallInv
  <2> QED
    BY <1>1, <2>1, BeginStep
<1>4. CASE UNCHANGED <<frame, pc>>
  <2>1. SameLoad(t)
    BY <1>1, <1>4 DEF SameLoad, ToInstall
  <2> QED
    BY <1>1, <1>4, <2>1, HandlerStays
<1> QED
  BY <1>2, <1>3, <1>4

LEMMA LeaveStep ==
  ASSUME Base, OwnInv, [Next]_vars, NEW t \in Threads,
         \/ LoadHandlerReturns(t) \/ LoadHandlerThrows(t)
         \/ FinalizeAsksStop(t) \/ SweepCallEnds(t)
  PROVE  HotReloadStep
<1>1. /\ EitherThread(t) /\ UNCHANGED <<disk, modules>>
      /\ frame' = [frame EXCEPT ![t] = NoFrame] /\ pc[t] = "exec"
  BY DEF EitherThread, Load, Sweep, LoadHandlerReturns, LoadHandlerThrows, FinalizeAsksStop,
     SweepCallEnds, EndHandler, InHandler, At, LoadUnchanged, SweepUnchanged, worldVars,
     dirVars
<1>2. LoadBy(t)' \in {LoadBy(t), NoLoading}
  <2>1. CASE LoadHandlerReturns(t)
    <3>1. NextUnit(t) \/ (UNCHANGED job /\ pc'[t] \in {"super", "reload"})
      BY <2>1 DEF LoadHandlerReturns, Goto, Base, PcInv, PcOK
    <3>2. job[t].units # <<>>
      BY <1>1, <2>1 DEF LoadHandlerReturns, InHandler, LoadHandlers, InLoadHandler, InLoad,
         Executing, Base, HeapInv, JobOK
    <3>3. UNCHANGED job /\ pc'[t] \in {"super", "reload"} => SameLoad(t)
      BY <1>1 DEF SameLoad, ToInstall
    <3> QED
      BY <1>1, <3>1, <3>2, <3>3, NextUnitSame, SameLoadBy
  <2>2. CASE LoadHandlerThrows(t)
    <3>1. job'[t].units = <<>>
      BY <2>2 DEF LoadHandlerThrows, LeaveLoad, NoJob, Base, HeapInv
    <3> QED
      BY <3>1 DEF LoadBy, ToInstall
  <2>3. CASE FinalizeAsksStop(t) \/ SweepCallEnds(t)
    <3>1. UNCHANGED job /\ pc'[t] = "sweep"
      BY <2>3 DEF FinalizeAsksStop, SweepCallEnds, SweepUnchanged, Goto, Base, PcInv, PcOK
    <3>2. SameLoad(t)
      BY <1>1, <3>1 DEF SameLoad, ToInstall
    <3> QED
      BY <3>2, SameLoadBy
  <2> QED
    BY <2>1, <2>2, <2>3
<1> QED
  BY <1>1, <1>2, EndStep DEF Executing

LEMMA OnStep ==
  ASSUME Base, [Next]_vars, NEW t \in Threads,
         ScriptAsksInput(t) \/ ScriptGetsInput(t) \/ (t = "main" /\ UTestFails)
  PROVE  HotReloadStep
<1>1. UNCHANGED <<disk, modules, job>> /\ pc[t] # "unit" /\ pc'[t] # "unit"
  BY DEF ScriptAsksInput, ScriptGetsInput, UTestFails, InHandler, At, Transition, Goto,
     SweepUnchanged, managerVars, localVars, worldVars, dirVars, Base, PcInv, PcOK
<1>2. \A s \in Threads : frame'[s].m = frame[s].m
  <2>1. frame \in [Threads -> Frame]
    BY DEF Base, HeapInv
  <2> QED
    BY <2>1 DEF ScriptAsksInput, ScriptGetsInput, UTestFails, localVars, Frame
<1>3. ASSUME NEW s \in Threads PROVE SameLoad(s)
  <2>1. pc'[s] = pc[s] \/ s = t
    BY DEF ScriptAsksInput, ScriptGetsInput, UTestFails, Transition, Goto, Base, PcInv, PcOK
  <2> QED
    BY <1>1, <2>1 DEF SameLoad, ToInstall
<1>4. LoadInProgress' = LoadInProgress
  BY <1>3, LoadUnseen
<1> QED
  BY <1>1, <1>2, <1>4, HandlerUnseen, ServingSame, UnseenStep DEF Unseen

-----------------------------------------------------------------------------
(* Every step                                                               *)

LEMMA DiskSteps ==
  ASSUME [Next]_vars
  PROVE  Environment \/ UNCHANGED disk
<1> USE DEF worldVars, dirVars
<1>1. ASSUME NEW t \in Threads, EitherThread(t) PROVE UNCHANGED disk
  BY <1>1 DEF EitherThread, Load, Sweep, Slurp, UnitFails, InstallUnit, QueueOld, CallMdInit,
     CallMdSuperInit, CallMdReload, LoadHandlerReturns, LoadHandlerThrows, LoadUnchanged,
     CollectModules, SweepModule, FinalizeAsksStop, SweepCallEnds, SweepUnchanged,
     ScriptAsksInput, ScriptGetsInput, ProcessEnds
<1>2. CASE Main
  BY <1>1, <1>2 DEF Main, Threads, InitialScan, InitialStat, InitialScanned, InitialLoad,
     InitialLoaded, UTestFails, UTestThrowsAgain, SweepUnchanged, StartWatcher, GetLine,
     SetStop, JoinWatcher, Return, OnlyMoves
<1>3. CASE Watcher
  BY <1>1, <1>3 DEF Watcher, Threads, WatchCheck, WatchScan, WatchVisit, WatchVisited,
     WatchPurge, WatchPurged, WatchFinalized, WatchReclaim, OnlyMoves
<1> QED
  BY <1>2, <1>3 DEF Next, Terminated, vars

LEMMA EnvironmentStep ==
  ASSUME Environment
  PROVE  HotReloadStep
<1>1. UNCHANGED <<ServingCode, LoadInProgress, HandlerInProgress>>
  <2>1. UNCHANGED <<inst, modules, pc, job, frame>>
    BY DEF Environment, managerVars, localVars
  <2>2. UNCHANGED ServingCode
    BY <2>1 DEF ServingCode, CodeOf
  <2>3. UNCHANGED LoadInProgress
    BY <2>1 DEF LoadInProgress, Loader, ToInstall
  <2>4. UNCHANGED HandlerInProgress
    BY <2>1 DEF HandlerInProgress, Executor, CodeOf
  <2> QED
    BY <2>2, <2>3, <2>4
<1> QED
  BY <1>1, UnseenStep DEF Unseen, HotReloadStep, H!HotReloadNext, H!Edit

LEMMA EveryStep ==
  ASSUME Base, OwnInv, CallInv, [Next]_vars
  PROVE  HotReloadStep
<1>1. CASE Environment
  BY <1>1, EnvironmentStep
<1>2. ASSUME NEW t \in Threads, HandlerStep(t) PROVE HotReloadStep
  BY <1>2, CallStep, SweepStep, LeaveStep, OnStep DEF HandlerStep
<1>3. ASSUME NEW t \in Threads, Slurp(t) \/ UnitFails(t) \/ InstallUnit(t)
      PROVE  HotReloadStep
  BY <1>3, SlurpStep, UnitFailsStep, InstallStep
<1>4. CASE /\ ~Environment
           /\ \A t \in Threads : ~HandlerStep(t) /\ ~Slurp(t) /\ ~UnitFails(t) /\ ~InstallUnit(t)
  <2>1. UNCHANGED <<disk, modules, frame>>
    BY <1>4, DiskSteps, ModulesChange, HandlerSteps
  <2>2. ASSUME NEW t \in Threads PROVE SameLoad(t)
    <3>1. QueueOld(t) \/ CollectModules(t) \/ StartsLoad(t) \/ KeepsStill(t)
      <4>1. Load(t) \/ CollectModules(t) \/ StartsLoad(t) \/ KeepsStill(t)
        BY <1>4, ThreadSteps DEF Base
      <4> QED
        BY <1>4, <4>1 DEF Load, HandlerStep
    <3>2. CASE QueueOld(t)
      <4>1. /\ pc[t] = "queue" /\ pc'[t] = "mdinit" /\ job'[t].units = job[t].units
            /\ job'[t].path = job[t].path /\ job'[t].version = job[t].version
        BY <3>2 DEF QueueOld, Transition, At, Goto, Base, PcInv, PcOK, HeapInv, Job
      <4> QED
        BY <4>1 DEF SameLoad, ToInstall
    <3>3. CASE CollectModules(t)
      <4>1. UNCHANGED job /\ pc[t] = "collect" /\ pc'[t] = "sweep"
        BY <3>3 DEF CollectModules, Transition, At, Goto, Base, PcInv, PcOK
      <4> QED
        BY <4>1 DEF SameLoad, ToInstall
    <3>4. CASE StartsLoad(t)
      <4>1. job[t].units = <<>>
        BY <3>4 DEF StartsLoad, OwnInv, HoldOK, InLoad, InLoadHandler, NoJob
      <4>2. job'[t].units = <<>>
        BY <3>4 DEF StartsLoad, BeginLoad, NoJob, Base, HeapInv
      <4> QED
        BY <4>1, <4>2 DEF SameLoad, ToInstall
    <3>5. CASE KeepsStill(t)
      BY <3>5 DEF KeepsStill, SameLoad, ToInstall, Loading
    <3> QED
      BY <3>1, <3>2, <3>3, <3>4, <3>5
  <2>3. LoadInProgress' = LoadInProgress
    BY <2>2, LoadUnseen
  <2> QED
    BY <2>1, <2>3, HandlerUnseen, ServingSame, UnseenStep DEF Unseen
<1> QED
  BY <1>1, <1>2, <1>3, <1>4

LEMMA MapsInit == Init => H!HotReloadInit
<1> SUFFICES ASSUME Init PROVE H!HotReloadInit
  OBVIOUS
<1>1. \A u \in Units : modules[u] = nullptr
  BY DEF Init, ManagerInit
<1>2. \A t \in Threads : job[t].units = <<>> /\ frame[t].m = nullptr
  BY DEF Init, NoJob, NoFrame
<1>3. ServingCode = [u \in Units |-> H!NoCode]
  BY <1>1 DEF ServingCode, H!NoCode
<1>4. LoadInProgress = H!NoLoad
  BY <1>2 DEF LoadInProgress, Loader, ToInstall, Threads, H!NoLoad, H!NoCode
<1>5. HandlerInProgress = H!Nobody
  BY <1>2, NobodySeen DEF NoHandler, H!Nobody, H!NoCode
<1> QED
  BY <1>3, <1>4, <1>5 DEF H!HotReloadInit

\* Whatever the two threads do, a script's author sees hot reload as HotReload
\* describes it: files read in one piece, their units installed in order, each
\* handler entered in the code that serves its unit, and no unit replaced while
\* one runs (compile_and_register, hot_swap and the sweeps over the registry).
THEOREM HotReloadKept == Spec => ImplementsHotReload
<1>1. Base /\ OwnInv /\ CallInv /\ [Next]_vars => [H!HotReloadNext]_H!hotReloadVars
  BY EveryStep DEF HotReloadStep
<1> QED
  BY <1>1, CallAlways, MapsInit, PTL DEF Spec, ImplementsHotReload, H!HotReloadSpec
=============================================================================
