------------------------- MODULE RunControllerProofs ------------------------
(***************************************************************************)
(* Theorems about RunController, for any units, paths, contents and write  *)
(* times.  First what each operation of ModuleManager does to the heap of  *)
(* modules, then under which lock, how often and in which order handlers   *)
(* run, and what a Finalize can ask for.                                   *)
(***************************************************************************)
EXTENDS RunControllerProperties, SequenceTheorems, TLAPS

LEMMA Instances ==
  ASSUME inst \in Seq(Module)
  PROVE  /\ Len(inst) \in Nat /\ DOMAIN inst = 1..Len(inst)
         /\ \A k \in DOMAIN inst : inst[k] \in Module
  BY ElementOfSeq, LenProperties

LEMMA InstanceChange ==
  ASSUME inst \in Seq(Module), NEW m \in DOMAIN inst, NEW r \in Module,
         inst' = [inst EXCEPT ![m] = r]
  PROVE  /\ inst' \in Seq(Module)
         /\ Len(inst') = Len(inst) /\ DOMAIN inst' = DOMAIN inst
         /\ \A k \in DOMAIN inst : inst'[k] = IF k = m THEN r ELSE inst[k]
  BY ExceptSeq, LenProperties

\* What an instance is compiled from never changes.
SameSource(k) ==
  /\ inst'[k].name = inst[k].name /\ inst'[k].handlers = inst[k].handlers
  /\ inst'[k].path = inst[k].path /\ inst'[k].version = inst[k].version

LEMMA EnterCallEffect ==
  ASSUME inst \in Seq(Module), NEW m \in DOMAIN inst, EnterCall(m)
  PROVE  /\ inst' \in Seq(Module)
         /\ Len(inst') = Len(inst) /\ DOMAIN inst' = DOMAIN inst
         /\ \A k \in DOMAIN inst :
              /\ SameSource(k)
              /\ inst'[k].active_calls = inst[k].active_calls + (IF k = m THEN 1 ELSE 0)
              /\ inst'[k].mdinit_called = inst[k].mdinit_called
              /\ inst'[k].freed = inst[k].freed
<1> DEFINE n == inst[m].active_calls + 1
           r == [inst[m] EXCEPT !.active_calls = n]
<1>1. \A k \in DOMAIN inst : inst[k] \in Module
  BY Instances
<1>2. n \in Nat
  BY <1>1 DEF Module
<1>3. r \in Module
  <2> HIDE DEF n
  <2> QED BY <1>1, <1>2 DEF Module
<1>4. inst' = [inst EXCEPT ![m] = r]
  BY DEF EnterCall
<1>5. /\ inst' \in Seq(Module)
      /\ Len(inst') = Len(inst) /\ DOMAIN inst' = DOMAIN inst
      /\ \A k \in DOMAIN inst : inst'[k] = IF k = m THEN r ELSE inst[k]
  <2> HIDE DEF r
  <2> QED BY <1>3, <1>4, InstanceChange
<1>6. /\ r.active_calls = n /\ r.mdinit_called = inst[m].mdinit_called
      /\ r.freed = inst[m].freed
      /\ r.name = inst[m].name /\ r.handlers = inst[m].handlers
      /\ r.path = inst[m].path /\ r.version = inst[m].version
  <2> HIDE DEF n
  <2> QED BY <1>1 DEF Module
<1> HIDE DEF r
<1>7. ASSUME NEW k \in DOMAIN inst
      PROVE  /\ SameSource(k)
             /\ inst'[k].active_calls = inst[k].active_calls + (IF k = m THEN 1 ELSE 0)
             /\ inst'[k].mdinit_called = inst[k].mdinit_called
             /\ inst'[k].freed = inst[k].freed
  <2>1. CASE k = m
    BY <2>1, <1>5, <1>6 DEF SameSource
  <2>2. CASE k # m
    <3>1. inst'[k] = inst[k] /\ inst[k].active_calls \in Nat
      BY <2>2, <1>1, <1>5 DEF Module
    <3> QED
      BY <2>2, <3>1 DEF SameSource
  <2> QED
    BY <2>1, <2>2
<1> QED
  BY <1>5, <1>7

LEMMA LeaveCallEffect ==
  ASSUME inst \in Seq(Module), NEW m \in DOMAIN inst, inst[m].active_calls > 0,
         NEW b \in BOOLEAN, LeaveCall(m, b)
  PROVE  /\ inst' \in Seq(Module)
         /\ Len(inst') = Len(inst) /\ DOMAIN inst' = DOMAIN inst
         /\ \A k \in DOMAIN inst :
              /\ SameSource(k)
              /\ inst'[k].active_calls = inst[k].active_calls - (IF k = m THEN 1 ELSE 0)
              /\ inst'[k].mdinit_called = (inst[k].mdinit_called \/ (k = m /\ b))
              /\ inst'[k].freed = inst[k].freed
<1> DEFINE n == inst[m].active_calls - 1
           c == inst[m].mdinit_called \/ b
           r == [inst[m] EXCEPT !.active_calls = n, !.mdinit_called = c]
<1>1. \A k \in DOMAIN inst : inst[k] \in Module
  BY Instances
<1>2. n \in Nat /\ c \in BOOLEAN
  <2>1. inst[m].active_calls \in Nat /\ inst[m].mdinit_called \in BOOLEAN
    BY <1>1 DEF Module
  <2>2. n \in Nat
    BY <2>1
  <2>3. c \in BOOLEAN
    BY <2>1, Zenon
  <2> QED
    BY <2>2, <2>3
<1>3. r \in Module
  <2> HIDE DEF n, c
  <2> QED BY <1>1, <1>2 DEF Module
<1>4. inst' = [inst EXCEPT ![m] = r]
  BY DEF LeaveCall
<1>5. /\ inst' \in Seq(Module)
      /\ Len(inst') = Len(inst) /\ DOMAIN inst' = DOMAIN inst
      /\ \A k \in DOMAIN inst : inst'[k] = IF k = m THEN r ELSE inst[k]
  <2> HIDE DEF r
  <2> QED BY <1>3, <1>4, InstanceChange
<1>6. /\ r.active_calls = n /\ r.mdinit_called = c /\ r.freed = inst[m].freed
      /\ r.name = inst[m].name /\ r.handlers = inst[m].handlers
      /\ r.path = inst[m].path /\ r.version = inst[m].version
  <2> HIDE DEF n, c
  <2> QED BY <1>1 DEF Module
<1> HIDE DEF r
<1>7. ASSUME NEW k \in DOMAIN inst
      PROVE  /\ SameSource(k)
             /\ inst'[k].active_calls = inst[k].active_calls - (IF k = m THEN 1 ELSE 0)
             /\ inst'[k].mdinit_called = (inst[k].mdinit_called \/ (k = m /\ b))
             /\ inst'[k].freed = inst[k].freed
  <2>1. CASE k = m
    <3>1. inst'[k].mdinit_called = (inst[k].mdinit_called \/ b)
      BY <2>1, <1>5, <1>6
    <3>2. inst'[k].mdinit_called = (inst[k].mdinit_called \/ (k = m /\ b))
      BY <2>1, <3>1, Zenon
    <3> HIDE DEF c
    <3> QED
      BY <2>1, <3>2, <1>5, <1>6 DEF SameSource
  <2>2. CASE k # m
    <3>1. inst'[k] = inst[k] /\ inst[k].active_calls \in Nat
          /\ inst[k].mdinit_called \in BOOLEAN
      BY <2>2, <1>1, <1>5 DEF Module
    <3> QED
      BY <2>2, <3>1 DEF SameSource
  <2> QED
    BY <2>1, <2>2
<1> QED
  BY <1>5, <1>7

LEMMA HotSwapInstallEffect ==
  ASSUME inst \in Seq(Module), NEW r \in Module, HotSwapInstall(r)
  PROVE  /\ inst' \in Seq(Module)
         /\ Len(inst') = Len(inst) + 1 /\ DOMAIN inst' = 1..Len(inst) + 1
         /\ \A k \in DOMAIN inst : inst'[k] = inst[k]
         /\ inst'[Len(inst) + 1] = r
  BY AppendProperties, LenProperties DEF HotSwapInstall

LEMMA TickReclaimEffect ==
  ASSUME inst \in Seq(Module), tick_reclaim
  PROVE  /\ inst' \in Seq(Module)
         /\ Len(inst') = Len(inst) /\ DOMAIN inst' = DOMAIN inst
         /\ \A k \in DOMAIN inst :
              /\ SameSource(k)
              /\ inst'[k].active_calls = inst[k].active_calls
              /\ inst'[k].mdinit_called = inst[k].mdinit_called
              /\ inst'[k].freed =
                   (inst[k].freed \/ (k \in pending_reclaim /\ inst[k].active_calls = 0))
<1> DEFINE idle == {m \in pending_reclaim : inst[m].active_calls = 0}
           e(k) == IF k \in idle THEN [inst[k] EXCEPT !.freed = TRUE] ELSE inst[k]
<1>1. \A k \in DOMAIN inst : inst[k] \in Module
  BY Instances
<1>2. \A k \in DOMAIN inst : e(k) \in Module
  BY <1>1 DEF Module
<1>3. inst' = [k \in 1..Len(inst) |-> e(k)]
  BY LenProperties DEF tick_reclaim
<1>4. Len(inst) \in Nat /\ DOMAIN inst = 1..Len(inst)
  BY LenProperties
<1>5. inst' \in Seq(Module) /\ Len(inst') = Len(inst) /\ DOMAIN inst' = DOMAIN inst
  <2> HIDE DEF e
  <2> QED BY <1>2, <1>3, <1>4
<1> QED
  BY <1>1, <1>3, <1>4, <1>5 DEF Module, SameSource

-----------------------------------------------------------------------------
(* Where the threads are                                                    *)

\* Where the threads are: each at a statement it can reach, and the watcher
\* running only while main is between starting and joining it.
PcOK ==
  /\ pc \in [Threads -> MainOnly \cup WatcherOnly \cup Shared]
  /\ pc["main"] \notin WatcherOnly /\ pc["watcher"] \notin MainOnly

WatcherAlone ==
  pc["main"] \in {"getline", "stop", "join"} \/ pc["watcher"] \in {"idle", "ended"}

PcInv == PcOK /\ WatcherAlone

LEMMA PcInit == Init => PcInv
  BY DEF Init, PcInv, PcOK, WatcherAlone, Threads, MainOnly, WatcherOnly, Shared

LEMMA PcNext == PcInv /\ [Next]_vars => PcInv'
<1> SUFFICES ASSUME PcInv, [Next]_vars PROVE PcInv'
  OBVIOUS
<1> USE DEF PcInv, PcOK, WatcherAlone, Threads, MainOnly, WatcherOnly, Shared,
            Loading, Executing, At, Goto, Transition
<1>1. ASSUME NEW t \in Threads, Load(t) PROVE PcInv'
  <2>1. CASE Slurp(t)
    BY <2>1 DEF Slurp, LeaveLoad
  <2>2. CASE UnitFails(t)
    BY <2>2 DEF UnitFails, LeaveLoad
  <2>3. CASE InstallUnit(t)
    BY <2>3 DEF InstallUnit
  <2>4. CASE QueueOld(t)
    BY <2>4 DEF QueueOld
  <2>5. CASE CallMdInit(t)
    BY <2>5 DEF CallMdInit, BeginHandler
  <2>6. CASE CallMdSuperInit(t)
    BY <2>6 DEF CallMdSuperInit, BeginHandler
  <2>7. CASE CallMdReload(t)
    BY <2>7 DEF CallMdReload, BeginHandler, NextUnit, LeaveLoad
  <2>8. CASE LoadHandlerReturns(t)
    BY <2>8 DEF LoadHandlerReturns, InHandler, NextUnit, LeaveLoad
  <2>9. CASE LoadHandlerThrows(t)
    BY <2>9 DEF LoadHandlerThrows, InHandler, LeaveLoad
  <2> QED
    BY <1>1, <2>1, <2>2, <2>3, <2>4, <2>5, <2>6, <2>7, <2>8, <2>9 DEF Load
<1>2. ASSUME NEW t \in Threads, Sweep(t) PROVE PcInv'
  <2>1. CASE CollectModules(t)
    BY <2>1 DEF CollectModules
  <2>2. CASE SweepModule(t)
    BY <2>2 DEF SweepModule, BeginHandler
  <2>3. CASE FinalizeAsksStop(t)
    BY <2>3 DEF FinalizeAsksStop, InHandler
  <2>4. CASE SweepCallEnds(t)
    BY <2>4 DEF SweepCallEnds, InHandler
  <2> QED
    BY <1>2, <2>1, <2>2, <2>3, <2>4 DEF Sweep
<1>3. ASSUME NEW t \in Threads, EitherThread(t) PROVE PcInv'
  <2>1. CASE ScriptAsksInput(t)
    BY <2>1 DEF ScriptAsksInput
  <2>2. CASE ScriptGetsInput(t)
    BY <2>2 DEF ScriptGetsInput
  <2>3. CASE ProcessEnds(t)
    BY <2>3 DEF ProcessEnds
  <2> QED
    BY <1>1, <1>2, <1>3, <2>1, <2>2, <2>3 DEF EitherThread
<1>4. CASE Main
  <2>1. CASE InitialScan \/ InitialStat \/ InitialScanned
    BY <2>1 DEF InitialScan, InitialStat, InitialScanned
  <2>2. CASE InitialLoad
    BY <2>2 DEF InitialLoad, BeginLoad
  <2>3. CASE InitialLoaded
    BY <2>3 DEF InitialLoaded
  <2>4. CASE UTestFails \/ UTestThrowsAgain
    BY <2>4 DEF UTestFails, UTestThrowsAgain
  <2>5. CASE StartWatcher \/ GetLine \/ SetStop
    BY <2>5 DEF StartWatcher, GetLine, SetStop
  <2>6. CASE JoinWatcher \/ Return
    BY <2>6 DEF JoinWatcher, Return
  <2> QED
    BY <1>3, <1>4, <2>1, <2>2, <2>3, <2>4, <2>5, <2>6 DEF Main
<1>5. CASE Watcher
  <2>1. CASE WatchCheck \/ WatchScan \/ WatchVisited
    BY <2>1 DEF WatchCheck, WatchScan, WatchVisited
  <2>2. CASE WatchVisit
    BY <2>2 DEF WatchVisit, BeginLoad
  <2>3. CASE WatchPurge \/ WatchPurged
    BY <2>3 DEF WatchPurge, WatchPurged
  <2>4. CASE WatchFinalized \/ WatchReclaim
    BY <2>4 DEF WatchFinalized, WatchReclaim
  <2> QED
    BY <1>3, <1>5, <2>1, <2>2, <2>3, <2>4 DEF Watcher
<1>6. CASE Environment
  BY <1>6 DEF Environment
<1>7. CASE UNCHANGED vars
  BY <1>7 DEF vars
<1> QED
  BY <1>4, <1>5, <1>6, <1>7 DEF Next, Terminated

LEMMA PcAlways == Spec => []PcInv
  BY PcInit, PcNext, PTL DEF Spec

\* The threads never use the VM, scripts_map or a module together: the promise
\* the unlocked members of VM and RunController rely on.
THEOREM Exclusion == Spec => []ThreadExclusion
<1>1. PcInv => ThreadExclusion
  BY DEF PcInv, WatcherAlone, ThreadExclusion, MainBusy, WatcherBusy
<1> QED
  BY <1>1, PcAlways, PTL

-----------------------------------------------------------------------------
(* The variables that hold no pointers                                      *)

DataOK ==
  /\ DirTypeOK
  /\ any_stop \in [Threads -> BOOLEAN]
  /\ scripts_map \in [Paths -> Nat]
  /\ todo \subseteq Paths
  /\ mode \in Modes
  /\ rescan \in BOOLEAN /\ stop_flag \in BOOLEAN /\ crashed \in BOOLEAN
  /\ lines \in Nat /\ eof \in BOOLEAN /\ entered \in BOOLEAN
  /\ superRuns \in Nat /\ stopAsked \in BOOLEAN
  /\ lastRead \in [Paths -> Nat]
  /\ clean \in [Paths -> BOOLEAN]

LEMMA FileTyped ==
  ASSUME NEW p \in Paths, NEW c \in Contents[p], NEW k \in Times
  PROVE  File(k, c) \in [time: Nat, parses: BOOLEAN, units: Seq(UnitSource)]
  BY ContentsAssumption, TimesAssumption DEF File, Content

LEMMA WriteTyped ==
  ASSUME DirTypeOK, NEW p \in Paths, Write(p)
  PROVE  DirTypeOK'
  BY FileTyped DEF DirTypeOK, Write

LEMMA DirInitTyped == DirInit => DirTypeOK
<1> DEFINE F == [time: Nat, parses: BOOLEAN, units: Seq(UnitSource)]
<1> SUFFICES ASSUME DirInit PROVE DirTypeOK
  OBVIOUS
<1>1. NoFile \in F /\ NoFile.time = 0
  BY DEF NoFile
<1>2. ASSUME NEW p \in Paths PROVE disk[p] \in F /\ {disk[p].time} \ {0} \subseteq Times
  <2>1. CASE disk[p] = NoFile
    BY <2>1, <1>1
  <2>2. CASE disk[p] # NoFile
    <3>1. PICK d \in UNION {Contents[q] : q \in Paths} : disk[p] = File(StartTime, d)
      BY <2>2 DEF DirInit
    <3>2. PICK q \in Paths : d \in Contents[q]
      OBVIOUS
    <3> QED
      BY <3>1, <3>2, FileTyped, TimesAssumption DEF File
  <2> QED
    BY <2>1, <2>2
<1>3. DOMAIN disk = Paths /\ disk = [p \in Paths |-> disk[p]]
  BY DEF DirInit
<1>4. disk \in [Paths -> F]
  <2> HIDE DEF F
  <2> QED BY <1>2, <1>3
<1>5. usedTimes \in [Paths -> SUBSET Times]
  BY <1>2 DEF DirInit
<1> QED
  BY <1>4, <1>5 DEF DirTypeOK

LEMMA DataInit == Init => DataOK
<1> SUFFICES ASSUME Init PROVE DataOK
  OBVIOUS
<1>1. rescan \in BOOLEAN
  BY Zenon DEF Init
<1>2. DirTypeOK
  BY DirInitTyped DEF Init
<1>3. entered \in BOOLEAN /\ eof \in BOOLEAN /\ stopAsked \in BOOLEAN /\ stop_flag \in BOOLEAN
      /\ crashed \in BOOLEAN
  BY DEF Init
<1> QED
  BY <1>1, <1>2, <1>3 DEF Init, DataOK, Threads

LEMMA DataNext == DataOK /\ [Next]_vars => DataOK'
<1> SUFFICES ASSUME DataOK, [Next]_vars PROVE DataOK'
  OBVIOUS
<1> USE DEF DataOK, DirTypeOK, Threads, Exists, vars, managerVars, localVars, scriptVars,
   flagVars, worldVars, historyVars, dirVars
<1>1. ASSUME NEW t \in Threads, Load(t) PROVE DataOK'
  <2>1. CASE Slurp(t)
    BY <2>1 DEF Slurp, LeaveLoad, LoadUnchanged
  <2>2. CASE UnitFails(t)
    BY <2>2 DEF UnitFails, LeaveLoad, LoadUnchanged
  <2>3. CASE InstallUnit(t)
    BY <2>3 DEF InstallUnit, LoadUnchanged
  <2>4. CASE QueueOld(t)
    BY <2>4 DEF QueueOld, LoadUnchanged
  <2>5. CASE CallMdInit(t)
    BY <2>5 DEF CallMdInit, BeginHandler, LoadUnchanged
  <2>6. CASE CallMdSuperInit(t)
    BY <2>6 DEF CallMdSuperInit, BeginHandler, LoadUnchanged
  <2>7. CASE CallMdReload(t)
    BY <2>7 DEF CallMdReload, BeginHandler, NextUnit, LeaveLoad, LoadUnchanged
  <2>8. CASE LoadHandlerReturns(t)
    BY <2>8 DEF LoadHandlerReturns, InHandler, NextUnit, LeaveLoad, UnlockAfter,
       LoadUnchanged
  <2>9. CASE LoadHandlerThrows(t)
    BY <2>9 DEF LoadHandlerThrows, InHandler, EndHandler, LeaveLoad, UnlockAfter,
       LoadUnchanged
  <2> QED
    BY <1>1, <2>1, <2>2, <2>3, <2>4, <2>5, <2>6, <2>7, <2>8, <2>9 DEF Load
<1>2. ASSUME NEW t \in Threads, Sweep(t) PROVE DataOK'
  <2>1. CASE CollectModules(t)
    BY <2>1 DEF CollectModules
  <2>2. CASE SweepModule(t)
    BY <2>2 DEF SweepModule, BeginHandler, SweepUnchanged
  <2>3. CASE FinalizeAsksStop(t)
    BY <2>3 DEF FinalizeAsksStop, InHandler, EndHandler, SweepUnchanged
  <2>4. CASE SweepCallEnds(t)
    BY <2>4 DEF SweepCallEnds, InHandler, EndHandler, SweepUnchanged
  <2> QED
    BY <1>2, <2>1, <2>2, <2>3, <2>4 DEF Sweep
<1>3. ASSUME NEW t \in Threads, EitherThread(t) PROVE DataOK'
  <2>1. CASE ScriptAsksInput(t)
    BY <2>1 DEF ScriptAsksInput
  <2>2. CASE ScriptGetsInput(t)
    BY <2>2 DEF ScriptGetsInput, TakeLine
  <2>3. CASE ProcessEnds(t)
    BY <2>3 DEF ProcessEnds
  <2> QED
    BY <1>1, <1>2, <1>3, <2>1, <2>2, <2>3 DEF EitherThread
<1>4. CASE Main
  <2>1. CASE InitialScan
    BY <2>1 DEF InitialScan, OpenDirectory
  <2>2. CASE InitialStat
    BY <2>2 DEF InitialStat
  <2>3. CASE InitialScanned
    BY <2>3 DEF InitialScanned, LoopOverScripts
  <2>4. CASE InitialLoad
    BY <2>4 DEF InitialLoad, BeginLoad
  <2>5. CASE InitialLoaded
    BY <2>5 DEF InitialLoaded
  <2>6. CASE UTestFails
    BY <2>6 DEF UTestFails, InHandler, SweepUnchanged
  <2>7. CASE UTestThrowsAgain
    BY <2>7 DEF UTestThrowsAgain, InHandler, SweepUnchanged
  <2>8. CASE StartWatcher
    BY <2>8 DEF StartWatcher
  <2>9. CASE GetLine
    BY <2>9 DEF GetLine, TakeLine
  <2>10. CASE SetStop
    BY <2>10 DEF SetStop
  <2>11. CASE JoinWatcher
    BY <2>11 DEF JoinWatcher, OnlyMoves
  <2>12. CASE Return
    BY <2>12 DEF Return, OnlyMoves
  <2> QED
    BY <1>3, <1>4, <2>1, <2>2, <2>3, <2>4, <2>5, <2>6, <2>7, <2>8, <2>9, <2>10, <2>11,
       <2>12 DEF Main, Threads
<1>5. CASE Watcher
  <2>1. CASE WatchCheck
    BY <2>1 DEF WatchCheck, OnlyMoves
  <2>2. CASE WatchScan
    BY <2>2 DEF WatchScan, OpenDirectory
  <2>3. CASE WatchVisit
    BY <2>3 DEF WatchVisit, BeginLoad
  <2>4. CASE WatchVisited
    BY <2>4 DEF WatchVisited, LoopOverScripts
  <2>5. CASE WatchPurge
    BY <2>5 DEF WatchPurge
  <2>6. CASE WatchPurged
    BY <2>6 DEF WatchPurged, OnlyMoves
  <2>7. CASE WatchFinalized
    BY <2>7 DEF WatchFinalized
  <2>8. CASE WatchReclaim
    BY <2>8 DEF WatchReclaim
  <2> QED
    BY <1>3, <1>5, <2>1, <2>2, <2>3, <2>4, <2>5, <2>6, <2>7, <2>8 DEF Watcher, Threads
<1>6. CASE Environment
  <2>1. CASE EditFile
    BY <2>1, <1>6, WriteTyped DEF EditFile, Environment
  <2>2. CASE RemoveFile
    BY <2>2, <1>6 DEF RemoveFile, Environment, Delete, NoFile
  <2>3. CASE PressEnter
    BY <2>3, <1>6 DEF PressEnter, Environment
  <2>4. CASE CloseStdin
    BY <2>4, <1>6 DEF CloseStdin, Environment
  <2> QED
    BY <1>6, <2>1, <2>2, <2>3, <2>4 DEF Environment
<1>7. CASE UNCHANGED vars
    BY <1>7 DEF vars
<1> QED
  BY <1>4, <1>5, <1>6, <1>7 DEF Next, Terminated

-----------------------------------------------------------------------------
(* The heap of modules and the pointers into it                             *)

\* Thread t is inside compile_and_register; and it has installed a module there.
InLoadHandler(t) == pc[t] \in Executing /\ frame[t].h \in LoadHandlers
InLoad(t) == pc[t] \in Loading \/ InLoadHandler(t)
HasModule(t) == pc[t] \in {"queue", "mdinit", "super", "reload"} \/ InLoadHandler(t)

JobOK(t) ==
  /\ InLoad(t) => job[t].path \in Paths
  /\ InLoad(t) /\ pc[t] # "slurp" => job[t].units # <<>>
  /\ HasModule(t) => job[t].m \in DOMAIN inst
  /\ job[t].old \in 0..Len(inst)

FrameOK(t) ==
  IF pc[t] \in Executing
  THEN frame[t].h \in HandlerNames /\ frame[t].m \in DOMAIN inst
  ELSE frame[t] = NoFrame

ModsOK(t) == mods[t] \subseteq DOMAIN inst

HeapInv ==
  /\ ManagerTypeOK /\ modules_mtx \in Threads \cup {NoThread}
  /\ job \in [Threads -> Job] /\ \A t \in Threads : JobOK(t)
  /\ frame \in [Threads -> Frame] /\ \A t \in Threads : FrameOK(t)
  /\ mods \in [Threads -> SUBSET Nat] /\ \A t \in Threads : ModsOK(t)
  /\ CallsCounted

LEMMA HeapInit == Init => HeapInv
<1> SUFFICES ASSUME Init PROVE HeapInv
  OBVIOUS
<1>1. inst = <<>> /\ inst \in Seq(Module) /\ Len(inst) = 0 /\ DOMAIN inst = {}
  BY DEF Init, ManagerInit
<1>2. ManagerTypeOK /\ modules_mtx \in Threads \cup {NoThread}
  <2>1. modules \in [Units -> 0..Len(inst)]
    BY <1>1 DEF Init, ManagerInit, nullptr
  <2> QED
    BY <1>1, <2>1 DEF Init, ManagerInit, ManagerTypeOK
<1>3. NoJob \in Job /\ NoJob.old = 0
  BY DEF NoJob, Job, nullptr
<1>4. NoFrame \in Frame
  BY DEF NoFrame, Frame, nullptr
<1>5. job = [t \in Threads |-> NoJob] /\ frame = [t \in Threads |-> NoFrame]
      /\ mods = [t \in Threads |-> {}] /\ \A t \in Threads : pc[t] \in {"init", "idle"}
  BY DEF Init
<1>6. \A t \in Threads : JobOK(t) /\ FrameOK(t) /\ ModsOK(t)
  BY <1>1, <1>3, <1>5 DEF JobOK, InLoad, InLoadHandler, HasModule, FrameOK, ModsOK, Loading,
                          Executing
<1> QED
  BY <1>1, <1>2, <1>3, <1>4, <1>5, <1>6 DEF HeapInv, CallsCounted

\* Entering a handler.
LEMMA BeginKeeps ==
  ASSUME PcInv, HeapInv, NEW t \in Threads, NEW m \in DOMAIN inst, NEW h \in HandlerNames,
         pc[t] \notin Executing, BeginHandler(t, m, h)
  PROVE  /\ inst' \in Seq(Module) /\ Len(inst') = Len(inst) /\ DOMAIN inst' = DOMAIN inst
         /\ pc'[t] = "exec" /\ \A s \in Threads \ {t} : pc'[s] = pc[s]
         /\ frame'[t].h = h /\ \A s \in Threads \ {t} : frame'[s] = frame[s]
         /\ frame' \in [Threads -> Frame]
         /\ \A s \in Threads : FrameOK(s)'
         /\ CallsCounted'
<1>1. /\ inst' \in Seq(Module) /\ Len(inst') = Len(inst) /\ DOMAIN inst' = DOMAIN inst
      /\ \A k \in DOMAIN inst :
           inst'[k].active_calls = inst[k].active_calls + (IF k = m THEN 1 ELSE 0)
  BY EnterCallEffect DEF BeginHandler, HeapInv, ManagerTypeOK
<1>2. m \in Nat \ {0}
  BY LenProperties DEF HeapInv, ManagerTypeOK
<1>3. frame[t] = NoFrame
  BY DEF HeapInv, FrameOK
<1>4. /\ frame' \in [Threads -> Frame]
      /\ frame'[t].m = m /\ frame'[t].h = h /\ \A s \in Threads \ {t} : frame'[s] = frame[s]
  BY <1>2 DEF HeapInv, BeginHandler, Frame, NoFrame
<1>5. pc'[t] = "exec" /\ \A s \in Threads \ {t} : pc'[s] = pc[s]
  BY DEF BeginHandler, Goto, PcInv, PcOK
<1>6. \A s \in Threads : FrameOK(s)'
  BY <1>1, <1>4, <1>5 DEF HeapInv, FrameOK, Executing
<1>7. CallsCounted'
  <2>1. frame[t].m = 0
    BY <1>3 DEF NoFrame, nullptr
  <2> QED
    BY <1>1, <1>2, <1>4, <2>1 DEF HeapInv, CallsCounted, Threads
<1> QED
  BY <1>1, <1>4, <1>5, <1>6, <1>7

\* Leaving one.
LEMMA EndKeeps ==
  ASSUME PcInv, HeapInv, NEW t \in Threads, NEW b \in BOOLEAN,
         pc[t] \in Executing,
         pc'[t] \notin Executing, \A s \in Threads \ {t} : pc'[s] = pc[s],
         LeaveCall(frame[t].m, b), frame' = [frame EXCEPT ![t] = NoFrame]
  PROVE  /\ inst' \in Seq(Module) /\ Len(inst') = Len(inst) /\ DOMAIN inst' = DOMAIN inst
         /\ frame'[t] = NoFrame /\ \A s \in Threads \ {t} : frame'[s] = frame[s]
         /\ frame' \in [Threads -> Frame]
         /\ \A s \in Threads : FrameOK(s)'
         /\ CallsCounted'
<1> DEFINE m == frame[t].m
<1>1. m \in DOMAIN inst /\ m \in Nat \ {0}
  BY LenProperties DEF HeapInv, FrameOK, ManagerTypeOK
<1>2. inst[m].active_calls > 0
  BY <1>1 DEF HeapInv, CallsCounted, Threads
<1>3. /\ inst' \in Seq(Module) /\ Len(inst') = Len(inst) /\ DOMAIN inst' = DOMAIN inst
      /\ \A k \in DOMAIN inst :
           inst'[k].active_calls = inst[k].active_calls - (IF k = m THEN 1 ELSE 0)
  BY <1>1, <1>2, LeaveCallEffect DEF HeapInv, ManagerTypeOK
<1>4. /\ frame' \in [Threads -> Frame]
      /\ frame'[t] = NoFrame /\ \A s \in Threads \ {t} : frame'[s] = frame[s]
  BY DEF HeapInv, Frame, NoFrame, nullptr
<1>6. \A s \in Threads : FrameOK(s)'
  BY <1>3, <1>4 DEF HeapInv, FrameOK
<1>7. CallsCounted'
  <2>1. frame'[t].m = 0
    BY <1>4 DEF NoFrame, nullptr
  <2> QED
    BY <1>1, <1>3, <1>4, <2>1 DEF HeapInv, CallsCounted, Threads
<1> QED
  BY <1>3, <1>4, <1>6, <1>7

LEMMA JobChange ==
  ASSUME job \in [Threads -> Job], NEW t \in Threads, NEW r \in Job,
         job' = [job EXCEPT ![t] = r]
  PROVE  job' \in [Threads -> Job] /\ job'[t] = r /\ \A s \in Threads \ {t} : job'[s] = job[s]
  OBVIOUS

LEMMA LeaveLoadKeeps ==
  ASSUME PcInv, HeapInv, NEW t \in Threads, LeaveLoad(t), DOMAIN inst' = DOMAIN inst,
         Len(inst') = Len(inst), \A s \in Threads \ {t} : frame'[s] = frame[s]
  PROVE  job' \in [Threads -> Job] /\ \A s \in Threads : JobOK(s)'
<1>1. NoJob \in Job /\ NoJob.old = 0
  BY DEF NoJob, Job, nullptr
<1>2. job' \in [Threads -> Job] /\ job'[t] = NoJob /\ \A s \in Threads \ {t} : job'[s] = job[s]
  BY <1>1, JobChange DEF LeaveLoad, HeapInv
<1>3. pc'[t] \notin Loading \cup Executing /\ \A s \in Threads \ {t} : pc'[s] = pc[s]
  BY DEF LeaveLoad, Goto, PcInv, PcOK, Loading, Executing
<1>4. Len(inst) \in Nat
  BY LenProperties DEF HeapInv, ManagerTypeOK
<1> QED
  BY <1>1, <1>2, <1>3, <1>4 DEF HeapInv, JobOK, InLoad, InLoadHandler, HasModule, Loading

\* The statements of a load that follow the installation of a unit.
LEMMA HandlerInLoadKeeps ==
  ASSUME PcInv, HeapInv, NEW t \in Threads, NEW h \in LoadHandlers,
         pc[t] \in {"mdinit", "super", "reload"}, BeginHandler(t, job[t].m, h),
         UNCHANGED <<modules, pending_reclaim, job, mods>>,
         super_called' \in BOOLEAN, modules_mtx' \in Threads \cup {NoThread}
  PROVE  HeapInv'
<1>1. job[t].m \in DOMAIN inst /\ h \in HandlerNames /\ pc[t] \notin Executing
  BY DEF HeapInv, JobOK, HasModule, LoadHandlers, HandlerNames, Executing
<1>2. /\ inst' \in Seq(Module) /\ Len(inst') = Len(inst) /\ DOMAIN inst' = DOMAIN inst
      /\ pc'[t] = "exec" /\ \A s \in Threads \ {t} : pc'[s] = pc[s]
      /\ frame'[t].h = h /\ \A s \in Threads \ {t} : frame'[s] = frame[s]
      /\ frame' \in [Threads -> Frame]
      /\ \A s \in Threads : FrameOK(s)'
      /\ CallsCounted'
  BY <1>1, BeginKeeps
<1>3. \A s \in Threads : JobOK(s)'
  BY <1>1, <1>2 DEF HeapInv, JobOK, InLoad, InLoadHandler, HasModule, Loading, Executing
<1>4. \A s \in Threads : ModsOK(s)'
  BY <1>2 DEF HeapInv, ModsOK
<1> QED
  BY <1>2, <1>3, <1>4 DEF HeapInv, ManagerTypeOK

LEMMA MoveInLoadKeeps ==
  ASSUME PcInv, HeapInv, NEW t \in Threads, NEW to \in {"super", "reload"},
         pc[t] \in {"mdinit", "super"}, Goto(t, to),
         UNCHANGED <<managerVars, frame, job, mods>>
  PROVE  HeapInv'
<1>1. pc'[t] = to /\ \A s \in Threads \ {t} : pc'[s] = pc[s]
  BY DEF Goto, PcInv, PcOK
<1>2. \A s \in Threads : JobOK(s)'
  BY <1>1 DEF HeapInv, JobOK, InLoad, InLoadHandler, HasModule, Loading, Executing,
     managerVars
<1>3. \A s \in Threads : FrameOK(s)' /\ ModsOK(s)'
  BY <1>1 DEF HeapInv, FrameOK, ModsOK, Executing, managerVars
<1> QED
  BY <1>2, <1>3 DEF HeapInv, ManagerTypeOK, CallsCounted, managerVars

LEMMA NextUnitKeeps ==
  ASSUME PcInv, HeapInv, NEW t \in Threads, NextUnit(t), HasModule(t),
         DOMAIN inst' = DOMAIN inst, Len(inst') = Len(inst),
         \A s \in Threads \ {t} : frame'[s] = frame[s]
  PROVE  /\ job' \in [Threads -> Job] /\ \A s \in Threads : JobOK(s)'
         /\ pc'[t] \notin Executing /\ \A s \in Threads \ {t} : pc'[s] = pc[s]
<1> DEFINE rest == Tail(job[t].units)
           r == [job[t] EXCEPT !.units = rest, !.m = nullptr]
<1>1. CASE rest = <<>>
  <2>1. LeaveLoad(t)
    BY <1>1 DEF NextUnit
  <2>2. pc'[t] \notin Executing /\ \A s \in Threads \ {t} : pc'[s] = pc[s]
    BY <2>1 DEF LeaveLoad, Goto, PcInv, PcOK, Executing
  <2> QED
    BY <2>1, <2>2, LeaveLoadKeeps
<1>2. CASE rest # <<>>
  <2>1. job' = [job EXCEPT ![t] = r] /\ Goto(t, "unit")
    BY <1>2 DEF NextUnit
  <2>2. job[t] \in Job /\ job[t].units # <<>> /\ job[t].path \in Paths
    BY DEF HeapInv, JobOK, HasModule, InLoad, InLoadHandler, Loading, Executing
  <2>3. rest \in Seq(UnitSource)
    BY <2>2, HeadTailProperties DEF Job
  <2>4. r \in Job /\ r.old = job[t].old /\ r.path = job[t].path /\ r.units = rest
    <3> HIDE DEF rest
    <3> QED BY <2>2, <2>3 DEF Job, nullptr
  <2> HIDE DEF r, rest
  <2>5. job' \in [Threads -> Job] /\ job'[t] = r /\ \A s \in Threads \ {t} : job'[s] = job[s]
    BY <2>1, <2>4, JobChange DEF HeapInv
  <2>6. pc'[t] = "unit" /\ \A s \in Threads \ {t} : pc'[s] = pc[s]
    BY <2>1 DEF Goto, PcInv, PcOK
  <2>7. \A s \in Threads : JobOK(s)'
    BY <1>2, <2>2, <2>4, <2>5, <2>6 DEF HeapInv, JobOK, InLoad, InLoadHandler, HasModule,
       Loading, Executing
  <2> QED
    BY <2>5, <2>6, <2>7 DEF Executing
<1> QED
  BY <1>1, <1>2

LEMMA LoadKeeps ==
  ASSUME PcInv, DataOK, HeapInv, NEW t \in Threads, Load(t)
  PROVE  HeapInv'
<1> USE DEF Threads, LoadUnchanged
<1>0. /\ inst \in Seq(Module) /\ DOMAIN inst = 1..Len(inst) /\ Len(inst) \in Nat
      /\ modules \in [Units -> 0..Len(inst)] /\ pending_reclaim \subseteq DOMAIN inst
  BY LenProperties DEF HeapInv, ManagerTypeOK
<1>1. CASE Slurp(t)
  <2>1. UNCHANGED <<managerVars, frame, mods>>
    BY <1>1 DEF Slurp
  <2>2. job[t].path \in Paths
    BY <1>1 DEF Slurp, At, HeapInv, JobOK, InLoad, Loading
  <2>3. disk[job[t].path] \in [time: Nat, parses: BOOLEAN, units: Seq(UnitSource)]
    BY <2>2 DEF DataOK, DirTypeOK
  <2> DEFINE f == disk[job[t].path]
             r == [job[t] EXCEPT !.units = f.units, !.version = f.time]
  <2>4. job' \in [Threads -> Job] /\ \A s \in Threads : JobOK(s)'
    <3>1. CASE f.units # <<>> /\ job' = [job EXCEPT ![t] = r] /\ Goto(t, "unit")
      <4>1. r \in Job /\ r.path \in Paths /\ r.units # <<>> /\ r.old = job[t].old
        BY <2>2, <2>3, <3>1 DEF HeapInv, Job
      <4> HIDE DEF r
      <4>2. job' \in [Threads -> Job] /\ job'[t] = r
            /\ \A s \in Threads \ {t} : job'[s] = job[s]
        BY <3>1, <4>1, JobChange DEF HeapInv
      <4> QED
        BY <2>1, <3>1, <4>1, <4>2 DEF Goto, HeapInv, JobOK, InLoad, InLoadHandler,
           HasModule, Loading, Executing, PcInv, PcOK, managerVars
    <3>2. CASE LeaveLoad(t)
      BY <2>1, <3>2, LeaveLoadKeeps DEF managerVars
    <3> QED
      BY <1>1, <3>1, <3>2 DEF Slurp
  <2>5. \A s \in Threads : FrameOK(s)' /\ ModsOK(s)'
    BY <1>1, <2>1 DEF Slurp, LeaveLoad, Goto, At, HeapInv, FrameOK, ModsOK, Executing,
       PcInv, PcOK, managerVars
  <2> QED
    BY <2>1, <2>4, <2>5 DEF HeapInv, ManagerTypeOK, CallsCounted, managerVars
<1>2. CASE UnitFails(t)
  <2>1. UNCHANGED <<managerVars, frame, mods>>
    BY <1>2 DEF UnitFails
  <2>4. job' \in [Threads -> Job] /\ \A s \in Threads : JobOK(s)'
    BY <1>2, <2>1, LeaveLoadKeeps DEF UnitFails, managerVars
  <2>5. \A s \in Threads : FrameOK(s)' /\ ModsOK(s)'
    BY <1>2, <2>1 DEF UnitFails, LeaveLoad, Goto, At, HeapInv, FrameOK, ModsOK, Executing,
       PcInv, PcOK, managerVars
  <2> QED
    BY <2>1, <2>4, <2>5 DEF HeapInv, ManagerTypeOK, CallsCounted, managerVars
<1>3. CASE InstallUnit(t)
  <2> DEFINE u == Head(job[t].units)
             r == module_from_compiled(u, job[t].path, job[t].version)
             n == Len(inst) + 1
             o == modules[u.name]
             j == [job[t] EXCEPT !.m = n, !.old = o]
  <2>1. u \in UnitSource /\ job[t].path \in Paths /\ job[t].version \in Nat
    BY <1>3, HeadTailProperties DEF InstallUnit, Transition, At, HeapInv, JobOK, InLoad,
       Loading, Job
  <2>2. r \in Module /\ r.active_calls = 0 /\ r.name \in Units
    BY <2>1 DEF module_from_compiled, Module, UnitSource
  <2>3. HotSwapInstall(r)
    BY <1>3 DEF InstallUnit
  <2>4. UNCHANGED <<pending_reclaim, modules_mtx, super_called, frame, mods>>
    BY <1>3 DEF InstallUnit
  <2>5. /\ pc[t] = "unit" /\ pc' = [pc EXCEPT ![t] = "queue"]
        /\ job' = [job EXCEPT ![t] = j]
        /\ modules[u.name] \in 0..Len(inst)
    BY <1>0, <1>3, <2>1 DEF InstallUnit, Transition, At, Goto, UnitSource
  <2>12. j \in Job /\ j.m = Len(inst) + 1 /\ j.old = modules[u.name] /\ j.path = job[t].path
         /\ j.units = job[t].units
    <3>1. n \in Nat /\ o \in Nat
      BY <1>0, <2>5
    <3>2. j \in Job /\ j.m = n /\ j.old = o /\ j.path = job[t].path /\ j.units = job[t].units
      <4> HIDE DEF n, o
      <4> QED BY <3>1 DEF HeapInv, Job
    <3> QED BY <3>2
  <2> HIDE DEF u, r, j
  <2>6. /\ inst' \in Seq(Module)
        /\ Len(inst') = Len(inst) + 1 /\ DOMAIN inst' = 1..Len(inst) + 1
        /\ \A k \in DOMAIN inst : inst'[k] = inst[k]
        /\ inst'[Len(inst) + 1] = r
    BY <1>0, <2>2, <2>3, HotSwapInstallEffect
  <2>7. ManagerTypeOK' /\ modules_mtx' \in Threads \cup {NoThread}
    BY <1>0, <2>2, <2>3, <2>4, <2>6 DEF HeapInv, ManagerTypeOK, HotSwapInstall
  <2>8. job' \in [Threads -> Job] /\ job'[t] = j /\ \A s \in Threads \ {t} : job'[s] = job[s]
    BY <2>5, <2>12, JobChange DEF HeapInv
  <2>9. \A s \in Threads : JobOK(s)'
    BY <1>0, <2>4, <2>5, <2>6, <2>8, <2>12 DEF HeapInv, JobOK, InLoad, InLoadHandler,
       HasModule,
       Loading, Executing, PcInv, PcOK
  <2>10. \A s \in Threads : FrameOK(s)' /\ ModsOK(s)'
    BY <1>0, <2>4, <2>5, <2>6 DEF HeapInv, FrameOK, ModsOK, Executing, PcInv, PcOK
  <2>11. CallsCounted'
    <3>1. \A s \in Threads : frame[s].m \in 0..Len(inst)
      BY <1>0 DEF HeapInv, FrameOK, NoFrame, nullptr
    <3> QED
      BY <1>0, <2>2, <2>4, <2>6, <3>1 DEF HeapInv, CallsCounted
  <2> QED
    BY <2>4, <2>7, <2>8, <2>9, <2>10, <2>11 DEF HeapInv
<1>4. CASE QueueOld(t)
  <2>1. UNCHANGED <<inst, modules, modules_mtx, super_called, frame, mods>>
    BY <1>4 DEF QueueOld
  <2>2. pending_reclaim' \subseteq DOMAIN inst
    BY <1>0, <1>4 DEF QueueOld, HotSwapQueue, HeapInv, JobOK, nullptr
  <2> DEFINE r == [job[t] EXCEPT !.old = nullptr]
  <2>3. r \in Job /\ r.old = 0 /\ r.m = job[t].m /\ r.path = job[t].path
        /\ r.units = job[t].units
    BY DEF HeapInv, Job, nullptr
  <2>6. job' = [job EXCEPT ![t] = r]
    BY <1>4 DEF QueueOld
  <2> HIDE DEF r
  <2>4. job' \in [Threads -> Job] /\ job'[t] = r /\ \A s \in Threads \ {t} : job'[s] = job[s]
    BY <2>3, <2>6, JobChange DEF HeapInv
  <2>7. pc[t] = "queue" /\ pc'[t] = "mdinit" /\ \A s \in Threads \ {t} : pc'[s] = pc[s]
    BY <1>4 DEF QueueOld, Transition, At, Goto, PcInv, PcOK
  <2>8. \A s \in Threads : JobOK(s)'
    BY <1>0, <2>1, <2>3, <2>4, <2>7 DEF HeapInv, JobOK, InLoad, InLoadHandler, HasModule,
       Loading, Executing
  <2>5. \A s \in Threads : JobOK(s)' /\ FrameOK(s)' /\ ModsOK(s)'
    BY <2>1, <2>7, <2>8 DEF HeapInv, FrameOK, ModsOK, Executing
  <2> QED
    BY <2>1, <2>2, <2>4, <2>5 DEF HeapInv, ManagerTypeOK, CallsCounted
<1>5. CASE CallMdInit(t)
  <2>1. pc[t] = "mdinit" /\ UNCHANGED <<modules, pending_reclaim, super_called, job, mods>>
    BY <1>5 DEF CallMdInit, At
  <2>2. CASE BeginHandler(t, job[t].m, "MdInit") /\ modules_mtx' = t
    BY <2>1, <2>2, HandlerInLoadKeeps DEF LoadHandlers, HeapInv, ManagerTypeOK
  <2>3. CASE Goto(t, "super") /\ UNCHANGED <<inst, frame, modules_mtx>>
    BY <2>1, <2>3, MoveInLoadKeeps DEF managerVars
  <2> QED
    BY <1>5, <2>2, <2>3 DEF CallMdInit
<1>6. CASE CallMdSuperInit(t)
  <2>1. /\ pc[t] = "super"
        /\ UNCHANGED <<modules, pending_reclaim, modules_mtx, job, mods>>
    BY <1>6 DEF CallMdSuperInit, At
  <2>2. CASE BeginHandler(t, job[t].m, "MdSuperInit") /\ super_called' = TRUE
    BY <2>1, <2>2, HandlerInLoadKeeps DEF LoadHandlers, HeapInv
  <2>3. CASE Goto(t, "reload") /\ UNCHANGED <<inst, frame, super_called>>
    BY <2>1, <2>3, MoveInLoadKeeps DEF managerVars
  <2> QED
    BY <1>6, <2>2, <2>3 DEF CallMdSuperInit
<1>7. CASE CallMdReload(t)
  <2>1. /\ pc[t] = "reload"
        /\ UNCHANGED <<modules, pending_reclaim, modules_mtx, super_called, mods>>
    BY <1>7 DEF CallMdReload, At
  <2>2. CASE BeginHandler(t, job[t].m, "MdReload") /\ UNCHANGED job
    BY <2>1, <2>2, HandlerInLoadKeeps DEF LoadHandlers, HeapInv, ManagerTypeOK
  <2>3. CASE NextUnit(t) /\ UNCHANGED <<inst, frame>>
    <3>1. HasModule(t)
      BY <2>1 DEF HasModule
    <3>2. /\ job' \in [Threads -> Job] /\ \A s \in Threads : JobOK(s)'
          /\ pc'[t] \notin Executing /\ \A s \in Threads \ {t} : pc'[s] = pc[s]
      BY <2>3, <3>1, NextUnitKeeps
    <3>3. \A s \in Threads : FrameOK(s)' /\ ModsOK(s)'
      BY <2>1, <2>3, <3>2 DEF HeapInv, FrameOK, ModsOK, Executing
    <3> QED
      BY <2>1, <2>3, <3>2, <3>3 DEF HeapInv, ManagerTypeOK, CallsCounted
  <2> QED
    BY <1>7, <2>2, <2>3 DEF CallMdReload
<1>8. CASE LoadHandlerReturns(t)
  <2> DEFINE b == frame[t].h = "MdInit"
  <2>1. /\ pc[t] = "exec" /\ frame[t].h \in LoadHandlers
        /\ LeaveCall(frame[t].m, b) /\ frame' = [frame EXCEPT ![t] = NoFrame]
        /\ UNCHANGED <<modules, pending_reclaim, super_called, mods>>
        /\ modules_mtx' \in Threads \cup {NoThread}
    BY <1>8 DEF LoadHandlerReturns, InHandler, At, LoadHandlers, UnlockAfter, HeapInv
  <2>2. b \in BOOLEAN /\ pc[t] \in Executing /\ HasModule(t)
    BY <2>1 DEF HasModule, InLoadHandler, Executing
  <2>3. CASE NextUnit(t)
    <3>1. pc'[t] \notin Executing /\ \A s \in Threads \ {t} : pc'[s] = pc[s]
      BY <2>3 DEF NextUnit, LeaveLoad, Goto, PcInv, PcOK, Executing
    <3> HIDE DEF b
    <3>2. /\ inst' \in Seq(Module) /\ Len(inst') = Len(inst) /\ DOMAIN inst' = DOMAIN inst
          /\ frame'[t] = NoFrame /\ \A s \in Threads \ {t} : frame'[s] = frame[s]
          /\ frame' \in [Threads -> Frame]
          /\ \A s \in Threads : FrameOK(s)'
          /\ CallsCounted'
      BY <2>1, <2>2, <3>1, EndKeeps
    <3>3. job' \in [Threads -> Job] /\ \A s \in Threads : JobOK(s)'
      BY <2>2, <2>3, <3>2, NextUnitKeeps
    <3> QED
      BY <2>1, <3>2, <3>3 DEF HeapInv, ManagerTypeOK, ModsOK
  <2>4. CASE UNCHANGED job /\ Goto(t, IF frame[t].h = "MdInit" THEN "super" ELSE "reload")
    <3>1. pc'[t] \in {"super", "reload"} /\ \A s \in Threads \ {t} : pc'[s] = pc[s]
      BY <2>4 DEF Goto, PcInv, PcOK
    <3>2. pc'[t] \notin Executing
      BY <3>1 DEF Executing
    <3> HIDE DEF b
    <3>3. /\ inst' \in Seq(Module) /\ Len(inst') = Len(inst) /\ DOMAIN inst' = DOMAIN inst
          /\ frame'[t] = NoFrame /\ \A s \in Threads \ {t} : frame'[s] = frame[s]
          /\ frame' \in [Threads -> Frame]
          /\ \A s \in Threads : FrameOK(s)'
          /\ CallsCounted'
      BY <2>1, <2>2, <3>1, <3>2, EndKeeps
    <3>4. \A s \in Threads : JobOK(s)'
      BY <2>1, <2>2, <2>4, <3>1, <3>3 DEF HeapInv, JobOK, InLoad, InLoadHandler, HasModule,
         Loading, Executing
    <3> QED
      BY <2>1, <2>4, <3>3, <3>4 DEF HeapInv, ManagerTypeOK, ModsOK
  <2> QED
    BY <1>8, <2>3, <2>4 DEF LoadHandlerReturns
<1>9. CASE LoadHandlerThrows(t)
  <2>1. /\ pc[t] = "exec" /\ LeaveLoad(t)
        /\ LeaveCall(frame[t].m, FALSE) /\ frame' = [frame EXCEPT ![t] = NoFrame]
        /\ UNCHANGED <<modules, pending_reclaim, super_called, mods>>
        /\ modules_mtx' \in Threads \cup {NoThread}
    BY <1>9 DEF LoadHandlerThrows, EndHandler, InHandler, At, UnlockAfter, HeapInv
  <2>2. pc'[t] \notin Executing /\ \A s \in Threads \ {t} : pc'[s] = pc[s]
    BY <2>1 DEF LeaveLoad, Goto, PcInv, PcOK, Executing
  <2>3. /\ inst' \in Seq(Module) /\ Len(inst') = Len(inst) /\ DOMAIN inst' = DOMAIN inst
        /\ frame'[t] = NoFrame /\ \A s \in Threads \ {t} : frame'[s] = frame[s]
        /\ frame' \in [Threads -> Frame]
        /\ \A s \in Threads : FrameOK(s)'
        /\ CallsCounted'
    BY <2>1, <2>2, EndKeeps DEF Executing
  <2>4. job' \in [Threads -> Job] /\ \A s \in Threads : JobOK(s)'
    BY <2>1, <2>3, LeaveLoadKeeps
  <2> QED
    BY <2>1, <2>3, <2>4 DEF HeapInv, ManagerTypeOK, ModsOK
<1> QED
  BY <1>1, <1>2, <1>3, <1>4, <1>5, <1>6, <1>7, <1>8, <1>9 DEF Load

LEMMA SweepKeeps ==
  ASSUME PcInv, HeapInv, NEW t \in Threads, Sweep(t)
  PROVE  HeapInv'
<1>1. CASE CollectModules(t)
  <2>1. Installed \subseteq DOMAIN inst
    BY LenProperties DEF Installed, HeapInv, ManagerTypeOK, nullptr
  <2>2. /\ UNCHANGED <<managerVars, job, frame>>
        /\ pc[t] = "collect" /\ pc'[t] = "sweep" /\ \A s \in Threads \ {t} : pc'[s] = pc[s]
    BY <1>1 DEF CollectModules, Transition, At, Goto, PcInv, PcOK
  <2>3. mods' \in [Threads -> SUBSET Nat] /\ \A s \in Threads : ModsOK(s)'
    BY <1>1, <2>1, <2>2, LenProperties DEF CollectModules, HeapInv, ManagerTypeOK, ModsOK,
       managerVars
  <2>4. \A s \in Threads : JobOK(s)'
    BY <2>2 DEF HeapInv, JobOK, InLoad, InLoadHandler, HasModule, Loading, Executing,
       managerVars
  <2>5. \A s \in Threads : FrameOK(s)'
    BY <2>2 DEF HeapInv, FrameOK, Executing, managerVars
  <2> QED
    BY <2>2, <2>3, <2>4, <2>5 DEF HeapInv, ManagerTypeOK, CallsCounted, managerVars
<1>2. CASE SweepModule(t)
  <2>1. PICK m \in mods[t] :
          /\ pc[t] = "sweep" /\ mods' = [mods EXCEPT ![t] = @ \ {m}]
          /\ \/ BeginHandler(t, m, SweepHandler(t))
             \/ UNCHANGED <<inst, frame, pc>>
    BY <1>2 DEF SweepModule, At
  <2>2. UNCHANGED <<modules, pending_reclaim, modules_mtx, super_called, job>>
    BY <1>2 DEF SweepModule, SweepUnchanged
  <2>3. m \in DOMAIN inst /\ SweepHandler(t) \in HandlerNames \ LoadHandlers
        /\ pc[t] \notin Executing
    BY <2>1 DEF HeapInv, ModsOK, SweepHandler, HandlerNames, LoadHandlers, SweepHandlers,
         Executing
  <2>4. mods' \in [Threads -> SUBSET Nat] /\ \A s \in Threads : mods'[s] \subseteq DOMAIN inst
    BY <2>1 DEF HeapInv, ModsOK
  <2>5. CASE BeginHandler(t, m, SweepHandler(t))
    <3>1. /\ inst' \in Seq(Module) /\ Len(inst') = Len(inst) /\ DOMAIN inst' = DOMAIN inst
          /\ pc'[t] = "exec" /\ \A s \in Threads \ {t} : pc'[s] = pc[s]
          /\ frame'[t].h = SweepHandler(t) /\ \A s \in Threads \ {t} : frame'[s] = frame[s]
          /\ frame' \in [Threads -> Frame]
          /\ \A s \in Threads : FrameOK(s)'
          /\ CallsCounted'
      BY <2>3, <2>5, BeginKeeps
    <3>2. \A s \in Threads : JobOK(s)'
      BY <2>2, <2>3, <3>1 DEF HeapInv, JobOK, InLoad, InLoadHandler, HasModule, Loading,
         Executing
    <3> QED
      BY <2>2, <2>4, <3>1, <3>2 DEF HeapInv, ManagerTypeOK, ModsOK
  <2>6. CASE UNCHANGED <<inst, frame, pc>>
    <3>1. \A s \in Threads : JobOK(s)' /\ FrameOK(s)'
      BY <2>2, <2>6 DEF HeapInv, JobOK, InLoad, InLoadHandler, HasModule, FrameOK
    <3> QED
      BY <2>2, <2>4, <2>6, <3>1 DEF HeapInv, ManagerTypeOK, ModsOK, CallsCounted
  <2> QED
    BY <2>1, <2>5, <2>6
<1>3. CASE FinalizeAsksStop(t) \/ SweepCallEnds(t)
  <2>1. /\ pc[t] = "exec" /\ Goto(t, "sweep") /\ frame[t].h \notin LoadHandlers
        /\ LeaveCall(frame[t].m, FALSE) /\ frame' = [frame EXCEPT ![t] = NoFrame]
        /\ UNCHANGED <<modules, pending_reclaim, modules_mtx, super_called, job, mods>>
    BY <1>3 DEF FinalizeAsksStop, SweepCallEnds, EndHandler, InHandler, At, SweepUnchanged,
       LoadHandlers
  <2>2. pc'[t] = "sweep" /\ \A s \in Threads \ {t} : pc'[s] = pc[s]
    BY <2>1 DEF Goto, PcInv, PcOK
  <2>3. /\ inst' \in Seq(Module) /\ Len(inst') = Len(inst) /\ DOMAIN inst' = DOMAIN inst
        /\ frame'[t] = NoFrame /\ \A s \in Threads \ {t} : frame'[s] = frame[s]
        /\ frame' \in [Threads -> Frame]
        /\ \A s \in Threads : FrameOK(s)'
        /\ CallsCounted'
    BY <2>1, <2>2, EndKeeps DEF Executing
  <2>4. \A s \in Threads : JobOK(s)'
    BY <2>1, <2>2, <2>3 DEF HeapInv, JobOK, InLoad, InLoadHandler, HasModule, Loading,
       Executing
  <2> QED
    BY <2>1, <2>3, <2>4 DEF HeapInv, ManagerTypeOK, ModsOK
<1> QED
  BY <1>1, <1>2, <1>3 DEF Sweep

\* A step that leaves the heap and the pointers alone, and takes no thread into
\* a load or a handler, or out of one.
LEMMA MovesKeep ==
  ASSUME HeapInv, UNCHANGED <<managerVars, job, frame, mods>>,
         \A t \in Threads :
           pc'[t] = pc[t] \/ {pc[t], pc'[t]} \cap (Loading \cup Executing) = {}
                         \/ {pc[t], pc'[t]} \subseteq Executing
  PROVE  HeapInv'
<1>1. \A t \in Threads : JobOK(t)'
  BY DEF HeapInv, JobOK, InLoad, InLoadHandler, HasModule, Loading, Executing, managerVars
<1>2. \A t \in Threads : FrameOK(t)' /\ ModsOK(t)'
  BY DEF HeapInv, FrameOK, ModsOK, managerVars
<1> QED
  BY <1>1, <1>2 DEF HeapInv, ManagerTypeOK, CallsCounted, managerVars

\* The start of a load.
LEMMA BeginLoadKeeps ==
  ASSUME PcInv, HeapInv, NEW t \in Threads, NEW p \in Paths, NEW b \in BOOLEAN,
         BeginLoad(t, p, b), pc[t] \notin Executing, UNCHANGED <<managerVars, frame, mods>>
  PROVE  HeapInv'
<1> DEFINE r == [NoJob EXCEPT !.path = p, !.is_new = b]
<1>1. r \in Job /\ r.path = p /\ r.old = 0
  <2>1. NoJob \in Job /\ NoJob.old = 0
    BY DEF NoJob, Job, nullptr
  <2> QED BY <2>1 DEF Job
<1>2. job' = [job EXCEPT ![t] = r] /\ Goto(t, "slurp")
  BY DEF BeginLoad
<1> HIDE DEF r
<1>3. job' \in [Threads -> Job] /\ job'[t] = r /\ \A s \in Threads \ {t} : job'[s] = job[s]
  BY <1>1, <1>2, JobChange DEF HeapInv
<1>4. pc'[t] = "slurp" /\ \A s \in Threads \ {t} : pc'[s] = pc[s]
  BY <1>2 DEF Goto, PcInv, PcOK
<1>5. Len(inst) \in Nat
  BY LenProperties DEF HeapInv, ManagerTypeOK
<1>6. \A s \in Threads : JobOK(s)'
  BY <1>1, <1>3, <1>4, <1>5 DEF HeapInv, JobOK, InLoad, InLoadHandler, HasModule, Loading,
     Executing, managerVars
<1>7. \A s \in Threads : FrameOK(s)' /\ ModsOK(s)'
  BY <1>4 DEF HeapInv, FrameOK, ModsOK, Executing, managerVars
<1> QED
  BY <1>3, <1>6, <1>7 DEF HeapInv, ManagerTypeOK, CallsCounted, managerVars

\* A change of a flag of the frame a thread executes.
LEMMA FrameFlagKeeps ==
  ASSUME PcInv, HeapInv, NEW t \in Threads, NEW r \in Frame,
     frame' = [frame EXCEPT ![t] = r],
         r.m = frame[t].m, r.h = frame[t].h, pc[t] \in Executing, pc'[t] \in Executing,
         \A s \in Threads \ {t} : pc'[s] = pc[s], UNCHANGED <<managerVars, job, mods>>
  PROVE  HeapInv'
<1>1. frame' \in [Threads -> Frame] /\ \A s \in Threads \ {t} : frame'[s] = frame[s]
      /\ frame'[t] = r
  BY DEF HeapInv
<1>2. \A s \in Threads : JobOK(s)'
  BY <1>1 DEF HeapInv, JobOK, InLoad, InLoadHandler, HasModule, Loading, Executing,
     managerVars
<1>3. \A s \in Threads : FrameOK(s)' /\ ModsOK(s)'
  BY <1>1 DEF HeapInv, FrameOK, ModsOK, managerVars
<1>4. CallsCounted'
  BY <1>1 DEF HeapInv, CallsCounted, Threads, managerVars
<1> QED
  BY <1>1, <1>2, <1>3, <1>4 DEF HeapInv, ManagerTypeOK, managerVars

LEMMA HeapNext == PcInv /\ DataOK /\ HeapInv /\ [Next]_vars => HeapInv'
<1> SUFFICES ASSUME PcInv, DataOK, HeapInv, [Next]_vars PROVE HeapInv'
  OBVIOUS
<1>1. ASSUME NEW t \in Threads, EitherThread(t) PROVE HeapInv'
  <2>1. CASE Load(t)
    BY <2>1, LoadKeeps
  <2>2. CASE Sweep(t)
    BY <2>2, SweepKeeps
  <2>3. CASE ScriptAsksInput(t)
    <3> DEFINE r == [frame[t] EXCEPT !.asked = TRUE]
    <3>1. r \in Frame /\ r.m = frame[t].m /\ r.h = frame[t].h
      BY DEF HeapInv, Frame
    <3>2. /\ frame' = [frame EXCEPT ![t] = r]
          /\ pc[t] = "exec" /\ pc'[t] = "input" /\ \A s \in Threads \ {t} : pc'[s] = pc[s]
          /\ UNCHANGED <<managerVars, job, mods>>
      BY <2>3 DEF ScriptAsksInput, Transition, At, Goto, PcInv, PcOK
    <3> HIDE DEF r
    <3> QED
      BY <3>1, <3>2, FrameFlagKeeps DEF Executing
  <2>4. CASE ScriptGetsInput(t)
    BY <2>4, MovesKeep DEF ScriptGetsInput, Transition, At, Goto, PcInv, PcOK, Executing,
       localVars
  <2>5. CASE ProcessEnds(t)
    BY <2>5, MovesKeep DEF ProcessEnds, localVars
  <2> QED
    BY <1>1, <2>1, <2>2, <2>3, <2>4, <2>5 DEF EitherThread
<1>2. CASE Main
  <2>1. CASE InitialScan \/ InitialScanned \/ InitialLoaded
    BY <2>1, MovesKeep DEF InitialScan, InitialScanned, InitialLoaded, Transition, At,
       Goto, PcInv,
       PcOK, Executing, Loading, localVars
  <2>2. CASE InitialStat
    BY <2>2, MovesKeep DEF InitialStat, localVars
  <2>3. CASE InitialLoad
    <3>1. PICK p \in todo : BeginLoad("main", p, TRUE)
      BY <2>3 DEF InitialLoad
    <3>2. p \in Paths
      BY DEF DataOK
    <3>3. pc["main"] \notin Executing /\ UNCHANGED <<managerVars, frame, mods>>
      BY <2>3 DEF InitialLoad, At, Executing
    <3> QED
      BY <3>1, <3>2, <3>3, BeginLoadKeeps DEF Threads
  <2>4. CASE UTestFails
    <3> DEFINE r == [frame["main"] EXCEPT !.again = TRUE]
    <3>1. r \in Frame /\ r.m = frame["main"].m /\ r.h = frame["main"].h
      BY DEF HeapInv, Frame, Threads
    <3>2. /\ frame' = [frame EXCEPT !["main"] = r]
          /\ pc["main"] = "exec" /\ UNCHANGED <<managerVars, job, mods, pc>>
      BY <2>4 DEF UTestFails, InHandler, At, SweepUnchanged, managerVars
    <3> HIDE DEF r
    <3> QED
      BY <3>1, <3>2, FrameFlagKeeps DEF Executing, Threads
  <2>5. CASE UTestThrowsAgain
    BY <2>5, MovesKeep DEF UTestThrowsAgain, SweepUnchanged, managerVars
  <2>6. CASE StartWatcher
    BY <2>6, MovesKeep DEF StartWatcher, At, PcInv, PcOK, WatcherAlone, Executing, Loading,
       Threads,
       localVars
  <2>7. CASE GetLine \/ SetStop \/ JoinWatcher \/ Return
    BY <2>7, MovesKeep DEF GetLine, SetStop, JoinWatcher, Return, OnlyMoves, Transition, At,
       Goto, PcInv, PcOK, Executing, Loading, localVars
  <2> QED
    BY <1>1, <1>2, <2>1, <2>2, <2>3, <2>4, <2>5, <2>6, <2>7 DEF Main, Threads
<1>3. CASE Watcher
  <2>1. CASE WatchCheck \/ WatchScan \/ WatchVisited \/ WatchPurged \/ WatchFinalized
    BY <2>1, MovesKeep DEF WatchCheck, WatchScan, WatchVisited, WatchPurged, WatchFinalized,
       OnlyMoves, Transition, At, Goto, PcInv, PcOK, Executing, Loading, localVars
  <2>2. CASE WatchVisit
    <3>1. PICK p \in todo :
            /\ pc["watcher"] = "visit"
            /\ \/ BeginLoad("watcher", p, scripts_map[p] = 0)
               \/ UNCHANGED <<job, pc>>
            /\ UNCHANGED <<managerVars, frame, mods>>
      BY <2>2 DEF WatchVisit, At
    <3>2. p \in Paths /\ pc["watcher"] \notin Executing
      BY <3>1 DEF DataOK, Executing
    <3>3. CASE BeginLoad("watcher", p, scripts_map[p] = 0)
      <4> DEFINE b == scripts_map[p] = 0
      <4>1. b \in BOOLEAN /\ BeginLoad("watcher", p, b)
        BY <3>3
      <4> HIDE DEF b
      <4> QED
        BY <3>1, <3>2, <4>1, BeginLoadKeeps DEF Threads
    <3>4. CASE UNCHANGED <<job, pc>>
      BY <3>1, <3>4, MovesKeep
    <3> QED
      BY <3>1, <3>3, <3>4
  <2>3. CASE WatchPurge
    BY <2>3, MovesKeep DEF WatchPurge, localVars
  <2>4. CASE WatchReclaim
    <3>1. /\ tick_reclaim /\ UNCHANGED <<modules, modules_mtx, super_called>>
          /\ UNCHANGED <<job, frame, mods>>
          /\ pc["watcher"] = "reclaim" /\ pc'["watcher"] = "check"
          /\ pc'["main"] = pc["main"]
      BY <2>4 DEF WatchReclaim, Transition, At, Goto, PcInv, PcOK, localVars, Threads
    <3>2. /\ inst' \in Seq(Module)
          /\ Len(inst') = Len(inst) /\ DOMAIN inst' = DOMAIN inst
          /\ \A k \in DOMAIN inst : inst'[k].active_calls = inst[k].active_calls
      BY <3>1, TickReclaimEffect DEF HeapInv, ManagerTypeOK
    <3>3. ManagerTypeOK'
      BY <3>1, <3>2 DEF HeapInv, ManagerTypeOK, tick_reclaim
    <3>4. \A t \in Threads : JobOK(t)' /\ FrameOK(t)' /\ ModsOK(t)'
      BY <3>1, <3>2 DEF HeapInv, JobOK, InLoad, InLoadHandler, HasModule, FrameOK, ModsOK,
         Loading, Executing, Threads
    <3>5. CallsCounted'
      BY <3>1, <3>2 DEF HeapInv, CallsCounted
    <3> QED
      BY <3>1, <3>3, <3>4, <3>5 DEF HeapInv
  <2> QED
    BY <1>1, <1>3, <2>1, <2>2, <2>3, <2>4 DEF Watcher, Threads
<1>4. CASE Environment
  BY <1>4, MovesKeep DEF Environment, localVars
<1>5. CASE UNCHANGED vars
  BY <1>5, MovesKeep DEF vars, localVars
<1> QED
  BY <1>2, <1>3, <1>4, <1>5 DEF Next, Terminated

\* What all the other invariants rest on.
Base == PcInv /\ DataOK /\ HeapInv

LEMMA BaseInit == Init => Base
  BY PcInit, DataInit, HeapInit DEF Base

LEMMA BaseNext == Base /\ [Next]_vars => Base'
  BY PcNext, DataNext, HeapNext DEF Base

LEMMA BaseAlways == Spec => []Base
  BY BaseInit, BaseNext, PTL DEF Spec

\* Every variable keeps to its type, in particular no count of active calls
\* goes below zero and no pointer outside of what has been allocated.
THEOREM TypeCorrect == Spec => []TypeOK
<1>1. Base => TypeOK
  BY DEF Base, PcInv, PcOK, DataOK, HeapInv, TypeOK
<1> QED
  BY <1>1, BaseAlways, PTL

\* active_calls is exact, so tick_reclaim reads of each module whether a call
\* is running in it, and no count stays up after an exception.
THEOREM CallsAreCounted == Spec => []CallsCounted
<1>1. Base => CallsCounted
  BY DEF Base, HeapInv
<1> QED
  BY <1>1, BaseAlways, PTL
-----------------------------------------------------------------------------
(* The handlers RunController calls: under which lock, how often, in which  *)
(* order they run, and what a Finalize can ask for.  First which steps there*)
(* are to look at.                                                          *)

LEMMA BeginFrame ==
  ASSUME HeapInv, NEW t \in Threads, NEW m, NEW h, BeginHandler(t, m, h)
  PROVE  /\ frame'[t].m = m /\ frame'[t].h = h
         /\ \A s \in Threads \ {t} : frame'[s] = frame[s]
  BY DEF BeginHandler, HeapInv, NoFrame

LEMMA EndFrame ==
  ASSUME HeapInv, NEW t \in Threads, frame' = [frame EXCEPT ![t] = NoFrame]
  PROVE  /\ frame'[t].m = nullptr /\ frame'[t].h = "none"
         /\ \A s \in Threads \ {t} : frame'[s] = frame[s]
  BY DEF HeapInv, NoFrame

\* The steps at which a handler begins, goes on, or ends.
HandlerStep(t) ==
  \/ CallMdInit(t) \/ CallMdSuperInit(t) \/ CallMdReload(t)
  \/ LoadHandlerReturns(t) \/ LoadHandlerThrows(t)
  \/ SweepModule(t) \/ FinalizeAsksStop(t) \/ SweepCallEnds(t)
  \/ ScriptAsksInput(t) \/ ScriptGetsInput(t) \/ (t = "main" /\ UTestFails)

LEMMA HandlerSteps ==
  ASSUME [Next]_vars
  PROVE  \/ \E t \in Threads : HandlerStep(t)
         \/ UNCHANGED <<frame, modules_mtx, super_called, superRuns, stopAsked>>
<1> DEFINE Same == UNCHANGED <<frame, modules_mtx, super_called, superRuns, stopAsked>>
<1> USE DEF HandlerStep, managerVars, localVars, historyVars, Threads
<1>1. ASSUME NEW t \in Threads, EitherThread(t) PROVE HandlerStep(t) \/ Same
  BY <1>1 DEF EitherThread, Load, Sweep, Slurp, UnitFails, InstallUnit, QueueOld,
     LoadUnchanged,
     CollectModules, ScriptGetsInput, ProcessEnds
<1>2. CASE Main
  BY <1>1, <1>2 DEF Main, InitialScan, InitialStat, InitialScanned, InitialLoad,
     InitialLoaded, UTestThrowsAgain, SweepUnchanged, StartWatcher, GetLine, SetStop,
     JoinWatcher, Return, OnlyMoves
<1>3. CASE Watcher
  BY <1>1, <1>3 DEF Watcher, WatchCheck, WatchScan, WatchVisit, WatchVisited, WatchPurge,
     WatchPurged, WatchFinalized, WatchReclaim, OnlyMoves
<1> QED
  BY <1>2, <1>3 DEF Next, Environment, Terminated, vars

\* The steps that change the heap.
LEMMA HeapSteps ==
  ASSUME [Next]_vars
  PROVE  \/ \E t \in Threads : HandlerStep(t) \/ InstallUnit(t)
         \/ WatchReclaim
         \/ UNCHANGED inst
<1> USE DEF HandlerStep, managerVars, Threads
<1>1. ASSUME NEW t \in Threads, EitherThread(t)
      PROVE  HandlerStep(t) \/ InstallUnit(t) \/ UNCHANGED inst
  BY <1>1 DEF EitherThread, Load, Sweep, Slurp, UnitFails, QueueOld, LoadUnchanged,
     CollectModules, ScriptGetsInput, ProcessEnds
<1>2. CASE Main
  BY <1>1, <1>2 DEF Main, InitialScan, InitialStat, InitialScanned, InitialLoad,
     InitialLoaded, UTestThrowsAgain, SweepUnchanged, StartWatcher, GetLine, SetStop,
     JoinWatcher, Return, OnlyMoves
<1>3. CASE Watcher
  BY <1>1, <1>3 DEF Watcher, WatchCheck, WatchScan, WatchVisit, WatchVisited, WatchPurge,
     WatchPurged, WatchFinalized, OnlyMoves
<1> QED
  BY <1>2, <1>3 DEF Next, Environment, Terminated, vars

\* Nothing is taken off the heap, a deleted module stays deleted, one that has
\* been initialised stays so, and only tick_reclaim deletes.
LEMMA HeapGrows ==
  ASSUME PcInv, HeapInv, [Next]_vars
  PROVE  /\ DOMAIN inst \subseteq DOMAIN inst'
         /\ \A k \in DOMAIN inst :
              /\ SameSource(k)
              /\ inst[k].mdinit_called => inst'[k].mdinit_called
              /\ inst'[k].freed = inst[k].freed \/ WatchReclaim
<1> DEFINE G == /\ DOMAIN inst \subseteq DOMAIN inst'
                /\ \A k \in DOMAIN inst :
                     /\ SameSource(k)
                     /\ inst[k].mdinit_called => inst'[k].mdinit_called
                     /\ inst'[k].freed = inst[k].freed \/ WatchReclaim
<1>0. inst \in Seq(Module)
  BY DEF HeapInv, ManagerTypeOK
<1>1. CASE UNCHANGED inst
  BY <1>1 DEF SameSource
<1>2. ASSUME NEW m \in DOMAIN inst, EnterCall(m) PROVE G
  BY <1>0, <1>2, EnterCallEffect
<1>3. ASSUME NEW m \in DOMAIN inst, NEW b \in BOOLEAN, inst[m].active_calls > 0,
             LeaveCall(m, b)
      PROVE  G
  BY <1>0, <1>3, LeaveCallEffect
<1>4. ASSUME NEW t \in Threads, pc[t] \in Executing
      PROVE  frame[t].m \in DOMAIN inst /\ inst[frame[t].m].active_calls > 0
  <2>1. frame[t].m \in DOMAIN inst
    BY <1>4 DEF HeapInv, FrameOK
  <2> QED
    BY <2>1 DEF HeapInv, CallsCounted, Threads
<1>5. ASSUME NEW t \in Threads, InstallUnit(t) PROVE G
  <2>1. PICK r : inst' = Append(inst, r)
    BY <1>5 DEF InstallUnit, HotSwapInstall
  <2>2. DOMAIN inst \subseteq DOMAIN inst' /\ \A k \in DOMAIN inst : inst'[k] = inst[k]
    BY <1>0, <2>1, AppendProperties, LenProperties
  <2> QED
    BY <2>2 DEF SameSource
<1>6. CASE WatchReclaim
  BY <1>0, <1>6, TickReclaimEffect DEF WatchReclaim
<1>7. ASSUME NEW t \in Threads, HandlerStep(t) PROVE G
  <2>1. CASE CallMdInit(t) \/ CallMdSuperInit(t) \/ CallMdReload(t)
    <3>1. inst' = inst \/ EnterCall(job[t].m)
      BY <2>1 DEF CallMdInit, CallMdSuperInit, CallMdReload, BeginHandler
    <3>2. job[t].m \in DOMAIN inst
      BY <2>1 DEF HeapInv, JobOK, HasModule, CallMdInit, CallMdSuperInit, CallMdReload, At
    <3> QED
      BY <1>1, <1>2, <3>1, <3>2
  <2>2. CASE LoadHandlerReturns(t)
    <3> DEFINE b == frame[t].h = "MdInit"
    <3>1. LeaveCall(frame[t].m, b) /\ pc[t] \in Executing /\ b \in BOOLEAN
      BY <2>2 DEF LoadHandlerReturns, InHandler, At, Executing
    <3> HIDE DEF b
    <3> QED
      BY <1>3, <1>4, <3>1
  <2>3. CASE LoadHandlerThrows(t) \/ FinalizeAsksStop(t) \/ SweepCallEnds(t)
    <3>1. LeaveCall(frame[t].m, FALSE) /\ pc[t] \in Executing
      BY <2>3 DEF LoadHandlerThrows, FinalizeAsksStop, SweepCallEnds, EndHandler,
         InHandler, At,
         Executing
    <3> QED
      BY <1>3, <1>4, <3>1
  <2>4. CASE SweepModule(t)
    <3>1. PICK m \in mods[t] : inst' = inst \/ EnterCall(m)
      BY <2>4 DEF SweepModule, BeginHandler
    <3>2. m \in DOMAIN inst
      BY DEF HeapInv, ModsOK
    <3> QED
      BY <1>1, <1>2, <3>1, <3>2
  <2>5. CASE ScriptAsksInput(t) \/ ScriptGetsInput(t) \/ (t = "main" /\ UTestFails)
    BY <1>1, <2>5 DEF ScriptAsksInput, ScriptGetsInput, UTestFails, managerVars
  <2> QED
    BY <1>7, <2>1, <2>2, <2>3, <2>4, <2>5 DEF HandlerStep
<1> QED
  BY <1>1, <1>5, <1>6, <1>7, HeapSteps

\* What thread t sees of a step: a step of a load or of a handler of its own,
\* the start of a load, or nothing that changes what it holds.
StartsLoad(t) ==
  /\ \E p \in Paths, b \in BOOLEAN : BeginLoad(t, p, b)
  /\ pc[t] \notin Loading \cup Executing \cup {"sweep"}
  /\ UNCHANGED <<managerVars, frame, mods>>

KeepsStill(t) ==
  /\ job'[t] = job[t] /\ frame'[t] = frame[t] /\ mods'[t] = mods[t]
  /\ pc'[t] # pc[t] =>
       /\ {pc[t], pc'[t]} \cap (Loading \cup Executing) = {}
       /\ pc[t] = "sweep" => mods[t] = {}

LEMMA OtherKeepsStill ==
  ASSUME PcInv, HeapInv, NEW s \in Threads, NEW t \in Threads \ {s},
         EitherThread(s) \/ StartsLoad(s)
  PROVE  KeepsStill(t)
<1> USE DEF PcInv, PcOK, HeapInv, KeepsStill, At, Goto, Transition, localVars
<1>1. CASE StartsLoad(s)
  BY <1>1 DEF StartsLoad, BeginLoad
<1>2. CASE Slurp(s) \/ UnitFails(s) \/ InstallUnit(s) \/ QueueOld(s)
  BY <1>2 DEF Slurp, UnitFails, InstallUnit, QueueOld, LeaveLoad, LoadUnchanged
<1>3. CASE CallMdInit(s) \/ CallMdSuperInit(s) \/ CallMdReload(s)
  BY <1>3 DEF CallMdInit, CallMdSuperInit, CallMdReload, BeginHandler, NextUnit, LeaveLoad,
     LoadUnchanged
<1>4. CASE LoadHandlerReturns(s) \/ LoadHandlerThrows(s)
  BY <1>4 DEF LoadHandlerReturns, LoadHandlerThrows, EndHandler, NextUnit, LeaveLoad,
     LoadUnchanged
<1>5. CASE Sweep(s)
  BY <1>5 DEF Sweep, CollectModules, SweepModule, FinalizeAsksStop, SweepCallEnds,
     EndHandler,
     BeginHandler, SweepUnchanged
<1>6. CASE ScriptAsksInput(s) \/ ScriptGetsInput(s) \/ ProcessEnds(s)
  BY <1>6 DEF ScriptAsksInput, ScriptGetsInput, ProcessEnds
<1> QED
  BY <1>1, <1>2, <1>3, <1>4, <1>5, <1>6 DEF EitherThread, Load

LEMMA ThreadSteps ==
  ASSUME PcInv, DataOK, HeapInv, [Next]_vars, NEW t \in Threads
  PROVE  Load(t) \/ HandlerStep(t) \/ CollectModules(t) \/ StartsLoad(t) \/ KeepsStill(t)
<1> DEFINE Seen(s) ==
      Load(s) \/ HandlerStep(s) \/ CollectModules(s) \/ StartsLoad(s) \/ KeepsStill(s)
<1>1. ASSUME NEW s \in Threads, EitherThread(s) \/ StartsLoad(s) PROVE Seen(t)
  <2>1. CASE s = t
    BY <1>1, <2>1 DEF EitherThread, Sweep, HandlerStep, ProcessEnds, KeepsStill,
       localVars
  <2>2. CASE s # t
    BY <1>1, <2>2, OtherKeepsStill
  <2> QED
    BY <2>1, <2>2
<1> USE DEF PcInv, PcOK, HeapInv, KeepsStill, At, Goto, Transition, OnlyMoves, Loading,
   Executing,
            Threads, localVars
<1>2. CASE Main
  <2>1. CASE InitialScan \/ InitialStat \/ InitialScanned \/ InitialLoaded
    BY <2>1 DEF InitialScan, InitialStat, InitialScanned, InitialLoaded
  <2>2. CASE InitialLoad
    <3>1. StartsLoad("main")
      BY <2>2 DEF InitialLoad, StartsLoad, DataOK
    <3> QED
      BY <1>1, <3>1
  <2>3. CASE UTestFails
    BY <2>3 DEF UTestFails, HandlerStep, SweepUnchanged
  <2>4. CASE UTestThrowsAgain
    BY <2>4 DEF UTestThrowsAgain, SweepUnchanged
  <2>5. CASE StartWatcher
    BY <2>5 DEF StartWatcher, WatcherAlone
  <2>6. CASE GetLine \/ SetStop \/ JoinWatcher \/ Return
    BY <2>6 DEF GetLine, SetStop, JoinWatcher, Return
  <2> QED
    BY <1>1, <1>2, <2>1, <2>2, <2>3, <2>4, <2>5, <2>6 DEF Main
<1>3. CASE Watcher
  <2>1. CASE WatchVisit
    <3>1. StartsLoad("watcher") \/ UNCHANGED <<pc, job, frame, mods>>
      <4>1. PICK p \in todo :
             /\ pc["watcher"] = "visit" 
             /\ UNCHANGED <<managerVars, frame, mods>>
             /\ \/ BeginLoad("watcher", p, scripts_map[p] = 0)
                \/ UNCHANGED <<job, pc>>
        BY <2>1 DEF WatchVisit
      <4>2. p \in Paths /\ (scripts_map[p] = 0) \in BOOLEAN
        BY DEF DataOK
      <4> QED
        BY <4>1, <4>2 DEF StartsLoad
    <3> QED
      BY <1>1, <3>1
  <2>2. CASE WatchCheck \/ WatchScan \/ WatchVisited \/ WatchPurge \/ WatchPurged
    BY <2>2 DEF WatchCheck, WatchScan, WatchVisited, WatchPurge, WatchPurged
  <2>3. CASE WatchFinalized \/ WatchReclaim
    BY <2>3 DEF WatchFinalized, WatchReclaim
  <2> QED
    BY <1>1, <1>3, <2>1, <2>2, <2>3 DEF Watcher
<1> QED
  BY <1>2, <1>3 DEF Next, Environment, Terminated, vars

-----------------------------------------------------------------------------
(* MdInit, MdSuperInit and MdReload                                         *)

LEMMA MutexNext ==
  ASSUME Base, MutexHeldByMdInit, [Next]_vars
  PROVE  MutexHeldByMdInit'
<1> USE DEF Base
<1>1. CASE UNCHANGED <<frame, modules_mtx>>
  BY <1>1 DEF MutexHeldByMdInit
<1>2. ASSUME NEW t \in Threads, HandlerStep(t) PROVE MutexHeldByMdInit'
  <2>1. ASSUME NEW m, NEW h, BeginHandler(t, m, h), pc[t] \notin Executing,
               IF h = "MdInit" THEN modules_mtx = NoThread /\ modules_mtx' = t
                               ELSE UNCHANGED modules_mtx
        PROVE  MutexHeldByMdInit'
    <3>1. frame[t].h # "MdInit"
      BY <2>1 DEF HeapInv, FrameOK, NoFrame
    <3> QED
      BY <2>1, <3>1, BeginFrame, ControllerAssumption DEF MutexHeldByMdInit
  <2>2. ASSUME frame' = [frame EXCEPT ![t] = NoFrame], UnlockAfter(frame[t].h)
        PROVE  MutexHeldByMdInit'
    <3>1. frame'[t].h = "none" /\ \A s \in Threads \ {t} : frame'[s] = frame[s]
      BY <2>2, EndFrame
    <3>2. CASE frame[t].h = "MdInit"
      <4>1. modules_mtx = t /\ modules_mtx' = NoThread
        BY <2>2, <3>2 DEF MutexHeldByMdInit, UnlockAfter
      <4> QED
        BY <3>1, <4>1, ControllerAssumption DEF MutexHeldByMdInit
    <3>3. CASE frame[t].h # "MdInit"
      <4>1. modules_mtx # t /\ UNCHANGED modules_mtx
        BY <2>2, <3>3 DEF MutexHeldByMdInit, UnlockAfter
      <4> QED
        BY <3>1, <4>1 DEF MutexHeldByMdInit
    <3> QED
      BY <3>2, <3>3
  <2>3. CASE CallMdInit(t)
    <3>1. pc[t] \notin Executing
      BY <2>3 DEF CallMdInit, At, Executing
    <3> QED
      BY <1>1, <2>1, <2>3, <3>1 DEF CallMdInit
  <2>4. CASE CallMdSuperInit(t) \/ CallMdReload(t)
    <3>1. pc[t] \notin Executing /\ UNCHANGED modules_mtx
      BY <2>4 DEF CallMdSuperInit, CallMdReload, At, Executing
    <3>2. \/ UNCHANGED frame
          \/ \E h \in {"MdSuperInit", "MdReload"} : BeginHandler(t, job[t].m, h)
      BY <2>4 DEF CallMdSuperInit, CallMdReload
    <3> QED
      BY <1>1, <2>1, <3>1, <3>2
  <2>5. CASE LoadHandlerReturns(t) \/ LoadHandlerThrows(t)
    BY <2>2, <2>5 DEF LoadHandlerReturns, LoadHandlerThrows, EndHandler
  <2>6. CASE SweepModule(t)
    <3>1. pc[t] \notin Executing /\ UNCHANGED modules_mtx
      BY <2>6 DEF SweepModule, At, Executing, SweepUnchanged
    <3>2. UNCHANGED frame \/ \E m : BeginHandler(t, m, SweepHandler(t))
      BY <2>6 DEF SweepModule
    <3>3. SweepHandler(t) # "MdInit"
      BY DEF SweepHandler
    <3> QED
      BY <1>1, <2>1, <3>1, <3>2, <3>3
  <2>7. CASE FinalizeAsksStop(t) \/ SweepCallEnds(t)
    <3>1. frame[t].h # "MdInit" /\ UNCHANGED modules_mtx
      BY <2>7 DEF FinalizeAsksStop, SweepCallEnds, InHandler, SweepUnchanged
    <3> QED
      BY <2>2, <2>7, <3>1 DEF FinalizeAsksStop, SweepCallEnds, EndHandler, UnlockAfter
  <2>8. CASE ScriptAsksInput(t) \/ (t = "main" /\ UTestFails)
    <3>1. /\ \/ frame' = [frame EXCEPT ![t].asked = TRUE]
             \/ frame' = [frame EXCEPT ![t].again = TRUE]
          /\ UNCHANGED modules_mtx
      BY <2>8 DEF ScriptAsksInput, UTestFails, SweepUnchanged, managerVars
    <3>2. \A s \in Threads : frame'[s].h = frame[s].h
      BY <3>1 DEF HeapInv, Frame
    <3> QED
      BY <3>1, <3>2 DEF MutexHeldByMdInit
  <2>9. CASE ScriptGetsInput(t)
    BY <1>1, <2>9 DEF ScriptGetsInput, managerVars, localVars
  <2> QED
    BY <1>2, <2>3, <2>4, <2>5, <2>6, <2>7, <2>8, <2>9 DEF HandlerStep
<1> QED
  BY <1>1, <1>2, HandlerSteps

SuperInv == superRuns = IF super_called THEN 1 ELSE 0

LEMMA SuperNext ==
  ASSUME DataOK, SuperInv, [Next]_vars
  PROVE  SuperInv'
<1>1. CASE UNCHANGED <<super_called, superRuns>>
  BY <1>1 DEF SuperInv
<1>2. ASSUME NEW t \in Threads, HandlerStep(t) PROVE SuperInv'
  <2>1. CASE CallMdSuperInit(t)
    BY <2>1 DEF CallMdSuperInit, SuperInv
  <2>2. CASE CallMdInit(t) \/ CallMdReload(t) \/ LoadHandlerReturns(t) \/ LoadHandlerThrows(t)
    BY <1>1, <2>2 DEF CallMdInit, CallMdReload, LoadHandlerReturns, LoadHandlerThrows
  <2>3. CASE SweepModule(t) \/ FinalizeAsksStop(t) \/ SweepCallEnds(t)
    BY <1>1, <2>3 DEF SweepModule, FinalizeAsksStop, SweepCallEnds, SweepUnchanged
  <2>4. CASE ScriptAsksInput(t) \/ ScriptGetsInput(t) \/ (t = "main" /\ UTestFails)
    BY <1>1, <2>4 DEF ScriptAsksInput, ScriptGetsInput, UTestFails, SweepUnchanged,
       managerVars,
       historyVars
  <2> QED
    BY <1>2, <2>1, <2>2, <2>3, <2>4 DEF HandlerStep
<1> QED
  BY <1>1, <1>2, HandlerSteps

\* A thread that is past the MdInit of the module it loads has run it, and the
\* handler of a load runs in that module.
PastMdInit(t) ==
  \/ pc[t] \in {"super", "reload"}
  \/ pc[t] \in Executing /\ frame[t].h \in {"MdSuperInit", "MdReload"}

InitInv ==
  \A t \in Threads :
    /\ InLoadHandler(t) => frame[t].m = job[t].m
    /\ PastMdInit(t) => ~Has(job[t].m, "MdInit") \/ inst[job[t].m].mdinit_called

LEMMA InitNext ==
  ASSUME Base, InitInv, [Next]_vars
  PROVE  InitInv'
<1> USE DEF Base
<1> DEFINE Ready(m) == ~Has(m, "MdInit") \/ inst[m].mdinit_called
           Inv(t) == /\ InLoadHandler(t) => frame[t].m = job[t].m
                     /\ PastMdInit(t) => Ready(job[t].m)
<1> SUFFICES ASSUME NEW t \in Threads PROVE Inv(t)'
  BY DEF InitInv
<1>1. Inv(t)
  BY DEF InitInv
<1>2. ASSUME NEW m \in DOMAIN inst, Ready(m) PROVE Ready(m)'
  BY <1>2, HeapGrows DEF Has, SameSource
<1>3. HasModule(t) => job[t].m \in DOMAIN inst
  BY DEF HeapInv, JobOK
<1>4. PastMdInit(t) => HasModule(t)
  BY DEF PastMdInit, HasModule, InLoadHandler, LoadHandlers
<1> HIDE DEF Ready
<1>5. CASE KeepsStill(t)
  <2>1. PastMdInit(t)' => PastMdInit(t)
    BY <1>5 DEF KeepsStill, PastMdInit, Executing, Loading
  <2>2. InLoadHandler(t)' => InLoadHandler(t)
    BY <1>5 DEF KeepsStill, InLoadHandler
  <2> QED
    BY <1>1, <1>2, <1>3, <1>4, <1>5, <2>1, <2>2 DEF KeepsStill
<1>6. ASSUME pc'[t] \notin {"super", "reload"} \cup Executing PROVE Inv(t)'
  BY <1>6 DEF PastMdInit, InLoadHandler
<1>7. ASSUME NEW m, NEW h, BeginHandler(t, m, h), h \notin LoadHandlers PROVE Inv(t)'
  <2>1. frame'[t].h = h /\ pc'[t] = "exec"
    BY <1>7, BeginFrame DEF BeginHandler, Goto, PcInv, PcOK
  <2> QED
    BY <1>7, <2>1 DEF PastMdInit, InLoadHandler, LoadHandlers, Executing
<1>8. ASSUME NEW h, BeginHandler(t, job[t].m, h), UNCHANGED job,
             h # "MdInit" => PastMdInit(t)
      PROVE  Inv(t)'
  <2>1. frame'[t].h = h /\ frame'[t].m = job'[t].m /\ pc'[t] = "exec"
    BY <1>8, BeginFrame DEF BeginHandler, Goto, PcInv, PcOK
  <2>2. h = "MdInit" => ~PastMdInit(t)'
    BY <2>1 DEF PastMdInit
  <2> QED
    BY <1>1, <1>2, <1>3, <1>4, <1>8, <2>1, <2>2 DEF InLoadHandler
<1>9. CASE Load(t)
  <2> USE DEF At, Goto, Transition, PcInv, PcOK, Executing
  <2>1. CASE Slurp(t) \/ UnitFails(t) \/ InstallUnit(t) \/ QueueOld(t) \/ LoadHandlerThrows(t)
    BY <1>6, <2>1 DEF Slurp, UnitFails, InstallUnit, QueueOld, LoadHandlerThrows, LeaveLoad
  <2>2. CASE CallMdInit(t)
    <3>1. CASE BeginHandler(t, job[t].m, "MdInit")
      BY <1>8, <2>2, <3>1 DEF CallMdInit
    <3>2. CASE UNCHANGED inst /\ Goto(t, "super") /\ Ready(job[t].m)
      <4>1. pc'[t] = "super" /\ UNCHANGED <<inst, job>>
        BY <2>2, <3>2 DEF CallMdInit
      <4>2. ~InLoadHandler(t)'
        BY <4>1 DEF InLoadHandler
      <4> QED
        BY <3>2, <4>1, <4>2 DEF Ready, Has
    <3> QED
      BY <2>2, <3>1, <3>2 DEF CallMdInit, Ready
  <2>3. CASE CallMdSuperInit(t)
    <3>1. PastMdInit(t) /\ UNCHANGED job
      BY <2>3 DEF CallMdSuperInit, PastMdInit
    <3>2. CASE BeginHandler(t, job[t].m, "MdSuperInit")
      BY <1>8, <3>1, <3>2
    <3>3. CASE UNCHANGED inst /\ Goto(t, "reload")
      <4>1. pc'[t] = "reload"
        BY <3>3
      <4>2. ~InLoadHandler(t)'
        BY <4>1 DEF InLoadHandler
      <4> QED
        BY <1>1, <3>1, <3>3, <4>1, <4>2 DEF Ready, Has
    <3> QED
      BY <2>3, <3>2, <3>3 DEF CallMdSuperInit
  <2>4. CASE CallMdReload(t)
    <3>1. CASE BeginHandler(t, job[t].m, "MdReload") /\ UNCHANGED job
      BY <1>8, <2>4, <3>1 DEF CallMdReload, PastMdInit
    <3>2. CASE NextUnit(t)
      BY <1>6, <3>2 DEF NextUnit, LeaveLoad
    <3> QED
      BY <2>4, <3>1, <3>2 DEF CallMdReload
  <2>5. CASE LoadHandlerReturns(t)
    <3>1. CASE NextUnit(t)
      BY <1>6, <3>1 DEF NextUnit, LeaveLoad
    <3>2. CASE /\ frame[t].h # "MdReload" /\ UNCHANGED job
               /\ Goto(t, IF frame[t].h = "MdInit" THEN "super" ELSE "reload")
      <4>1. pc[t] = "exec" /\ frame[t].h \in LoadHandlers /\ pc'[t] \in {"super", "reload"}
            /\ LeaveCall(frame[t].m, frame[t].h = "MdInit")
        BY <2>5, <3>2 DEF LoadHandlerReturns, InHandler, LoadHandlers
      <4>2. InLoadHandler(t) /\ HasModule(t) /\ ~InLoadHandler(t)'
        BY <4>1 DEF InLoadHandler, HasModule
      <4>3. frame[t].m = job[t].m /\ job[t].m \in DOMAIN inst
        BY <1>1, <1>3, <4>2
      <4>4. CASE frame[t].h = "MdInit"
        <5>1. inst[job[t].m].active_calls > 0 /\ inst \in Seq(Module)
          BY <4>3 DEF HeapInv, CallsCounted, ManagerTypeOK, Threads
        <5>2. LeaveCall(job[t].m, TRUE)
          BY <4>1, <4>3, <4>4
        <5>3. inst'[job[t].m].mdinit_called
          BY <4>3, <5>1, <5>2, LeaveCallEffect
        <5> QED
          BY <3>2, <4>2, <5>3 DEF Ready
      <4>5. CASE frame[t].h # "MdInit"
        BY <1>1, <1>2, <3>2, <4>1, <4>2, <4>3, <4>5 DEF PastMdInit, LoadHandlers
      <4> QED
        BY <4>4, <4>5
    <3> QED
      BY <2>5, <3>1, <3>2 DEF LoadHandlerReturns
  <2> QED
    BY <1>9, <2>1, <2>2, <2>3, <2>4, <2>5 DEF Load
<1>10. CASE SweepModule(t)
  <2>1. \/ \E m : BeginHandler(t, m, SweepHandler(t))
        \/ pc[t] = "sweep" /\ UNCHANGED pc
    BY <1>10 DEF SweepModule, At
  <2>2. SweepHandler(t) \notin LoadHandlers
    BY DEF SweepHandler, LoadHandlers
  <2> QED
    BY <1>6, <1>7, <2>1, <2>2 DEF Executing
<1>11. CASE FinalizeAsksStop(t) \/ SweepCallEnds(t) \/ CollectModules(t) \/ StartsLoad(t)
  BY <1>6, <1>11 DEF FinalizeAsksStop, SweepCallEnds, CollectModules, StartsLoad,
     BeginLoad, Goto,
     Transition, PcInv, PcOK, Executing
<1>12. CASE ScriptAsksInput(t) \/ ScriptGetsInput(t) \/ (t = "main" /\ UTestFails)
  <2>1. UNCHANGED <<inst, job>> /\ pc[t] \in Executing /\ pc'[t] \in Executing
    BY <1>12 DEF ScriptAsksInput, ScriptGetsInput, UTestFails, SweepUnchanged, managerVars,
       localVars, InHandler, Transition, At, Goto, PcInv, PcOK, Executing
  <2>2. \/ frame' = [frame EXCEPT ![t].asked = TRUE]
        \/ frame' = [frame EXCEPT ![t].again = TRUE]
        \/ UNCHANGED frame
    BY <1>12 DEF ScriptAsksInput, ScriptGetsInput, UTestFails, localVars
  <2>3. frame'[t].h = frame[t].h /\ frame'[t].m = frame[t].m
    BY <2>2 DEF HeapInv, Frame
  <2>4. PastMdInit(t)' = PastMdInit(t) /\ InLoadHandler(t)' = InLoadHandler(t)
    BY <2>1, <2>3 DEF PastMdInit, InLoadHandler, Executing
  <2> QED
    BY <1>1, <2>1, <2>3, <2>4 DEF Ready, Has
<1> QED
  BY <1>5, <1>9, <1>10, <1>11, <1>12, ThreadSteps DEF HandlerStep, Load

HandlerInv == Base /\ MutexHeldByMdInit /\ SuperInv /\ InitInv

LEMMA HandlerInit == Init => HandlerInv
<1> SUFFICES ASSUME Init PROVE HandlerInv
  OBVIOUS
<1>1. \A t \in Threads : pc[t] \in {"init", "idle"} /\ frame[t].h = "none"
  BY DEF Init, NoFrame
<1>2. MutexHeldByMdInit
  BY <1>1, ControllerAssumption DEF MutexHeldByMdInit, Init, ManagerInit
<1>3. SuperInv
  BY DEF SuperInv, Init, ManagerInit
<1>4. InitInv
  BY <1>1 DEF InitInv, InLoadHandler, PastMdInit, Executing
<1> QED
  BY <1>2, <1>3, <1>4, BaseInit DEF HandlerInv

LEMMA HandlerAlways == Spec => []HandlerInv
<1>1. HandlerInv /\ [Next]_vars => HandlerInv'
  <2> SUFFICES ASSUME HandlerInv, [Next]_vars PROVE HandlerInv'
    OBVIOUS
  <2>1. Base' /\ MutexHeldByMdInit'
    BY BaseNext, MutexNext DEF HandlerInv
  <2>2. SuperInv'
    BY SuperNext DEF HandlerInv, Base
  <2>3. InitInv'
    BY InitNext DEF HandlerInv
  <2> QED
    BY <2>1, <2>2, <2>3 DEF HandlerInv
<1> QED
  BY <1>1, HandlerInit, PTL DEF Spec

\* The registry is locked exactly while an MdInit runs, and an MdInit that
\* throws unlocks it.
THEOREM MutexReleased == Spec => []MutexHeldByMdInit
<1>1. HandlerInv => MutexHeldByMdInit
  BY DEF HandlerInv
<1> QED
  BY <1>1, HandlerAlways, PTL

\* super_called keeps MdSuperInit from being begun a second time by any script.
THEOREM SuperOnce == Spec => []SuperInitOnce
<1>1. HandlerInv => SuperInitOnce
  BY DEF HandlerInv, SuperInv, SuperInitOnce
<1> QED
  BY <1>1, HandlerAlways, PTL

\* MdSuperInit and MdReload find their module's MdInit done.
THEOREM MdInitFirst == Spec => []InitialisedFirst
<1>1. HandlerInv => InitialisedFirst
  <2> SUFFICES ASSUME HandlerInv, NEW t \in Threads, frame[t].h \in {"MdReload", "MdSuperInit"},
                      Has(frame[t].m, "MdInit")
               PROVE  inst[frame[t].m].mdinit_called
    BY DEF InitialisedFirst
  <2>1. pc[t] \in Executing
    BY DEF HandlerInv, Base, HeapInv, FrameOK, NoFrame
  <2>2. InLoadHandler(t) /\ PastMdInit(t)
    BY <2>1 DEF InLoadHandler, LoadHandlers, PastMdInit
  <2> QED
    BY <2>2 DEF HandlerInv, InitInv
<1> QED
  BY <1>1, HandlerAlways, PTL

-----------------------------------------------------------------------------
(* Stopping the watcher                                                     *)

\* Main does not load anything once the watcher has been started.
PhaseInv ==
  pc["watcher"] # "idle" =>
    /\ pc["main"] \in {"getline", "stop", "join", "collect", "sweep", "done"} \cup Executing
    /\ ~InLoadHandler("main")

\* Once a Finalize has asked to stop, the watcher is in the sweep that called
\* it, which remembers the request, or has ended.
StopInv ==
  stopAsked =>
    /\ pc["watcher"] \in Executing \cup {"sweep", "ended"}
    /\ pc["watcher"] \in Executing => frame["watcher"].h = "Finalize"
    /\ pc["watcher"] # "ended" => any_stop["watcher"]

LEMMA MainSteps ==
  ASSUME Base, PhaseInv, EitherThread("main")
  PROVE  PhaseInv' /\ (StopInv => StopInv')
<1> USE DEF Base, PcInv, PcOK, Threads, At, Goto, Transition, Loading, Executing
<1>1. pc'["watcher"] = pc["watcher"]
  <2>1. CASE Load("main")
    BY <2>1 DEF Load, Slurp, UnitFails, InstallUnit, QueueOld, CallMdInit, CallMdSuperInit,
       CallMdReload, LoadHandlerReturns, LoadHandlerThrows, NextUnit, LeaveLoad,
          BeginHandler
  <2>2. CASE Sweep("main")
    BY <2>2 DEF Sweep, CollectModules, SweepModule, FinalizeAsksStop, SweepCallEnds,
       BeginHandler
  <2> QED
    BY <2>1, <2>2 DEF EitherThread, ScriptAsksInput, ScriptGetsInput, ProcessEnds
<1>2. KeepsStill("watcher")
  BY OtherKeepsStill
<1>3. UNCHANGED <<any_stop["watcher"], stopAsked>>
  <2>1. CASE Load("main")
    BY <2>1 DEF Load, Slurp, UnitFails, InstallUnit, QueueOld, CallMdInit, CallMdSuperInit,
       CallMdReload, LoadHandlerReturns, LoadHandlerThrows, LoadUnchanged
  <2>2. CASE Sweep("main")
    BY <2>2 DEF Sweep, CollectModules, SweepModule, FinalizeAsksStop, SweepCallEnds, DataOK,
       historyVars
  <2> QED
    BY <2>1, <2>2 DEF EitherThread, ScriptAsksInput, ScriptGetsInput, ProcessEnds,
       localVars,
       historyVars
<1>4. StopInv => StopInv'
  BY <1>1, <1>2, <1>3 DEF StopInv, KeepsStill
<1>5. PhaseInv'
  <2> SUFFICES ASSUME pc["watcher"] # "idle"
               PROVE  /\ pc'["main"] \in {"getline", "stop", "join", "collect", "sweep", "done"}
                                           \cup Executing
                      /\ ~InLoadHandler("main")'
    BY <1>1 DEF PhaseInv
  <2>1. /\ pc["main"] \in {"getline", "stop", "join", "collect", "sweep", "done"} \cup Executing
        /\ ~InLoadHandler("main")
    BY DEF PhaseInv
  <2>2. ~Load("main")
    BY <2>1 DEF Load, Slurp, UnitFails, InstallUnit, QueueOld, CallMdInit, CallMdSuperInit,
       CallMdReload, LoadHandlerReturns, LoadHandlerThrows, InHandler, InLoadHandler,
          LoadHandlers
  <2>3. CASE CollectModules("main") \/ FinalizeAsksStop("main") \/ SweepCallEnds("main")
    BY <2>3 DEF CollectModules, FinalizeAsksStop, SweepCallEnds, InLoadHandler
  <2>4. CASE SweepModule("main")
    <3>1. \/ \E m : BeginHandler("main", m, SweepHandler("main"))
          \/ pc["main"] = "sweep" /\ UNCHANGED pc
      BY <2>4 DEF SweepModule
    <3>2. SweepHandler("main") \notin LoadHandlers
      BY DEF SweepHandler, LoadHandlers
    <3>3. CASE \E m : BeginHandler("main", m, SweepHandler("main"))
      <4>1. pc'["main"] = "exec" /\ frame'["main"].h = SweepHandler("main")
        BY <3>3, BeginFrame DEF BeginHandler
      <4> QED
        BY <3>2, <4>1 DEF InLoadHandler
    <3> QED
      BY <3>1, <3>3 DEF InLoadHandler
  <2>5. CASE ScriptAsksInput("main") \/ ScriptGetsInput("main") \/ ProcessEnds("main")
    <3>1. /\ pc'["main"] = pc["main"] \/ {pc["main"], pc'["main"]} \subseteq Executing
          /\ frame'["main"].h = frame["main"].h
      BY <2>5 DEF ScriptAsksInput, ScriptGetsInput, ProcessEnds, localVars, HeapInv,
         Frame
    <3> QED
      BY <2>1, <3>1 DEF InLoadHandler
  <2> QED
    BY <2>2, <2>3, <2>4, <2>5 DEF EitherThread, Sweep
<1> QED
  BY <1>4, <1>5

LEMMA WatcherSteps ==
  ASSUME Base, PhaseInv, StopInv, EitherThread("watcher")
  PROVE  PhaseInv' /\ StopInv'
<1> USE DEF Base, PcInv, PcOK, Threads, At, Goto, Transition
<1>1. PhaseInv'
  <2>1. pc["watcher"] # "idle"
    BY DEF EitherThread, Load, Slurp, UnitFails, InstallUnit, QueueOld, CallMdInit,
       CallMdSuperInit,
       CallMdReload, LoadHandlerReturns, LoadHandlerThrows, InHandler, Sweep,
          CollectModules,
       SweepModule, FinalizeAsksStop, SweepCallEnds, ScriptAsksInput, ScriptGetsInput,
       ProcessEnds, ParserIsKilled
  <2>2. KeepsStill("main")
    BY OtherKeepsStill
  <2>3. pc'["main"] = pc["main"]
    <3>1. CASE Load("watcher")
      BY <3>1 DEF Load, Slurp, UnitFails, InstallUnit, QueueOld, CallMdInit,
         CallMdSuperInit,
         CallMdReload, LoadHandlerReturns, LoadHandlerThrows, NextUnit, LeaveLoad,
            BeginHandler
    <3>2. CASE Sweep("watcher")
      BY <3>2 DEF Sweep, CollectModules, SweepModule, FinalizeAsksStop, SweepCallEnds,
         BeginHandler
    <3> QED
      BY <3>1, <3>2 DEF EitherThread, ScriptAsksInput, ScriptGetsInput, ProcessEnds
  <2> QED
    BY <2>1, <2>2, <2>3 DEF PhaseInv, KeepsStill, InLoadHandler
<1>2. CASE Load("watcher")
  <2>1. ~stopAsked
    BY <1>2 DEF StopInv, Load, Slurp, UnitFails, InstallUnit, QueueOld, CallMdInit,
       CallMdSuperInit, CallMdReload, LoadHandlerReturns, LoadHandlerThrows, InHandler,
          Executing
  <2>2. UNCHANGED stopAsked
    BY <1>2 DEF Load, Slurp, UnitFails, InstallUnit, QueueOld, CallMdInit, CallMdSuperInit,
       CallMdReload, LoadHandlerReturns, LoadHandlerThrows, LoadUnchanged
  <2> QED
    BY <1>1, <2>1, <2>2 DEF StopInv
<1>3. CASE CollectModules("watcher")
  BY <1>1, <1>3 DEF CollectModules, StopInv, Executing, historyVars
<1>4. CASE SweepModule("watcher")
  <2>1. \/ \E m : BeginHandler("watcher", m, "Finalize")
        \/ pc["watcher"] = "sweep" /\ UNCHANGED pc
    BY <1>4 DEF SweepModule, SweepHandler
  <2>2. pc["watcher"] = "sweep" /\ UNCHANGED <<any_stop, stopAsked>>
    BY <1>4 DEF SweepModule
  <2>3. CASE \E m : BeginHandler("watcher", m, "Finalize")
    <3>1. pc'["watcher"] = "exec" /\ frame'["watcher"].h = "Finalize"
      BY <2>3, BeginFrame DEF BeginHandler
    <3> QED
      BY <1>1, <2>2, <3>1 DEF StopInv, Executing
  <2> QED
    BY <1>1, <2>1, <2>2, <2>3 DEF StopInv, Executing
<1>5. CASE FinalizeAsksStop("watcher")
  <2>1. any_stop'["watcher"] /\ pc'["watcher"] = "sweep"
    BY <1>5 DEF FinalizeAsksStop, DataOK
  <2> QED
    BY <1>1, <2>1 DEF StopInv, Executing
<1>6. CASE SweepCallEnds("watcher")
  BY <1>1, <1>6 DEF SweepCallEnds, InHandler, StopInv, Executing
<1>7. CASE ScriptAsksInput("watcher") \/ ScriptGetsInput("watcher") \/ ProcessEnds("watcher")
  <2>1. /\ pc'["watcher"] = pc["watcher"] \/ {pc["watcher"], pc'["watcher"]} \subseteq Executing
        /\ frame'["watcher"].h = frame["watcher"].h
        /\ UNCHANGED <<any_stop, stopAsked>>
    BY <1>7 DEF ScriptAsksInput, ScriptGetsInput, ProcessEnds, localVars, historyVars,
       HeapInv,
       Frame, Executing
  <2> QED
    BY <1>1, <2>1 DEF StopInv, Executing
<1> QED
  BY <1>1, <1>2, <1>3, <1>4, <1>5, <1>6, <1>7 DEF EitherThread, Sweep

LEMMA StopNext ==
  ASSUME Base, PhaseInv, StopInv, [Next]_vars
  PROVE  PhaseInv' /\ StopInv'
<1> USE DEF Base, PcInv, PcOK, Threads, At, Goto, Transition, OnlyMoves, localVars,
   historyVars
<1>1. ASSUME UNCHANGED <<pc, frame, any_stop, stopAsked>> PROVE PhaseInv' /\ StopInv'
  BY <1>1 DEF PhaseInv, StopInv, InLoadHandler
<1>2. CASE Main
  <2>1. ASSUME pc'["watcher"] = pc["watcher"], pc["main"] \in MainOnly \cup {"sweep"},
               UNCHANGED <<frame, any_stop, stopAsked>>,
               pc["main"] \in {"init", "scan", "load"} \/
                 pc'["main"] \in {"getline", "stop", "join", "collect", "sweep", "done"}
        PROVE  PhaseInv' /\ StopInv'
    BY <2>1 DEF PhaseInv, StopInv, MainOnly, InLoadHandler, Executing
  <2>2. CASE InitialScan \/ InitialStat \/ InitialScanned \/ InitialLoaded
    BY <2>1, <2>2 DEF InitialScan, InitialStat, InitialScanned, InitialLoaded, MainOnly
  <2>3. CASE InitialLoad
    BY <2>1, <2>3 DEF InitialLoad, BeginLoad, MainOnly
  <2>4. CASE UTestFails
    <3>1. UNCHANGED <<pc, any_stop, stopAsked>> /\ \A t \in Threads : frame'[t].h = frame[t].h
      BY <2>4 DEF UTestFails, HeapInv, Frame
    <3> QED
      BY <3>1 DEF PhaseInv, StopInv, InLoadHandler
  <2>5. CASE UTestThrowsAgain
    BY <1>1, <2>5 DEF UTestThrowsAgain
  <2>6. CASE StartWatcher
    BY <2>6 DEF StartWatcher, PhaseInv, StopInv, InLoadHandler, Executing, WatcherAlone
  <2>7. CASE GetLine \/ SetStop \/ JoinWatcher \/ Return
    BY <2>1, <2>7 DEF GetLine, SetStop, JoinWatcher, Return, MainOnly
  <2> QED
    BY <1>2, <2>2, <2>3, <2>4, <2>5, <2>6, <2>7, MainSteps DEF Main
<1>3. CASE Watcher
  <2>1. ASSUME pc'["main"] = pc["main"], pc["watcher"] \in WatcherOnly \ {"idle", "ended"},
               UNCHANGED <<frame, any_stop, stopAsked>>
        PROVE  PhaseInv' /\ StopInv'
    BY <2>1 DEF PhaseInv, StopInv, WatcherOnly, InLoadHandler, Executing
  <2>2. CASE WatchCheck \/ WatchScan \/ WatchVisited \/ WatchPurge \/ WatchPurged \/ WatchReclaim
    BY <2>1, <2>2 DEF WatchCheck, WatchScan, WatchVisited, WatchPurge, WatchPurged,
       WatchReclaim,
       WatcherOnly
  <2>3. CASE WatchVisit
    BY <2>1, <2>3 DEF WatchVisit, BeginLoad, WatcherOnly
  <2>4. CASE WatchFinalized
    <3>1. /\ pc["watcher"] = "sweep" /\ pc'["main"] = pc["main"]
          /\ pc'["watcher"] = IF any_stop["watcher"] THEN "ended" ELSE "reclaim"
          /\ UNCHANGED <<frame, any_stop, stopAsked>>
      BY <2>4 DEF WatchFinalized
    <3> QED
      BY <3>1 DEF PhaseInv, StopInv, InLoadHandler, Executing
  <2> QED
    BY <1>3, <2>2, <2>3, <2>4, WatcherSteps DEF Watcher
<1>4. CASE Environment \/ UNCHANGED vars
  BY <1>1, <1>4 DEF Environment, vars
<1> QED
  BY <1>2, <1>3, <1>4 DEF Next, Terminated

LEMMA StopAlways == Spec => [](Base /\ PhaseInv /\ StopInv)
<1>1. Init => PhaseInv /\ StopInv
  BY DEF Init, PhaseInv, StopInv, Threads
<1>2. Base /\ PhaseInv /\ StopInv /\ [Next]_vars => (Base /\ PhaseInv /\ StopInv)'
  BY BaseNext, StopNext
<1> QED
  BY <1>1, <1>2, BaseInit, PTL DEF Spec

\* The watcher scans, loads and reclaims nothing after a Finalize has asked it
\* to stop, whatever the other modules answer.
THEOREM StopObeyed == Spec => []StopHonoured
<1>1. StopInv => StopHonoured
  BY DEF StopInv, StopHonoured
<1> QED
  BY <1>1, StopAlways, PTL
=============================================================================
