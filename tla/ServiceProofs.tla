---------------------------- MODULE ServiceProofs ----------------------------
(***************************************************************************)
(* Proofs about Service: each of its steps is one of CoreService and one   *)
(* of FolderRegistry, so that what is proved of them holds of the process  *)
(* as a whole, and stopping it cuts no addFolder short.                    *)
(***************************************************************************)
EXTENDS Service, CoreServiceProofs, FolderRegistryProofs

(* A call is in flight only between the start of the server and the end of *)
(* run(), and addFolder only runs inside a task.                           *)
TaskInv ==
  /\ main \in {"start", "constructed", "initialized"} => server = "none"
  /\ server = "none" => \A c \in Calls : ~InFlight(c)
  /\ main \in {"setting", "returned", "ended"} =>
       server # "serving" /\ \A c \in Calls : ~InFlight(c)

AddInv == \A c \in Calls : add[c] # "idle" => task[c] = "running"

(* Every step of the process is a step of its control or leaves it alone.  *)
LEMMA StepOfCore ==
  ASSUME [Next]_vars
  PROVE  [CoreNext]_coreVars
<1>1. CASE InitializeLoads
  BY <1>1 DEF InitializeLoads
<1>2. CASE Initialize
  BY <1>2 DEF Initialize, CoreNext, Startup
<1>3. CASE Run
  BY <1>3 DEF Run, CoreNext, Startup
<1>4. CASE LoopStep \/ NurseryStep
  BY <1>4 DEF LoopStep, NurseryStep, CoreNext, Teardown
<1>5. CASE OtherStep
  BY <1>5 DEF OtherStep, CoreNext, Startup, Teardown
<1>6. CASE Restart
  BY <1>6 DEF Restart, CoreNext
<1>7. ASSUME NEW c \in Calls, Call(c) \/ AddFolder(c) \/ ListFolders(c) PROVE [CoreNext]_coreVars
  BY <1>7 DEF Call, AddFolder, ListFolders, CoreNext
<1>8. CASE UNCHANGED vars
  BY <1>8 DEF vars
<1>. QED
  BY <1>1, <1>2, <1>3, <1>4, <1>5, <1>6, <1>7, <1>8 DEF Next

(* It is a step of the registry of folders or leaves that alone.           *)
LEMMA StepOfRegistry ==
  ASSUME [Next]_vars
  PROVE  [RegistryNext]_registryVars
<1>1. CASE InitializeLoads
  BY <1>1 DEF InitializeLoads, RegistryNext
<1>2. CASE Initialize
  BY <1>2 DEF Initialize
<1>3. CASE Run
  BY <1>3 DEF Run, RegistryNext, Load
<1>4. CASE LoopStep \/ NurseryStep
  BY <1>4 DEF LoopStep, NurseryStep
<1>5. CASE OtherStep
  BY <1>5 DEF OtherStep
<1>6. CASE Restart
  BY <1>6 DEF Restart, RegistryNext
<1>7. ASSUME NEW c \in Calls, Call(c) \/ AddFolder(c) \/ ListFolders(c)
      PROVE  [RegistryNext]_registryVars
  BY <1>7 DEF Call, AddFolder, ListFolders, RegistryNext
<1>8. CASE UNCHANGED vars
  BY <1>8 DEF vars
<1>. QED
  BY <1>1, <1>2, <1>3, <1>4, <1>5, <1>6, <1>7, <1>8 DEF Next

(* The service process implements the control of its threads.              *)
THEOREM ServiceRefinesCore == Spec => CoreSpec
BY StepOfCore, PTL DEF Spec, Init, CoreSpec

(* It also implements the registry of folders: what the loop does never    *)
(* breaks into the part of addFolder that runs without waiting.            *)
THEOREM ServiceRefinesRegistry == Spec => RegistrySpec
BY StepOfRegistry, PTL DEF Spec, Init, RegistrySpec

(* Of each folder there is one entry and one manager in the whole process  *)
(* too, however calls, stops, deaths and starts interleave.                *)
THEOREM ServiceKeepsEachFolderOnce == Spec => []OneManagerPerFolder
BY ServiceRefinesRegistry, EachFolderOnce, PTL

(* A folder whose addFolder succeeded stays in every settings file that    *)
(* can be loaded, and in the memory read from it, also in the whole        *)
(* process; as in AddedFoldersStay nothing is claimed once a default file  *)
(* took the place of an existing one (settings.cpp:29) or a save followed  *)
(* the dangling path (corelib.cpp:176), nor while the file is torn.        *)
THEOREM ServiceKeepsAddedFolders == Spec => []AddedIsKept
BY ServiceRefinesRegistry, AddedFoldersStay, PTL

-----------------------------------------------------------------------------
(* No call outlives run().                                                 *)
LEMMA TaskStep ==
  ASSUME CoreInv, TaskInv, [CoreNext]_coreVars
  PROVE  TaskInv'
<1> USE DEF CoreInv, CoreTypeOK, EndInv, HostInv, TaskInv, InFlight, Abandoned
<1>1. CASE StartAgain
  BY <1>1 DEF StartAgain
<1>2. CASE Startup
  BY <1>2 DEF Startup, Construct, InitializeCore, InitializeFails, EnterRun, EnterRunNoServer, RunNothing
<1>3. CASE StopAsync \/ NurseryEnds \/ TimerTooLate
  BY <1>3 DEF StopAsync, NurseryEnds, TimerTooLate, InLoop
<1>4. CASE Teardown
  BY <1>4 DEF Teardown, LoopEnds, ServerShutdown, ServerGone, SetValue, LeaveRun, InLoop
<1>5. CASE UseDeletedCore
  BY <1>5 DEF UseDeletedCore
<1>6. CASE HostStop \/ HostSteps
  BY <1>6 DEF HostStop, HostSteps, ReplacePromise, StopReturns, Deinitialize
<1>7. CASE ProcessEnds
  BY <1>7 DEF ProcessEnds
<1>8. ASSUME NEW c \in Calls,
             Post(c) \/ ListTask(c) \/ AddTask(c) \/ AddTaskTooLate(c) \/ AddEnds(c)
               \/ AddCancelled(c)
      PROVE  TaskInv'
  BY <1>8 DEF Post, ListTask, AddTask, AddTaskTooLate, AddEnds, AddCancelled, InLoop
<1>9. CASE UNCHANGED coreVars
  BY <1>9 DEF coreVars
<1>. QED
  BY <1>1, <1>2, <1>3, <1>4, <1>5, <1>6, <1>7, <1>8, <1>9 DEF CoreNext

(* addFolder begins with its task and ends, or is cancelled, with it.      *)
LEMMA AddInvStep ==
  ASSUME CoreInv, RegistryInv, AddInv, [Next]_vars
  PROVE  AddInv'
<1> USE DEF CoreInv, CoreTypeOK, RegistryInv, RegistryTypeOK, AddInv
<1>1. CASE InitializeLoads
  BY <1>1 DEF InitializeLoads, coreVars, Load, LoadSettings, CreateDefaultSettingsFile, DefaultSettings, LoadFolders
<1>2. CASE Initialize
  BY <1>2 DEF Initialize, registryVars, InitializeCore, InitializeFails
<1>3. CASE Run
  BY <1>3 DEF Run, LoadFolders, EnterRun, EnterRunNoServer
<1>4. CASE LoopStep \/ NurseryStep
  BY <1>4 DEF LoopStep, NurseryStep, registryVars, StopAsync, NurseryEnds, TimerTooLate, LoopEnds,
     AddTaskTooLate
<1>5. CASE OtherStep
  BY <1>5 DEF OtherStep, registryVars, Construct, RunNothing, UseDeletedCore, ServerShutdown, ServerGone,
     SetValue, LeaveRun, HostStop, HostSteps, ReplacePromise, StopReturns, Deinitialize, ProcessEnds
<1>6. CASE Restart
  BY <1>6 DEF Restart, ProcessDies
<1>7. ASSUME NEW c \in Calls, Call(c) PROVE AddInv'
  BY <1>7 DEF Call, Post, NewCall
<1>8. ASSUME NEW c \in Calls, ListFolders(c) PROVE AddInv'
  BY <1>8 DEF ListFolders, ListTask, registryVars
<1>9. ASSUME NEW c \in Calls, AddFolder(c) PROVE AddInv'
  <2>1. CASE AddTask(c) /\ AddBegins(c)
    BY <2>1 DEF AddTask, AddBegins
  <2>2. CASE AddStep(c) /\ UNCHANGED coreVars
    BY <2>2 DEF coreVars, AddStep, HgInit, InitRepoThrows, EnterFolder, SaveThrows, SaveElsewhere,
       SaveSettings, SaveCut, ServeFolder, ServeThrows
  <2>3. CASE AddEnds(c) /\ AddReturns(c)
    BY <2>3 DEF AddEnds, AddReturns
  <2>4. CASE AddCancelled(c) /\ AddDropped(c)
    BY <2>4 DEF AddCancelled, AddDropped
  <2>. QED
    BY <1>9, <2>1, <2>2, <2>3, <2>4 DEF AddFolder
<1>10. CASE UNCHANGED vars
  BY <1>10 DEF vars, coreVars, registryVars
<1>. QED
  BY <1>1, <1>2, <1>3, <1>4, <1>5, <1>6, <1>7, <1>8, <1>9, <1>10 DEF Next

(* A stop that has waited, and the end of the process, find no addFolder   *)
(* under way: the server's destructor waited for it (corelib.cpp:204), and *)
(* one that the nursery cancelled was not in its save.                     *)
THEOREM StopCutsNothingShort == Spec => []StopLeavesNoSave
<1>1. Init => TaskInv /\ AddInv
  BY DEF Init, CoreInit, RegistryInit, TaskInv, AddInv, InFlight, Abandoned
<1>2. CoreInv /\ RegistryInv /\ TaskInv /\ AddInv /\ [Next]_vars => TaskInv' /\ AddInv'
  BY StepOfCore, TaskStep, AddInvStep
<1>3. CoreInv /\ TaskInv /\ AddInv => StopLeavesNoSave
  BY CoreInvMeans DEF StopLeavesNoSave, StopMeansStopped, TaskInv, AddInv, InFlight
<1>. QED
  BY ServiceRefinesCore, ServiceRefinesRegistry, CoreInvariance, RegistryInvariance,
     <1>1, <1>2, <1>3, PTL DEF Spec

=============================================================================
