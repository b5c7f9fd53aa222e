------------------------------- MODULE Service -------------------------------
(***************************************************************************)
(* The whole service process on its disk: CoreService and FolderRegistry   *)
(* together.  Core::initialize loads the settings, Synchronizer::run loads *)
(* the folders, and the task of AddFolder runs addFolder on the loop.  The *)
(* process may die at any moment and be started again.                     *)
(***************************************************************************)
EXTENDS CoreService, FolderRegistry

CONSTANT MaxRestarts   \* bounds the starts of the process after the first

ASSUME MaxRestartsIsNat == MaxRestarts \in Nat

VARIABLE restarts

vars == <<coreVars, registryVars, restarts>>

Init == CoreInit /\ RegistryInit /\ restarts = 0

-----------------------------------------------------------------------------
\* Core::initialize reads or creates the settings file first.
InitializeLoads ==
  /\ main = "constructed" /\ core = "alive"
  /\ stage # "loaded"
  /\ Load
  /\ UNCHANGED <<coreVars, restarts>>

\* The rest of it.
Initialize ==
  /\ \/ stage = "loaded" /\ InitializeCore
     \/ stage = "loaded" /\ InitializeFails
     \/ LoadThrows /\ InitializeFails
  /\ UNCHANGED <<registryVars, restarts>>

\* Synchronizer::run: initAsync loads the folders, then starts the server.
Run ==
  /\ LoadFolders
  /\ EnterRun \/ EnterRunNoServer
  /\ UNCHANGED restarts

\* AddFolder's task, from its start on the loop to the reply, or to where it is
\* cancelled.
AddFolder(c) ==
  /\ \/ AddTask(c) /\ AddBegins(c)
     \/ InLoop /\ AddStep(c) /\ UNCHANGED coreVars
     \/ AddEnds(c) /\ AddReturns(c)
     \/ AddCancelled(c) /\ AddDropped(c)
  /\ UNCHANGED restarts

\* ListFolders' task.
ListFolders(c) ==
  /\ Serving
  /\ ListTask(c)
  /\ UNCHANGED <<registryVars, restarts>>

\* The other callbacks and the end of the loop, while nothing holds the thread.
LoopStep ==
  /\ Serving
  /\ StopAsync \/ TimerTooLate \/ LoopEnds \/ \E c \in Calls : AddTaskTooLate(c)
  /\ UNCHANGED <<registryVars, restarts>>

\* The nursery becomes empty.
NurseryStep ==
  /\ Serving
  /\ NurseryEnds
  /\ UNCHANGED <<registryVars, restarts>>

\* Steps of main outside the loop, of the host and of gRPC.
OtherStep ==
  /\ \/ Construct \/ RunNothing \/ UseDeletedCore
     \/ ServerShutdown \/ ServerGone \/ SetValue \/ LeaveRun
     \/ HostStop \/ HostSteps \/ ProcessEnds
  /\ UNCHANGED <<registryVars, restarts>>

\* gRPC accepts a call.
Call(c) ==
  /\ Post(c)
  /\ NewCall(c)
  /\ UNCHANGED restarts

\* The process is killed, or has ended, and is started again.
Restart ==
  /\ restarts < MaxRestarts
  /\ restarts' = restarts + 1
  /\ ProcessDies
  /\ StartAgain

Next ==
  \/ InitializeLoads \/ Initialize \/ Run \/ LoopStep \/ NurseryStep \/ OtherStep \/ Restart
  \/ \E c \in Calls : Call(c) \/ AddFolder(c) \/ ListFolders(c)

\* addFolder waits for an answer of hg.
Asks(c) == add[c] \in {"init", "commit"}

\* The threads run on and the loop dispatches what is pending.  Of hg nothing is
\* assumed: an addFolder that waits for it may wait for ever, and with it the
\* nursery.
Fairness ==
  /\ WF_vars(InitializeLoads \/ Initialize \/ Run)
  /\ WF_vars(LoopStep)
  /\ WF_vars(Construct /\ OtherStep) /\ WF_vars(RunNothing /\ OtherStep)
  /\ WF_vars(Teardown /\ OtherStep) /\ WF_vars(HostSteps /\ OtherStep)
  /\ \A c \in Calls : WF_vars((~Asks(c) /\ AddFolder(c)) \/ ListFolders(c))

Spec == Init /\ [][Next]_vars

LiveSpec == Spec /\ Fairness

-----------------------------------------------------------------------------
(* Properties *)

\* What the two properties below assume: hg answers what addFolder asks of it, and
\* the other coroutines of a cancelled nursery come to an end.  The code does not
\* see to it (see HgProcess: a child that exits leaves its commands unanswered, and
\* a stop leaves a runner waiting).
HgAnswers == WF_vars(NurseryStep) /\ \A c \in Calls : WF_vars(AddFolder(c))

\* A call that nothing will finish: TaskScheduler or the cancelled nursery dropped
\* its task, or the task was posted to the loop after its end.
NeverFinishes(c) == task[c] \in Abandoned \/ (task[c] = "posted" /\ main = "closing")

\* "This function waits for the service to stop and then returns" (corelib.hpp):
\* if hg answers, a stop() that was given to the loop returns, unless the process
\* breaks first, the loop's thread has used the promise before it was replaced, or
\* there is a call that nothing will finish and that keeps the loop or the server
\* from going away.
StopReturnsUnless ==
  HgAnswers =>
    (host \in {"sent", "waiting"} ~>
       \/ host \notin {"sent", "waiting"}
       \/ ~ProcessRuns
       \/ 1 \in fulfilled
       \/ \E c \in Calls : NeverFinishes(c))

\* If hg answers, and as long as nobody stops the service, a call whose task has
\* reached the loop is finished.
CallFinishes(c) ==
  HgAnswers =>
    (task[c] \in {"posted", "running"} ~> ~InFlight(c) \/ host # "idle" \/ ~ProcessRuns)

\* A stop that has waited, and an orderly end of the process, find no addFolder
\* between its first step and its end, so no settings file is left half written by
\* stopping the service.  (A cancelled nursery may end an addFolder that waits for
\* hg, without a reply; the server's destructor then waits for ever.)
StopLeavesNoSave ==
  \/ promise = 2 /\ host \in {"woken", "done"}
  \/ main = "ended"
  => \A c \in Calls : add[c] \notin {"init", "commit", "saving", "saved"}

=============================================================================
