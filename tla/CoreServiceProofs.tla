-------------------------- MODULE CoreServiceProofs --------------------------
(***************************************************************************)
(* Proofs about CoreService, for any number of calls.                      *)
(***************************************************************************)
EXTENDS CoreService, TLAPS

(* The loop's end, step by step: once the server is gone no call is in     *)
(* flight, and a promise that is kept is kept after that.                  *)
EndInv ==
  /\ main \in {"closed", "setting"} => server = "gone"
  /\ server = "gone" => \A c \in Calls : ~InFlight(c)
  /\ fulfilled # {} => main \in {"setting", "returned", "ended", "ub_set_value"}
  /\ 2 \in fulfilled => server = "gone"

(* What the host knows: the promise it waits for is the second one, and as *)
(* a service it never gets a future that is ready from the start.          *)
HostInv ==
  /\ host \in {"idle", "sent"} => promise = 1
  /\ host = "waiting" => promise = 2
  /\ promise = 2 /\ host \in {"woken", "done"} => 2 \in fulfilled
  /\ mode = "service" /\ host \in {"woken", "done"} => promise = 2
  /\ core = "deleted" => host = "done"
  /\ stopEvent = "none" =>
       main \in {"start", "constructed", "aborted", "ended", "ub_initialize"}

CoreInv == CoreTypeOK /\ EndInv /\ HostInv /\ ServiceKeepsItsCore

(* A process that starts satisfies it.                                     *)
LEMMA CoreInvInit == CoreInit => CoreInv
BY DEF CoreInit, CoreInv, CoreTypeOK, EndInv, HostInv, ServiceKeepsItsCore, InFlight, Abandoned,
       InsideCore, NoRequests

(* Every step of the two threads and of gRPC preserves it, a new start of  *)
(* the process included.                                                   *)
LEMMA CoreInvStep ==
  ASSUME CoreInv, [CoreNext]_coreVars
  PROVE  CoreInv'
<1> USE DEF CoreInv, CoreTypeOK, EndInv, HostInv, ServiceKeepsItsCore, InFlight, Abandoned,
            InsideCore, Undefined
<1>1. CASE StartAgain
  BY <1>1 DEF StartAgain, NoRequests
<1>2. CASE Startup
  <2>1. CASE Construct
    BY <2>1 DEF Construct, signals
  <2>2. CASE InitializeCore
    BY <2>2 DEF InitializeCore
  <2>3. CASE InitializeFails
    BY <2>3 DEF InitializeFails, signals
  <2>4. CASE EnterRun
    BY <2>4 DEF EnterRun, signals
  <2>5. CASE EnterRunNoServer
    BY <2>5 DEF EnterRunNoServer, signals
  <2>6. CASE RunNothing
    BY <2>6 DEF RunNothing, signals
  <2>. QED
    BY <1>2, <2>1, <2>2, <2>3, <2>4, <2>5, <2>6 DEF Startup
<1>3. CASE StopAsync
  BY <1>3 DEF StopAsync, InLoop
<1>4. CASE NurseryEnds
  BY <1>4 DEF NurseryEnds, InLoop, signals
<1>5. CASE TimerTooLate
  BY <1>5 DEF TimerTooLate, InLoop, signals
<1>6. CASE Teardown
  <2>1. CASE LoopEnds
    BY <2>1 DEF LoopEnds, InLoop, signals
  <2>2. CASE ServerShutdown
    BY <2>2 DEF ServerShutdown, signals
  <2>3. CASE ServerGone
    BY <2>3 DEF ServerGone, signals
  <2>4. CASE SetValue
    BY <2>4 DEF SetValue
  <2>5. CASE LeaveRun
    BY <2>5 DEF LeaveRun, signals
  <2>. QED
    BY <1>6, <2>1, <2>2, <2>3, <2>4, <2>5 DEF Teardown
<1>7. CASE UseDeletedCore
  BY <1>7 DEF UseDeletedCore, signals
<1>8. CASE HostStop
  BY <1>8 DEF HostStop, ProcessRuns, StopMayCome
<1>9. CASE HostSteps
  <2>1. CASE ReplacePromise
    BY <2>1 DEF ReplacePromise
  <2>2. CASE StopReturns
    BY <2>2 DEF StopReturns, signals
  <2>3. CASE Deinitialize
    BY <2>3 DEF Deinitialize, signals
  <2>. QED
    BY <1>9, <2>1, <2>2, <2>3 DEF HostSteps
<1>10. CASE ProcessEnds
  BY <1>10 DEF ProcessEnds, ProcessRuns, signals
<1>11. ASSUME NEW c \in Calls, Post(c) PROVE CoreInv'
  BY <1>11 DEF Post, signals
<1>12. ASSUME NEW c \in Calls, ListTask(c) PROVE CoreInv'
  BY <1>12 DEF ListTask, InLoop, signals
<1>13. ASSUME NEW c \in Calls, AddTask(c) PROVE CoreInv'
  BY <1>13 DEF AddTask, InLoop, signals
<1>14. ASSUME NEW c \in Calls, AddTaskTooLate(c) PROVE CoreInv'
  BY <1>14 DEF AddTaskTooLate, InLoop, signals
<1>15. ASSUME NEW c \in Calls, AddEnds(c) PROVE CoreInv'
  BY <1>15 DEF AddEnds, InLoop, signals
<1>16. ASSUME NEW c \in Calls, AddCancelled(c) PROVE CoreInv'
  BY <1>16 DEF AddCancelled, InLoop, signals
<1>17. CASE UNCHANGED coreVars
  BY <1>17 DEF coreVars
<1>. QED
  BY <1>1, <1>2, <1>3, <1>4, <1>5, <1>6, <1>7, <1>8, <1>9, <1>10, <1>11, <1>12, <1>13,
     <1>14, <1>15, <1>16, <1>17 DEF CoreNext

(* A future that was waited for means that everything has ended.           *)
LEMMA CoreInvMeans ==
  ASSUME CoreInv
  PROVE  StopMeansStopped /\ ServiceKeepsItsCore
BY DEF CoreInv, EndInv, HostInv, StopMeansStopped

(* The inductive invariant: the lemmas above, joined.                      *)
LEMMA CoreInvariance == CoreSpec => []CoreInv
BY CoreInvInit, CoreInvStep, PTL DEF CoreSpec

(* The control state of the process keeps its values (windows/main.cpp,    *)
(* corelib.cpp); in particular coreInstance is never left dangling.        *)
THEOREM CoreTypeCorrect == CoreSpec => []CoreTypeOK
<1>1. CoreInv => CoreTypeOK
  BY DEF CoreInv
<1>. QED
  BY CoreInvariance, <1>1, PTL

(* When stop() has waited and returned (corelib.cpp:112-130), the loop and *)
(* the server are gone and no call is in flight, however many there were.  *)
THEOREM StopIsComplete == CoreSpec => []StopMeansStopped
BY CoreInvariance, CoreInvMeans, PTL

(* As a Windows service, Core is not deleted under initialize() and run(). *)
THEOREM CoreOutlivesRun == CoreSpec => []ServiceKeepsItsCore
BY CoreInvariance, CoreInvMeans, PTL

=============================================================================
