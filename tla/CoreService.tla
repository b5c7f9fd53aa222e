---------------------------- MODULE CoreService ----------------------------
(***************************************************************************)
(* The life of one service process: corelib.cpp, the loop, nursery and     *)
(* gRPC server of Synchronizer, the tasks that TaskScheduler posts to the  *)
(* loop, and the two hosts, windows/main.cpp with --app and as a service.  *)
(*                                                                         *)
(* Two threads matter.  `main` initializes Core and stays in run().  The   *)
(* other one, `host`, is the thread of SignalsHandler or the one Windows   *)
(* calls serviceCtrlHandler on: it calls stop() and deinitialize().  A     *)
(* stop() that finds no Core returns at once and changes nothing.  gRPC's  *)
(* own threads post a task to the loop for each call.                      *)
(***************************************************************************)
EXTENDS Naturals, FolderCalls

VARIABLES
  mode,         \* "app" or "service"
  main,         \* where the thread that runs Core is
  host,         \* where the thread that stops it is
  core,         \* coreInstance: "none", "alive" or "deleted"
  stopEvent,    \* "none", "open", "sent" or "closed"
  promise,      \* which promise Core::stopPromise is: 1, or 2 once stop() made one
  fulfilled,    \* the promises set_value was called on
  nursery,      \* "none", "open", "cancelled" or "closed"
  server,       \* the gRPC server: "none", "serving", "shutdown" or "gone"
  task          \* the task that answers each call

coreVars == <<mode, main, host, core, stopEvent, promise, fulfilled, nursery, server, task, request>>

\* What the host can see of a Core that is being stopped.
signals == <<stopEvent, promise, fulfilled>>

\* The tasks that have left the loop's hands unanswered: `lost` has no handle,
\* `unsent` keeps its handle open for ever, and the coroutine of `dropped` was
\* cancelled, which closes its handle.  Nobody finishes their calls any more.
Abandoned == {"lost", "unsent", "dropped"}

\* Behaviour that is not defined any more; nothing is said about what follows.
Undefined == {"ub_initialize", "ub_run", "ub_nursery", "ub_shutdown", "ub_set_value"}

InsideCore == {"constructed", "loop", "left", "closing", "closed", "setting"}

\* gRPC has accepted the call and its reactor is not finished.
InFlight(c) == task[c] \in {"posted", "running"} \cup Abandoned

\* main() with or without --app, before initializeService.
CoreInit ==
  /\ mode \in {"app", "service"}
  /\ main = "start"
  /\ host = "idle"
  /\ core = "none"
  /\ stopEvent = "none"
  /\ promise = 1
  /\ fulfilled = {}
  /\ nursery = "none"
  /\ server = "none"
  /\ task = [c \in Calls |-> "idle"]
  /\ request = NoRequests

\* The process is gone, for whatever reason, and main() is entered again.
StartAgain ==
  /\ mode' \in {"app", "service"}
  /\ main' = "start"
  /\ host' = "idle"
  /\ core' = "none"
  /\ stopEvent' = "none"
  /\ promise' = 1
  /\ fulfilled' = {}
  /\ nursery' = "none"
  /\ server' = "none"
  /\ task' = [c \in Calls |-> "idle"]
  /\ request' = NoRequests

-----------------------------------------------------------------------------
(* The thread of Core *)

\* initialize(): the pointer is set before Core::initialize is called on it.
Construct ==
  /\ main = "start"
  /\ main' = "constructed"
  /\ core' = "alive"
  /\ UNCHANGED <<mode, host, signals, nursery, server, task, request>>

\* Core::initialize: settings, loop, Synchronizer, and at its end the stop event.
InitializeCore ==
  /\ main = "constructed"
  /\ core = "alive"
  /\ main' = "initialized"
  /\ stopEvent' = "open"
  /\ UNCHANGED <<mode, host, core, promise, fulfilled, nursery, server, task, request>>

\* It throws; neither host catches the exception.
InitializeFails ==
  /\ main = "constructed"
  /\ core = "alive"
  /\ main' = "aborted"
  /\ UNCHANGED <<mode, host, core, signals, nursery, server, task, request>>

\* run(), up to the first iteration of the loop: Synchronizer::run opens the
\* nursery and starts the server before it first waits.
EnterRun ==
  /\ main = "initialized"
  /\ core = "alive"
  /\ main' = "loop"
  /\ nursery' = "open"
  /\ server' = "serving"
  /\ UNCHANGED <<mode, host, core, signals, task, request>>

\* The server cannot start and initAsync throws.  The nursery closes, but the
\* timer and the two events of Synchronizer::run stay open, so uv_run goes on.
EnterRunNoServer ==
  /\ main = "initialized"
  /\ core = "alive"
  /\ main' = "loop"
  /\ nursery' = "closed"
  /\ UNCHANGED <<mode, host, core, signals, server, task, request>>

\* run() without a Core.
RunNothing ==
  /\ main = "initialized"
  /\ core # "alive"
  /\ main' = "returned"
  /\ UNCHANGED <<mode, host, core, signals, nursery, server, task, request>>

\* The loop can dispatch a callback.
InLoop == main = "loop" /\ core = "alive"

\* Slip: the stop event is not closed.
StopAsync_KeepEvent ==
  /\ InLoop
  /\ stopEvent = "sent" /\ nursery = "open"
  /\ nursery' = "cancelled" /\ stopEvent' = "open"
  /\ UNCHANGED <<mode, main, host, core, promise, fulfilled, server, task, request>>

\* The callback of the stop event: Synchronizer::shutdown cancels the nursery,
\* which must be there, and the event is closed.
StopAsync ==
  /\ InLoop
  /\ stopEvent = "sent"
  /\ IF nursery = "open"
     THEN nursery' = "cancelled" /\ stopEvent' = "closed" /\ main' = main
     ELSE main' = "ub_shutdown" /\ UNCHANGED <<nursery, stopEvent>>
  /\ UNCHANGED <<mode, host, core, promise, fulfilled, server, task, request>>

\* Slip: a path that does not finish the call.
ListTask_Silent(c) ==
  /\ InLoop
  /\ request[c] = NoFolder /\ task[c] = "posted"
  /\ task' = [task EXCEPT ![c] = "running"]
  /\ UNCHANGED <<mode, main, host, core, signals, nursery, server, request>>

\* The task of ListFolders runs and finishes the call.
ListTask(c) ==
  /\ InLoop
  /\ request[c] = NoFolder /\ task[c] = "posted"
  /\ task' = [task EXCEPT ![c] = "answered"]
  /\ UNCHANGED <<mode, main, host, core, signals, nursery, server, request>>

\* The task of AddFolder starts a coroutine in the nursery, cancelled or not.
AddTask(c) ==
  /\ InLoop
  /\ nursery # "closed"
  /\ request[c] # NoFolder /\ task[c] = "posted"
  /\ task' = [task EXCEPT ![c] = "running"]
  /\ UNCHANGED <<mode, main, host, core, signals, nursery, server, request>>

\* TaskScheduler keeps the reference to the nursery when that is gone.
AddTaskTooLate(c) ==
  /\ InLoop
  /\ nursery = "closed"
  /\ request[c] # NoFolder /\ task[c] = "posted"
  /\ main' = "ub_nursery"
  /\ UNCHANGED <<mode, host, core, signals, nursery, server, task, request>>

\* The coroutine of AddFolder ends, with whatever status.
AddEnds(c) ==
  /\ InLoop
  /\ task[c] = "running"
  /\ task' = [task EXCEPT ![c] = "answered"]
  /\ request' = [request EXCEPT ![c] = NoFolder]
  /\ UNCHANGED <<mode, main, host, core, signals, nursery, server>>

\* The cancelled nursery takes the coroutine with it where that next waits for
\* something that can be cancelled.  Its uv handle is closed, its reactor is not
\* finished.  The wait for hg's answer cannot be cancelled: until hg has answered
\* the coroutine runs on.
AddCancelled(c) ==
  /\ InLoop
  /\ nursery = "cancelled"
  /\ task[c] = "running"
  /\ task' = [task EXCEPT ![c] = "dropped"]
  /\ request' = [request EXCEPT ![c] = NoFolder]
  /\ UNCHANGED <<mode, main, host, core, signals, nursery, server>>

\* The last coroutine of the cancelled nursery ends: those of AddFolder, and
\* what hg, the folders and shutdown() have started in it.  Nothing in the code
\* makes them come to an end when hg does not answer.
NurseryEnds ==
  /\ InLoop
  /\ nursery = "cancelled"
  /\ \A c \in Calls : task[c] # "running"
  /\ nursery' = "closed"
  /\ UNCHANGED <<mode, main, host, core, signals, server, task, request>>

\* uv_run returns when no handle is left; a task that is posted, or could not be
\* sent, is one.
LoopEnds ==
  /\ InLoop
  /\ nursery = "closed" /\ stopEvent = "closed"
  /\ \A c \in Calls : task[c] \notin {"posted", "unsent"}
  /\ main' = "left"
  /\ UNCHANGED <<mode, host, core, signals, nursery, server, task, request>>

\* synchronizer.reset(): the destructor of the server stops accepting calls ...
ServerShutdown ==
  /\ main = "left"
  /\ core = "alive"
  /\ main' = "closing"
  /\ server' = "shutdown"
  /\ UNCHANGED <<mode, host, core, signals, nursery, task, request>>

\* Slip: the server is shut down with a deadline, without waiting for its calls.
ServerGone_NoWait ==
  /\ main = "closing"
  /\ core = "alive"
  /\ main' = "closed"
  /\ server' = "gone"
  /\ UNCHANGED <<mode, host, core, signals, nursery, task, request>>

\* ... and waits until every call it accepted is finished; then loop.reset().
ServerGone ==
  /\ main = "closing"
  /\ core = "alive"
  /\ \A c \in Calls : ~InFlight(c)
  /\ main' = "closed"
  /\ server' = "gone"
  /\ UNCHANGED <<mode, host, core, signals, nursery, task, request>>

\* stopPromise.set_value() makes the future ready ...
SetValue ==
  /\ main = "closed"
  /\ core = "alive"
  /\ main' = "setting"
  /\ fulfilled' = fulfilled \cup {promise}
  /\ UNCHANGED <<mode, host, core, stopEvent, promise, nursery, server, task, request>>

\* ... and returns, from a promise that the host may have deleted meanwhile.
LeaveRun ==
  /\ main = "setting"
  /\ \/ main' = "returned"
     \/ core = "deleted" /\ main' = "ub_set_value"
  /\ UNCHANGED <<mode, host, core, signals, nursery, server, task, request>>

\* A start without a server leaves the timer running: its next tick starts the
\* folders' tasks in the closed nursery.
TimerTooLate ==
  /\ InLoop
  /\ nursery = "closed" /\ server = "none"
  /\ main' = "ub_nursery"
  /\ UNCHANGED <<mode, host, core, signals, nursery, server, task, request>>

\* Core is deleted while this thread is in one of its functions.
UseDeletedCore ==
  /\ core = "deleted"
  /\ main \in InsideCore \ {"setting"}
  /\ main' = IF main = "constructed" THEN "ub_initialize" ELSE "ub_run"
  /\ UNCHANGED <<mode, host, core, signals, nursery, server, task, request>>

-----------------------------------------------------------------------------
(* The thread of the host *)

ProcessRuns == main \notin Undefined \cup {"aborted", "ended"}

\* Slip: the service accepts a stop while it starts.
StopMayCome_Pending == TRUE

\* Windows passes a stop on once serviceMain has reported SERVICE_RUNNING; a
\* signal may come at any time.
StopMayCome == mode = "app" \/ main \notin {"start", "constructed"}

\* Slip: the future is not waited for.
HostStop_NoWait ==
  /\ ProcessRuns /\ StopMayCome
  /\ host = "idle"
  /\ core = "alive"
  /\ host' = "woken"
  /\ stopEvent' = IF stopEvent = "none" THEN "none" ELSE "sent"
  /\ UNCHANGED <<mode, main, core, promise, fulfilled, nursery, server, task, request>>

\* stop(), from Core::stop to uv_async_send.  Without a stop event the future
\* that is returned is ready.
HostStop ==
  /\ ProcessRuns /\ StopMayCome
  /\ host = "idle"
  /\ core = "alive"
  /\ IF stopEvent = "none"
     THEN host' = "woken" /\ UNCHANGED stopEvent
     ELSE host' = "sent" /\ stopEvent' = "sent"
  /\ UNCHANGED <<mode, main, core, promise, fulfilled, nursery, server, task, request>>

\* Only now does Core::stop make the promise it waits for.  Nothing keeps
\* set_value of the other thread from using the member at the same time.
ReplacePromise ==
  /\ ProcessRuns
  /\ host = "sent"
  /\ host' = "waiting"
  /\ promise' = 2
  /\ \/ UNCHANGED main
     \/ main = "setting" /\ main' = "ub_set_value"
  /\ UNCHANGED <<mode, core, stopEvent, fulfilled, nursery, server, task, request>>

\* future.wait() returns.
StopReturns ==
  /\ ProcessRuns
  /\ host = "waiting"
  /\ promise \in fulfilled
  /\ host' = "woken"
  /\ UNCHANGED <<mode, main, core, signals, nursery, server, task, request>>

\* Slip: coreInstance is not reset.
Deinitialize_Dangling ==
  /\ ProcessRuns
  /\ host = "woken"
  /\ host' = "done"
  /\ core' = "dangling"
  /\ UNCHANGED <<mode, main, signals, nursery, server, task, request>>

Deinitialize ==
  /\ ProcessRuns
  /\ host = "woken"
  /\ host' = "done"
  /\ core' = "deleted"
  /\ UNCHANGED <<mode, main, signals, nursery, server, task, request>>

\* With --app, main() joins the thread of SignalsHandler; as a service, the
\* process ends when the handler has reported SERVICE_STOPPED.
ProcessEnds ==
  /\ \/ mode = "app" /\ main = "returned" /\ host \in {"idle", "done"}
     \/ mode = "service" /\ ProcessRuns /\ host = "done"
  /\ main' = "ended"
  /\ UNCHANGED <<mode, host, core, signals, nursery, server, task, request>>

-----------------------------------------------------------------------------
(* gRPC *)

\* A thread of gRPC accepts a call and posts its task to the loop, even after
\* uv_run has returned.  When uv_async_init or uv_async_send fails, TaskScheduler
\* logs it and returns: the task never runs, and what it was to do is forgotten.
Post(c) ==
  /\ ProcessRuns
  /\ server = "serving"
  /\ task[c] = "idle"
  /\ \/ /\ task' = [task EXCEPT ![c] = "posted"]
        /\ \E f \in Folders \cup {NoFolder} : request' = [request EXCEPT ![c] = f]
     \/ /\ \E t \in {"lost", "unsent"} : task' = [task EXCEPT ![c] = t]
        /\ UNCHANGED request
  /\ UNCHANGED <<mode, main, host, core, signals, nursery, server>>

-----------------------------------------------------------------------------
Teardown == LoopEnds \/ ServerShutdown \/ ServerGone \/ SetValue \/ LeaveRun

HostSteps == ReplacePromise \/ StopReturns \/ Deinitialize

Startup ==
  \/ Construct \/ InitializeCore \/ InitializeFails
  \/ EnterRun \/ EnterRunNoServer \/ RunNothing

CoreNext ==
  \/ StartAgain
  \/ Startup
  \/ StopAsync \/ NurseryEnds \/ TimerTooLate \/ Teardown \/ UseDeletedCore
  \/ HostStop \/ HostSteps \/ ProcessEnds
  \/ \E c \in Calls :
       \/ Post(c) \/ ListTask(c)
       \/ AddTask(c) \/ AddTaskTooLate(c) \/ AddEnds(c) \/ AddCancelled(c)

CoreSpec == CoreInit /\ [][CoreNext]_coreVars

-----------------------------------------------------------------------------
(* Properties *)

\* The values of the process's control state.
CoreTypeOK ==
  /\ mode \in {"app", "service"}
  /\ main \in {"start", "initialized", "returned", "aborted", "ended"} \cup InsideCore \cup Undefined
  /\ host \in {"idle", "sent", "waiting", "woken", "done"}
  /\ core \in {"none", "alive", "deleted"}
  /\ stopEvent \in {"none", "open", "sent", "closed"}
  /\ promise \in {1, 2}
  /\ fulfilled \subseteq {1, 2}
  /\ nursery \in {"none", "open", "cancelled", "closed"}
  /\ server \in {"none", "serving", "shutdown", "gone"}
  /\ task \in [Calls -> {"idle", "posted", "running", "answered"} \cup Abandoned]
  /\ request \in [Calls -> Folders \cup {NoFolder}]

\* "This function waits for the service to stop and then returns" (corelib.hpp):
\* when stop() has waited and returned, the loop and the server are gone and no
\* call is left that could still touch them.
StopMeansStopped ==
  promise = 2 /\ host \in {"woken", "done"} =>
    /\ main \in {"setting", "returned", "ended", "ub_set_value"}
    /\ server = "gone"
    /\ \A c \in Calls : ~InFlight(c)

\* As a Windows service, Core is not deleted under initialize() or run(): the
\* only thing deinitialize() can race is the return from set_value.
ServiceKeepsItsCore ==
  mode = "service" => main \notin {"ub_initialize", "ub_run"}

=============================================================================
