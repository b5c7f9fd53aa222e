------------------------------ MODULE HgProcess ------------------------------
(***************************************************************************)
(* HgProcess (service/corelib/src/patch/hgprocess.cpp): a queue of         *)
(* commands served one at a time by one `hg serve --cmdserver` child       *)
(* process, which is started on demand, watched, and stopped on shutdown.  *)
(*                                                                         *)
(* Everything here runs on the one libuv loop thread.  A uv callback runs  *)
(* to completion, and so do the coroutines it resumes, up to their next    *)
(* suspension; `at` says which of these the thread is executing.  The hg   *)
(* child and the callers of runCommand are the environment.                *)
(***************************************************************************)
EXTENDS Naturals, Sequences, FiniteSets, Functions

CONSTANTS
  Commands,   \* the callers: each has at most one command outstanding
  Malformed,  \* those whose argument list is empty
  Procs,      \* incarnations of the hg child; BOUND on those alive or leaked
  NoProc,     \* nullptr
  Prompts,    \* input channels hg may use: "I" (bytes), "L" (one line)
  Faults      \* what may go wrong: "exit", "spawn", "read"; and "stop"

ASSUME ConstantsAssumption ==
  /\ Malformed \subseteq Commands
  /\ NoProc \notin Procs
  /\ Prompts \subseteq {"I", "L"}
  /\ Faults \subseteq {"exit", "spawn", "read", "stop"}

VARIABLES
  queue,            \* commandsQueue, the command being executed at its front
  commandInFlight,
  answer,           \* what the completer of each caller holds
  process,          \* the current child
  processToStop,    \* the child stopHgProcess is stopping
  pipes,            \* the child hgStdin, hgStdout and hgStderr belong to
  deaf,             \* children whose stdout is not read: its uv_read_start failed
  awaitingHello,    \* children whose processStartCompleter is awaited
  stop,             \* where stopHgProcess is
  at,               \* what the loop thread executes
  exiting,          \* the child whose onProcessExit is on the stack
  closing,          \* process handles given to uv_close
  fault,            \* undefined behaviour the code has run into
  os, inbox, outbox, signal   \* the children, as the operating system has them

selfVars == <<queue, commandInFlight, answer>>
handleVars == <<process, processToStop, pipes, deaf, awaitingHello, closing>>
hgVars == <<os, inbox, outbox, signal>>
vars == <<selfVars, handleVars, stop, at, exiting, fault, hgVars>>

Kinds == {"idle", "waiting", "result", "inputError", "emptySuccess", "exited", "failed"}
Answers == [kind : Kinds, of : Commands]
Hello == [kind |-> "hello"]
Messages == {Hello} \cup [kind : {"result", "I", "L"}, of : Commands]
MaybeProc == Procs \cup {NoProc}

Front == Head(queue)
Waiting(c) == answer[c].kind = "waiting"
Running(p) == os[p] \in {"starting", "serving", "asking"}

(* The thread is back in the loop and may dispatch the next callback.      *)
Quiet == fault = "none" /\ at = "loop" /\ exiting = NoProc

Init ==
  /\ queue = <<>>
  /\ commandInFlight = FALSE
  /\ answer = [c \in Commands |-> [kind |-> "idle", of |-> c]]
  /\ process = NoProc /\ processToStop = NoProc /\ pipes = NoProc
  /\ deaf = {} /\ awaitingHello = {} /\ closing = {}
  /\ stop = "none" /\ at = "loop" /\ exiting = NoProc /\ fault = "none"
  /\ os = [p \in Procs |-> "unborn"]
  /\ inbox = [p \in Procs |-> <<>>]
  /\ outbox = [p \in Procs |-> <<>>]
  /\ signal = [p \in Procs |-> "none"]

-----------------------------------------------------------------------------
(* Callers *)

(* A caller may ask from a coroutine some callback has resumed, before or  *)
(* after that callback pops the queue.  Synchronizer::shutdown cancels the *)
(* nursery all callers run in, so none comes after it.                     *)
MaySubmit(c) ==
  /\ Quiet \/ (fault = "none" /\ at \in {"complete", "schedule"})
  /\ stop = "none"
  /\ answer[c].kind = "idle"
  /\ answer' = [answer EXCEPT ![c] = [kind |-> "waiting", of |-> c]]
  /\ commandInFlight' = TRUE
  /\ UNCHANGED <<handleVars, stop, exiting, fault, hgVars>>

(* Slips in runCommand: a runner for every command; a push to the front.   *)
RunCommand_RunnerEach(c) ==
  /\ MaySubmit(c)
  /\ queue' = Append(queue, c)
  /\ at' = IF at = "complete" THEN at ELSE "schedule"

RunCommand_PushFront(c) ==
  /\ MaySubmit(c)
  /\ queue' = <<c>> \o queue
  /\ at' = IF commandInFlight THEN at ELSE "schedule"

(* runCommand: push; the first in an empty queue schedules the runner.     *)
RunCommand(c) ==
  /\ MaySubmit(c)
  /\ queue' = Append(queue, c)
  /\ at' = IF commandInFlight THEN at ELSE "schedule"

(* The caller has its answer and may ask again.                            *)
TakeAnswer(c) ==
  /\ answer[c].kind \notin {"idle", "waiting"}
  /\ answer' = [answer EXCEPT ![c] = [kind |-> "idle", of |-> c]]
  /\ UNCHANGED <<queue, commandInFlight, handleVars, stop, at, exiting, fault, hgVars>>

-----------------------------------------------------------------------------
(* The command queue *)

(* finishCommand and failCommand up to the pop: complete the front's       *)
(* completer, which resumes its caller at once.                            *)
CompleteFront(a) ==
  IF commandInFlight /\ queue # <<>>
  THEN answer' = [answer EXCEPT ![Front] = a] /\ at' = "complete"
  ELSE answer' = answer /\ at' = "loop"

(* Slip: the exception of a failed command is dropped with the command.    *)
FailFront_Silent == answer' = answer /\ at' = "loop"

FailFront == CompleteFront([kind |-> "failed", of |-> Front])

(* Their end: pop, then scheduleNextCommand.  A runner started in the      *)
(* cancelled nursery never runs.                                           *)
Popping ==
  /\ fault = "none" /\ at = "complete"
  /\ UNCHANGED <<answer, handleVars, stop, exiting, fault, hgVars>>

(* Slips: the flag is never lowered; a runner is started for no command;   *)
(* the commands behind a finished one are dropped with it.                 *)
PopAndScheduleNext_FlagKept ==
  /\ Popping
  /\ queue' = Tail(queue)
  /\ UNCHANGED commandInFlight
  /\ at' = IF Tail(queue) # <<>> THEN "schedule" ELSE "loop"

PopAndScheduleNext_NoCheck ==
  /\ Popping
  /\ queue' = Tail(queue)
  /\ commandInFlight' = (Tail(queue) # <<>>)
  /\ at' = "schedule"

PopAndScheduleNext_Drop ==
  /\ Popping
  /\ queue' = <<>>
  /\ commandInFlight' = FALSE
  /\ at' = "loop"

PopAndScheduleNext ==
  /\ Popping
  /\ queue' = Tail(queue)
  /\ commandInFlight' = (Tail(queue) # <<>>)
  /\ at' = IF Tail(queue) # <<>> /\ stop = "none" THEN "schedule" ELSE "loop"

-----------------------------------------------------------------------------
(* runNextCommand *)

AlreadyStarted ==
  /\ fault = "none" /\ at = "schedule"
  /\ process # NoProc
  /\ at' = "write"
  /\ UNCHANGED <<selfVars, handleVars, stop, exiting, fault, hgVars>>

Spawned(p) ==
  /\ fault = "none" /\ at = "schedule"
  /\ process = NoProc
  /\ os[p] = "unborn" /\ p \notin awaitingHello
  /\ process' = p /\ pipes' = p
  /\ os' = [os EXCEPT ![p] = "starting"]
  /\ signal' = [signal EXCEPT ![p] = "none"]
  /\ UNCHANGED <<queue, commandInFlight, processToStop, closing, stop, exiting,
                 fault, inbox, outbox>>

(* startHgProcess with every libuv call succeeding: suspend until hello.   *)
StartHgProcess(p) ==
  /\ Spawned(p)
  /\ awaitingHello' = awaitingHello \cup {p}
  /\ at' = "loop"
  /\ UNCHANGED <<deaf, answer>>

(* uv_read_start fails: the command fails, but the child stays `process`.  *)
(* When it is that of stderr, stdout is being read already.                *)
StartHgProcessDeaf(p) ==
  /\ "read" \in Faults
  /\ Spawned(p)
  /\ deaf' \in {deaf, deaf \cup {p}}
  /\ FailFront
  /\ UNCHANGED awaitingHello

(* uv_spawn fails: fresh pipes, connected to nothing, and no process.      *)
SpawnFails ==
  /\ "spawn" \in Faults
  /\ fault = "none" /\ at = "schedule"
  /\ process = NoProc
  /\ pipes' = NoProc
  /\ FailFront
  /\ UNCHANGED <<queue, commandInFlight, process, processToStop, deaf, awaitingHello,
                 closing, stop, exiting, fault, hgVars>>

(* The process is there: prepareCommand and uv_write.                      *)
AtWrite ==
  /\ fault = "none" /\ at = "write"
  /\ UNCHANGED <<queue, commandInFlight, handleVars, stop, exiting, os, outbox, signal>>

(* front() of an empty queue, or uv_write on a null stream.                *)
WriteIsUndefined ==
  /\ AtWrite
  /\ queue = <<>> \/ (Front \notin Malformed /\ pipes = NoProc)
  /\ fault' = IF queue = <<>> THEN "emptyFront" ELSE "nullStdin"
  /\ UNCHANGED <<answer, at, inbox>>

PrepareFails ==
  /\ AtWrite
  /\ queue # <<>> /\ Front \in Malformed
  /\ FailFront
  /\ UNCHANGED <<fault, inbox>>

WriteCommand ==
  /\ AtWrite
  /\ queue # <<>> /\ Front \notin Malformed /\ pipes # NoProc
  /\ IF Running(pipes) THEN inbox' = [inbox EXCEPT ![pipes] = Append(@, Front)]
                       ELSE UNCHANGED inbox          \* lost in a broken pipe
  /\ at' = "loop"
  /\ UNCHANGED <<fault, answer>>

(* uv_write reports the broken pipe at once.                               *)
WriteFails ==
  /\ AtWrite
  /\ queue # <<>> /\ Front \notin Malformed /\ pipes # NoProc /\ ~Running(pipes)
  /\ FailFront
  /\ UNCHANGED <<fault, inbox>>

-----------------------------------------------------------------------------
(* Output of hg *)

ReadFrom(p) ==
  /\ Quiet
  /\ p = pipes /\ p \notin deaf
  /\ outbox[p] # <<>>
  /\ outbox' = [outbox EXCEPT ![p] = Tail(@)]
  /\ UNCHANGED <<queue, commandInFlight, process, processToStop, pipes, deaf, closing,
                 stop, exiting, fault, os, inbox, signal>>

(* Hello completes processStartCompleter, and the runner goes on at once.  *)
ReadHello(p) ==
  /\ ReadFrom(p)
  /\ Head(outbox[p]).kind = "hello"
  /\ awaitingHello' = awaitingHello \ {p}
  /\ at' = IF p \in awaitingHello THEN "write" ELSE at
  /\ UNCHANGED answer

(* Any other frame answers the front, whatever command hg sent it for: an  *)
(* input request by an error, a line request by an empty success.          *)
AnswerTo(m) ==
  [kind |-> IF m.kind = "I" THEN "inputError"
            ELSE IF m.kind = "L" THEN "emptySuccess" ELSE "result",
   of |-> m.of]

ReadAnswer(p) ==
  /\ ReadFrom(p)
  /\ Head(outbox[p]).kind # "hello"
  /\ CompleteFront(AnswerTo(Head(outbox[p])))
  /\ UNCHANGED awaitingHello

-----------------------------------------------------------------------------
(* The end of the child *)

(* onProcessExit up to finishCommand, which is followed on the same stack  *)
(* by PopAndScheduleNext and the runner it starts.                         *)
OnProcessExit(p) ==
  /\ Quiet
  /\ os[p] = "exited" /\ p \notin closing
  /\ os' = [os EXCEPT ![p] = "reaped"]
  /\ exiting' = p
  /\ CompleteFront([kind |-> "exited", of |-> Front])
  /\ UNCHANGED <<queue, commandInFlight, handleVars, stop, fault, inbox, outbox, signal>>

(* The rest of onProcessExit.                                              *)
ExitedHandle_Current == process   \* slip: a child being stopped is forgotten

ExitedHandle == IF processToStop # NoProc THEN processToStop ELSE process

(* Slip: the pointer is cleared before its handle is closed.               *)
OnProcessExitReset_Early ==
  /\ fault = "none" /\ at = "loop" /\ exiting # NoProc
  /\ exiting' = NoProc
  /\ pipes' = NoProc
  /\ closing' = closing \cup {ExitedHandle}
  /\ process' = NoProc
  /\ UNCHANGED <<selfVars, processToStop, deaf, awaitingHello, stop, at, fault, hgVars>>

OnProcessExitReset ==
  /\ fault = "none" /\ at = "loop" /\ exiting # NoProc
  /\ exiting' = NoProc
  /\ pipes' = NoProc
  /\ closing' = closing \cup {ExitedHandle}
  /\ UNCHANGED <<selfVars, process, processToStop, deaf, awaitingHello, stop, at,
                 fault, hgVars>>

(* Slips: no SIGKILL after the first timeout; a second wait nobody ends.   *)
StopResumed_NoKill(toStop) ==
  stop' = (IF stop = "none" THEN "none" ELSE "done") /\ UNCHANGED signal

StopResumed_NoEnd(toStop) ==
  IF stop = "sigint" /\ toStop # NoProc
  THEN stop' = "sigkill" /\ signal' = [signal EXCEPT ![toStop] = "kill"]
  ELSE UNCHANGED <<stop, signal>>

(* stopHgProcess resumed by its completer, with toStop in processToStop;   *)
(* SIGKILL fails for a child that is already dead.                         *)
StopResumed(toStop) ==
  IF stop = "sigint" /\ toStop # NoProc /\ Running(toStop)
  THEN stop' = "sigkill" /\ signal' = [signal EXCEPT ![toStop] = "kill"]
  ELSE stop' = (IF stop = "none" THEN "none" ELSE "done") /\ UNCHANGED signal

(* The callback of uv_close: forget the handle, complete the stop.  The    *)
(* incarnation may be used again by a later child.                         *)
ProcessClosed(p) ==
  /\ Quiet
  /\ p \in closing
  /\ closing' = closing \ {p}
  /\ IF processToStop = p THEN processToStop' = NoProc /\ UNCHANGED process
                          ELSE process' = NoProc /\ UNCHANGED processToStop
  /\ StopResumed(processToStop')
  /\ deaf' = deaf \ {p}
  /\ os' = [os EXCEPT ![p] = "unborn"]
  /\ inbox' = [inbox EXCEPT ![p] = <<>>]
  /\ outbox' = [outbox EXCEPT ![p] = <<>>]
  /\ UNCHANGED <<selfVars, pipes, awaitingHello, at, exiting, fault>>

-----------------------------------------------------------------------------
(* Shutdown *)

(* Synchronizer::shutdown: start stopHgProcess, cancel the nursery.        *)
Shutdown ==
  /\ "stop" \in Faults
  /\ Quiet /\ stop = "none"
  /\ IF process = NoProc
     THEN stop' = "done" /\ UNCHANGED <<process, processToStop, signal>>
     ELSE /\ stop' = "sigint"
          /\ processToStop' = process
          /\ process' = NoProc
          /\ signal' = IF Running(process) THEN [signal EXCEPT ![process] = "int"]
                                           ELSE signal
  /\ UNCHANGED <<selfVars, pipes, deaf, awaitingHello, closing, at, exiting, fault,
                 os, inbox, outbox>>

(* The two-second timer completes processStopCompleter.                    *)
StopTimer ==
  /\ Quiet /\ stop \in {"sigint", "sigkill"}
  /\ StopResumed(processToStop)
  /\ UNCHANGED <<selfVars, handleVars, at, exiting, fault, os, inbox, outbox>>

-----------------------------------------------------------------------------
(* The hg child: hello first, then one answer per command, in order.  A    *)
(* child that asks for input takes whatever comes next as that input.      *)

HgHello(p) ==
  /\ os[p] = "starting"
  /\ os' = [os EXCEPT ![p] = "serving"]
  /\ outbox' = [outbox EXCEPT ![p] = Append(@, Hello)]
  /\ UNCHANGED <<selfVars, handleVars, stop, at, exiting, fault, inbox, signal>>

HgReply(p, kind) ==
  /\ os[p] = "serving" /\ inbox[p] # <<>>
  /\ inbox' = [inbox EXCEPT ![p] = Tail(@)]
  /\ outbox' = [outbox EXCEPT ![p] = Append(@, [kind |-> kind, of |-> Head(inbox[p])])]
  /\ UNCHANGED <<selfVars, handleVars, stop, at, exiting, fault, signal>>

HgAnswer(p) == HgReply(p, "result") /\ UNCHANGED os

HgPrompt(p) ==
  /\ \E k \in Prompts : HgReply(p, k)
  /\ os' = [os EXCEPT ![p] = "asking"]

HgDies(p) ==
  /\ Running(p)
  /\ os' = [os EXCEPT ![p] = "exited"]
  /\ UNCHANGED <<selfVars, handleVars, stop, at, exiting, fault, inbox, outbox, signal>>

HgExits(p) == "exit" \in Faults /\ HgDies(p)
HgInterrupted(p) == signal[p] = "int" /\ HgDies(p)
HgKilled(p) == signal[p] = "kill" /\ HgDies(p)

-----------------------------------------------------------------------------
Runner ==
  \/ AlreadyStarted
  \/ \E p \in Procs : StartHgProcess(p) \/ StartHgProcessDeaf(p)
  \/ SpawnFails
  \/ WriteIsUndefined \/ PrepareFails \/ WriteCommand \/ WriteFails

Loop ==
  \/ PopAndScheduleNext \/ Runner
  \/ \E p \in Procs : ReadHello(p) \/ ReadAnswer(p) \/ OnProcessExit(p) \/ ProcessClosed(p)
  \/ OnProcessExitReset
  \/ StopTimer

Hg(p) == HgHello(p) \/ HgAnswer(p)

Next ==
  \/ \E c \in Commands : RunCommand(c) \/ TakeAnswer(c)
  \/ Loop
  \/ Shutdown
  \/ \E p \in Procs : Hg(p) \/ HgPrompt(p) \/ HgExits(p) \/ HgInterrupted(p) \/ HgKilled(p)

Spec == Init /\ [][Next]_vars

(* The loop dispatches what is ready; hg, when it is running, greets and   *)
(* answers; a killed child dies.                                           *)
Fairness ==
  /\ WF_vars(PopAndScheduleNext) /\ WF_vars(Runner) /\ WF_vars(OnProcessExitReset)
  /\ WF_vars(StopTimer)
  /\ \A p \in Procs :
       /\ SF_vars(ReadHello(p)) /\ SF_vars(ReadAnswer(p))
       /\ SF_vars(OnProcessExit(p)) /\ SF_vars(ProcessClosed(p))
       /\ WF_vars(Hg(p)) /\ WF_vars(HgKilled(p))

FairSpec == Spec /\ Fairness
-----------------------------------------------------------------------------
(* Properties *)

TypeOK ==
  /\ queue \in Seq(Commands)
  /\ commandInFlight \in BOOLEAN
  /\ answer \in [Commands -> Answers]
  /\ process \in MaybeProc /\ processToStop \in MaybeProc
  /\ pipes \in MaybeProc /\ exiting \in MaybeProc
  /\ deaf \subseteq Procs /\ awaitingHello \subseteq Procs /\ closing \subseteq Procs
  /\ stop \in {"none", "sigint", "sigkill", "done"}
  /\ at \in {"loop", "schedule", "write", "complete"}
  /\ fault \in {"none", "emptyFront", "nullStdin"}
  /\ os \in [Procs -> {"unborn", "starting", "serving", "asking", "exited", "reaped"}]
  /\ inbox \in [Procs -> Seq(Commands)]
  /\ outbox \in [Procs -> Seq(Messages)]
  /\ signal \in [Procs -> {"none", "int", "kill"}]

(* The queue less the command whose caller has just been answered.         *)
Pending == IF at = "complete" THEN Tail(queue) ELSE queue

(* Every waiting caller has its command in the queue, once, and nobody     *)
(* else has: no command is dropped, answered twice or popped unanswered.   *)
QueueHoldsWaiting ==
  /\ IsInjective(Pending)
  /\ Range(Pending) = {c \in Commands : Waiting(c)}

(* commandInFlight says exactly whether there is a command to serve, so    *)
(* runCommand never starts a second runner and never forgets to start one. *)
FlagMatchesQueue == commandInFlight <=> queue # <<>>

(* At most one hg serves at a time: a new one is started only when the     *)
(* handle of the previous one is gone.                                     *)
OneServer == \A p, q \in Procs : os[p] # "unborn" /\ os[q] # "unborn" => p = q

(* A child whose exit has not been handled holds at most one unanswered    *)
(* command, and it is the front of the queue: what it says next can reach  *)
(* no other caller, and no command is executed twice.                      *)
Unread(p) == {i \in 1..Len(outbox[p]) : outbox[p][i] # Hello}

FrontIsOutstanding ==
  \A p \in Procs : os[p] # "reaped" /\ (inbox[p] # <<>> \/ Unread(p) # {}) =>
    /\ at = "loop" /\ queue # <<>>
    /\ inbox[p] # <<>> => inbox[p] = <<Front>> /\ Unread(p) = {}
    /\ \A i \in Unread(p) : i = Len(outbox[p]) /\ outbox[p][i].of = Front

(* The code never calls front() on an empty queue nor writes to a null     *)
(* stream.                                                                 *)
NoUndefinedBehaviour == fault = "none"

(* HgProcess implements CommandService: first come, first served, and      *)
(* every answer is the caller's own.                                       *)
Service == INSTANCE CommandService WITH pending <- Pending
ImplementsService == Service!Spec

(* Every command is answered, whatever else is queued.                     *)
EveryCommandAnswered == \A c \in Commands : Waiting(c) ~> ~Waiting(c)

(* stopHgProcess returns, whatever the child does.                         *)
StopTerminates == stop # "none" ~> stop = "done"

(* Shutdown leaves no child behind: its handle is closed in the end.       *)
StopReapsChild == stop # "none" ~> process = NoProc /\ processToStop = NoProc

(* Shutdown releases every caller and every runner: the nursery empties    *)
(* and Synchronizer::run returns.                                          *)
StopReleasesCallers ==
  stop # "none" ~> awaitingHello = {} /\ \A c \in Commands : ~Waiting(c)
=============================================================================
