--------------------------- MODULE HgProcessProofs ---------------------------
(***************************************************************************)
(* Proofs about HgProcess for any number of callers and of incarnations of *)
(* hg, and whatever may go wrong.                                          *)
(***************************************************************************)
EXTENDS HgProcess, SequenceTheorems, TLAPS

(* The handles: an incarnation exists exactly as long as one of the two    *)
(* pointers is its, processToStop is used by the stop only, and a handle   *)
(* is closed after its exit has been handled.                              *)
HandleInv ==
  /\ \A p \in Procs : os[p] # "unborn" <=> p \in {process, processToStop}
  /\ stop = "none" => processToStop = NoProc
  /\ stop # "none" => process = NoProc
  /\ at = "schedule" => stop = "none"
  /\ exiting # NoProc => os[exiting] = "reaped"
  /\ \A p \in closing : os[p] = "reaped"

(* The queue, with what the answered front needs until it is popped.       *)
QueueInv ==
  /\ FlagMatchesQueue
  /\ at = "complete" => queue # <<>>
  /\ QueueHoldsWaiting

IInv == TypeOK /\ HandleInv /\ QueueInv

-----------------------------------------------------------------------------
(* Completing the front leaves the types right, and the thread either back *)
(* in the loop or about to pop a queue that is not empty.                  *)
LEMMA CompleteFrontType ==
  ASSUME TypeOK, NEW a, queue # <<>> => a \in Answers, CompleteFront(a)
  PROVE  /\ answer' \in [Commands -> Answers]
         /\ at' \in {"loop", "complete"}
         /\ at' = "complete" => commandInFlight /\ queue # <<>>
BY DEF TypeOK, CompleteFront

LEMMA FrontInCommands ==
  ASSUME TypeOK, queue # <<>>
  PROVE  Front \in Commands /\ Tail(queue) \in Seq(Commands)
BY DEF TypeOK, Front

LEMMA FailedIsAnswer ==
  ASSUME TypeOK
  PROVE  queue # <<>> => [kind |-> "failed", of |-> Front] \in Answers
BY FrontInCommands DEF Answers, Kinds

(* The type invariant needs the handles: without them onProcessExit might  *)
(* close a null pointer.                                                   *)
LEMMA TypeStep ==
  ASSUME IInv, [Next]_vars
  PROVE  TypeOK'
<1> USE ConstantsAssumption
<1>0. TypeOK /\ HandleInv /\ QueueInv
  BY DEF IInv
<1>1. ASSUME NEW c \in Commands, RunCommand(c) PROVE TypeOK'
  <2>1. [kind |-> "waiting", of |-> c] \in Answers
    BY DEF Answers, Kinds
  <2>2. answer' \in [Commands -> Answers]
    BY <2>1, <1>0, <1>1 DEF TypeOK, RunCommand, MaySubmit
  <2>. QED
    BY <2>2, <1>0, <1>1 DEF TypeOK, RunCommand, MaySubmit, handleVars, hgVars, MaybeProc
<1>2. ASSUME NEW c \in Commands, TakeAnswer(c) PROVE TypeOK'
  <2>1. [kind |-> "idle", of |-> c] \in Answers
    BY DEF Answers, Kinds
  <2>. QED
    BY <2>1, <1>0, <1>2 DEF TypeOK, TakeAnswer, handleVars, hgVars
<1>3. CASE PopAndScheduleNext
  BY <1>0, <1>3, FrontInCommands
  DEF QueueInv, TypeOK, PopAndScheduleNext, Popping, handleVars, hgVars
<1>4. CASE AlreadyStarted
  BY <1>0, <1>4 DEF TypeOK, AlreadyStarted, selfVars, handleVars, hgVars
<1>5. ASSUME NEW p \in Procs, StartHgProcess(p) PROVE TypeOK'
  BY <1>0, <1>5 DEF TypeOK, StartHgProcess, Spawned, MaybeProc
<1>6. ASSUME NEW p \in Procs, StartHgProcessDeaf(p) PROVE TypeOK'
  <2>1. answer' \in [Commands -> Answers] /\ at' \in {"loop", "complete"}
    BY <1>0, <1>6, CompleteFrontType, FailedIsAnswer DEF StartHgProcessDeaf, FailFront
  <2>. QED
    BY <2>1, <1>0, <1>6 DEF TypeOK, StartHgProcessDeaf, Spawned, MaybeProc
<1>7. CASE SpawnFails
  <2>1. answer' \in [Commands -> Answers] /\ at' \in {"loop", "complete"}
    BY <1>0, <1>7, CompleteFrontType, FailedIsAnswer DEF SpawnFails, FailFront
  <2>. QED
    BY <2>1, <1>0, <1>7 DEF TypeOK, SpawnFails, MaybeProc, hgVars
<1>8. CASE WriteIsUndefined
  BY <1>0, <1>8 DEF TypeOK, WriteIsUndefined, AtWrite, handleVars
<1>9. CASE PrepareFails \/ WriteFails
  <2>1. answer' \in [Commands -> Answers] /\ at' \in {"loop", "complete"}
    BY <1>0, <1>9, CompleteFrontType, FailedIsAnswer DEF PrepareFails, WriteFails, FailFront
  <2>. QED
    BY <2>1, <1>0, <1>9 DEF TypeOK, PrepareFails, WriteFails, AtWrite, handleVars
<1>10. CASE WriteCommand
  <2>1. inbox' \in [Procs -> Seq(Commands)]
    <3>1. pipes \in Procs /\ Front \in Commands
      BY <1>0, <1>10, FrontInCommands DEF TypeOK, WriteCommand, MaybeProc
    <3>2. inbox[pipes] \in Seq(Commands)
      BY <3>1, <1>0 DEF TypeOK
    <3>3. Append(inbox[pipes], Front) \in Seq(Commands)
      BY <3>1, <3>2
    <3>4. inbox' = inbox \/ inbox' = [inbox EXCEPT ![pipes] = Append(inbox[pipes], Front)]
      BY <1>10 DEF WriteCommand
    <3>5. inbox \in [Procs -> Seq(Commands)]
      BY <1>0 DEF TypeOK
    <3>. QED
      BY <3>1, <3>3, <3>4, <3>5
  <2>. QED
    BY <2>1, <1>0, <1>10 DEF TypeOK, WriteCommand, AtWrite, handleVars
<1>11. ASSUME NEW p \in Procs, ReadHello(p) PROVE TypeOK'
  <2>1. outbox' \in [Procs -> Seq(Messages)]
    BY <1>0, <1>11 DEF TypeOK, ReadHello, ReadFrom
  <2>. QED
    BY <2>1, <1>0, <1>11 DEF TypeOK, ReadHello, ReadFrom
<1>12. ASSUME NEW p \in Procs, ReadAnswer(p) PROVE TypeOK'
  <2>1. outbox' \in [Procs -> Seq(Messages)]
    BY <1>0, <1>12 DEF TypeOK, ReadAnswer, ReadFrom
  <2>2. AnswerTo(Head(outbox[p])) \in Answers
    <3>1. Head(outbox[p]) \in Messages /\ Head(outbox[p]).kind # "hello"
      BY <1>0, <1>12 DEF TypeOK, ReadAnswer, ReadFrom
    <3>. QED
      BY <3>1 DEF Messages, Hello, AnswerTo, Answers, Kinds
  <2>3. answer' \in [Commands -> Answers] /\ at' \in {"loop", "complete"}
    BY <1>0, <1>12, <2>2, CompleteFrontType DEF ReadAnswer
  <2>. QED
    BY <2>1, <2>3, <1>0, <1>12 DEF TypeOK, ReadAnswer, ReadFrom
<1>13. ASSUME NEW p \in Procs, OnProcessExit(p) PROVE TypeOK'
  <2>1. queue # <<>> => [kind |-> "exited", of |-> Front] \in Answers
    BY <1>0, FrontInCommands DEF Answers, Kinds
  <2>2. answer' \in [Commands -> Answers] /\ at' \in {"loop", "complete"}
    BY <1>0, <1>13, <2>1, CompleteFrontType DEF OnProcessExit
  <2>. QED
    BY <2>2, <1>0, <1>13 DEF TypeOK, OnProcessExit, handleVars, MaybeProc
<1>14. ASSUME NEW p \in Procs, ProcessClosed(p) PROVE TypeOK'
  <2>1. /\ stop' \in {"none", "sigint", "sigkill", "done"}
        /\ signal' \in [Procs -> {"none", "int", "kill"}]
    BY <1>0, <1>14 DEF TypeOK, ProcessClosed, StopResumed
  <2>2. inbox' \in [Procs -> Seq(Commands)] /\ outbox' \in [Procs -> Seq(Messages)]
    BY <1>0, <1>14 DEF TypeOK, ProcessClosed
  <2>3. process' \in MaybeProc /\ processToStop' \in MaybeProc
    BY <1>0, <1>14 DEF TypeOK, ProcessClosed, MaybeProc
  <2>. QED
    BY <2>1, <2>2, <2>3, <1>0, <1>14 DEF TypeOK, ProcessClosed, selfVars
<1>15. CASE OnProcessExitReset
  <2>1. ExitedHandle \in Procs
    BY <1>0, <1>15 DEF TypeOK, HandleInv, OnProcessExitReset, ExitedHandle, MaybeProc
  <2>. QED
    BY <2>1, <1>0, <1>15 DEF TypeOK, OnProcessExitReset, selfVars, hgVars, MaybeProc
<1>16. CASE StopTimer
  <2>1. /\ stop' \in {"none", "sigint", "sigkill", "done"}
        /\ signal' \in [Procs -> {"none", "int", "kill"}]
    BY <1>0, <1>16 DEF TypeOK, StopTimer, StopResumed
  <2>. QED
    BY <2>1, <1>0, <1>16 DEF TypeOK, StopTimer, selfVars, handleVars
<1>17. CASE Shutdown
  <2>1. signal' \in [Procs -> {"none", "int", "kill"}]
    BY <1>0, <1>17 DEF TypeOK, Shutdown
  <2>. QED
    BY <2>1, <1>0, <1>17 DEF TypeOK, Shutdown, selfVars, MaybeProc
<1>18. ASSUME NEW p \in Procs, HgHello(p) PROVE TypeOK'
  <2>1. outbox' \in [Procs -> Seq(Messages)]
    BY <1>0, <1>18 DEF TypeOK, HgHello, Messages
  <2>. QED
    BY <2>1, <1>0, <1>18 DEF TypeOK, HgHello, selfVars, handleVars
<1>19. ASSUME NEW p \in Procs, NEW k \in {"result", "I", "L"}, HgReply(p, k),
              os' \in [Procs -> {"unborn", "starting", "serving", "asking", "exited", "reaped"}]
       PROVE  TypeOK'
  <2>1. [kind |-> k, of |-> Head(inbox[p])] \in Messages
    BY <1>0, <1>19 DEF TypeOK, HgReply, Messages
  <2>2. outbox' \in [Procs -> Seq(Messages)] /\ inbox' \in [Procs -> Seq(Commands)]
    BY <2>1, <1>0, <1>19 DEF TypeOK, HgReply
  <2>. QED
    BY <2>2, <1>0, <1>19 DEF TypeOK, HgReply, selfVars, handleVars
<1>20. ASSUME NEW p \in Procs, HgAnswer(p) PROVE TypeOK'
  BY <1>0, <1>19, <1>20 DEF HgAnswer, TypeOK
<1>21. ASSUME NEW p \in Procs, HgPrompt(p) PROVE TypeOK'
  BY <1>0, <1>19, <1>21 DEF HgPrompt, TypeOK
<1>22. ASSUME NEW p \in Procs, HgDies(p) PROVE TypeOK'
  BY <1>0, <1>22 DEF TypeOK, HgDies, selfVars, handleVars
<1>23. CASE UNCHANGED vars
  BY <1>0, <1>23 DEF TypeOK, vars, selfVars, handleVars, hgVars
<1>. QED
  BY <1>1, <1>2, <1>3, <1>4, <1>5, <1>6, <1>7, <1>8, <1>9, <1>10, <1>11, <1>12, <1>13,
     <1>14, <1>15, <1>16, <1>17, <1>18, <1>20, <1>21, <1>22, <1>23
  DEF Next, Loop, Runner, Hg, HgExits, HgInterrupted, HgKilled

-----------------------------------------------------------------------------
(* No step lets a handle go astray.                                        *)
LEMMA HandleStep ==
  ASSUME IInv, [Next]_vars
  PROVE  HandleInv'
<1> USE ConstantsAssumption
<1>0. TypeOK /\ HandleInv /\ QueueInv
  BY DEF IInv
<1>1. ASSUME NEW c \in Commands, RunCommand(c) PROVE HandleInv'
  BY <1>0, <1>1 DEF HandleInv, RunCommand, MaySubmit, handleVars, hgVars
<1>2. ASSUME NEW c \in Commands, TakeAnswer(c) PROVE HandleInv'
  BY <1>0, <1>2 DEF HandleInv, TakeAnswer, handleVars, hgVars
<1>3. CASE PopAndScheduleNext
  BY <1>0, <1>3 DEF HandleInv, PopAndScheduleNext, Popping, handleVars, hgVars
<1>4. CASE AlreadyStarted
  BY <1>0, <1>4 DEF HandleInv, AlreadyStarted, selfVars, handleVars, hgVars
<1>5. ASSUME NEW p \in Procs, Spawned(p), at' # "schedule" PROVE HandleInv'
  BY <1>0, <1>5 DEF TypeOK, HandleInv, Spawned, MaybeProc
<1>6. ASSUME NEW p \in Procs, StartHgProcess(p) \/ StartHgProcessDeaf(p) PROVE HandleInv'
  <2>1. at' # "schedule"
    BY <1>0, <1>6, CompleteFrontType, FailedIsAnswer
    DEF StartHgProcess, StartHgProcessDeaf, FailFront
  <2>. QED
    BY <2>1, <1>5, <1>6 DEF StartHgProcess, StartHgProcessDeaf
<1>7. CASE SpawnFails
  <2>1. at' # "schedule"
    BY <1>0, <1>7, CompleteFrontType, FailedIsAnswer DEF SpawnFails, FailFront
  <2>. QED
    BY <2>1, <1>0, <1>7 DEF HandleInv, SpawnFails, hgVars
<1>8. CASE WriteIsUndefined
  BY <1>0, <1>8 DEF HandleInv, WriteIsUndefined, AtWrite, handleVars
<1>9. CASE PrepareFails \/ WriteFails
  <2>1. at' # "schedule"
    BY <1>0, <1>9, CompleteFrontType, FailedIsAnswer DEF PrepareFails, WriteFails, FailFront
  <2>. QED
    BY <2>1, <1>0, <1>9 DEF HandleInv, PrepareFails, WriteFails, AtWrite, handleVars
<1>10. CASE WriteCommand
  BY <1>0, <1>10 DEF HandleInv, WriteCommand, AtWrite, handleVars
<1>11. ASSUME NEW p \in Procs, ReadHello(p) PROVE HandleInv'
  BY <1>0, <1>11 DEF HandleInv, ReadHello, ReadFrom
<1>12. ASSUME NEW p \in Procs, ReadAnswer(p) PROVE HandleInv'
  BY <1>0, <1>12 DEF HandleInv, ReadAnswer, ReadFrom, CompleteFront
<1>13. ASSUME NEW p \in Procs, OnProcessExit(p) PROVE HandleInv'
  <2>1. at' # "schedule"
    BY <1>13 DEF OnProcessExit, CompleteFront
  <2>. QED
    BY <2>1, <1>0, <1>13 DEF TypeOK, HandleInv, OnProcessExit, handleVars
<1>14. ASSUME NEW p \in Procs, ProcessClosed(p) PROVE HandleInv'
  <2>1. os[p] = "reaped" /\ p \in {process, processToStop} /\ exiting = NoProc
    BY <1>0, <1>14 DEF HandleInv, ProcessClosed, Quiet
  <2>2. CASE processToStop = p
    <3>1. stop # "none" /\ process = NoProc /\ stop' # "none"
      BY <2>2, <1>0, <1>14 DEF HandleInv, ProcessClosed, StopResumed
    <3>. QED
      BY <3>1, <2>1, <2>2, <1>0, <1>14 DEF TypeOK, HandleInv, ProcessClosed, Quiet
  <2>3. CASE processToStop # p
    <3>1. process = p /\ stop = "none" /\ stop' = "none" /\ processToStop = NoProc
      BY <2>1, <2>3, <1>0, <1>14 DEF HandleInv, ProcessClosed, StopResumed
    <3>. QED
      BY <3>1, <2>1, <2>3, <1>0, <1>14 DEF TypeOK, HandleInv, ProcessClosed, Quiet
  <2>. QED
    BY <2>2, <2>3
<1>15. CASE OnProcessExitReset
  <2>1. ExitedHandle = exiting /\ os[exiting] = "reaped" /\ exiting \in Procs
    BY <1>0, <1>15 DEF TypeOK, HandleInv, OnProcessExitReset, ExitedHandle, MaybeProc
  <2>. QED
    BY <2>1, <1>0, <1>15 DEF HandleInv, OnProcessExitReset, hgVars
<1>16. CASE StopTimer
  <2>1. stop # "none" /\ stop' # "none"
    BY <1>16 DEF StopTimer, StopResumed
  <2>. QED
    BY <2>1, <1>0, <1>16 DEF HandleInv, StopTimer, Quiet, handleVars
<1>17. CASE Shutdown
  BY <1>0, <1>17 DEF TypeOK, HandleInv, Shutdown, Quiet, MaybeProc
<1>18. ASSUME NEW p \in Procs, HgHello(p) PROVE HandleInv'
  BY <1>0, <1>18 DEF TypeOK, HandleInv, HgHello, handleVars, MaybeProc
<1>19. ASSUME NEW p \in Procs, HgAnswer(p) PROVE HandleInv'
  BY <1>0, <1>19 DEF TypeOK, HandleInv, HgAnswer, HgReply, handleVars, MaybeProc
<1>20. ASSUME NEW p \in Procs, HgPrompt(p) PROVE HandleInv'
  BY <1>0, <1>20 DEF TypeOK, HandleInv, HgPrompt, HgReply, handleVars, MaybeProc
<1>21. ASSUME NEW p \in Procs, HgDies(p) PROVE HandleInv'
  BY <1>0, <1>21 DEF TypeOK, HandleInv, HgDies, Running, handleVars, MaybeProc
<1>22. CASE UNCHANGED vars
  BY <1>0, <1>22 DEF HandleInv, vars, handleVars, hgVars
<1>. QED
  BY <1>1, <1>2, <1>3, <1>4, <1>6, <1>7, <1>8, <1>9, <1>10, <1>11, <1>12, <1>13,
     <1>14, <1>15, <1>16, <1>17, <1>18, <1>19, <1>20, <1>21, <1>22
  DEF Next, Loop, Runner, Hg, HgExits, HgInterrupted, HgKilled

-----------------------------------------------------------------------------
(* The queue.  Each lemma is one way a step changes it.                    *)

(* A caller that was not in the queue joins its end.                       *)
LEMMA JoinQueue ==
  ASSUME NEW s \in Seq(Commands), NEW c \in Commands, IsInjective(s), c \notin Range(s)
  PROVE  IsInjective(Append(s, c)) /\ Range(Append(s, c)) = Range(s) \cup {c}
<1> DEFINE t == Append(s, c)
<1>1. /\ Len(s) \in Nat /\ DOMAIN s = 1..Len(s) /\ DOMAIN t = 1..Len(s) \cup {Len(s) + 1}
      /\ t[Len(s) + 1] = c /\ Len(s) + 1 \notin DOMAIN s
      /\ \A i \in DOMAIN s : t[i] = s[i]
  OBVIOUS
<1> HIDE DEF t
<1>2. Range(t) = Range(s) \cup {c}
  BY <1>1 DEF Range
<1>3. IsInjective(t)
  BY <1>1 DEF IsInjective, Range
<1>. QED
  BY <1>2, <1>3 DEF t

(* The front leaves.                                                       *)
LEMMA LeaveQueue ==
  ASSUME NEW s \in Seq(Commands), s # <<>>, IsInjective(s)
  PROVE  IsInjective(Tail(s)) /\ Range(Tail(s)) = Range(s) \ {Head(s)}
<1> DEFINE t == Tail(s)
<1>1. /\ Len(s) \in Nat \ {0} /\ DOMAIN s = 1..Len(s) /\ DOMAIN t = 1..(Len(s) - 1)
      /\ \A i \in DOMAIN t : i + 1 \in DOMAIN s /\ t[i] = s[i + 1]
      /\ 1 \in DOMAIN s /\ Head(s) = s[1]
  OBVIOUS
<1> HIDE DEF t
<1>2. IsInjective(t)
  BY <1>1 DEF IsInjective
<1>3. ASSUME NEW i \in DOMAIN t PROVE t[i] \in Range(s) \ {Head(s)}
  <2>1. i + 1 \in DOMAIN s /\ i + 1 # 1 /\ t[i] = s[i + 1]
    BY <1>1
  <2>. QED
    BY <2>1, <1>1 DEF IsInjective, Range
<1>4. ASSUME NEW k \in DOMAIN s, s[k] # Head(s) PROVE s[k] \in Range(t)
  <2>1. k - 1 \in DOMAIN t /\ t[k - 1] = s[(k - 1) + 1] /\ (k - 1) + 1 = k
    BY <1>1, <1>4
  <2>. QED
    BY <2>1 DEF Range
<1>5. Range(t) = Range(s) \ {Head(s)}
  BY <1>3, <1>4 DEF Range
<1>. QED
  BY <1>2, <1>5 DEF t

(* The front is answered, with anything but "waiting".                     *)
LEMMA AnswerFront ==
  ASSUME IInv, at # "complete", NEW a, a.kind # "waiting", CompleteFront(a),
         queue' = queue, commandInFlight' = commandInFlight
  PROVE  QueueInv'
<1>0. TypeOK /\ QueueInv
  BY DEF IInv
<1>1. CASE queue = <<>>
  BY <1>0, <1>1 DEF QueueInv, FlagMatchesQueue, QueueHoldsWaiting, Pending, Waiting,
                    CompleteFront, IsInjective, Range
<1>2. CASE queue # <<>>
  <2>1. at' = "complete" /\ answer' = [answer EXCEPT ![Front] = a]
    BY <1>0, <1>2 DEF QueueInv, FlagMatchesQueue, CompleteFront
  <2>2. Pending = queue /\ Pending' = Tail(queue)
    BY <2>1 DEF Pending
  <2>3. queue \in Seq(Commands) /\ IsInjective(queue)
    BY <1>0, <2>2 DEF TypeOK, QueueInv, QueueHoldsWaiting
  <2>4. IsInjective(Tail(queue)) /\ Range(Tail(queue)) = Range(queue) \ {Front}
    BY <2>3, <1>2, LeaveQueue DEF Front
  <2>5. Front \in Commands
    BY <1>0, <1>2, FrontInCommands
  <2>6. {c \in Commands : Waiting(c)'} = {c \in Commands : Waiting(c)} \ {Front}
    BY <2>1, <2>5, <1>0 DEF TypeOK, Waiting
  <2>7. IsInjective(Pending') /\ Range(Pending') = {c \in Commands : Waiting(c)'}
    BY <2>2, <2>4, <2>6, <1>0 DEF QueueInv, QueueHoldsWaiting
  <2>. QED
    BY <2>1, <2>7, <1>0, <1>2 DEF QueueInv, FlagMatchesQueue, QueueHoldsWaiting, IsInjective, Range
<1>. QED
  BY <1>1, <1>2

(* Nothing happens to the queue, and nobody starts or stops waiting.       *)
LEMMA SameQueue ==
  ASSUME IInv, at # "complete", at' # "complete",
         queue' = queue, commandInFlight' = commandInFlight,
         \A c \in Commands : Waiting(c)' <=> Waiting(c)
  PROVE  QueueInv'
BY DEF IInv, QueueInv, FlagMatchesQueue, QueueHoldsWaiting, Pending

LEMMA QueueStep ==
  ASSUME IInv, [Next]_vars
  PROVE  QueueInv'
<1>0. TypeOK /\ HandleInv /\ QueueInv
  BY DEF IInv
<1>1. ASSUME NEW c \in Commands, RunCommand(c) PROVE QueueInv'
  <2>1. /\ queue' = Append(queue, c) /\ commandInFlight' = TRUE
        /\ answer' = [answer EXCEPT ![c] = [kind |-> "waiting", of |-> c]]
        /\ ~Waiting(c)
        /\ at' = IF commandInFlight THEN at ELSE "schedule"
    BY <1>1 DEF RunCommand, MaySubmit, Waiting
  <2>2. at' = "complete" <=> at = "complete"
    BY <2>1, <1>0 DEF QueueInv, FlagMatchesQueue
  <2>3. Pending \in Seq(Commands) /\ Pending' = Append(Pending, c)
    <3>1. CASE at = "complete"
      <4>1. queue # <<>> /\ queue \in Seq(Commands)
        BY <3>1, <1>0 DEF TypeOK, QueueInv
      <4>2. Tail(Append(queue, c)) = Append(Tail(queue), c) /\ Tail(queue) \in Seq(Commands)
        BY <4>1
      <4>. QED
        BY <4>2, <3>1, <2>1, <2>2 DEF Pending
    <3>2. CASE at # "complete"
      BY <3>2, <2>1, <2>2, <1>0 DEF Pending, TypeOK
    <3>. QED
      BY <3>1, <3>2
  <2>4. c \notin Range(Pending) /\ IsInjective(Pending)
    BY <2>1, <1>0 DEF QueueInv, QueueHoldsWaiting
  <2>5. IsInjective(Append(Pending, c)) /\ Range(Append(Pending, c)) = Range(Pending) \cup {c}
    BY <2>3, <2>4, JoinQueue
  <2>6. {d \in Commands : Waiting(d)'} = {d \in Commands : Waiting(d)} \cup {c}
    BY <2>1, <1>0 DEF TypeOK, Waiting
  <2>7. IsInjective(Pending') /\ Range(Pending') = {d \in Commands : Waiting(d)'}
    BY <2>3, <2>5, <2>6, <1>0 DEF QueueInv, QueueHoldsWaiting
  <2>8. queue' # <<>>
    <3>1. queue' = Append(queue, c) /\ queue \in Seq(Commands) /\ c \in Commands
      BY <2>1, <1>0 DEF TypeOK
    <3>. QED
      BY <3>1
  <2>. QED
    BY <2>1, <2>7, <2>8 DEF QueueInv, FlagMatchesQueue, QueueHoldsWaiting, IsInjective, Range
<1>2. ASSUME NEW c \in Commands, TakeAnswer(c) PROVE QueueInv'
  <2>1. /\ queue' = queue /\ commandInFlight' = commandInFlight /\ at' = at
        /\ \A d \in Commands : Waiting(d)' <=> Waiting(d)
    BY <1>0, <1>2 DEF TypeOK, TakeAnswer, Waiting
  <2>2. Pending' = Pending
    BY <2>1 DEF Pending
  <2>. QED
    BY <2>1, <2>2, <1>0 DEF QueueInv, FlagMatchesQueue, QueueHoldsWaiting
<1>3. CASE PopAndScheduleNext
  <2>1. /\ at = "complete" /\ at' # "complete" /\ queue' = Tail(queue)
        /\ commandInFlight' = (Tail(queue) # <<>>) /\ answer' = answer
    BY <1>3 DEF PopAndScheduleNext, Popping
  <2>2. Pending' = Pending
    BY <2>1 DEF Pending
  <2>. QED
    BY <2>1, <2>2, <1>0 DEF QueueInv, FlagMatchesQueue, QueueHoldsWaiting, Waiting
<1>4. CASE AlreadyStarted \/ WriteIsUndefined \/ WriteCommand
  BY <1>4, SameQueue
  DEF AlreadyStarted, WriteIsUndefined, WriteCommand, AtWrite, selfVars, Waiting
<1>5. ASSUME NEW p \in Procs, StartHgProcess(p) PROVE QueueInv'
  BY <1>5, SameQueue DEF StartHgProcess, Spawned, Waiting
<1>6. ASSUME FailFront, at # "complete", queue' = queue, commandInFlight' = commandInFlight
      PROVE  QueueInv'
  BY <1>6, AnswerFront DEF FailFront
<1>7. ASSUME NEW p \in Procs, StartHgProcessDeaf(p) PROVE QueueInv'
  BY <1>6, <1>7 DEF StartHgProcessDeaf, Spawned
<1>8. CASE SpawnFails \/ PrepareFails \/ WriteFails
  BY <1>6, <1>8 DEF SpawnFails, PrepareFails, WriteFails, AtWrite
<1>9. ASSUME NEW p \in Procs, ReadHello(p) PROVE QueueInv'
  BY <1>9, SameQueue DEF ReadHello, ReadFrom, Quiet, Waiting
<1>10. ASSUME NEW p \in Procs, ReadAnswer(p) PROVE QueueInv'
  <2>1. AnswerTo(Head(outbox[p])).kind # "waiting"
    BY DEF AnswerTo
  <2>. QED
    BY <1>10, <2>1, AnswerFront DEF ReadAnswer, ReadFrom, Quiet
<1>11. ASSUME NEW p \in Procs, OnProcessExit(p) PROVE QueueInv'
  BY <1>11, AnswerFront DEF OnProcessExit, Quiet
<1>12. ASSUME NEW p \in Procs, ProcessClosed(p) PROVE QueueInv'
  BY <1>12, SameQueue DEF ProcessClosed, Quiet, selfVars, Waiting
<1>13. CASE OnProcessExitReset \/ StopTimer \/ Shutdown
  BY <1>13, SameQueue DEF OnProcessExitReset, StopTimer, Shutdown, Quiet, selfVars, Waiting
<1>14. ASSUME UNCHANGED <<selfVars, at>> PROVE QueueInv'
  BY <1>0, <1>14
  DEF QueueInv, FlagMatchesQueue, QueueHoldsWaiting, Pending, Waiting, selfVars
<1>15. ASSUME NEW p \in Procs, Hg(p) \/ HgPrompt(p) \/ HgDies(p) PROVE QueueInv'
  BY <1>14, <1>15 DEF Hg, HgHello, HgAnswer, HgPrompt, HgReply, HgDies
<1>16. CASE UNCHANGED vars
  BY <1>14, <1>16 DEF vars
<1>. QED
  BY <1>1, <1>2, <1>3, <1>4, <1>5, <1>7, <1>8, <1>9, <1>10, <1>11, <1>12, <1>13,
     <1>15, <1>16
  DEF Next, Loop, Runner, HgExits, HgInterrupted, HgKilled

-----------------------------------------------------------------------------
LEMMA InitInv == Init => IInv
<1> SUFFICES ASSUME Init PROVE IInv
  OBVIOUS
<1> USE ConstantsAssumption
<1>1. TypeOK
  <2>1. answer \in [Commands -> Answers]
    BY DEF Init, Answers, Kinds
  <2>2. /\ queue \in Seq(Commands)
        /\ inbox \in [Procs -> Seq(Commands)] /\ outbox \in [Procs -> Seq(Messages)]
    BY DEF Init
  <2>. QED
    BY <2>1, <2>2 DEF Init, TypeOK, MaybeProc
<1>2. HandleInv
  BY DEF Init, HandleInv
<1>3. QueueInv
  BY DEF Init, QueueInv, FlagMatchesQueue, QueueHoldsWaiting, Pending, Waiting,
         IsInjective, Range
<1>. QED
  BY <1>1, <1>2, <1>3 DEF IInv

(* The inductive invariant holds throughout.                               *)
THEOREM Invariance == Spec => []IInv
<1>1. IInv /\ [Next]_vars => IInv'
  BY TypeStep, HandleStep, QueueStep DEF IInv
<1>. QED
  BY InitInv, <1>1, PTL DEF Spec

(* Every variable keeps its type; in particular onProcessExit never hands  *)
(* a null pointer to uv_close.                                             *)
THEOREM TypeCorrect == Spec => []TypeOK
<1>1. IInv => TypeOK
  BY DEF IInv
<1>. QED
  BY Invariance, <1>1, PTL

(* No command is dropped, answered twice or popped unanswered, whatever    *)
(* fails and however callers and callbacks interleave.                     *)
THEOREM NoCommandLost == Spec => []QueueHoldsWaiting
<1>1. IInv => QueueHoldsWaiting
  BY DEF IInv, QueueInv
<1>. QED
  BY Invariance, <1>1, PTL

(* commandInFlight is raised exactly while the queue is not empty.         *)
THEOREM FlagIsExact == Spec => []FlagMatchesQueue
<1>1. IInv => FlagMatchesQueue
  BY DEF IInv, QueueInv
<1>. QED
  BY Invariance, <1>1, PTL

(* There are never two hg children.                                        *)
THEOREM OnlyOneServer == Spec => []OneServer
<1>1. IInv => OneServer
  BY ConstantsAssumption DEF IInv, HandleInv, OneServer
<1>. QED
  BY Invariance, <1>1, PTL

(***************************************************************************)
(* What hg says next can only reach the caller it is meant for, and so     *)
(* HgProcess implements CommandService.                                    *)
(***************************************************************************)

(* What an hg child may owe: nothing, an answer, or one that is underway.  *)
(* Hello comes first, if it has not been read yet.                         *)
Replies == [kind : {"result"} \cup Prompts, of : Commands]
Greetings == {<<>>, <<Hello>>}

Silent(p) == inbox[p] = <<>> /\ outbox[p] \in Greetings
Asked(p) == inbox[p] = <<Front>> /\ outbox[p] \in Greetings
Answered(p) ==
  /\ inbox[p] = <<>>
  /\ \E m \in Replies : m.of = Front /\ outbox[p] \in {<<m>>, <<Hello, m>>}

(* Only while the thread waits for the front is something owed, and a      *)
(* child whose hello is awaited owes nothing: so whatever is written next  *)
(* goes to a child that owes nothing.                                      *)
ChildInv(p) ==
  /\ os[p] # "reaped" =>
       Silent(p) \/ (at = "loop" /\ queue # <<>> /\ (Asked(p) \/ Answered(p)))
  /\ os[p] = "unborn" => inbox[p] = <<>>
  /\ os[p] \in {"unborn", "starting"} => outbox[p] = <<>>
  /\ p \in awaitingHello /\ os[p] \notin {"unborn", "reaped"} =>
       at = "loop" /\ queue # <<>> /\ Silent(p)
  /\ os[p] = "reaped" /\ pipes = p => exiting = p

OutInv ==
  /\ \A p \in Procs : ChildInv(p)
  /\ at \in {"schedule", "write"} => queue # <<>>

-----------------------------------------------------------------------------
(* Sequences of at most two elements.                                      *)
LEMMA Short ==
  ASSUME NEW a, NEW b
  PROVE  /\ Append(<<>>, a) = <<a>> /\ Append(<<a>>, b) = <<a, b>>
         /\ Head(<<a>>) = a /\ Tail(<<a>>) = <<>>
         /\ Head(<<a, b>>) = a /\ Tail(<<a, b>>) = <<b>>
         /\ <<a>> # <<>> /\ <<a, b>> # <<>>
<1> DEFINE s == Append(<<a>>, b)
           t == <<a, b>>
<1>1. <<a>> \in Seq({a, b}) /\ t \in Seq({a, b}) /\ b \in {a, b}
  OBVIOUS
<1>2. s \in Seq({a, b}) /\ Len(s) = 2 /\ s[1] = a /\ s[2] = b
  BY <1>1
<1>3. Len(t) = 2 /\ t[1] = a /\ t[2] = b
  OBVIOUS
<1>4. s = t
  <2> HIDE DEF s, t
  <2>1. \A i \in 1..Len(s) : s[i] = t[i]
    BY <1>2, <1>3
  <2>. QED
    BY <2>1, <1>1, <1>2, <1>3, SeqEqual
<1>5. Append(<<a>>, b) = <<a, b>>
  BY <1>4
<1>6. /\ Append(<<>>, a) = <<a>>
      /\ Head(<<a>>) = a /\ Tail(<<a>>) = <<>>
      /\ Head(<<a, b>>) = a /\ Tail(<<a, b>>) = <<b>>
      /\ <<a>> # <<>> /\ <<a, b>> # <<>>
  OBVIOUS
<1>. QED
  BY <1>5, <1>6

(* A reply is not a hello.                                                 *)
LEMMA RepliesAreReplies ==
  ASSUME NEW m \in Replies
  PROVE  m # Hello /\ m.kind # "hello" /\ m.kind \in {"result"} \cup Prompts
<1>1. m.kind \in {"result"} \cup Prompts
  BY DEF Replies
<1>2. m.kind # "hello"
  BY <1>1, ConstantsAssumption
<1>. QED
  BY <1>1, <1>2 DEF Hello

(* Nothing is owed while the thread is elsewhere, or nobody waits; a step  *)
(* that leaves the children alone then changes nothing here.               *)
LEMMA StaySilent ==
  ASSUME OutInv, at # "loop" \/ queue = <<>>, at' \in {"schedule", "write"} => queue' # <<>>,
         UNCHANGED <<os, inbox, outbox, awaitingHello, exiting>>,
         pipes' \in {pipes, NoProc}
  PROVE  OutInv'
<1>1. ASSUME NEW p \in Procs PROVE ChildInv(p)'
  <2>1. /\ ChildInv(p) /\ (Silent(p)' <=> Silent(p))
        /\ pipes' = p => pipes = p
    BY ConstantsAssumption DEF OutInv, Silent
  <2>. QED
    BY <2>1 DEF ChildInv
<1>. QED
  BY <1>1 DEF OutInv

(* Neither does one that keeps the front, and the thread where it is.      *)
LEMMA SameFront ==
  ASSUME OutInv, at' = at, queue # <<>> => Front' = Front /\ queue' # <<>>,
         UNCHANGED <<os, inbox, outbox, awaitingHello, exiting, pipes>>
  PROVE  OutInv'
<1>1. ASSUME NEW p \in Procs PROVE ChildInv(p)'
  <2>1. /\ ChildInv(p) /\ (Silent(p)' <=> Silent(p))
        /\ queue # <<>> => (Asked(p)' <=> Asked(p)) /\ (Answered(p)' <=> Answered(p))
    BY DEF OutInv, Silent, Asked, Answered
  <2>. QED
    BY <2>1 DEF ChildInv
<1>. QED
  BY <1>1 DEF OutInv

(* With one child there, the others are unborn, and what happens to this   *)
(* one is all there is to look at.                                         *)
LEMMA OneChild ==
  ASSUME OutInv, NEW p \in Procs,
         \A q \in Procs \ {p} : /\ os[q] = "unborn" /\ os'[q] = "unborn"
                                /\ inbox'[q] = inbox[q] /\ outbox'[q] = outbox[q],
         ChildInv(p)', at' \in {"schedule", "write"} => queue' # <<>>
  PROVE  OutInv'
<1>1. ASSUME NEW q \in Procs, q # p PROVE ChildInv(q)'
  BY <1>1 DEF OutInv, ChildInv, Silent, Greetings
<1>. QED
  BY <1>1 DEF OutInv

(* Which is the case whenever something happens to a child.                *)
LEMMA OthersUnborn ==
  ASSUME HandleInv, NEW p \in Procs, os[p] # "unborn"
  PROVE  \A q \in Procs \ {p} : os[q] = "unborn"
BY ConstantsAssumption DEF HandleInv

-----------------------------------------------------------------------------
(* No step lets an answer go astray.                                       *)
LEMMA OutStep ==
  ASSUME IInv, OutInv, [Next]_vars
  PROVE  OutInv'
<1> USE ConstantsAssumption
<1>0. TypeOK /\ HandleInv /\ QueueInv
  BY DEF IInv
<1>1. ASSUME NEW c \in Commands, RunCommand(c) PROVE OutInv'
  <2>1. /\ queue' = Append(queue, c) /\ at' = IF commandInFlight THEN at ELSE "schedule"
        /\ UNCHANGED <<os, inbox, outbox, awaitingHello, exiting, pipes>>
    BY <1>1 DEF RunCommand, MaySubmit, handleVars, hgVars
  <2>2. CASE queue = <<>>
    BY <2>1, <2>2, StaySilent
  <2>3. CASE queue # <<>>
    <3>1. Front' = Front /\ queue' # <<>> /\ at' = at
      BY <2>1, <2>3, <1>0 DEF TypeOK, QueueInv, FlagMatchesQueue, Front
    <3>. QED
      BY <2>1, <3>1, SameFront
  <2>. QED
    BY <2>2, <2>3
<1>2. ASSUME UNCHANGED <<queue, at, os, inbox, outbox, awaitingHello, exiting, pipes>>
      PROVE  OutInv'
  BY <1>2, SameFront DEF Front
<1>3. ASSUME NEW c \in Commands, TakeAnswer(c) PROVE OutInv'
  BY <1>3, <1>2 DEF TakeAnswer, handleVars, hgVars
<1>4. CASE PopAndScheduleNext \/ AlreadyStarted \/ SpawnFails
  BY <1>4, StaySilent
  DEF PopAndScheduleNext, Popping, AlreadyStarted, SpawnFails, FailFront, CompleteFront,
      OutInv, selfVars, handleVars, hgVars
<1>5. CASE WriteIsUndefined \/ PrepareFails \/ WriteFails
  BY <1>5, StaySilent
  DEF WriteIsUndefined, PrepareFails, WriteFails, AtWrite, FailFront, CompleteFront,
      OutInv, handleVars
<1>6. ASSUME NEW p \in Procs, Spawned(p),
             \/ awaitingHello' = awaitingHello /\ at' \notin {"schedule", "write"}
             \/ awaitingHello' = awaitingHello \cup {p} /\ at' = "loop"
      PROVE  OutInv'
  <2>1. /\ at = "schedule" /\ queue # <<>> /\ os[p] = "unborn" /\ p \notin awaitingHello
        /\ process = NoProc /\ os' = [os EXCEPT ![p] = "starting"]
        /\ queue' = queue /\ inbox' = inbox /\ outbox' = outbox
    BY <1>6 DEF Spawned, OutInv
  <2>2. \A q \in Procs \ {p} : os[q] = "unborn" /\ os'[q] = "unborn"
    BY <2>1, <1>0 DEF HandleInv, TypeOK
  <2>3. os'[p] = "starting" /\ inbox'[p] = <<>> /\ outbox'[p] = <<>>
    BY <2>1, <1>0 DEF OutInv, ChildInv, TypeOK
  <2>4. ChildInv(p)'
    BY <2>1, <2>3, <1>6 DEF ChildInv, Silent, Greetings
  <2>. QED
    BY <2>1, <2>2, <2>4, <1>6, OneChild
<1>7. ASSUME NEW p \in Procs, StartHgProcess(p) PROVE OutInv'
  BY <1>6, <1>7 DEF StartHgProcess
<1>8. ASSUME NEW p \in Procs, StartHgProcessDeaf(p) PROVE OutInv'
  BY <1>6, <1>8 DEF StartHgProcessDeaf, FailFront, CompleteFront
<1>9. CASE WriteCommand
  <2>1. /\ at = "write" /\ at' = "loop" /\ queue # <<>> /\ pipes # NoProc
        /\ inbox' = IF Running(pipes) THEN [inbox EXCEPT ![pipes] = Append(@, Front)] ELSE inbox
        /\ UNCHANGED <<queue, os, outbox, awaitingHello, exiting, pipes>>
    BY <1>9 DEF WriteCommand, AtWrite, handleVars
  <2>2. pipes \in Procs /\ Front' = Front
    BY <2>1, <1>0 DEF TypeOK, MaybeProc, Front
  <2>3. CASE ~Running(pipes)
    BY <2>1, <2>3, StaySilent
  <2>4. CASE Running(pipes)
    <3>1. os[pipes] \notin {"unborn", "reaped"} /\ Silent(pipes) /\ pipes \notin awaitingHello
      BY <2>1, <2>2, <2>4 DEF OutInv, ChildInv, Running
    <3>2. inbox'[pipes] = <<Front>>
      BY <2>1, <2>2, <2>4, <3>1, <1>0, Short DEF TypeOK, Silent
    <3>3. ChildInv(pipes)'
      BY <3>1, <3>2, <2>1, <2>2 DEF OutInv, ChildInv, Asked, Silent
    <3>4. \A q \in Procs \ {pipes} : /\ os[q] = "unborn" /\ os'[q] = "unborn"
                                     /\ inbox'[q] = inbox[q] /\ outbox'[q] = outbox[q]
      BY <3>1, <2>1, <2>2, <2>4, <1>0, OthersUnborn DEF TypeOK
    <3>. QED
      BY <3>3, <3>4, <2>1, <2>2, OneChild
  <2>. QED
    BY <2>3, <2>4
<1>10. ASSUME NEW p \in Procs, ReadFrom(p) PROVE
         /\ at = "loop" /\ os[p] \notin {"unborn", "reaped"} /\ outbox[p] # <<>>
         /\ ChildInv(p)
         /\ outbox'[p] = Tail(outbox[p])
         /\ \A q \in Procs \ {p} : /\ os[q] = "unborn" /\ os'[q] = "unborn"
                                   /\ inbox'[q] = inbox[q] /\ outbox'[q] = outbox[q]
         /\ queue' = queue /\ pipes' = pipes /\ os' = os /\ inbox' = inbox /\ Front' = Front
  <2>1. /\ at = "loop" /\ exiting = NoProc /\ p = pipes /\ outbox[p] # <<>>
        /\ outbox' = [outbox EXCEPT ![p] = Tail(@)]
        /\ queue' = queue /\ pipes' = pipes /\ os' = os /\ inbox' = inbox
    BY <1>10 DEF ReadFrom, Quiet
  <2>2. os[p] \notin {"unborn", "reaped"} /\ ChildInv(p)
    BY <2>1 DEF OutInv, ChildInv
  <2>3. outbox'[p] = Tail(outbox[p]) /\ Front' = Front
    BY <2>1, <1>0 DEF TypeOK, Front
  <2>4. \A q \in Procs \ {p} : /\ os[q] = "unborn" /\ os'[q] = "unborn"
                                /\ inbox'[q] = inbox[q] /\ outbox'[q] = outbox[q]
    BY <2>1, <2>2, <1>0, OthersUnborn DEF TypeOK
  <2>. QED
    BY <2>1, <2>2, <2>3, <2>4
<1>11. ASSUME NEW p \in Procs, ReadHello(p) PROVE OutInv'
  <2>1. /\ ReadFrom(p) /\ Head(outbox[p]).kind = "hello"
        /\ awaitingHello' = awaitingHello \ {p}
        /\ at' = IF p \in awaitingHello THEN "write" ELSE at
    BY <1>11 DEF ReadHello
  <2>2. ChildInv(p)'
    <3>1. CASE Silent(p)
      <4>1. outbox'[p] = <<>>
        <5>1. outbox[p] = <<Hello>> /\ Tail(<<Hello>>) = <<>>
          BY <3>1, <2>1, <1>10, Short DEF Silent, Greetings
        <5>. QED
          BY <5>1, <2>1, <1>10
      <4>2. Silent(p)'
        BY <3>1, <4>1, <2>1, <1>10 DEF Silent, Greetings
      <4>. QED
        BY <4>1, <4>2, <2>1, <1>10 DEF ChildInv
    <3>2. CASE at = "loop" /\ queue # <<>> /\ p \notin awaitingHello /\ Asked(p)
      <4>1. outbox'[p] = <<>>
        <5>1. outbox[p] = <<Hello>> /\ Tail(<<Hello>>) = <<>>
          BY <3>2, <2>1, <1>10, Short DEF Asked, Greetings
        <5>. QED
          BY <5>1, <2>1, <1>10
      <4>2. Asked(p)'
        BY <3>2, <4>1, <2>1, <1>10 DEF Asked, Greetings
      <4>. QED
        BY <3>2, <4>1, <4>2, <2>1, <1>10 DEF ChildInv
    <3>3. CASE at = "loop" /\ queue # <<>> /\ p \notin awaitingHello /\ Answered(p)
      <4>1. PICK m \in Replies : m.of = Front /\ outbox[p] \in {<<m>>, <<Hello, m>>}
        BY <3>3 DEF Answered
      <4>2. outbox[p] = <<Hello, m>>
        BY <4>1, <2>1, RepliesAreReplies, Short
      <4>3. Tail(<<Hello, m>>) = <<m>>
        BY Short
      <4>4. outbox'[p] = <<m>>
        BY <4>2, <4>3, <2>1, <1>10
      <4>5. Answered(p)'
        BY <3>3, <4>1, <4>4, <2>1, <1>10 DEF Answered, Replies
      <4>6. os[p] # "starting"
        BY <4>2, Short, <2>1, <1>10 DEF ChildInv
      <4>. QED
        BY <3>3, <4>5, <4>6, <2>1, <1>10 DEF ChildInv
    <3>. QED
      BY <3>1, <3>2, <3>3, <2>1, <1>10 DEF ChildInv
  <2>3. at' = "write" => queue' # <<>>
    BY <2>1, <1>10 DEF ChildInv
  <2>. QED
    BY <2>1, <2>2, <2>3, <1>10, OneChild
<1>12. ASSUME NEW p \in Procs, ReadAnswer(p) PROVE OutInv'
  <2>1. /\ ReadFrom(p) /\ Head(outbox[p]).kind # "hello" /\ at' \in {"loop", "complete"}
        /\ awaitingHello' = awaitingHello
    BY <1>12 DEF ReadAnswer, ReadFrom, Quiet, CompleteFront
  <2>2. ~Silent(p) /\ ~Asked(p)
    BY <2>1, <1>10, Short DEF Silent, Asked, Greetings, Hello
  <2>3. PICK m \in Replies : m.of = Front /\ outbox[p] \in {<<m>>, <<Hello, m>>}
    BY <2>1, <2>2, <1>10 DEF ChildInv, Answered
  <2>4. outbox[p] = <<m>>
    BY <2>1, <2>3, Short DEF Hello
  <2>5. outbox'[p] = <<>>
    <3>1. Tail(<<m>>) = <<>>
      BY Short
    <3>. QED
      BY <3>1, <2>1, <2>4, <1>10
  <2>6. Silent(p)'
    BY <2>1, <2>2, <2>5, <1>10 DEF ChildInv, Answered, Silent, Greetings
  <2>7. ChildInv(p)'
    BY <2>1, <2>2, <2>5, <2>6, <1>10 DEF ChildInv
  <2>. QED
    BY <2>1, <2>7, <1>10, OneChild
<1>13. ASSUME NEW p \in Procs, OnProcessExit(p) PROVE OutInv'
  <2>1. /\ os[p] = "exited" /\ os' = [os EXCEPT ![p] = "reaped"] /\ exiting' = p
        /\ inbox' = inbox /\ outbox' = outbox /\ at' \in {"loop", "complete"}
    BY <1>13 DEF OnProcessExit, CompleteFront
  <2>2. os'[p] = "reaped"
    BY <2>1, <1>0 DEF TypeOK
  <2>3. ChildInv(p)'
    BY <2>1, <2>2 DEF ChildInv
  <2>4. \A q \in Procs \ {p} : /\ os[q] = "unborn" /\ os'[q] = "unborn"
                                /\ inbox'[q] = inbox[q] /\ outbox'[q] = outbox[q]
    BY <2>1, <1>0, OthersUnborn DEF TypeOK
  <2>. QED
    BY <2>1, <2>3, <2>4, OneChild
<1>14. ASSUME NEW p \in Procs, ProcessClosed(p) PROVE OutInv'
  <2>1. /\ os[p] = "reaped" /\ at = "loop" /\ at' = at
        /\ os' = [os EXCEPT ![p] = "unborn"]
        /\ inbox' = [inbox EXCEPT ![p] = <<>>] /\ outbox' = [outbox EXCEPT ![p] = <<>>]
    BY <1>14, <1>0 DEF ProcessClosed, Quiet, HandleInv
  <2>2. os'[p] = "unborn" /\ inbox'[p] = <<>> /\ outbox'[p] = <<>>
    BY <2>1, <1>0 DEF TypeOK
  <2>3. ChildInv(p)'
    BY <2>2 DEF ChildInv, Silent, Greetings
  <2>4. \A q \in Procs \ {p} : /\ os[q] = "unborn" /\ os'[q] = "unborn"
                                /\ inbox'[q] = inbox[q] /\ outbox'[q] = outbox[q]
    BY <2>1, <1>0, OthersUnborn DEF TypeOK
  <2>. QED
    BY <2>1, <2>3, <2>4, OneChild
<1>15. CASE OnProcessExitReset
  <2>1. /\ at = "loop" /\ exiting # NoProc /\ exiting' = NoProc /\ pipes' = NoProc
        /\ UNCHANGED <<queue, at, os, inbox, outbox, awaitingHello>>
    BY <1>15 DEF OnProcessExitReset, selfVars, hgVars
  <2>2. Front' = Front
    BY <2>1 DEF Front
  <2>3. ASSUME NEW p \in Procs PROVE ChildInv(p)'
    BY <2>1, <2>2 DEF OutInv, ChildInv, Silent, Asked, Answered
  <2>. QED
    BY <2>1, <2>3 DEF OutInv
<1>16. CASE StopTimer \/ Shutdown
  BY <1>16, <1>2 DEF StopTimer, Shutdown, selfVars, handleVars
<1>17. ASSUME NEW p \in Procs, HgHello(p) PROVE OutInv'
  <2>1. /\ os[p] = "starting" /\ os' = [os EXCEPT ![p] = "serving"]
        /\ outbox' = [outbox EXCEPT ![p] = Append(@, Hello)]
        /\ UNCHANGED <<queue, at, inbox, awaitingHello, exiting, pipes>>
    BY <1>17 DEF HgHello, selfVars, handleVars
  <2>2. ChildInv(p) /\ outbox[p] = <<>> /\ Front' = Front
    BY <2>1 DEF OutInv, ChildInv, Front
  <2>3. os'[p] = "serving" /\ outbox'[p] = <<Hello>>
    BY <2>1, <2>2, <1>0, Short DEF TypeOK
  <2>4. (Silent(p) => Silent(p)') /\ (Asked(p) => Asked(p)') /\ ~Answered(p)
    BY <2>1, <2>2, <2>3, Short DEF Silent, Asked, Answered, Greetings
  <2>5. ChildInv(p)'
    BY <2>1, <2>2, <2>3, <2>4 DEF ChildInv
  <2>6. at' \in {"schedule", "write"} => queue' # <<>>
    BY <2>1 DEF OutInv
  <2>7. \A q \in Procs \ {p} : /\ os[q] = "unborn" /\ os'[q] = "unborn"
                                /\ inbox'[q] = inbox[q] /\ outbox'[q] = outbox[q]
    BY <2>1, <1>0, OthersUnborn DEF TypeOK
  <2>. QED
    BY <2>1, <2>5, <2>6, <2>7, OneChild
<1>18. ASSUME NEW p \in Procs, NEW k \in {"result"} \cup Prompts, HgReply(p, k),
              os' \in {os, [os EXCEPT ![p] = "asking"]}
       PROVE  OutInv'
  <2>1. /\ os[p] = "serving" /\ inbox[p] # <<>> /\ inbox' = [inbox EXCEPT ![p] = Tail(@)]
        /\ outbox' = [outbox EXCEPT ![p] = Append(@, [kind |-> k, of |-> Head(inbox[p])])]
        /\ UNCHANGED <<queue, at, awaitingHello, exiting, pipes>>
    BY <1>18 DEF HgReply, selfVars, handleVars
  <2>2. /\ at = "loop" /\ queue # <<>> /\ p \notin awaitingHello /\ Asked(p)
        /\ Front' = Front /\ Front \in Commands
    BY <2>1, <1>0, FrontInCommands DEF OutInv, ChildInv, Silent, Answered, Front
  <2>3. os'[p] \in {"serving", "asking"} /\ inbox'[p] = <<>>
    BY <2>1, <2>2, <1>0, <1>18, Short DEF TypeOK, Asked
  <2>4. PICK m \in Replies : m = [kind |-> k, of |-> Front]
    BY <2>2 DEF Replies
  <2>5. outbox'[p] \in {<<m>>, <<Hello, m>>}
    <3>1. Head(inbox[p]) = Front
      BY <2>2, Short DEF Asked
    <3>2. outbox'[p] = Append(outbox[p], m)
      BY <3>1, <2>1, <2>4, <1>0 DEF TypeOK
    <3>. QED
      BY <3>2, <2>2, Short DEF Asked, Greetings
  <2>6. Answered(p)'
    BY <2>2, <2>3, <2>4, <2>5 DEF Answered, Replies
  <2>7. ChildInv(p)'
    BY <2>1, <2>2, <2>3, <2>6 DEF ChildInv
  <2>8. \A q \in Procs \ {p} : /\ os[q] = "unborn" /\ os'[q] = "unborn"
                                /\ inbox'[q] = inbox[q] /\ outbox'[q] = outbox[q]
    BY <2>1, <1>18, <1>0, OthersUnborn DEF TypeOK
  <2>. QED
    BY <2>1, <2>2, <2>7, <1>18, <2>8, OneChild
<1>19. ASSUME NEW p \in Procs, HgAnswer(p) \/ HgPrompt(p) PROVE OutInv'
  BY <1>18, <1>19 DEF HgAnswer, HgPrompt
<1>20. ASSUME NEW p \in Procs, HgDies(p) PROVE OutInv'
  <2>1. /\ os[p] \in {"starting", "serving", "asking"} /\ os' = [os EXCEPT ![p] = "exited"]
        /\ UNCHANGED <<queue, at, inbox, outbox, awaitingHello, exiting, pipes>>
    BY <1>20 DEF HgDies, Running, selfVars, handleVars
  <2>2. ChildInv(p) /\ os'[p] = "exited" /\ Front' = Front
    BY <2>1, <1>0 DEF OutInv, TypeOK, Front
  <2>3. ChildInv(p)'
    BY <2>1, <2>2 DEF ChildInv, Silent, Asked, Answered
  <2>4. at' \in {"schedule", "write"} => queue' # <<>>
    BY <2>1 DEF OutInv
  <2>5. \A q \in Procs \ {p} : /\ os[q] = "unborn" /\ os'[q] = "unborn"
                                /\ inbox'[q] = inbox[q] /\ outbox'[q] = outbox[q]
    BY <2>1, <1>0, OthersUnborn DEF TypeOK
  <2>. QED
    BY <2>1, <2>3, <2>4, <2>5, OneChild
<1>21. CASE UNCHANGED vars
  BY <1>21, <1>2 DEF vars, selfVars, handleVars, hgVars
<1>. QED
  BY <1>1, <1>3, <1>4, <1>5, <1>7, <1>8, <1>9, <1>11, <1>12, <1>13, <1>14, <1>15, <1>16,
     <1>17, <1>19, <1>20, <1>21
  DEF Next, Loop, Runner, Hg, HgExits, HgInterrupted, HgKilled
-----------------------------------------------------------------------------
(* The answers under way come from the commands that were written.         *)
LEMMA OutInvImplies == TypeOK /\ OutInv => FrontIsOutstanding
<1> SUFFICES ASSUME TypeOK, OutInv, NEW p \in Procs, os[p] # "reaped",
                    inbox[p] # <<>> \/ Unread(p) # {}
             PROVE  /\ at = "loop" /\ queue # <<>>
                    /\ inbox[p] # <<>> => inbox[p] = <<Front>> /\ Unread(p) = {}
                    /\ \A i \in Unread(p) : i = Len(outbox[p]) /\ outbox[p][i].of = Front
  BY DEF FrontIsOutstanding
<1>1. ChildInv(p)
  BY DEF OutInv
<1>2. outbox[p] \in Greetings => Unread(p) = {}
  BY DEF Greetings, Unread
<1>3. CASE Silent(p)
  BY <1>2, <1>3 DEF Silent
<1>4. CASE at = "loop" /\ queue # <<>> /\ Asked(p)
  BY <1>2, <1>4 DEF Asked
<1>5. CASE at = "loop" /\ queue # <<>> /\ Answered(p)
  <2>1. PICK m \in Replies : m.of = Front /\ outbox[p] \in {<<m>>, <<Hello, m>>}
    BY <1>5 DEF Answered
  <2>2. \A i \in Unread(p) : i = Len(outbox[p]) /\ outbox[p][i] = m
    <3>1. CASE outbox[p] = <<m>>
      BY <3>1 DEF Unread
    <3>2. CASE outbox[p] = <<Hello, m>>
      <4>1. /\ Len(outbox[p]) = 2 /\ outbox[p][1] = Hello /\ outbox[p][2] = m
            /\ 1..Len(outbox[p]) = {1, 2}
        BY <3>2
      <4>. QED
        BY <4>1 DEF Unread
    <3>. QED
      BY <3>1, <3>2, <2>1
  <2>. QED
    BY <2>1, <2>2, <1>5 DEF Answered
<1>. QED
  BY <1>1, <1>3, <1>4, <1>5 DEF ChildInv

(* Nobody owes anything at first.                                          *)
LEMMA OutInit == Init => OutInv
BY ConstantsAssumption DEF Init, OutInv, ChildInv, Silent, Greetings

(* The two invariants hold throughout.                                     *)
THEOREM AnswersInvariance == Spec => [](IInv /\ OutInv)
<1>1. IInv /\ OutInv /\ [Next]_vars => IInv' /\ OutInv'
  BY TypeStep, HandleStep, QueueStep, OutStep DEF IInv
<1>. QED
  BY InitInv, OutInit, <1>1, PTL DEF Spec

(* A child whose exit has not been handled owes at most the answer to the  *)
(* front of the queue, whatever fails: no command is executed twice and    *)
(* what hg says next reaches no other caller.                              *)
THEOREM OnlyTheFrontIsOutstanding == Spec => []FrontIsOutstanding
<1>1. IInv => TypeOK
  BY DEF IInv
<1>. QED
  BY AnswersInvariance, OutInvImplies, <1>1, PTL

-----------------------------------------------------------------------------
(* The refinement.  A step of the service is seen when the front is        *)
(* answered, not when it is popped.                                        *)

(* Completing the front answers the first of the pending commands.         *)
LEMMA AnsweringRefines ==
  ASSUME IInv, at # "complete", queue' = queue,
         NEW kind \in {"result", "inputError", "exited", "failed"},
         CompleteFront([kind |-> kind, of |-> Front])
  PROVE  [Service!Next]_<<Pending, answer>>
<1>1. CASE queue = <<>>
  BY <1>1 DEF CompleteFront, Pending
<1>2. CASE queue # <<>>
  <2>1. /\ at' = "complete" /\ Pending = queue /\ Pending' = Tail(queue)
        /\ answer' = [answer EXCEPT ![Front] = [kind |-> kind, of |-> Front]]
    BY <1>2 DEF IInv, QueueInv, FlagMatchesQueue, CompleteFront, Pending
  <2>2. Service!Answer(kind)
    BY <2>1, <1>2 DEF Service!Answer, Front
  <2>. QED
    BY <2>2 DEF Service!Next, Service!Errors
<1>. QED
  BY <1>1, <1>2

(* Every step is one of the service, or none of its business.              *)
LEMMA ServiceStep ==
  ASSUME IInv, OutInv, [Next]_vars, "L" \notin Prompts
  PROVE  [Service!Next]_<<Pending, answer>>
<1>0. TypeOK /\ HandleInv /\ QueueInv
  BY DEF IInv
<1> DEFINE Goal == [Service!Next]_<<Pending, answer>>
<1>1. ASSUME NEW c \in Commands, RunCommand(c) PROVE Goal
  <2>1. /\ queue' = Append(queue, c) /\ answer[c].kind = "idle"
        /\ answer' = [answer EXCEPT ![c] = [kind |-> "waiting", of |-> c]]
        /\ at' = IF commandInFlight THEN at ELSE "schedule"
    BY <1>1 DEF RunCommand, MaySubmit
  <2>2. at' = "complete" <=> at = "complete"
    BY <2>1, <1>0 DEF QueueInv, FlagMatchesQueue
  <2>3. Pending' = Append(Pending, c)
    <3>1. queue \in Seq(Commands) /\ (at = "complete" => queue # <<>>)
      BY <1>0 DEF TypeOK, QueueInv
    <3>2. queue # <<>> => Tail(Append(queue, c)) = Append(Tail(queue), c)
      BY <3>1
    <3>. QED
      BY <3>1, <3>2, <2>1, <2>2 DEF Pending
  <2>4. Service!Submit(c)
    BY <2>1, <2>3 DEF Service!Submit
  <2>. QED
    BY <2>4 DEF Service!Next
<1>2. ASSUME NEW c \in Commands, TakeAnswer(c) PROVE Goal
  <2>1. Service!Take(c)
    BY <1>2 DEF TakeAnswer, Service!Take, Pending
  <2>. QED
    BY <2>1 DEF Service!Next
<1>3. CASE PopAndScheduleNext
  BY <1>3 DEF PopAndScheduleNext, Popping, Pending
<1>4. ASSUME at # "complete", at' # "complete", queue' = queue, answer' = answer PROVE Goal
  BY <1>4 DEF Pending
<1>5. CASE AlreadyStarted \/ WriteIsUndefined \/ WriteCommand
  BY <1>4, <1>5 DEF AlreadyStarted, WriteIsUndefined, WriteCommand, AtWrite, selfVars
<1>6. ASSUME NEW p \in Procs, StartHgProcess(p) PROVE Goal
  BY <1>4, <1>6 DEF StartHgProcess, Spawned
<1>7. ASSUME FailFront, at # "complete", queue' = queue PROVE Goal
  BY <1>7, AnsweringRefines DEF FailFront
<1>8. ASSUME NEW p \in Procs, StartHgProcessDeaf(p) PROVE Goal
  BY <1>7, <1>8 DEF StartHgProcessDeaf, Spawned
<1>9. CASE SpawnFails \/ PrepareFails \/ WriteFails
  BY <1>7, <1>9 DEF SpawnFails, PrepareFails, WriteFails, AtWrite
<1>10. ASSUME NEW p \in Procs, ReadHello(p) PROVE Goal
  BY <1>4, <1>10 DEF ReadHello, ReadFrom, Quiet
<1>11. ASSUME NEW p \in Procs, ReadAnswer(p) PROVE Goal
  <2>1. /\ at = "loop" /\ p = pipes /\ exiting = NoProc /\ outbox[p] # <<>> /\ queue' = queue
        /\ Head(outbox[p]).kind # "hello" /\ CompleteFront(AnswerTo(Head(outbox[p])))
    BY <1>11 DEF ReadAnswer, ReadFrom, Quiet
  <2>2. os[p] # "reaped" /\ ChildInv(p)
    BY <2>1, ConstantsAssumption DEF OutInv, ChildInv
  <2>3. outbox[p] \notin Greetings
    BY <2>1, Short DEF Greetings, Hello
  <2>4. PICK m \in Replies : m.of = Front /\ outbox[p] \in {<<m>>, <<Hello, m>>}
    BY <2>2, <2>3 DEF ChildInv, Silent, Asked, Answered
  <2>5. Head(outbox[p]) = m
    BY <2>1, <2>4, Short DEF Hello
  <2>6. m.kind \in {"result", "I"}
    BY RepliesAreReplies, ConstantsAssumption
  <2>7. \E kind \in {"result", "inputError"} :
          AnswerTo(Head(outbox[p])) = [kind |-> kind, of |-> Front]
    BY <2>4, <2>5, <2>6 DEF AnswerTo
  <2>. QED
    BY <2>1, <2>7, AnsweringRefines
<1>12. ASSUME NEW p \in Procs, OnProcessExit(p) PROVE Goal
  BY <1>12, AnsweringRefines DEF OnProcessExit, Quiet, handleVars
<1>13. ASSUME NEW p \in Procs, ProcessClosed(p) PROVE Goal
  BY <1>4, <1>13 DEF ProcessClosed, Quiet, selfVars
<1>14. CASE OnProcessExitReset \/ StopTimer \/ Shutdown
  BY <1>4, <1>14 DEF OnProcessExitReset, StopTimer, Shutdown, Quiet, selfVars
<1>15. ASSUME UNCHANGED <<selfVars, at>> PROVE Goal
  BY <1>15 DEF selfVars, Pending
<1>16. ASSUME NEW p \in Procs, Hg(p) \/ HgPrompt(p) \/ HgDies(p) PROVE Goal
  BY <1>15, <1>16 DEF Hg, HgHello, HgAnswer, HgPrompt, HgReply, HgDies
<1>17. CASE UNCHANGED vars
  BY <1>15, <1>17 DEF vars
<1>. QED
  BY <1>1, <1>2, <1>3, <1>5, <1>6, <1>8, <1>9, <1>10, <1>11, <1>12, <1>13, <1>14, <1>16, <1>17
  DEF Next, Loop, Runner, HgExits, HgInterrupted, HgKilled

(* As long as hg asks for no line of input, HgProcess keeps the promise of *)
(* CommandService: first come, first served, and every caller gets hg's    *)
(* own answer to its command, or an error.                                 *)
THEOREM HgProcessServes ==
  ASSUME "L" \notin Prompts
  PROVE  Spec => ImplementsService
<1>1. Init => Service!Init
  BY DEF Init, Pending, Service!Init
<1>2. IInv /\ OutInv /\ [Next]_vars => [Service!Next]_<<Pending, answer>>
  BY ServiceStep
<1>. QED
  BY AnswersInvariance, <1>1, <1>2, PTL DEF Spec, ImplementsService, Service!Spec

-----------------------------------------------------------------------------
(* Undefined behaviour.  It takes an hg that exits by itself: as long as   *)
(* only the stop makes it exit, a child is not dead before the stop, and   *)
(* the pipes are those of the process a command is written to.             *)
AliveInv ==
  /\ stop = "none" =>
       /\ exiting = NoProc
       /\ \A p \in Procs : signal[p] = "none" /\ os[p] \notin {"exited", "reaped"}
       /\ process # NoProc => pipes = process
  /\ at = "write" => pipes # NoProc
  /\ NoUndefinedBehaviour

(* No step kills a child or takes its pipes before the stop.               *)
LEMMA AliveStep ==
  ASSUME IInv, OutInv, AliveInv, [Next]_vars, "exit" \notin Faults
  PROVE  AliveInv'
<1> USE ConstantsAssumption DEF AliveInv, NoUndefinedBehaviour
<1>0. TypeOK /\ HandleInv /\ QueueInv
  BY DEF IInv
<1>1. ASSUME NEW c \in Commands, RunCommand(c) \/ TakeAnswer(c) PROVE AliveInv'
  BY <1>1 DEF RunCommand, TakeAnswer, MaySubmit, handleVars, hgVars
<1>2. CASE PopAndScheduleNext \/ AlreadyStarted
  BY <1>2, <1>0
  DEF PopAndScheduleNext, Popping, AlreadyStarted, HandleInv, selfVars, handleVars, hgVars
<1>3. ASSUME NEW p \in Procs, StartHgProcess(p) \/ StartHgProcessDeaf(p) PROVE AliveInv'
  BY <1>0, <1>3
  DEF StartHgProcess, StartHgProcessDeaf, Spawned, FailFront, CompleteFront, TypeOK
<1>4. CASE SpawnFails
  BY <1>4 DEF SpawnFails, FailFront, CompleteFront, hgVars
<1>5. CASE WriteIsUndefined
  BY <1>5 DEF WriteIsUndefined, AtWrite, OutInv
<1>6. CASE PrepareFails \/ WriteFails \/ WriteCommand
  BY <1>6
  DEF PrepareFails, WriteFails, WriteCommand, AtWrite, FailFront, CompleteFront, handleVars
<1>7. ASSUME NEW p \in Procs, ReadHello(p) \/ ReadAnswer(p) PROVE AliveInv'
  BY <1>7 DEF ReadHello, ReadAnswer, ReadFrom, Quiet, CompleteFront
<1>8. ASSUME NEW p \in Procs, OnProcessExit(p) PROVE AliveInv'
  BY <1>8 DEF OnProcessExit, CompleteFront, handleVars
<1>9. CASE OnProcessExitReset
  BY <1>9 DEF OnProcessExitReset, selfVars, hgVars
<1>10. ASSUME NEW p \in Procs, ProcessClosed(p) PROVE AliveInv'
  <2>1. stop # "none" /\ at = "loop" /\ at' = at /\ fault' = fault
    BY <1>10, <1>0 DEF ProcessClosed, Quiet, HandleInv, TypeOK
  <2>2. stop' # "none"
    BY <1>10, <2>1 DEF ProcessClosed, StopResumed
  <2>. QED
    BY <2>1, <2>2
<1>11. CASE StopTimer \/ Shutdown
  BY <1>11 DEF StopTimer, Shutdown, Quiet, StopResumed, selfVars, handleVars
<1>12. ASSUME NEW p \in Procs, Hg(p) \/ HgPrompt(p) PROVE AliveInv'
  BY <1>12, <1>0
  DEF Hg, HgHello, HgAnswer, HgPrompt, HgReply, selfVars, handleVars, TypeOK
<1>13. ASSUME NEW p \in Procs, HgInterrupted(p) \/ HgKilled(p) PROVE AliveInv'
  BY <1>13 DEF HgInterrupted, HgKilled, HgDies, selfVars, handleVars
<1>14. CASE UNCHANGED vars
  BY <1>14 DEF vars, selfVars, handleVars, hgVars
<1>. QED
  BY <1>1, <1>2, <1>3, <1>4, <1>5, <1>6, <1>7, <1>8, <1>9, <1>10, <1>11, <1>12, <1>13, <1>14
  DEF Next, Loop, Runner, HgExits

(* As long as hg does not exit by itself, front() is never called on an    *)
(* empty queue and nothing is written to a null stream, whatever fails,    *)
(* and through a stop.                                                     *)
THEOREM DefinedWithoutExits ==
  ASSUME "exit" \notin Faults
  PROVE  Spec => []NoUndefinedBehaviour
<1>1. Init => AliveInv
  BY DEF Init, AliveInv, NoUndefinedBehaviour
<1>2. IInv /\ OutInv /\ AliveInv /\ [Next]_vars => AliveInv'
  BY AliveStep
<1>3. AliveInv => NoUndefinedBehaviour
  BY DEF AliveInv
<1>. QED
  BY AnswersInvariance, <1>1, <1>2, <1>3, PTL DEF Spec
=============================================================================
