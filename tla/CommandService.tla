---------------------------- MODULE CommandService ----------------------------
(***************************************************************************)
(* What HgProcess::runCommand promises its callers: commands are served    *)
(* first come, first served, and each caller gets one answer, which is     *)
(* hg's result for that very command or an error that says so.             *)
(***************************************************************************)
EXTENDS Sequences

CONSTANT Commands

VARIABLES pending, answer

Errors == {"inputError", "exited", "failed"}

Init ==
  /\ pending = <<>>
  /\ answer = [c \in Commands |-> [kind |-> "idle", of |-> c]]

Submit(c) ==
  /\ answer[c].kind = "idle"
  /\ pending' = Append(pending, c)
  /\ answer' = [answer EXCEPT ![c] = [kind |-> "waiting", of |-> c]]

Answer(kind) ==
  /\ pending # <<>>
  /\ pending' = Tail(pending)
  /\ answer' = [answer EXCEPT ![Head(pending)] = [kind |-> kind, of |-> Head(pending)]]

Take(c) ==
  /\ answer[c].kind \notin {"idle", "waiting"}
  /\ answer' = [answer EXCEPT ![c] = [kind |-> "idle", of |-> c]]
  /\ UNCHANGED pending

Next ==
  \/ \E c \in Commands : Submit(c) \/ Take(c)
  \/ \E kind \in {"result"} \cup Errors : Answer(kind)

Spec == Init /\ [][Next]_<<pending, answer>>
=============================================================================
