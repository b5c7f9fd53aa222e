--------------------------- MODULE ChangesetExchange ---------------------------
(***************************************************************************)
(* What FolderSync promises about changesets, whatever becomes of patch    *)
(* files on the way: a store gets those made on its device and those that  *)
(* another one has published, and loses none; neither a store nor what a   *)
(* device has published ever holds one without its ancestors.              *)
(***************************************************************************)
EXTENDS Naturals

CONSTANT Devices

VARIABLES
  made, history,  \* changesets 1..made, each with its ancestors
  store,          \* per device: those it has
  published       \* per device: those it has given to the others

Init ==
  /\ made = 0 /\ history = [c \in {0} |-> {}]
  /\ store = [d \in Devices |-> {}] /\ published = [d \in Devices |-> {}]

(* A new changeset on top of one of the store, or of none.                 *)
Commit(d) ==
  /\ \E base \in store[d] \cup {0} :
       history' = [c \in 0..(made + 1) |->
                     IF c = made + 1 THEN history[base] \cup {c} ELSE history[c]]
  /\ made' = made + 1
  /\ store' = [store EXCEPT ![d] = @ \cup {made + 1}]
  /\ UNCHANGED published

(* More of the store, and whatever that descends from.                     *)
Publish(d) ==
  /\ \E some \in SUBSET store[d] :
       /\ published[d] \subseteq some /\ \A c \in some : history[c] \subseteq some
       /\ published' = [published EXCEPT ![d] = some]
  /\ UNCHANGED <<made, history, store>>

(* Some of what e has published, with the ancestors that are not there.    *)
Receive(d, e) ==
  /\ \E some \in SUBSET published[e] :
       /\ \A c \in some : history[c] \subseteq store[d] \cup some
       /\ store' = [store EXCEPT ![d] = @ \cup some]
  /\ UNCHANGED <<made, history, published>>

Next == \E d \in Devices : Commit(d) \/ Publish(d) \/ \E e \in Devices : Receive(d, e)

Spec == Init /\ [][Next]_<<made, history, store, published>>
=============================================================================
