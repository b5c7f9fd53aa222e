----------------------------- MODULE PatchPlaces -----------------------------
(***************************************************************************)
(* What a PatchStorage promises about each patch file (ipatchstorage.hpp): *)
(* it is in one place, and moves from there to the next at once or not at  *)
(* all.  Only the temporary directory is ever emptied.  FolderSync relies  *)
(* on this; PatchFiles shows that patchstorage.cpp provides it.  Whether   *)
(* the caller of a move is told of a success is not part of the promise.   *)
(***************************************************************************)
CONSTANTS Incoming,   \* patches of other devices
          Outgoing    \* patches of this device

VARIABLE place        \* "nowhere", "temp", "toApply", "applied" or "outgoing"

Patches == Incoming \cup Outgoing

Way(p) ==
  IF p \in Outgoing THEN {<<"temp", "outgoing">>}
                    ELSE {<<"temp", "toApply">>, <<"toApply", "applied">>}

Init == place = [p \in Patches |-> "nowhere"]

\* It is downloaded or bundled, into the temporary directory.
Appear(p) ==
  /\ place[p] = "nowhere"
  /\ place' = [place EXCEPT ![p] = "temp"]

\* The temporary directory is emptied, wholly or in part.
Forget ==
  \E gone \in SUBSET {p \in Patches : place[p] = "temp"} :
    place' = [p \in Patches |-> IF p \in gone THEN "nowhere" ELSE place[p]]

Move(p) == \E step \in Way(p) :
  /\ place[p] = step[1]
  /\ place' = [place EXCEPT ![p] = step[2]]

Next == Forget \/ \E p \in Patches : Appear(p) \/ Move(p)

Spec == Init /\ [][Next]_place

=============================================================================
