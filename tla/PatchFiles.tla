----------------------------- MODULE PatchFiles ------------------------------
(***************************************************************************)
(* The files of one PatchStorage (patchstorage.cpp).  moveFile renames a   *)
(* patch into its directory or, when that fails, copies it to an interim   *)
(* file there, renames the copy and removes the source.  Each of these     *)
(* file operations may fail, and the process may die before or during any  *)
(* of them.  Everything runs on one thread, so there is one move at a time.*)
(* Whom the storage notifies of a move is in FolderSync.                   *)
(***************************************************************************)
EXTENDS Naturals, FiniteSets

CONSTANTS
  Incoming,    \* patches of other devices
  Outgoing,    \* patches of this device
  MaxCrashes   \* BOUND on the crashes

ASSUME PatchesAreDistinct == Incoming \cap Outgoing = {}
ASSUME MaxCrashesIsNat == MaxCrashes \in Nat

VARIABLES
  temp,        \* the patches with a file, which is whole, in the temporary directory
  final,       \* per directory and patch: "none", "torn" or "whole"
  interim,     \* the same of the file with the suffix ".interim"
  known,       \* patchesToApply, patchesApplied and outgoingPatches: the names in them
  up,          \* the PatchStorage exists
  move,        \* the call of moveFile that is under way, or NoMove
  crashes

disk == <<temp, final, interim>>
vars == <<temp, final, interim, known, up, move, crashes>>

Patches == Incoming \cup Outgoing
Dirs == {"toApply", "applied", "outgoing"}
DirsOf(p) == IF p \in Outgoing THEN {"outgoing"} ELSE {"toApply", "applied"}

Moves == [patch : Patches, to : Dirs, at : {"check", "copy", "copying", "settle", "remove"}]
NoMove == [at |-> "none"]

Stored(d) == {p \in Patches : final[d][p] # "none"}
NoFiles == [d \in Dirs |-> [p \in Patches |-> "none"]]
NothingKnown == [d \in Dirs |-> {}]

Put(files, d, p, state) == [files EXCEPT ![d][p] = state]

Init ==
  /\ temp = {}
  /\ final = NoFiles /\ interim = NoFiles
  /\ known = NothingKnown
  /\ up = FALSE
  /\ move = NoMove
  /\ crashes = 0

-----------------------------------------------------------------------------
(* The life of the storage *)

\* The constructor: interim files are removed, what is left is loaded.
Load ==
  /\ ~up
  /\ interim' = NoFiles
  /\ known' = [d \in Dirs |-> Stored(d)]
  /\ up' = TRUE
  /\ UNCHANGED <<temp, final, move, crashes>>

\* It throws, after it has removed some of them.
LoadFails ==
  /\ ~up
  /\ \E kept \in SUBSET Patches :
       interim' = [d \in Dirs |-> [p \in Patches |-> IF p \in kept THEN interim[d][p] ELSE "none"]]
  /\ UNCHANGED <<temp, final, known, up, move, crashes>>

\* The process dies; the next one empties the temporary directory, if it can.
Crash ==
  /\ up /\ crashes < MaxCrashes
  /\ crashes' = crashes + 1
  /\ up' = FALSE
  /\ move' = NoMove
  /\ known' = NothingKnown
  /\ temp' \in SUBSET temp
  /\ UNCHANGED <<final, interim>>

-----------------------------------------------------------------------------
(* The callers *)

\* A patch is downloaded that is in none of the maps, or hg bundles a new one.
Fetch(p) ==
  /\ up /\ move = NoMove
  /\ p \notin temp
  /\ \A d \in Dirs : p \notin known[d]
  /\ temp' = temp \cup {p}
  /\ UNCHANGED <<final, interim, known, up, move, crashes>>

\* The file that is moved is there.
Source(p, d) == IF d = "applied" THEN final["toApply"][p] # "none" ELSE p \in temp

\* movePatchesToApply, movePatchToOutgoing and stagePatchAsApplied, of a patch
\* that the caller fetched, or found in patchesToApply and applied.
MovePatch(p, d) ==
  /\ up /\ move = NoMove
  /\ d \in DirsOf(p)
  /\ Source(p, d)
  /\ IF d = "applied" THEN p \in known["toApply"] ELSE \A e \in Dirs : p \notin known[e]
  /\ move' = [patch |-> p, to |-> d, at |-> "check"]
  /\ UNCHANGED <<disk, known, up, crashes>>

-----------------------------------------------------------------------------
(* moveFile *)

At(step) == up /\ move.at = step

Goto(step) ==
  /\ move' = [move EXCEPT !.at = step]
  /\ UNCHANGED <<known, up, crashes>>

\* Slip: the maps are keyed by path.
Return_ByPath ==
  /\ move' = NoMove
  /\ known' = [known EXCEPT ![move.to] = @ \cup {<<move.to, move.patch>>}]
  /\ UNCHANGED <<up, crashes>>

\* The map of the directory, with the patch.
Entered == [known EXCEPT ![move.to] = @ \cup {move.patch}]

\* moveFile returns, true or false: the caller enters the patch into its map,
\* and takes a patch that was applied out of the other one.
Return ==
  /\ move' = NoMove
  /\ known' = IF move.to = "applied" THEN [Entered EXCEPT !["toApply"] = @ \ {move.patch}]
                                     ELSE Entered
  /\ UNCHANGED <<up, crashes>>

\* It throws, and so does the caller.
Throw ==
  /\ move' = NoMove
  /\ UNCHANGED <<known, up, crashes>>

\* The source is gone: removed, or renamed away.
SourceGone(files) ==
  IF move.to = "applied"
  THEN final' = Put(files, "toApply", move.patch, "none") /\ UNCHANGED temp
  ELSE final' = files /\ temp' = temp \ {move.patch}

\* The destination exists already: an error is logged.
AlreadyThere ==
  /\ At("check")
  /\ final[move.to][move.patch] # "none"
  /\ Return
  /\ UNCHANGED disk

Rename ==
  /\ At("check")
  /\ final[move.to][move.patch] = "none"
  /\ SourceGone(Put(final, move.to, move.patch, "whole"))
  /\ Return
  /\ UNCHANGED interim

RenameFails ==
  /\ At("check")
  /\ final[move.to][move.patch] = "none"
  /\ Goto("copy")
  /\ UNCHANGED disk

\* Slip: whatever copy_file returns, the interim file is renamed.
InterimExists_Renamed ==
  /\ At("copy")
  /\ interim[move.to][move.patch] # "none"
  /\ Goto("settle")
  /\ UNCHANGED disk

\* copy_file with skip_existing: an interim file of an earlier attempt is kept,
\* nothing is copied or moved, and moveFile returns true.
InterimExists ==
  /\ At("copy")
  /\ interim[move.to][move.patch] # "none"
  /\ Return
  /\ UNCHANGED disk

CopyBegins ==
  /\ At("copy")
  /\ interim[move.to][move.patch] = "none"
  /\ interim' = Put(interim, move.to, move.patch, "torn")
  /\ Goto("copying")
  /\ UNCHANGED <<temp, final>>

\* Slip: the source is removed before the copy has its final name.
CopyEnds_SourceRemoved ==
  /\ At("copying")
  /\ interim' = Put(interim, move.to, move.patch, "whole")
  /\ SourceGone(final)
  /\ Goto("settle")

CopyEnds ==
  /\ At("copying")
  /\ interim' = Put(interim, move.to, move.patch, "whole")
  /\ Goto("settle")
  /\ UNCHANGED <<temp, final>>

\* Slip: a failed copy is not an error.
CopyFails_Swallowed ==
  /\ At("copy") \/ At("copying")
  /\ interim' = Put(interim, move.to, move.patch, "none")
  /\ Return
  /\ UNCHANGED <<temp, final>>

\* It cannot begin, or stops half way; what it wrote may stay.
CopyFails ==
  /\ \/ At("copy") /\ interim[move.to][move.patch] = "none" /\ UNCHANGED interim
     \/ At("copying") /\ \E left \in {"none", "torn"} :
          interim' = Put(interim, move.to, move.patch, left)
  /\ Throw
  /\ UNCHANGED <<temp, final>>

\* The copy gets its final name.
Settle ==
  /\ At("settle")
  /\ final' = Put(final, move.to, move.patch, interim[move.to][move.patch])
  /\ interim' = Put(interim, move.to, move.patch, "none")
  /\ Goto("remove")
  /\ UNCHANGED temp

\* It cannot; the interim file stays.
SettleFails ==
  /\ At("settle")
  /\ Throw
  /\ UNCHANGED disk

Remove ==
  /\ At("remove")
  /\ SourceGone(final)
  /\ Return
  /\ UNCHANGED interim

\* The source stays beside the patch that was moved.
RemoveFails ==
  /\ At("remove")
  /\ Throw
  /\ UNCHANGED disk

MoveFile ==
  \/ AlreadyThere \/ Rename \/ RenameFails
  \/ InterimExists \/ CopyBegins \/ CopyEnds \/ CopyFails
  \/ Settle \/ SettleFails \/ Remove \/ RemoveFails

Next ==
  \/ Load \/ LoadFails \/ Crash
  \/ \E p \in Patches : Fetch(p) \/ \E d \in Dirs : MovePatch(p, d)
  \/ MoveFile

Spec == Init /\ [][Next]_vars

-----------------------------------------------------------------------------
(* Properties *)

\* Which files and names there can be.
TypeOK ==
  /\ temp \subseteq Patches
  /\ final \in [Dirs -> [Patches -> {"none", "torn", "whole"}]]
  /\ interim \in [Dirs -> [Patches -> {"none", "torn", "whole"}]]
  /\ known \in [Dirs -> SUBSET Patches]
  /\ up \in BOOLEAN
  /\ move \in Moves \cup {NoMove}
  /\ crashes \in 0..MaxCrashes

\* Whatever fails or is cut short in moveFile, a file with a final name is complete
\* ("to not have partially copied files", patchstorage.cpp:117), relative to a whole
\* source.  A download that fails half way may leave a torn source, which
\* update_existing keeps on the retry (localfoldergate.cpp:55).
FinalIsWhole == \A d \in Dirs, p \in Patches : final[d][p] # "torn"

\* A patch in one of the maps is on the disk in that directory, or else an
\* interim file of an earlier failure in the same life of the process made
\* moveFile report a success it did not have: the code does that
\* (patchstorage.cpp:119), and this is the only way a map may be wrong.
KnownIsOnDisk ==
  \A d \in Dirs : \A p \in known[d] : final[d][p] = "whole" \/ interim[d][p] # "none"

\* Where a patch has got to.
place ==
  [p \in Patches |->
     IF final["outgoing"][p] = "whole" THEN "outgoing"
     ELSE IF final["applied"][p] = "whole" THEN "applied"
     ELSE IF final["toApply"][p] = "whole" THEN "toApply"
     ELSE IF p \in temp THEN "temp"
     ELSE "nowhere"]

Places == INSTANCE PatchPlaces

\* Through renames, copies, failures, retries and crashes each patch moves on in
\* single steps, is never lost on the way and never goes back.  `place` does not
\* tell whether the caller knows: when RemoveFails, the patch has moved and the
\* caller gets an exception (in FolderSync MoveThenFail, StageThenFail and
\* ArriveThenFail).
MovesAreAtomic == Places!Spec

=============================================================================
