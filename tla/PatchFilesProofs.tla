-------------------------- MODULE PatchFilesProofs --------------------------
(***************************************************************************)
(* Proofs about PatchFiles, for any number of patches and crashes, and     *)
(* whatever file operations fail: the files that have a final name are     *)
(* whole, and every step is a step of PatchPlaces or leaves it alone.      *)
(***************************************************************************)
EXTENDS PatchFiles, TLAPS

(* Without a storage there is no move and nothing is known.                *)
DownInv == ~up => move = NoMove /\ known = NothingKnown

(* What holds while moveFile runs, step by step: the source is there, the  *)
(* destination is not before Settle, and the interim file is this move's.  *)
MoveInv ==
  move # NoMove =>
    /\ move.to \in DirsOf(move.patch)
    /\ Source(move.patch, move.to)
    /\ IF move.to = "applied" THEN move.patch \in known["toApply"]
                              ELSE \A e \in Dirs : move.patch \notin known[e]
    /\ move.at \in {"copy", "copying", "settle"} => final[move.to][move.patch] = "none"
    /\ move.at \in {"copying", "settle"} => move.patch \notin known[move.to]
    /\ move.at = "settle" => interim[move.to][move.patch] = "whole"
    /\ move.at = "remove" => final[move.to][move.patch] = "whole"

(* A patch is only ever in the directories of its kind, and one that was   *)
(* applied is not taken for a new one.                                     *)
DiskInv ==
  /\ \A d \in Dirs, p \in Patches : final[d][p] # "none" => d \in DirsOf(p)
  /\ up => \A p \in Patches :
       final["applied"][p] # "none" => p \in known["applied"] \cup known["toApply"]

FilesInv == TypeOK /\ DownInv /\ MoveInv /\ DiskInv /\ FinalIsWhole /\ KnownIsOnDisk

-----------------------------------------------------------------------------
(* An update of one file.                                                  *)
LEMMA PutFile ==
  ASSUME NEW files \in [Dirs -> [Patches -> {"none", "torn", "whole"}]],
         NEW d \in Dirs, NEW p \in Patches, NEW state \in {"none", "torn", "whole"}
  PROVE  /\ Put(files, d, p, state) \in [Dirs -> [Patches -> {"none", "torn", "whole"}]]
         /\ \A e \in Dirs, q \in Patches :
              Put(files, d, p, state)[e][q] = IF e = d /\ q = p THEN state ELSE files[e][q]
BY DEF Put

(* moveFile's caller enters the patch in one map.                          *)
LEMMA ReturnKnown ==
  ASSUME TypeOK, move # NoMove, Return
  PROVE  /\ move' = NoMove /\ up' = up /\ crashes' = crashes
         /\ known' \in [Dirs -> SUBSET Patches]
         /\ \A d \in Dirs, p \in Patches :
              p \in known'[d] <=>
                \/ d = move.to /\ p = move.patch
                \/ p \in known[d] /\ ~(d = "toApply" /\ move.to = "applied" /\ p = move.patch)
<1>1. move.to \in Dirs /\ move.patch \in Patches
  BY DEF TypeOK, Moves
<1>2. known \in [Dirs -> SUBSET Patches]
  BY DEF TypeOK
<1>3. /\ Entered \in [Dirs -> SUBSET Patches]
      /\ \A d \in Dirs :
           Entered[d] = IF d = move.to THEN known[d] \cup {move.patch} ELSE known[d]
  BY <1>1, <1>2 DEF Entered
<1>4. /\ move' = NoMove /\ up' = up /\ crashes' = crashes
      /\ known' = IF move.to = "applied" THEN [Entered EXCEPT !["toApply"] = @ \ {move.patch}]
                                         ELSE Entered
  BY DEF Return
<1>5. "toApply" \in Dirs
  BY DEF Dirs
<1>6. CASE move.to = "applied"
  BY <1>1, <1>3, <1>4, <1>5, <1>6
<1>7. CASE move.to # "applied"
  BY <1>1, <1>3, <1>4, <1>7
<1>. QED
  BY <1>6, <1>7

(* The storage does not exist yet.                                         *)
LEMMA FilesInvInit == Init => FilesInv
<1> SUFFICES ASSUME Init PROVE FilesInv
  OBVIOUS
<1>1. /\ NoFiles \in [Dirs -> [Patches -> {"none", "torn", "whole"}]]
      /\ \A d \in Dirs, p \in Patches : NoFiles[d][p] = "none"
      /\ NothingKnown \in [Dirs -> SUBSET Patches]
      /\ \A d \in Dirs : NothingKnown[d] = {}
  BY DEF NoFiles, NothingKnown
<1>2. "applied" \in Dirs
  BY DEF Dirs
<1>3. TypeOK
  <2>1. 0 \in 0..MaxCrashes
    BY MaxCrashesIsNat
  <2>. QED
    BY <1>1, <2>1 DEF Init, TypeOK
<1>4. FinalIsWhole /\ KnownIsOnDisk /\ DiskInv
  BY <1>1, <1>2 DEF Init, FinalIsWhole, KnownIsOnDisk, DiskInv
<1>. QED
  BY <1>3, <1>4 DEF Init, FilesInv, DownInv, MoveInv

(* The storage comes and goes.                                             *)
LEMMA LifeStep ==
  ASSUME FilesInv, Load \/ LoadFails \/ Crash
  PROVE  FilesInv'
<1> USE MaxCrashesIsNat
    DEF FilesInv, TypeOK, DownInv, MoveInv, DiskInv, FinalIsWhole, KnownIsOnDisk, NoFiles, NothingKnown
<1>1. CASE Load
  BY <1>1 DEF Load, Stored, Dirs
<1>2. CASE LoadFails
  BY <1>2 DEF LoadFails, Dirs
<1>3. CASE Crash
  <2>1. crashes' \in 0..MaxCrashes /\ temp' \subseteq Patches
    BY <1>3 DEF Crash
  <2>2. known' \in [Dirs -> SUBSET Patches] /\ \A d \in Dirs : known'[d] = {}
    BY <1>3 DEF Crash
  <2>. QED
    BY <1>3, <2>1, <2>2 DEF Crash
<1>. QED
  BY <1>1, <1>2, <1>3

(* A patch appears, and a move begins.                                     *)
LEMMA CallerStep ==
  ASSUME FilesInv, NEW p \in Patches, Fetch(p) \/ \E d \in Dirs : MovePatch(p, d)
  PROVE  FilesInv'
<1> USE DEF FilesInv, TypeOK, DownInv, MoveInv, DiskInv, FinalIsWhole, KnownIsOnDisk, Source
<1>1. CASE Fetch(p)
  BY <1>1 DEF Fetch, NoMove
<1>2. ASSUME NEW d \in Dirs, MovePatch(p, d) PROVE FilesInv'
  <2>1. move' = [patch |-> p, to |-> d, at |-> "check"] /\ move' \in Moves
    BY <1>2 DEF MovePatch, Moves
  <2>. QED
    BY <1>2, <2>1 DEF MovePatch, disk
<1>. QED
  BY <1>1, <1>2

-----------------------------------------------------------------------------
(* moveFile.  What is the same in all its steps: which patch and directory *)
(* it is about.                                                            *)
LEMMA AtMove ==
  ASSUME FilesInv, up, move.at # "none"
  PROVE  /\ move # NoMove /\ move \in Moves
         /\ move.patch \in Patches /\ move.to \in Dirs
BY DEF FilesInv, TypeOK, Moves, NoMove

(* It goes to its next step.                                               *)
LEMMA GotoMove ==
  ASSUME FilesInv, up, move.at # "none",
         NEW step \in {"copy", "copying", "settle", "remove"}, Goto(step)
  PROVE  /\ move' \in Moves /\ move'.at = step /\ move'.patch = move.patch /\ move'.to = move.to
         /\ known' = known /\ up' = up /\ crashes' = crashes
BY AtMove DEF Goto, Moves

(* A move that has ended leaves only the files and the names to look at.   *)
LEMMA EndedMove ==
  ASSUME FilesInv, up, up' = up, crashes' = crashes, move' = NoMove,
         temp' \subseteq Patches,
         final' \in [Dirs -> [Patches -> {"none", "torn", "whole"}]],
         interim' \in [Dirs -> [Patches -> {"none", "torn", "whole"}]],
         known' \in [Dirs -> SUBSET Patches],
         DiskInv', FinalIsWhole', KnownIsOnDisk'
  PROVE  FilesInv'
BY DEF FilesInv, TypeOK, DownInv, MoveInv

(* A move that goes on changes files only.                                 *)
LEMMA GoingOn ==
  ASSUME FilesInv, up, move.at # "none",
         NEW step \in {"copy", "copying", "settle", "remove"}, Goto(step),
         temp' = temp,
         final' \in [Dirs -> [Patches -> {"none", "torn", "whole"}]],
         interim' \in [Dirs -> [Patches -> {"none", "torn", "whole"}]],
         MoveInv', DiskInv', FinalIsWhole', KnownIsOnDisk'
  PROVE  FilesInv'
BY GotoMove DEF FilesInv, TypeOK, DownInv

(* The destination was there before: the name is entered.                   *)
LEMMA AlreadyThereStep ==
  ASSUME FilesInv, AlreadyThere
  PROVE  FilesInv'
<1>1. /\ up /\ move.at # "none" /\ final[move.to][move.patch] # "none"
      /\ temp' = temp /\ final' = final /\ interim' = interim /\ Return
  BY DEF AlreadyThere, At, disk
<1>2. move # NoMove /\ move.patch \in Patches /\ move.to \in Dirs
  BY <1>1, AtMove
<1>3. final[move.to][move.patch] = "whole"
  BY <1>1, <1>2 DEF FilesInv, TypeOK, FinalIsWhole
<1>4. /\ move' = NoMove /\ up' = up /\ crashes' = crashes
      /\ known' \in [Dirs -> SUBSET Patches]
      /\ \A d \in Dirs, p \in Patches :
              p \in known'[d] <=>
                \/ d = move.to /\ p = move.patch
                \/ p \in known[d] /\ ~(d = "toApply" /\ move.to = "applied" /\ p = move.patch)
  BY <1>1, <1>2, ReturnKnown DEF FilesInv
<1>5. DiskInv' /\ FinalIsWhole' /\ KnownIsOnDisk'
  BY <1>1, <1>2, <1>3, <1>4 DEF FilesInv, TypeOK, DiskInv, FinalIsWhole, KnownIsOnDisk, Dirs
<1>. QED
  BY <1>1, <1>4, <1>5, EndedMove DEF FilesInv, TypeOK

(* An interim file was there before: the name is entered without a file.    *)
LEMMA InterimExistsStep ==
  ASSUME FilesInv, InterimExists
  PROVE  FilesInv'
<1>1. /\ up /\ move.at # "none" /\ interim[move.to][move.patch] # "none"
      /\ temp' = temp /\ final' = final /\ interim' = interim /\ Return
  BY DEF InterimExists, At, disk
<1>2. move # NoMove /\ move.patch \in Patches /\ move.to \in Dirs
  BY <1>1, AtMove
<1>3. DiskInv' /\ FinalIsWhole' /\ KnownIsOnDisk'
  BY <1>1, <1>2, ReturnKnown DEF FilesInv, TypeOK, DiskInv, FinalIsWhole, KnownIsOnDisk, Dirs
<1>. QED
  BY <1>1, <1>2, <1>3, ReturnKnown, EndedMove DEF FilesInv, TypeOK

(* What is left when the source is gone.                                   *)
LEMMA SourceIsGone ==
  ASSUME FilesInv, move.to \in Dirs, move.patch \in Patches,
         NEW files \in [Dirs -> [Patches -> {"none", "torn", "whole"}]], SourceGone(files)
  PROVE  /\ temp' \subseteq temp
         /\ final' \in [Dirs -> [Patches -> {"none", "torn", "whole"}]]
         /\ \A d \in Dirs, p \in Patches :
              final'[d][p] = IF d = "toApply" /\ move.to = "applied" /\ p = move.patch
                             THEN "none" ELSE files[d][p]
<1>1. CASE move.to = "applied"
  <2>1. temp' = temp /\ final' = Put(files, "toApply", move.patch, "none")
    BY <1>1 DEF SourceGone
  <2>2. "toApply" \in Dirs
    BY DEF Dirs
  <2>. QED
    BY <1>1, <2>1, <2>2, PutFile
<1>2. CASE move.to # "applied"
  BY <1>2 DEF SourceGone
<1>. QED
  BY <1>1, <1>2

(* The file is renamed, and the name is entered.                            *)
LEMMA RenameStep ==
  ASSUME FilesInv, Rename
  PROVE  FilesInv'
<1> DEFINE files == Put(final, move.to, move.patch, "whole")
<1>1. /\ up /\ move.at # "none" /\ SourceGone(files) /\ interim' = interim /\ Return
  BY DEF Rename, At
<1>2. move # NoMove /\ move.patch \in Patches /\ move.to \in Dirs /\ move.to \in DirsOf(move.patch)
  BY <1>1, AtMove DEF FilesInv, MoveInv
<1>3. /\ files \in [Dirs -> [Patches -> {"none", "torn", "whole"}]]
      /\ \A d \in Dirs, p \in Patches :
           files[d][p] = IF d = move.to /\ p = move.patch THEN "whole" ELSE final[d][p]
  <2>1. final \in [Dirs -> [Patches -> {"none", "torn", "whole"}]]
    BY DEF FilesInv, TypeOK
  <2>. QED
    BY ONLY <2>1, <1>2, PutFile
<1> HIDE DEF files
<1>4. /\ temp' \subseteq temp
      /\ final' \in [Dirs -> [Patches -> {"none", "torn", "whole"}]]
      /\ \A d \in Dirs, p \in Patches :
           final'[d][p] = IF d = "toApply" /\ move.to = "applied" /\ p = move.patch
                          THEN "none" ELSE files[d][p]
  BY <1>1, <1>2, <1>3, SourceIsGone
<1>5. /\ move' = NoMove /\ up' = up /\ crashes' = crashes
      /\ known' \in [Dirs -> SUBSET Patches]
      /\ \A d \in Dirs, p \in Patches :
              p \in known'[d] <=>
                \/ d = move.to /\ p = move.patch
                \/ p \in known[d] /\ ~(d = "toApply" /\ move.to = "applied" /\ p = move.patch)
  BY <1>1, <1>2, ReturnKnown DEF FilesInv
<1>6. DiskInv'
  BY <1>1, <1>2, <1>3, <1>4, <1>5 DEF FilesInv, TypeOK, DiskInv, Dirs
<1>7. FinalIsWhole' /\ KnownIsOnDisk'
  BY <1>1, <1>2, <1>3, <1>4, <1>5 DEF FilesInv, TypeOK, FinalIsWhole, KnownIsOnDisk, Dirs
<1>. QED
  BY <1>1, <1>4, <1>5, <1>6, <1>7, EndedMove DEF FilesInv, TypeOK

(* The last step of a copy: the source goes, and the name is entered.       *)
LEMMA RemoveStep ==
  ASSUME FilesInv, Remove
  PROVE  FilesInv'
<1>1. /\ up /\ move.at = "remove" /\ SourceGone(final) /\ interim' = interim /\ Return
  BY DEF Remove, At
<1>2. /\ move # NoMove /\ move.patch \in Patches /\ move.to \in Dirs
      /\ final[move.to][move.patch] = "whole"
  BY <1>1, AtMove DEF FilesInv, MoveInv
<1>3. /\ temp' \subseteq temp
      /\ final' \in [Dirs -> [Patches -> {"none", "torn", "whole"}]]
      /\ \A d \in Dirs, p \in Patches :
           final'[d][p] = IF d = "toApply" /\ move.to = "applied" /\ p = move.patch
                          THEN "none" ELSE final[d][p]
  BY <1>1, <1>2, SourceIsGone DEF FilesInv, TypeOK
<1>4. /\ move' = NoMove /\ up' = up /\ crashes' = crashes
      /\ known' \in [Dirs -> SUBSET Patches]
      /\ \A d \in Dirs, p \in Patches :
              p \in known'[d] <=>
                \/ d = move.to /\ p = move.patch
                \/ p \in known[d] /\ ~(d = "toApply" /\ move.to = "applied" /\ p = move.patch)
  BY <1>1, <1>2, ReturnKnown DEF FilesInv
<1>5. DiskInv' /\ FinalIsWhole' /\ KnownIsOnDisk'
  BY <1>1, <1>2, <1>3, <1>4 DEF FilesInv, TypeOK, DiskInv, FinalIsWhole, KnownIsOnDisk, Dirs
<1>. QED
  BY <1>1, <1>3, <1>4, <1>5, EndedMove DEF FilesInv, TypeOK

(* The rename fails and the copy is tried.                                  *)
LEMMA RenameFailsStep ==
  ASSUME FilesInv, RenameFails
  PROVE  FilesInv'
<1>1. /\ up /\ move.at = "check" /\ final[move.to][move.patch] = "none" /\ Goto("copy")
      /\ temp' = temp /\ final' = final /\ interim' = interim
  BY DEF RenameFails, At, disk
<1>2. /\ move'.at = "copy" /\ move'.patch = move.patch /\ move'.to = move.to
      /\ known' = known /\ up' = up
  BY <1>1, GotoMove
<1>3. move # NoMove
  BY <1>1, AtMove
<1>4. MoveInv' /\ DiskInv' /\ FinalIsWhole' /\ KnownIsOnDisk'
  BY <1>1, <1>2, <1>3 DEF FilesInv, MoveInv, Source, DiskInv, FinalIsWhole, KnownIsOnDisk
<1>. QED
  BY <1>1, <1>4, GoingOn DEF FilesInv, TypeOK

(* The copy begins: the interim file is there, and not whole.               *)
LEMMA CopyBeginsStep ==
  ASSUME FilesInv, CopyBegins
  PROVE  FilesInv'
<1>1. /\ up /\ move.at = "copy" /\ interim[move.to][move.patch] = "none" /\ Goto("copying")
      /\ temp' = temp /\ final' = final /\ interim' = Put(interim, move.to, move.patch, "torn")
  BY DEF CopyBegins, At
<1>2. /\ move'.at = "copying" /\ move'.patch = move.patch /\ move'.to = move.to
      /\ known' = known /\ up' = up
  BY <1>1, GotoMove
<1>3. /\ move # NoMove /\ move.patch \in Patches /\ move.to \in Dirs
      /\ final[move.to][move.patch] = "none"
  BY <1>1, AtMove DEF FilesInv, MoveInv
<1>4. /\ interim' \in [Dirs -> [Patches -> {"none", "torn", "whole"}]]
      /\ \A d \in Dirs, p \in Patches :
           interim'[d][p] = IF d = move.to /\ p = move.patch THEN "torn" ELSE interim[d][p]
  <2>1. interim \in [Dirs -> [Patches -> {"none", "torn", "whole"}]]
    BY DEF FilesInv, TypeOK
  <2>. QED
    BY <1>1, <1>3, <2>1, PutFile
<1>5. known \in [Dirs -> SUBSET Patches]
  BY DEF FilesInv, TypeOK
<1>6. MoveInv' /\ DiskInv' /\ FinalIsWhole' /\ KnownIsOnDisk'
  BY <1>1, <1>2, <1>3, <1>4, <1>5 DEF FilesInv, MoveInv, Source, DiskInv, FinalIsWhole, KnownIsOnDisk
<1>. QED
  BY <1>1, <1>4, <1>6, GoingOn DEF FilesInv, TypeOK

(* The copy is whole.                                                       *)
LEMMA CopyEndsStep ==
  ASSUME FilesInv, CopyEnds
  PROVE  FilesInv'
<1>1. /\ up /\ move.at = "copying" /\ Goto("settle")
      /\ temp' = temp /\ final' = final /\ interim' = Put(interim, move.to, move.patch, "whole")
  BY DEF CopyEnds, At
<1>2. /\ move'.at = "settle" /\ move'.patch = move.patch /\ move'.to = move.to
      /\ known' = known /\ up' = up
  BY <1>1, GotoMove
<1>3. /\ move # NoMove /\ move.patch \in Patches /\ move.to \in Dirs
  BY <1>1, AtMove
<1>4. /\ interim' \in [Dirs -> [Patches -> {"none", "torn", "whole"}]]
      /\ \A d \in Dirs, p \in Patches :
           interim'[d][p] = IF d = move.to /\ p = move.patch THEN "whole" ELSE interim[d][p]
  <2>1. interim \in [Dirs -> [Patches -> {"none", "torn", "whole"}]]
    BY DEF FilesInv, TypeOK
  <2>. QED
    BY <1>1, <1>3, <2>1, PutFile
<1>5. known \in [Dirs -> SUBSET Patches]
  BY DEF FilesInv, TypeOK
<1>6. MoveInv' /\ DiskInv' /\ FinalIsWhole' /\ KnownIsOnDisk'
  BY <1>1, <1>2, <1>3, <1>4, <1>5 DEF FilesInv, MoveInv, Source, DiskInv, FinalIsWhole, KnownIsOnDisk
<1>. QED
  BY <1>1, <1>4, <1>6, GoingOn DEF FilesInv, TypeOK

(* The copy fails; its directory does not have the name.                    *)
LEMMA CopyFailsStep ==
  ASSUME FilesInv, CopyFails
  PROVE  FilesInv'
<1>1. /\ up /\ temp' = temp /\ final' = final /\ Throw
      /\ \/ move.at = "copy" /\ interim' = interim
         \/ move.at = "copying" /\ \E left \in {"none", "torn"} :
              interim' = Put(interim, move.to, move.patch, left)
  BY DEF CopyFails, At
<1>2. /\ move' = NoMove /\ known' = known /\ up' = up /\ crashes' = crashes
  BY <1>1 DEF Throw
<1>3. /\ move # NoMove /\ move.patch \in Patches /\ move.to \in Dirs
      /\ move.at = "copying" => move.patch \notin known[move.to]
  BY <1>1, AtMove DEF FilesInv, MoveInv
<1>4. /\ interim' \in [Dirs -> [Patches -> {"none", "torn", "whole"}]]
      /\ \A d \in Dirs, p \in Patches :
           \/ move.at = "copying" /\ d = move.to /\ p = move.patch
           \/ interim'[d][p] = interim[d][p]
  <2>1. interim \in [Dirs -> [Patches -> {"none", "torn", "whole"}]]
    BY DEF FilesInv, TypeOK
  <2>2. CASE move.at = "copy"
    BY <1>1, <2>1, <2>2
  <2>3. ASSUME NEW left \in {"none", "torn"}, move.at = "copying",
               interim' = Put(interim, move.to, move.patch, left)
        PROVE  /\ interim' \in [Dirs -> [Patches -> {"none", "torn", "whole"}]]
               /\ \A d \in Dirs, p \in Patches :
                    (d = move.to /\ p = move.patch) \/ interim'[d][p] = interim[d][p]
    BY <1>3, <2>1, <2>3, PutFile
  <2>. QED
    BY <1>1, <2>2, <2>3
<1>5. known \in [Dirs -> SUBSET Patches]
  BY DEF FilesInv, TypeOK
<1>6. DiskInv' /\ FinalIsWhole' /\ KnownIsOnDisk'
  BY <1>1, <1>2, <1>3, <1>4, <1>5 DEF FilesInv, DiskInv, FinalIsWhole, KnownIsOnDisk
<1>. QED
  BY <1>1, <1>2, <1>4, <1>6, EndedMove DEF FilesInv, TypeOK

(* The interim file gets its final name, and is whole.                      *)
LEMMA SettleStep ==
  ASSUME FilesInv, Settle
  PROVE  FilesInv'
<1>1. /\ up /\ move.at = "settle" /\ Goto("remove") /\ temp' = temp
      /\ final' = Put(final, move.to, move.patch, interim[move.to][move.patch])
      /\ interim' = Put(interim, move.to, move.patch, "none")
  BY DEF Settle, At
<1>2. /\ move'.at = "remove" /\ move'.patch = move.patch /\ move'.to = move.to
      /\ known' = known /\ up' = up
  BY <1>1, GotoMove
<1>3. /\ move # NoMove /\ move.patch \in Patches /\ move.to \in Dirs
      /\ interim[move.to][move.patch] = "whole" /\ move.to \in DirsOf(move.patch)
      /\ move.to = "applied" => move.patch \in known["toApply"]
  BY <1>1, AtMove DEF FilesInv, MoveInv
<1>4. /\ interim' \in [Dirs -> [Patches -> {"none", "torn", "whole"}]]
      /\ \A d \in Dirs, p \in Patches :
           interim'[d][p] = IF d = move.to /\ p = move.patch THEN "none" ELSE interim[d][p]
  <2>1. interim \in [Dirs -> [Patches -> {"none", "torn", "whole"}]]
    BY DEF FilesInv, TypeOK
  <2>. QED
    BY <1>1, <1>3, <2>1, PutFile
<1>5. /\ final' \in [Dirs -> [Patches -> {"none", "torn", "whole"}]]
      /\ \A d \in Dirs, p \in Patches :
           final'[d][p] = IF d = move.to /\ p = move.patch THEN "whole" ELSE final[d][p]
  <2>1. final \in [Dirs -> [Patches -> {"none", "torn", "whole"}]]
    BY DEF FilesInv, TypeOK
  <2>. QED
    BY <1>1, <1>3, <2>1, PutFile
<1>6. known \in [Dirs -> SUBSET Patches] /\ "applied" \in Dirs /\ "toApply" \in Dirs
  BY DEF FilesInv, TypeOK, Dirs
<1>7. MoveInv'
  BY <1>1, <1>2, <1>3, <1>5, <1>6 DEF FilesInv, MoveInv, Source
<1>8. DiskInv'
  BY <1>1, <1>2, <1>3, <1>5, <1>6 DEF FilesInv, DiskInv
<1>9. FinalIsWhole' /\ KnownIsOnDisk'
  <2>1. FinalIsWhole'
    BY <1>5 DEF FilesInv, FinalIsWhole
  <2>2. ASSUME NEW d \in Dirs, NEW p \in known[d]
        PROVE  final'[d][p] = "whole" \/ interim'[d][p] # "none"
    <3>1. p \in Patches /\ (final[d][p] = "whole" \/ interim[d][p] # "none")
      BY <1>6, <2>2 DEF FilesInv, KnownIsOnDisk
    <3>. QED
      BY <1>4, <1>5, <3>1
  <2>. QED
    BY <1>2, <2>1, <2>2 DEF KnownIsOnDisk
<1>. QED
  BY <1>1, <1>4, <1>5, <1>7, <1>8, <1>9, GoingOn

(* moveFile throws and leaves the files as they are.                        *)
LEMMA ThrowStep ==
  ASSUME FilesInv, SettleFails \/ RemoveFails
  PROVE  FilesInv'
<1>1. /\ up /\ move' = NoMove /\ known' = known /\ up' = up /\ crashes' = crashes
      /\ temp' = temp /\ final' = final /\ interim' = interim
  BY DEF SettleFails, RemoveFails, At, Throw, disk
<1>2. DiskInv' /\ FinalIsWhole' /\ KnownIsOnDisk'
  BY <1>1 DEF FilesInv, DiskInv, FinalIsWhole, KnownIsOnDisk
<1>. QED
  BY <1>1, <1>2, EndedMove DEF FilesInv, TypeOK

-----------------------------------------------------------------------------
(* The inductive invariant: the steps above and the initial state.         *)
LEMMA FilesInvStep ==
  ASSUME FilesInv, [Next]_vars
  PROVE  FilesInv'
<1>1. CASE Load \/ LoadFails \/ Crash
  BY <1>1, LifeStep
<1>2. ASSUME NEW p \in Patches, Fetch(p) \/ \E d \in Dirs : MovePatch(p, d) PROVE FilesInv'
  BY <1>2, CallerStep
<1>3. CASE MoveFile
  BY <1>3, AlreadyThereStep, RenameStep, RenameFailsStep, InterimExistsStep, CopyBeginsStep,
     CopyEndsStep, CopyFailsStep, SettleStep, RemoveStep, ThrowStep DEF MoveFile
<1>4. CASE UNCHANGED vars
  BY <1>4 DEF vars, FilesInv, TypeOK, DownInv, MoveInv, DiskInv, FinalIsWhole, KnownIsOnDisk, Source
<1>. QED
  BY <1>1, <1>2, <1>3, <1>4 DEF Next

(* It holds throughout.                                                    *)
LEMMA FilesInvariance == Spec => []FilesInv
BY FilesInvInit, FilesInvStep, PTL DEF Spec

(* The files and the maps keep their types: the maps hold names of patches *)
(* (ipatchstorage.hpp).                                                    *)
THEOREM TypeCorrect == Spec => []TypeOK
<1>1. FilesInv => TypeOK
  BY DEF FilesInv
<1>. QED
  BY FilesInvariance, <1>1, PTL

(* A file with a final name is whole if the source was, whatever fails in  *)
(* moveFile and wherever the process dies (patchstorage.cpp:117).          *)
THEOREM NeverTorn == Spec => []FinalIsWhole
<1>1. FilesInv => FinalIsWhole
  BY DEF FilesInv
<1>. QED
  BY FilesInvariance, <1>1, PTL

(* What the maps name is on the disk, or was taken for moved because of an *)
(* interim file that an earlier failure left (patchstorage.cpp:119).       *)
THEOREM NamesHaveFiles == Spec => []KnownIsOnDisk
<1>1. FilesInv => KnownIsOnDisk
  BY DEF FilesInv
<1>. QED
  BY FilesInvariance, <1>1, PTL

-----------------------------------------------------------------------------
(* Nothing is anywhere at first.                                           *)
LEMMA PlacesInit == Init => Places!Init
BY DEF Init, Places!Init, place, NoFiles, Places!Patches, Patches, Dirs

(* Where a patch is depends on two of the variables.                       *)
LEMMA SamePlace ==
  ASSUME temp' = temp, final' = final
  PROVE  place' = place
BY DEF place

(* A crash, and the start after it.                                        *)
LEMMA CrashForgets ==
  ASSUME FilesInv, Crash
  PROVE  Places!Forget
<1> DEFINE gone == {p \in Patches : place[p] = "temp" /\ p \notin temp'}
<1>1. temp' \subseteq temp /\ final' = final
  BY DEF Crash
<1>2. gone \in SUBSET {p \in Places!Patches : place[p] = "temp"}
  BY DEF Places!Patches, Patches
<1>3. place' = [p \in Places!Patches |-> IF p \in gone THEN "nowhere" ELSE place[p]]
  BY <1>1 DEF place, Places!Patches, Patches
<1>. QED
  BY <1>2, <1>3 DEF Places!Forget

(* A patch that is fetched appears, unless it is on the disk already.      *)
LEMMA FetchAppears ==
  ASSUME FilesInv, NEW p \in Patches, Fetch(p)
  PROVE  Places!Appear(p) \/ place' = place
<1>1. p \notin temp /\ temp' = temp \cup {p} /\ final' = final
  BY DEF Fetch
<1>2. CASE place[p] = "nowhere"
  <2>1. place' = [place EXCEPT ![p] = "temp"]
    BY <1>1, <1>2 DEF place
  <2>. QED
    BY <1>2, <2>1 DEF Places!Appear
<1>3. CASE place[p] # "nowhere"
  BY <1>1, <1>3 DEF place
<1>. QED
  BY <1>2, <1>3

(* A file gets its final name: one move, of one patch.                     *)
LEMMA SettledMoves ==
  ASSUME FilesInv, move # NoMove, move.patch \in Patches, move.to \in Dirs,
         final[move.to][move.patch] = "none",
         \A d \in Dirs, p \in Patches :
           IF d = move.to /\ p = move.patch THEN final'[d][p] = "whole"
           ELSE \/ final'[d][p] = final[d][p]
                \/ move.to = "applied" /\ d = "toApply" /\ p = move.patch,
         \A p \in Patches \ {move.patch} : p \in temp' <=> p \in temp
  PROVE  Places!Move(move.patch)
<1>1. /\ Source(move.patch, move.to) /\ move.to \in DirsOf(move.patch)
      /\ move.to # "applied" => \A e \in Dirs : move.patch \notin known[e]
  BY DEF FilesInv, MoveInv
<1> DEFINE P == move.patch
<1>2. "toApply" \in Dirs /\ "applied" \in Dirs /\ "outgoing" \in Dirs
  BY DEF Dirs
<1>3. up
  BY DEF FilesInv, DownInv
<1>4. /\ \A d \in Dirs : final[d][P] \in {"none", "whole"}
      /\ \A d \in Dirs : final[d][P] # "none" => d \in DirsOf(P)
      /\ final["applied"][P] # "none" => P \in known["applied"] \cup known["toApply"]
  BY <1>2, <1>3 DEF FilesInv, TypeOK, FinalIsWhole, DiskInv
<1>5. ASSUME NEW from, NEW to, place[P] = from, place'[P] = to, <<from, to>> \in Places!Way(P)
      PROVE  Places!Move(P)
  <2>1. \A p \in Patches \ {P} : place'[p] = place[p]
    BY <1>2 DEF place
  <2>2. place' = [place EXCEPT ![P] = to]
    BY <1>5, <2>1 DEF place
  <2>. QED
    BY <1>5, <2>2 DEF Places!Move
<1>6. CASE move.to = "applied"
  <2>1. P \notin Outgoing /\ final["toApply"][P] = "whole"
    BY <1>1, <1>2, <1>4, <1>6 DEF DirsOf, Source
  <2>2. final["outgoing"][P] = "none"
    BY <1>2, <1>4, <2>1 DEF DirsOf
  <2>3. place[P] = "toApply"
    BY <1>2, <1>6, <2>1, <2>2 DEF place
  <2>4. final'["outgoing"][P] = "none" /\ final'["applied"][P] = "whole"
    BY <1>2, <1>6, <2>2
  <2>5. place'[P] = "applied"
    BY <2>4 DEF place
  <2>. QED
    BY <1>5, <2>1, <2>3, <2>5 DEF Places!Way
<1>7. CASE move.to = "toApply"
  <2>1. P \notin Outgoing /\ P \in temp
    BY <1>1, <1>7 DEF DirsOf, Source
  <2>2. final["outgoing"][P] = "none" /\ final["applied"][P] = "none" /\ final["toApply"][P] = "none"
    BY <1>1, <1>2, <1>4, <1>7, <2>1 DEF DirsOf
  <2>3. place[P] = "temp"
    BY <2>1, <2>2 DEF place
  <2>4. final'["outgoing"][P] = "none" /\ final'["applied"][P] = "none" /\ final'["toApply"][P] = "whole"
    BY <1>2, <1>7, <2>2
  <2>5. place'[P] = "toApply"
    BY <2>4 DEF place
  <2>. QED
    BY <1>5, <2>1, <2>3, <2>5 DEF Places!Way
<1>8. CASE move.to = "outgoing"
  <2>1. P \in Outgoing /\ P \in temp
    BY <1>1, <1>8 DEF DirsOf, Source
  <2>2. final["outgoing"][P] = "none" /\ final["applied"][P] = "none" /\ final["toApply"][P] = "none"
    BY <1>2, <1>4, <1>8, <2>1 DEF DirsOf
  <2>3. place[P] = "temp"
    BY <2>1, <2>2 DEF place
  <2>4. final'["outgoing"][P] = "whole"
    BY <1>2, <1>8
  <2>5. place'[P] = "outgoing"
    BY <2>4 DEF place
  <2>. QED
    BY <1>5, <2>1, <2>3, <2>5 DEF Places!Way
<1>. QED
  BY <1>6, <1>7, <1>8 DEF Dirs

(* A rename settles the patch at once.                                     *)
LEMMA RenameMoves ==
  ASSUME FilesInv, Rename
  PROVE  Places!Move(move.patch)
<1> DEFINE files == Put(final, move.to, move.patch, "whole")
<1>1. /\ up /\ move.at # "none" /\ final[move.to][move.patch] = "none" /\ SourceGone(files)
  BY DEF Rename, At
<1>2. move # NoMove /\ move.patch \in Patches /\ move.to \in Dirs
  BY <1>1, AtMove
<1>3. /\ files \in [Dirs -> [Patches -> {"none", "torn", "whole"}]]
      /\ \A d \in Dirs, p \in Patches :
           files[d][p] = IF d = move.to /\ p = move.patch THEN "whole" ELSE final[d][p]
  <2>1. final \in [Dirs -> [Patches -> {"none", "torn", "whole"}]]
    BY DEF FilesInv, TypeOK
  <2>. QED
    BY ONLY <2>1, <1>2, PutFile
<1> HIDE DEF files
<1>4. \A d \in Dirs, p \in Patches :
        final'[d][p] = IF d = "toApply" /\ move.to = "applied" /\ p = move.patch
                       THEN "none" ELSE files[d][p]
  BY <1>1, <1>2, <1>3, SourceIsGone
<1>5. \A p \in Patches \ {move.patch} : p \in temp' <=> p \in temp
  BY <1>1 DEF SourceGone
<1>6. \A d \in Dirs, p \in Patches :
        IF d = move.to /\ p = move.patch THEN final'[d][p] = "whole"
        ELSE \/ final'[d][p] = final[d][p]
             \/ move.to = "applied" /\ d = "toApply" /\ p = move.patch
  BY <1>3, <1>4
<1>. QED
  BY <1>1, <1>2, <1>5, <1>6, SettledMoves

(* A copy is settled when the interim file gets its name.                  *)
LEMMA SettleMoves ==
  ASSUME FilesInv, Settle
  PROVE  Places!Move(move.patch)
<1>1. /\ up /\ move.at = "settle" /\ temp' = temp
      /\ final' = Put(final, move.to, move.patch, interim[move.to][move.patch])
  BY DEF Settle, At
<1>2. /\ move # NoMove /\ move.patch \in Patches /\ move.to \in Dirs
      /\ interim[move.to][move.patch] = "whole" /\ final[move.to][move.patch] = "none"
  BY <1>1, AtMove DEF FilesInv, MoveInv
<1>3. final \in [Dirs -> [Patches -> {"none", "torn", "whole"}]]
  BY DEF FilesInv, TypeOK
<1>4. \A d \in Dirs, p \in Patches :
        final'[d][p] = IF d = move.to /\ p = move.patch THEN "whole" ELSE final[d][p]
  BY <1>1, <1>2, <1>3, PutFile
<1>. QED
  BY <1>1, <1>2, <1>4, SettledMoves

(* The source is removed when the patch is in its new place already.       *)
LEMMA RemoveMovesNothing ==
  ASSUME FilesInv, Remove
  PROVE  place' = place
<1>1. up /\ move.at = "remove" /\ SourceGone(final)
  BY DEF Remove, At
<1>2. /\ move # NoMove /\ move.patch \in Patches /\ move.to \in Dirs
      /\ final[move.to][move.patch] = "whole" /\ move.to \in DirsOf(move.patch)
  BY <1>1, AtMove DEF FilesInv, MoveInv
<1>3. \A d \in Dirs, p \in Patches :
        final'[d][p] = IF d = "toApply" /\ move.to = "applied" /\ p = move.patch
                       THEN "none" ELSE final[d][p]
  BY <1>1, <1>2, SourceIsGone DEF FilesInv, TypeOK
<1>4. \A p \in Patches \ {move.patch} : p \in temp' <=> p \in temp
  BY <1>1 DEF SourceGone
<1>5. ASSUME NEW p \in Patches PROVE place'[p] = place[p]
  <2>1. CASE p # move.patch
    BY <1>3, <1>4, <2>1 DEF place, Dirs
  <2>2. CASE p = move.patch
    BY <1>2, <1>3, <2>2 DEF place, Dirs
  <2>. QED
    BY <2>1, <2>2
<1>. QED
  BY <1>5 DEF place

(* The files of a storage move as PatchPlaces says: in single steps, from  *)
(* one place to the next, however moveFile fails or is cut short.          *)
THEOREM StorageMovesAtomically == Spec => MovesAreAtomic
<1>1. FilesInv /\ [Next]_vars => [Places!Next]_place
  <2> SUFFICES ASSUME FilesInv, [Next]_vars PROVE [Places!Next]_place
    OBVIOUS
  <2>1. CASE Load \/ LoadFails
    BY <2>1, SamePlace DEF Load, LoadFails
  <2>2. CASE Crash
    BY <2>2, CrashForgets DEF Places!Next
  <2>3. ASSUME NEW p \in Patches, Fetch(p) PROVE [Places!Next]_place
    BY <2>3, FetchAppears DEF Places!Next, Places!Patches, Patches
  <2>4. ASSUME NEW p \in Patches, NEW d \in Dirs, MovePatch(p, d) PROVE [Places!Next]_place
    BY <2>4, SamePlace DEF MovePatch, disk
  <2>5. CASE AlreadyThere \/ RenameFails \/ InterimExists \/ SettleFails \/ RemoveFails
    BY <2>5, SamePlace DEF AlreadyThere, RenameFails, InterimExists, SettleFails, RemoveFails, disk
  <2>6. CASE CopyBegins \/ CopyEnds \/ CopyFails
    BY <2>6, SamePlace DEF CopyBegins, CopyEnds, CopyFails
  <2>7. CASE Rename \/ Settle
    <3>1. move.patch \in Patches
      BY <2>7, AtMove DEF Rename, Settle, At
    <3>. QED
      BY <2>7, <3>1, RenameMoves, SettleMoves DEF Places!Next, Places!Patches, Patches
  <2>8. CASE Remove
    BY <2>8, RemoveMovesNothing
  <2>9. CASE UNCHANGED vars
    BY <2>9, SamePlace DEF vars
  <2>. QED
    BY <2>1, <2>2, <2>3, <2>4, <2>5, <2>6, <2>7, <2>8, <2>9 DEF Next, MoveFile
<1>. QED
  BY FilesInvariance, PlacesInit, <1>1, PTL DEF Spec, MovesAreAtomic, Places!Spec

=============================================================================
