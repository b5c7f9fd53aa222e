--------------------------- MODULE FolderSyncProofs ---------------------------
(***************************************************************************)
(* Proofs about FolderSync for any number of devices, edits and crashes,   *)
(* and whatever may fail.  The inductive invariant IInv joins what hg      *)
(* keeps true of its stores (StoreInv), the base of the next bundle        *)
(* (BaseInv), the position in memory and the files (IndexInv), what is     *)
(* published (CoverInv), and what becomes of a batch (ApplyInv, TurnsInv). *)
(***************************************************************************)
EXTENDS FolderSync, TLAPS

(* Ancestry is reflexive and transitive; stores are closed under it and    *)
(* hold the working directory's parent.                                    *)
StoreInv ==
  /\ history[NoCommit] = {}
  /\ \A c \in Commits : c \in history[c] /\ \A b \in history[c] : history[b] \subseteq history[c]
  /\ \A d \in Devices : \A c \in repo[d] : history[c] \subseteq repo[d]
  /\ \A d \in Devices : parent[d] # NoCommit => parent[d] \in repo[d]

(* Outgoing files are named after ancestors of the working directory.      *)
BaseInv ==
  \A d \in Devices :
    /\ \A p \in OutgoingFiles(d) : p.last \in history[parent[d]]
    /\ pc[d] = "bundle" => parent[d] # lastOutgoing[d]

(* The position in memory is behind the last patch that is listed; a file  *)
(* that is not has at most the next index.                                 *)
IndexInv ==
  \A d \in Devices :
    /\ \A p \in outgoing[d] : p.index < nextIndex[d]
    /\ \A p \in unlisted[d] : p.index <= nextIndex[d]
    /\ \/ nextIndex[d] = 1 /\ lastOutgoing[d] = NoCommit
       \/ \E p \in outgoing[d] : p.index + 1 = nextIndex[d] /\ p.last = lastOutgoing[d]

(* What an outgoing file relies on is in it or published up to its index.  *)
Complete(d, p) == history[p.last] \cup Bases(p) \subseteq p.content \cup PublishedUpTo(d, p)
CoverInv == \A d \in Devices : \A p \in OutgoingFiles(d) : Complete(d, p)

(* What of the batch has been unbundled is in the store.                   *)
InStore(d, p) == p.whole /\ p.content \subseteq repo[d]
ApplyInv ==
  /\ AppliedIsInStore
  /\ \A d \in Devices :
       /\ pc[d] = "unbundle" => \A p \in batch[d] \ todo[d] : InStore(d, p)
       /\ pc[d] \in {"update", "stage"} => \A p \in batch[d] : InStore(d, p)

(* The directories are staged and filled by turns: no CloudDestination is  *)
(* at work while the batch is staged, and what it moves in was not applied *)
(* before.  Until then the batch is what is to apply.                      *)
TurnsInv ==
  \A d \in Devices :
    /\ Names(toApply[d] \cup arrived[d]) \cap Names(applied[d]) \subseteq Names(kept[d])
    /\ Names(toApply[d] \cup batch[d]) \cap Names(arrived[d]) = {}
    /\ pc[d] # "stage" => Names(batch[d]) \subseteq Names(toApply[d])
    /\ pc[d] = "stage" => cloudTask[d] = "none"
    /\ cloudTask[d] = "pull" => Names(pulls[d]) \cap Names(applied[d]) = {}

IInv == TypeOK /\ StoreInv /\ BaseInv /\ IndexInv /\ CoverInv /\ ApplyInv /\ TurnsInv

-----------------------------------------------------------------------------
(* A commit keeps the types and the ancestors of the changesets there are. *)
LEMMA CommitAllType ==
  ASSUME TypeOK, NEW d \in Devices, NEW changed \in BOOLEAN, CommitAll(d, changed)
  PROVE  /\ made' \in Nat /\ made <= made'
         /\ history' \in [0..made' -> SUBSET (1..made')]
         /\ repo' \in [Devices -> SUBSET (1..made')]
         /\ parent' \in [Devices -> 0..made']
         /\ dirty' \in [Devices -> BOOLEAN]
         /\ \A c \in 0..made : history'[c] = history[c]
<1>1. CASE changed
  <2>1. made' = made + 1 /\ made \in Nat
    BY <1>1 DEF TypeOK, StoreType, CommitAll
  <2>2. \A c \in 0..made' :
          history'[c] = IF c = made + 1 THEN history[parent[d]] \cup {c} ELSE history[c]
    BY <1>1, <2>1 DEF CommitAll
  <2>3. \A c \in 0..made : history[c] \in SUBSET (1..made)
    BY DEF TypeOK, StoreType, Commits
  <2>4. \A c \in 0..made' : history'[c] \in SUBSET (1..made')
    <3>1. TAKE c \in 0..made'
    <3>2. 1..made \subseteq 1..made' /\ made + 1 \in 1..made' /\ parent[d] \in 0..made
      BY <2>1 DEF TypeOK, StoreType
    <3>3. CASE c = made + 1
      <4>1. history'[c] = history[parent[d]] \cup {c}
        BY <2>2, <3>3
      <4>2. history[parent[d]] \in SUBSET (1..made)
        BY <2>3, <3>2
      <4>. QED
        BY <4>1, <4>2, <3>2, <3>3
    <3>4. CASE c # made + 1
      <4>1. c \in 0..made
        BY <2>1, <3>4
      <4>2. history'[c] = history[c]
        BY <2>2, <3>4
      <4>. QED
        BY <4>1, <4>2, <2>3, <3>2
    <3>. QED
      BY <3>3, <3>4
  <2>5. history' \in [0..made' -> SUBSET (1..made')]
    BY <1>1, <2>1, <2>4 DEF CommitAll
  <2>6. repo' \in [Devices -> SUBSET (1..made')]
    <3>1. repo' = [repo EXCEPT ![d] = repo[d] \cup {made + 1}]
      BY <1>1 DEF CommitAll
    <3>2. 1..made \subseteq 1..made' /\ made + 1 \in 1..made'
      BY <2>1
    <3>. QED
      BY <3>1, <3>2 DEF TypeOK, StoreType, Commits
  <2>7. parent' \in [Devices -> 0..made']
    BY <1>1, <2>1 DEF TypeOK, StoreType, CommitAll
  <2>8. dirty' \in [Devices -> BOOLEAN]
    BY DEF TypeOK, StoreType, CommitAll
  <2>. QED
    BY <2>1, <2>2, <2>5, <2>6, <2>7, <2>8
<1>2. CASE ~changed
  BY <1>2 DEF TypeOK, StoreType, CommitAll, Commits
<1>. QED
  BY <1>1, <1>2

(* A new changeset makes more patches possible and none impossible.        *)
LEMMA PatchesGrow ==
  ASSUME made \in Nat, made' \in Nat, made <= made'
  PROVE  Patches \subseteq Patches'
BY DEF Patches, Commits

(* Directories that held patches still hold patches.                       *)
LEMMA FilesGrow ==
  ASSUME Patches \subseteq Patches', NEW files, files \in [Devices -> SUBSET Patches]
  PROVE  files \in [Devices -> SUBSET Patches']
OBVIOUS

(* Without a new changeset the possible patches are the same.              *)
LEMMA SameCommits ==
  ASSUME UNCHANGED made
  PROVE  Patches' = Patches /\ Commits' = Commits
BY DEF Patches, Commits

(* moveFile lists the file it is given or one that has its name.           *)
LEMMA FiledType ==
  ASSUME NEW p \in Patches, NEW files \in SUBSET Patches
  PROVE  FiledAs(p, files) \subseteq Patches
BY DEF FiledAs

(* A restart starts after a newest outgoing file, or from the beginning.   *)
LEMMA LoadedFrom ==
  ASSUME NEW files
  PROVE  /\ files = {} => Loaded(files) = {<<1, NoCommit>>}
         /\ \A start : files # {} =>
              (start \in Loaded(files) <=> \E p \in files : /\ start = <<p.index + 1, p.last>>
                                                          /\ \A r \in files : r.index <= p.index)
BY DEF Loaded

(* A new patch is named after a commit: the working directory has a parent *)
(* unless nothing was ever bundled, and then the bundle is refused.        *)
LEMMA NewPatchType ==
  ASSUME TypeOK, StoreInv, BaseInv, IndexInv, NEW d \in Devices, pc[d] = "bundle"
  PROVE  NewPatch(d) \in Patches
<1>1. parent[d] \in Commits
  <2>1. parent[d] # NoCommit
    BY DEF StoreInv, BaseInv, IndexInv, OutgoingFiles
  <2>. QED
    BY <2>1 DEF TypeOK, StoreType, Commits, NoCommit
<1>2. repo[d] \ history[lastOutgoing[d]] \in SUBSET Commits
  BY DEF TypeOK, StoreType
<1>3. nextIndex[d] \in Nat \ {0}
  BY DEF TypeOK, MemType
<1>. QED
  BY <1>1, <1>2, <1>3 DEF NewPatch, Patches

(* Every step of every device keeps the types.                             *)
LEMMA TypeStep ==
  ASSUME IInv, [Next]_vars
  PROVE  TypeOK'
<1> USE ConstantsAssumption
        DEF TypeOK, StoreType, TaskType, MemType, FilesType, Goto, hgVars, taskVars, memVars,
            diskVars, cloudVars, boundVars
<1>0. TypeOK /\ StoreInv /\ BaseInv /\ IndexInv
  BY DEF IInv
<1>1. ASSUME NEW d \in Devices, Edit(d) PROVE TypeOK'
  BY <1>0, <1>1, SameCommits DEF Edit
<1>2. ASSUME NEW d \in Devices, Revert(d) PROVE TypeOK'
  BY <1>0, <1>2, SameCommits DEF Revert
<1>3. ASSUME NEW d \in Devices, CheckLocal(d) PROVE TypeOK'
  BY <1>0, <1>3, SameCommits DEF CheckLocal
<1>4. ASSUME NEW d \in Devices, CheckLocalState(d) PROVE TypeOK'
  BY <1>0, <1>4, SameCommits DEF CheckLocalState
<1>5. ASSUME NEW d \in Devices, ListPatchesToApply(d) PROVE TypeOK'
  <2>1. batch' \in [Devices -> SUBSET Patches]
    BY <1>0, <1>5 DEF ListPatchesToApply
  <2>2. \E where \in {"idle", "applyCommit"} : Goto(d, where)
    BY <1>5 DEF ListPatchesToApply
  <2>. QED
    BY <1>0, <1>5, <2>1, <2>2, SameCommits DEF ListPatchesToApply
<1>6. ASSUME NEW d \in Devices, Unbundle(d) PROVE TypeOK'
  <2>1. PICK p \in todo[d] :
          /\ repo' = [repo EXCEPT ![d] = repo[d] \cup p.content]
          /\ todo' = [todo EXCEPT ![d] = todo[d] \ {p}]
          /\ \E where \in {"update", "unbundle"} : Goto(d, where)
    BY <1>6 DEF Unbundle, FirstOf
  <2>2. p.content \in SUBSET Commits
    BY <1>0 DEF Patches
  <2>3. repo' \in [Devices -> SUBSET Commits]
    BY <1>0, <2>1, <2>2
  <2>4. todo' \in [Devices -> SUBSET Patches]
    BY <1>0, <2>1
  <2>. QED
    BY <1>0, <1>6, <2>1, <2>3, <2>4, SameCommits DEF Unbundle
<1>7. ASSUME NEW d \in Devices, UnbundleFails(d) PROVE TypeOK'
  BY <1>0, <1>7, SameCommits DEF UnbundleFails
<1>8. ASSUME NEW d \in Devices, Update(d) PROVE TypeOK'
  <2>1. parent' \in [Devices -> 0..made]
    BY <1>0, <1>8 DEF Update, Targets, Heads, Commits
  <2>. QED
    BY <1>0, <1>8, <2>1, SameCommits DEF Update
<1>9. ASSUME NEW d \in Devices, StagePatchAsApplied(d) PROVE TypeOK'
  BY <1>0, <1>9, SameCommits DEF StagePatchAsApplied, FirstOf, Others
<1>10. ASSUME NEW d \in Devices, HgFails(d) PROVE TypeOK'
  BY <1>0, <1>10, SameCommits DEF HgFails, Failing
<1>11. ASSUME NEW d \in Devices, UpdateThenFail(d) PROVE TypeOK'
  <2>1. parent' \in [Devices -> 0..made]
    BY <1>0, <1>11 DEF UpdateThenFail, Targets, Heads, Commits
  <2>. QED
    BY <1>0, <1>11, <2>1, SameCommits DEF UpdateThenFail, Failing
<1>12. ASSUME NEW d \in Devices, SummaryFatal(d) PROVE TypeOK'
  BY <1>0, <1>12, SameCommits DEF SummaryFatal
<1>13. ASSUME NEW d \in Devices, StageFails(d) PROVE TypeOK'
  BY <1>0, <1>13, SameCommits DEF StageFails
<1>14. ASSUME NEW d \in Devices, CheckRemotes(d) PROVE TypeOK'
  BY <1>0, <1>14, SameCommits DEF CheckRemotes
<1>15. ASSUME NEW d \in Devices, ListAndDownload(d) PROVE TypeOK'
  BY <1>0, <1>15, SameCommits DEF ListAndDownload, Missing
<1>16. ASSUME NEW d \in Devices, MovePatchToApply(d) PROVE TypeOK'
  <2>1. toApply' \in [Devices -> SUBSET Patches]
    <3>1. PICK p \in pulls[d] : \E q \in FiledAs(p, toApply[d] \cup arrived[d]) :
            toApply' = [toApply EXCEPT ![d] = toApply[d] \cup {q}]
      BY <1>16 DEF MovePatchToApply, FirstOf
    <3>2. FiledAs(p, toApply[d] \cup arrived[d]) \subseteq Patches
      BY <1>0, <3>1, FiledType
    <3>3. PICK q \in Patches : toApply' = [toApply EXCEPT ![d] = toApply[d] \cup {q}]
      BY <3>1, <3>2
    <3>. QED
      BY <1>0, <3>3
  <2>2. arrived' \in [Devices -> SUBSET Patches]
    BY <1>0, <1>16 DEF MovePatchToApply, Others
  <2>3. moved' \in [Devices -> BOOLEAN]
    BY <1>0, <1>16 DEF MovePatchToApply
  <2>. QED
    BY <1>0, <1>16, <2>1, <2>2, <2>3, SameCommits DEF MovePatchToApply
<1>17. ASSUME NEW d \in Devices, NotifyIncoming(d) PROVE TypeOK'
  BY <1>0, <1>17, SameCommits DEF NotifyIncoming
<1>18. ASSUME NEW d \in Devices, UploadFile(d) PROVE TypeOK'
  BY <1>0, <1>18, SameCommits DEF UploadFile, Uploaded, FirstOf
<1>19. ASSUME NEW d \in Devices, UploadBegins(d) PROVE TypeOK'
  <2>1. PICK p \in uploads[d] : cloud' = cloud \cup {[p EXCEPT !.whole = FALSE]}
    BY <1>19 DEF UploadBegins, FirstOf
  <2>2. p \in Patches
    BY <1>0, <2>1
  <2>3. [p EXCEPT !.whole = FALSE] \in Patches
    BY <2>2 DEF Patches
  <2>. QED
    BY <1>0, <1>19, <2>1, <2>3, SameCommits DEF UploadBegins
<1>20. ASSUME NEW d \in Devices, UploadEnds(d) PROVE TypeOK'
  BY <1>0, <1>20, SameCommits DEF UploadEnds, Uploaded
<1>21. ASSUME NEW d \in Devices, CloudFails(d) PROVE TypeOK'
  BY <1>0, <1>21, SameCommits DEF CloudFails, CloudTaskEnds
<1>22. ASSUME NEW d \in Devices, Crash(d) PROVE TypeOK'
  <2>1. nextIndex' \in [Devices -> Nat \ {0}] /\ lastOutgoing' \in [Devices -> 0..made]
    <3>1. PICK start \in Loaded(outgoing[d] \cup unlisted[d]) :
            /\ nextIndex' = [nextIndex EXCEPT ![d] = start[1]]
            /\ lastOutgoing' = [lastOutgoing EXCEPT ![d] = start[2]]
      BY <1>22 DEF Crash
    <3>2. start[1] \in Nat \ {0} /\ start[2] \in 0..made
      <4>1. CASE outgoing[d] \cup unlisted[d] = {}
        <5>1. start = <<1, NoCommit>>
          BY <3>1, <4>1, LoadedFrom
        <5>. QED
          BY <1>0, <5>1 DEF NoCommit
      <4>2. CASE outgoing[d] \cup unlisted[d] # {}
        <5>1. PICK p \in outgoing[d] \cup unlisted[d] : start = <<p.index + 1, p.last>>
          BY <3>1, <4>2, LoadedFrom
        <5>. QED
          BY <1>0, <5>1 DEF Patches, Commits
      <4>. QED
        BY <4>1, <4>2
    <3>. QED
      BY <1>0, <3>1, <3>2
  <2>2. /\ batch' \in [Devices -> SUBSET Patches] /\ todo' \in [Devices -> SUBSET Patches]
        /\ pulls' \in [Devices -> SUBSET Patches] /\ uploads' \in [Devices -> SUBSET Patches]
        /\ moved' \in [Devices -> BOOLEAN]
    BY <1>0, <1>22 DEF Crash, CloudTaskEnds
  <2>3. crashes' \in 0..MaxCrashes
    BY <1>0, <1>22 DEF Crash
  <2>4. /\ outgoing' \in [Devices -> SUBSET Patches] /\ unlisted' \in [Devices -> SUBSET Patches]
        /\ toApply' \in [Devices -> SUBSET Patches] /\ arrived' \in [Devices -> SUBSET Patches]
        /\ applied' \in [Devices -> SUBSET Patches]
    BY <1>0, <1>22 DEF Crash
  <2>. QED
    BY <1>0, <1>22, <2>1, <2>2, <2>3, <2>4, SameCommits DEF Crash, CloudTaskEnds
<1>23. ASSUME NEW d \in Devices, MovePatchToOutgoing(d) PROVE TypeOK'
  <2>1. NewPatch(d) \in Patches
    BY <1>0, <1>23, NewPatchType DEF MovePatchToOutgoing
  <2>2. outgoing' \in [Devices -> SUBSET Patches] /\ unlisted' \in [Devices -> SUBSET Patches]
    <3>1. FiledAs(NewPatch(d), unlisted[d]) \subseteq Patches
      BY <1>0, <2>1, FiledType
    <3>. QED
      BY <1>0, <1>23, <3>1 DEF MovePatchToOutgoing, Others
  <2>3. nextIndex' \in [Devices -> Nat \ {0}] /\ lastOutgoing' \in [Devices -> 0..made]
    BY <1>0, <1>23 DEF MovePatchToOutgoing
  <2>. QED
    BY <1>0, <1>23, <2>2, <2>3, SameCommits DEF MovePatchToOutgoing
<1>24. ASSUME NEW d \in Devices, AddFolder(d) PROVE TypeOK'
  <2>1. CommitAll(d, d \in Populated) /\ (d \in Populated) \in BOOLEAN
    BY <1>0, <1>24 DEF AddFolder
  <2>2. StoreType' /\ made' \in Nat /\ made <= made'
    BY <1>0, <2>1, CommitAllType DEF Commits
  <2>3. /\ batch' \in [Devices -> SUBSET Patches] /\ todo' \in [Devices -> SUBSET Patches]
        /\ UNCHANGED <<diskVars, pulls, uploads, cloud>>
    BY <1>0, <1>24 DEF AddFolder
  <2>4. FilesType' /\ MemType'
    <3>1. UNCHANGED <<nextIndex, lastOutgoing>>
      BY <1>24 DEF AddFolder
    <3>2. Patches \subseteq Patches' /\ 0..made \subseteq 0..made'
      BY <1>0, <2>2, PatchesGrow
    <3>3. FilesType'
      BY <1>0, <2>3, <3>2, FilesGrow
    <3>. QED
      BY <1>0, <3>1, <3>2, <3>3
  <2>5. TaskType'
    BY <1>0, <1>24 DEF AddFolder
  <2>. QED
    BY <2>2, <2>4, <2>5
<1>25. ASSUME NEW d \in Devices, PrepareCommit(d) PROVE TypeOK'
  <2>1. CommitAll(d, dirty[d]) /\ (dirty[d]) \in BOOLEAN
    BY <1>0, <1>25 DEF PrepareCommit
  <2>2. StoreType' /\ made' \in Nat /\ made <= made'
    BY <1>0, <2>1, CommitAllType DEF Commits
  <2>3. /\ batch' \in [Devices -> SUBSET Patches] /\ todo' \in [Devices -> SUBSET Patches]
        /\ UNCHANGED <<diskVars, pulls, uploads, cloud>>
    BY <1>0, <1>25 DEF PrepareCommit
  <2>4. FilesType' /\ MemType'
    <3>1. UNCHANGED <<nextIndex, lastOutgoing>>
      BY <1>25 DEF PrepareCommit
    <3>2. Patches \subseteq Patches' /\ 0..made \subseteq 0..made'
      BY <1>0, <2>2, PatchesGrow
    <3>3. FilesType'
      BY <1>0, <2>3, <3>2, FilesGrow
    <3>. QED
      BY <1>0, <3>1, <3>2, <3>3
  <2>5. TaskType'
    BY <1>0, <1>25 DEF PrepareCommit
  <2>. QED
    BY <2>2, <2>4, <2>5
<1>26. ASSUME NEW d \in Devices, ApplyCommit(d) PROVE TypeOK'
  <2>1. CommitAll(d, dirty[d]) /\ (dirty[d]) \in BOOLEAN
    BY <1>0, <1>26 DEF ApplyCommit
  <2>2. StoreType' /\ made' \in Nat /\ made <= made'
    BY <1>0, <2>1, CommitAllType DEF Commits
  <2>3. /\ batch' \in [Devices -> SUBSET Patches] /\ todo' \in [Devices -> SUBSET Patches]
        /\ UNCHANGED <<diskVars, pulls, uploads, cloud>>
    BY <1>0, <1>26 DEF ApplyCommit
  <2>4. FilesType' /\ MemType'
    <3>1. UNCHANGED <<nextIndex, lastOutgoing>>
      BY <1>26 DEF ApplyCommit
    <3>2. Patches \subseteq Patches' /\ 0..made \subseteq 0..made'
      BY <1>0, <2>2, PatchesGrow
    <3>3. FilesType'
      BY <1>0, <2>3, <3>2, FilesGrow
    <3>. QED
      BY <1>0, <3>1, <3>2, <3>3
  <2>5. TaskType'
    BY <1>0, <1>26 DEF ApplyCommit
  <2>. QED
    BY <2>2, <2>4, <2>5
<1>27. ASSUME NEW d \in Devices, CommitThenFail(d) PROVE TypeOK'
  <2>1. CommitAll(d, dirty[d]) /\ (dirty[d]) \in BOOLEAN
    BY <1>0, <1>27 DEF CommitThenFail
  <2>2. StoreType' /\ made' \in Nat /\ made <= made'
    BY <1>0, <2>1, CommitAllType DEF Commits
  <2>3. /\ batch' \in [Devices -> SUBSET Patches] /\ todo' \in [Devices -> SUBSET Patches]
        /\ UNCHANGED <<diskVars, pulls, uploads, cloud>>
    BY <1>0, <1>27 DEF CommitThenFail, Failing
  <2>4. FilesType' /\ MemType'
    <3>1. UNCHANGED <<nextIndex, lastOutgoing>>
      BY <1>27 DEF CommitThenFail, Failing
    <3>2. Patches \subseteq Patches' /\ 0..made \subseteq 0..made'
      BY <1>0, <2>2, PatchesGrow
    <3>3. FilesType'
      BY <1>0, <2>3, <3>2, FilesGrow
    <3>. QED
      BY <1>0, <3>1, <3>2, <3>3
  <2>5. TaskType'
    BY <1>0, <1>27 DEF CommitThenFail, Failing
  <2>. QED
    BY <2>2, <2>4, <2>5
<1>28. ASSUME NEW d \in Devices, MoveThenFail(d) PROVE TypeOK'
  <2>1. NewPatch(d) \in Patches
    BY <1>0, <1>28, NewPatchType DEF MoveThenFail
  <2>. QED
    BY <1>0, <1>28, <2>1, SameCommits DEF MoveThenFail
<1>29. ASSUME NEW d \in Devices, StageThenFail(d) PROVE TypeOK'
  <2>1. kept' \in [Devices -> SUBSET Patches]
    BY <1>0, <1>29 DEF StageThenFail, FirstOf
  <2>. QED
    BY <1>0, <1>29, <2>1, SameCommits DEF StageThenFail
<1>30. ASSUME NEW d \in Devices, ArriveThenFail(d) PROVE TypeOK'
  <2>1. arrived' \in [Devices -> SUBSET Patches]
    BY <1>0, <1>30 DEF ArriveThenFail, FirstOf
  <2>. QED
    BY <1>0, <1>30, <2>1, SameCommits DEF ArriveThenFail, CloudTaskEnds
<1>31. CASE UNCHANGED vars
  BY <1>0, <1>31, SameCommits DEF vars
<1>. QED
  BY <1>1, <1>2, <1>3, <1>4, <1>5, <1>6, <1>7, <1>8, <1>9, <1>10, <1>11, <1>12, <1>13, <1>14,
     <1>15, <1>16, <1>17, <1>18, <1>19, <1>20, <1>21, <1>22, <1>23, <1>24, <1>25, <1>26, <1>27,
     <1>28, <1>29, <1>30, <1>31 DEF Next, FolderTask, CloudTask, Failures

-----------------------------------------------------------------------------
(* What a step can do to the hg stores: commit, unbundle, update or        *)
(* nothing.                                                                *)
HgCommits == \E d \in Devices, changed \in BOOLEAN : CommitAll(d, changed)
HgUpdates ==
  /\ UNCHANGED <<made, history, repo>>
  /\ \E d \in Devices : \E c \in Targets(d) : parent' = [parent EXCEPT ![d] = c]
HgUnbundles == \E d \in Devices : Unbundle(d)

(* Every step does one of them.                                            *)
LEMMA HgSteps ==
  ASSUME TypeOK, [Next]_vars
  PROVE  \/ HgCommits \/ HgUpdates \/ HgUnbundles
         \/ UNCHANGED <<made, history, repo, parent>>
<1> USE DEF hgVars
<1>1. ASSUME NEW d \in Devices, AddFolder(d) PROVE HgCommits
  <2>1. CommitAll(d, d \in Populated) /\ (d \in Populated) \in BOOLEAN
    BY <1>1 DEF AddFolder
  <2>. QED
    BY <2>1, Zenon DEF HgCommits
<1>2. ASSUME NEW d \in Devices, PrepareCommit(d) PROVE HgCommits
  BY <1>2 DEF PrepareCommit, HgCommits, TypeOK, StoreType
<1>3. ASSUME NEW d \in Devices, ApplyCommit(d) PROVE HgCommits
  BY <1>3 DEF ApplyCommit, HgCommits, TypeOK, StoreType
<1>4. ASSUME NEW d \in Devices, CommitThenFail(d) PROVE HgCommits
  BY <1>4 DEF CommitThenFail, HgCommits, TypeOK, StoreType
<1>5. ASSUME NEW d \in Devices, Update(d) \/ UpdateThenFail(d) PROVE HgUpdates
  BY <1>5 DEF Update, UpdateThenFail, HgUpdates
<1>6. ASSUME NEW d \in Devices, Unbundle(d) PROVE HgUnbundles
  BY <1>6 DEF HgUnbundles
<1>7. ASSUME NEW d \in Devices,
             \/ Edit(d) \/ Revert(d) \/ CheckLocal(d) \/ CheckRemotes(d)
             \/ CheckLocalState(d) \/ MovePatchToOutgoing(d) \/ ListPatchesToApply(d)
             \/ UnbundleFails(d) \/ StagePatchAsApplied(d) \/ CloudTask(d)
             \/ HgFails(d) \/ SummaryFatal(d) \/ MoveThenFail(d) \/ StageFails(d)
             \/ StageThenFail(d) \/ CloudFails(d) \/ ArriveThenFail(d) \/ Crash(d)
      PROVE  UNCHANGED <<made, history, repo, parent>>
  BY <1>7 DEF Edit, Revert, CheckLocal, CheckRemotes, CheckLocalState, MovePatchToOutgoing,
    ListPatchesToApply, UnbundleFails, StagePatchAsApplied, CloudTask, ListAndDownload,
    MovePatchToApply, NotifyIncoming, UploadFile, Uploaded, UploadBegins, UploadEnds, HgFails,
    SummaryFatal, MoveThenFail, StageFails, StageThenFail, CloudFails, ArriveThenFail, Crash
<1>8. CASE UNCHANGED vars
  BY <1>8 DEF vars
<1>. QED
  BY <1>1, <1>2, <1>3, <1>4, <1>5, <1>6, <1>7, <1>8 DEF Next, FolderTask, Failures

(* Changesets keep their ancestors and stores their changesets.            *)
LEMMA HgGrows ==
  ASSUME TypeOK, [Next]_vars
  PROVE  /\ made' \in Nat /\ made <= made'
         /\ \A c \in 0..made : history'[c] = history[c]
         /\ \A d \in Devices : repo[d] \subseteq repo'[d]
<1>1. CASE HgCommits
  <2>1. PICK d \in Devices, changed \in BOOLEAN : CommitAll(d, changed)
    BY <1>1 DEF HgCommits
  <2>2. \A e \in Devices : repo[e] \subseteq repo'[e]
    BY <2>1 DEF CommitAll, TypeOK, StoreType
  <2>. QED
    BY <2>1, <2>2, CommitAllType
<1>2. CASE HgUpdates
  BY <1>2 DEF HgUpdates, TypeOK, StoreType
<1>3. CASE HgUnbundles
  BY <1>3 DEF HgUnbundles, Unbundle, TypeOK, StoreType
<1>4. CASE UNCHANGED <<made, history, repo, parent>>
  BY <1>4 DEF TypeOK, StoreType
<1>. QED
  BY <1>1, <1>2, <1>3, <1>4, HgSteps

(* hg keeps its stores closed under ancestors: a commit adds a child of a  *)
(* changeset that is there, an unbundle what fits.                         *)
LEMMA StoreStep ==
  ASSUME IInv, [Next]_vars
  PROVE  StoreInv'
<1>0. TypeOK /\ TypeOK' /\ StoreInv
  BY TypeStep DEF IInv
<1>1. CASE HgCommits
  <2>1. PICK d \in Devices, changed \in BOOLEAN : CommitAll(d, changed)
    BY <1>1 DEF HgCommits
  <2>2. CASE ~changed
    BY <1>0, <2>1, <2>2 DEF CommitAll, StoreInv, Commits
  <2>3. CASE changed
    <3>1. /\ made' = made + 1 /\ made \in Nat /\ parent[d] \in 0..made
          /\ history'[made + 1] = history[parent[d]] \cup {made + 1}
          /\ repo' = [repo EXCEPT ![d] = repo[d] \cup {made + 1}]
          /\ parent' = [parent EXCEPT ![d] = made + 1]
      BY <1>0, <2>1, <2>3 DEF CommitAll, TypeOK, StoreType
    <3>2. \A c \in 0..made : history'[c] = history[c] /\ history[c] \subseteq 1..made
      BY <1>0, <2>1, CommitAllType DEF TypeOK, StoreType, Commits
    <3>3. history'[NoCommit] = {}
      BY <1>0, <3>1, <3>2 DEF StoreInv, NoCommit
    <3>4. ASSUME NEW c \in 1..made' , NEW b \in history'[c]
          PROVE  c \in history'[c] /\ history'[b] \subseteq history'[c]
      <4>1. CASE c # made + 1
        <5>1. c \in 1..made /\ c \in 0..made
          BY <3>1, <4>1
        <5>2. b \in history[c] /\ b \in 0..made
          BY <3>2, <5>1
        <5>. QED
          BY <1>0, <3>2, <5>1, <5>2 DEF StoreInv, Commits
      <4>2. CASE c = made + 1 /\ b # made + 1
        <5>1. b \in history[parent[d]] /\ b \in 0..made
          BY <3>1, <3>2, <4>2
        <5>2. parent[d] \in 1..made
          BY <1>0, <3>1, <5>1 DEF StoreInv, NoCommit
        <5>3. history[b] \subseteq history[parent[d]]
          BY <1>0, <5>1, <5>2 DEF StoreInv, Commits
        <5>. QED
          BY <3>1, <3>2, <4>2, <5>1, <5>3
      <4>3. CASE c = made + 1 /\ b = made + 1
        BY <3>1, <4>3
      <4>. QED
        BY <4>1, <4>2, <4>3
    <3>5. ASSUME NEW c \in 1..made' PROVE c \in history'[c]
      <4>1. CASE c # made + 1
        BY <1>0, <3>1, <3>2, <4>1 DEF StoreInv, Commits
      <4>. QED
        BY <3>1, <4>1
    <3>6. ASSUME NEW e \in Devices, NEW c \in repo'[e] PROVE history'[c] \subseteq repo'[e]
      <4>1. CASE c \in repo[e]
        <5>1. c \in 0..made
          BY <1>0, <4>1 DEF TypeOK, StoreType, Commits
        <5>. QED
          BY <1>0, <3>1, <3>2, <4>1, <5>1 DEF StoreInv, TypeOK, StoreType
      <4>2. CASE c \notin repo[e]
        <5>1. c = made + 1 /\ e = d
          BY <1>0, <3>1, <4>2 DEF TypeOK, StoreType
        <5>2. history[parent[d]] \subseteq repo[d]
          BY <1>0, <3>1 DEF StoreInv, NoCommit
        <5>. QED
          BY <1>0, <3>1, <5>1, <5>2 DEF TypeOK, StoreType
      <4>. QED
        BY <4>1, <4>2
    <3>7. ASSUME NEW e \in Devices, parent'[e] # NoCommit PROVE parent'[e] \in repo'[e]
      BY <1>0, <3>1, <3>7 DEF StoreInv, TypeOK, StoreType
    <3>. QED
      BY <3>3, <3>4, <3>5, <3>6, <3>7 DEF StoreInv, Commits
  <2>. QED
    BY <2>2, <2>3
<1>2. CASE HgUpdates
  <2>1. PICK d \in Devices : \E c \in repo[d] : parent' = [parent EXCEPT ![d] = c]
    BY <1>2 DEF HgUpdates, Targets, Heads
  <2>2. \A e \in Devices : parent'[e] # NoCommit => parent'[e] \in repo[e]
    BY <1>0, <2>1 DEF StoreInv, TypeOK, StoreType
  <2>. QED
    BY <1>0, <1>2, <2>2 DEF HgUpdates, StoreInv, Commits
<1>3. CASE HgUnbundles
  <2>1. PICK d \in Devices, p \in Patches :
          /\ Bases(p) \subseteq repo[d]
          /\ repo' = [repo EXCEPT ![d] = repo[d] \cup p.content]
          /\ UNCHANGED <<made, history, parent>>
    BY <1>0, <1>3 DEF HgUnbundles, Unbundle, Fits, FirstOf, TypeOK, FilesType
  <2>2. \A c \in repo[d] \cup p.content : history[c] \subseteq repo[d] \cup p.content
    <3>1. \A c \in p.content : history[c] \subseteq p.content \cup Bases(p)
      <4>1. \A c \in p.content : history[c] \in {history[e] : e \in p.content}
        OBVIOUS
      <4>2. \A c \in p.content : history[c] \subseteq UNION {history[e] : e \in p.content}
        BY <4>1
      <4>3. Bases(p) = (UNION {history[e] : e \in p.content}) \ p.content
        BY DEF Bases
      <4>. QED
        BY <4>2, <4>3
    <3>. QED
      BY <1>0, <2>1, <3>1 DEF StoreInv
  <2>3. \A e \in Devices : \A c \in repo'[e] : history[c] \subseteq repo'[e]
    BY <1>0, <2>1, <2>2 DEF StoreInv, TypeOK, StoreType
  <2>4. \A e \in Devices : parent[e] # NoCommit => parent[e] \in repo'[e]
    BY <1>0, <2>1 DEF StoreInv, TypeOK, StoreType
  <2>. QED
    BY <1>0, <2>1, <2>3, <2>4 DEF StoreInv, Commits
<1>4. CASE UNCHANGED <<made, history, repo, parent>>
  BY <1>0, <1>4 DEF StoreInv, Commits
<1>. QED
  BY <1>0, <1>1, <1>2, <1>3, <1>4, HgSteps

-----------------------------------------------------------------------------
(* A step moves a patch to the outgoing directory, with or without coming  *)
(* to its end, or restarts the service, or leaves directory and position.  *)
LEMMA OutgoingSteps ==
  ASSUME [Next]_vars
  PROVE  \/ UNCHANGED <<outgoing, unlisted, nextIndex, lastOutgoing>>
         \/ \E d \in Devices : MovePatchToOutgoing(d) \/ MoveThenFail(d) \/ Crash(d)
<1>1. ASSUME NEW d \in Devices,
             \/ AddFolder(d) \/ Edit(d) \/ Revert(d) \/ CheckLocal(d) \/ CheckRemotes(d)
             \/ CheckLocalState(d) \/ PrepareCommit(d) \/ ListPatchesToApply(d)
             \/ ApplyCommit(d) \/ Unbundle(d) \/ UnbundleFails(d) \/ Update(d)
             \/ StagePatchAsApplied(d) \/ CloudTask(d) \/ HgFails(d) \/ CommitThenFail(d)
             \/ UpdateThenFail(d) \/ SummaryFatal(d) \/ StageFails(d) \/ StageThenFail(d)
             \/ CloudFails(d) \/ ArriveThenFail(d)
      PROVE  UNCHANGED <<outgoing, unlisted, nextIndex, lastOutgoing>>
  BY <1>1 DEF memVars, diskVars, AddFolder, Edit, Revert, CheckLocal, CheckRemotes,
    CheckLocalState, PrepareCommit, ListPatchesToApply, ApplyCommit, Unbundle, UnbundleFails,
    Update, StagePatchAsApplied, CloudTask, ListAndDownload, MovePatchToApply, NotifyIncoming,
    UploadFile, Uploaded, UploadBegins, UploadEnds, HgFails, CommitThenFail, UpdateThenFail,
    Failing, SummaryFatal, StageFails, StageThenFail, CloudFails, ArriveThenFail
<1>2. CASE UNCHANGED vars
  BY <1>2 DEF vars, memVars, diskVars
<1>. QED
  BY <1>1, <1>2 DEF Next, FolderTask, Failures

(* A patch that is filed under the name of the new one has its index and   *)
(* its last commit.                                                        *)
LEMMA FiledMember ==
  ASSUME NEW p, NEW files, NEW q \in FiledAs(p, files)
  PROVE  (q = p \/ q \in files) /\ q.index = p.index /\ q.last = p.last
BY DEF FiledAs, Name

(* What is listed stays listed, and a file that was not there is the new   *)
(* patch.                                                                  *)
LEMMA FilesSteps ==
  ASSUME TypeOK, [Next]_vars, NEW e \in Devices
  PROVE  /\ outgoing[e] \subseteq outgoing'[e]
         /\ \A p \in outgoing'[e] \cup unlisted'[e] :
              p \in outgoing[e] \cup unlisted[e] \/ (p = NewPatch(e) /\ pc[e] = "bundle"
                                                    /\ UNCHANGED <<made, history, repo, parent>>)
<1> USE DEF TypeOK, FilesType, hgVars
<1>1. ASSUME NEW d \in Devices, MovePatchToOutgoing(d)
      PROVE  /\ outgoing[e] \subseteq outgoing'[e]
             /\ \A p \in outgoing'[e] \cup unlisted'[e] :
                  \/ p \in outgoing[e] \cup unlisted[e]
                  \/ /\ p = NewPatch(e) /\ pc[e] = "bundle"
                     /\ UNCHANGED <<made, history, repo, parent>>
  <2>1. PICK q \in FiledAs(NewPatch(d), unlisted[d]) :
          outgoing' = [outgoing EXCEPT ![d] = outgoing[d] \cup {q}]
    BY <1>1 DEF MovePatchToOutgoing
  <2>2. q = NewPatch(d) \/ q \in unlisted[d]
    BY <2>1, FiledMember
  <2>3. /\ unlisted' = [unlisted EXCEPT ![d] = Others(NewPatch(d), unlisted[d])]
        /\ pc[d] = "bundle" /\ UNCHANGED <<made, history, repo, parent>>
    BY <1>1 DEF MovePatchToOutgoing
  <2>4. Others(NewPatch(d), unlisted[d]) \subseteq unlisted[d]
    BY DEF Others
  <2>5. CASE e = d
    BY <2>1, <2>2, <2>3, <2>4, <2>5
  <2>6. CASE e # d
    BY <2>1, <2>3, <2>6
  <2>. QED
    BY <2>5, <2>6
<1>2. ASSUME NEW d \in Devices, MoveThenFail(d)
      PROVE  /\ outgoing[e] \subseteq outgoing'[e]
             /\ \A p \in outgoing'[e] \cup unlisted'[e] :
                  \/ p \in outgoing[e] \cup unlisted[e]
                  \/ /\ p = NewPatch(e) /\ pc[e] = "bundle"
                     /\ UNCHANGED <<made, history, repo, parent>>
  BY <1>2 DEF MoveThenFail
<1>3. ASSUME NEW d \in Devices, Crash(d)
      PROVE  /\ outgoing[e] \subseteq outgoing'[e]
             /\ outgoing'[e] \cup unlisted'[e] = outgoing[e] \cup unlisted[e]
  BY <1>3 DEF Crash
<1>. QED
  BY <1>1, <1>2, <1>3, OutgoingSteps

(* The position follows the patches that are listed.                       *)
LEMMA IndexStep ==
  ASSUME IInv, [Next]_vars
  PROVE  IndexInv'
<1>0. TypeOK /\ IndexInv
  BY DEF IInv
<1> DEFINE At(d) ==
      /\ \A p \in outgoing'[d] : p.index < nextIndex'[d]
      /\ \A p \in unlisted'[d] : p.index <= nextIndex'[d]
      /\ \/ nextIndex'[d] = 1 /\ lastOutgoing'[d] = NoCommit
         \/ \E p \in outgoing'[d] : p.index + 1 = nextIndex'[d] /\ p.last = lastOutgoing'[d]
<1>1. \A d \in Devices : /\ nextIndex[d] \in Nat
                         /\ \A p \in outgoing[d] \cup unlisted[d] : p.index \in Nat
  BY <1>0 DEF TypeOK, MemType, FilesType, Patches
<1>2. CASE UNCHANGED <<outgoing, unlisted, nextIndex, lastOutgoing>>
  BY <1>0, <1>2 DEF IndexInv
<1>3. ASSUME NEW d \in Devices, MovePatchToOutgoing(d), NEW e \in Devices PROVE At(e)
  <2>1. PICK q \in FiledAs(NewPatch(d), unlisted[d]) :
          outgoing' = [outgoing EXCEPT ![d] = outgoing[d] \cup {q}]
    BY <1>3 DEF MovePatchToOutgoing
  <2>2. q.index = nextIndex[d] /\ q.last = parent[d]
    BY <2>1, FiledMember DEF NewPatch
  <2>3. /\ unlisted' = [unlisted EXCEPT ![d] = Others(NewPatch(d), unlisted[d])]
        /\ nextIndex' = [nextIndex EXCEPT ![d] = nextIndex[d] + 1]
        /\ lastOutgoing' = [lastOutgoing EXCEPT ![d] = parent[d]]
        /\ Others(NewPatch(d), unlisted[d]) \subseteq unlisted[d]
    BY <1>3 DEF MovePatchToOutgoing, Others
  <2>4. CASE e = d
    <3>1. /\ outgoing'[e] = outgoing[d] \cup {q} /\ unlisted'[e] \subseteq unlisted[d]
          /\ nextIndex'[e] = nextIndex[d] + 1 /\ lastOutgoing'[e] = parent[d]
      BY <1>0, <2>1, <2>3, <2>4 DEF TypeOK, MemType, FilesType
    <3>. QED
      BY <1>0, <1>1, <2>2, <3>1 DEF IndexInv
  <2>5. CASE e # d
    <3>1. /\ outgoing'[e] = outgoing[e] /\ unlisted'[e] = unlisted[e]
          /\ nextIndex'[e] = nextIndex[e] /\ lastOutgoing'[e] = lastOutgoing[e]
      BY <1>0, <2>1, <2>3, <2>5 DEF TypeOK, MemType, FilesType
    <3>. QED
      BY <1>0, <3>1 DEF IndexInv
  <2>. QED
    BY <2>4, <2>5
<1>4. ASSUME NEW d \in Devices, MoveThenFail(d), NEW e \in Devices PROVE At(e)
  <2>1. /\ UNCHANGED <<outgoing, nextIndex, lastOutgoing>>
        /\ unlisted' = [unlisted EXCEPT ![d] = unlisted[d] \cup {NewPatch(d)}]
        /\ NewPatch(d).index = nextIndex[d]
    BY <1>4 DEF MoveThenFail, memVars, NewPatch
  <2>2. \A p \in unlisted'[e] : p \in unlisted[e] \/ (e = d /\ p = NewPatch(d))
    BY <1>0, <2>1 DEF TypeOK, FilesType
  <2>. QED
    BY <1>0, <1>1, <2>1, <2>2 DEF IndexInv
<1>5. ASSUME NEW d \in Devices, Crash(d), NEW e \in Devices PROVE At(e)
  <2>1. PICK start \in Loaded(outgoing[d] \cup unlisted[d]) :
          /\ nextIndex' = [nextIndex EXCEPT ![d] = start[1]]
          /\ lastOutgoing' = [lastOutgoing EXCEPT ![d] = start[2]]
    BY <1>5 DEF Crash
  <2>2. /\ outgoing' = [outgoing EXCEPT ![d] = outgoing[d] \cup unlisted[d]]
        /\ unlisted' = [unlisted EXCEPT ![d] = {}]
    BY <1>5 DEF Crash
  <2>3. CASE e # d
    <3>1. /\ outgoing'[e] = outgoing[e] /\ unlisted'[e] = unlisted[e]
          /\ nextIndex'[e] = nextIndex[e] /\ lastOutgoing'[e] = lastOutgoing[e]
      BY <1>0, <2>1, <2>2, <2>3 DEF TypeOK, MemType, FilesType
    <3>. QED
      BY <1>0, <3>1 DEF IndexInv
  <2>4. CASE e = d
    <3>1. /\ outgoing'[e] = outgoing[d] \cup unlisted[d] /\ unlisted'[e] = {}
          /\ nextIndex'[e] = start[1] /\ lastOutgoing'[e] = start[2]
      BY <1>0, <2>1, <2>2, <2>4 DEF TypeOK, MemType, FilesType
    <3>2. CASE outgoing[d] \cup unlisted[d] = {}
      BY <2>1, <3>1, <3>2, LoadedFrom
    <3>3. CASE outgoing[d] \cup unlisted[d] # {}
      <4>1. PICK p \in outgoing[d] \cup unlisted[d] :
              /\ start = <<p.index + 1, p.last>>
              /\ \A r \in outgoing[d] \cup unlisted[d] : r.index <= p.index
        BY <2>1, <3>3, LoadedFrom
      <4>. QED
        BY <1>1, <3>1, <4>1
    <3>. QED
      BY <3>2, <3>3
  <2>. QED
    BY <2>3, <2>4
<1>. QED
  BY <1>2, <1>3, <1>4, <1>5, OutgoingSteps DEF IndexInv

(* The position in memory is the one a restart reads, or a file is there   *)
(* that has the next index.                                                *)
LEMMA MemoryFollows ==
  ASSUME TypeOK, IndexInv
  PROVE  MemoryMatchesDisk
<1> SUFFICES ASSUME NEW d \in Devices
             PROVE  \/ <<nextIndex[d], lastOutgoing[d]>> \in Loaded(OutgoingFiles(d))
                    \/ \E p \in unlisted[d] :
                         /\ p.index = nextIndex[d]
                         /\ <<p.index + 1, p.last>> \in Loaded(OutgoingFiles(d))
  BY DEF MemoryMatchesDisk
<1>0. OutgoingFiles(d) = outgoing[d] \cup unlisted[d]
  BY DEF OutgoingFiles
<1>1. /\ nextIndex[d] \in Nat
      /\ \A p \in outgoing[d] \cup unlisted[d] : p.index \in Nat /\ p.index # 0
  BY DEF TypeOK, MemType, FilesType, Patches
<1>2. CASE \E p \in unlisted[d] : p.index = nextIndex[d]
  <2>1. PICK p \in unlisted[d] : p.index = nextIndex[d]
    BY <1>2
  <2>2. \A r \in OutgoingFiles(d) : r.index <= p.index
    BY <1>0, <1>1, <2>1 DEF IndexInv
  <2>3. <<p.index + 1, p.last>> \in Loaded(OutgoingFiles(d))
    BY <1>0, <2>1, <2>2, LoadedFrom
  <2>. QED
    BY <2>1, <2>3
<1>3. CASE \A p \in unlisted[d] : p.index # nextIndex[d]
  <2>1. \A r \in OutgoingFiles(d) : r.index < nextIndex[d]
    BY <1>0, <1>1, <1>3 DEF IndexInv
  <2>2. CASE nextIndex[d] = 1 /\ lastOutgoing[d] = NoCommit
    <3>1. OutgoingFiles(d) = {}
      BY <1>0, <1>1, <2>1, <2>2
    <3>. QED
      BY <2>2, <3>1, LoadedFrom
  <2>3. CASE \E p \in outgoing[d] : p.index + 1 = nextIndex[d] /\ p.last = lastOutgoing[d]
    <3>1. PICK p \in outgoing[d] : p.index + 1 = nextIndex[d] /\ p.last = lastOutgoing[d]
      BY <2>3
    <3>2. \A r \in OutgoingFiles(d) : r.index <= p.index
      BY <1>0, <1>1, <2>1, <3>1
    <3>. QED
      BY <1>0, <3>1, <3>2, LoadedFrom
  <2>. QED
    BY <2>2, <2>3 DEF IndexInv
<1>. QED
  BY <1>2, <1>3

(* The task turns to bundling only after a commit that is not bundled yet. *)
LEMMA BundleSteps ==
  ASSUME TypeOK, [Next]_vars, NEW d \in Devices, pc'[d] = "bundle"
  PROVE  \/ pc[d] = "bundle" /\ parent'[d] = parent[d] /\ lastOutgoing'[d] = lastOutgoing[d]
         \/ parent'[d] # lastOutgoing'[d]
<1> USE DEF TypeOK, TaskType, StoreType, MemType, Goto, hgVars, taskVars, memVars
<1>1. ASSUME NEW e \in Devices, PrepareCommit(e)
      PROVE  \/ pc[d] = "bundle" /\ parent'[d] = parent[d] /\ lastOutgoing'[d] = lastOutgoing[d]
             \/ parent'[d] # lastOutgoing'[d]
  <2>1. UNCHANGED lastOutgoing /\ pc' = [pc EXCEPT ![e] = pc'[e]]
    BY <1>1 DEF PrepareCommit
  <2>2. CASE e = d
    BY <1>1, <2>1, <2>2 DEF PrepareCommit
  <2>3. CASE e # d
    <3>1. parent'[d] = parent[d]
      BY <1>1, <2>3 DEF PrepareCommit, CommitAll
    <3>. QED
      BY <2>1, <2>3, <3>1
  <2>. QED
    BY <2>2, <2>3
<1>2. ASSUME NEW e \in Devices,
             \/ AddFolder(e) \/ ApplyCommit(e) \/ CommitThenFail(e) \/ Update(e)
             \/ UpdateThenFail(e) \/ MovePatchToOutgoing(e) \/ MoveThenFail(e)
             \/ StageThenFail(e) \/ ArriveThenFail(e) \/ Crash(e)
      PROVE  pc[d] = "bundle" /\ parent'[d] = parent[d] /\ lastOutgoing'[d] = lastOutgoing[d]
  BY <1>2 DEF AddFolder, ApplyCommit, CommitThenFail, Failing, Update, UpdateThenFail,
    MovePatchToOutgoing, MoveThenFail, StageThenFail, ArriveThenFail, Crash, CommitAll
<1>3. ASSUME NEW e \in Devices,
             \/ Edit(e) \/ Revert(e) \/ CheckLocal(e) \/ CheckRemotes(e)
             \/ CheckLocalState(e) \/ ListPatchesToApply(e) \/ Unbundle(e) \/ UnbundleFails(e)
             \/ StagePatchAsApplied(e) \/ CloudTask(e) \/ HgFails(e)
             \/ SummaryFatal(e) \/ StageFails(e) \/ CloudFails(e)
      PROVE  pc[d] = "bundle" /\ parent'[d] = parent[d] /\ lastOutgoing'[d] = lastOutgoing[d]
  BY <1>3 DEF Edit, Revert, CheckLocal, CheckRemotes,
    CheckLocalState, ListPatchesToApply, Unbundle, UnbundleFails,
    StagePatchAsApplied, CloudTask, ListAndDownload, MovePatchToApply, NotifyIncoming,
    UploadFile, Uploaded, UploadBegins, UploadEnds, HgFails,
    Failing, SummaryFatal, StageFails, CloudFails
<1>4. CASE UNCHANGED vars
  BY <1>4 DEF vars
<1>. QED
  BY <1>1, <1>2, <1>3, <1>4 DEF Next, FolderTask, Failures

(* An ancestor of the working directory stays one: the directory only      *)
(* moves on to descendants, by a commit or an update.                      *)
LEMMA ParentMoves ==
  ASSUME IInv, [Next]_vars, NEW e \in Devices, NEW b \in history[parent[e]]
  PROVE  b \in history'[parent'[e]]
<1>0. /\ TypeOK /\ TypeOK' /\ StoreInv
      /\ \A c \in 0..made : history'[c] = history[c]
  BY TypeStep, HgGrows DEF IInv
<1>1. parent[e] \in 0..made
  BY <1>0 DEF TypeOK, StoreType
<1>2. CASE HgCommits
  <2>1. PICK d \in Devices, changed \in BOOLEAN : CommitAll(d, changed)
    BY <1>2 DEF HgCommits
  <2>2. CASE changed /\ e = d
    BY <1>0, <1>1, <2>1, <2>2 DEF CommitAll, TypeOK, StoreType
  <2>3. CASE ~changed \/ e # d
    <3>1. parent'[e] = parent[e]
      BY <1>0, <2>1, <2>3 DEF CommitAll, TypeOK, StoreType
    <3>. QED
      BY <1>0, <1>1, <3>1
  <2>. QED
    BY <2>2, <2>3
<1>3. CASE HgUpdates
  <2>0. PICK d \in Devices : \E c \in Targets(d) : parent' = [parent EXCEPT ![d] = c]
    BY <1>3 DEF HgUpdates
  <2>1. PICK c \in Targets(d) : parent' = [parent EXCEPT ![d] = c]
    BY <2>0
  <2>2. c \in Commits /\ UNCHANGED history /\ (d = e => parent[e] \in history[c])
    BY <1>0, <1>3, <2>1 DEF HgUpdates, Targets, Heads, TypeOK, StoreType, StoreInv
  <2>3. CASE d = e
    BY <1>0, <2>1, <2>2, <2>3 DEF StoreInv, TypeOK, StoreType
  <2>4. CASE d # e
    BY <1>0, <2>1, <2>2, <2>4 DEF TypeOK, StoreType
  <2>. QED
    BY <2>3, <2>4
<1>4. CASE HgUnbundles
  BY <1>4 DEF HgUnbundles, Unbundle
<1>5. CASE UNCHANGED <<made, history, repo, parent>>
  BY <1>5
<1>. QED
  BY <1>0, <1>2, <1>3, <1>4, <1>5, HgSteps

(* Outgoing files stay named after ancestors: the new one is named after   *)
(* the working directory itself.                                           *)
LEMMA BaseStep ==
  ASSUME IInv, [Next]_vars
  PROVE  BaseInv'
<1>0. TypeOK /\ StoreInv /\ BaseInv /\ IndexInv
  BY DEF IInv
<1>1. ASSUME NEW d \in Devices, pc'[d] = "bundle" PROVE parent'[d] # lastOutgoing'[d]
  BY <1>0, <1>1, BundleSteps DEF BaseInv
<1>2. ASSUME NEW e \in Devices, NEW p \in outgoing'[e] \cup unlisted'[e]
      PROVE  p.last \in history'[parent'[e]]
  <2>1. CASE p \in outgoing[e] \cup unlisted[e]
    BY <1>0, <2>1, ParentMoves DEF BaseInv, OutgoingFiles
  <2>2. CASE p = NewPatch(e) /\ pc[e] = "bundle" /\ UNCHANGED <<made, history, repo, parent>>
    <3>1. p.last = parent[e] /\ p \in Patches
      BY <1>0, <2>2, NewPatchType DEF NewPatch
    <3>2. parent[e] \in history[parent[e]]
      BY <1>0, <3>1 DEF StoreInv, Patches
    <3>. QED
      BY <2>2, <3>1, <3>2
  <2>. QED
    BY <1>0, <2>1, <2>2, FilesSteps
<1>. QED
  BY <1>1, <1>2 DEF BaseInv, OutgoingFiles

-----------------------------------------------------------------------------
(* A changeset is published up to a patch if it is in a patch up to it.    *)
LEMMA PublishedMember ==
  ASSUME NEW d \in Devices, NEW p, NEW c
  PROVE  c \in PublishedUpTo(d, p) <=> \E q \in outgoing[d] : q.index <= p.index /\ c \in q.content
<1>1. PublishedUpTo(d, p) = UNION {q.content : q \in {r \in outgoing[d] : r.index <= p.index}}
  BY DEF PublishedUpTo
<1>. QED
  BY <1>1, Zenon

(* A new patch holds everything between the base and the store, and the    *)
(* patches before it cover the base.                                       *)
LEMMA NewComplete ==
  ASSUME IInv, NEW d \in Devices, pc[d] = "bundle"
  PROVE  Complete(d, NewPatch(d))
<1>0. TypeOK /\ StoreInv /\ BaseInv /\ IndexInv /\ CoverInv
  BY DEF IInv
<1>1. PICK new : new = NewPatch(d)
  OBVIOUS
<1>2. /\ new.index = nextIndex[d] /\ new.last = parent[d]
      /\ new.content = repo[d] \ history[lastOutgoing[d]]
  BY <1>1 DEF NewPatch
<1>3. history[new.last] \subseteq repo[d]
  BY <1>0, <1>2 DEF StoreInv
<1>4. Bases(new) \subseteq repo[d]
  <2>1. \A b \in new.content : history[b] \subseteq repo[d]
    BY <1>0, <1>2 DEF StoreInv
  <2>2. UNION {history[b] : b \in new.content} \subseteq repo[d]
    BY <2>1
  <2>. QED
    BY <2>2 DEF Bases
<1>5. ASSUME NEW c \in history[lastOutgoing[d]] PROVE c \in PublishedUpTo(d, new)
  <2>1. PICK p \in outgoing[d] : p.index + 1 = nextIndex[d] /\ p.last = lastOutgoing[d]
    BY <1>0, <1>5 DEF IndexInv, StoreInv
  <2>2. c \in p.content \/ c \in PublishedUpTo(d, p)
    BY <1>0, <1>5, <2>1 DEF CoverInv, OutgoingFiles, Complete
  <2>3. \A q \in outgoing[d] : q.index \in Nat
    BY <1>0 DEF TypeOK, FilesType, Patches
  <2>4. PICK q \in outgoing[d] : q.index <= p.index /\ c \in q.content
    BY <2>1, <2>2, <2>3, PublishedMember
  <2>5. q.index <= new.index
    BY <1>2, <2>1, <2>3, <2>4
  <2>. QED
    BY <2>4, <2>5, PublishedMember
<1>. QED
  BY <1>1, <1>2, <1>3, <1>4, <1>5 DEF Complete

(* What a file relies on stays published: patches stay listed.             *)
LEMMA CoverStep ==
  ASSUME IInv, [Next]_vars
  PROVE  CoverInv'
<1>0. /\ TypeOK /\ StoreInv /\ BaseInv /\ IndexInv /\ CoverInv
      /\ \A c \in 0..made : history'[c] = history[c]
  BY HgGrows DEF IInv
<1>1. \A p \in Patches : Bases(p)' = Bases(p) /\ history'[p.last] = history[p.last]
  <2>1. \A p \in Patches : history'[p.last] = history[p.last]
                          /\ \A c \in p.content : history'[c] = history[c]
    BY <1>0 DEF Patches, Commits, TypeOK, StoreType
  <2>. QED
    BY <2>1 DEF Bases
<1>2. ASSUME NEW e \in Devices, NEW p, NEW c \in PublishedUpTo(e, p)
      PROVE  c \in PublishedUpTo(e, p)'
  <2>1. PICK q \in outgoing[e] : q.index <= p.index /\ c \in q.content
    BY <1>2, PublishedMember
  <2>2. q \in outgoing'[e]
    BY <1>0, <2>1, FilesSteps
  <2>. QED
    BY <2>1, <2>2 DEF PublishedUpTo
<1>3. ASSUME NEW e \in Devices, NEW p \in outgoing'[e] \cup unlisted'[e]
      PROVE  Complete(e, p)'
  <2>1. p \in Patches /\ Complete(e, p)
    <3>1. CASE p \in outgoing[e] \cup unlisted[e]
      BY <1>0, <3>1 DEF CoverInv, OutgoingFiles, TypeOK, FilesType
    <3>2. CASE p = NewPatch(e) /\ pc[e] = "bundle"
      BY <1>0, <3>2, NewPatchType, NewComplete
    <3>. QED
      BY <1>0, <3>1, <3>2, FilesSteps
  <2>. QED
    BY <1>1, <1>2, <2>1 DEF Complete
<1>. QED
  BY <1>3 DEF CoverInv, OutgoingFiles

(* A listed file counts itself among what is published up to it.           *)
LEMMA NoHole ==
  ASSUME TypeOK, CoverInv
  PROVE  NoHoleInOutgoing
<1> SUFFICES ASSUME NEW d \in Devices, NEW p \in outgoing[d],
                    NEW c \in history[p.last] \cup Bases(p)
             PROVE  c \in PublishedUpTo(d, p)
  BY DEF NoHoleInOutgoing
<1>1. c \in p.content \/ c \in PublishedUpTo(d, p)
  BY DEF CoverInv, OutgoingFiles, Complete
<1>2. p.index <= p.index
  BY DEF TypeOK, FilesType, Patches
<1>. QED
  BY <1>1, <1>2, PublishedMember

-----------------------------------------------------------------------------
(* Only these steps touch a batch that is being applied, or the applied    *)
(* directory.                                                              *)
Applying == {"unbundle", "update", "stage"}

(* A step that adds nothing to the directory, and leaves the batch alone   *)
(* or ends the task.                                                       *)
Quiet(e) ==
  /\ applied'[e] \cup kept'[e] \subseteq applied[e] \cup kept[e]
  /\ pc'[e] \in Applying => pc'[e] = pc[e] /\ batch'[e] = batch[e] /\ todo'[e] = todo[e]

(* Every step is one or the other.                                         *)
LEMMA ApplySteps ==
  ASSUME TypeOK, [Next]_vars
  PROVE  \/ \A e \in Devices : Quiet(e)
         \/ \E d \in Devices : \/ ApplyCommit(d) \/ Unbundle(d) \/ Update(d)
                              \/ StagePatchAsApplied(d) \/ StageThenFail(d)
<1> USE DEF TypeOK, TaskType, FilesType, Goto, hgVars, taskVars, diskVars, Applying, Quiet
<1>1. ASSUME NEW d \in Devices, NEW e \in Devices,
             \/ AddFolder(d) \/ CheckLocal(d) \/ CheckLocalState(d) \/ PrepareCommit(d)
             \/ MovePatchToOutgoing(d) \/ ListPatchesToApply(d) \/ SummaryFatal(d)
             \/ NotifyIncoming(d)
      PROVE  Quiet(e)
  BY <1>1 DEF AddFolder, CheckLocal, CheckLocalState, PrepareCommit, MovePatchToOutgoing,
    ListPatchesToApply, SummaryFatal, NotifyIncoming
<1>2. ASSUME NEW d \in Devices, NEW e \in Devices,
             \/ UnbundleFails(d) \/ HgFails(d) \/ CommitThenFail(d) \/ UpdateThenFail(d)
             \/ MoveThenFail(d) \/ StageFails(d) \/ Crash(d)
      PROVE  Quiet(e)
  BY <1>2 DEF UnbundleFails, HgFails, CommitThenFail, UpdateThenFail, Failing, MoveThenFail,
    StageFails, Crash
<1>3. ASSUME NEW d \in Devices, NEW e \in Devices,
             \/ Edit(d) \/ Revert(d) \/ CheckRemotes(d) \/ ListAndDownload(d)
             \/ MovePatchToApply(d) \/ UploadFile(d) \/ UploadBegins(d) \/ UploadEnds(d)
             \/ CloudFails(d) \/ ArriveThenFail(d)
      PROVE  Quiet(e)
  BY <1>3 DEF Edit, Revert, CheckRemotes, ListAndDownload, MovePatchToApply, UploadFile,
    Uploaded, UploadBegins, UploadEnds, CloudFails, ArriveThenFail
<1>4. ASSUME UNCHANGED vars, NEW e \in Devices PROVE Quiet(e)
  BY <1>4 DEF vars
<1>. QED
  BY <1>1, <1>2, <1>3, <1>4 DEF Next, FolderTask, CloudTask, Failures

(* A batch reaches the applied directory only unbundled: the patches leave *)
(* todo one by one into the store, and stores only grow.                   *)
LEMMA ApplyStep ==
  ASSUME IInv, [Next]_vars
  PROVE  ApplyInv'
<1>0. TypeOK /\ ApplyInv /\ \A d \in Devices : repo[d] \subseteq repo'[d]
  BY HgGrows DEF IInv
<1>1. \A d \in Devices : \A p : InStore(d, p) => InStore(d, p)'
  BY <1>0 DEF InStore
<1>2. CASE \A e \in Devices : Quiet(e)
  BY <1>0, <1>1, <1>2 DEF ApplyInv, AppliedIsInStore, InStore, Applying, Quiet
<1>3. ASSUME NEW d \in Devices, ApplyCommit(d) PROVE ApplyInv'
  BY <1>0, <1>1, <1>3
  DEF ApplyCommit, Goto, diskVars, ApplyInv, AppliedIsInStore, InStore, TypeOK, TaskType, FilesType
<1>4. ASSUME NEW d \in Devices, Unbundle(d) PROVE ApplyInv'
  <2>1. PICK p \in todo[d] :
          /\ p.whole
          /\ repo' = [repo EXCEPT ![d] = repo[d] \cup p.content]
          /\ todo' = [todo EXCEPT ![d] = todo[d] \ {p}]
          /\ pc' = [pc EXCEPT ![d] = IF todo[d] = {p} THEN "update" ELSE "unbundle"]
          /\ pc[d] = "unbundle" /\ UNCHANGED <<batch, applied, kept>>
    BY <1>4 DEF Unbundle, FirstOf, Fits, Goto, diskVars
  <2>2. InStore(d, p)'
    BY <1>0, <2>1 DEF InStore, TypeOK, StoreType
  <2>3. \A q \in batch[d] \ todo'[d] : InStore(d, q)'
    BY <1>0, <1>1, <2>1, <2>2 DEF ApplyInv, TypeOK, FilesType
  <2>4. pc'[d] = "update" => todo'[d] = {}
    BY <1>0, <2>1 DEF TypeOK, TaskType, FilesType
  <2>5. \A e \in Devices : e # d =>
          pc'[e] = pc[e] /\ batch'[e] = batch[e] /\ todo'[e] = todo[e]
    BY <1>0, <2>1 DEF TypeOK, TaskType, FilesType
  <2>6. pc'[d] \in {"update", "unbundle"} /\ batch'[d] = batch[d]
    BY <1>0, <2>1 DEF TypeOK, TaskType
  <2>7. AppliedIsInStore'
    BY <1>0, <1>1, <2>1 DEF ApplyInv, AppliedIsInStore, InStore
  <2>. QED
    BY <1>0, <1>1, <2>3, <2>4, <2>5, <2>6, <2>7 DEF ApplyInv
<1>5. ASSUME NEW d \in Devices, Update(d) PROVE ApplyInv'
  BY <1>0, <1>1, <1>5
  DEF Update, Goto, diskVars, ApplyInv, AppliedIsInStore, InStore, TypeOK, TaskType, FilesType
<1>6. ASSUME NEW d \in Devices, StagePatchAsApplied(d) PROVE ApplyInv'
  <2>1. PICK p \in batch[d] :
          /\ applied' = [applied EXCEPT ![d] = applied[d] \cup {p}]
          /\ batch' = [batch EXCEPT ![d] = batch[d] \ {p}]
          /\ \E where \in {"idle", "stage"} : pc' = [pc EXCEPT ![d] = where]
          /\ pc[d] = "stage" /\ UNCHANGED <<todo, repo, kept>>
    BY <1>6 DEF StagePatchAsApplied, FirstOf, Goto, hgVars
  <2>2. InStore(d, p)
    BY <1>0, <2>1 DEF ApplyInv
  <2>3. AppliedIsInStore'
    BY <1>0, <2>1, <2>2 DEF ApplyInv, AppliedIsInStore, InStore, TypeOK, FilesType
  <2>4. \A e \in Devices :
          /\ batch'[e] \subseteq batch[e]
          /\ e # d => pc'[e] = pc[e] /\ batch'[e] = batch[e]
    BY <1>0, <2>1 DEF TypeOK, TaskType, FilesType
  <2>5. pc'[d] \in {"idle", "stage"}
    BY <1>0, <2>1 DEF TypeOK, TaskType
  <2>. QED
    BY <1>0, <1>1, <2>1, <2>3, <2>4, <2>5 DEF ApplyInv
<1>7. ASSUME NEW d \in Devices, StageThenFail(d) PROVE ApplyInv'
  <2>1. PICK p \in batch[d] : kept' = [kept EXCEPT ![d] = kept[d] \cup {p}]
    BY <1>7 DEF StageThenFail, FirstOf
  <2>2. /\ pc' = [pc EXCEPT ![d] = "idle"] /\ batch' = [batch EXCEPT ![d] = {}]
        /\ pc[d] = "stage" /\ UNCHANGED <<applied, todo, repo>>
    BY <1>7 DEF StageThenFail, Goto, hgVars
  <2>3. InStore(d, p)
    BY <1>0, <2>1, <2>2 DEF ApplyInv
  <2>4. AppliedIsInStore'
    BY <1>0, <2>1, <2>2, <2>3 DEF ApplyInv, AppliedIsInStore, InStore, TypeOK, FilesType
  <2>5. \A e \in Devices : e # d => pc'[e] = pc[e] /\ batch'[e] = batch[e]
    BY <1>0, <2>2 DEF TypeOK, TaskType, FilesType
  <2>6. pc'[d] = "idle"
    BY <1>0, <2>2 DEF TypeOK, TaskType
  <2>. QED
    BY <1>0, <1>1, <2>2, <2>4, <2>5, <2>6 DEF ApplyInv
<1>. QED
  BY <1>0, <1>2, <1>3, <1>4, <1>5, <1>6, <1>7, ApplySteps

-----------------------------------------------------------------------------
(* A name is in a directory if some file there has it.                     *)
LEMMA NameIn ==
  ASSUME NEW A, NEW n
  PROVE  n \in Names(A) <=> \E q \in A : n = Name(q)
BY Zenon DEF Names

(* The names in two directories together.                                  *)
LEMMA NamesUnion ==
  ASSUME NEW A, NEW B
  PROVE  Names(A \cup B) = Names(A) \cup Names(B)
BY NameIn

(* A file more, and its name.                                              *)
LEMMA NamesAdd ==
  ASSUME NEW A, NEW p
  PROVE  Names(A \cup {p}) = Names(A) \cup {Name(p)}
BY NameIn

(* The files of one name taken away, and one file taken away.              *)
LEMMA NamesLess ==
  ASSUME NEW A, NEW p
  PROVE  /\ Names(Others(p, A)) = Names(A) \ {Name(p)}
         /\ Names(A \ {p}) \subseteq Names(A)
BY NameIn DEF Others

(* No file, no name.                                                       *)
LEMMA NamesNone == Names({}) = {}
BY NameIn

(* TurnsInv of one device, over the names in its directories.              *)
Turns(T, R, A, K, B, where, task, P) ==
  /\ (T \cup R) \cap A \subseteq K
  /\ (T \cup B) \cap R = {}
  /\ where # "stage" => B \subseteq T
  /\ where = "stage" => task = "none"
  /\ task = "pull" => P \cap A = {}

(* TurnsInv says it of every device.                                       *)
LEMMA TurnsByNames ==
  TurnsInv <=> \A d \in Devices :
                 Turns(Names(toApply[d]), Names(arrived[d]), Names(applied[d]), Names(kept[d]),
                       Names(batch[d]), pc[d], cloudTask[d], Names(pulls[d]))
<1>1. \A d \in Devices :
        /\ Names(toApply[d] \cup arrived[d]) = Names(toApply[d]) \cup Names(arrived[d])
        /\ Names(toApply[d] \cup batch[d]) = Names(toApply[d]) \cup Names(batch[d])
  BY NamesUnion, Zenon
<1>. QED
  BY <1>1 DEF TurnsInv, Turns

(* A step that moves nothing but tasks.                                    *)
Still(d) ==
  /\ \/ batch'[d] \in {{}, toApply[d]}
     \/ batch'[d] = batch[d] /\ (pc[d] = "stage" => pc'[d] = "stage")
  /\ pc'[d] = "stage" => cloudTask'[d] = "none"
  /\ cloudTask'[d] = "pull" => cloudTask[d] = "pull" /\ pulls'[d] = pulls[d]

(* Every step keeps the directories apart.                                 *)
LEMMA TurnsStep ==
  ASSUME IInv, [Next]_vars
  PROVE  TurnsInv'
<1> USE DEF TypeOK, TaskType, FilesType, Goto, hgVars, taskVars, memVars, diskVars, cloudVars
<1>0. TypeOK /\ TurnsInv
  BY DEF IInv
<1> DEFINE Now(d) == Turns(Names(toApply[d]), Names(arrived[d]), Names(applied[d]),
                           Names(kept[d]), Names(batch[d]), pc[d], cloudTask[d], Names(pulls[d]))
           Then(d) == Turns(Names(toApply'[d]), Names(arrived'[d]), Names(applied'[d]),
                            Names(kept'[d]), Names(batch'[d]), pc'[d], cloudTask'[d],
                            Names(pulls'[d]))
<1>1. \A d \in Devices : Now(d)
  BY <1>0, TurnsByNames
<1>2. SUFFICES ASSUME NEW d \in Devices PROVE Then(d)
  <2>1. \A d \in Devices :
          /\ Names(toApply'[d] \cup arrived'[d]) = Names(toApply'[d]) \cup Names(arrived'[d])
          /\ Names(toApply'[d] \cup batch'[d]) = Names(toApply'[d]) \cup Names(batch'[d])
    BY NamesUnion, Zenon
  <2>2. \A A : Names(A)' = Names(A)
    BY DEF Names, Name
  <2>. QED
    BY <1>2, <2>1, <2>2 DEF TurnsInv, Turns
<1>3. ASSUME UNCHANGED <<toApply, arrived, applied, kept>>, Still(d)
      PROVE  Then(d)
  BY <1>1, <1>3, NamesNone DEF Still, Turns
<1> HIDE DEF Now, Then
<1>4. ASSUME NEW e \in Devices, StagePatchAsApplied(e) PROVE Then(d)
  <2>1. PICK p \in batch[e] :
          /\ applied' = [applied EXCEPT ![e] = applied[e] \cup {p}]
          /\ toApply' = [toApply EXCEPT ![e] = Others(p, toApply[e])]
          /\ batch' = [batch EXCEPT ![e] = batch[e] \ {p}]
          /\ pc' = [pc EXCEPT ![e] = IF batch[e] = {p} THEN "idle" ELSE "stage"]
          /\ pc[e] = "stage" /\ UNCHANGED <<arrived, kept, cloudTask, pulls>>
    BY <1>4 DEF StagePatchAsApplied, FirstOf
  <2>2. CASE d = e
    <3>1. /\ applied'[d] = applied[d] \cup {p} /\ toApply'[d] = Others(p, toApply[d])
          /\ batch'[d] = batch[d] \ {p}
          /\ pc'[d] = IF batch[d] = {p} THEN "idle" ELSE "stage"
      BY <1>0, <2>1, <2>2
    <3>2. pc'[d] # "stage" => Names(batch'[d]) = {}
      BY <3>1, NamesNone
    <3>3. /\ Names(applied'[d]) = Names(applied[d]) \cup {Name(p)}
          /\ Names(toApply'[d]) = Names(toApply[d]) \ {Name(p)}
          /\ Names(batch'[d]) \subseteq Names(batch[d]) /\ Name(p) \in Names(batch[d])
      <4>1. Names(applied'[d]) = Names(applied[d]) \cup {Name(p)}
        BY <3>1, NamesAdd, Zenon
      <4>2. Names(toApply'[d]) = Names(toApply[d]) \ {Name(p)}
        BY <3>1, NamesLess, Zenon
      <4>3. Names(batch'[d]) \subseteq Names(batch[d])
        BY <3>1, NamesLess, Zenon
      <4>4. Name(p) \in Names(batch[d])
        BY <2>1, <2>2, NameIn
      <4>. QED
        BY <4>1, <4>2, <4>3, <4>4
    <3>4. /\ pc[d] = "stage" /\ arrived'[d] = arrived[d] /\ kept'[d] = kept[d]
          /\ cloudTask'[d] = cloudTask[d]
      BY <2>1, <2>2
    <3>. QED
      BY <1>1, <3>2, <3>3, <3>4 DEF Now, Then, Turns
  <2>3. CASE d # e
    BY <1>0, <1>1, <2>1, <2>3 DEF Now, Then
  <2>. QED
    BY <2>2, <2>3
<1>5. ASSUME NEW e \in Devices, MovePatchToApply(e) PROVE Then(d)
  <2>1. PICK p \in pulls[e] :
          /\ \E q \in FiledAs(p, toApply[e] \cup arrived[e]) :
               toApply' = [toApply EXCEPT ![e] = toApply[e] \cup {q}]
          /\ arrived' = [arrived EXCEPT ![e] = Others(p, arrived[e])]
          /\ pulls' = [pulls EXCEPT ![e] = pulls[e] \ {p}]
    BY <1>5 DEF MovePatchToApply, FirstOf
  <2>2. PICK q : Name(q) = Name(p) /\ toApply' = [toApply EXCEPT ![e] = toApply[e] \cup {q}]
    BY <2>1, FiledMember DEF Name
  <2>3. cloudTask[e] = "pull" /\ UNCHANGED <<applied, kept, batch, pc, cloudTask>>
    BY <1>5 DEF MovePatchToApply
  <2>4. CASE d = e
    <3>1. /\ toApply'[d] = toApply[d] \cup {q} /\ arrived'[d] = Others(p, arrived[d])
          /\ pulls'[d] = pulls[d] \ {p}
      BY <1>0, <2>1, <2>2, <2>4
    <3>2. /\ Names(toApply'[d]) = Names(toApply[d]) \cup {Name(p)}
          /\ Names(arrived'[d]) = Names(arrived[d]) \ {Name(p)}
          /\ Names(pulls'[d]) \subseteq Names(pulls[d]) /\ Name(p) \in Names(pulls[d])
      <4>1. Names(toApply'[d]) = Names(toApply[d]) \cup {Name(p)}
        BY <2>2, <3>1, NamesAdd, Zenon
      <4>2. Names(arrived'[d]) = Names(arrived[d]) \ {Name(p)}
        BY <3>1, NamesLess, Zenon
      <4>3. Names(pulls'[d]) \subseteq Names(pulls[d])
        BY <3>1, NamesLess, Zenon
      <4>4. Name(p) \in Names(pulls[d])
        BY <2>1, <2>4, NameIn
      <4>. QED
        BY <4>1, <4>2, <4>3, <4>4
    <3>. QED
      BY <1>1, <2>3, <2>4, <3>2 DEF Now, Then, Turns
  <2>5. CASE d # e
    BY <1>0, <1>1, <2>1, <2>2, <2>3, <2>5 DEF Now, Then
  <2>. QED
    BY <2>4, <2>5
<1>6. ASSUME NEW e \in Devices, ArriveThenFail(e) PROVE Then(d)
  <2>1. PICK p \in pulls[e] :
          /\ Name(p) \notin Names(toApply[e] \cup arrived[e])
          /\ arrived' = [arrived EXCEPT ![e] = arrived[e] \cup {p}]
    BY <1>6 DEF ArriveThenFail, FirstOf
  <2>2. /\ cloudTask[e] = "pull" /\ UNCHANGED <<toApply, applied, kept, batch, pc>>
        /\ cloudTask' = [cloudTask EXCEPT ![e] = "none"] /\ pulls' = [pulls EXCEPT ![e] = {}]
    BY <1>6 DEF ArriveThenFail, CloudTaskEnds
  <2>3. CASE d = e
    <3>1. arrived'[d] = arrived[d] \cup {p} /\ cloudTask'[d] = "none"
      BY <1>0, <2>1, <2>2, <2>3
    <3>2. /\ Names(arrived'[d]) = Names(arrived[d]) \cup {Name(p)}
          /\ Name(p) \notin Names(toApply[d]) /\ Name(p) \in Names(pulls[d])
      BY <2>1, <2>3, <3>1, NamesAdd, NamesUnion, NameIn
    <3>3. /\ cloudTask[d] = "pull" /\ toApply'[d] = toApply[d] /\ applied'[d] = applied[d]
          /\ kept'[d] = kept[d] /\ batch'[d] = batch[d] /\ pc'[d] = pc[d]
      BY <2>2, <2>3
    <3>. QED
      BY <1>1, <3>1, <3>2, <3>3 DEF Now, Then, Turns
  <2>4. CASE d # e
    BY <1>0, <1>1, <2>1, <2>2, <2>4 DEF Now, Then
  <2>. QED
    BY <2>3, <2>4
<1>7. ASSUME NEW e \in Devices, StageThenFail(e) PROVE Then(d)
  <2>1. PICK p \in batch[e] : kept' = [kept EXCEPT ![e] = kept[e] \cup {p}]
    BY <1>7 DEF StageThenFail, FirstOf
  <2>2. /\ UNCHANGED <<toApply, arrived, applied, cloudTask, pulls>>
        /\ pc' = [pc EXCEPT ![e] = "idle"] /\ batch' = [batch EXCEPT ![e] = {}]
    BY <1>7 DEF StageThenFail
  <2>3. CASE d = e
    <3>1. kept'[d] = kept[d] \cup {p} /\ pc'[d] = "idle" /\ batch'[d] = {}
      BY <1>0, <2>1, <2>2, <2>3
    <3>2. Names(kept'[d]) = Names(kept[d]) \cup {Name(p)} /\ Names(batch'[d]) = {}
      BY <3>1, NamesAdd, NamesNone
    <3>. QED
      BY <1>1, <2>2, <3>1, <3>2 DEF Now, Then, Turns
  <2>4. CASE d # e
    BY <1>0, <1>1, <2>1, <2>2, <2>4 DEF Now, Then
  <2>. QED
    BY <2>3, <2>4
<1>8. ASSUME NEW e \in Devices, Crash(e) PROVE Then(d)
  <2>1. /\ toApply' = [toApply EXCEPT ![e] = toApply[e] \cup arrived[e] \cup kept[e]]
        /\ applied' = [applied EXCEPT ![e] = applied[e] \cup kept[e]]
        /\ arrived' = [arrived EXCEPT ![e] = {}] /\ batch' = [batch EXCEPT ![e] = {}]
        /\ pc' = [pc EXCEPT ![e] = "idle"] /\ cloudTask' = [cloudTask EXCEPT ![e] = "none"]
        /\ pulls' = [pulls EXCEPT ![e] = {}] /\ UNCHANGED kept
    BY <1>8 DEF Crash, CloudTaskEnds
  <2>2. CASE d = e
    <3>1. /\ toApply'[d] = (toApply[d] \cup arrived[d]) \cup kept[d] /\ arrived'[d] = {}
          /\ applied'[d] = applied[d] \cup kept[d] /\ batch'[d] = {}
          /\ pc'[d] = "idle" /\ cloudTask'[d] = "none" /\ kept'[d] = kept[d]
      BY <1>0, <2>1, <2>2
    <3>2. /\ Names(toApply'[d]) = Names(toApply[d]) \cup Names(arrived[d]) \cup Names(kept[d])
          /\ Names(applied'[d]) = Names(applied[d]) \cup Names(kept[d])
          /\ Names(arrived'[d]) = {} /\ Names(batch'[d]) = {}
      <4>1. Names(toApply'[d]) = Names(toApply[d] \cup arrived[d]) \cup Names(kept[d])
        BY <3>1, NamesUnion, Zenon
      <4>2. Names(toApply[d] \cup arrived[d]) = Names(toApply[d]) \cup Names(arrived[d])
        BY NamesUnion, Zenon
      <4>3. Names(applied'[d]) = Names(applied[d]) \cup Names(kept[d])
        BY <3>1, NamesUnion, Zenon
      <4>. QED
        BY <3>1, <4>1, <4>2, <4>3, NamesNone
    <3>. QED
      BY <1>1, <3>1, <3>2 DEF Now, Then, Turns
  <2>3. CASE d # e
    BY <1>0, <1>1, <2>1, <2>3 DEF Now, Then
  <2>. QED
    BY <2>2, <2>3
<1>9. ASSUME NEW e \in Devices, ListAndDownload(e) PROVE Then(d)
  <2>1. /\ pulls' = [pulls EXCEPT ![e] = {p \in cloud : Name(p) \notin Known(e)}]
        /\ cloudTask[e] = "pending" /\ cloudTask' = [cloudTask EXCEPT ![e] = "pull"]
        /\ UNCHANGED <<toApply, arrived, applied, kept, batch, pc>>
    BY <1>9 DEF ListAndDownload
  <2>2. CASE d = e
    <3>1. Names(pulls'[d]) \cap Names(applied[d]) = {}
      <4>1. pulls'[d] = {p \in cloud : Name(p) \notin Known(d)}
        BY <1>0, <2>1, <2>2
      <4>2. \A n : n \in Names(pulls'[d]) => n \notin Known(d)
        BY <4>1 DEF Names
      <4>. QED
        BY <4>2 DEF Known
    <3>. QED
      BY <1>1, <2>1, <2>2, <3>1 DEF Now, Then, Turns
  <2>3. CASE d # e
    BY <1>0, <1>1, <2>1, <2>3 DEF Now, Then
  <2>. QED
    BY <2>2, <2>3
<1>10. pc[d] = "stage" => cloudTask[d] = "none"
  BY <1>1 DEF Now, Turns
<1>11. ASSUME NEW e \in Devices,
              \/ AddFolder(e) \/ Edit(e) \/ Revert(e) \/ CheckLocal(e) \/ CheckRemotes(e)
              \/ CheckLocalState(e) \/ PrepareCommit(e) \/ MovePatchToOutgoing(e)
              \/ ListPatchesToApply(e) \/ ApplyCommit(e)
       PROVE  Then(d)
  <2> USE DEF AddFolder, Edit, Revert, CheckLocal, CheckRemotes, CheckLocalState,
    PrepareCommit, MovePatchToOutgoing, ListPatchesToApply, ApplyCommit
  <2>1. UNCHANGED <<toApply, arrived, applied, kept>>
    BY <1>11
  <2>2. Still(d)
    BY <1>0, <1>10, <1>11 DEF Free, Still
  <2>. QED
    BY <1>3, <2>1, <2>2
<1>12. ASSUME NEW e \in Devices,
              \/ Unbundle(e) \/ UnbundleFails(e) \/ Update(e) \/ SummaryFatal(e)
              \/ MoveThenFail(e) \/ StageFails(e)
       PROVE  Then(d)
  <2> USE DEF Unbundle, UnbundleFails, Update, SummaryFatal, MoveThenFail, StageFails
  <2>1. UNCHANGED <<toApply, arrived, applied, kept>>
    BY <1>12
  <2>2. Still(d)
    BY <1>0, <1>10, <1>12 DEF Free, Still
  <2>. QED
    BY <1>3, <2>1, <2>2
<1>13. ASSUME NEW e \in Devices,
              \/ NotifyIncoming(e) \/ UploadFile(e) \/ UploadBegins(e) \/ UploadEnds(e)
              \/ CloudFails(e)
       PROVE  Then(d)
  <2> USE DEF NotifyIncoming, UploadFile, Uploaded, UploadBegins, UploadEnds, CloudFails,
    CloudTaskEnds
  <2>1. UNCHANGED <<toApply, arrived, applied, kept>>
    BY <1>13
  <2>2. /\ batch' = batch /\ cloudTask[e] # "none"
        /\ \E v \in {"none", "push", "copying"} : cloudTask' = [cloudTask EXCEPT ![e] = v]
        /\ UNCHANGED pc \/ (pc[e] = "idle" /\ pc' = [pc EXCEPT ![e] = "check"])
    BY <1>13
  <2>3. pulls'[d] = pulls[d] \/ cloudTask'[d] = "none"
    BY <1>0, <1>13
  <2>4. cloudTask'[d] = cloudTask[d] \/ (d = e /\ cloudTask'[d] # "pull")
    BY <1>0, <2>2
  <2>5. pc'[d] = pc[d] \/ (pc[d] = "idle" /\ pc'[d] = "check")
    BY <1>0, <2>2
  <2>6. Still(d)
    BY <1>10, <2>2, <2>3, <2>4, <2>5 DEF Still
  <2>. QED
    BY <1>3, <2>1, <2>6
<1>14. ASSUME NEW e \in Devices, HgFails(e) \/ CommitThenFail(e) \/ UpdateThenFail(e)
       PROVE  Then(d)
  <2>1. /\ UNCHANGED <<toApply, arrived, applied, kept, cloudTask, pulls>>
        /\ pc' = [pc EXCEPT ![e] = "idle"] /\ batch' = [batch EXCEPT ![e] = {}]
    BY <1>14 DEF HgFails, CommitThenFail, UpdateThenFail, Failing
  <2>2. Still(d)
    BY <1>0, <1>10, <2>1 DEF Still
  <2>. QED
    BY <1>3, <2>1, <2>2
<1>15. CASE UNCHANGED vars
  BY <1>1, <1>15 DEF vars, Now, Then
<1>. QED
  BY <1>4, <1>5, <1>6, <1>7, <1>8, <1>9, <1>11, <1>12, <1>13, <1>14, <1>15
  DEF Next, FolderTask, CloudTask, Failures

-----------------------------------------------------------------------------
(* Nothing is published, remembered or applied when the devices start.     *)
LEMMA InitIInv == Init => IInv
<1> SUFFICES ASSUME Init PROVE IInv
  OBVIOUS
<1> USE ConstantsAssumption DEF Init
<1>1. TypeOK
  BY DEF TypeOK, StoreType, TaskType, MemType, FilesType, NoCommit, Commits
<1>2. StoreInv /\ BaseInv
  BY DEF StoreInv, BaseInv, OutgoingFiles, NoCommit, Commits
<1>3. CoverInv /\ IndexInv
  BY DEF CoverInv, IndexInv, OutgoingFiles
<1>4. ApplyInv
  BY DEF ApplyInv, AppliedIsInStore
<1>5. TurnsInv
  BY DEF TurnsInv, Names
<1>. QED
  BY <1>1, <1>2, <1>3, <1>4, <1>5 DEF IInv

(* The inductive invariant: the steps above and the initial states.        *)
THEOREM Invariance == Spec => []IInv
<1>1. IInv /\ [Next]_vars => IInv'
  BY TypeStep, StoreStep, BaseStep, IndexStep, CoverStep, ApplyStep, TurnsStep DEF IInv
<1>. QED
  BY InitIInv, <1>1, PTL DEF Spec

(* The variables have their types: the working directory always rests on a *)
(* changeset, and a patch is named after one.                              *)
THEOREM TypeCorrect == Spec => []TypeOK
<1>1. IInv => TypeOK
  BY DEF IInv
<1>. QED
  BY Invariance, <1>1, PTL

(* A patch in the applied directory is in the store, whatever fails and    *)
(* whenever the service dies.                                              *)
THEOREM AppliedMeansUnbundled == Spec => []AppliedIsInStore
<1>1. IInv => AppliedIsInStore
  BY DEF IInv, ApplyInv
<1>. QED
  BY Invariance, <1>1, PTL

(* The outgoing patches of a device, in the order of their indexes, never  *)
(* leave out an ancestor of what they name or contain.                     *)
THEOREM PublishedWithoutHoles == Spec => []NoHoleInOutgoing
<1>1. IInv => NoHoleInOutgoing
  BY NoHole DEF IInv
<1>. QED
  BY Invariance, <1>1, PTL

(* A restart at any moment reads back the index and the base in memory,    *)
(* unless moveFile threw when the patch was there: then it takes the patch *)
(* for sent and goes on after it.                                          *)
THEOREM RestartReadsBack == Spec => []MemoryMatchesDisk
<1>1. IInv => MemoryMatchesDisk
  BY MemoryFollows DEF IInv
<1>. QED
  BY Invariance, <1>1, PTL

(* No patch is to apply and applied at the same time, but for one that     *)
(* moveFile copied and could not remove.                                   *)
THEOREM NeverAppliedTwice == Spec => []StoredOnce
<1>1. IInv => StoredOnce
  <2>1. \A d \in Devices :
          Names(toApply[d] \cup arrived[d]) = Names(toApply[d]) \cup Names(arrived[d])
    BY NamesUnion, Zenon
  <2>. QED
    BY <2>1 DEF IInv, TurnsInv, StoredOnce
<1>. QED
  BY Invariance, <1>1, PTL
=============================================================================
