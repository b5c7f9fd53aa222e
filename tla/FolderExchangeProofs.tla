-------------------------- MODULE FolderExchangeProofs -------------------------
(***************************************************************************)
(* What becomes of patch files, for any number of devices and whatever     *)
(* fails.  Every file in every list holds what some device has bundled     *)
(* (OriginInv), from which FolderSync implements ChangesetExchange.  And   *)
(* every patch relies only on what comes with one of a smaller index, its  *)
(* anchor; as files leave each list in the order of their indexes, the     *)
(* anchors are wherever patches are kept, moved or copied (OrderInv), as   *)
(* long as indexes have one digit: then the order in which applyPatches    *)
(* names the files does not matter.                                        *)
(***************************************************************************)
EXTENDS FolderSyncProofs

(* A changeset is newer than its ancestors.                                *)
AncestryInv == \A c \in Commits : history[c] \subseteq 1..c

(* A device has what it bundles.                                           *)
OutgoingInv ==
  \A d \in Devices : \A p \in OutgoingFiles(d) : p.content \subseteq repo[d]

(* Every patch has cost an edit: it is counted, or left in the directory   *)
(* with the next index, or about to be bundled, or in the working          *)
(* directory.                                                              *)
One(b) == IF b THEN 1 ELSE 0
Waiting(d) == \E p \in unlisted[d] : p.index = nextIndex[d]
Spent(d) ==
  nextIndex[d] + One(Waiting(d)) + One(pc[d] = "bundle") + One(dirty[d] \/ pc[d] = "commit")
EditsInv == \A d \in Devices : Spent(d) <= edits + 1

(* What is unbundled was listed.                                           *)
TodoInv == \A d \in Devices : pc[d] = "unbundle" => todo[d] \subseteq batch[d]

(* A patch holds the commit it is named after, and one of a smaller index  *)
(* comes with all that it relies on.                                       *)
WellMade(p) == p.last \in p.content /\ p.index < Radix
Anchored(p, files) ==
  Bases(p) = {} \/ \E q \in files : q.index < p.index /\ Bases(p) \subseteq history[q.last]
Closed(some, files) == \A p \in some : WellMade(p) /\ Anchored(p, files)

(* What a device need not download.                                        *)
Had(d) == toApply[d] \cup applied[d] \cup outgoing[d]

(* Where the anchors are: of what is in a list, in the list or where its   *)
(* files go.                                                               *)
Unlisted(d) == {p \in unlisted[d] : p.index < Radix}
ToApplyFiles(d) == toApply[d] \cup arrived[d] \cup kept[d]

Ordered(d) ==
  /\ Closed(outgoing[d], outgoing[d]) /\ Closed(Unlisted(d), outgoing[d])
  /\ Closed(uploads[d], uploads[d] \cup cloud)
  /\ Closed(pulls[d], pulls[d] \cup Had(d))
  /\ Closed(ToApplyFiles(d), Had(d))
  /\ Closed(batch[d], batch[d] \cup applied[d] \cup outgoing[d])
  /\ \A p \in applied[d] : WellMade(p)

(* No device has made more patches than there are indexes of one digit.    *)
OneDigit == \A d \in Devices : nextIndex[d] <= Radix

OrderInv == OneDigit => Closed(cloud, cloud) /\ \A d \in Devices : Ordered(d)

-----------------------------------------------------------------------------
(* Indexes below the radix sort as numbers.                                *)
LEMMA OneDigitSorts ==
  ASSUME NEW i \in 1..(Radix - 1), NEW j \in 1..(Radix - 1), j < i
  PROVE  SortsBefore(j, i)
<1>1. Radix \in Nat
  BY ConstantsAssumption
<1>2. i \in Nat /\ j \in Nat /\ i < Radix /\ j < Radix
  BY <1>1
<1>3. Digits(i) = <<i>> /\ Digits(j) = <<j>>
  BY <1>2 DEF Digits
<1>4. \A s \in Seq(Nat) : Len(s) = 1 =>
        1 \in DOMAIN Append(s, Radix) /\ Append(s, Radix)[1] = s[1]
  BY <1>1
<1>5. ASSUME NEW n \in Nat
      PROVE  1 \in DOMAIN Append(<<n>>, Radix) /\ Append(<<n>>, Radix)[1] = n
  <2>1. <<n>> \in Seq(Nat) /\ Len(<<n>>) = 1 /\ <<n>>[1] = n
    OBVIOUS
  <2>. QED
    BY <1>4, <2>1
<1>6. SortsBefore(j, i) <=>
        \E k \in DOMAIN Append(<<j>>, Radix) \cap DOMAIN Append(<<i>>, Radix) :
          /\ Append(<<j>>, Radix)[k] < Append(<<i>>, Radix)[k]
          /\ \A m \in 1..(k - 1) : Append(<<j>>, Radix)[m] = Append(<<i>>, Radix)[m]
  BY <1>3 DEF SortsBefore, Underscore
<1>7. \A m : m \notin 1..(1 - 1)
  OBVIOUS
<1>. QED
  BY <1>2, <1>5, <1>6, <1>7

(* Every patch of B has its name in C.                                     *)
Covers(B, C) == \A q \in B : \E r \in C : r.index = q.index /\ r.last = q.last

(* What comes first follows nothing that is left.                          *)
LEMMA TakeFirst ==
  ASSUME NEW A \in SUBSET Patches, NEW B, Closed(A, A \cup B), NEW p \in FirstOf(A)
  PROVE  Closed({p}, B)
<1>1. p \in A /\ WellMade(p) /\ Anchored(p, A \cup B)
  BY DEF FirstOf, Closed
<1>2. ASSUME NEW q \in A PROVE ~(q.index < p.index)
  <2>1. \A r \in A : r.index \in 1..(Radix - 1)
    BY ConstantsAssumption DEF Closed, WellMade, Patches
  <2>. QED
    BY <1>1, <2>1, OneDigitSorts DEF FirstOf
<1>. QED
  BY <1>1, <1>2 DEF Closed, Anchored

(* Ancestors stay what they are, so that closed sets stay closed.          *)
LEMMA ClosedStep ==
  ASSUME TypeOK, [Next]_vars
  PROVE  \A A, B \in SUBSET Patches : \A C, D :
           Closed(A, B) /\ C \subseteq A /\ Covers(B, D) => Closed(C, D)'
<1>1. \A c \in 0..made : history'[c] = history[c]
  BY HgGrows
<1>2. \A p \in Patches : Bases(p)' = Bases(p) /\ p.last \in 0..made /\ p.content \subseteq Commits
  <2>1. \A p \in Patches : \A c \in p.content : history'[c] = history[c]
    BY <1>1 DEF Patches, Commits, TypeOK, StoreType
  <2>. QED
    BY <2>1 DEF Bases, Patches, Commits, TypeOK, StoreType
<1>3. TAKE A, B \in SUBSET Patches
<1>4. TAKE C, D
<1>5. HAVE Closed(A, B) /\ C \subseteq A /\ Covers(B, D)
<1>6. ASSUME NEW p \in C PROVE WellMade(p)' /\ Anchored(p, D)'
  <2>1. p \in Patches /\ WellMade(p) /\ Anchored(p, B)
    BY <1>5 DEF Closed
  <2>2. CASE Bases(p) = {}
    BY <1>2, <2>1, <2>2 DEF WellMade, Anchored
  <2>3. ASSUME NEW q \in B, q.index < p.index, Bases(p) \subseteq history[q.last]
        PROVE  WellMade(p)' /\ Anchored(p, D)'
    <3>1. PICK r \in D : r.index = q.index /\ r.last = q.last
      BY <1>5 DEF Covers
    <3>2. q.last \in 0..made
      BY <1>2
    <3>3. Bases(p)' \subseteq history'[r.last]
      BY <1>1, <1>2, <2>1, <2>3, <3>1, <3>2
    <3>. QED
      BY <2>1, <2>3, <3>1, <3>3 DEF WellMade, Anchored
  <2>. QED
    BY <2>1, <2>2, <2>3 DEF Anchored
<1>. QED
  BY <1>6 DEF Closed

-----------------------------------------------------------------------------
(* A changeset is newer than its ancestors.                                *)
LEMMA AncestryStep ==
  ASSUME IInv, AncestryInv, [Next]_vars
  PROVE  AncestryInv'
<1>0. TypeOK
  BY DEF IInv
<1>1. CASE HgCommits
  <2>1. PICK d \in Devices, changed \in BOOLEAN : CommitAll(d, changed)
    BY <1>1 DEF HgCommits
  <2>2. CASE ~changed
    BY <2>1, <2>2 DEF CommitAll, AncestryInv, Commits
  <2>3. CASE changed
    <3>1. /\ made' = made + 1 /\ made \in Nat /\ parent[d] \in 0..made
          /\ history'[made + 1] = history[parent[d]] \cup {made + 1}
      BY <1>0, <2>1, <2>3 DEF CommitAll, TypeOK, StoreType
    <3>2. \A c \in 0..made : history'[c] = history[c] /\ history[c] \subseteq 1..made
      BY <1>0, <2>1, CommitAllType DEF TypeOK, StoreType, Commits
    <3>3. ASSUME NEW c \in 1..(made + 1) PROVE history'[c] \subseteq 1..c
      <4>1. CASE c = made + 1
        BY <3>1, <3>2, <4>1
      <4>2. CASE c # made + 1
        BY <3>1, <3>2, <4>2 DEF AncestryInv, Commits
      <4>. QED
        BY <4>1, <4>2
    <3>. QED
      BY <3>1, <3>3 DEF AncestryInv, Commits
  <2>. QED
    BY <2>2, <2>3
<1>2. CASE HgUpdates \/ HgUnbundles \/ UNCHANGED <<made, history, repo, parent>>
  BY <1>2 DEF HgUpdates, HgUnbundles, Unbundle, AncestryInv, Commits
<1>. QED
  BY <1>0, <1>1, <1>2, HgSteps

(* A new patch holds the commit it is named after, and relies only on what *)
(* comes with the base.                                                    *)
LEMMA NewPatchFits ==
  ASSUME IInv, AncestryInv, OutgoingInv, NEW d \in Devices, pc[d] = "bundle"
  PROVE  /\ NewPatch(d).last \in NewPatch(d).content
         /\ Anchored(NewPatch(d), outgoing[d])
<1>0. TypeOK /\ StoreInv /\ BaseInv /\ IndexInv /\ NewPatch(d) \in Patches
  BY NewPatchType DEF IInv
<1>1. parent[d] \in repo[d] /\ parent[d] \in Commits
  <2>1. parent[d] # NoCommit
    BY <1>0 DEF NewPatch, Patches, Commits, NoCommit
  <2>. QED
    BY <1>0, <2>1 DEF StoreInv, TypeOK, StoreType
<1>2. parent[d] \notin history[lastOutgoing[d]]
  <2>1. CASE lastOutgoing[d] = NoCommit
    BY <1>0, <2>1 DEF StoreInv
  <2>2. CASE lastOutgoing[d] # NoCommit
    <3>1. lastOutgoing[d] \in history[parent[d]] /\ lastOutgoing[d] # parent[d]
      BY <1>0, <2>2 DEF BaseInv, IndexInv, OutgoingFiles
    <3>2. lastOutgoing[d] \in Commits
      BY <1>0, <2>2 DEF TypeOK, MemType, Commits, NoCommit
    <3>3. history[parent[d]] \subseteq 1..parent[d]
      BY <1>1 DEF AncestryInv
    <3>4. history[lastOutgoing[d]] \subseteq 1..lastOutgoing[d]
      BY <3>2 DEF AncestryInv
    <3>. QED
      BY <1>0, <1>1, <3>1, <3>2, <3>3, <3>4 DEF Commits, TypeOK, StoreType
  <2>. QED
    BY <2>1, <2>2
<1>3. NewPatch(d).last \in NewPatch(d).content
  BY <1>1, <1>2 DEF NewPatch
<1>4. Bases(NewPatch(d)) \subseteq history[lastOutgoing[d]]
  <2>1. \A c \in repo[d] : history[c] \subseteq repo[d]
    BY <1>0 DEF StoreInv
  <2>2. UNION {history[c] : c \in NewPatch(d).content} \subseteq repo[d]
    BY <2>1 DEF NewPatch
  <2>. QED
    BY <2>2 DEF Bases, NewPatch
<1>5. Anchored(NewPatch(d), outgoing[d])
  <2>1. CASE lastOutgoing[d] = NoCommit
    BY <1>0, <1>4, <2>1 DEF StoreInv, Anchored
  <2>2. CASE lastOutgoing[d] # NoCommit
    <3>1. PICK q \in outgoing[d] : q.last = lastOutgoing[d]
      BY <1>0, <2>2 DEF IndexInv
    <3>2. q.index < NewPatch(d).index
      BY <1>0 DEF IndexInv, NewPatch
    <3>. QED
      BY <1>4, <3>1, <3>2 DEF Anchored
  <2>. QED
    BY <2>1, <2>2
<1>. QED
  BY <1>3, <1>5

(* A device bundles what it has.                                           *)
LEMMA OutgoingStep ==
  ASSUME IInv, OutgoingInv, [Next]_vars
  PROVE  OutgoingInv'
<1>0. TypeOK /\ \A d \in Devices : repo[d] \subseteq repo'[d]
  BY HgGrows DEF IInv
<1>1. ASSUME NEW e \in Devices, NEW p \in outgoing'[e] \cup unlisted'[e]
      PROVE  p.content \subseteq repo'[e]
  <2>1. p \in outgoing[e] \cup unlisted[e] \/ p = NewPatch(e)
    BY <1>0, FilesSteps
  <2>2. p.content \subseteq repo[e]
    BY <2>1 DEF OutgoingInv, OutgoingFiles, NewPatch
  <2>. QED
    BY <1>0, <2>2
<1>. QED
  BY <1>1 DEF OutgoingInv, OutgoingFiles

-----------------------------------------------------------------------------
(* The batch being unbundled was listed before.                            *)
LEMMA TodoStep ==
  ASSUME TypeOK, TodoInv, [Next]_vars
  PROVE  TodoInv'
<1> USE DEF TypeOK, TaskType, FilesType, Goto
<1>1. CASE \A e \in Devices : Quiet(e)
  BY <1>1 DEF TodoInv, Applying, Quiet
<1>2. ASSUME NEW d \in Devices, ApplyCommit(d) PROVE TodoInv'
  BY <1>2 DEF ApplyCommit, TodoInv
<1>3. ASSUME NEW d \in Devices, Unbundle(d) PROVE TodoInv'
  BY <1>3 DEF Unbundle, TodoInv, FirstOf
<1>4. ASSUME NEW d \in Devices, Update(d) \/ StagePatchAsApplied(d) \/ StageThenFail(d)
      PROVE  TodoInv'
  BY <1>4 DEF Update, StagePatchAsApplied, StageThenFail, TodoInv, FirstOf
<1>. QED
  BY <1>1, <1>2, <1>3, <1>4, ApplySteps

(* Indexes are never taken back.                                           *)
LEMMA IndexesGrow ==
  ASSUME IInv, [Next]_vars, NEW d \in Devices
  PROVE  nextIndex[d] \in Nat /\ nextIndex'[d] \in Nat /\ nextIndex[d] <= nextIndex'[d]
<1>0. TypeOK /\ TypeOK' /\ IndexInv /\ IndexInv'
  BY TypeStep, IndexStep DEF IInv
<1>1. nextIndex[d] \in Nat \ {0} /\ nextIndex'[d] \in Nat \ {0}
  BY <1>0 DEF TypeOK, MemType
<1>2. CASE nextIndex[d] = 1
  BY <1>1, <1>2
<1>3. CASE nextIndex[d] # 1
  <2>1. PICK p \in outgoing[d] : p.index + 1 = nextIndex[d]
    BY <1>0, <1>3 DEF IndexInv
  <2>2. p.index < nextIndex'[d] /\ p.index \in Nat
    BY <1>0, <2>1, FilesSteps DEF IndexInv, TypeOK, FilesType, Patches
  <2>. QED
    BY <1>1, <2>1, <2>2
<1>. QED
  BY <1>2, <1>3

(* Files are left where they are, but for lists that a task drops.         *)
FilesKept ==
  /\ UNCHANGED <<diskVars, cloud>>
  /\ \A e \in Devices : /\ batch'[e] \in {batch[e], {}} /\ pulls'[e] \in {pulls[e], {}}
                        /\ uploads'[e] \in {uploads[e], {}}

(* Only these steps do more.                                               *)
LEMMA FileSteps ==
  ASSUME TypeOK, [Next]_vars
  PROVE  \/ FilesKept
         \/ \E d \in Devices :
              \/ MovePatchToOutgoing(d) \/ MoveThenFail(d) \/ ListPatchesToApply(d)
              \/ StagePatchAsApplied(d) \/ StageThenFail(d) \/ ListAndDownload(d)
              \/ MovePatchToApply(d) \/ ArriveThenFail(d) \/ Crash(d)
              \/ UploadFile(d) \/ UploadBegins(d) \/ UploadEnds(d)
<1> USE DEF TypeOK, FilesType, taskVars, diskVars, cloudVars, FilesKept
<1>1. ASSUME NEW d \in Devices,
             \/ AddFolder(d) \/ Edit(d) \/ Revert(d) \/ CheckLocal(d) \/ CheckRemotes(d)
             \/ CheckLocalState(d) \/ PrepareCommit(d) \/ ApplyCommit(d) \/ Unbundle(d)
             \/ UnbundleFails(d) \/ Update(d) \/ NotifyIncoming(d)
      PROVE  FilesKept
  BY <1>1 DEF AddFolder, Edit, Revert, CheckLocal, CheckRemotes, CheckLocalState, PrepareCommit,
    ApplyCommit, Unbundle, UnbundleFails, Update, NotifyIncoming
<1>2. ASSUME NEW d \in Devices,
             \/ HgFails(d) \/ CommitThenFail(d) \/ UpdateThenFail(d) \/ SummaryFatal(d)
             \/ StageFails(d) \/ CloudFails(d)
      PROVE  FilesKept
  BY <1>2 DEF HgFails, CommitThenFail, UpdateThenFail, Failing, SummaryFatal, StageFails,
    CloudFails, CloudTaskEnds
<1>3. CASE UNCHANGED vars
  BY <1>3 DEF vars
<1>. QED
  BY <1>1, <1>2, <1>3 DEF Next, FolderTask, CloudTask, Failures

(* The directories and lists of a device hold patches.                     *)
LEMMA DeviceFiles ==
  ASSUME TypeOK, NEW e \in Devices
  PROVE  /\ outgoing[e] \in SUBSET Patches /\ Unlisted(e) \in SUBSET Patches
         /\ ToApplyFiles(e) \in SUBSET Patches /\ batch[e] \in SUBSET Patches
         /\ toApply[e] \in SUBSET Patches
         /\ pulls[e] \in SUBSET Patches /\ uploads[e] \in SUBSET Patches
         /\ cloud \in SUBSET Patches /\ Had(e) \in SUBSET Patches
         /\ pulls[e] \cup Had(e) \in SUBSET Patches
         /\ uploads[e] \cup cloud \in SUBSET Patches
         /\ batch[e] \cup applied[e] \cup outgoing[e] \in SUBSET Patches
BY DEF TypeOK, FilesType, Had, Unlisted, ToApplyFiles

(* A file put into the cloud, whole or torn, follows what is there.        *)
LEMMA CloudGrows ==
  ASSUME IInv, [Next]_vars, NEW d \in Devices, NEW p \in Patches, Closed({p}, cloud),
         Closed(cloud, cloud), \A e \in Devices : Ordered(e),
         \/ cloud' = cloud \cup {p}
         \/ cloud' = {q \in cloud : Name(q) # Name(p)} \cup {p},
         UNCHANGED <<diskVars, batch, pulls>>,
         uploads' = uploads \/ uploads' = [uploads EXCEPT ![d] = uploads[d] \ {p}]
  PROVE  Closed(cloud, cloud)' /\ \A e \in Devices : Ordered(e)'
<1>0. /\ TypeOK
      /\ \A A, B \in SUBSET Patches : \A C, D :
           Closed(A, B) /\ C \subseteq A /\ Covers(B, D) => Closed(C, D)'
  BY ClosedStep DEF IInv
<1>1. Covers(cloud, cloud')
  BY DEF Covers, Name
<1>2. Closed(cloud, cloud)'
  <2>1. Closed(cloud \cup {p}, cloud)
    BY DEF Closed
  <2>2. cloud' \subseteq cloud \cup {p} /\ cloud \in SUBSET Patches /\ {p} \in SUBSET Patches
    BY <1>0 DEF TypeOK, FilesType
  <2>. QED
    BY <1>0, <1>1, <2>1, <2>2
<1>3. ASSUME NEW e \in Devices PROVE Ordered(e)'
  <2>1. /\ outgoing[e] \in SUBSET Patches /\ Unlisted(e) \in SUBSET Patches
        /\ ToApplyFiles(e) \in SUBSET Patches
        /\ batch[e] \in SUBSET Patches /\ pulls[e] \in SUBSET Patches
        /\ uploads[e] \in SUBSET Patches /\ cloud \in SUBSET Patches
    BY <1>0, DeviceFiles
  <2>2. \A B : Covers(B, B)
    BY DEF Covers
  <2>3. Covers(uploads[e] \cup cloud, uploads'[e] \cup cloud') /\ uploads'[e] \subseteq uploads[e]
    <3>1. uploads'[e] \subseteq uploads[e] /\ \A q \in uploads[e] : q \in uploads'[e] \/ q = p
      BY <1>0 DEF TypeOK, FilesType
    <3>2. p \in cloud'
      OBVIOUS
    <3>. QED
      BY <1>1, <3>1, <3>2 DEF Covers
  <2>5. Closed(uploads[e], uploads[e] \cup cloud)'
    BY <1>0, <2>1, <2>3 DEF Ordered
  <2>4. \A A, B \in SUBSET Patches : Closed(A, B) => Closed(A, B)'
    BY <1>0, <2>2
  <2>6. /\ Had(e) \in SUBSET Patches /\ pulls[e] \cup Had(e) \in SUBSET Patches
        /\ batch[e] \cup applied[e] \cup outgoing[e] \in SUBSET Patches
    BY <1>0, DeviceFiles
  <2>7. /\ UNCHANGED <<outgoing[e], applied[e], batch[e], pulls[e]>>
        /\ Had(e)' = Had(e) /\ Unlisted(e)' = Unlisted(e) /\ ToApplyFiles(e)' = ToApplyFiles(e)
    BY DEF Had, Unlisted, ToApplyFiles, diskVars
  <2>8. /\ Closed(outgoing[e], outgoing[e])' /\ Closed(Unlisted(e), outgoing[e])'
        /\ Closed(ToApplyFiles(e), Had(e))' /\ Closed(pulls[e], pulls[e] \cup Had(e))'
    BY <2>1, <2>4, <2>6, <2>7 DEF Ordered
  <2>9. Closed(batch[e], batch[e] \cup applied[e] \cup outgoing[e])'
    BY <2>1, <2>4, <2>6, <2>7 DEF Ordered
  <2>10. (\A q \in applied[e] : WellMade(q))'
    BY <2>1, <2>7 DEF Ordered, WellMade
  <2>. QED
    BY <2>5, <2>8, <2>9, <2>10 DEF Ordered
<1>. QED
  BY <1>2, <1>3

(* A device whose files are left alone, or forgotten by its tasks, stays   *)
(* in order.                                                               *)
LEMMA OrderedKept ==
  ASSUME IInv, [Next]_vars, NEW e \in Devices, Ordered(e), UNCHANGED cloud,
         UNCHANGED <<outgoing[e], toApply[e], applied[e], unlisted[e], arrived[e], kept[e]>>,
         batch'[e] \in {batch[e], {}}, pulls'[e] \in {pulls[e], {}},
         uploads'[e] \in {uploads[e], {}}
  PROVE  Ordered(e)'
<1>1. \A A, B \in SUBSET Patches : Closed(A, B) => Closed(A, B)'
  <2>1. \A B : Covers(B, B)
    BY DEF Covers
  <2>. QED
    BY <2>1, ClosedStep DEF IInv
<1>2. \A B : Closed({}, B)'
  BY DEF Closed
<1>3. Had(e)' = Had(e) /\ Unlisted(e)' = Unlisted(e) /\ ToApplyFiles(e)' = ToApplyFiles(e)
  BY DEF Had, Unlisted, ToApplyFiles
<1>4. /\ Closed(outgoing[e], outgoing[e])' /\ Closed(Unlisted(e), outgoing[e])'
      /\ Closed(ToApplyFiles(e), Had(e))'
  BY <1>1, <1>3, DeviceFiles DEF Ordered, IInv
<1>5. Closed(pulls[e], pulls[e] \cup Had(e))'
  BY <1>1, <1>2, <1>3, DeviceFiles DEF Ordered, IInv
<1>6. Closed(uploads[e], uploads[e] \cup cloud)'
  BY <1>1, <1>2, DeviceFiles DEF Ordered, IInv
<1>7. Closed(batch[e], batch[e] \cup applied[e] \cup outgoing[e])'
  BY <1>1, <1>2, DeviceFiles DEF Ordered, IInv
<1>. QED
  BY <1>4, <1>5, <1>6, <1>7 DEF Ordered, WellMade

(* A new patch follows those its device has made.                          *)
LEMMA OutgoingOrdered ==
  ASSUME IInv, AncestryInv, OutgoingInv, [Next]_vars, NEW d \in Devices, MovePatchToOutgoing(d),
         OneDigit', Ordered(d)
  PROVE  Ordered(d)'
<1>0. /\ TypeOK
      /\ \A A, B \in SUBSET Patches : \A C, D :
           Closed(A, B) /\ C \subseteq A /\ Covers(B, D) => Closed(C, D)'
  BY ClosedStep DEF IInv
<1>1. PICK q \in FiledAs(NewPatch(d), unlisted[d]) :
        outgoing' = [outgoing EXCEPT ![d] = outgoing[d] \cup {q}]
  BY DEF MovePatchToOutgoing
<1>2. /\ outgoing'[d] = outgoing[d] \cup {q} /\ pc[d] = "bundle"
      /\ unlisted'[d] \subseteq unlisted[d] /\ nextIndex'[d] = nextIndex[d] + 1
      /\ UNCHANGED <<toApply, applied, arrived, kept, batch, pulls, uploads, cloud>>
  BY <1>0, <1>1 DEF MovePatchToOutgoing, Others, TypeOK, FilesType, MemType
<1>3. WellMade(q) /\ Anchored(q, outgoing[d]) /\ q \in Patches
  <2>1. nextIndex[d] < Radix
    BY <1>0, <1>2, ConstantsAssumption DEF OneDigit, TypeOK, MemType
  <2>2. q.index = nextIndex[d] /\ (q = NewPatch(d) \/ q \in unlisted[d])
    BY <1>1, FiledMember DEF NewPatch
  <2>3. CASE q = NewPatch(d)
    BY <1>2, <2>1, <2>2, <2>3, NewPatchFits, NewPatchType DEF WellMade, IInv
  <2>4. CASE q \in unlisted[d]
    <3>1. q \in Unlisted(d)
      BY <2>1, <2>2, <2>4 DEF Unlisted
    <3>. QED
      BY <1>0, <3>1, DeviceFiles DEF Ordered, Closed
  <2>. QED
    BY <2>2, <2>3, <2>4
<1>4. Closed(outgoing[d], outgoing[d])' /\ Closed(Unlisted(d), outgoing[d])'
  <2>1. outgoing[d] \cup {q} \in SUBSET Patches /\ outgoing[d] \in SUBSET Patches
    BY <1>0, <1>3, DeviceFiles
  <2>2. Covers(outgoing[d], outgoing'[d])
    BY <1>2 DEF Covers
  <2>3. Closed(outgoing[d] \cup {q}, outgoing[d])
    BY <1>3 DEF Closed, Ordered
  <2>4. Closed(outgoing[d], outgoing[d])'
    BY <1>0, <1>2, <2>1, <2>2, <2>3
  <2>5. Unlisted(d)' \subseteq Unlisted(d)
    BY <1>2 DEF Unlisted
  <2>6. Closed(Unlisted(d), outgoing[d])'
    BY <1>0, <2>2, <2>5, DeviceFiles DEF Ordered
  <2>. QED
    BY <2>4, <2>6
<1>5. /\ Covers(Had(d), Had(d)') /\ Covers(pulls[d] \cup Had(d), pulls[d] \cup Had(d)')
      /\ Covers(uploads[d] \cup cloud, uploads[d] \cup cloud)
      /\ Covers(batch[d] \cup applied[d] \cup outgoing[d],
                batch[d] \cup applied[d] \cup outgoing'[d])
  BY <1>2 DEF Covers, Had
<1>6. Closed(ToApplyFiles(d), Had(d))' /\ Closed(pulls[d], pulls[d] \cup Had(d))'
  <2>1. ToApplyFiles(d)' = ToApplyFiles(d)
    BY <1>2 DEF ToApplyFiles
  <2>. QED
    BY <1>0, <1>2, <1>5, <2>1, DeviceFiles DEF Ordered
<1>7. Closed(uploads[d], uploads[d] \cup cloud)'
  BY <1>0, <1>2, <1>5, DeviceFiles DEF Ordered
<1>8. Closed(batch[d], batch[d] \cup applied[d] \cup outgoing[d])'
  BY <1>0, <1>2, <1>5, DeviceFiles DEF Ordered
<1>. QED
  BY <1>2, <1>4, <1>6, <1>7, <1>8 DEF Ordered, WellMade

(* A batch is what was to apply.                                           *)
LEMMA BatchOrdered ==
  ASSUME IInv, [Next]_vars, NEW d \in Devices, ListPatchesToApply(d), Ordered(d)
  PROVE  Ordered(d)'
<1>0. /\ TypeOK
      /\ \A A, B \in SUBSET Patches : \A C, D :
           Closed(A, B) /\ C \subseteq A /\ Covers(B, D) => Closed(C, D)'
  BY ClosedStep DEF IInv
<1>1. /\ UNCHANGED <<diskVars, pulls, uploads, cloud>>
      /\ batch'[d] \in {batch[d], toApply[d]}
  BY <1>0 DEF ListPatchesToApply, TypeOK, FilesType, cloudVars
<1>2. /\ UNCHANGED <<outgoing, applied>>
      /\ Had(d)' = Had(d) /\ Unlisted(d)' = Unlisted(d) /\ ToApplyFiles(d)' = ToApplyFiles(d)
  BY <1>1 DEF Had, Unlisted, ToApplyFiles, diskVars
<1>3. \A B : Covers(B, B)
  BY DEF Covers
<1>4. Closed(ToApplyFiles(d), Had(d))' /\ Closed(pulls[d], pulls[d] \cup Had(d))'
  BY <1>0, <1>1, <1>2, <1>3, DeviceFiles DEF Ordered
<1>5. /\ Closed(outgoing[d], outgoing[d])' /\ Closed(Unlisted(d), outgoing[d])'
      /\ Closed(uploads[d], uploads[d] \cup cloud)'
  BY <1>0, <1>1, <1>2, <1>3, DeviceFiles DEF Ordered
<1>6. Closed(batch[d], batch[d] \cup applied[d] \cup outgoing[d])'
  <2>1. CASE batch'[d] = batch[d]
    BY <1>0, <1>2, <1>3, <2>1, DeviceFiles DEF Ordered
  <2>2. CASE batch'[d] = toApply[d]
    <3>1. batch'[d] \cup applied[d] \cup outgoing[d] = Had(d)
      BY <2>2 DEF Had
    <3>2. Closed(toApply[d], Had(d))
      BY DEF Ordered, Closed, ToApplyFiles
    <3>. QED
      BY <1>0, <1>2, <1>3, <2>2, <3>1, <3>2, DeviceFiles
  <2>. QED
    BY <1>1, <2>1, <2>2
<1>. QED
  BY <1>2, <1>4, <1>5, <1>6 DEF Ordered, WellMade

(* A patch keeps its name when it is moved to the applied directory.       *)
LEMMA StageOrdered ==
  ASSUME IInv, [Next]_vars, NEW d \in Devices, StagePatchAsApplied(d), Ordered(d)
  PROVE  Ordered(d)'
<1>0. /\ TypeOK
      /\ \A A, B \in SUBSET Patches : \A C, D :
           Closed(A, B) /\ C \subseteq A /\ Covers(B, D) => Closed(C, D)'
  BY ClosedStep DEF IInv
<1>1. PICK p \in batch[d] :
        /\ applied'[d] = applied[d] \cup {p}
        /\ toApply'[d] = {q \in toApply[d] : Name(q) # Name(p)}
        /\ batch'[d] = batch[d] \ {p}
        /\ UNCHANGED <<outgoing, unlisted, arrived, kept, pulls, uploads, cloud>>
  BY <1>0 DEF StagePatchAsApplied, FirstOf, Others, TypeOK, FilesType, cloudVars
<1>2. WellMade(p)
  BY <1>1 DEF Ordered, Closed
<1>3. \A B : Covers(B, B)
  BY DEF Covers
<1>4. Covers(Had(d), Had(d)')
  <2>1. ASSUME NEW q \in Had(d) PROVE \E r \in Had(d)' : r.index = q.index /\ r.last = q.last
    <3>1. CASE q \in toApply[d] /\ Name(q) = Name(p)
      BY <1>1, <3>1 DEF Had, Name
    <3>2. CASE q \notin toApply[d] \/ Name(q) # Name(p)
      BY <1>1, <2>1, <3>2 DEF Had
    <3>. QED
      BY <3>1, <3>2
  <2>. QED
    BY <2>1 DEF Covers
<1>5. Closed(ToApplyFiles(d), Had(d))'
  <2>1. ToApplyFiles(d)' \subseteq ToApplyFiles(d)
    BY <1>1 DEF ToApplyFiles
  <2>. QED
    BY <1>0, <1>4, <2>1, DeviceFiles DEF Ordered
<1>6. Closed(pulls[d], pulls[d] \cup Had(d))'
  <2>1. Covers(pulls[d] \cup Had(d), pulls'[d] \cup Had(d)')
    BY <1>1, <1>4 DEF Covers
  <2>. QED
    BY <1>0, <1>1, <2>1, DeviceFiles DEF Ordered
<1>7. /\ Closed(outgoing[d], outgoing[d])' /\ Closed(Unlisted(d), outgoing[d])'
      /\ Closed(uploads[d], uploads[d] \cup cloud)'
  <2>1. Unlisted(d)' = Unlisted(d)
    BY <1>1 DEF Unlisted
  <2>. QED
    BY <1>0, <1>1, <1>3, <2>1, DeviceFiles DEF Ordered
<1>8. Closed(batch[d], batch[d] \cup applied[d] \cup outgoing[d])'
  <2>1. Covers(batch[d] \cup applied[d] \cup outgoing[d],
               batch'[d] \cup applied'[d] \cup outgoing'[d])
    BY <1>1 DEF Covers
  <2>2. batch'[d] \subseteq batch[d]
    BY <1>1
  <2>. QED
    BY <1>0, <2>1, <2>2, DeviceFiles DEF Ordered
<1>. QED
  BY <1>1, <1>2, <1>5, <1>6, <1>7, <1>8 DEF Ordered, WellMade

(* What is downloaded follows what the device has or downloads too, what   *)
(* is uploaded what the cloud has or is uploaded too.                      *)
LEMMA ListedOrdered ==
  ASSUME IInv, [Next]_vars, NEW d \in Devices, ListAndDownload(d), Ordered(d),
         Closed(cloud, cloud)
  PROVE  Ordered(d)'
<1>0. /\ TypeOK
      /\ \A A, B \in SUBSET Patches : \A C, D :
           Closed(A, B) /\ C \subseteq A /\ Covers(B, D) => Closed(C, D)'
  BY ClosedStep DEF IInv
<1>1. /\ UNCHANGED <<outgoing, applied, batch, cloud>>
      /\ pulls'[d] = {p \in cloud : Name(p) \notin Known(d)}
      /\ uploads'[d] = {p \in outgoing[d] : Name(p) \notin Names(cloud)}
      /\ Had(d)' = Had(d) /\ Unlisted(d)' = Unlisted(d) /\ ToApplyFiles(d)' = ToApplyFiles(d)
  BY <1>0 DEF ListAndDownload, Missing, TypeOK, FilesType, Had, Unlisted, ToApplyFiles,
    diskVars, taskVars
<1>2. \A B : Covers(B, B)
  BY DEF Covers
<1>3. Closed(pulls[d], pulls[d] \cup Had(d))'
  <2>1. ASSUME NEW q \in cloud
        PROVE  \E r \in pulls'[d] \cup Had(d) : r.index = q.index /\ r.last = q.last
    <3>1. CASE Name(q) \in Known(d)
      BY <3>1 DEF Known, Names, Name, Had
    <3>2. CASE Name(q) \notin Known(d)
      BY <1>1, <3>2
    <3>. QED
      BY <3>1, <3>2
  <2>2. Covers(cloud, pulls'[d] \cup Had(d)') /\ pulls'[d] \subseteq cloud
    BY <1>1, <2>1 DEF Covers
  <2>. QED
    BY <1>0, <2>2, DeviceFiles
<1>4. Closed(uploads[d], uploads[d] \cup cloud)'
  <2>1. ASSUME NEW q \in outgoing[d]
        PROVE  \E r \in uploads'[d] \cup cloud : r.index = q.index /\ r.last = q.last
    <3>1. CASE Name(q) \in Names(cloud)
      BY <3>1 DEF Names, Name
    <3>2. CASE Name(q) \notin Names(cloud)
      BY <1>1, <3>2
    <3>. QED
      BY <3>1, <3>2
  <2>2. Covers(outgoing[d], uploads'[d] \cup cloud') /\ uploads'[d] \subseteq outgoing[d]
    BY <1>1, <2>1 DEF Covers
  <2>. QED
    BY <1>0, <2>2, DeviceFiles DEF Ordered
<1>5. /\ Closed(outgoing[d], outgoing[d])' /\ Closed(Unlisted(d), outgoing[d])'
      /\ Closed(ToApplyFiles(d), Had(d))'
  BY <1>0, <1>1, <1>2, DeviceFiles DEF Ordered
<1>6. Closed(batch[d], batch[d] \cup applied[d] \cup outgoing[d])'
  BY <1>0, <1>1, <1>2, DeviceFiles DEF Ordered
<1>. QED
  BY <1>1, <1>3, <1>4, <1>5, <1>6 DEF Ordered, WellMade

(* The patch moved in first follows what is there already.                 *)
LEMMA PulledFirst ==
  ASSUME TypeOK, NEW d \in Devices, Ordered(d), NEW p \in FirstOf(pulls[d])
  PROVE  p \in Patches /\ p \in pulls[d] /\ Closed(ToApplyFiles(d) \cup {p}, Had(d))
<1>1. Closed(pulls[d], pulls[d] \cup Had(d)) /\ pulls[d] \in SUBSET Patches
  BY DeviceFiles DEF Ordered
<1>2. Closed({p}, Had(d)) /\ p \in pulls[d]
  BY <1>1, TakeFirst DEF FirstOf
<1>. QED
  BY <1>1, <1>2 DEF Closed, Ordered

(* Moving it in, or to the file that has its name, keeps the order.        *)
LEMMA MovedOrdered ==
  ASSUME IInv, [Next]_vars, NEW d \in Devices, MovePatchToApply(d), Ordered(d)
  PROVE  Ordered(d)'
<1>0. /\ TypeOK
      /\ \A A, B \in SUBSET Patches : \A C, D :
           Closed(A, B) /\ C \subseteq A /\ Covers(B, D) => Closed(C, D)'
  BY ClosedStep DEF IInv
<1>1. PICK p \in FirstOf(pulls[d]) :
        /\ \E q \in FiledAs(p, toApply[d] \cup arrived[d]) :
             toApply' = [toApply EXCEPT ![d] = toApply[d] \cup {q}]
        /\ arrived' = [arrived EXCEPT ![d] = Others(p, arrived[d])]
        /\ pulls' = [pulls EXCEPT ![d] = pulls[d] \ {p}]
  BY DEF MovePatchToApply
<1>2. PICK q \in FiledAs(p, toApply[d] \cup arrived[d]) :
        toApply' = [toApply EXCEPT ![d] = toApply[d] \cup {q}]
  BY <1>1
<1>3. (q = p \/ q \in toApply[d] \cup arrived[d]) /\ q.index = p.index /\ q.last = p.last
  BY <1>2, FiledMember
<1>4. /\ toApply'[d] = toApply[d] \cup {q} /\ arrived'[d] \subseteq arrived[d]
      /\ pulls'[d] = pulls[d] \ {p}
      /\ UNCHANGED <<outgoing, applied, unlisted, kept, batch, uploads, cloud>>
  BY <1>0, <1>1, <1>2 DEF MovePatchToApply, Others, TypeOK, FilesType, taskVars
<1>5. /\ ToApplyFiles(d) \cup {p} \in SUBSET Patches
      /\ Closed(ToApplyFiles(d) \cup {p}, Had(d))
  BY <1>0, <1>1, PulledFirst, DeviceFiles
<1>6. /\ Covers(Had(d), Had(d)') /\ Covers(pulls[d] \cup Had(d), pulls'[d] \cup Had(d)')
      /\ \A B : Covers(B, B)
  BY <1>3, <1>4 DEF Covers, Had
<1>7. Closed(ToApplyFiles(d), Had(d))'
  <2>1. ToApplyFiles(d)' \subseteq ToApplyFiles(d) \cup {p}
    BY <1>3, <1>4 DEF ToApplyFiles
  <2>. QED
    BY <1>0, <1>5, <1>6, <2>1, DeviceFiles
<1>8. Closed(pulls[d], pulls[d] \cup Had(d))'
  <2>1. pulls'[d] \subseteq pulls[d]
    BY <1>4
  <2>. QED
    BY <1>0, <1>6, <2>1, DeviceFiles DEF Ordered
<1>9. /\ Closed(outgoing[d], outgoing[d])' /\ Closed(Unlisted(d), outgoing[d])'
      /\ Closed(uploads[d], uploads[d] \cup cloud)'
  <2>1. Unlisted(d)' = Unlisted(d)
    BY <1>4 DEF Unlisted
  <2>2. /\ outgoing'[d] = outgoing[d] /\ uploads'[d] = uploads[d]
        /\ uploads'[d] \cup cloud' = uploads[d] \cup cloud
    BY <1>4
  <2>3. Closed(outgoing[d], outgoing[d])'
    BY <1>0, <1>6, <2>2, DeviceFiles DEF Ordered
  <2>4. Closed(Unlisted(d), outgoing[d])'
    BY <1>0, <1>6, <2>1, <2>2, DeviceFiles DEF Ordered
  <2>5. Closed(uploads[d], uploads[d] \cup cloud)'
    BY <1>0, <1>6, <2>2, DeviceFiles DEF Ordered
  <2>. QED
    BY <2>3, <2>4, <2>5
<1>10. Closed(batch[d], batch[d] \cup applied[d] \cup outgoing[d])'
  BY <1>0, <1>4, <1>6, DeviceFiles DEF Ordered
<1>11. (\A r \in applied[d] : WellMade(r))'
  BY <1>4 DEF Ordered, WellMade
<1>. QED
  BY <1>7, <1>8, <1>9, <1>10, <1>11 DEF Ordered

(* So does one that is moved in without being listed.                      *)
LEMMA ArrivedOrdered ==
  ASSUME IInv, [Next]_vars, NEW d \in Devices, ArriveThenFail(d), Ordered(d)
  PROVE  Ordered(d)'
<1>0. /\ TypeOK
      /\ \A A, B \in SUBSET Patches : \A C, D :
           Closed(A, B) /\ C \subseteq A /\ Covers(B, D) => Closed(C, D)'
  BY ClosedStep DEF IInv
<1>1. PICK p \in FirstOf(pulls[d]) : arrived' = [arrived EXCEPT ![d] = arrived[d] \cup {p}]
  BY DEF ArriveThenFail
<1>2. /\ arrived'[d] = arrived[d] \cup {p} /\ pulls'[d] = {} /\ uploads'[d] = {}
      /\ UNCHANGED <<outgoing, toApply, applied, unlisted, kept, batch, cloud>>
  BY <1>0, <1>1 DEF ArriveThenFail, CloudTaskEnds, TypeOK, FilesType, taskVars
<1>3. ToApplyFiles(d) \cup {p} \in SUBSET Patches /\ Closed(ToApplyFiles(d) \cup {p}, Had(d))
  BY <1>0, <1>1, PulledFirst, DeviceFiles
<1>4. \A B : Covers(B, B) /\ Closed({}, B)'
  BY DEF Covers, Closed
<1>5. /\ Had(d)' = Had(d) /\ Unlisted(d)' = Unlisted(d)
      /\ ToApplyFiles(d)' = ToApplyFiles(d) \cup {p}
  BY <1>2 DEF Had, Unlisted, ToApplyFiles
<1>6. Closed(ToApplyFiles(d), Had(d))'
  BY <1>0, <1>3, <1>4, <1>5, DeviceFiles
<1>7. outgoing'[d] = outgoing[d] /\ batch'[d] = batch[d] /\ applied'[d] = applied[d]
  BY <1>2
<1>8. Closed(outgoing[d], outgoing[d])'
  BY <1>0, <1>4, <1>7, DeviceFiles DEF Ordered
<1>9. Closed(Unlisted(d), outgoing[d])'
  BY <1>0, <1>4, <1>5, <1>7, DeviceFiles DEF Ordered
<1>10. Closed(batch[d], batch[d] \cup applied[d] \cup outgoing[d])'
  BY <1>0, <1>4, <1>7, DeviceFiles DEF Ordered
<1>11. (\A r \in applied[d] : WellMade(r))'
  BY <1>7 DEF Ordered, WellMade
<1>12. Closed(uploads[d], uploads[d] \cup cloud)' /\ Closed(pulls[d], pulls[d] \cup Had(d))'
  BY <1>2, <1>4
<1>. QED
  BY <1>6, <1>8, <1>9, <1>10, <1>11, <1>12 DEF Ordered

(* A patch of the batch that stays where it was to apply.                  *)
LEMMA KeptOrdered ==
  ASSUME IInv, [Next]_vars, NEW d \in Devices, StageThenFail(d), Ordered(d)
  PROVE  Ordered(d)'
<1>0. /\ TypeOK
      /\ \A A, B \in SUBSET Patches : \A C, D :
           Closed(A, B) /\ C \subseteq A /\ Covers(B, D) => Closed(C, D)'
  BY ClosedStep DEF IInv
<1>1. PICK p \in FirstOf(batch[d]) : kept' = [kept EXCEPT ![d] = kept[d] \cup {p}]
  BY DEF StageThenFail
<1>2. /\ kept'[d] = kept[d] \cup {p} /\ batch'[d] = {}
      /\ UNCHANGED <<outgoing, toApply, applied, unlisted, arrived, pulls, uploads, cloud>>
  BY <1>0, <1>1 DEF StageThenFail, TypeOK, FilesType, cloudVars
<1>3. Closed(ToApplyFiles(d) \cup {p}, Had(d)) /\ ToApplyFiles(d) \cup {p} \in SUBSET Patches
  <2>1. Closed(batch[d], batch[d] \cup (applied[d] \cup outgoing[d]))
    <3>1. batch[d] \cup applied[d] \cup outgoing[d] = batch[d] \cup (applied[d] \cup outgoing[d])
      OBVIOUS
    <3>. QED
      BY <3>1 DEF Ordered
  <2>2. batch[d] \in SUBSET Patches /\ p \in batch[d]
    BY <1>0, <1>1, DeviceFiles DEF FirstOf
  <2>3. Closed({p}, applied[d] \cup outgoing[d])
    BY <1>1, <2>1, <2>2, TakeFirst
  <2>4. Closed({p}, Had(d))
    BY <2>3 DEF Closed, Anchored, Had
  <2>. QED
    BY <1>0, <2>2, <2>4, DeviceFiles DEF Closed, Ordered
<1>4. \A B : Covers(B, B) /\ Closed({}, B)'
  BY DEF Covers, Closed
<1>5. /\ Had(d)' = Had(d) /\ Unlisted(d)' = Unlisted(d)
      /\ ToApplyFiles(d)' = ToApplyFiles(d) \cup {p}
  BY <1>2 DEF Had, Unlisted, ToApplyFiles
<1>6. Closed(ToApplyFiles(d), Had(d))' /\ Closed(pulls[d], pulls[d] \cup Had(d))'
  BY <1>0, <1>2, <1>3, <1>4, <1>5, DeviceFiles DEF Ordered
<1>7. /\ Closed(outgoing[d], outgoing[d])' /\ Closed(Unlisted(d), outgoing[d])'
      /\ Closed(uploads[d], uploads[d] \cup cloud)'
  BY <1>0, <1>2, <1>4, <1>5, DeviceFiles DEF Ordered
<1>. QED
  BY <1>2, <1>4, <1>6, <1>7 DEF Ordered, WellMade

(* A new patch that is filed and not listed follows those that are.        *)
LEMMA UnlistedOrdered ==
  ASSUME IInv, AncestryInv, OutgoingInv, [Next]_vars, NEW d \in Devices, MoveThenFail(d),
         Ordered(d)
  PROVE  Ordered(d)'
<1>0. /\ TypeOK
      /\ \A A, B \in SUBSET Patches : \A C, D :
           Closed(A, B) /\ C \subseteq A /\ Covers(B, D) => Closed(C, D)'
  BY ClosedStep DEF IInv
<1>1. /\ unlisted'[d] = unlisted[d] \cup {NewPatch(d)} /\ pc[d] = "bundle"
      /\ UNCHANGED <<outgoing, toApply, applied, arrived, kept, batch, pulls, uploads, cloud>>
  BY <1>0 DEF MoveThenFail, TypeOK, FilesType, cloudVars
<1>2. \A B : Covers(B, B)
  BY DEF Covers
<1>3. Had(d)' = Had(d) /\ ToApplyFiles(d)' = ToApplyFiles(d)
  BY <1>1 DEF Had, ToApplyFiles
<1>4. Closed(Unlisted(d), outgoing[d])'
  <2>1. /\ NewPatch(d) \in Patches /\ NewPatch(d).last \in NewPatch(d).content
        /\ Anchored(NewPatch(d), outgoing[d])
    BY <1>1, NewPatchFits, NewPatchType DEF IInv
  <2>2. CASE NewPatch(d).index < Radix
    <3>1. Closed(Unlisted(d) \cup {NewPatch(d)}, outgoing[d])
      BY <2>1, <2>2 DEF Ordered, Closed, WellMade
    <3>2. Unlisted(d)' \subseteq Unlisted(d) \cup {NewPatch(d)}
      BY <1>1 DEF Unlisted
    <3>3. Unlisted(d) \cup {NewPatch(d)} \in SUBSET Patches /\ outgoing[d] \in SUBSET Patches
      BY <1>0, <2>1, DeviceFiles
    <3>4. Covers(outgoing[d], outgoing'[d])
      BY <1>1, <1>2
    <3>. QED
      BY <1>0, <3>1, <3>2, <3>3, <3>4
  <2>3. CASE ~(NewPatch(d).index < Radix)
    <3>1. Unlisted(d)' = Unlisted(d)
      BY <1>1, <2>3 DEF Unlisted
    <3>. QED
      BY <1>0, <1>1, <1>2, <3>1, DeviceFiles DEF Ordered
  <2>. QED
    BY <2>2, <2>3
<1>5. Closed(ToApplyFiles(d), Had(d))' /\ Closed(pulls[d], pulls[d] \cup Had(d))'
  BY <1>0, <1>1, <1>2, <1>3, DeviceFiles DEF Ordered
<1>6. Closed(outgoing[d], outgoing[d])' /\ Closed(uploads[d], uploads[d] \cup cloud)'
  BY <1>0, <1>1, <1>2, DeviceFiles DEF Ordered
<1>7. Closed(batch[d], batch[d] \cup applied[d] \cup outgoing[d])'
  BY <1>0, <1>1, <1>2, DeviceFiles DEF Ordered
<1>. QED
  BY <1>1, <1>4, <1>5, <1>6, <1>7 DEF Ordered, WellMade

(* A restart lists every file, each of which follows those that were       *)
(* listed before.                                                          *)
LEMMA RestartOrdered ==
  ASSUME IInv, [Next]_vars, NEW d \in Devices, Crash(d), OneDigit', Ordered(d)
  PROVE  Ordered(d)'
<1>0. /\ TypeOK /\ TypeOK' /\ IndexInv'
      /\ \A A, B \in SUBSET Patches : \A C, D :
           Closed(A, B) /\ C \subseteq A /\ Covers(B, D) => Closed(C, D)'
  BY TypeStep, IndexStep, ClosedStep DEF IInv
<1>1. /\ outgoing'[d] = outgoing[d] \cup unlisted[d] /\ unlisted'[d] = {}
      /\ toApply'[d] = (toApply[d] \cup arrived[d]) \cup kept[d] /\ arrived'[d] = {}
      /\ applied'[d] = applied[d] \cup kept[d] /\ kept' = kept
      /\ batch'[d] = {} /\ pulls'[d] = {} /\ uploads'[d] = {} /\ cloud' = cloud
  BY <1>0 DEF Crash, CloudTaskEnds, TypeOK, FilesType
<1>2. unlisted[d] = Unlisted(d)
  <2>1. \A p \in outgoing'[d] : p.index \in Nat /\ p.index < nextIndex'[d]
    BY <1>0 DEF IndexInv, TypeOK, FilesType, Patches
  <2>2. nextIndex'[d] \in Nat /\ nextIndex'[d] <= Radix /\ Radix \in Nat
    BY <1>0, ConstantsAssumption DEF OneDigit, TypeOK, MemType
  <2>3. \A p \in unlisted[d] : p.index < Radix
    BY <1>1, <2>1, <2>2
  <2>. QED
    BY <2>3 DEF Unlisted
<1>3. Closed(outgoing[d], outgoing[d])'
  <2>1. Closed(outgoing[d] \cup Unlisted(d), outgoing[d])
    BY DEF Ordered, Closed
  <2>2. outgoing[d] \cup Unlisted(d) \in SUBSET Patches /\ outgoing[d] \in SUBSET Patches
    BY <1>0, DeviceFiles
  <2>3. Covers(outgoing[d], outgoing'[d])
    BY <1>1 DEF Covers
  <2>. QED
    BY <1>0, <1>1, <1>2, <2>1, <2>2, <2>3
<1>4. Closed(ToApplyFiles(d), Had(d))'
  <2>1. ToApplyFiles(d)' = ToApplyFiles(d)
    BY <1>1 DEF ToApplyFiles
  <2>2. Covers(Had(d), Had(d)')
    BY <1>1 DEF Covers, Had
  <2>. QED
    BY <1>0, <2>1, <2>2, DeviceFiles DEF Ordered
<1>5. \A B : Closed({}, B)'
  BY DEF Closed
<1>6. Unlisted(d)' = {}
  BY <1>1 DEF Unlisted
<1>7. \A p \in applied'[d] : WellMade(p)'
  <2>1. \A p \in applied[d] \cup kept[d] : WellMade(p)
    BY DEF Ordered, Closed, ToApplyFiles
  <2>. QED
    BY <1>1, <2>1 DEF WellMade
<1>. QED
  BY <1>1, <1>3, <1>4, <1>5, <1>6, <1>7 DEF Ordered

(* A file uploaded first, or whose copy has begun, follows what the cloud  *)
(* has.                                                                    *)
LEMMA UploadOrdered ==
  ASSUME IInv, [Next]_vars, NEW d \in Devices,
         UploadFile(d) \/ UploadBegins(d) \/ UploadEnds(d),
         Closed(cloud, cloud), \A e \in Devices : Ordered(e)
  PROVE  Closed(cloud, cloud)' /\ \A e \in Devices : Ordered(e)'
<1>0. TypeOK
  BY DEF IInv
<1>1. UNCHANGED <<diskVars, batch, pulls>>
  BY DEF UploadFile, UploadBegins, UploadEnds, Uploaded, taskVars
<1>2. \A p \in FirstOf(uploads[d]) : Closed({p}, cloud)
  <2>1. Closed(uploads[d], uploads[d] \cup cloud) /\ uploads[d] \in SUBSET Patches
    BY <1>0, DeviceFiles DEF Ordered
  <2>. QED
    BY <2>1, TakeFirst
<1>3. ASSUME NEW p \in Patches
      PROVE  /\ [p EXCEPT !.whole = FALSE] \in Patches
             /\ Closed({p}, cloud) <=> Closed({[p EXCEPT !.whole = FALSE]}, cloud)
  <2> DEFINE torn == [p EXCEPT !.whole = FALSE]
  <2>1. /\ torn \in Patches
        /\ torn.index = p.index /\ torn.last = p.last /\ torn.content = p.content
    BY DEF Patches
  <2> HIDE DEF torn
  <2>2. Bases(torn) = Bases(p)
    BY <2>1 DEF Bases
  <2>. QED
    BY <2>1, <2>2 DEF Closed, WellMade, Anchored, torn
<1>4. CASE UploadFile(d)
  <2>1. PICK p \in FirstOf(uploads[d]) :
          /\ uploads' = [uploads EXCEPT ![d] = uploads[d] \ {p}]
          /\ cloud' = {q \in cloud : Name(q) # Name(p)} \cup {p}
    BY <1>4 DEF UploadFile, Uploaded
  <2>2. p \in Patches /\ p \in uploads[d]
    BY <1>0, <2>1, DeviceFiles DEF FirstOf
  <2>. QED
    BY <1>1, <1>2, <2>1, <2>2, CloudGrows
<1>5. CASE UploadEnds(d)
  <2>1. PICK p \in uploads[d] :
          /\ [p EXCEPT !.whole = FALSE] \in cloud
          /\ uploads' = [uploads EXCEPT ![d] = uploads[d] \ {p}]
          /\ cloud' = {q \in cloud : Name(q) # Name(p)} \cup {p}
    BY <1>5 DEF UploadEnds, Uploaded
  <2>2. p \in Patches
    BY <1>0, <2>1, DeviceFiles
  <2>3. Closed({p}, cloud)
    BY <1>3, <2>1, <2>2 DEF Closed
  <2>. QED
    BY <1>1, <2>1, <2>2, <2>3, CloudGrows
<1>6. CASE UploadBegins(d)
  <2>1. PICK p \in FirstOf(uploads[d]) : cloud' = cloud \cup {[p EXCEPT !.whole = FALSE]}
    BY <1>6 DEF UploadBegins
  <2>2. p \in Patches /\ UNCHANGED uploads
    BY <1>0, <1>6, <2>1, DeviceFiles DEF FirstOf, UploadBegins
  <2>3. [p EXCEPT !.whole = FALSE] \in Patches /\ Closed({[p EXCEPT !.whole = FALSE]}, cloud)
    BY <1>2, <1>3, <2>1, <2>2
  <2>. QED
    BY <1>1, <2>1, <2>2, <2>3, CloudGrows
<1>. QED
  BY <1>4, <1>5, <1>6

(* No step puts a patch where those it follows are not.                    *)
LEMMA OrderStep ==
  ASSUME IInv, AncestryInv, OutgoingInv, OrderInv, [Next]_vars
  PROVE  OrderInv'
<1> SUFFICES ASSUME OneDigit'
             PROVE  Closed(cloud, cloud)' /\ \A e \in Devices : Ordered(e)'
  BY DEF OrderInv
<1>0. TypeOK /\ Closed(cloud, cloud) /\ \A e \in Devices : Ordered(e)
  <2>1. OneDigit
    BY IndexesGrow, ConstantsAssumption DEF OneDigit
  <2>. QED
    BY <2>1 DEF OrderInv, IInv
<1>1. ASSUME UNCHANGED cloud PROVE Closed(cloud, cloud)'
  <2>1. Covers(cloud, cloud) /\ cloud \in SUBSET Patches
    BY <1>0 DEF Covers, TypeOK, FilesType
  <2>. QED
    BY <1>0, <1>1, <2>1, ClosedStep
<1>2. CASE FilesKept
  BY <1>0, <1>1, <1>2, OrderedKept DEF FilesKept, diskVars
<1>3. ASSUME NEW d \in Devices,
             \/ MovePatchToOutgoing(d) \/ MoveThenFail(d) \/ ListPatchesToApply(d)
             \/ StagePatchAsApplied(d) \/ StageThenFail(d) \/ ListAndDownload(d)
             \/ MovePatchToApply(d) \/ ArriveThenFail(d) \/ Crash(d)
      PROVE  Closed(cloud, cloud)' /\ \A e \in Devices : Ordered(e)'
  <2>1. /\ UNCHANGED cloud
        /\ \A e \in Devices : e # d =>
             UNCHANGED <<outgoing[e], toApply[e], applied[e], unlisted[e], arrived[e], kept[e],
                         batch[e], pulls[e], uploads[e]>>
    <3> USE DEF TypeOK, FilesType, diskVars, taskVars, cloudVars
    <3>1. CASE MovePatchToOutgoing(d)
      BY <1>0, <3>1 DEF MovePatchToOutgoing
    <3>2. CASE ListPatchesToApply(d)
      BY <1>0, <3>2 DEF ListPatchesToApply
    <3>3. CASE StagePatchAsApplied(d)
      BY <1>0, <3>3 DEF StagePatchAsApplied
    <3>4. CASE ListAndDownload(d)
      BY <1>0, <3>4 DEF ListAndDownload
    <3>5. CASE MovePatchToApply(d)
      BY <1>0, <3>5 DEF MovePatchToApply
    <3>6. CASE MoveThenFail(d) \/ StageThenFail(d)
      BY <1>0, <3>6 DEF MoveThenFail, StageThenFail
    <3>7. CASE ArriveThenFail(d)
      BY <1>0, <3>7 DEF ArriveThenFail, CloudTaskEnds
    <3>8. CASE Crash(d)
      BY <1>0, <3>8 DEF Crash, CloudTaskEnds
    <3>. QED
      BY <1>3, <3>1, <3>2, <3>3, <3>4, <3>5, <3>6, <3>7, <3>8
  <2>2. \A e \in Devices : e # d => Ordered(e)'
    BY <1>0, <2>1, OrderedKept
  <2>3. Ordered(d)'
    BY <1>0, <1>3, OutgoingOrdered, UnlistedOrdered, BatchOrdered, StageOrdered, KeptOrdered,
       ListedOrdered, MovedOrdered, ArrivedOrdered, RestartOrdered
  <2>. QED
    BY <1>1, <2>1, <2>2, <2>3
<1>4. ASSUME NEW d \in Devices, UploadFile(d) \/ UploadBegins(d) \/ UploadEnds(d)
      PROVE  Closed(cloud, cloud)' /\ \A e \in Devices : Ordered(e)'
  BY <1>0, <1>4, UploadOrdered
<1>. QED
  BY <1>0, <1>2, <1>3, <1>4, FileSteps

(* Every patch takes an edit of its own.                                   *)
LEMMA EditsStep ==
  ASSUME IInv, EditsInv, [Next]_vars
  PROVE  EditsInv'
<1> USE DEF TypeOK, StoreType, TaskType, MemType, Goto, hgVars, taskVars, memVars, boundVars
<1>0. TypeOK /\ IndexInv
  BY DEF IInv
<1> DEFINE Rest(e) == nextIndex[e] + One(pc[e] = "bundle") + One(dirty[e] \/ pc[e] = "commit")
<1>1. SUFFICES ASSUME NEW e \in Devices PROVE Spent(e)' <= edits' + 1
  BY DEF EditsInv
<1>2. /\ \A b : One(b) \in {0, 1} /\ nextIndex[e] \in Nat /\ edits \in Nat
      /\ \A p \in outgoing[e] \cup unlisted[e] : p.index \in Nat
  BY <1>0, ConstantsAssumption DEF One, FilesType, Patches
<1>3. Rest(e) + One(Waiting(e)) <= edits + 1
  BY <1>2 DEF EditsInv, Spent
<1>4. ASSUME Rest(e)' <= Rest(e) + (edits' - edits), edits' \in Nat, nextIndex'[e] \in Nat,
             UNCHANGED <<unlisted, nextIndex>>
      PROVE  Spent(e)' <= edits' + 1
  <2>1. One(Waiting(e))' = One(Waiting(e)) /\ \A b : One(b)' = One(b)
    BY <1>4 DEF Waiting, One
  <2>. QED
    BY <1>2, <1>3, <1>4, <2>1 DEF Spent
<1>5. ASSUME NEW d \in Devices, MovePatchToOutgoing(d) PROVE Spent(e)' <= edits' + 1
  <2>1. /\ pc[d] = "bundle" /\ pc' = [pc EXCEPT ![d] = "list"] /\ UNCHANGED <<dirty, edits>>
        /\ nextIndex' = [nextIndex EXCEPT ![d] = nextIndex[d] + 1]
        /\ unlisted' = [unlisted EXCEPT ![d] = Others(NewPatch(d), unlisted[d])]
    BY <1>5 DEF MovePatchToOutgoing
  <2>2. CASE e = d
    <3>1. nextIndex'[e] = nextIndex[e] + 1 /\ unlisted'[e] \subseteq unlisted[e]
      BY <1>0, <2>1, <2>2 DEF FilesType, Others
    <3>2. ~Waiting(e)'
      BY <1>0, <1>2, <3>1 DEF Waiting, IndexInv
    <3>3. /\ One(Waiting(e))' = 0 /\ One(pc[e] = "bundle") = 1 /\ One(pc[e] = "bundle")' = 0
          /\ One(dirty[e] \/ pc[e] = "commit")' <= One(dirty[e] \/ pc[e] = "commit")
      BY <1>0, <2>1, <2>2, <3>2 DEF One
    <3>4. One(dirty[e] \/ pc[e] = "commit")' \in {0, 1}
      BY DEF One
    <3>. QED
      BY <1>2, <1>3, <2>1, <3>1, <3>3, <3>4 DEF Spent
  <2>3. CASE e # d
    <3>1. /\ nextIndex'[e] = nextIndex[e] /\ unlisted'[e] = unlisted[e] /\ pc'[e] = pc[e]
          /\ dirty'[e] = dirty[e]
      BY <1>0, <2>1, <2>3 DEF FilesType
    <3>. QED
      BY <1>2, <1>3, <2>1, <3>1 DEF Spent, Waiting, One
  <2>. QED
    BY <2>2, <2>3
<1>6. ASSUME NEW d \in Devices, MoveThenFail(d) PROVE Spent(e)' <= edits' + 1
  <2>1. /\ pc[d] = "bundle" /\ pc' = [pc EXCEPT ![d] = "idle"]
        /\ UNCHANGED <<dirty, edits, nextIndex>>
        /\ unlisted' = [unlisted EXCEPT ![d] = unlisted[d] \cup {NewPatch(d)}]
    BY <1>6 DEF MoveThenFail
  <2>2. CASE e = d
    <3>1. /\ One(pc[e] = "bundle") = 1 /\ One(pc[e] = "bundle")' = 0
          /\ One(dirty[e] \/ pc[e] = "commit")' <= One(dirty[e] \/ pc[e] = "commit")
      BY <1>0, <2>1, <2>2 DEF One
    <3>2. One(dirty[e] \/ pc[e] = "commit")' \in {0, 1} /\ One(Waiting(e))' \in {0, 1}
      BY DEF One
    <3>. QED
      BY <1>2, <1>3, <2>1, <3>1, <3>2 DEF Spent
  <2>3. CASE e # d
    <3>1. unlisted'[e] = unlisted[e] /\ pc'[e] = pc[e]
      BY <1>0, <2>1, <2>3 DEF FilesType
    <3>. QED
      BY <1>2, <1>3, <2>1, <3>1 DEF Spent, Waiting, One
  <2>. QED
    BY <2>2, <2>3
<1>7. ASSUME NEW d \in Devices, Crash(d) PROVE Spent(e)' <= edits' + 1
  <2>1. PICK start \in Loaded(outgoing[d] \cup unlisted[d]) :
          nextIndex' = [nextIndex EXCEPT ![d] = start[1]]
    BY <1>7 DEF Crash
  <2>2. /\ pc' = [pc EXCEPT ![d] = "idle"] /\ UNCHANGED <<dirty, edits>>
        /\ unlisted' = [unlisted EXCEPT ![d] = {}]
    BY <1>7 DEF Crash
  <2>3. CASE e = d
    <3>1. nextIndex'[e] = start[1] /\ unlisted'[e] = {} /\ pc'[e] = "idle"
      BY <1>0, <2>1, <2>2, <2>3 DEF FilesType
    <3>2. start[1] \in Nat /\ start[1] <= nextIndex[e] + One(Waiting(e))
      <4>1. CASE outgoing[e] \cup unlisted[e] = {}
        <5>0. start \in Loaded({})
          BY <2>1, <2>3, <4>1
        <5>1. start[1] = 1
          BY <5>0, LoadedFrom
        <5>2. nextIndex[e] \in Nat \ {0} /\ One(Waiting(e)) \in {0, 1}
          BY <1>0, <1>2
        <5>. QED
          BY <5>1, <5>2
      <4>2. CASE outgoing[e] \cup unlisted[e] # {}
        <5>1. PICK p \in outgoing[e] \cup unlisted[e] : start = <<p.index + 1, p.last>>
          BY <2>1, <2>3, <4>2, LoadedFrom
        <5>2. start[1] = p.index + 1 /\ p.index \in Nat
          BY <1>2, <5>1
        <5>3. CASE p.index = nextIndex[e] /\ p \in unlisted[e]
          <6>1. One(Waiting(e)) = 1
            BY <5>3 DEF One, Waiting
          <6>. QED
            BY <1>2, <5>2, <5>3, <6>1
        <5>4. CASE p.index < nextIndex[e]
          BY <1>2, <5>2, <5>4
        <5>. QED
          BY <1>0, <1>2, <5>2, <5>3, <5>4 DEF IndexInv
      <4>. QED
        BY <4>1, <4>2
    <3>3. ~Waiting(e)'
      BY <3>1 DEF Waiting
    <3>4. /\ One(Waiting(e))' = 0 /\ One(pc[e] = "bundle")' = 0
          /\ One(dirty[e] \/ pc[e] = "commit")' <= One(dirty[e] \/ pc[e] = "commit")
          /\ One(dirty[e] \/ pc[e] = "commit")' \in {0, 1}
      BY <2>2, <3>1, <3>3 DEF One
    <3>. QED
      BY <1>2, <1>3, <2>2, <3>1, <3>2, <3>4 DEF Spent
  <2>4. CASE e # d
    <3>1. nextIndex'[e] = nextIndex[e] /\ unlisted'[e] = unlisted[e] /\ pc'[e] = pc[e]
      BY <1>0, <2>1, <2>2, <2>4 DEF FilesType
    <3>. QED
      BY <1>2, <1>3, <2>2, <3>1 DEF Spent, Waiting, One
  <2>. QED
    BY <2>3, <2>4
<1>8. ASSUME UNCHANGED <<outgoing, unlisted, nextIndex, lastOutgoing>> PROVE Spent(e)' <= edits' + 1
  <2>0. nextIndex'[e] \in Nat
    BY <1>2, <1>8
  <2>1. ASSUME NEW d \in Devices, Edit(d)
        PROVE  Rest(e)' <= Rest(e) + (edits' - edits) /\ edits' \in Nat
    <3>1. edits' = edits + 1 /\ UNCHANGED <<pc, nextIndex>>
      BY <1>0, <2>1 DEF Edit
    <3>2. One(pc[e] = "bundle")' = One(pc[e] = "bundle")
      BY <3>1 DEF One
    <3>3. One(dirty[e] \/ pc[e] = "commit")' \in {0, 1}
      BY DEF One
    <3>. QED
      BY <1>2, <3>1, <3>2, <3>3
  <2>2. ASSUME NEW d \in Devices,
               \/ Revert(d) \/ CheckLocal(d) \/ CheckRemotes(d) \/ CheckLocalState(d)
        PROVE  Rest(e)' <= Rest(e) + (edits' - edits) /\ edits' \in Nat
    BY <1>0, <1>2, <2>2 DEF Revert, CheckLocal, CheckRemotes, CheckLocalState, One
  <2>3. ASSUME NEW d \in Devices, AddFolder(d)
        PROVE  Rest(e)' <= Rest(e) + (edits' - edits) /\ edits' \in Nat
    <3>1. /\ pc' = [pc EXCEPT ![d] = "idle"] /\ dirty' = [dirty EXCEPT ![d] = FALSE]
          /\ UNCHANGED <<nextIndex, edits>>
      BY <2>3 DEF AddFolder, CommitAll
    <3>. QED
      BY <1>0, <1>2, <3>1 DEF One
  <2>4. ASSUME NEW d \in Devices, PrepareCommit(d) \/ ListPatchesToApply(d) \/ ApplyCommit(d)
        PROVE  Rest(e)' <= Rest(e) + (edits' - edits) /\ edits' \in Nat
    BY <1>0, <1>2, <2>4 DEF PrepareCommit, ListPatchesToApply, ApplyCommit, CommitAll, One
  <2>5. ASSUME NEW d \in Devices,
               \/ Unbundle(d) \/ UnbundleFails(d) \/ Update(d) \/ StagePatchAsApplied(d)
               \/ NotifyIncoming(d)
        PROVE  Rest(e)' <= Rest(e) + (edits' - edits) /\ edits' \in Nat
    <3>1. pc'[e] = pc[e] \/ pc'[e] \notin {"bundle", "commit"}
      BY <1>0, <2>5 DEF Unbundle, UnbundleFails, Update, StagePatchAsApplied, NotifyIncoming
    <3>2. UNCHANGED <<dirty, nextIndex, edits>>
      BY <2>5 DEF Unbundle, UnbundleFails, Update, StagePatchAsApplied, NotifyIncoming
    <3>. QED
      BY <1>0, <1>2, <3>1, <3>2 DEF One
  <2>6. ASSUME NEW d \in Devices, (CloudTask(d) /\ ~NotifyIncoming(d)) \/ CloudFails(d)
                                    \/ ArriveThenFail(d)
        PROVE  Rest(e)' <= Rest(e) + (edits' - edits) /\ edits' \in Nat
    <3>1. UNCHANGED <<pc, dirty, nextIndex, edits>>
      BY <2>6 DEF CloudTask, ListAndDownload, MovePatchToApply, UploadFile, Uploaded,
        UploadBegins, UploadEnds, CloudFails, ArriveThenFail
    <3>. QED
      BY <1>2, <3>1 DEF One
  <2>7. ASSUME NEW d \in Devices,
               \/ HgFails(d) \/ CommitThenFail(d) \/ UpdateThenFail(d) \/ SummaryFatal(d)
               \/ StageFails(d) \/ StageThenFail(d)
        PROVE  Rest(e)' <= Rest(e) + (edits' - edits) /\ edits' \in Nat
    <3>1. /\ \E where \in {"idle", "list"} : pc' = [pc EXCEPT ![d] = where]
          /\ UNCHANGED dirty \/ dirty' = [dirty EXCEPT ![d] = FALSE]
          /\ UNCHANGED <<nextIndex, edits>>
      BY <2>7 DEF HgFails, CommitThenFail, UpdateThenFail, Failing, SummaryFatal, StageFails,
        StageThenFail, CommitAll
    <3>. QED
      BY <1>0, <1>2, <3>1 DEF One
  <2>8. ASSUME NEW d \in Devices, MovePatchToOutgoing(d) \/ MoveThenFail(d) \/ Crash(d)
        PROVE  Spent(e)' <= edits' + 1
    BY <1>5, <1>6, <1>7, <2>8
  <2>9. CASE UNCHANGED vars
    <3>1. Rest(e)' <= Rest(e) + (edits' - edits) /\ edits' \in Nat
      BY <1>2, <2>9 DEF vars, One
    <3>. QED
      BY <1>4, <1>8, <2>0, <3>1
  <2>. QED
    BY <1>4, <1>8, <2>0, <2>1, <2>2, <2>3, <2>4, <2>5, <2>6, <2>7, <2>8, <2>9
    DEF Next, FolderTask, CloudTask, Failures
<1>. QED
  BY <1>5, <1>6, <1>7, <1>8, OutgoingSteps

-----------------------------------------------------------------------------
(* The changesets of a patch are those that some device has bundled.       *)
Genuine(p) == \E e \in Devices : p.content \subseteq Bundled(e)

(* No file in any list is of another origin.                               *)
OriginInv ==
  /\ \A p \in cloud : Genuine(p)
  /\ \A d \in Devices :
       \A p \in uploads[d] \cup pulls[d] \cup ToApplyFiles(d) \cup batch[d] : Genuine(p)

(* What is bundled stays bundled.                                          *)
LEMMA BundledGrows ==
  ASSUME TypeOK, [Next]_vars
  PROVE  \A p : Genuine(p) => Genuine(p)'
<1>1. \A e \in Devices : outgoing[e] \subseteq outgoing'[e]
  BY FilesSteps
<1>2. \A e \in Devices : Bundled(e) \subseteq Bundled(e)'
  BY <1>1 DEF Bundled
<1>. QED
  BY <1>2 DEF Genuine

(* A patch in the outgoing directory is genuine.                           *)
LEMMA OutgoingGenuine ==
  ASSUME NEW e \in Devices, NEW p \in outgoing[e]
  PROVE  Genuine(p)
<1>1. p.content \subseteq UNION {q.content : q \in outgoing[e]}
  OBVIOUS
<1>. QED
  BY <1>1 DEF Genuine, Bundled

(* Files are listed, moved and copied, never made up: a torn copy holds    *)
(* nothing else.                                                           *)
LEMMA OriginStep ==
  ASSUME IInv, OriginInv, [Next]_vars
  PROVE  OriginInv'
<1>0. TypeOK /\ \A p : Genuine(p) => Genuine(p)'
  BY BundledGrows DEF IInv
<1> USE DEF TypeOK, FilesType, ToApplyFiles, diskVars, taskVars, cloudVars
<1>1. CASE FilesKept
  BY <1>0, <1>1 DEF FilesKept, OriginInv
<1>2. ASSUME NEW d \in Devices, MovePatchToOutgoing(d) \/ MoveThenFail(d) PROVE OriginInv'
  BY <1>0, <1>2 DEF MovePatchToOutgoing, MoveThenFail, OriginInv
<1>3. ASSUME NEW d \in Devices, ListPatchesToApply(d) PROVE OriginInv'
  BY <1>0, <1>3 DEF ListPatchesToApply, OriginInv
<1>4. ASSUME NEW d \in Devices, StagePatchAsApplied(d) PROVE OriginInv'
  <2>1. /\ \A e \in Devices : toApply'[e] \subseteq toApply[e] /\ batch'[e] \subseteq batch[e]
        /\ UNCHANGED <<arrived, kept, uploads, pulls, cloud>>
    BY <1>0, <1>4 DEF StagePatchAsApplied, Others
  <2>. QED
    BY <1>0, <2>1 DEF OriginInv
<1>5. ASSUME NEW d \in Devices, ListAndDownload(d) PROVE OriginInv'
  BY <1>0, <1>5, OutgoingGenuine DEF ListAndDownload, Missing, OriginInv
<1>6. ASSUME NEW d \in Devices, MovePatchToApply(d) PROVE OriginInv'
  <2>1. PICK p \in pulls[d] : \E q \in FiledAs(p, toApply[d] \cup arrived[d]) :
          toApply' = [toApply EXCEPT ![d] = toApply[d] \cup {q}]
    BY <1>6 DEF MovePatchToApply, FirstOf
  <2>2. PICK q : /\ q = p \/ q \in toApply[d] \cup arrived[d]
                 /\ toApply' = [toApply EXCEPT ![d] = toApply[d] \cup {q}]
    BY <2>1, FiledMember
  <2>3. Genuine(q)
    BY <2>1, <2>2 DEF OriginInv
  <2>4. /\ \A e \in Devices : arrived'[e] \subseteq arrived[e] /\ pulls'[e] \subseteq pulls[e]
        /\ UNCHANGED <<batch, kept, uploads, cloud>>
    BY <1>0, <1>6 DEF MovePatchToApply, Others
  <2>5. \A e \in Devices : \A r \in toApply'[e] : r \in toApply[e] \/ r = q
    BY <1>0, <2>2
  <2>. QED
    BY <1>0, <2>3, <2>4, <2>5 DEF OriginInv
<1>7. ASSUME NEW d \in Devices, UploadFile(d) \/ UploadEnds(d) PROVE OriginInv'
  <2>1. PICK p \in uploads[d] : /\ uploads' = [uploads EXCEPT ![d] = uploads[d] \ {p}]
                               /\ cloud' = {q \in cloud : Name(q) # Name(p)} \cup {p}
    BY <1>7 DEF UploadFile, UploadEnds, Uploaded, FirstOf
  <2>2. UNCHANGED <<pulls, toApply, arrived, kept, batch>>
    BY <1>7 DEF UploadFile, UploadEnds, Uploaded
  <2>3. \A q \in cloud' : Genuine(q)
    BY <1>0, <2>1 DEF OriginInv
  <2>4. \A e \in Devices : uploads'[e] \subseteq uploads[e]
    BY <1>0, <2>1
  <2>. QED
    BY <1>0, <2>2, <2>3, <2>4 DEF OriginInv
<1>8. ASSUME NEW d \in Devices, UploadBegins(d) PROVE OriginInv'
  <2>1. PICK p \in uploads[d] : cloud' = cloud \cup {[p EXCEPT !.whole = FALSE]}
    BY <1>8 DEF UploadBegins, FirstOf
  <2>2. p \in Patches /\ Genuine(p)
    BY <1>0, <2>1 DEF OriginInv
  <2>3. [p EXCEPT !.whole = FALSE].content = p.content
    BY <2>2 DEF Patches
  <2>4. Genuine([p EXCEPT !.whole = FALSE])
    BY <2>2, <2>3 DEF Genuine
  <2>. QED
    BY <1>0, <1>8, <2>1, <2>4 DEF UploadBegins, OriginInv
<1>9. ASSUME NEW d \in Devices, StageThenFail(d) PROVE OriginInv'
  <2>1. PICK p \in batch[d] : kept' = [kept EXCEPT ![d] = kept[d] \cup {p}]
    BY <1>9 DEF StageThenFail, FirstOf
  <2>2. /\ UNCHANGED <<toApply, arrived, uploads, pulls, cloud>>
        /\ batch' = [batch EXCEPT ![d] = {}]
    BY <1>9 DEF StageThenFail
  <2>3. \A e \in Devices : /\ kept'[e] \subseteq kept[e] \cup {p}
                            /\ batch'[e] \subseteq batch[e]
    BY <1>0, <2>1, <2>2
  <2>4. Genuine(p)
    BY <2>1 DEF OriginInv
  <2>. QED
    BY <1>0, <2>2, <2>3, <2>4 DEF OriginInv
<1>10. ASSUME NEW d \in Devices, ArriveThenFail(d) PROVE OriginInv'
  <2>1. PICK p \in pulls[d] : arrived' = [arrived EXCEPT ![d] = arrived[d] \cup {p}]
    BY <1>10 DEF ArriveThenFail, FirstOf
  <2>2. /\ UNCHANGED <<toApply, kept, batch, cloud>>
        /\ pulls' = [pulls EXCEPT ![d] = {}] /\ uploads' = [uploads EXCEPT ![d] = {}]
    BY <1>10 DEF ArriveThenFail, CloudTaskEnds
  <2>3. \A e \in Devices : /\ arrived'[e] \subseteq arrived[e] \cup {p}
                            /\ pulls'[e] \subseteq pulls[e] /\ uploads'[e] \subseteq uploads[e]
    BY <1>0, <2>1, <2>2
  <2>4. Genuine(p)
    BY <2>1 DEF OriginInv
  <2>. QED
    BY <1>0, <2>2, <2>3, <2>4 DEF OriginInv
<1>11. ASSUME NEW d \in Devices, Crash(d) PROVE OriginInv'
  <2>1. /\ UNCHANGED <<kept, cloud>>
        /\ toApply' = [toApply EXCEPT ![d] = toApply[d] \cup arrived[d] \cup kept[d]]
        /\ arrived' = [arrived EXCEPT ![d] = {}] /\ batch' = [batch EXCEPT ![d] = {}]
        /\ pulls' = [pulls EXCEPT ![d] = {}] /\ uploads' = [uploads EXCEPT ![d] = {}]
    BY <1>11 DEF Crash, CloudTaskEnds
  <2>2. \A e \in Devices :
          /\ toApply'[e] \cup arrived'[e] \cup kept'[e]
               \subseteq toApply[e] \cup arrived[e] \cup kept[e]
          /\ batch'[e] \subseteq batch[e] /\ pulls'[e] \subseteq pulls[e]
          /\ uploads'[e] \subseteq uploads[e]
    BY <1>0, <2>1
  <2>. QED
    BY <1>0, <2>1, <2>2 DEF OriginInv
<1>. QED
  BY <1>0, <1>1, <1>2, <1>3, <1>4, <1>5, <1>6, <1>7, <1>8, <1>9, <1>10, <1>11, FileSteps

-----------------------------------------------------------------------------
(* The inductive invariant of where patch files are.                       *)
FilesInv ==
  IInv /\ AncestryInv /\ OutgoingInv /\ TodoInv /\ OriginInv /\ OrderInv

LEMMA FilesInvariance == Spec => []FilesInv
<1>1. Init => AncestryInv /\ OutgoingInv /\ TodoInv /\ OriginInv /\ OrderInv
  BY DEF Init, AncestryInv, Commits, OutgoingInv, OutgoingFiles, NoCommit, TodoInv, OriginInv,
    OrderInv, Closed, Ordered, Unlisted, ToApplyFiles
<1>2. FilesInv /\ [Next]_vars => FilesInv'
  <2> SUFFICES ASSUME FilesInv, [Next]_vars PROVE FilesInv'
    OBVIOUS
  <2>1. IInv'
    BY TypeStep, StoreStep, BaseStep, IndexStep, CoverStep, ApplyStep, TurnsStep
    DEF FilesInv, IInv
  <2>2. TypeOK
    BY DEF FilesInv, IInv
  <2>. QED
    BY <2>1, <2>2, AncestryStep, OutgoingStep, TodoStep, OriginStep, OrderStep DEF FilesInv
<1>. QED
  BY InitIInv, <1>1, <1>2, PTL DEF Spec, FilesInv

(* While no device has made more patches than there are digits, hg finds   *)
(* every parent it needs in the store, whichever patch of those left comes *)
(* first: every patch in the batch follows one that is in the store or in  *)
(* the batch under a smaller index.                                        *)
THEOREM OrderHoldsForOneDigit == Spec => [](OneDigit => OrderDoesNotMatter)
<1>1. FilesInv /\ OneDigit => OrderDoesNotMatter
  <2> SUFFICES ASSUME FilesInv, OneDigit, NEW d \in Devices, pc[d] = "unbundle",
                      NEW p \in FirstOf(todo[d])
               PROVE  Bases(p) \subseteq repo[d]
    BY DEF OrderDoesNotMatter
  <2>0. TypeOK /\ StoreInv /\ ApplyInv /\ Ordered(d)
    BY DEF FilesInv, IInv, OrderInv
  <2> DEFINE here == (batch[d] \ todo[d]) \cup applied[d] \cup outgoing[d]
  <2>1. Closed(todo[d], todo[d] \cup here)
    <3>1. todo[d] \subseteq batch[d]
      BY DEF FilesInv, TodoInv
    <3>2. todo[d] \cup here = batch[d] \cup applied[d] \cup outgoing[d]
      BY <3>1
    <3>. QED
      BY <2>0, <3>1, <3>2 DEF Ordered, Closed
  <2>2. \A q \in here : q.last \in repo[d]
    <3>1. ASSUME NEW q \in here PROVE q.last \in q.content
      BY <2>0 DEF Ordered, Closed, WellMade
    <3>2. ASSUME NEW q \in here PROVE q.content \subseteq repo[d]
      BY <2>0 DEF ApplyInv, InStore, AppliedIsInStore, FilesInv, OutgoingInv, OutgoingFiles
    <3>. QED
      BY <3>1, <3>2
  <2>3. \A q \in here : history[q.last] \subseteq repo[d]
    BY <2>0, <2>2 DEF StoreInv
  <2> HIDE DEF here
  <2>4. Closed({p}, here)
    <3>1. todo[d] \in SUBSET Patches
      BY <2>0 DEF TypeOK, FilesType
    <3>. QED
      BY <2>1, <3>1, TakeFirst
  <2>. QED
    BY <2>3, <2>4 DEF Closed, Anchored
<1>. QED
  BY FilesInvariance, <1>1, PTL

(* Every patch takes an edit: with fewer edits than the radix the order    *)
(* never matters, on any number of devices, whatever fails.                *)
THEOREM OrderNeverMatters == ASSUME MaxEdits < Radix PROVE Spec => []OrderDoesNotMatter
<1>1. Spec => []EditsInv
  <2>1. Init => EditsInv
    BY DEF Init, EditsInv, Spent, Waiting, One
  <2>2. IInv /\ EditsInv /\ [Next]_vars => EditsInv'
    BY EditsStep
  <2>. QED
    BY <2>1, <2>2, Invariance, PTL DEF Spec
<1>2. TypeOK /\ EditsInv => OneDigit
  <2>1. \A b : One(b) \in {0, 1}
    BY DEF One
  <2>. QED
    BY <2>1, ConstantsAssumption DEF EditsInv, Spent, OneDigit, TypeOK, TaskType, MemType
<1>. QED
  BY <1>1, <1>2, TypeCorrect, OrderHoldsForOneDigit, PTL

-----------------------------------------------------------------------------
(* A device has what it has bundled, with every ancestor.                  *)
BundledInv ==
  \A d \in Devices :
    /\ Bundled(d) \subseteq repo[d]
    /\ \A c \in Bundled(d) : history[c] \subseteq Bundled(d)

(* What a listed file relies on is in it or in the others.                 *)
LEMMA BundledClosed == Spec => []BundledInv
<1>1. FilesInv => BundledInv
  <2> SUFFICES ASSUME FilesInv, NEW d \in Devices, NEW c \in Bundled(d)
               PROVE  c \in repo[d] /\ history[c] \subseteq Bundled(d)
    BY DEF BundledInv
  <2>0. CoverInv /\ OutgoingInv
    BY DEF FilesInv, IInv
  <2>1. PICK p \in outgoing[d] : c \in p.content
    BY DEF Bundled
  <2>2. c \in repo[d]
    BY <2>0, <2>1 DEF OutgoingInv, OutgoingFiles
  <2>3. history[c] \subseteq p.content \cup Bases(p)
    <3>1. history[c] \subseteq UNION {history[b] : b \in p.content}
      BY <2>1
    <3>. QED
      BY <3>1 DEF Bases
  <2>4. p.content \cup Bases(p) \subseteq p.content \cup PublishedUpTo(d, p)
    BY <2>0, <2>1 DEF CoverInv, OutgoingFiles, Complete
  <2>5. p.content \cup PublishedUpTo(d, p) \subseteq Bundled(d)
    BY <2>1, PublishedMember DEF Bundled
  <2>. QED
    BY <2>2, <2>3, <2>4, <2>5
<1>. QED
  BY FilesInvariance, <1>1, PTL

(* A new bundle, and a restart that finds one, give more of the store.     *)
LEMMA BundlePublishes ==
  ASSUME TypeOK, BundledInv', [Next]_vars, NEW d \in Devices, MovePatchToOutgoing(d) \/ Crash(d)
  PROVE  Exchange!Publish(d)
<1>1. /\ UNCHANGED <<made, history, repo>>
      /\ \A e \in Devices : e # d => outgoing'[e] = outgoing[e]
  BY DEF MovePatchToOutgoing, Crash, hgVars, TypeOK, FilesType
<1>2. \A e \in Devices : e # d => Bundled(e)' = Bundled(e)
  BY <1>1 DEF Bundled
<1>3. Bundled(d) \subseteq Bundled(d)'
  <2>1. outgoing[d] \subseteq outgoing'[d]
    BY FilesSteps
  <2>. QED
    BY <2>1 DEF Bundled
<1>4. PICK some : some = Bundled(d)'
  OBVIOUS
<1>5. some \in SUBSET repo[d] /\ \A c \in some : history[c] \subseteq some
  BY <1>1, <1>4 DEF BundledInv
<1>6. [e \in Devices |-> Bundled(e)]' = [[e \in Devices |-> Bundled(e)] EXCEPT ![d] = some]
  BY <1>2, <1>4
<1>7. [e \in Devices |-> Bundled(e)][d] \subseteq some
  BY <1>3, <1>4
<1>. QED
  BY <1>1, <1>5, <1>6, <1>7 DEF Exchange!Publish

(* Unbundled are some changesets of one device, with their ancestors.      *)
LEMMA UnbundleReceives ==
  ASSUME FilesInv, [Next]_vars, NEW d \in Devices, Unbundle(d), UNCHANGED outgoing
  PROVE  \E e \in Devices : Exchange!Receive(d, e)
<1>0. TypeOK /\ StoreInv /\ TodoInv /\ OriginInv
  BY DEF FilesInv, IInv
<1>1. PICK p \in todo[d] :
        /\ Bases(p) \subseteq repo[d] /\ repo' = [repo EXCEPT ![d] = repo[d] \cup p.content]
        /\ pc[d] = "unbundle" /\ UNCHANGED <<made, history>>
  BY DEF Unbundle, Fits, FirstOf
<1>2. PICK e \in Devices : p.content \subseteq Bundled(e)
  BY <1>0, <1>1 DEF TodoInv, OriginInv, Genuine
<1>3. \A c \in p.content : history[c] \subseteq repo[d] \cup p.content
  <2>1. \A c \in p.content : history[c] \subseteq UNION {history[b] : b \in p.content}
    OBVIOUS
  <2>2. UNION {history[b] : b \in p.content} \subseteq p.content \cup Bases(p)
    BY DEF Bases
  <2>. QED
    BY <1>1, <2>1, <2>2
<1>4. [b \in Devices |-> Bundled(b)]' = [b \in Devices |-> Bundled(b)]
  BY DEF Bundled
<1>5. p.content \in SUBSET [b \in Devices |-> Bundled(b)][e]
  BY <1>2
<1>6. Exchange!Receive(d, e)
  BY <1>1, <1>3, <1>4, <1>5 DEF Exchange!Receive
<1>. QED
  BY <1>6

(* Every step makes a changeset, publishes or receives some, or leaves all *)
(* of this alone.                                                          *)
LEMMA ExchangeStep ==
  ASSUME FilesInv, BundledInv', [Next]_vars
  PROVE  [Exchange!Next]_<<made, history, repo, [d \in Devices |-> Bundled(d)]>>
<1>0. TypeOK /\ StoreInv
  BY DEF FilesInv, IInv
<1>1. ASSUME NEW d \in Devices, MovePatchToOutgoing(d) \/ Crash(d) PROVE Exchange!Next
  BY <1>0, <1>1, BundlePublishes DEF Exchange!Next
<1>2. CASE UNCHANGED outgoing
  <2>0. [d \in Devices |-> Bundled(d)]' = [d \in Devices |-> Bundled(d)]
    BY <1>2 DEF Bundled
  <2>1. CASE HgCommits
    <3>1. PICK d \in Devices, changed \in BOOLEAN : CommitAll(d, changed)
      BY <2>1 DEF HgCommits
    <3>2. CASE changed
      <4>1. parent[d] \in repo[d] \cup {0}
        BY <1>0 DEF StoreInv, NoCommit
      <4>2. Exchange!Commit(d)
        BY <2>0, <3>1, <3>2, <4>1 DEF CommitAll, Exchange!Commit
      <4>. QED
        BY <4>2 DEF Exchange!Next
    <3>3. CASE ~changed
      BY <2>0, <3>1, <3>3 DEF CommitAll
    <3>. QED
      BY <3>2, <3>3
  <2>2. CASE HgUnbundles
    BY <1>2, <2>2, UnbundleReceives DEF HgUnbundles, Exchange!Next
  <2>3. CASE HgUpdates \/ UNCHANGED <<made, history, repo, parent>>
    BY <2>0, <2>3 DEF HgUpdates
  <2>. QED
    BY <1>0, <2>1, <2>2, <2>3, HgSteps
<1>3. ASSUME NEW d \in Devices, MoveThenFail(d) PROVE UNCHANGED outgoing
  BY <1>3 DEF MoveThenFail
<1>. QED
  BY <1>1, <1>2, <1>3, OutgoingSteps

(* FolderSync implements ChangesetExchange, on any number of devices and   *)
(* whatever fails: what a store gets was made there or published by        *)
(* another device, and never comes without its ancestors.                  *)
THEOREM FoldersExchange == Spec => ImplementsExchange
<1>1. Init => Exchange!Init
  <2> SUFFICES ASSUME Init PROVE Exchange!Init
    OBVIOUS
  <2>1. \A d \in Devices : Bundled(d) = {}
    BY DEF Init, Bundled
  <2>. QED
    BY <2>1 DEF Init, Exchange!Init, NoCommit
<1>2. FilesInv /\ BundledInv' /\ [Next]_vars
        => [Exchange!Next]_<<made, history, repo, [d \in Devices |-> Bundled(d)]>>
  BY ExchangeStep
<1>. QED
  BY <1>1, <1>2, FilesInvariance, BundledClosed, PTL DEF Spec, ImplementsExchange, Exchange!Spec
=============================================================================
