------------------------------ MODULE FolderSync ------------------------------
(***************************************************************************)
(* One folder kept in step on several devices.  On each device a           *)
(* FolderManager commits local edits and bundles them into patches, a      *)
(* PatchStorage keeps the patches on disk, and a CloudDestination          *)
(* exchanges them with the other devices through a shared cloud folder     *)
(* (service/corelib/src: foldermanager.cpp, patchstorage.cpp,              *)
(* cloud/clouddestination.cpp, cloud/localfoldergate.cpp,                  *)
(* patch/hgbackend.cpp, watchers/timerwatcher.cpp).                        *)
(*                                                                         *)
(* Each device is one process with one loop thread.  A co_await of an hg   *)
(* command lets other callbacks of the device run; the local cloud gate    *)
(* never suspends, so that a CloudDestination holds the thread until it is *)
(* done, while the other devices, and a crash, interleave with it.         *)
(* Mercurial and the user are the environment.                             *)
(***************************************************************************)
EXTENDS Naturals, Sequences, FiniteSets

CONSTANTS
  Devices,
  Populated,   \* devices whose folder holds files when it is added
  MaxEdits,    \* BOUND on the edits
  MaxCrashes,  \* BOUND on the crashes, and on moves that fail when they are done
  Radix,       \* of the decimal numbers in patch names: 10 in the code
  Events       \* what else may happen

ASSUME ConstantsAssumption ==
  /\ IsFiniteSet(Devices) /\ Populated \subseteq Devices
  /\ MaxEdits \in Nat /\ MaxCrashes \in Nat
  /\ Radix \in Nat \ {0, 1}
  /\ Events \subseteq {"remote", "revert", "hgfail", "disk", "partial"}

VARIABLES
  made, history,          \* hg changesets 1..made, each with its ancestors
  repo, parent, dirty,    \* per device: .hg store, working directory, edits in it
  pc, batch, todo,        \* the task of FolderManager::synchronize; idle = no task
  nextIndex, lastOutgoing,               \* nextOutgoingPatchIndex, lastOutgoingCommit
  outgoing, toApply, applied,            \* PatchStorage: three maps of files
  unlisted, arrived, kept,               \* what the directories hold besides
  cloudTask, pulls, moved, uploads,      \* the task of CloudDestination::synchronize
  cloud, edits, crashes

hgVars == <<made, history, repo, parent, dirty>>
taskVars == <<pc, batch, todo>>
memVars == <<nextIndex, lastOutgoing>>
diskVars == <<outgoing, toApply, applied, unlisted, arrived, kept>>
cloudVars == <<cloudTask, pulls, moved, uploads>>
boundVars == <<edits, crashes>>
vars == <<hgVars, taskVars, memVars, diskVars, cloudVars, cloud, boundVars>>

NoCommit == 0
Commits == 1..made

(* A patch file: the two parts of its name, the changesets bundled in it,  *)
(* and whether the file is complete.                                       *)
Patches ==
  [index : Nat \ {0}, last : Commits, content : SUBSET Commits, whole : BOOLEAN]
Name(p) == <<p.index, p.last>>
Names(files) == {Name(p) : p \in files}

-----------------------------------------------------------------------------
(* std::map keeps patches by file name, "<index>_<hash>.patch", in the     *)
(* order of the characters: digits, and '_' after all of them.  Hashes are *)
(* random: between equal indexes either order is possible.                 *)
Underscore == Radix

Digits(i) ==
  IF i < Radix THEN <<i>>
  ELSE LET n == CHOOSE k \in 1..i : Radix ^ (k - 1) <= i /\ i < Radix ^ k
       IN  [k \in 1..n |-> (i \div Radix ^ (n - k)) % Radix]

SortsBefore(i, j) ==
  LET a == Append(Digits(i), Underscore)
      b == Append(Digits(j), Underscore)
  IN  \E k \in DOMAIN a \cap DOMAIN b :
        a[k] < b[k] /\ \A m \in 1..(k - 1) : a[m] = b[m]

(* Slip: a map without order.                                              *)
FirstOf_Unordered(files) == files

(* Those that may come first in an iteration over the map.                 *)
FirstOf(files) == {p \in files : \A q \in files : ~SortsBefore(q.index, p.index)}

-----------------------------------------------------------------------------
Init ==
  /\ made = 0 /\ history = [c \in {NoCommit} |-> {}]
  /\ repo = [d \in Devices |-> {}]
  /\ parent = [d \in Devices |-> NoCommit]
  /\ dirty = [d \in Devices |-> FALSE]
  /\ pc = [d \in Devices |-> "absent"]
  /\ batch = [d \in Devices |-> {}] /\ todo = [d \in Devices |-> {}]
  /\ nextIndex = [d \in Devices |-> 1]
  /\ lastOutgoing = [d \in Devices |-> NoCommit]
  /\ outgoing = [d \in Devices |-> {}]
  /\ toApply = [d \in Devices |-> {}]
  /\ applied = [d \in Devices |-> {}]
  /\ unlisted = [d \in Devices |-> {}]
  /\ arrived = [d \in Devices |-> {}] /\ kept = [d \in Devices |-> {}]
  /\ cloudTask = [d \in Devices |-> "none"]
  /\ pulls = [d \in Devices |-> {}] /\ uploads = [d \in Devices |-> {}]
  /\ moved = [d \in Devices |-> FALSE]
  /\ cloud = {} /\ edits = 0 /\ crashes = 0

(* The loop of d may dispatch a callback: no coroutine is on its thread.   *)
Free(d) == cloudTask[d] = "none" /\ pc[d] \notin {"absent", "list", "stage"}

Goto(d, where) == pc' = [pc EXCEPT ![d] = where]

-----------------------------------------------------------------------------
(* Mercurial and the user *)

Edit(d) ==
  /\ pc[d] # "absent" /\ ~dirty[d] /\ edits < MaxEdits
  /\ edits' = edits + 1
  /\ dirty' = [dirty EXCEPT ![d] = TRUE]
  /\ UNCHANGED <<made, history, repo, parent, taskVars, memVars, diskVars, cloudVars,
                 cloud, crashes>>

(* The edit is undone between hg summary, which has seen it, and the       *)
(* commit: undone at any other time it might as well not have been made.   *)
Revert(d) ==
  /\ "revert" \in Events /\ pc[d] = "commit" /\ dirty[d]
  /\ dirty' = [dirty EXCEPT ![d] = FALSE]
  /\ UNCHANGED <<made, history, repo, parent, taskVars, memVars, diskVars, cloudVars,
                 cloud, boundVars>>

(* hg commit of whatever has changed in the working directory.             *)
CommitAll(d, changed) ==
  /\ dirty' = [dirty EXCEPT ![d] = FALSE]
  /\ IF changed
     THEN /\ made' = made + 1
          /\ history' = [c \in 0..(made + 1) |->
                          IF c = made + 1 THEN history[parent[d]] \cup {c} ELSE history[c]]
          /\ repo' = [repo EXCEPT ![d] = @ \cup {made + 1}]
          /\ parent' = [parent EXCEPT ![d] = made + 1]
     ELSE UNCHANGED <<made, history, repo, parent>>

(* Where hg update takes the working directory: a head it descends from.   *)
Heads(d) == {c \in repo[d] : \A e \in repo[d] : c \in history[e] => e = c}
Targets(d) == {c \in Heads(d) : parent[d] = NoCommit \/ parent[d] \in history[c]}

(* The changesets a bundle relies on and does not contain.                 *)
Bases(p) == (UNION {history[c] : c \in p.content}) \ p.content

-----------------------------------------------------------------------------
(* Synchronizer::addFolder: hg init, and a commit of the files there.      *)
AddFolder(d) ==
  /\ pc[d] = "absent"
  /\ CommitAll(d, d \in Populated)
  /\ Goto(d, "idle")
  /\ UNCHANGED <<batch, todo, memVars, diskVars, cloudVars, cloud, boundVars>>

(* FolderManager::synchronize, from the timer: start the task, if none     *)
(* runs.                                                                   *)
CheckLocal(d) ==
  /\ Free(d) /\ pc[d] = "idle"
  /\ Goto(d, "check")
  /\ UNCHANGED <<hgVars, batch, todo, memVars, diskVars, cloudVars, cloud, boundVars>>

(* The answer of hg summary.                                               *)
CheckLocalState(d) ==
  /\ Free(d) /\ pc[d] = "check"
  /\ Goto(d, IF dirty[d] THEN "commit" ELSE "list")
  /\ UNCHANGED <<hgVars, batch, todo, memVars, diskVars, cloudVars, cloud, boundVars>>

(* preparePatch: addremove, commit, id.  Nothing new is an exception.      *)
PrepareCommit(d) ==
  /\ Free(d) /\ pc[d] = "commit"
  /\ CommitAll(d, dirty[d])
  /\ Goto(d, IF parent'[d] = lastOutgoing[d] THEN "idle" ELSE "bundle")
  /\ UNCHANGED <<batch, todo, memVars, diskVars, cloudVars, cloud, boundVars>>

(* Slip: bundle the last commit instead of all since lastOutgoing.         *)
NewPatch_LastOnly(d) ==
  [index |-> nextIndex[d], last |-> parent[d], content |-> {parent[d]}, whole |-> TRUE]

(* hg bundle --base lastOutgoing, or --all: every changeset of the store   *)
(* that is not an ancestor of the base.                                    *)
NewPatch(d) ==
  [index |-> nextIndex[d], last |-> parent[d],
   content |-> repo[d] \ history[lastOutgoing[d]], whole |-> TRUE]

(* moveFile: a file that has the name already stays, and the move is done. *)
FiledAs(p, files) ==
  LET there == {q \in files : Name(q) = Name(p)} IN IF there = {} THEN {p} ELSE there

Others(p, files) == {q \in files : Name(q) # Name(p)}

(* Slip: lastOutgoingCommit is not moved on.                               *)
MovePatchToOutgoing_BaseKept(d) ==
  /\ Free(d) /\ pc[d] = "bundle"
  /\ \E p \in FiledAs(NewPatch(d), unlisted[d]) : outgoing' = [outgoing EXCEPT ![d] = @ \cup {p}]
  /\ unlisted' = [unlisted EXCEPT ![d] = Others(NewPatch(d), @)]
  /\ nextIndex' = [nextIndex EXCEPT ![d] = @ + 1]
  /\ cloudTask' = [cloudTask EXCEPT ![d] = "pending"]
  /\ Goto(d, "list")
  /\ UNCHANGED <<hgVars, batch, todo, lastOutgoing, toApply, applied, arrived, kept, pulls,
                 moved, uploads, cloud, boundVars>>

(* The answer of hg bundle: file the patch, wake the CloudDestination.     *)
MovePatchToOutgoing(d) ==
  /\ Free(d) /\ pc[d] = "bundle"
  /\ \E p \in FiledAs(NewPatch(d), unlisted[d]) : outgoing' = [outgoing EXCEPT ![d] = @ \cup {p}]
  /\ unlisted' = [unlisted EXCEPT ![d] = Others(NewPatch(d), @)]
  /\ nextIndex' = [nextIndex EXCEPT ![d] = @ + 1]
  /\ lastOutgoing' = [lastOutgoing EXCEPT ![d] = parent[d]]
  /\ cloudTask' = [cloudTask EXCEPT ![d] = "pending"]
  /\ Goto(d, "list")
  /\ UNCHANGED <<hgVars, batch, todo, toApply, applied, arrived, kept, pulls, moved, uploads,
                 cloud, boundVars>>

(* The task goes on to the patches to apply, before or after the           *)
(* CloudDestination it has just woken.                                     *)
ListPatchesToApply(d) ==
  /\ pc[d] = "list" /\ cloudTask[d] \in {"none", "pending"}
  /\ IF toApply[d] = {}
     THEN Goto(d, "idle") /\ UNCHANGED batch
     ELSE Goto(d, "applyCommit") /\ batch' = [batch EXCEPT ![d] = toApply[d]]
  /\ UNCHANGED <<hgVars, todo, memVars, diskVars, cloudVars, cloud, boundVars>>

(* applyPatches commits first whatever has been edited since the check.    *)
ApplyCommit(d) ==
  /\ Free(d) /\ pc[d] = "applyCommit"
  /\ CommitAll(d, dirty[d])
  /\ todo' = [todo EXCEPT ![d] = batch[d]]
  /\ Goto(d, "unbundle")
  /\ UNCHANGED <<batch, memVars, diskVars, cloudVars, cloud, boundVars>>

(* hg unbundle takes the files in the order given, each in a transaction.  *)
Fits(d, p) == p.whole /\ Bases(p) \subseteq repo[d]

Unbundle(d) ==
  /\ Free(d) /\ pc[d] = "unbundle"
  /\ \E p \in FirstOf(todo[d]) :
       /\ Fits(d, p)
       /\ repo' = [repo EXCEPT ![d] = @ \cup p.content]
       /\ todo' = [todo EXCEPT ![d] = @ \ {p}]
       /\ Goto(d, IF todo[d] = {p} THEN "update" ELSE "unbundle")
  /\ UNCHANGED <<made, history, parent, dirty, batch, memVars, diskVars, cloudVars,
                 cloud, boundVars>>

UnbundleFails(d) ==
  /\ Free(d) /\ pc[d] = "unbundle"
  /\ \E p \in FirstOf(todo[d]) : ~Fits(d, p)
  /\ Goto(d, "idle")
  /\ batch' = [batch EXCEPT ![d] = {}]
  /\ todo' = [todo EXCEPT ![d] = {}]
  /\ UNCHANGED <<hgVars, memVars, diskVars, cloudVars, cloud, boundVars>>

Update(d) ==
  /\ Free(d) /\ pc[d] = "update"
  /\ \E c \in Targets(d) : parent' = [parent EXCEPT ![d] = c]
  /\ Goto(d, "stage")
  /\ UNCHANGED <<made, history, repo, dirty, batch, todo, memVars, diskVars, cloudVars,
                 cloud, boundVars>>

(* Slip: what the directory holds by now is staged, not what was applied.  *)
StagePatchAsApplied_Relist(d) ==
  /\ pc[d] = "stage"
  /\ applied' = [applied EXCEPT ![d] = @ \cup toApply[d]]
  /\ toApply' = [toApply EXCEPT ![d] = {}]
  /\ batch' = [batch EXCEPT ![d] = {}]
  /\ Goto(d, "idle")
  /\ UNCHANGED <<hgVars, todo, memVars, outgoing, unlisted, arrived, kept, cloudVars, cloud,
                 boundVars>>

(* One round of the loop that moves the batch to the applied directory.    *)
StagePatchAsApplied(d) ==
  /\ pc[d] = "stage"
  /\ \E p \in FirstOf(batch[d]) :
       /\ applied' = [applied EXCEPT ![d] = @ \cup {p}]
       /\ toApply' = [toApply EXCEPT ![d] = Others(p, @)]
       /\ batch' = [batch EXCEPT ![d] = @ \ {p}]
       /\ Goto(d, IF batch[d] = {p} THEN "idle" ELSE "stage")
  /\ UNCHANGED <<hgVars, todo, memVars, outgoing, unlisted, arrived, kept, cloudVars, cloud,
                 boundVars>>

(* An hg command fails and its exception ends the task: before it has done *)
(* anything, or, in the commands after a commit or an update, too late.    *)
Failing(d) ==
  /\ "hgfail" \in Events /\ Free(d)
  /\ Goto(d, "idle")
  /\ batch' = [batch EXCEPT ![d] = {}]
  /\ todo' = [todo EXCEPT ![d] = {}]
  /\ UNCHANGED <<memVars, diskVars, cloudVars, cloud, boundVars>>

HgFails(d) == pc[d] # "idle" /\ Failing(d) /\ UNCHANGED hgVars
CommitThenFail(d) ==
  pc[d] \in {"commit", "applyCommit"} /\ Failing(d) /\ CommitAll(d, dirty[d])
UpdateThenFail(d) ==
  /\ pc[d] = "update" /\ Failing(d)
  /\ \E c \in Targets(d) : parent' = [parent EXCEPT ![d] = c]
  /\ UNCHANGED <<made, history, repo, dirty>>

(* hg summary ends with 255: taken for "not initialized", nothing to       *)
(* commit.                                                                 *)
SummaryFatal(d) ==
  /\ "hgfail" \in Events /\ Free(d) /\ pc[d] = "check"
  /\ Goto(d, "list")
  /\ UNCHANGED <<hgVars, batch, todo, memVars, diskVars, cloudVars, cloud, boundVars>>

(* moveFile throws, and the exception ends the task: before the patch is   *)
(* there, as HgFails at the bundle and StageFails, or after it, when the   *)
(* copy has its name and the source cannot be removed.  Then the patch is  *)
(* in the directory, and the maps and the position stay what they were.    *)
MoveThenFail(d) ==
  /\ "disk" \in Events /\ crashes < MaxCrashes /\ Free(d) /\ pc[d] = "bundle"
  /\ Name(NewPatch(d)) \notin Names(unlisted[d])
  /\ unlisted' = [unlisted EXCEPT ![d] = @ \cup {NewPatch(d)}]
  /\ Goto(d, "idle")
  /\ crashes' = crashes + 1
  /\ UNCHANGED <<hgVars, batch, todo, memVars, outgoing, toApply, applied, arrived, kept,
                 cloudVars, cloud, edits>>

StageFails(d) ==
  /\ "disk" \in Events /\ pc[d] = "stage"
  /\ Goto(d, "idle")
  /\ batch' = [batch EXCEPT ![d] = {}]
  /\ UNCHANGED <<hgVars, todo, memVars, diskVars, cloudVars, cloud, boundVars>>

StageThenFail(d) ==
  /\ "disk" \in Events /\ crashes < MaxCrashes /\ pc[d] = "stage"
  /\ \E p \in FirstOf(batch[d]) :
       /\ Name(p) \notin Names(applied[d] \cup kept[d])
       /\ kept' = [kept EXCEPT ![d] = @ \cup {p}]
  /\ Goto(d, "idle")
  /\ batch' = [batch EXCEPT ![d] = {}]
  /\ crashes' = crashes + 1
  /\ UNCHANGED <<hgVars, todo, memVars, outgoing, toApply, applied, unlisted, arrived,
                 cloudVars, cloud, edits>>

-----------------------------------------------------------------------------
(* CloudDestination::synchronize *)

(* Synchronizer::checkAllRemotes.                                          *)
CheckRemotes(d) ==
  /\ "remote" \in Events /\ Free(d)
  /\ cloudTask' = [cloudTask EXCEPT ![d] = "pending"]
  /\ UNCHANGED <<hgVars, taskVars, memVars, diskVars, pulls, moved, uploads, cloud, boundVars>>

(* Slip: applied patches are not looked for.                               *)
Known_NotApplied(d) == Names(toApply[d]) \cup Names(outgoing[d])

(* List the cloud folder and copy what this device has not from there.     *)
Known(d) == Names(toApply[d]) \cup Names(applied[d]) \cup Names(outgoing[d])

(* Slip: only the patch just made is uploaded.                             *)
Missing_NewestOnly(d) ==
  {p \in outgoing[d] : p.index + 1 = nextIndex[d] /\ Name(p) \notin Names(cloud)}

Missing(d) == {p \in outgoing[d] : Name(p) \notin Names(cloud)}

ListAndDownload(d) ==
  /\ cloudTask[d] = "pending"
  /\ cloudTask' = [cloudTask EXCEPT ![d] = "pull"]
  /\ pulls' = [pulls EXCEPT ![d] = {p \in cloud : Name(p) \notin Known(d)}]
  /\ uploads' = [uploads EXCEPT ![d] = Missing(d)]
  /\ UNCHANGED <<hgVars, taskVars, memVars, diskVars, moved, cloud, boundVars>>

(* One round of the loop of movePatchesToApply.                            *)
MovePatchToApply(d) ==
  /\ cloudTask[d] = "pull"
  /\ \E p \in FirstOf(pulls[d]) :
       /\ \E q \in FiledAs(p, toApply[d] \cup arrived[d]) :
            toApply' = [toApply EXCEPT ![d] = @ \cup {q}]
       /\ arrived' = [arrived EXCEPT ![d] = Others(p, @)]
       /\ pulls' = [pulls EXCEPT ![d] = @ \ {p}]
       /\ moved' = [moved EXCEPT ![d] = @ \/ Name(p) \notin Names(toApply[d] \cup arrived[d])]
  /\ UNCHANGED <<hgVars, taskVars, memVars, outgoing, applied, unlisted, kept, cloudTask,
                 uploads, cloud, boundVars>>

(* Its end: the notifier calls FolderManager::synchronize, which drops the *)
(* call when a task runs.                                                  *)
NotifyIncoming(d) ==
  /\ cloudTask[d] = "pull" /\ pulls[d] = {}
  /\ IF moved[d] /\ pc[d] = "idle" THEN Goto(d, "check") ELSE UNCHANGED pc
  /\ moved' = [moved EXCEPT ![d] = FALSE]
  /\ cloudTask' = [cloudTask EXCEPT ![d] = IF uploads[d] = {} THEN "none" ELSE "push"]
  /\ UNCHANGED <<hgVars, batch, todo, memVars, diskVars, pulls, uploads, cloud, boundVars>>

(* One round of the loop of uploadFiles.                                   *)
Uploaded(d, p) ==
  /\ uploads' = [uploads EXCEPT ![d] = @ \ {p}]
  /\ cloudTask' = [cloudTask EXCEPT ![d] = IF uploads[d] = {p} THEN "none" ELSE "push"]
  /\ cloud' = {q \in cloud : Name(q) # Name(p)} \cup {p}
  /\ UNCHANGED <<hgVars, taskVars, memVars, diskVars, pulls, moved, boundVars>>

UploadFile(d) ==
  /\ cloudTask[d] = "push"
  /\ \E p \in FirstOf(uploads[d]) : Uploaded(d, p)

(* The copy is not atomic: others may see its beginning.                   *)
UploadBegins(d) ==
  /\ "partial" \in Events /\ cloudTask[d] = "push"
  /\ \E p \in FirstOf(uploads[d]) : cloud' = cloud \cup {[p EXCEPT !.whole = FALSE]}
  /\ cloudTask' = [cloudTask EXCEPT ![d] = "copying"]
  /\ UNCHANGED <<hgVars, taskVars, memVars, diskVars, pulls, moved, uploads, boundVars>>

UploadEnds(d) ==
  /\ cloudTask[d] = "copying"
  /\ \E p \in uploads[d] : [p EXCEPT !.whole = FALSE] \in cloud /\ Uploaded(d, p)

(* A file cannot be moved or copied: the exception ends the task, without  *)
(* the notification.                                                       *)
CloudTaskEnds(d) ==
  /\ cloudTask' = [cloudTask EXCEPT ![d] = "none"]
  /\ pulls' = [pulls EXCEPT ![d] = {}]
  /\ uploads' = [uploads EXCEPT ![d] = {}]
  /\ moved' = [moved EXCEPT ![d] = FALSE]

CloudFails(d) ==
  /\ "disk" \in Events /\ cloudTask[d] \in {"pending", "pull", "push", "copying"}
  /\ CloudTaskEnds(d)
  /\ UNCHANGED <<hgVars, taskVars, memVars, diskVars, cloud, boundVars>>

(* As MoveThenFail: moved in, and the source cannot be removed.            *)
ArriveThenFail(d) ==
  /\ "disk" \in Events /\ crashes < MaxCrashes /\ cloudTask[d] = "pull"
  /\ \E p \in FirstOf(pulls[d]) :
       /\ Name(p) \notin Names(toApply[d] \cup arrived[d])
       /\ arrived' = [arrived EXCEPT ![d] = @ \cup {p}]
  /\ CloudTaskEnds(d)
  /\ crashes' = crashes + 1
  /\ UNCHANGED <<hgVars, taskVars, memVars, outgoing, toApply, applied, unlisted, kept, cloud,
                 edits>>

-----------------------------------------------------------------------------
(* Slip: the index of an empty directory is the integer's default.         *)
Loaded_Zero(files) ==
  IF files = {} THEN {<<0, NoCommit>>}
  ELSE {<<p.index + 1, p.last>> : p \in {q \in files : \A r \in files : r.index <= q.index}}

(* loadFolderState: the next index and the base, from the name of the      *)
(* latest outgoing patch; of two with one index, of that whose hash is     *)
(* first.                                                                  *)
Loaded(files) ==
  IF files = {} THEN {<<1, NoCommit>>}
  ELSE {<<p.index + 1, p.last>> : p \in {q \in files : \A r \in files : r.index <= q.index}}

(* The service dies and is started again: the files and the hg store are   *)
(* as they were, the rest is gone.  The maps now list every file.          *)
Crash(d) ==
  /\ crashes < MaxCrashes /\ pc[d] # "absent"
  /\ crashes' = crashes + 1
  /\ Goto(d, "idle")
  /\ batch' = [batch EXCEPT ![d] = {}] /\ todo' = [todo EXCEPT ![d] = {}]
  /\ outgoing' = [outgoing EXCEPT ![d] = @ \cup unlisted[d]]
  /\ toApply' = [toApply EXCEPT ![d] = @ \cup arrived[d] \cup kept[d]]
  /\ applied' = [applied EXCEPT ![d] = @ \cup kept[d]]
  /\ unlisted' = [unlisted EXCEPT ![d] = {}] /\ arrived' = [arrived EXCEPT ![d] = {}]
  /\ \E start \in Loaded(outgoing[d] \cup unlisted[d]) :
       /\ nextIndex' = [nextIndex EXCEPT ![d] = start[1]]
       /\ lastOutgoing' = [lastOutgoing EXCEPT ![d] = start[2]]
  /\ CloudTaskEnds(d)
  /\ UNCHANGED <<hgVars, kept, cloud, edits>>

-----------------------------------------------------------------------------
FolderTask(d) ==
  \/ CheckLocalState(d) \/ PrepareCommit(d) \/ MovePatchToOutgoing(d)
  \/ ListPatchesToApply(d) \/ ApplyCommit(d) \/ Unbundle(d) \/ UnbundleFails(d)
  \/ Update(d) \/ StagePatchAsApplied(d)

CloudTask(d) ==
  \/ ListAndDownload(d) \/ MovePatchToApply(d) \/ NotifyIncoming(d)
  \/ UploadFile(d) \/ UploadBegins(d) \/ UploadEnds(d)

Failures(d) ==
  \/ HgFails(d) \/ CommitThenFail(d) \/ UpdateThenFail(d) \/ SummaryFatal(d)
  \/ MoveThenFail(d) \/ StageFails(d) \/ StageThenFail(d)
  \/ CloudFails(d) \/ ArriveThenFail(d) \/ Crash(d)

Next ==
  \E d \in Devices :
    \/ AddFolder(d) \/ Edit(d) \/ Revert(d)
    \/ CheckLocal(d) \/ CheckRemotes(d)
    \/ FolderTask(d) \/ CloudTask(d)
    \/ Failures(d)

Spec == Init /\ [][Next]_vars

(* The loop dispatches what is ready, the timer fires again and again, hg  *)
(* answers.                                                                *)
Fairness ==
  \A d \in Devices :
    /\ WF_vars(AddFolder(d)) /\ WF_vars(CloudTask(d))
    /\ SF_vars(CheckLocal(d)) /\ SF_vars(FolderTask(d))

FairSpec == Spec /\ Fairness
-----------------------------------------------------------------------------
(* Properties *)

StoreType ==
  /\ made \in Nat
  /\ history \in [0..made -> SUBSET Commits]
  /\ repo \in [Devices -> SUBSET Commits]
  /\ parent \in [Devices -> 0..made]
  /\ dirty \in [Devices -> BOOLEAN]

TaskType ==
  /\ pc \in [Devices -> {"absent", "idle", "check", "commit", "bundle", "list",
                         "applyCommit", "unbundle", "update", "stage"}]
  /\ cloudTask \in [Devices -> {"none", "pending", "pull", "push", "copying"}]
  /\ moved \in [Devices -> BOOLEAN]
  /\ edits \in 0..MaxEdits /\ crashes \in 0..MaxCrashes

MemType ==
  nextIndex \in [Devices -> Nat \ {0}] /\ lastOutgoing \in [Devices -> 0..made]

FilesType ==
  /\ batch \in [Devices -> SUBSET Patches] /\ todo \in [Devices -> SUBSET Patches]
  /\ outgoing \in [Devices -> SUBSET Patches]
  /\ toApply \in [Devices -> SUBSET Patches] /\ applied \in [Devices -> SUBSET Patches]
  /\ unlisted \in [Devices -> SUBSET Patches]
  /\ arrived \in [Devices -> SUBSET Patches] /\ kept \in [Devices -> SUBSET Patches]
  /\ pulls \in [Devices -> SUBSET Patches] /\ uploads \in [Devices -> SUBSET Patches]
  /\ cloud \subseteq Patches

(* The variables have their types.                                         *)
TypeOK == StoreType /\ TaskType /\ MemType /\ FilesType

(* What a device has published up to a patch is closed under ancestors, up *)
(* to the commit the patch is named after: whoever applies its patches in  *)
(* order never misses a parent, although commits go unbundled when a step  *)
(* fails, and a restart reads the base of the next bundle from file names. *)
PublishedUpTo(d, p) == UNION {q.content : q \in {r \in outgoing[d] : r.index <= p.index}}

NoHoleInOutgoing ==
  \A d \in Devices : \A p \in outgoing[d] :
    /\ history[p.last] \subseteq PublishedUpTo(d, p)
    /\ Bases(p) \subseteq PublishedUpTo(d, p)

(* What FolderManager remembers is what a restart may read back from the   *)
(* names of the outgoing files.  The one exception is a patch whose source *)
(* could not be removed (patchstorage.cpp:124): it has the next index, and *)
(* the restart, which finds it, starts after it.  (An interim file left by *)
(* a failed move, for which moveFile reports a move of the same name that  *)
(* does not happen, patchstorage.cpp:119, is left to PatchFiles.)          *)
OutgoingFiles(d) == outgoing[d] \cup unlisted[d]

MemoryMatchesDisk ==
  \A d \in Devices :
    \/ <<nextIndex[d], lastOutgoing[d]>> \in Loaded(OutgoingFiles(d))
    \/ \E p \in unlisted[d] : /\ p.index = nextIndex[d]
                             /\ <<p.index + 1, p.last>> \in Loaded(OutgoingFiles(d))

(* A patch is counted as applied, by the map or by a file that a restart   *)
(* will find, only if all it contains is in the store: no failure, crash   *)
(* or partial file makes a device skip a patch.                            *)
AppliedIsInStore ==
  \A d \in Devices : \A p \in applied[d] \cup kept[d] :
    p.whole /\ p.content \subseteq repo[d]

(* However often the cloud is listed and the task dies on the way, a patch *)
(* is both still to apply and applied only if the storage was kept from    *)
(* removing it where it was to apply (patchstorage.cpp:124): by an error,  *)
(* or by the end of the service just before.                               *)
StoredOnce ==
  \A d \in Devices : Names(toApply[d]) \cap Names(applied[d]) \subseteq Names(kept[d])

(* The order in which applyPatches names the files never matters: hg finds *)
(* every parent it needs in the store or in the files before.              *)
OrderDoesNotMatter ==
  \A d \in Devices : pc[d] = "unbundle" =>
    \A p \in FirstOf(todo[d]) : Bases(p) \subseteq repo[d]

(* FolderSync implements ChangesetExchange: no order of failures, crashes, *)
(* torn files and stale lists puts a changeset into a store without its    *)
(* ancestors, or among those published by a device.                        *)
Bundled(d) == UNION {p.content : p \in outgoing[d]}
Exchange == INSTANCE ChangesetExchange
              WITH store <- repo, published <- [d \in Devices |-> Bundled(d)]
ImplementsExchange == Exchange!Spec

(* No run makes more commits than this.                                    *)
MaxCommits == MaxEdits + Cardinality(Populated)

Published(c) == \E d \in Devices : \E p \in outgoing[d] : c \in p.content

(* Every commit some device has bundled reaches every device.              *)
EveryDeviceCatchesUp ==
  \A e \in Devices : \A c \in 1..MaxCommits : Published(c) ~> c \in repo[e]

(* IF every device is told to check the remotes again and again, which     *)
(* nothing in the service does (timerwatcher.cpp:31 asks for local checks  *)
(* only), every commit some device has bundled reaches every device,       *)
(* though notifications are dropped while a task runs, an upload may be    *)
(* lost in a crash, and the batch being applied is older than the          *)
(* directory.                                                              *)
RemoteChecksHappen == \A d \in Devices : SF_vars(CheckRemotes(d))

PatchesSpread == RemoteChecksHappen => EveryDeviceCatchesUp

(* Every commit is sooner or later part of an outgoing patch of some       *)
(* device.                                                                 *)
EveryCommitPublished ==
  \A c \in 1..MaxCommits : (\E d \in Devices : c \in repo[d]) ~> Published(c)
=============================================================================
