--------------------------- MODULE FolderRegistry ---------------------------
(***************************************************************************)
(* Which folders the service keeps: the settings file (settings.cpp), the  *)
(* settings and the folders in memory (synchronizer.cpp) and the           *)
(* repository that `hg init` makes in each folder (patch/hgbackend.cpp).   *)
(*                                                                         *)
(* addFolder is a coroutine on the loop's thread.  It waits while hg runs, *)
(* so that several calls interleave there; from the last answer of hg on   *)
(* it holds the thread until it ends.  The process may die at any moment,  *)
(* and a file that is being written is then cut: loadSettingsFromJson      *)
(* refuses it.  Cloud destinations are left out: AddFolder has none to     *)
(* pass, and no settings file with one can be loaded.                      *)
(***************************************************************************)
EXTENDS Naturals, Sequences, FolderCalls

VARIABLES
  file,         \* settings.json: "absent", "torn" or "whole"
  entries,      \* the folders in it when it is whole
  repo,         \* the folders that contain .hg
  stage,        \* "off", "creating" (the default file), "loaded" or "serving"
  settings,     \* Synchronizer::settings.folders
  served,       \* Synchronizer::folders, those with a FolderManager
  add,          \* where each call of addFolder is
  acked,        \* history: the folders whose addFolder returned normally
  mishaps       \* history: a "default" file took the place of an existing one;
                \* a save went to a "stray" path

disk == <<file, entries, repo>>
\* The history, and what only a new call changes.
others == <<acked, mishaps, request>>
registryVars == <<file, entries, repo, stage, settings, served, add, acked, mishaps, request>>

Elements(s) == {s[i] : i \in DOMAIN s}

\* addFolder's synchronous part, from the save to its end.
Saving == \E c \in Calls : add[c] \in {"saving", "saved"}

\* The loop can run another callback of the service.
Serving == stage = "serving" /\ ~Saving

RegistryInit ==
  /\ file = "absent"
  /\ entries = <<>>
  /\ repo = {}
  /\ stage = "off"
  /\ settings = <<>>
  /\ served = <<>>
  /\ add = [c \in Calls |-> "idle"]
  /\ acked = {}
  /\ mishaps = {}
  /\ request = NoRequests

-----------------------------------------------------------------------------
(* Start *)

\* loadSettingsFromJson of a file it can open and parse.
LoadSettings ==
  /\ stage = "off"
  /\ file = "whole"
  /\ stage' = "loaded"
  /\ settings' = entries
  /\ UNCHANGED <<disk, served, add, others>>

\* The file cannot be opened, for whatever reason: a default takes its place.
CreateDefaultSettingsFile ==
  /\ stage = "off"
  /\ stage' = "creating"
  /\ file' = "torn"
  /\ mishaps' = IF file = "absent" THEN mishaps ELSE mishaps \cup {"default"}
  /\ UNCHANGED <<entries, repo, settings, served, add, acked, request>>

\* The default file is written.
DefaultSettings ==
  /\ stage = "creating"
  /\ stage' = "loaded"
  /\ file' = "whole"
  /\ entries' = <<>>
  /\ UNCHANGED <<repo, settings, served, add, others>>

\* The file does not parse, or the default file cannot be created.
LoadThrows ==
  /\ stage = "off"
  /\ file # "whole"
  /\ UNCHANGED registryVars

\* A folder whose storage or manager cannot be made is skipped; the others are
\* served in the order of their entries.
LoadFolders ==
  /\ stage = "loaded"
  /\ stage' = "serving"
  /\ \E n \in 0..Len(settings) : \E kept \in [1..n -> DOMAIN settings] :
       /\ \A i, j \in 1..n : i < j => kept[i] < kept[j]
       /\ served' = [i \in 1..n |-> settings[kept[i]]]
  /\ UNCHANGED <<disk, settings, add, others>>

-----------------------------------------------------------------------------
(* addFolder *)

\* A call arrives.
NewCall(c) ==
  /\ add[c] = "idle"
  /\ \E f \in Folders \cup {NoFolder} : request' = [request EXCEPT ![c] = f]
  /\ UNCHANGED <<disk, stage, settings, served, add, acked, mishaps>>

\* initRepoFolder: a folder with a repository is refused; otherwise hg is asked
\* to make one.
AddBegins(c) ==
  /\ Serving
  /\ request[c] \in Folders
  /\ add[c] = "idle"
  /\ add' = [add EXCEPT ![c] = IF request[c] \in repo THEN "refused" ELSE "init"]
  /\ UNCHANGED <<disk, stage, settings, served, others>>

\* Slip: the result code of hg init is not looked at.
HgInit_Unchecked(c) ==
  /\ Serving
  /\ add[c] = "init"
  /\ repo' = repo \cup {request[c]}
  /\ add' = [add EXCEPT ![c] = "commit"]
  /\ UNCHANGED <<file, entries, stage, settings, served, others>>

\* hg init, which refuses a folder that has a repository.
HgInit(c) ==
  /\ Serving
  /\ add[c] = "init"
  /\ request[c] \notin repo
  /\ repo' = repo \cup {request[c]}
  /\ add' = [add EXCEPT ![c] = "commit"]
  /\ UNCHANGED <<file, entries, stage, settings, served, others>>

\* hg init refuses or fails, hgrc cannot be written, or addAndCommit fails:
\* the repository stays.
InitRepoThrows(c) ==
  /\ Serving
  /\ add[c] \in {"init", "commit"}
  /\ add' = [add EXCEPT ![c] = "failed"]
  /\ UNCHANGED <<disk, stage, settings, served, others>>

\* Slip: the path was moved from before it is stored.
EnterFolder_Moved(c) ==
  /\ Serving
  /\ add[c] = "commit"
  /\ settings' = Append(settings, NoFolder)
  /\ file' = "torn"
  /\ add' = [add EXCEPT ![c] = "saving"]
  /\ UNCHANGED <<entries, repo, stage, served, others>>

\* The first commit is there: the folder becomes an entry of the settings, and
\* saveSettings empties the file.
EnterFolder(c) ==
  /\ Serving
  /\ add[c] = "commit"
  /\ settings' = Append(settings, request[c])
  /\ file' = "torn"
  /\ add' = [add EXCEPT ![c] = "saving"]
  /\ UNCHANGED <<entries, repo, stage, served, others>>

\* The file cannot be opened: the entry stays in memory.
SaveThrows(c) ==
  /\ Serving
  /\ add[c] = "commit"
  /\ settings' = Append(settings, request[c])
  /\ add' = [add EXCEPT ![c] = "failed"]
  /\ UNCHANGED <<disk, stage, served, others>>

\* The function that saves has a reference to a path that is gone since
\* Core::initialize returned.  The string it finds there may name the file
\* (EnterFolder), nothing (SaveThrows) or another file.
SaveElsewhere(c) ==
  /\ Serving
  /\ add[c] = "commit"
  /\ settings' = Append(settings, request[c])
  /\ mishaps' = mishaps \cup {"stray"}
  /\ add' = [add EXCEPT ![c] = "saved"]
  /\ UNCHANGED <<disk, stage, served, acked, request>>

\* Slip: the settings are saved before the folder is entered.
SaveSettings_Before(c) ==
  /\ add[c] = "saving"
  /\ file' = "whole"
  /\ entries' = SubSeq(settings, 1, Len(settings) - 1)
  /\ add' = [add EXCEPT ![c] = "saved"]
  /\ UNCHANGED <<repo, stage, settings, served, others>>

\* The file is written and closed.
SaveSettings(c) ==
  /\ add[c] = "saving"
  /\ file' = "whole"
  /\ entries' = settings
  /\ add' = [add EXCEPT ![c] = "saved"]
  /\ UNCHANGED <<repo, stage, settings, served, others>>

\* No space is left: FileWriteStream does not say so.
SaveCut(c) ==
  /\ add[c] = "saving"
  /\ add' = [add EXCEPT ![c] = "saved"]
  /\ UNCHANGED <<disk, stage, settings, served, others>>

\* The folder gets its storage and its manager.
ServeFolder(c) ==
  /\ add[c] = "saved"
  /\ served' = Append(served, request[c])
  /\ acked' = acked \cup {request[c]}
  /\ add' = [add EXCEPT ![c] = "added"]
  /\ UNCHANGED <<disk, stage, settings, mishaps, request>>

\* PatchStorage or FolderManager throws: the entry stays.
ServeThrows(c) ==
  /\ add[c] = "saved"
  /\ add' = [add EXCEPT ![c] = "failed"]
  /\ UNCHANGED <<disk, stage, settings, served, others>>

\* The coroutine is cancelled before it asks hg for something, or after hg has
\* answered: what was done stays, and there is no reply.
AddDropped(c) ==
  /\ Serving
  /\ add[c] \in {"init", "commit"}
  /\ add' = [add EXCEPT ![c] = "idle"]
  /\ request' = [request EXCEPT ![c] = NoFolder]
  /\ UNCHANGED <<disk, stage, settings, served, acked, mishaps>>

\* The task of the call replies.
AddReturns(c) ==
  /\ Serving
  /\ add[c] \in {"refused", "added", "failed"}
  /\ add' = [add EXCEPT ![c] = "idle"]
  /\ request' = [request EXCEPT ![c] = NoFolder]
  /\ UNCHANGED <<disk, stage, settings, served, acked, mishaps>>

-----------------------------------------------------------------------------
\* The process ends in whatever way; the disk stays as it is.
ProcessDies ==
  /\ stage' = "off"
  /\ settings' = <<>>
  /\ served' = <<>>
  /\ add' = [c \in Calls |-> "idle"]
  /\ request' = NoRequests
  /\ UNCHANGED <<disk, acked, mishaps>>

Load == LoadSettings \/ CreateDefaultSettingsFile \/ DefaultSettings \/ LoadFolders

AddStep(c) ==
  \/ HgInit(c) \/ InitRepoThrows(c) \/ EnterFolder(c) \/ SaveThrows(c) \/ SaveElsewhere(c)
  \/ SaveSettings(c) \/ SaveCut(c) \/ ServeFolder(c) \/ ServeThrows(c)

RegistryNext ==
  \/ Load
  \/ \E c \in Calls :
       NewCall(c) \/ AddBegins(c) \/ AddStep(c) \/ AddReturns(c) \/ AddDropped(c)
  \/ ProcessDies

RegistrySpec == RegistryInit /\ [][RegistryNext]_registryVars

-----------------------------------------------------------------------------
(* Properties *)

\* The values of the files and of the service's memory.
RegistryTypeOK ==
  /\ file \in {"absent", "torn", "whole"}
  /\ entries \in Seq(Folders)
  /\ repo \subseteq Folders
  /\ stage \in {"off", "creating", "loaded", "serving"}
  /\ settings \in Seq(Folders)
  /\ served \in Seq(Folders)
  /\ add \in [Calls -> {"idle", "refused", "init", "commit", "saving", "saved", "added", "failed"}]
  /\ acked \subseteq Folders
  /\ mishaps \subseteq {"default", "stray"}
  /\ request \in [Calls -> Folders \cup {NoFolder}]

Unique(s) == \A i, j \in DOMAIN s : s[i] = s[j] => i = j

\* However calls for one folder overlap in `hg init`, fail and are repeated after
\* a restart, the folder never gets a second entry nor a second FolderManager.
OneManagerPerFolder == Unique(settings) /\ Unique(entries) /\ Unique(served)

\* A folder whose addFolder succeeded is in the settings file and in what
\* ListFolders answers, in every later life of the process that gets to serve,
\* unless a default file was written over the settings or a save went elsewhere.
AddedIsKept ==
  mishaps # {}
  \/ /\ file = "whole" => acked \subseteq Elements(entries)
     /\ stage \in {"loaded", "serving"} => acked \subseteq Elements(settings)

=============================================================================
