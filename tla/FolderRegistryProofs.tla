------------------------ MODULE FolderRegistryProofs ------------------------
(***************************************************************************)
(* Proofs about FolderRegistry, for any number of calls, folders and lives *)
(* of the process.                                                         *)
(***************************************************************************)
EXTENDS FolderRegistry, TLAPS

(* A call that is under way names a folder, and runs on the loop; one at a *)
(* time is between its save and its end.  Managers are made by the loop.   *)
CallInv ==
  /\ stage # "serving" => served = <<>>
  /\ \A c \in Calls : add[c] # "idle" => stage = "serving" /\ request[c] \in Folders
  /\ \A b, c \in Calls : add[b] \in {"saving", "saved"} /\ add[c] \in {"saving", "saved"} => b = c

(* What keeps a folder from being entered twice is the repository that     *)
(* only one `hg init` can make: whoever has got past it owns the folder.   *)
OwnInv ==
  /\ OneManagerPerFolder
  /\ Elements(settings) \subseteq repo
  /\ Elements(entries) \subseteq repo
  /\ Elements(served) \subseteq Elements(settings)
  /\ \A c \in Calls :
       add[c] = "commit" => request[c] \in repo /\ request[c] \notin Elements(settings)
  /\ \A b, c \in Calls :
       add[b] = "commit" /\ add[c] = "commit" /\ request[b] = request[c] => b = c
  /\ \A c \in Calls :
       add[c] \in {"saving", "saved"} =>
         request[c] \in Elements(settings) /\ request[c] \notin Elements(served)

(* The file, while nothing went wrong with it: it is cut while it is       *)
(* written, and a call that is past that has its folder in it.             *)
FileInv ==
  /\ AddedIsKept
  /\ stage # "off" => file # "absent"
  /\ \A c \in Calls : add[c] = "saving" => file = "torn"
  /\ file = "absent" => acked = {}
  /\ stage = "creating" /\ mishaps = {} => acked = {}
  /\ \A c \in Calls :
       add[c] = "saved" /\ file = "whole" /\ mishaps = {} => request[c] \in Elements(entries)

RegistryInv == RegistryTypeOK /\ CallInv /\ OwnInv /\ FileInv

-----------------------------------------------------------------------------
(* The elements of a sequence with one more, and whether they are unique.  *)
LEMMA AppendElements ==
  ASSUME NEW S, NEW s \in Seq(S), NEW x \in S
  PROVE  /\ Append(s, x) \in Seq(S)
         /\ Elements(Append(s, x)) = Elements(s) \cup {x}
         /\ Unique(s) /\ x \notin Elements(s) => Unique(Append(s, x))
<1> DEFINE t == Append(s, x)
<1>1. /\ t \in Seq(S)
      /\ DOMAIN t = DOMAIN s \cup {Len(s) + 1}
      /\ \A i \in DOMAIN s : t[i] = s[i]
      /\ t[Len(s) + 1] = x
  OBVIOUS
<1>2. Elements(t) = Elements(s) \cup {x}
  BY <1>1 DEF Elements
<1>3. ASSUME Unique(s), x \notin Elements(s) PROVE Unique(t)
  BY <1>1, <1>3 DEF Unique, Elements
<1>. QED
  BY <1>1, <1>2, <1>3

(* The folders that LoadFolders serves are entries of the settings, in     *)
(* their order.                                                            *)
LEMMA KeptEntries ==
  ASSUME NEW S, NEW s \in Seq(S), NEW t,
         \E n \in 0..Len(s) : \E kept \in [1..n -> DOMAIN s] :
           /\ \A i, j \in 1..n : i < j => kept[i] < kept[j]
           /\ t = [i \in 1..n |-> s[kept[i]]]
  PROVE  t \in Seq(S) /\ Elements(t) \subseteq Elements(s) /\ (Unique(s) => Unique(t))
<1>. PICK n \in 0..Len(s) : \E kept \in [1..n -> DOMAIN s] :
       /\ \A i, j \in 1..n : i < j => kept[i] < kept[j]
       /\ t = [i \in 1..n |-> s[kept[i]]]
  OBVIOUS
<1>. PICK kept \in [1..n -> DOMAIN s] :
       /\ \A i, j \in 1..n : i < j => kept[i] < kept[j]
       /\ t = [i \in 1..n |-> s[kept[i]]]
  OBVIOUS
<1>1. n \in Nat /\ DOMAIN s \subseteq Nat
  OBVIOUS
<1>2. \A i \in 1..n : kept[i] \in DOMAIN s /\ s[kept[i]] \in S
  OBVIOUS
<1>3. t \in [1..n -> S]
  BY <1>2
<1>4. t \in Seq(S)
  BY <1>1, <1>3
<1>5. DOMAIN t = 1..n
  OBVIOUS
<1>6. Elements(t) \subseteq Elements(s)
  BY <1>2, <1>5 DEF Elements
<1>7. ASSUME Unique(s), NEW i \in 1..n, NEW j \in 1..n, t[i] = t[j] PROVE i = j
  <2>1. kept[i] = kept[j]
    BY <1>2, <1>7 DEF Unique
  <2>2. kept[i] \in Nat /\ kept[j] \in Nat /\ i \in Nat /\ j \in Nat
    BY <1>1, <1>2
  <2>3. ~(i < j) /\ ~(j < i)
    BY <2>1, <2>2
  <2>. QED
    BY <2>2, <2>3
<1>8. Unique(s) => Unique(t)
  BY <1>5, <1>7 DEF Unique
<1>. QED
  BY <1>4, <1>6, <1>8

(* The process starts with nothing on the disk.                            *)
LEMMA RegistryInvInit == RegistryInit => RegistryInv
<1> SUFFICES ASSUME RegistryInit PROVE RegistryInv
  OBVIOUS
<1>1. /\ Elements(<<>>) = {} /\ Unique(<<>>) /\ <<>> \in Seq(Folders)
  BY DEF Elements, Unique
<1>. QED
  BY <1>1 DEF RegistryInit, RegistryInv, RegistryTypeOK, CallInv, OwnInv, FileInv,
     OneManagerPerFolder, AddedIsKept, NoRequests

-----------------------------------------------------------------------------
(* Loading the settings and the folders.                                   *)
LEMMA LoadStep ==
  ASSUME RegistryInv, Load
  PROVE  RegistryInv'
<1> USE DEF RegistryInv, RegistryTypeOK, CallInv, OwnInv, FileInv, OneManagerPerFolder, AddedIsKept,
            disk, others
<1>0. Elements(<<>>) = {} /\ Unique(<<>>) /\ <<>> \in Seq(Folders)
  BY DEF Elements, Unique
<1>1. CASE LoadSettings
  BY <1>0, <1>1 DEF LoadSettings
<1>2. CASE CreateDefaultSettingsFile
  BY <1>2 DEF CreateDefaultSettingsFile
<1>3. CASE DefaultSettings
  BY <1>0, <1>3 DEF DefaultSettings
<1>4. CASE LoadFolders
  <2>1. served' \in Seq(Folders) /\ Elements(served') \subseteq Elements(settings) /\ Unique(served')
    <3>1. settings \in Seq(Folders) /\ Unique(settings)
      OBVIOUS
    <3>2. \E n \in 0..Len(settings) : \E kept \in [1..n -> DOMAIN settings] :
            /\ \A i, j \in 1..n : i < j => kept[i] < kept[j]
            /\ served' = [i \in 1..n |-> settings[kept[i]]]
      BY <1>4 DEF LoadFolders
    <3>. QED
      BY <3>1, <3>2, KeptEntries, Zenon
  <2>2. \A c \in Calls : add[c] = "idle"
    BY <1>4 DEF LoadFolders
  <2>. QED
    BY <1>4, <2>1, <2>2 DEF LoadFolders
<1>. QED
  BY <1>1, <1>2, <1>3, <1>4 DEF Load

(* A call arrives, is refused, asks for a repository, or ends.             *)
LEMMA CallStep ==
  ASSUME RegistryInv, NEW c \in Calls,
         NewCall(c) \/ AddBegins(c) \/ AddReturns(c) \/ AddDropped(c)
  PROVE  RegistryInv'
<1> USE DEF RegistryInv, RegistryTypeOK, CallInv, OwnInv, FileInv, OneManagerPerFolder, AddedIsKept,
            disk, others
<1>1. CASE NewCall(c)
  BY <1>1 DEF NewCall
<1>2. CASE AddBegins(c)
  BY <1>2 DEF AddBegins, Serving
<1>3. CASE AddReturns(c)
  BY <1>3 DEF AddReturns, Serving
<1>4. CASE AddDropped(c)
  BY <1>4 DEF AddDropped, Serving
<1>. QED
  BY <1>1, <1>2, <1>3, <1>4

(* addFolder up to its save: hg init gives the folder to one call only.    *)
LEMMA InitStep ==
  ASSUME RegistryInv, NEW c \in Calls, HgInit(c) \/ InitRepoThrows(c)
  PROVE  RegistryInv'
<1> USE DEF RegistryInv, RegistryTypeOK, CallInv, OwnInv, FileInv, OneManagerPerFolder, AddedIsKept,
            disk, others
<1>1. CASE HgInit(c)
  BY <1>1 DEF HgInit, Serving
<1>2. CASE InitRepoThrows(c)
  BY <1>2 DEF InitRepoThrows, Serving
<1>. QED
  BY <1>1, <1>2

(* The folder becomes an entry of the settings in memory.                  *)
LEMMA EnterStep ==
  ASSUME RegistryInv, NEW c \in Calls, EnterFolder(c) \/ SaveThrows(c) \/ SaveElsewhere(c)
  PROVE  RegistryInv'
<1> USE DEF RegistryInv, RegistryTypeOK, CallInv, OwnInv, FileInv, OneManagerPerFolder, AddedIsKept,
            disk, others
<1>1. /\ add[c] = "commit" /\ stage = "serving" /\ ~Saving
      /\ settings' = Append(settings, request[c])
  BY DEF EnterFolder, SaveThrows, SaveElsewhere, Serving
<1>2. /\ settings' \in Seq(Folders)
      /\ Elements(settings') = Elements(settings) \cup {request[c]}
      /\ Unique(settings')
  BY <1>1, AppendElements
<1>3. request[c] \notin Elements(served)
  BY <1>1
<1>4. \A b \in Calls : b # c => add[b] \notin {"saving", "saved"}
  BY <1>1 DEF Saving
<1>5. CASE EnterFolder(c)
  BY <1>1, <1>2, <1>3, <1>4, <1>5 DEF EnterFolder
<1>6. CASE SaveThrows(c)
  BY <1>1, <1>2, <1>3, <1>4, <1>6 DEF SaveThrows
<1>7. CASE SaveElsewhere(c)
  BY <1>1, <1>2, <1>3, <1>4, <1>7 DEF SaveElsewhere
<1>. QED
  BY <1>5, <1>6, <1>7

(* The settings file is written, whole or cut.                             *)
LEMMA SaveStep ==
  ASSUME RegistryInv, NEW c \in Calls, SaveSettings(c) \/ SaveCut(c)
  PROVE  RegistryInv'
<1> USE DEF RegistryInv, RegistryTypeOK, CallInv, OwnInv, FileInv, OneManagerPerFolder, AddedIsKept,
            disk, others
<1>1. CASE SaveSettings(c)
  BY <1>1 DEF SaveSettings
<1>2. CASE SaveCut(c)
  BY <1>2 DEF SaveCut
<1>. QED
  BY <1>1, <1>2

(* The folder gets its manager, or not.                                    *)
LEMMA ServeStep ==
  ASSUME RegistryInv, NEW c \in Calls, ServeFolder(c) \/ ServeThrows(c)
  PROVE  RegistryInv'
<1> USE DEF RegistryInv, RegistryTypeOK, CallInv, OwnInv, FileInv, OneManagerPerFolder, AddedIsKept,
            disk, others
<1>1. CASE ServeFolder(c)
  <2>1. /\ add[c] = "saved" /\ stage = "serving" /\ request[c] \in Folders
        /\ request[c] \in Elements(settings) /\ request[c] \notin Elements(served)
    BY <1>1 DEF ServeFolder
  <2>2. /\ served' \in Seq(Folders)
        /\ Elements(served') = Elements(served) \cup {request[c]}
        /\ Unique(served')
    BY <1>1, <2>1, AppendElements DEF ServeFolder
  <2>3. \A b \in Calls : add'[b] \notin {"saving", "saved"}
    BY <1>1, <2>1 DEF ServeFolder
  <2>. QED
    BY <1>1, <2>1, <2>2, <2>3 DEF ServeFolder
<1>2. CASE ServeThrows(c)
  BY <1>2 DEF ServeThrows
<1>. QED
  BY <1>1, <1>2

(* The process dies; nothing that was true of the disk needs its memory.   *)
LEMMA DeathStep ==
  ASSUME RegistryInv, ProcessDies
  PROVE  RegistryInv'
<1>1. /\ Elements(<<>>) = {} /\ Unique(<<>>) /\ <<>> \in Seq(Folders)
  BY DEF Elements, Unique
<1>. QED
  BY <1>1 DEF ProcessDies, RegistryInv, RegistryTypeOK, CallInv, OwnInv, FileInv,
     OneManagerPerFolder, AddedIsKept, disk, NoRequests

-----------------------------------------------------------------------------
(* The inductive invariant: the steps above and the initial state.         *)
LEMMA RegistryInvariance == RegistrySpec => []RegistryInv
<1>1. RegistryInv /\ [RegistryNext]_registryVars => RegistryInv'
  <2> SUFFICES ASSUME RegistryInv, [RegistryNext]_registryVars PROVE RegistryInv'
    OBVIOUS
  <2>1. CASE Load
    BY <2>1, LoadStep
  <2>2. ASSUME NEW c \in Calls, NewCall(c) \/ AddBegins(c) \/ AddReturns(c) \/ AddDropped(c)
        PROVE  RegistryInv'
    BY <2>2, CallStep
  <2>3. ASSUME NEW c \in Calls, AddStep(c) PROVE RegistryInv'
    BY <2>3, InitStep, EnterStep, SaveStep, ServeStep DEF AddStep
  <2>4. CASE ProcessDies
    BY <2>4, DeathStep
  <2>5. CASE UNCHANGED registryVars
    BY <2>5 DEF registryVars, RegistryInv, RegistryTypeOK, CallInv, OwnInv, FileInv,
       OneManagerPerFolder, AddedIsKept
  <2>. QED
    BY <2>1, <2>2, <2>3, <2>4, <2>5 DEF RegistryNext
<1>. QED
  BY RegistryInvInit, <1>1, PTL DEF RegistrySpec

(* The files and the service's memory keep their types (settings.cpp,      *)
(* synchronizer.cpp); in particular only paths of folders are entered.     *)
THEOREM RegistryTypeCorrect == RegistrySpec => []RegistryTypeOK
<1>1. RegistryInv => RegistryTypeOK
  BY DEF RegistryInv
<1>. QED
  BY RegistryInvariance, <1>1, PTL

(* However calls of addFolder overlap, fail and are repeated after crashes *)
(* no folder has two entries or two managers: initRepoFolder and hg refuse *)
(* the second (hgbackend.cpp:156).                                         *)
THEOREM EachFolderOnce == RegistrySpec => []OneManagerPerFolder
<1>1. RegistryInv => OneManagerPerFolder
  BY DEF RegistryInv, OwnInv
<1>. QED
  BY RegistryInvariance, <1>1, PTL

(* A folder whose addFolder succeeded stays in every settings file that    *)
(* can be loaded, and is read from it, unless a mishap replaced the file.  *)
THEOREM AddedFoldersStay == RegistrySpec => []AddedIsKept
<1>1. RegistryInv => AddedIsKept
  BY DEF RegistryInv, FileInv
<1>. QED
  BY RegistryInvariance, <1>1, PTL

=============================================================================
