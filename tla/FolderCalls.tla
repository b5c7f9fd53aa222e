---------------------------- MODULE FolderCalls ----------------------------
(***************************************************************************)
(* The calls of the gRPC interface FolderManagement (service.proto,        *)
(* uigate/foldermanagementgrpc.cpp): AddFolder, which names a folder, and  *)
(* ListFolders, which does not.  RemoveFolder is left out: it returns no   *)
(* reactor, and gRPC answers that it is not implemented.                   *)
(***************************************************************************)

CONSTANTS Calls,      \* calls that gRPC accepts in one life of the process
          Folders,    \* paths of folders
          NoFolder    \* what ListFolders is called for

ASSUME NoFolderIsNone == NoFolder \notin Folders

VARIABLE request      \* the folder of each call, or NoFolder

NoRequests == [c \in Calls |-> NoFolder]

=============================================================================
