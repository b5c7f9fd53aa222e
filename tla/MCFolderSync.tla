----------------------------- MODULE MCFolderSync -----------------------------
(* FolderSync for TLC: two devices that share a cloud folder.              *)
EXTENDS FolderSync, TLC

CONSTANTS d1, d2

TwoDevices == {d1, d2}
Interchangeable == Permutations(TwoDevices)
=============================================================================
