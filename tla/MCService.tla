------------------------------ MODULE MCService ------------------------------
(* Service for TLC: two calls, each ListFolders or AddFolder of one of two  *)
(* folders.                                                                 *)
EXTENDS Service

CONSTANTS c1, c2, f1, f2

(* If hg answers, every call whose task has reached the loop is finished:   *)
(* of one call, since nothing tells calls apart.                            *)
CallsFinish == CallFinishes(c1)
=============================================================================
