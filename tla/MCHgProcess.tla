----------------------------- MODULE MCHgProcess -----------------------------
(* HgProcess for TLC: two or three callers and two incarnations of hg.     *)
EXTENDS HgProcess, TLC

CONSTANTS c1, c2, c3, p1, p2

TwoCommands == {c1, c2}
ThreeCommands == {c1, c2, c3}
BadCommand == {c3}
TwoProcs == {p1, p2}
Interchangeable == Permutations({c1, c2}) \cup Permutations(TwoProcs)
=============================================================================
