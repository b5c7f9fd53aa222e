---------------------------- MODULE MCPatchFiles -----------------------------
(* Constants for TLC: two patches to receive, one to send, two crashes.     *)
EXTENDS PatchFiles

CONSTANTS p1, p2, q1

=============================================================================
