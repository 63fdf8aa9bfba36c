---------------------------- MODULE MCBootMirror ----------------------------
(***************************************************************************)
(* Two jobs of a node and two detach requests.                             *)
(***************************************************************************)
EXTENDS BootMirror, TLC

CONSTANTS j1, j2, c1, c2

Interchangeable == Permutations(Jobs) \cup Permutations(Calls)
=============================================================================
