---------------------------- MODULE MCMediaStore ----------------------------
(* MediaStore with two requests at a time. *)
EXTENDS MediaStore, TLC

CONSTANTS a, x, y

Permuted == Permutations(Files) \cup Permutations(Bodies) \cup Permutations(Requests)
=============================================================================
