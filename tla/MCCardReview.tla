---------------------------- MODULE MCCardReview ----------------------------
(* CardReview with days of two seconds, and with two cards: c1 has come with *)
(* the collection, c2 is to be made by AddNote.                              *)
EXTENDS CardReview, TLC

CONSTANTS c1, c2

MCCards == {c1, c2}
SomeImported == [c \in {c1} |-> 1]
NoneImported == [c \in {} |-> 0]

Symmetry == Permutations(Procs)
=============================================================================
