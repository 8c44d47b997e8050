---------------------------- MODULE MCDeltaSync ----------------------------
(* DeltaSync on a small collection: two notes of one card each, two decks.   *)
EXTENDS DeltaSync

CONSTANTS c1, c2, n1, n2, d1, d2

MCCards == {c1, c2}
MCNotes == {n1, n2}
MCDecks == {d1, d2}
MCNoteOf == [c \in MCCards |-> IF c = c1 THEN n1 ELSE n2]
MCSeed == {n1}
=============================================================================
