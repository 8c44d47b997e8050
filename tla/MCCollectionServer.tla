------------------------- MODULE MCCollectionServer -------------------------
(* CollectionServer with a few requests; the names a and b may share a file. *)
EXTENDS CollectionServer

CONSTANTS a, b, f, g

MCNames == {a, b}
OneFile == [n \in MCNames |-> f]
TwoFiles == [n \in MCNames |-> IF n = a THEN f ELSE g]
Single == [n \in {a} |-> f]
=============================================================================
