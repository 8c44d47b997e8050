--------------------------- MODULE MCFullTransfer ---------------------------
(* FullTransfer with archives of a few entries, of sizes around the limits. *)
EXTENDS FullTransfer, FiniteSets, SequencesExt

CONSTANTS d0, d1

Db(d, n) == [kind |-> "database", size |-> n, id |-> d]
File(k, n) == [kind |-> "file", key |-> k, size |-> n]
MapTo(name, n) == [kind |-> "map", size |-> n, json |-> "object", names |-> [k \in {"0"} |-> name]]
NoMap(json) == [kind |-> "map", size |-> 1, json |-> json]
Placeholder == [kind |-> "placeholder", size |-> 1]

\* At most two databases and maps, in any order and also twice; the largest entry
\* that is allowed has size 2.
Pairs == SeqOf({Db(d0, 1), Db(d1, 2), MapTo("a", 1), MapTo("a", 3)}, 2)

\* A database, a map and a file: the total is at most 3.
Orders(S) == {<<e, f, g>> : e, f, g \in S}
Triples ==
  {s \in Orders({Db(d1, 1), MapTo("a", 1), File("0", 1)}) : Cardinality({s[1], s[2], s[3]}) = 3}
  \cup {<<File("0", n), Db(d1, m), map>> :
          n \in 2..3, m \in 1..2, map \in {MapTo("a", 1), NoMap("malformed")}}
  \cup {<<Db(d0, 1), Db(d1, 3)>>, <<File("0", 1), MapTo("a", 1), MapTo(Invalid, 1)>>,
        <<Db(d1, 1), File("0", 1), MapTo(Invalid, 1)>>,
        <<File("1", 3), MapTo("a", 1), Db(d1, 1)>>,
        <<Db(d1, 1), MapTo(Invalid, 1), NoMap("null"), File("0", 1)>>}

SmallArchives ==
  Pairs \cup Triples
  \cup {<<Placeholder, Db(d1, 1), Placeholder>>,
        <<Db(d1, 1), Placeholder, Placeholder, Placeholder, Placeholder>>}
=============================================================================
