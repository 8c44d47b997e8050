--------------------------- MODULE CollectionSync ---------------------------
(***************************************************************************)
(* The part of a collection that synchronisation reads and writes           *)
(* (pkg/collection/sync.go), as pure operators on a record of tables.       *)
(*                                                                          *)
(* A table is a set of rows.  Of a row we keep its key, its modification    *)
(* time mod (which also stands for its content: two versions of a row have  *)
(* different times) and its update sequence number usn.  A card also keeps  *)
(* its deck; its note, which no operation changes, is the constant NoteOf.  *)
(***************************************************************************)
EXTENDS Integers, FiniteSetsExt

CONSTANTS
  Cards, Notes, Decks,  \* the keys of the three tables
  DefaultDeck,          \* deck 1, which receives the cards of a deleted deck
  NoteOf,               \* the column nid of cards
  V18                   \* schema 18: decks are a table, not a JSON blob

ASSUME KeysAssumption ==
  /\ DefaultDeck \in Decks
  /\ NoteOf \in [Cards -> Notes]
  /\ Cards \cap Notes = {} /\ Cards \cap Decks = {} /\ Notes \cap Decks = {}
ASSUME SchemaAssumption == V18 \in BOOLEAN

Key == Cards \cup Notes \cup Decks

Pending == -1           \* usn of a row changed here and not yet uploaded
Usn == Nat \cup {Pending}

CardRow == [id : Cards, did : Decks, mod : Nat, usn : Usn]
NoteRow == [id : Notes, mod : Nat, usn : Usn]
DeckRow == [id : Decks, mod : Nat, usn : Usn]
GraveRow == [oid : Key, usn : Usn]

Tables == [cards : SUBSET CardRow, notes : SUBSET NoteRow,
           decks : SUBSET DeckRow, graves : SUBSET GraveRow]

Ids(rows) == {r.id : r \in rows}
Oids(graves) == {g.oid : g \in graves}

(***************************************************************************)
(* The highest usn: the maximum over the tables of each table's maximum,    *)
(* where an empty table counts as 0.  A schema 11 collection keeps its      *)
(* decks in a JSON blob that the query does not look at.                    *)
(***************************************************************************)
UsnTables == {"cards", "notes", "graves"} \cup (IF V18 THEN {"decks"} ELSE {})

UsnsOf(rows) == IF rows = {} THEN {0} ELSE {r.usn : r \in rows}

maxUSN(c) == Max(UNION {UsnsOf(c[t]) : t \in UsnTables})

\* Mutant: WHERE usn > ?
ChangedSinceNoPending(rows, since) == {r \in rows : r.usn > since}

\* WHERE usn = -1 OR usn > ?
ChangedSince(rows, since) == {r \in rows : r.usn = Pending \/ r.usn > since}

\* INSERT OR REPLACE of the rows new
Put(rows, new) == {r \in rows : r.id \notin Ids(new)} \cup new

(***************************************************************************)
(* One transaction: replace rows, then bury the objects of delta's graves.  *)
(* A buried note takes its cards with it, the cards of a buried deck move   *)
(* to the default deck (without becoming pending), and the local record of  *)
(* a grave disappears.                                                      *)
(***************************************************************************)
\* Mutant: the cards of a buried deck get the key of the wrong table.
RehomeToNote(r, dead) == IF r.did \in dead THEN [r EXCEPT !.did = NoteOf[r.id]] ELSE r

Rehome(r, dead) == IF r.did \in dead THEN [r EXCEPT !.did = DefaultDeck] ELSE r

\* Mutant: DELETE FROM cards WHERE nid = ? is missing.
CardBuriedByKey(id, dead) == id \in dead

CardBuried(id, dead) == id \in dead \/ NoteOf[id] \in dead

ApplyChanges(c, delta) ==
  LET dead == Oids(delta.graves)
      live == {r \in Put(c.cards, delta.cards) : ~CardBuried(r.id, dead)}
  IN  [cards  |-> {Rehome(r, dead) : r \in live},
       notes  |-> {r \in Put(c.notes, delta.notes) : r.id \notin dead},
       decks  |-> {r \in Put(c.decks, delta.decks) : r.id \notin dead},
       graves |-> {g \in c.graves : g.oid \notin dead}]

\* UPDATE ... SET usn = ? WHERE usn = -1
Stamp(rows, usn) ==
  {IF r.usn = Pending THEN [r EXCEPT !.usn = usn] ELSE r : r \in rows}

MarkSynced(c, usn) ==
  [cards  |-> Stamp(c.cards, usn), notes  |-> Stamp(c.notes, usn),
   decks  |-> Stamp(c.decks, usn), graves |-> Stamp(c.graves, usn)]

\* The graves table has no key, so an older record of the same object stays.
AddGrave(c, oid) == [c EXCEPT !.graves = @ \cup {[oid |-> oid, usn |-> Pending]}]
=============================================================================
