------------------------------- MODULE NoteIds -------------------------------
(***************************************************************************)
(* How CreateDeck and AddNote (pkg/collection/write.go) choose ids and      *)
(* store decks, notes and cards.                                            *)
(*                                                                          *)
(* An id is the time in seconds times 1000 plus a random number below 1000; *)
(* the id of a card counts on from that of its note.  So ids of different   *)
(* rows may be equal, and the tables' primary keys decide what happens: the *)
(* transaction of AddNote is rolled back.  Decks of schema 11 have no key:  *)
(* they are a JSON object in the table col, read and written as a whole.    *)
(*                                                                          *)
(* AddNote makes a card for each template of the model that GetModels has   *)
(* read.  In schema 18 that may be too few: when rows of the templates, or  *)
(* all of them, cannot be read, getModelsV18 logs it and goes on.           *)
(*                                                                          *)
(* The mutex of a Collection keeps out its own process only.  SQLite        *)
(* (external) runs a transaction on a snapshot, lets one process write at a *)
(* time, and not one whose snapshot has been overtaken by a commit.         *)
(***************************************************************************)
EXTENDS Integers, FiniteSets

CONSTANTS
  Procs,        \* the processes that write the collection
  DeckNames, Default,
  Templates,    \* the number of templates of the note's model
  V18,          \* schema 18: decks are a table
  Span,         \* 1000: the ids of a second, the random numbers
  Second,       \* ticks of the clock in a second
  MaxTime,      \* bound: the clock
  MaxCommits    \* bound: no call starts after so many commits

ASSUME NamesAssumption == Default \in DeckNames
ASSUME SchemaAssumption == V18 \in BOOLEAN /\ Templates \in Nat \ {0}
ASSUME SpanAssumption == Span \in Nat \ {0, 1} /\ Second \in Nat \ {0}
ASSUME BoundsAssumption == MaxTime \in Nat /\ MaxCommits \in Nat

VARIABLES
  now,       \* the clock
  db,        \* the tables: decks, notes and cards
  version,   \* the number of commits, by which a stale snapshot is known
  writer,    \* the process that has written in its transaction, or NoOne
  pc,        \* where each process is in CreateDeck or AddNote
  tx,        \* its call: what it sees of the tables, and its local variables
  made       \* history: the decks of the calls that succeeded

vars == <<now, db, version, writer, pc, tx, made>>

Deck == [id : Nat, name : DeckNames]
Ords == 0 .. Templates - 1

\* "of" is a history: the templates that AddNote had read.
Note == [id : Nat, of : SUBSET Ords]
Card == [id : Nat, nid : Nat, ord : Nat, did : Nat]
Tables == [decks : SUBSET Deck, notes : SUBSET Note, cards : SUBSET Card]

NoOne == "no one"
ASSUME ProcsAssumption == NoOne \notin Procs
None == [op |-> "none"]
Tx == [op : {"deck", "note"}, base : Nat, db : Tables, name : DeckNames,
       did : Nat, nid : Nat, of : SUBSET Ords, todo : SUBSET Ords]

TypeOK ==
  /\ now \in Nat /\ version \in Nat
  /\ db \in Tables
  /\ writer \in Procs \cup {NoOne}
  /\ pc \in [Procs -> {"idle", "deck", "note", "card", "commit"}]
  /\ tx \in [Procs -> {None} \cup Tx]
  /\ \A p \in Procs : IF pc[p] = "idle" THEN tx[p] = None
                       ELSE tx[p] \in Tx /\ tx[p].todo \subseteq tx[p].of
  /\ \A p \in Procs : pc[p] \in {"card", "commit"} => writer = p /\ tx[p].base = version
  /\ writer # NoOne => pc[writer] \in {"note", "card", "commit"}
  /\ made \subseteq Nat

-----------------------------------------------------------------------------
(* Ids and rows                                                             *)

Unix == now \div Second

\* now*1000 + randInt(1000)
NewIds == {Unix * Span + r : r \in 0 .. Span - 1}

\* noteID + ORD*1000 + randInt(1000)
CardIds(nid, ord) == {nid + ord * Span + r : r \in 0 .. Span - 1}

IdsOf(rows) == {r.id : r \in rows}

\* Mutant: INSERT OR REPLACE.
InsertableAlways(rows, id) == TRUE

\* A row may be inserted unless its primary key is taken.
Insertable(rows, id) == id \notin IdsOf(rows)

\* Mutant: schema 18 too writes the decks as they were read.
SavedAsRead(stored, read, d) == {x \in read : x.id # d.id} \cup {d}

\* A new deck d among those stored.  Schema 11 writes the object that was read,
\* decks[id] = d, whatever it had under this id.
Saved(stored, read, d) ==
  IF V18 THEN stored \cup {d} ELSE {x \in read : x.id # d.id} \cup {d}

-----------------------------------------------------------------------------
(* Operations                                                               *)

CanStore == version < MaxCommits

\* GetModels: the templates of the note's model that it may return.
ModelRead == IF V18 THEN SUBSET Ords ELSE {Ords}

\* CreateDeck or AddNote: the mutex is taken, AddNote calls GetModels, and the
\* decks are read.
Start(p) ==
  /\ pc[p] = "idle" /\ CanStore
  /\ \E op \in {"deck", "note"}, name \in DeckNames :
     \E read \in IF op = "note" THEN ModelRead ELSE {{}} :
       tx' = [tx EXCEPT ![p] = [op |-> op, base |-> version, db |-> db, name |-> name,
                                did |-> 0, nid |-> 0, of |-> read, todo |-> read]]
  /\ pc' = [pc EXCEPT ![p] = "deck"]
  /\ UNCHANGED <<now, db, version, writer, made>>

Return(p) ==
  /\ pc' = [pc EXCEPT ![p] = "idle"]
  /\ tx' = [tx EXCEPT ![p] = None]

\* Mutant: the transaction of a call that fails stays open.
NoRollback(p) == writer

Rollback(p) == IF writer = p THEN NoOne ELSE writer

\* Any step may fail, also because a primary key is taken, or panic, as AddNote does
\* with a negative sort field: the transaction, if there is one, is rolled back.
Fail(p) ==
  /\ pc[p] # "idle"
  /\ Return(p)
  /\ writer' = Rollback(p)
  /\ UNCHANGED <<now, db, version, made>>

NameTaken(t) == \E d \in t.db.decks : d.name = t.name

\* A deck of that name exists: CreateDeck returns its id.
FindDeck(p) ==
  LET t == tx[p] IN
  /\ pc[p] = "deck"
  /\ IF t.op = "deck" THEN NameTaken(t) /\ Return(p)
     ELSE \E d \in t.db.decks :
            /\ d.name = t.name
            /\ tx' = [tx EXCEPT ![p].did = d.id]
            /\ pc' = [pc EXCEPT ![p] = "note"]
  /\ UNCHANGED <<now, db, version, writer, made>>

\* CreateDeck stores a new deck, in one statement and no transaction.
StoreDeck(p) ==
  LET t == tx[p] IN
  /\ pc[p] = "deck" /\ t.op = "deck" /\ ~NameTaken(t)
  /\ writer = NoOne
  /\ \E id \in NewIds :
       /\ V18 => Insertable(db.decks, id)
       /\ db' = [db EXCEPT !.decks = Saved(@, t.db.decks, [id |-> id, name |-> t.name])]
       /\ made' = made \cup {id}
  /\ version' = version + 1
  /\ Return(p)
  /\ UNCHANGED <<now, writer>>

\* The first write of a transaction must come before another's commit.
MayWrite(p) == writer = p \/ (writer = NoOne /\ tx[p].base = version)

\* Mutant: AddNote calls createDeckUnlocked, which has no transaction.
NewDeckOutside(p) ==
  LET t == tx[p] IN
  /\ pc[p] = "deck" /\ t.op = "note" /\ ~NameTaken(t)
  /\ MayWrite(p)
  /\ \E id \in NewIds :
       LET decks == Saved(t.db.decks, t.db.decks, [id |-> id, name |-> t.name])
       IN /\ V18 => Insertable(t.db.decks, id)
          /\ db' = [db EXCEPT !.decks = decks]
          /\ tx' = [tx EXCEPT ![p].did = id, ![p].db.decks = decks]
  /\ writer' = p
  /\ pc' = [pc EXCEPT ![p] = "note"]
  /\ UNCHANGED <<now, version, made>>

\* AddNote makes the deck of its note within its transaction.
NewDeck(p) ==
  LET t == tx[p] IN
  /\ pc[p] = "deck" /\ t.op = "note" /\ ~NameTaken(t)
  /\ MayWrite(p)
  /\ \E id \in NewIds :
       /\ V18 => Insertable(t.db.decks, id)
       /\ tx' = [tx EXCEPT ![p].did = id,
                           ![p].db.decks = Saved(@, @, [id |-> id, name |-> t.name])]
  /\ writer' = p
  /\ pc' = [pc EXCEPT ![p] = "note"]
  /\ UNCHANGED <<now, db, version, made>>

\* Mutant: for i := 0; i < len(model.Templates)-1; i++
AllButOne(todo) == IF Cardinality(todo) <= 1 THEN "commit" ELSE "card"

CardsOrCommit(todo) == IF todo = {} THEN "commit" ELSE "card"

InsertNote(p) ==
  LET t == tx[p] IN
  /\ pc[p] = "note"
  /\ MayWrite(p)
  /\ \E id \in NewIds :
       /\ Insertable(t.db.notes, id)
       /\ tx' = [tx EXCEPT ![p].nid = id,
                           ![p].db.notes = @ \cup {[id |-> id, of |-> t.of]}]
  /\ writer' = p
  /\ pc' = [pc EXCEPT ![p] = CardsOrCommit(t.todo)]
  /\ UNCHANGED <<now, db, version, made>>

\* One card per template that was read, in their order.
InsertCard(p) ==
  LET t   == tx[p]
      ord == CHOOSE o \in t.todo : \A q \in t.todo : o <= q IN
  /\ pc[p] = "card"
  /\ \E id \in CardIds(t.nid, ord) :
       /\ Insertable(t.db.cards, id)
       /\ tx' = [tx EXCEPT ![p].todo = @ \ {ord},
                           ![p].db.cards = {c \in @ : c.id # id} \cup
                              {[id |-> id, nid |-> t.nid, ord |-> ord, did |-> t.did]}]
  /\ pc' = [pc EXCEPT ![p] = CardsOrCommit(t.todo \ {ord})]
  /\ UNCHANGED <<now, db, version, writer, made>>

Commit(p) ==
  /\ pc[p] = "commit"
  /\ db' = tx[p].db
  /\ version' = version + 1
  /\ writer' = NoOne
  /\ made' = made \cup {tx[p].did}
  /\ Return(p)
  /\ UNCHANGED now

Tick ==
  /\ now < MaxTime
  /\ now' = now + 1
  /\ UNCHANGED <<db, version, writer, pc, tx, made>>

-----------------------------------------------------------------------------

Init ==
  /\ now = Second
  /\ db = [decks |-> {[id |-> 1, name |-> Default]}, notes |-> {}, cards |-> {}]
  /\ version = 0 /\ writer = NoOne
  /\ pc = [p \in Procs |-> "idle"]
  /\ tx = [p \in Procs |-> None]
  /\ made = {1}

Next ==
  \/ Tick
  \/ \E p \in Procs :
       \/ Start(p) \/ FindDeck(p) \/ StoreDeck(p) \/ NewDeck(p)
       \/ InsertNote(p) \/ InsertCard(p) \/ Commit(p) \/ Fail(p)

Spec == Init /\ [][Next]_vars

-----------------------------------------------------------------------------
(* Properties                                                               *)

(* AddNote is atomic, whatever ids it draws: a stored note has one card for *)
(* each template that AddNote had read, in a deck that exists, and every    *)
(* card has a note.                                                         *)
NoteWhole ==
  /\ \A n \in db.notes, ord \in Ords :
       Cardinality({c \in db.cards : c.nid = n.id /\ c.ord = ord})
         = IF ord \in n.of THEN 1 ELSE 0
  /\ \A c \in db.cards : c.nid \in IdsOf(db.notes) /\ c.did \in IdsOf(db.decks)

(* An AddNote that fails leaves no deck behind: every deck is one that a    *)
(* call of CreateDeck or AddNote found or made, and then succeeded.         *)
DecksAccounted == IdsOf(db.decks) \subseteq made

(* "CreateDeck creates a new deck" (write.go:188), and AddNote may create   *)
(* one: neither changes a deck that is there.                               *)
DecksKept == [][db.decks \subseteq db'.decks]_vars

(* The mutex and SQLite are "sufficient serialization" (collection.go:90):  *)
(* no deck disappears, though another deck may take over its id.            *)
DeckIdsKept == [][IdsOf(db.decks) \subseteq IdsOf(db'.decks)]_vars
=============================================================================
