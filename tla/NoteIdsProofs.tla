--------------------------- MODULE NoteIdsProofs ---------------------------
(***************************************************************************)
(* What is proved of NoteIds, for any number of processes, templates, ids   *)
(* in a second and commits.                                                 *)
(***************************************************************************)
EXTENDS NoteIds, FiniteSetTheorems, WellFoundedInduction, TLAPS

CardsOf(t, nid, ord) == {c \in t.cards : c.nid = nid /\ c.ord = ord}

\* Exactly one card, and none.
One(t, nid, ord) == \E c \in t.cards : CardsOf(t, nid, ord) = {c}
NoCard(t, nid, ord) == CardsOf(t, nid, ord) = {}

(* Tables t in which every note but those of the set "open" is whole.       *)
Sound(t, open) ==
  /\ \A n, m \in t.notes : n.id = m.id => n = m
  /\ \A n \in t.notes, ord \in Ords : n.id \notin open =>
       IF ord \in n.of THEN One(t, n.id, ord) ELSE NoCard(t, n.id, ord)
  /\ \A c \in t.cards : c.nid \in IdsOf(t.notes)

\* In schema 18 the decks of the cards exist.
Housed(t) == V18 => \A c \in t.cards : c.did \in IdsOf(t.decks)

(* A transaction between the note and the last card: the note that is being *)
(* added has the cards that are done.                                       *)
Adding(t) ==
  /\ Sound(t.db, {t.nid})
  /\ [id |-> t.nid, of |-> t.of] \in t.db.notes
  /\ \A ord \in Ords : IF ord \in t.of \ t.todo THEN One(t.db, t.nid, ord)
                       ELSE NoCard(t.db, t.nid, ord)

(* What a process at this point of its call sees of the tables is sound.    *)
Seen(t, at) ==
  /\ at \in {"deck", "note"} => Sound(t.db, {}) /\ t.todo = t.of
  /\ at \in {"card", "commit"} => Adding(t) /\ (at = "commit" <=> t.todo = {})
  /\ Housed(t.db)
  /\ at # "deck" => t.did \in IdsOf(t.db.decks)

(* Its snapshot is no newer than the tables, and of its decks only the one  *)
(* that the call itself has made is not yet accounted for.                  *)
Accounted(t, at) ==
  /\ t.base <= version
  /\ V18 /\ t.base = version => db.decks \subseteq t.db.decks
  /\ IdsOf(t.db.decks) \subseteq IF at = "deck" THEN made ELSE made \cup {t.did}

Snapshots == \A p \in Procs : pc[p] # "idle" => Seen(tx[p], pc[p]) /\ Accounted(tx[p], pc[p])

\* Nobody has overtaken the snapshot of a transaction that has written.
Ahead == writer # NoOne => tx[writer].base = version

IInv ==
  /\ TypeOK /\ Snapshots /\ Ahead
  /\ Sound(db, {}) /\ Housed(db) /\ DecksAccounted

-----------------------------------------------------------------------------
(* Numbers                                                                  *)

\* The templates come one after the other: there is always a first.
LEMMA Least ==
  ASSUME NEW T \in SUBSET Nat, T # {}
  PROVE  \E x \in T : \A y \in T : x <= y
<1>1. \E x \in T : \A y \in T : ~(<<y, x>> \in OpToRel(<, Nat))
  BY NatLessThanWellFounded, WFMin
<1>2. \A x, y \in T : ~(<<y, x>> \in OpToRel(<, Nat)) => x <= y
  BY DEF OpToRel
<1> QED
  BY <1>1, <1>2

LEMMA FirstOf ==
  ASSUME NEW T \in SUBSET Ords, T # {}
  PROVE  (CHOOSE o \in T : \A q \in T : o <= q) \in T
<1>1. T \in SUBSET Nat
  BY SchemaAssumption DEF Ords
<1>2. \E o \in T : \A q \in T : o <= q
  BY <1>1, Least
<1> QED
  BY <1>2

\* now*1000 + randInt(1000), and what is counted on from it.
LEMMA IdsAreNumbers ==
  ASSUME now \in Nat
  PROVE  /\ NewIds \subseteq Nat
         /\ \A nid \in Nat, ord \in Ords : CardIds(nid, ord) \subseteq Nat
<1>1. Span \in Nat /\ Second \in Nat \ {0} /\ Ords \subseteq Nat
  BY SpanAssumption, SchemaAssumption DEF Ords
<1>2. Unix \in Nat
  BY <1>1 DEF Unix
<1>3. \A a \in Nat : a * Span \in Nat
  BY <1>1
<1>4. \A a, b \in Nat : a + b * Span \in Nat
  BY <1>3
<1>5. \A a \in Nat : a \in Nat => {a + r : r \in 0 .. Span - 1} \subseteq Nat
  BY <1>1
<1>6. NewIds \subseteq Nat
  BY <1>2, <1>3, <1>5 DEF NewIds
<1>7. \A nid \in Nat, ord \in Ords : CardIds(nid, ord) \subseteq Nat
  BY <1>1, <1>4, <1>5 DEF CardIds
<1> QED
  BY <1>6, <1>7

-----------------------------------------------------------------------------
(* Rows                                                                     *)

\* How many cards a template has.
LEMMA Counted ==
  ASSUME NEW t, NEW nid, NEW ord
  PROVE  /\ One(t, nid, ord) => Cardinality(CardsOf(t, nid, ord)) = 1
         /\ NoCard(t, nid, ord) => Cardinality(CardsOf(t, nid, ord)) = 0
  BY FS_Singleton, FS_EmptySet DEF One, NoCard

\* INSERT INTO notes: the new note has no cards yet.
LEMMA NoteInserted ==
  ASSUME NEW t, NEW u, NEW n, Sound(t, {}), Insertable(t.notes, n.id),
         u.notes = t.notes \cup {n}, u.cards = t.cards
  PROVE  /\ Sound(u, {n.id})
         /\ \A ord \in Ords : NoCard(u, n.id, ord)
<1>1. \A m \in t.notes : m.id # n.id
  BY DEF Insertable, IdsOf
<1>2. \A nid, ord : CardsOf(u, nid, ord) = CardsOf(t, nid, ord)
  BY DEF CardsOf
<1>3. \A c \in t.cards : c.nid \in IdsOf(t.notes) /\ c.nid # n.id
  BY DEF Sound, Insertable
<1>4. \A ord \in Ords : NoCard(u, n.id, ord)
  BY <1>2, <1>3 DEF NoCard, CardsOf
<1>5. \A k, m \in u.notes : k.id = m.id => k = m
  BY <1>1 DEF Sound
<1>6. ASSUME NEW m \in u.notes, NEW ord \in Ords, m.id \notin {n.id}
      PROVE  IF ord \in m.of THEN One(u, m.id, ord) ELSE NoCard(u, m.id, ord)
  <2>1. m \in t.notes
    BY <1>6
  <2>2. IF ord \in m.of THEN One(t, m.id, ord) ELSE NoCard(t, m.id, ord)
    BY <2>1 DEF Sound
  <2> QED
    BY <2>2, <1>2 DEF One, NoCard
<1>7. \A c \in u.cards : c.nid \in IdsOf(u.notes)
  BY <1>3 DEF IdsOf
<1> QED
  BY <1>4, <1>5, <1>6, <1>7 DEF Sound

\* INSERT INTO cards: one card more, of the note that is being added.
LEMMA CardInserted ==
  ASSUME NEW t, NEW u, NEW n, NEW c, Sound(t, {n.id}), n \in t.notes,
         c.nid = n.id, c.ord \in Ords, NoCard(t, n.id, c.ord),
         u.notes = t.notes, u.cards = t.cards \cup {c}
  PROVE  /\ Sound(u, {n.id})
         /\ One(u, n.id, c.ord)
         /\ \A ord \in Ords \ {c.ord} : CardsOf(u, n.id, ord) = CardsOf(t, n.id, ord)
<1>1. CardsOf(u, n.id, c.ord) = {c}
  BY DEF CardsOf, NoCard
<1>2. One(u, n.id, c.ord)
  BY <1>1 DEF One
<1>3. \A nid, ord : nid # n.id \/ ord # c.ord => CardsOf(u, nid, ord) = CardsOf(t, nid, ord)
  BY DEF CardsOf
<1>4. ASSUME NEW m \in u.notes, NEW ord \in Ords, m.id \notin {n.id}
      PROVE  IF ord \in m.of THEN One(u, m.id, ord) ELSE NoCard(u, m.id, ord)
  <2>1. IF ord \in m.of THEN One(t, m.id, ord) ELSE NoCard(t, m.id, ord)
    BY <1>4 DEF Sound
  <2>2. CardsOf(u, m.id, ord) = CardsOf(t, m.id, ord)
    BY <1>3, <1>4
  <2> QED
    BY <2>1, <2>2 DEF One, NoCard
<1>5. \A d \in u.cards : d.nid \in IdsOf(u.notes)
  BY DEF Sound, IdsOf
<1>6. \A k, m \in u.notes : k.id = m.id => k = m
  BY DEF Sound
<1>7. Sound(u, {n.id})
  BY <1>4, <1>5, <1>6 DEF Sound
<1> QED
  BY <1>2, <1>3, <1>7

\* After the last card the note is whole.
LEMMA Completed ==
  ASSUME NEW t \in Tx, Adding(t), t.todo = {}
  PROVE  Sound(t.db, {})
<1> DEFINE n0 == [id |-> t.nid, of |-> t.of]
<1>1. Sound(t.db, {t.nid}) /\ n0 \in t.db.notes
  BY DEF Adding
<1>2. \A ord \in Ords : IF ord \in t.of THEN One(t.db, t.nid, ord) ELSE NoCard(t.db, t.nid, ord)
  BY DEF Adding
<1>3. ASSUME NEW n \in t.db.notes, n.id = t.nid
      PROVE  n.of = t.of
  BY <1>1, <1>3 DEF Sound
<1>4. ASSUME NEW n \in t.db.notes, NEW ord \in Ords
      PROVE  IF ord \in n.of THEN One(t.db, n.id, ord) ELSE NoCard(t.db, n.id, ord)
  <2>1. CASE n.id = t.nid
    BY <2>1, <1>2, <1>3
  <2>2. CASE n.id # t.nid
    BY <2>2, <1>1 DEF Sound
  <2> QED
    BY <2>1, <2>2
<1> QED
  BY <1>1, <1>4 DEF Sound

\* Sound says nothing about the decks, and more decks house the cards as well.
LEMMA DecksApart ==
  ASSUME NEW t, NEW u, NEW open, u.notes = t.notes, u.cards = t.cards
  PROVE  /\ Sound(t, open) => Sound(u, open)
         /\ Housed(t) /\ IdsOf(t.decks) \subseteq IdsOf(u.decks) => Housed(u)
<1>1. \A nid, ord : CardsOf(u, nid, ord) = CardsOf(t, nid, ord)
  BY DEF CardsOf
<1>2. \A nid, ord : (One(u, nid, ord) <=> One(t, nid, ord)) /\ (NoCard(u, nid, ord) <=> NoCard(t, nid, ord))
  BY <1>1 DEF One, NoCard
<1>3. Sound(t, open) => Sound(u, open)
  BY <1>2 DEF Sound
<1> QED
  BY <1>3 DEF Housed

\* In schema 18 a new deck is added to those that are stored.
LEMMA SavedDecks ==
  ASSUME NEW stored \in SUBSET Deck, NEW read \in SUBSET Deck, NEW d \in Deck
  PROVE  /\ Saved(stored, read, d) \in SUBSET Deck
         /\ d \in Saved(stored, read, d)
         /\ IdsOf(Saved(stored, read, d)) \subseteq IdsOf(stored) \cup IdsOf(read) \cup {d.id}
         /\ V18 => stored \cup {d} = Saved(stored, read, d)
  BY SchemaAssumption DEF Saved, IdsOf

-----------------------------------------------------------------------------
(* Steps within a call                                                      *)

\* A step of p within its call leads to u and to the point "at"; it writes only if
\* nobody else does and no commit has overtaken it.
Within(p, u, at) ==
  /\ u \in Tx /\ u.todo \subseteq u.of
  /\ at \in {"deck", "note", "card", "commit"}
  /\ tx' = [tx EXCEPT ![p] = u]
  /\ pc' = [pc EXCEPT ![p] = at]
  /\ \/ writer' = p /\ u.base = version /\ writer \in {p, NoOne} /\ at # "deck"
     \/ writer' = writer /\ at \in {"deck", "note"} /\ pc[p] \in {"idle", "deck"}
  /\ UNCHANGED <<db, version, made>>
  /\ now' \in Nat
  /\ Seen(u, at) /\ Accounted(u, at)

LEMMA WithinKeeps ==
  ASSUME IInv, NEW p \in Procs, NEW u, NEW at, Within(p, u, at)
  PROVE  IInv'
<1>1. TypeOK /\ NoOne # p /\ tx \in [Procs -> {None} \cup Tx]
      /\ pc \in [Procs -> {"idle", "deck", "note", "card", "commit"}]
  BY ProcsAssumption DEF IInv, TypeOK
<1>2. tx'[p] = u /\ pc'[p] = at /\ \A q \in Procs \ {p} : tx'[q] = tx[q] /\ pc'[q] = pc[q]
  BY <1>1 DEF Within
<1>3. TypeOK'
  <2>1. now' \in Nat /\ version' \in Nat /\ db' \in Tables /\ made' \subseteq Nat
        /\ tx' \in [Procs -> {None} \cup Tx]
        /\ pc' \in [Procs -> {"idle", "deck", "note", "card", "commit"}]
    BY <1>1 DEF Within, TypeOK
  <2>2. writer' \in Procs \cup {NoOne}
    BY <1>1 DEF Within, TypeOK
  <2>3. \A q \in Procs : IF pc'[q] = "idle" THEN tx'[q] = None
                         ELSE tx'[q] \in Tx /\ tx'[q].todo \subseteq tx'[q].of
    BY <1>1, <1>2 DEF Within, TypeOK
  <2>4. \A q \in Procs : pc'[q] \in {"card", "commit"} => writer' = q /\ tx'[q].base = version'
    BY <1>1, <1>2, ProcsAssumption DEF Within, TypeOK
  <2>5. writer' # NoOne => pc'[writer'] \in {"note", "card", "commit"}
    BY <1>1, <1>2 DEF Within, TypeOK
  <2> QED
    BY <2>1, <2>2, <2>3, <2>4, <2>5 DEF TypeOK
<1>4. Snapshots'
  <2> SUFFICES ASSUME NEW q \in Procs, pc'[q] # "idle"
               PROVE  Seen(tx[q], pc[q])' /\ Accounted(tx[q], pc[q])'
    BY DEF Snapshots
  <2>1. db' = db /\ version' = version /\ made' = made
    BY DEF Within
  <2>2. CASE q = p
    BY <1>2, <2>1, <2>2 DEF Within, Seen, Accounted, Sound, Adding, Housed, One, NoCard, CardsOf, IdsOf
  <2>3. CASE q # p
    <3>1. Seen(tx[q], pc[q]) /\ Accounted(tx[q], pc[q])
      BY <1>2, <2>3 DEF IInv, Snapshots
    <3> QED
      BY <1>2, <2>1, <2>3, <3>1
         DEF Seen, Accounted, Sound, Adding, Housed, One, NoCard, CardsOf, IdsOf
  <2> QED
    BY <2>2, <2>3
<1>5. Sound(db, {})' /\ Housed(db)' /\ DecksAccounted'
  BY DEF IInv, Within, Sound, Housed, DecksAccounted, One, NoCard, CardsOf, IdsOf
<1>6. Ahead'
  BY <1>1, <1>2 DEF IInv, Within, Ahead, TypeOK
<1> QED
  BY <1>3, <1>4, <1>5, <1>6 DEF IInv

\* What a process knows at its point of a call.
LEMMA AtPoint ==
  ASSUME IInv, NEW p \in Procs, pc[p] # "idle"
  PROVE  /\ TypeOK /\ tx[p] \in Tx /\ tx[p].todo \subseteq tx[p].of
         /\ tx \in [Procs -> {None} \cup Tx]
         /\ pc \in [Procs -> {"idle", "deck", "note", "card", "commit"}]
         /\ Seen(tx[p], pc[p]) /\ Accounted(tx[p], pc[p])
  BY DEF IInv, TypeOK, Snapshots

\* CreateDeck and AddNote begin with the tables as they are.
LEMMA StartKeeps ==
  ASSUME IInv, NEW p \in Procs, Start(p)
  PROVE  IInv'
<1>1. PICK op \in {"deck", "note"}, name \in DeckNames : \E r \in IF op = "note" THEN ModelRead ELSE {{}} :
        tx' = [tx EXCEPT ![p] = [op |-> op, base |-> version, db |-> db, name |-> name,
                                 did |-> 0, nid |-> 0, of |-> r, todo |-> r]]
  BY DEF Start
<1>2. PICK r \in IF op = "note" THEN ModelRead ELSE {{}} :
        tx' = [tx EXCEPT ![p] = [op |-> op, base |-> version, db |-> db, name |-> name,
                                 did |-> 0, nid |-> 0, of |-> r, todo |-> r]]
  BY <1>1
<1> DEFINE u == [op |-> op, base |-> version, db |-> db, name |-> name,
                 did |-> 0, nid |-> 0, of |-> r, todo |-> r]
<1>3. r \in SUBSET Ords
  BY SchemaAssumption DEF ModelRead
<1>4. u \in Tx /\ u.todo = u.of /\ u.db = db /\ u.base = version
  BY <1>3 DEF IInv, TypeOK, Tx
<1>5. tx' = [tx EXCEPT ![p] = u]
  BY <1>2
<1> HIDE DEF u
<1>6. Seen(u, "deck")
  BY <1>4 DEF IInv, Seen
<1>7. Accounted(u, "deck")
  BY <1>4 DEF IInv, Accounted, DecksAccounted, TypeOK
<1>8. Within(p, u, "deck")
  BY <1>4, <1>5, <1>6, <1>7 DEF Within, Start, IInv, TypeOK
<1> QED
  BY <1>8, WithinKeeps

\* AddNote finds its deck.
LEMMA DeckFound ==
  ASSUME IInv, NEW p \in Procs, pc[p] = "deck", tx[p].op = "note", FindDeck(p)
  PROVE  IInv'
<1> DEFINE t == tx[p]
<1>1. /\ t \in Tx /\ t.todo \subseteq t.of /\ TypeOK
      /\ Seen(t, "deck") /\ Accounted(t, "deck")
  BY AtPoint
<1>2. PICK d \in t.db.decks : tx' = [tx EXCEPT ![p].did = d.id] /\ pc' = [pc EXCEPT ![p] = "note"]
  BY DEF FindDeck
<1> DEFINE u == [t EXCEPT !.did = d.id]
<1>3. tx' = [tx EXCEPT ![p] = u]
  BY <1>2
<1>4. d \in Deck
  BY <1>1 DEF Tx, Tables
<1>5. /\ u \in Tx /\ u.db = t.db /\ u.did = d.id /\ u.todo = t.todo /\ u.of = t.of
      /\ u.base = t.base
  BY <1>1, <1>4 DEF Tx, Deck
<1> HIDE DEF u
<1>6. Seen(u, "note")
  BY <1>1, <1>2, <1>5 DEF Seen, IdsOf
<1>7. Accounted(u, "note")
  BY <1>1, <1>5 DEF Accounted
<1>8. UNCHANGED <<now, db, version, writer, made>>
  BY DEF FindDeck
<1>9. Within(p, u, "note")
  BY <1>1, <1>2, <1>3, <1>5, <1>6, <1>7, <1>8 DEF Within, TypeOK
<1> QED
  BY <1>9, WithinKeeps

\* A process that writes is the only one, on a snapshot that nobody has overtaken.
LEMMA Writes ==
  ASSUME IInv, NEW p \in Procs, MayWrite(p)
  PROVE  tx[p].base = version /\ writer \in {p, NoOne}
  BY ProcsAssumption DEF MayWrite, IInv, Ahead

\* AddNote makes its deck.
LEMMA DeckMade ==
  ASSUME IInv, NEW p \in Procs, NewDeck(p)
  PROVE  IInv'
<1> DEFINE t == tx[p]
<1>1. /\ t \in Tx /\ t.todo \subseteq t.of /\ TypeOK
      /\ Seen(t, "deck") /\ Accounted(t, "deck")
  BY AtPoint DEF NewDeck
<1>2. PICK id \in NewIds :
        tx' = [tx EXCEPT ![p].did = id,
                         ![p].db.decks = Saved(@, @, [id |-> id, name |-> tx[p].name])]
  BY DEF NewDeck
<1> DEFINE d == [id |-> id, name |-> t.name]
           decks == Saved(t.db.decks, t.db.decks, d)
           tables == [t.db EXCEPT !.decks = decks]
           u == [t EXCEPT !.did = id, !.db = tables]
<1>3. tx' = [tx EXCEPT ![p] = u]
  BY <1>2, <1>1 DEF TypeOK, Tx
<1>4. id \in Nat /\ d \in Deck /\ t.db \in Tables /\ t.db.decks \in SUBSET Deck
  BY <1>1, IdsAreNumbers DEF Tx, Deck, Tables, TypeOK
<1>5. /\ decks \in SUBSET Deck /\ d \in decks
      /\ IdsOf(decks) \subseteq IdsOf(t.db.decks) \cup {id}
      /\ V18 => t.db.decks \subseteq decks
  <2>1. d.id = id
    OBVIOUS
  <2>2. t.db.decks \in SUBSET Deck /\ d \in Deck
    BY <1>4
  <2>3. decks = Saved(t.db.decks, t.db.decks, d)
    OBVIOUS
  <2> DEFINE stored == t.db.decks
  <2> HIDE DEF t, d, decks, stored
  <2>4. stored \in SUBSET Deck /\ decks = Saved(stored, stored, d)
    BY <2>2, <2>3 DEF stored
  <2>5. /\ decks \in SUBSET Deck /\ d \in decks
        /\ IdsOf(decks) \subseteq IdsOf(stored) \cup IdsOf(stored) \cup {d.id}
        /\ V18 => stored \cup {d} = decks
    BY <2>2, <2>4, SavedDecks
  <2> QED
    BY <2>1, <2>5 DEF stored
<1>6. id \in IdsOf(decks)
  BY <1>5 DEF IdsOf
<1> HIDE DEF d, decks
<1>7. tables \in Tables /\ tables.decks = decks /\ tables.notes = t.db.notes /\ tables.cards = t.db.cards
  BY <1>4, <1>5 DEF Tables
<1> HIDE DEF tables
<1>8. /\ u \in Tx /\ u.db = tables /\ u.did = id /\ u.todo = t.todo /\ u.of = t.of
      /\ u.base = t.base
  BY <1>1, <1>4, <1>7 DEF Tx
<1> HIDE DEF u
<1>9. Sound(u.db, {}) /\ Housed(u.db)
  <2>1. Sound(u.db, {})
    BY <1>1, <1>7, <1>8, DecksApart DEF Seen
  <2>2. Housed(u.db)
    BY <1>1, <1>5, <1>7, <1>8 DEF Seen, Housed, IdsOf
  <2> QED
    BY <2>1, <2>2
<1>10. Seen(u, "note")
  BY <1>1, <1>6, <1>7, <1>8, <1>9 DEF Seen
<1>11. Accounted(u, "note")
  BY <1>1, <1>5, <1>7, <1>8 DEF Accounted
<1>12. u.base = version /\ writer \in {p, NoOne}
  BY <1>8, Writes DEF NewDeck
<1>13. UNCHANGED <<now, db, version, made>> /\ writer' = p /\ pc' = [pc EXCEPT ![p] = "note"]
  BY DEF NewDeck
<1>14. Within(p, u, "note")
  BY <1>1, <1>3, <1>8, <1>10, <1>11, <1>12, <1>13 DEF Within, TypeOK
<1> QED
  BY <1>14, WithinKeeps

\* AddNote stores the note.
LEMMA NoteStored ==
  ASSUME IInv, NEW p \in Procs, InsertNote(p)
  PROVE  IInv'
<1> DEFINE t == tx[p]
<1>1. /\ t \in Tx /\ t.todo \subseteq t.of /\ TypeOK
      /\ Seen(t, "note") /\ Accounted(t, "note")
  BY AtPoint DEF InsertNote
<1>2. PICK id \in NewIds :
        /\ Insertable(t.db.notes, id)
        /\ tx' = [tx EXCEPT ![p].nid = id,
                            ![p].db.notes = @ \cup {[id |-> id, of |-> tx[p].of]}]
  BY DEF InsertNote
<1> DEFINE n == [id |-> id, of |-> t.of]
           tables == [t.db EXCEPT !.notes = t.db.notes \cup {n}]
           u == [t EXCEPT !.nid = id, !.db = tables]
           at == CardsOrCommit(t.todo)
<1>3. tx' = [tx EXCEPT ![p] = u]
  BY <1>2, <1>1 DEF TypeOK, Tx
<1>4. id \in Nat /\ n \in Note /\ t.db \in Tables
  BY <1>1, IdsAreNumbers DEF Tx, Note, Tables, TypeOK
<1>5. n.id = id /\ n.of = t.of
  OBVIOUS
<1> HIDE DEF n
<1>6. /\ tables \in Tables /\ tables.decks = t.db.decks /\ tables.notes = t.db.notes \cup {n}
      /\ tables.cards = t.db.cards
  BY <1>4 DEF Tables
<1> HIDE DEF tables
<1>7. /\ u \in Tx /\ u.db = tables /\ u.did = t.did /\ u.nid = id /\ u.todo = t.todo
      /\ u.of = t.of /\ u.base = t.base
  BY <1>1, <1>4, <1>6 DEF Tx
<1> HIDE DEF u
<1>8. Sound(tables, {id}) /\ \A ord \in Ords : NoCard(tables, id, ord)
  BY <1>1, <1>2, <1>5, <1>6, NoteInserted DEF Seen
<1>9. Adding(u)
  <2>1. [id |-> u.nid, of |-> u.of] \in u.db.notes
    BY <1>6, <1>7 DEF n
  <2>2. \A ord \in Ords : ord \in u.todo <=> ord \in u.of
    <3>1. t.todo = t.of
      BY <1>1 DEF Seen
    <3> QED
      BY <3>1, <1>7
  <2> QED
    BY <2>1, <2>2, <1>7, <1>8 DEF Adding
<1>10. /\ at \in {"card", "commit"} /\ (at = "commit" <=> u.todo = {})
       /\ Housed(u.db) /\ u.did \in IdsOf(u.db.decks)
  BY <1>1, <1>6, <1>7 DEF CardsOrCommit, Seen, Housed
<1>11. pc' = [pc EXCEPT ![p] = at]
  BY DEF InsertNote
<1> HIDE DEF at
<1>12. Seen(u, at)
  BY <1>9, <1>10 DEF Seen
<1>13. Accounted(u, at)
  BY <1>1, <1>6, <1>7, <1>10 DEF Accounted
<1>14. u.base = version /\ writer \in {p, NoOne}
  BY <1>7, Writes DEF InsertNote
<1>15. UNCHANGED <<now, db, version, made>> /\ writer' = p
  BY DEF InsertNote
<1>16. Within(p, u, at)
  BY <1>1, <1>3, <1>7, <1>10, <1>11, <1>12, <1>13, <1>14, <1>15 DEF Within, TypeOK
<1> QED
  BY <1>16, WithinKeeps

\* AddNote stores a card.
LEMMA CardStored ==
  ASSUME IInv, NEW p \in Procs, InsertCard(p)
  PROVE  IInv'
<1> DEFINE t   == tx[p]
           ord == CHOOSE o \in t.todo : \A q \in t.todo : o <= q
<1>1. /\ t \in Tx /\ t.todo \subseteq t.of /\ TypeOK /\ pc[p] = "card"
      /\ Adding(t) /\ Housed(t.db) /\ t.did \in IdsOf(t.db.decks) /\ Accounted(t, "card")
      /\ writer = p /\ t.base = version /\ t.todo # {}
  BY AtPoint DEF InsertCard, Seen, TypeOK
<1>2. PICK id \in CardIds(t.nid, ord) :
        /\ Insertable(t.db.cards, id)
        /\ tx' = [tx EXCEPT ![p].todo = @ \ {ord},
                            ![p].db.cards = {c \in @ : c.id # id} \cup
                               {[id |-> id, nid |-> tx[p].nid, ord |-> ord, did |-> tx[p].did]}]
  BY DEF InsertCard
<1> DEFINE at == CardsOrCommit(t.todo \ {ord})
<1>3. pc' = [pc EXCEPT ![p] = at]
  BY DEF InsertCard
<1>4. ord \in t.todo /\ ord \in Ords /\ t.todo \subseteq Ords
  BY <1>1, FirstOf DEF Tx
<1> HIDE DEF ord
<1> DEFINE c == [id |-> id, nid |-> t.nid, ord |-> ord, did |-> t.did]
           cards == {x \in t.db.cards : x.id # id} \cup {c}
           tables == [t.db EXCEPT !.cards = cards]
           u == [t EXCEPT !.todo = t.todo \ {ord}, !.db = tables]
<1>5. tx' = [tx EXCEPT ![p] = u]
  BY <1>2, <1>1 DEF TypeOK, Tx
<1>6. t.db \in Tables /\ t.nid \in Nat /\ t.did \in Nat /\ id \in Nat /\ c \in Card
  BY <1>1, <1>4, IdsAreNumbers DEF Tx, Card, TypeOK, Ords
<1>7. c.nid = t.nid /\ c.ord = ord /\ c.did = t.did
  OBVIOUS
<1> HIDE DEF c
<1>8. cards = t.db.cards \cup {c} /\ cards \in SUBSET Card
  BY <1>2, <1>6 DEF Insertable, IdsOf, Tables
<1> HIDE DEF cards
<1>9. /\ tables \in Tables /\ tables.decks = t.db.decks /\ tables.notes = t.db.notes
      /\ tables.cards = t.db.cards \cup {c}
  BY <1>6, <1>8 DEF Tables
<1> HIDE DEF tables
<1>10. /\ u \in Tx /\ u.db = tables /\ u.did = t.did /\ u.nid = t.nid /\ u.todo = t.todo \ {ord}
       /\ u.of = t.of /\ u.base = t.base
  BY <1>1, <1>9 DEF Tx
<1> HIDE DEF u
<1> DEFINE n == [id |-> t.nid, of |-> t.of]
<1>11. /\ Sound(t.db, {t.nid}) /\ n \in t.db.notes /\ n.id = t.nid
       /\ \A o \in Ords : IF o \in t.of \ t.todo THEN One(t.db, t.nid, o) ELSE NoCard(t.db, t.nid, o)
  BY <1>1 DEF Adding
<1>12. /\ Sound(tables, {t.nid}) /\ One(tables, t.nid, ord)
       /\ \A o \in Ords \ {ord} : CardsOf(tables, t.nid, o) = CardsOf(t.db, t.nid, o)
  <2>1. NoCard(t.db, n.id, c.ord)
    BY <1>4, <1>7, <1>11
  <2> HIDE DEF n
  <2> QED
    BY <2>1, <1>4, <1>7, <1>9, <1>11, CardInserted
<1>13. Adding(u)
  <2>1. [id |-> u.nid, of |-> u.of] \in u.db.notes
    BY <1>9, <1>10, <1>11
  <2>2. ASSUME NEW o \in Ords
        PROVE  IF o \in u.of \ u.todo THEN One(u.db, u.nid, o) ELSE NoCard(u.db, u.nid, o)
    <3>1. CASE o = ord
      BY <3>1, <1>1, <1>4, <1>10, <1>12
    <3>2. CASE o # ord
      <4>1. CardsOf(tables, t.nid, o) = CardsOf(t.db, t.nid, o)
        BY <3>2, <1>12
      <4>2. o \in u.of \ u.todo <=> o \in t.of \ t.todo
        BY <3>2, <1>10
      <4>3. IF o \in t.of \ t.todo THEN One(t.db, t.nid, o) ELSE NoCard(t.db, t.nid, o)
        BY <1>11
      <4>4. \A x : x \in CardsOf(t.db, t.nid, o) => x \in tables.cards
        BY <1>9 DEF CardsOf
      <4> QED
        BY <4>1, <4>2, <4>3, <4>4, <1>10 DEF One, NoCard
    <3> QED
      BY <3>1, <3>2
  <2> QED
    BY <2>1, <2>2, <1>10, <1>12 DEF Adding
<1>14. /\ at \in {"card", "commit"} /\ (at = "commit" <=> u.todo = {})
       /\ u.did \in IdsOf(u.db.decks)
  BY <1>1, <1>9, <1>10 DEF CardsOrCommit
<1>15. Housed(u.db)
  BY <1>1, <1>7, <1>9, <1>10 DEF Housed
<1> HIDE DEF at
<1>16. Seen(u, at)
  BY <1>13, <1>14, <1>15 DEF Seen
<1>17. Accounted(u, at)
  BY <1>1, <1>9, <1>10, <1>14 DEF Accounted
<1>18. UNCHANGED <<now, db, version, made, writer>>
  BY DEF InsertCard
<1>19. Within(p, u, at)
  BY <1>1, <1>3, <1>5, <1>10, <1>14, <1>16, <1>17, <1>18 DEF Within, TypeOK
<1> QED
  BY <1>19, WithinKeeps

-----------------------------------------------------------------------------
(* The end of a call                                                        *)

\* A call ends, with its transaction; if the tables change, nobody else has written.
Ends(p) ==
  /\ Return(p)
  /\ writer' = Rollback(p)
  /\ now' = now /\ db' \in Tables /\ version' \in Nat /\ made' \subseteq Nat
  /\ made \subseteq made' /\ IdsOf(db'.decks) \subseteq made'
  /\ Sound(db', {}) /\ Housed(db')
  /\ \/ UNCHANGED <<db, version>>
     \/ version' = version + 1 /\ writer \in {p, NoOne}

LEMMA EndsKeeps ==
  ASSUME IInv, NEW p \in Procs, pc[p] # "idle", Ends(p)
  PROVE  IInv'
<1>1. TypeOK /\ NoOne # p /\ tx \in [Procs -> {None} \cup Tx]
      /\ pc \in [Procs -> {"idle", "deck", "note", "card", "commit"}]
  BY ProcsAssumption DEF IInv, TypeOK
<1>2. tx'[p] = None /\ pc'[p] = "idle" /\ \A q \in Procs \ {p} : tx'[q] = tx[q] /\ pc'[q] = pc[q]
  BY <1>1 DEF Ends, Return
<1>3. \A q \in Procs \ {p} : writer = q => writer' = q /\ version' = version /\ db' = db
  BY <1>1, ProcsAssumption DEF Ends, Rollback
<1>4. writer' # NoOne => writer' = writer /\ writer \in Procs \ {p}
  BY <1>1 DEF Ends, Rollback, TypeOK
<1>5. TypeOK'
  <2>1. now' \in Nat /\ version' \in Nat /\ db' \in Tables /\ made' \subseteq Nat
        /\ tx' \in [Procs -> {None} \cup Tx]
        /\ pc' \in [Procs -> {"idle", "deck", "note", "card", "commit"}]
    BY <1>1 DEF Ends, Return, TypeOK
  <2>2. writer' \in Procs \cup {NoOne}
    BY <1>4
  <2>3. \A q \in Procs : IF pc'[q] = "idle" THEN tx'[q] = None
                         ELSE tx'[q] \in Tx /\ tx'[q].todo \subseteq tx'[q].of
    BY <1>1, <1>2 DEF TypeOK
  <2>4. \A q \in Procs : pc'[q] \in {"card", "commit"} => writer' = q /\ tx'[q].base = version'
    BY <1>1, <1>2, <1>3 DEF TypeOK
  <2>5. writer' # NoOne => pc'[writer'] \in {"note", "card", "commit"}
    BY <1>1, <1>2, <1>4 DEF TypeOK
  <2> QED
    BY <2>1, <2>2, <2>3, <2>4, <2>5 DEF TypeOK
<1>6. Snapshots'
  <2> SUFFICES ASSUME NEW q \in Procs, pc'[q] # "idle"
               PROVE  Seen(tx[q], pc[q])' /\ Accounted(tx[q], pc[q])'
    BY DEF Snapshots
  <2>1. q # p /\ tx'[q] = tx[q] /\ pc'[q] = pc[q]
    BY <1>2
  <2>2. Seen(tx[q], pc[q]) /\ Accounted(tx[q], pc[q]) /\ tx[q] \in Tx
    BY <2>1, AtPoint
  <2>3. Seen(tx[q], pc[q])'
    BY <2>1, <2>2 DEF Seen, Sound, Adding, Housed, One, NoCard, CardsOf, IdsOf
  <2>4. tx[q].base \in Nat /\ version \in Nat /\ version' \in Nat
    BY <1>1, <1>5, <2>2 DEF Tx, TypeOK
  <2>5. tx[q].base <= version' /\ (tx[q].base = version' => db' = db /\ version' = version)
    BY <2>2, <2>4 DEF Accounted, Ends
  <2>6. IdsOf(tx[q].db.decks) \subseteq IF pc[q] = "deck" THEN made' ELSE made' \cup {tx[q].did}
    BY <2>2 DEF Accounted, Ends
  <2>7. IdsOf(tx[q].db.decks)' = IdsOf(tx[q].db.decks)
    BY <2>1 DEF IdsOf
  <2>8. Accounted(tx[q], pc[q])'
    BY <2>1, <2>2, <2>5, <2>6, <2>7 DEF Accounted
  <2> QED
    BY <2>3, <2>8
<1>7. Ahead'
  BY <1>2, <1>3, <1>4 DEF IInv, Ahead
<1>8. Sound(db, {})' /\ Housed(db)' /\ DecksAccounted'
  BY DEF Ends, Sound, Housed, DecksAccounted, One, NoCard, CardsOf, IdsOf
<1> QED
  BY <1>5, <1>6, <1>7, <1>8 DEF IInv

\* A call that fails, or that finds its deck, changes no table.
LEMMA NothingStored ==
  ASSUME IInv, NEW p \in Procs, Fail(p) \/ (FindDeck(p) /\ tx[p].op = "deck")
  PROVE  IInv' /\ db' = db
<1>1. pc[p] # "idle" /\ Return(p) /\ UNCHANGED <<now, db, version, made>>
  BY DEF Fail, FindDeck
<1>2. writer' = Rollback(p)
  <2>1. CASE Fail(p)
    BY <2>1 DEF Fail
  <2>2. CASE FindDeck(p)
    <3>1. writer # p
      BY <2>2, ProcsAssumption DEF FindDeck, IInv, TypeOK
    <3> QED
      BY <2>2, <3>1 DEF FindDeck, Rollback
  <2> QED
    BY <2>1, <2>2
<1>3. Ends(p)
  BY <1>1, <1>2 DEF Ends, IInv, TypeOK, DecksAccounted
<1> QED
  BY <1>1, <1>3, EndsKeeps

\* CreateDeck stores its deck: next to those that are stored, in schema 18.
LEMMA DeckStored ==
  ASSUME IInv, NEW p \in Procs, StoreDeck(p)
  PROVE  IInv' /\ (V18 => db.decks \subseteq db'.decks)
<1> DEFINE t == tx[p]
<1>1. /\ t \in Tx /\ TypeOK /\ Seen(t, "deck") /\ Accounted(t, "deck") /\ pc[p] = "deck"
  BY AtPoint DEF StoreDeck
<1>2. PICK id \in NewIds :
        /\ db' = [db EXCEPT !.decks = Saved(@, t.db.decks, [id |-> id, name |-> t.name])]
        /\ made' = made \cup {id}
  BY DEF StoreDeck
<1> DEFINE d == [id |-> id, name |-> t.name]
           decks == Saved(db.decks, t.db.decks, d)
<1>3. d \in Deck /\ id \in Nat /\ db \in Tables /\ t.db.decks \in SUBSET Deck /\ db.decks \in SUBSET Deck
  BY <1>1, IdsAreNumbers DEF Tx, Deck, Tables, TypeOK
<1>4. db' = [db EXCEPT !.decks = decks]
  BY <1>2
<1>5. /\ decks \in SUBSET Deck
      /\ IdsOf(decks) \subseteq IdsOf(db.decks) \cup IdsOf(t.db.decks) \cup {id}
      /\ V18 => db.decks \cup {d} = decks
  <2> DEFINE stored == db.decks
             read == t.db.decks
  <2>1. d.id = id /\ decks = Saved(stored, read, d) /\ d \in Deck
        /\ stored \in SUBSET Deck /\ read \in SUBSET Deck
    BY <1>3
  <2> HIDE DEF stored, read, d, decks
  <2>2. /\ decks \in SUBSET Deck
        /\ IdsOf(decks) \subseteq IdsOf(stored) \cup IdsOf(read) \cup {id}
        /\ V18 => stored \cup {d} = decks
    BY <2>1, SavedDecks
  <2> QED
    BY <2>2 DEF stored, read
<1> HIDE DEF d, decks
<1>6. db' \in Tables /\ db'.decks = decks /\ db'.notes = db.notes /\ db'.cards = db.cards
  BY <1>3, <1>4, <1>5 DEF Tables
<1>7. IdsOf(db'.decks) \subseteq made' /\ made \subseteq made' /\ made' \subseteq Nat
  BY <1>1, <1>2, <1>3, <1>5, <1>6 DEF IInv, DecksAccounted, Accounted, TypeOK
<1>8. Sound(db', {})
  BY <1>6, DecksApart DEF IInv
<1>9. Housed(db')
  BY <1>5, <1>6 DEF IInv, Housed, IdsOf
<1>10. Ends(p)
  <2>1. writer = NoOne /\ writer' = writer /\ version' = version + 1 /\ now' = now /\ Return(p)
    BY DEF StoreDeck
  <2>2. writer' = Rollback(p) /\ version' \in Nat
    BY <2>1, <1>1 DEF Rollback, TypeOK
  <2> QED
    BY <2>1, <2>2, <1>6, <1>7, <1>8, <1>9 DEF Ends
<1> QED
  BY <1>1, <1>5, <1>6, <1>10, EndsKeeps

\* AddNote commits what its transaction has made of the tables.
LEMMA Committed ==
  ASSUME IInv, NEW p \in Procs, Commit(p)
  PROVE  IInv' /\ (V18 => db.decks \subseteq db'.decks)
<1> DEFINE t == tx[p]
<1>1. /\ t \in Tx /\ TypeOK /\ Seen(t, "commit") /\ Accounted(t, "commit") /\ pc[p] = "commit"
      /\ writer = p /\ t.base = version
  BY AtPoint DEF Commit, TypeOK
<1>2. db' = t.db /\ version' = version + 1 /\ writer' = NoOne /\ made' = made \cup {t.did}
      /\ Return(p) /\ now' = now
  BY DEF Commit
<1>3. Sound(db', {}) /\ Housed(db')
  BY <1>1, <1>2, Completed DEF Seen
<1>4. db' \in Tables /\ made' \subseteq Nat /\ version' \in Nat /\ writer' = Rollback(p)
  <2>1. t.db \in Tables /\ t.did \in Nat
    BY <1>1 DEF Tx
  <2>2. made \subseteq Nat /\ version \in Nat
    BY <1>1 DEF TypeOK
  <2>3. writer' = Rollback(p)
    BY <1>1, <1>2 DEF Rollback
  <2>4. db' \in Tables
    BY <1>2, <2>1
  <2>5. made' \subseteq Nat
    BY <1>2, <2>1, <2>2
  <2>6. version' \in Nat
    BY <1>2, <2>2
  <2> QED
    BY <2>3, <2>4, <2>5, <2>6
<1>5. IdsOf(db'.decks) \subseteq made' /\ made \subseteq made'
  BY <1>1, <1>2 DEF Accounted
<1>6. Ends(p)
  BY <1>1, <1>2, <1>3, <1>4, <1>5 DEF Ends
<1>7. V18 => db.decks \subseteq db'.decks
  BY <1>1, <1>2 DEF Accounted
<1> QED
  BY <1>1, <1>6, <1>7, EndsKeeps

-----------------------------------------------------------------------------
(* The theorems                                                             *)

LEMMA Initially == Init => IInv
<1> SUFFICES ASSUME Init PROVE IInv
  OBVIOUS
<1>1. Second \in Nat
  BY SpanAssumption
<1>2. db.notes = {} /\ db.cards = {} /\ db.decks = {[id |-> 1, name |-> Default]}
  BY DEF Init
<1>3. TypeOK
  BY <1>1, NamesAssumption DEF Init, TypeOK, Tables, Deck, None
<1>4. Sound(db, {}) /\ Housed(db)
  BY <1>2 DEF Sound, Housed
<1>5. DecksAccounted
  BY <1>2 DEF DecksAccounted, IdsOf, Init
<1>6. Snapshots /\ Ahead
  BY DEF Init, Snapshots, Ahead
<1> QED
  BY <1>3, <1>4, <1>5, <1>6 DEF IInv

LEMMA Inductive ==
  ASSUME IInv, [Next]_vars
  PROVE  IInv' /\ (V18 => db.decks \subseteq db'.decks)
<1>1. ASSUME NEW p \in Procs,
             Start(p) \/ FindDeck(p) \/ StoreDeck(p) \/ NewDeck(p)
             \/ InsertNote(p) \/ InsertCard(p) \/ Commit(p) \/ Fail(p)
      PROVE  IInv' /\ (V18 => db.decks \subseteq db'.decks)
  <2>1. CASE Start(p)
    BY <2>1, StartKeeps DEF Start
  <2>2. CASE FindDeck(p)
    <3>1. pc[p] = "deck" /\ tx[p].op \in {"deck", "note"} /\ db' = db
      BY <2>2, AtPoint DEF FindDeck, Tx
    <3> QED
      BY <2>2, <3>1, DeckFound, NothingStored
  <2>3. CASE StoreDeck(p)
    BY <2>3, DeckStored
  <2>4. CASE NewDeck(p)
    BY <2>4, DeckMade DEF NewDeck
  <2>5. CASE InsertNote(p)
    BY <2>5, NoteStored DEF InsertNote
  <2>6. CASE InsertCard(p)
    BY <2>6, CardStored DEF InsertCard
  <2>7. CASE Commit(p)
    BY <2>7, Committed
  <2>8. CASE Fail(p)
    BY <2>8, NothingStored
  <2> QED
    BY <1>1, <2>1, <2>2, <2>3, <2>4, <2>5, <2>6, <2>7, <2>8
<1>2. ASSUME UNCHANGED <<db, version, writer, pc, tx, made>>, now' \in Nat
      PROVE  IInv' /\ db' = db
  <2>1. TypeOK'
    BY <1>2 DEF IInv, TypeOK
  <2>2. Snapshots'
    BY <1>2 DEF IInv, Snapshots, Seen, Accounted, Sound, Adding, Housed, One, NoCard, CardsOf, IdsOf
  <2>3. Sound(db, {})' /\ Housed(db)' /\ DecksAccounted' /\ Ahead'
    BY <1>2 DEF IInv, Sound, Housed, DecksAccounted, Ahead, One, NoCard, CardsOf, IdsOf
  <2> QED
    BY <1>2, <2>1, <2>2, <2>3 DEF IInv
<1>3. CASE Tick \/ UNCHANGED vars
  <2>1. now' \in Nat
    BY <1>3 DEF Tick, vars, IInv, TypeOK
  <2> QED
    BY <1>2, <1>3, <2>1 DEF Tick, vars
<1> QED
  BY <1>1, <1>3 DEF Next

(***************************************************************************)
(* At every step of every call, what a process sees of the tables is sound, *)
(* and so are the tables.                                                   *)
(***************************************************************************)
THEOREM InductiveInvariant == Spec => []IInv
<1>1. Init => IInv
  BY Initially
<1>2. IInv /\ [Next]_vars => IInv'
  BY Inductive
<1> QED
  BY <1>1, <1>2, PTL DEF Spec

(***************************************************************************)
(* The calls keep their types; a transaction that has inserted a note is    *)
(* the only writer, on the newest snapshot.                                 *)
(***************************************************************************)
THEOREM TypeCorrect == Spec => []TypeOK
<1>1. IInv => TypeOK
  BY DEF IInv
<1> QED
  BY <1>1, InductiveInvariant, PTL

(***************************************************************************)
(* In both schemas AddNote stores a note with one card for each template    *)
(* that it has read, or nothing, whichever ids are drawn and however calls  *)
(* meet; in schema 11 only the decks of cards may disappear (DeckIdsKept).  *)
(***************************************************************************)
CardsWhole ==
  /\ \A n \in db.notes, ord \in Ords :
       Cardinality({c \in db.cards : c.nid = n.id /\ c.ord = ord})
         = IF ord \in n.of THEN 1 ELSE 0
  /\ \A c \in db.cards : c.nid \in IdsOf(db.notes)

THEOREM CardsStoredTogether == Spec => []CardsWhole
<1>1. IInv => CardsWhole
  <2> SUFFICES ASSUME IInv PROVE CardsWhole
    OBVIOUS
  <2>1. ASSUME NEW n \in db.notes, NEW ord \in Ords
        PROVE  Cardinality({c \in db.cards : c.nid = n.id /\ c.ord = ord})
                 = IF ord \in n.of THEN 1 ELSE 0
    <3>1. IF ord \in n.of THEN One(db, n.id, ord) ELSE NoCard(db, n.id, ord)
      BY DEF IInv, Sound
    <3>2. CardsOf(db, n.id, ord) = {c \in db.cards : c.nid = n.id /\ c.ord = ord}
      BY DEF CardsOf
    <3>3. Cardinality(CardsOf(db, n.id, ord)) = IF ord \in n.of THEN 1 ELSE 0
      BY <3>1, Counted
    <3> QED
      BY <3>2, <3>3
  <2>2. \A c \in db.cards : c.nid \in IdsOf(db.notes)
    BY DEF IInv, Sound
  <2> QED
    BY <2>1, <2>2 DEF CardsWhole
<1> QED
  BY <1>1, InductiveInvariant, PTL

(***************************************************************************)
(* In schema 18 the cards are moreover in a deck that exists.               *)
(***************************************************************************)
THEOREM NotesWhole ==
  ASSUME V18 = TRUE
  PROVE  Spec => []NoteWhole
<1>1. IInv /\ CardsWhole => NoteWhole
  BY DEF IInv, Housed, CardsWhole, NoteWhole
<1> QED
  BY <1>1, InductiveInvariant, CardsStoredTogether, PTL

(***************************************************************************)
(* In both schemas a deck is one that a successful call has found or made.  *)
(***************************************************************************)
THEOREM NoDeckLeft == Spec => []DecksAccounted
<1>1. IInv => DecksAccounted
  BY DEF IInv
<1> QED
  BY <1>1, InductiveInvariant, PTL

(***************************************************************************)
(* In schema 18 no call changes or removes a deck that is there, whatever   *)
(* id it draws for its own and however the calls of several processes meet. *)
(***************************************************************************)
THEOREM DecksStay ==
  ASSUME V18 = TRUE
  PROVE  Spec => DecksKept
<1>1. IInv /\ [Next]_vars => [db.decks \subseteq db'.decks]_vars
  BY Inductive
<1> QED
  BY <1>1, InductiveInvariant, PTL DEF Spec, DecksKept

=============================================================================
