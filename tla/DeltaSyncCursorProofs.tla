------------------------ MODULE DeltaSyncCursorProofs ------------------------
(***************************************************************************)
(* What FullSync knows of the server: the cursor covers only changes that   *)
(* have been applied, after the last page no reference dangles, applying a  *)
(* page never overwrites a newer edit, and a synchronisation that ends has  *)
(* made both sides alike.                                                   *)
(*                                                                          *)
(* The argument: the server stamps what it changes with a new number, so a  *)
(* set of its rows that the client has applied stays applied (Covers) while *)
(* others write, and edits only make the client's rows newer (Refreshes);   *)
(* whatever a card refers to has once been known here or on the server, and *)
(* is not forgotten there (Seen).  This needs no assumption on who writes   *)
(* the collection.  The two last results do: they need that an upload held  *)
(* every pending row when the page arrives.                                 *)
(***************************************************************************)
EXTENDS DeltaSyncProofs

\* No table has two rows of one key.
Unique(d) == \A t \in RowTables : \A x, y \in d[t] : x.id = y.id => x = y

\* The tables c show nothing of the buried object o.
Without(c, o) ==
  /\ \A t \in RowTables : o \notin Ids(c[t])
  /\ \A r \in c.cards : NoteOf[r.id] # o /\ r.did # o

ServerOK(s) ==
  /\ Unique(s)
  /\ \A t \in RowTables : \A x \in s[t] : x.id \notin Dead(s) /\ x.usn >= 1
  /\ \A g \in s.graves : g.usn >= 1
  /\ DefaultDeck \in Ids(s.decks)
  /\ \A x \in s.cards : NoteOf[x.id] \notin Dead(s) /\ x.did \notin Dead(s)

\* Nobody buries the default deck.
Decent(d) == Unique(d) /\ DefaultDeck \notin Oids(d.graves)

\* The keys the server has, or has had, in a table, and those known at all.
OnServer(s, t) == Ids(s[t]) \cup Dead(s)
Seen(s, c, t) == OnServer(s, t) \cup Ids(c[t])

References(cards, notes, decks) ==
  \A c \in cards : NoteOf[c.id] \in notes /\ c.did \in decks

\* What the rows and graves d refer to is known.
Sound(d, notes, decks) ==
  /\ References(d.cards, notes, decks)
  /\ \A k \in Cards : k \in Oids(d.graves) => NoteOf[k] \in notes

SoundNow(d) == Sound(d, Seen(srv, col, "notes"), Seen(srv, col, "decks"))

AllSound ==
  /\ SoundNow(col) /\ SoundNow(srv) /\ SoundNow(local) /\ SoundNow(remote)
  /\ \A q \in late : SoundNow(q.delta)

\* The tables c have each row of d, in this version or a newer one.
Refreshes(c, d) ==
  \A t \in RowTables : \A y \in d[t] : \E r \in c[t] : r.id = y.id /\ r.mod >= y.mod

LocalOK ==
  /\ Decent(col) /\ Decent(local) /\ \A q \in late : Decent(q.delta)
  /\ DefaultDeck \in Ids(col.decks)
  /\ pc \in {"idle", "state"} => local = NoDelta /\ lastUSN = Unset
  /\ pc \in Query \cup {"usn", "upload"} => Refreshes(col, local)

\* The tables c have everything that s numbers up to n, deletions included.
Covers(c, s, n) ==
  /\ \A t \in RowTables : \A x \in s[t] :
       x.usn <= n => \E r \in c[t] : r.id = x.id /\ r.mod >= x.mod
  /\ \A g \in s.graves : g.usn <= n => Without(c, g.oid)

\* Page d has what the server s numbers up to n and the tables c lack.
Completes(d, c, s, n) ==
  /\ Unique(d) /\ Numbered(d, n)
  /\ d.usn = n /\ maxUSN(c) <= n
  /\ Oids(d.graves) \subseteq Dead(s)
  /\ \A t \in RowTables : \A x \in s[t] : x.usn <= n =>
       \/ \E y \in d[t] : y.id = x.id /\ y.mod >= x.mod
       \/ x.id \notin Ids(d[t]) /\ \E r \in c[t] : r.id = x.id /\ r.mod >= x.mod
  /\ \A g \in s.graves : g.usn <= n =>
       Without(d, g.oid) /\ (g.oid \in Oids(d.graves) \/ Without(c, g.oid))

\* With the page d, what the cards refer to is there or gets buried.
Resolves(d, c) ==
  References(c.cards \cup d.cards, Ids(c.notes) \cup Ids(d.notes) \cup Oids(d.graves),
                                   Ids(c.decks) \cup Ids(d.decks) \cup Oids(d.graves))

PageOK ==
  pc \in {"bury", "apply"} =>
    Completes(remote, col, srv, session) /\ (~remote.more => Resolves(remote, col))

CursorOK ==
  /\ Covers(col, srv, maxUSN(col))
  /\ pc \in {"state", "usn", "upload", "mark"} \cup Query => Covers(col, srv, session)
  /\ pc \notin {"idle", "finish"} => lastUSN <= session
  /\ pc = "upload" => maxUSN(col) <= local.usn /\ Covers(col, srv, local.usn)
  /\ ReferencesWhole

CInv == ServerOK(srv) /\ AllSound /\ LocalOK /\ PageOK /\ CursorOK

-----------------------------------------------------------------------------
(* The operators on tables                                                  *)

\* Replacing rows by others leaves one row for a key.
LEMMA PutUnique ==
  ASSUME NEW rows, NEW new,
         \A x, y \in rows : x.id = y.id => x = y,
         \A x, y \in new : x.id = y.id => x = y
  PROVE  \A x, y \in Put(rows, new) : x.id = y.id => x = y
BY DEF Put, Ids

LEMMA PutIds ==
  ASSUME NEW rows, NEW new
  PROVE  Ids(Put(rows, new)) = Ids(rows) \cup Ids(new)
BY DEF Put, Ids

\* A row that is not buried stays; only the deck of a card may change.
LEMMA ApplyHas ==
  ASSUME NEW c \in Tables, NEW d, IsDelta(d), NEW t \in RowTables,
         NEW z \in Put(c[t], d[t]), z.id \notin Oids(d.graves),
         t = "cards" => NoteOf[z.id] \notin Oids(d.graves)
  PROVE  \E r \in ApplyChanges(c, d)[t] : r.id = z.id /\ r.mod = z.mod
<1>1. CASE t = "cards"
  <2>1. Rehome(z, Oids(d.graves)) \in ApplyChanges(c, d).cards
    BY <1>1 DEF ApplyChanges, CardBuried
  <2>2. z \in CardRow
    BY <1>1 DEF Put, Tables, IsDelta
  <2>3. Rehome(z, Oids(d.graves)).id = z.id /\ Rehome(z, Oids(d.graves)).mod = z.mod
    BY <2>2 DEF Rehome, CardRow
  <2> QED
    BY <1>1, <2>1, <2>3
<1>2. CASE t = "notes"
  BY <1>2 DEF ApplyChanges
<1>3. CASE t = "decks"
  BY <1>3 DEF ApplyChanges
<1> QED
  BY <1>1, <1>2, <1>3 DEF RowTables

\* Where a row that ApplyChanges leaves comes from, and what it is not.
LEMMA ApplyRow ==
  ASSUME NEW c \in Tables, NEW d, IsDelta(d), NEW t \in RowTables,
         NEW r \in ApplyChanges(c, d)[t]
  PROVE  /\ r.id \notin Oids(d.graves)
         /\ \E z \in Put(c[t], d[t]) :
              /\ z.id = r.id /\ z.mod = r.mod /\ z.usn = r.usn
              /\ t = "cards" => /\ NoteOf[r.id] \notin Oids(d.graves)
                                /\ r = Rehome(z, Oids(d.graves))
                                /\ r.did = IF z.did \in Oids(d.graves) THEN DefaultDeck ELSE z.did
              /\ t # "cards" => r = z
<1>1. CASE t = "cards"
  <2>1. PICK z \in Put(c.cards, d.cards) :
          r = Rehome(z, Oids(d.graves)) /\ ~CardBuried(z.id, Oids(d.graves))
    BY <1>1 DEF ApplyChanges
  <2>2. z \in CardRow
    BY <2>1 DEF Put, Tables, IsDelta
  <2>3. /\ z.id = r.id /\ z.mod = r.mod /\ z.usn = r.usn
        /\ r.did = IF z.did \in Oids(d.graves) THEN DefaultDeck ELSE z.did
    BY <2>1, <2>2 DEF Rehome, CardRow
  <2> QED
    BY <1>1, <2>1, <2>3 DEF CardBuried
<1>2. CASE t = "notes"
  BY <1>2 DEF ApplyChanges
<1>3. CASE t = "decks"
  BY <1>3 DEF ApplyChanges
<1> QED
  BY <1>1, <1>2, <1>3 DEF RowTables

LEMMA ApplyUnique ==
  ASSUME NEW c \in Tables, NEW d, IsDelta(d), Unique(c), Unique(d)
  PROVE  Unique(ApplyChanges(c, d))
<1> SUFFICES ASSUME NEW t \in RowTables,
                    NEW x \in ApplyChanges(c, d)[t], NEW y \in ApplyChanges(c, d)[t],
                    x.id = y.id
             PROVE  x = y
  BY DEF Unique
<1>1. \A v, w \in Put(c[t], d[t]) : v.id = w.id => v = w
  BY PutUnique DEF Unique
<1>2. PICK v \in Put(c[t], d[t]) : /\ v.id = x.id
                                   /\ t = "cards" => x = Rehome(v, Oids(d.graves))
                                   /\ t # "cards" => x = v
  BY ApplyRow
<1>3. PICK w \in Put(c[t], d[t]) : /\ w.id = y.id
                                   /\ t = "cards" => y = Rehome(w, Oids(d.graves))
                                   /\ t # "cards" => y = w
  BY ApplyRow
<1> QED
  BY <1>1, <1>2, <1>3

\* Marking keeps keys, times and decks.
LEMMA StampSame ==
  ASSUME NEW x \in CardRow \cup NoteRow \cup DeckRow, NEW n \in Usn
  PROVE  LET r == IF x.usn = Pending THEN [x EXCEPT !.usn = n] ELSE x
         IN  r.id = x.id /\ r.mod = x.mod /\ (x \in CardRow => r.did = x.did)
BY DEF CardRow, NoteRow, DeckRow

LEMMA MarkRows ==
  ASSUME NEW c \in Tables, NEW n \in Usn, NEW t \in RowTables
  PROVE  /\ \A r \in MarkSynced(c, n)[t] :
              \E x \in c[t] : /\ r = IF x.usn = Pending THEN [x EXCEPT !.usn = n] ELSE x
                              /\ r.id = x.id /\ r.mod = x.mod
                              /\ t = "cards" => r.did = x.did
         /\ \A x \in c[t] :
              \E r \in MarkSynced(c, n)[t] : r.id = x.id /\ r.mod = x.mod
<1>1. MarkSynced(c, n)[t] = Stamp(c[t], n)
  BY DEF MarkSynced, RowTables
<1>2. c[t] \subseteq CardRow \cup NoteRow \cup DeckRow /\ (t = "cards" => c[t] \subseteq CardRow)
  BY DEF Tables, RowTables
<1>3. ASSUME NEW r \in Stamp(c[t], n)
      PROVE \E x \in c[t] : /\ r = IF x.usn = Pending THEN [x EXCEPT !.usn = n] ELSE x
                            /\ r.id = x.id /\ r.mod = x.mod
                            /\ t = "cards" => r.did = x.did
  <2>1. PICK x \in c[t] : r = IF x.usn = Pending THEN [x EXCEPT !.usn = n] ELSE x
    BY <1>3 DEF Stamp
  <2> QED
    BY <1>2, <2>1, StampSame
<1>4. ASSUME NEW x \in c[t]
      PROVE \E r \in Stamp(c[t], n) : r.id = x.id /\ r.mod = x.mod
  <2> DEFINE r == IF x.usn = Pending THEN [x EXCEPT !.usn = n] ELSE x
  <2>1. r \in Stamp(c[t], n)
    BY DEF Stamp
  <2>2. r.id = x.id /\ r.mod = x.mod
    BY <1>2, StampSame
  <2> QED
    BY <2>1, <2>2
<1> QED
  BY <1>1, <1>3, <1>4

LEMMA MarkUnique ==
  ASSUME NEW c \in Tables, NEW n \in Usn, Unique(c)
  PROVE  Unique(MarkSynced(c, n))
<1> SUFFICES ASSUME NEW t \in RowTables,
                    NEW x \in MarkSynced(c, n)[t], NEW y \in MarkSynced(c, n)[t], x.id = y.id
             PROVE  x = y
  BY DEF Unique
<1>1. PICK v \in c[t] : v.id = x.id /\ x = IF v.usn = Pending THEN [v EXCEPT !.usn = n] ELSE v
  BY MarkRows
<1>2. PICK w \in c[t] : w.id = y.id /\ y = IF w.usn = Pending THEN [w EXCEPT !.usn = n] ELSE w
  BY MarkRows
<1>3. v = w
  BY <1>1, <1>2 DEF Unique
<1> QED
  BY <1>1, <1>2, <1>3

LEMMA MarkIds ==
  ASSUME NEW c \in Tables, NEW n \in Usn, NEW t \in RowTables
  PROVE  Ids(MarkSynced(c, n)[t]) = Ids(c[t])
BY MarkRows DEF Ids

-----------------------------------------------------------------------------
(* The highest usn                                                          *)

UsnsIn(c) == UNION {UsnsOf(c[t]) : t \in UsnTables}

\* maxUSN is one of the usns it looks at, or 0, and none of them is above it.
LEMMA MaxUSNMax ==
  ASSUME NEW c \in Tables, NEW n \in Nat, Numbered(c, n)
  PROVE  /\ maxUSN(c) \in UsnsIn(c) /\ maxUSN(c) \in Usn
         /\ \A u \in UsnsIn(c) : u \in Usn /\ u <= maxUSN(c)
<1> DEFINE S == UsnsIn(c)
<1>1. \A t \in UsnTables : UsnsOf(c[t]) \subseteq Usn /\ \A u \in UsnsOf(c[t]) : u <= n
  BY DEF UsnTables, UsnsOf, Tables, CardRow, NoteRow, DeckRow, GraveRow, Usn,
         Numbered, RowTables
<1>2. S \in SUBSET Usn /\ \A s \in S : s <= n
  BY <1>1 DEF UsnsIn
<1>3. S # {}
  <2>1. UsnsOf(c.cards) # {} /\ "cards" \in UsnTables
    BY DEF UsnsOf, UsnTables
  <2> QED
    BY <2>1 DEF UsnsIn
<1>4. maxUSN(c) = Max(S)
  BY DEF maxUSN, UsnsIn
<1> HIDE DEF S
<1>5. IsFiniteSet(S) /\ S \in SUBSET Int
  <2>1. S \subseteq -1 .. n
    BY <1>2 DEF Usn, Pending
  <2>2. IsFiniteSet(-1 .. n)
    BY FS_Interval
  <2>3. S \in SUBSET Int
    BY <1>2 DEF Usn, Pending
  <2>4. IsFiniteSet(S)
    BY <2>1, <2>2, FS_Subset
  <2> QED
    BY <2>3, <2>4
<1>6. Max(S) \in S /\ \A s \in S : s <= Max(S)
  BY <1>3, <1>5, MaxOfFinite
<1>7. maxUSN(c) \in S /\ \A u \in S : u \in Usn /\ u <= maxUSN(c)
  BY <1>2, <1>4, <1>6
<1> QED
  BY <1>7 DEF S

-----------------------------------------------------------------------------
(* The server                                                               *)

LEMMA Alive ==
  ASSUME NEW s, ServerOK(s), NEW t \in RowTables, NEW x \in s[t]
  PROVE  /\ x.id \notin Dead(s)
         /\ t = "cards" => NoteOf[x.id] \notin Dead(s) /\ x.did \notin Dead(s)
BY DEF ServerOK

LEMMA DefaultAlive ==
  ASSUME NEW s, ServerOK(s)
  PROVE  DefaultDeck \notin Dead(s)
<1>1. PICK x \in s.decks : x.id = DefaultDeck
  BY DEF ServerOK, Ids
<1> QED
  BY <1>1 DEF ServerOK, RowTables

\* The server goes on from s to s2: what it changes is numbered above n, and
\* nothing it has had is forgotten.
Advances(s, s2, n) ==
  /\ \A t \in RowTables : \A x \in s2[t] :
       x.usn > n \/ (\E y \in s[t] : y.id = x.id /\ y.mod = x.mod /\ y.usn = x.usn)
  /\ \A g \in s2.graves : g \in s.graves \/ g.usn > n
  /\ Dead(s) \subseteq Dead(s2)
  /\ \A t \in RowTables \ {"cards"} : OnServer(s, t) \subseteq OnServer(s2, t)

\* A row or grave that the server numbers up to n it had before.
LEMMA OldRow ==
  ASSUME NEW s, NEW s2 \in Tables, NEW m \in Nat, Advances(s, s2, m),
         NEW n \in Usn, n <= m, NEW t \in RowTables, NEW x \in s2[t], x.usn <= n
  PROVE  \E y \in s[t] : y.id = x.id /\ y.mod = x.mod /\ y.usn <= n
<1>1. x.usn \in Usn
  BY DEF Tables, RowTables, CardRow, NoteRow, DeckRow
<1>2. ~(x.usn > m)
  BY <1>1 DEF Usn, Pending
<1> QED
  BY <1>2 DEF Advances

LEMMA OldGrave ==
  ASSUME NEW s, NEW s2 \in Tables, NEW m \in Nat, Advances(s, s2, m),
         NEW n \in Usn, n <= m, NEW g \in s2.graves, g.usn <= n
  PROVE  g \in s.graves
<1>1. g.usn \in Usn
  BY DEF Tables, GraveRow
<1>2. ~(g.usn > m)
  BY <1>1 DEF Usn, Pending
<1> QED
  BY <1>2 DEF Advances

\* What is covered stays covered.
LEMMA CoversStays ==
  ASSUME NEW c, NEW s, NEW s2 \in Tables, NEW m \in Nat, Advances(s, s2, m),
         NEW n \in Usn, n <= m, Covers(c, s, n)
  PROVE  Covers(c, s2, n)
<1>1. ASSUME NEW t \in RowTables, NEW x \in s2[t], x.usn <= n
      PROVE  \E r \in c[t] : r.id = x.id /\ r.mod >= x.mod
  <2>1. PICK y \in s[t] : y.id = x.id /\ y.mod = x.mod /\ y.usn <= n
    BY <1>1, OldRow
  <2> QED
    BY <2>1 DEF Covers
<1>2. ASSUME NEW g \in s2.graves, g.usn <= n
      PROVE  g \in s.graves
  BY <1>2, OldGrave
<1> QED
  BY <1>1, <1>2 DEF Covers

\* And so does what a page completes.
LEMMA CompletesStays ==
  ASSUME NEW d, NEW c, NEW s, NEW s2 \in Tables, NEW m \in Nat, Advances(s, s2, m),
         NEW n \in Usn, n <= m, Completes(d, c, s, n)
  PROVE  Completes(d, c, s2, n)
<1>1. ASSUME NEW t \in RowTables, NEW x \in s2[t], x.usn <= n
      PROVE  \/ \E y \in d[t] : y.id = x.id /\ y.mod >= x.mod
             \/ x.id \notin Ids(d[t]) /\ \E r \in c[t] : r.id = x.id /\ r.mod >= x.mod
  <2>1. PICK y \in s[t] : y.id = x.id /\ y.mod = x.mod /\ y.usn <= n
    BY <1>1, OldRow
  <2> QED
    BY <2>1 DEF Completes
<1>2. ASSUME NEW g \in s2.graves, g.usn <= n
      PROVE  g \in s.graves
  BY <1>2, OldGrave
<1>3. Oids(d.graves) \subseteq Dead(s2)
  BY DEF Completes, Advances
<1> QED
  BY <1>1, <1>2, <1>3 DEF Completes

LEMMA CoversLess ==
  ASSUME NEW c, NEW s \in Tables, NEW n \in Usn, NEW m \in Usn, m <= n, Covers(c, s, n)
  PROVE  Covers(c, s, m)
<1>1. \A t \in RowTables : \A x \in s[t] : x.usn \in Usn
  BY DEF Tables, RowTables, CardRow, NoteRow, DeckRow
<1>2. \A g \in s.graves : g.usn \in Usn
  BY DEF Tables, GraveRow
<1>3. \A u \in Usn : u <= m => u <= n
  BY DEF Usn, Pending
<1> QED
  BY <1>1, <1>2, <1>3 DEF Covers

\* Nothing is numbered -1 or 0.
LEMMA CoversNone ==
  ASSUME NEW c, NEW s \in Tables, ServerOK(s), NEW n \in Usn, n <= 0
  PROVE  Covers(c, s, n)
<1>1. \A u \in Usn : u >= 1 => ~(u <= n)
  BY DEF Usn, Pending
<1>2. \A t \in RowTables : \A x \in s[t] : x.usn \in Usn /\ x.usn >= 1
  BY DEF Tables, RowTables, CardRow, NoteRow, DeckRow, ServerOK
<1>3. \A g \in s.graves : g.usn \in Usn /\ g.usn >= 1
  BY DEF Tables, GraveRow, ServerOK
<1> QED
  BY <1>1, <1>2, <1>3 DEF Covers

\* What is known stays known.
LEMMA SoundMore ==
  ASSUME NEW d, NEW n1, NEW n2, NEW k1, NEW k2, n1 \subseteq n2, k1 \subseteq k2,
         Sound(d, n1, k1)
  PROVE  Sound(d, n2, k2)
BY DEF Sound, References

LEMMA SoundApply ==
  ASSUME NEW c \in Tables, NEW d, IsDelta(d), NEW notes, NEW decks, DefaultDeck \in decks,
         Sound(c, notes, decks), References(d.cards, notes, decks)
  PROVE  Sound(ApplyChanges(c, d), notes, decks)
<1> DEFINE new == ApplyChanges(c, d)
<1>1. ASSUME NEW r \in new.cards
      PROVE  NoteOf[r.id] \in notes /\ r.did \in decks
  <2>1. PICK z \in Put(c.cards, d.cards) :
          z.id = r.id /\ r.did = IF z.did \in Oids(d.graves) THEN DefaultDeck ELSE z.did
    BY ApplyRow DEF RowTables
  <2>2. NoteOf[z.id] \in notes /\ z.did \in decks
    BY DEF Sound, References, Put
  <2> QED
    BY <2>1, <2>2
<1>2. new.graves \subseteq c.graves
  BY ApplyGravesSource
<1> HIDE DEF new
<1>3. Sound(new, notes, decks)
  BY <1>1, <1>2 DEF Sound, References, Oids
<1> QED
  BY <1>3 DEF new

-----------------------------------------------------------------------------
(* The server takes an upload                                               *)

\* What an accepted upload adds to a table.
Added(s, d, u, t) ==
  StampAll(IF t = "cards" THEN AcceptedCards(s, d) ELSE Newer(d[t], s[t], Dead(s)), u)

LEMMA MergePuts ==
  ASSUME NEW s, NEW d, NEW u, NEW t \in RowTables
  PROVE  Merge(s, d, u)[t] = Put(s[t], Added(s, d, u, t))
BY DEF Merge, Added, RowTables

\* The row that the server makes of row y of an upload.
Taken(y, s, u, t) ==
  IF t = "cards"
    THEN [[y EXCEPT !.did = IF @ \in Dead(s) THEN DefaultDeck ELSE @] EXCEPT !.usn = u]
    ELSE [y EXCEPT !.usn = u]

\* An added row is a row of the upload; a card of a dead deck comes to deck 1.
LEMMA AddedRow ==
  ASSUME NEW s \in Tables, NEW d, IsDelta(d), NEW u \in Nat, NEW t \in RowTables,
         NEW r \in Added(s, d, u, t)
  PROVE  /\ r.usn = u /\ r.id \notin Dead(s)
         /\ \E y \in Newer(d[t], s[t], Dead(s)) :
              /\ y.id = r.id /\ y.mod = r.mod /\ r = Taken(y, s, u, t)
              /\ t = "cards" =>
                   /\ NoteOf[r.id] \notin Dead(s)
                   /\ r.did = IF y.did \in Dead(s) THEN DefaultDeck ELSE y.did
<1>1. CASE t = "cards"
  <2>1. PICK a \in AcceptedCards(s, d) : r = [a EXCEPT !.usn = u]
    BY <1>1 DEF Added, StampAll
  <2>2. PICK y \in Newer(d.cards, s.cards, Dead(s)) :
          /\ NoteOf[y.id] \notin Dead(s)
          /\ a = [y EXCEPT !.did = IF @ \in Dead(s) THEN DefaultDeck ELSE @]
    BY <2>1 DEF AcceptedCards
  <2>3. y \in CardRow /\ y.id \notin Dead(s)
    BY <2>2 DEF Newer, IsDelta
  <2>4. /\ r.usn = u /\ r.id = y.id /\ r.mod = y.mod
        /\ r.did = IF y.did \in Dead(s) THEN DefaultDeck ELSE y.did
    BY <2>1, <2>2, <2>3 DEF CardRow
  <2> QED
    BY <1>1, <2>1, <2>2, <2>3, <2>4 DEF Taken
<1>2. CASE t \in {"notes", "decks"}
  <2>1. PICK y \in Newer(d[t], s[t], Dead(s)) : r = [y EXCEPT !.usn = u]
    BY <1>2 DEF Added, StampAll
  <2>2. y \in NoteRow \cup DeckRow /\ y.id \notin Dead(s)
    BY <1>2, <2>1 DEF Newer, IsDelta
  <2>3. r.usn = u /\ r.id = y.id /\ r.mod = y.mod
    BY <2>1, <2>2 DEF NoteRow, DeckRow
  <2> QED
    BY <1>2, <2>1, <2>2, <2>3 DEF Taken
<1> QED
  BY <1>1, <1>2 DEF RowTables

LEMMA AddedUnique ==
  ASSUME NEW s \in Tables, NEW d, IsDelta(d), NEW u \in Nat, NEW t \in RowTables, Unique(d)
  PROVE  \A x, y \in Added(s, d, u, t) : x.id = y.id => x = y
<1> SUFFICES ASSUME NEW x \in Added(s, d, u, t), NEW y \in Added(s, d, u, t), x.id = y.id
             PROVE  x = y
  OBVIOUS
<1>1. PICK v \in Newer(d[t], s[t], Dead(s)) : v.id = x.id /\ x = Taken(v, s, u, t)
  BY AddedRow
<1>2. PICK w \in Newer(d[t], s[t], Dead(s)) : w.id = y.id /\ y = Taken(w, s, u, t)
  BY AddedRow
<1>3. v = w
  BY <1>1, <1>2 DEF Newer, Unique
<1> QED
  BY <1>1, <1>2, <1>3

\* The key of a row of the upload is on the server afterwards.
LEMMA MergeHas ==
  ASSUME NEW s \in Tables, NEW d, IsDelta(d), NEW u \in Nat, NEW t \in RowTables \ {"cards"}
  PROVE  Ids(d[t]) \cup OnServer(s, t) \subseteq OnServer(Merge(s, d, u), t)
<1>1. Dead(Merge(s, d, u)) = Dead(s)
  BY DEF Merge, Dead
<1>2. ASSUME NEW y \in d[t], y.id \notin Dead(s), y.id \notin Ids(s[t])
      PROVE  y.id \in Ids(Merge(s, d, u)[t])
  <2>1. y \in Newer(d[t], s[t], Dead(s))
    BY <1>2 DEF Newer, Ids
  <2>2. [y EXCEPT !.usn = u] \in Added(s, d, u, t)
    BY <2>1 DEF Added, StampAll
  <2>3. [y EXCEPT !.usn = u].id = y.id
    BY DEF RowTables, IsDelta, NoteRow, DeckRow
  <2>4. y.id \in Ids(Added(s, d, u, t))
    BY <2>2, <2>3 DEF Ids
  <2> QED
    BY <2>4, MergePuts, PutIds
<1>3. Ids(s[t]) \subseteq Ids(Merge(s, d, u)[t])
  BY MergePuts, PutIds
<1>4. \A o \in Ids(d[t]) : \E y \in d[t] : y.id = o
  BY DEF Ids
<1> QED
  BY <1>1, <1>2, <1>3, <1>4 DEF OnServer

LEMMA MergeAdvances ==
  ASSUME NEW s \in Tables, NEW d, IsDelta(d), NEW n \in Nat
  PROVE  Advances(s, Merge(s, d, n + 1), n)
<1> DEFINE u == n + 1
<1>1. u \in Nat /\ u > n
  OBVIOUS
<1> HIDE DEF u
<1>2. ASSUME NEW t \in RowTables, NEW x \in Merge(s, d, u)[t]
      PROVE  x.usn > n \/ (\E y \in s[t] : y.id = x.id /\ y.mod = x.mod /\ y.usn = x.usn)
  <2>1. x \in s[t] \/ x \in Added(s, d, u, t)
    BY MergePuts DEF Put
  <2>2. CASE x \in Added(s, d, u, t)
    BY <1>1, <2>2, AddedRow
  <2> QED
    BY <2>1, <2>2
<1>3. Merge(s, d, u).graves = s.graves
  BY DEF Merge
<1>4. \A t \in RowTables \ {"cards"} : OnServer(s, t) \subseteq OnServer(Merge(s, d, u), t)
  BY <1>1, MergeHas
<1>5. Advances(s, Merge(s, d, u), n)
  BY <1>2, <1>3, <1>4 DEF Advances, Dead
<1> QED
  BY <1>5 DEF u

\* After an upload the server is in order again.
LEMMA MergeOK ==
  ASSUME NEW s \in Tables, NEW d, IsDelta(d), NEW u \in Nat, u >= 1,
         ServerOK(s), Unique(d)
  PROVE  ServerOK(Merge(s, d, u))
<1> DEFINE next == Merge(s, d, u)
<1>1. Dead(next) = Dead(s) /\ next.graves = s.graves
  BY DEF Merge, Dead
<1>2. \A t \in RowTables : next[t] = Put(s[t], Added(s, d, u, t))
  BY MergePuts
<1> HIDE DEF next
<1>3. Unique(next)
  <2> SUFFICES ASSUME NEW t \in RowTables
               PROVE  \A x, y \in next[t] : x.id = y.id => x = y
    BY DEF Unique
  <2>1. \A x, y \in s[t] : x.id = y.id => x = y
    BY DEF ServerOK, Unique
  <2>2. \A x, y \in Added(s, d, u, t) : x.id = y.id => x = y
    BY AddedUnique
  <2> QED
    BY <1>2, <2>1, <2>2, PutUnique
<1>4. \A t \in RowTables : \A x \in next[t] : x.id \notin Dead(next) /\ x.usn >= 1
  <2> SUFFICES ASSUME NEW t \in RowTables, NEW x \in next[t]
               PROVE  x.id \notin Dead(s) /\ x.usn >= 1
    BY <1>1
  <2>1. CASE x \in s[t]
    BY <2>1 DEF ServerOK
  <2>2. CASE x \in Added(s, d, u, t)
    BY <2>2, AddedRow
  <2> QED
    BY <1>2, <2>1, <2>2 DEF Put
<1>5. DefaultDeck \in Ids(next.decks) /\ DefaultDeck \notin Dead(s)
  <2>1. next.decks = Put(s.decks, Added(s, d, u, "decks"))
    BY <1>2 DEF RowTables
  <2>2. DefaultDeck \in Ids(next.decks)
    BY <2>1, PutIds DEF ServerOK
  <2> QED
    BY <2>2, DefaultAlive
<1>6. ASSUME NEW x \in next.cards
      PROVE  NoteOf[x.id] \notin Dead(s) /\ x.did \notin Dead(s)
  <2>1. CASE x \in s.cards
    BY <2>1 DEF ServerOK
  <2>2. CASE x \in Added(s, d, u, "cards")
    BY <1>5, <2>2, AddedRow DEF RowTables
  <2>3. next.cards = Put(s.cards, Added(s, d, u, "cards"))
    BY <1>2 DEF RowTables
  <2> QED
    BY <2>1, <2>2, <2>3 DEF Put
<1>7. \A g \in next.graves : g.usn >= 1
  BY <1>1 DEF ServerOK
<1>8. ServerOK(next)
  BY <1>1, <1>3, <1>4, <1>5, <1>6, <1>7 DEF ServerOK
<1> QED
  BY <1>8 DEF next

LEMMA MergeSound ==
  ASSUME NEW s \in Tables, NEW d, IsDelta(d), NEW u \in Nat, NEW notes, NEW decks,
         DefaultDeck \in decks, Sound(s, notes, decks), Sound(d, notes, decks)
  PROVE  Sound(Merge(s, d, u), notes, decks)
<1> DEFINE next == Merge(s, d, u)
<1>1. next.graves = s.graves
  BY DEF Merge
<1>2. next.cards = Put(s.cards, Added(s, d, u, "cards"))
  BY MergePuts DEF RowTables
<1> HIDE DEF next
<1>3. ASSUME NEW x \in Added(s, d, u, "cards")
      PROVE  NoteOf[x.id] \in notes /\ x.did \in decks
  <2>1. PICK y \in Newer(d.cards, s.cards, Dead(s)) :
          y.id = x.id /\ x.did = IF y.did \in Dead(s) THEN DefaultDeck ELSE y.did
    BY AddedRow DEF RowTables
  <2>2. y \in d.cards
    BY DEF Newer
  <2> QED
    BY <2>1, <2>2 DEF Sound, References
<1>4. Sound(next, notes, decks)
  BY <1>1, <1>2, <1>3 DEF Sound, References, Put
<1> QED
  BY <1>4 DEF next

-----------------------------------------------------------------------------
(* The server buries objects                                                *)

\* The graves that Bury applies to the tables s, and no rows.
Burial(s, oids, u) ==
  [NoRows EXCEPT !.graves = {[oid |-> o, usn |-> u] : o \in oids \ Dead(s)}]

LEMMA BurialType ==
  ASSUME NEW s \in Tables, NEW oids \in SUBSET Key, NEW u \in Nat
  PROVE  /\ IsDelta(Burial(s, oids, u))
         /\ Oids(Burial(s, oids, u).graves) = oids \ Dead(s)
         /\ \A g \in Burial(s, oids, u).graves : g.usn = u
<1> DEFINE G == {[oid |-> o, usn |-> u] : o \in oids \ Dead(s)}
           d == Burial(s, oids, u)
<1>1. d.cards = {} /\ d.notes = {} /\ d.decks = {} /\ d.graves = G
  BY DEF NoRows, Burial
<1>2. G \in SUBSET GraveRow /\ \A g \in G : g.usn = u
  BY DEF GraveRow, Usn
<1>3. Oids(G) = oids \ Dead(s)
  BY OidsOfGraves
<1> HIDE DEF d, G
<1>4. IsDelta(d)
  BY <1>1, <1>2 DEF IsDelta
<1>5. IsDelta(d) /\ Oids(d.graves) = oids \ Dead(s) /\ \A g \in d.graves : g.usn = u
  BY <1>1, <1>2, <1>3, <1>4
<1> QED
  BY <1>5 DEF d

LEMMA BuryRows ==
  ASSUME NEW s \in Tables, NEW oids \in SUBSET Key, NEW u \in Nat, NEW t \in RowTables
  PROVE  /\ Put(s[t], Burial(s, oids, u)[t]) = s[t]
         /\ Bury(s, oids, u)[t] = ApplyChanges(s, Burial(s, oids, u))[t]
<1> DEFINE d == Burial(s, oids, u)
<1>1. d[t] = {}
  BY DEF NoRows, Burial, RowTables
<1>2. Bury(s, oids, u) = [ApplyChanges(s, d) EXCEPT !.graves = s.graves \cup d.graves]
  BY DEF Bury, Burial
<1>3. IsDelta(d)
  BY BurialType
<1> HIDE DEF d
<1>4. ApplyChanges(s, d) \in Tables
  BY <1>3, ApplyType
<1>5. Bury(s, oids, u)[t] = ApplyChanges(s, d)[t]
  BY <1>2, <1>4 DEF Tables, RowTables
<1>6. Put(s[t], d[t]) = s[t]
  BY <1>1 DEF Put, Ids
<1> QED
  BY <1>5, <1>6 DEF d

LEMMA BuryGraves ==
  ASSUME NEW s \in Tables, NEW oids \in SUBSET Key, NEW u \in Nat,
         NEW g \in Bury(s, oids, u).graves
  PROVE  g \in s.graves \/ g.usn = u
<1> DEFINE d == Burial(s, oids, u)
<1>1. Bury(s, oids, u) = [ApplyChanges(s, d) EXCEPT !.graves = s.graves \cup d.graves]
  BY DEF Bury, Burial
<1>2. IsDelta(d) /\ \A h \in d.graves : h.usn = u
  BY BurialType
<1> HIDE DEF d
<1>3. ApplyChanges(s, d) \in Tables
  BY <1>2, ApplyType
<1>4. Bury(s, oids, u).graves = s.graves \cup d.graves
  BY <1>1, <1>3 DEF Tables
<1> QED
  BY <1>2, <1>4

\* Row r is what burying the objects dead makes of row z, which it leaves.
LeftOf(r, z, dead, t) ==
  /\ z.id = r.id /\ z.mod = r.mod /\ z.usn = r.usn
  /\ r = IF t = "cards" THEN Rehome(z, dead) ELSE z
  /\ t = "cards" => r.did = IF z.did \in dead THEN DefaultDeck ELSE z.did

\* A row that is left was there; a card may have come to deck 1.
LEMMA BuriedRow ==
  ASSUME NEW s \in Tables, NEW oids \in SUBSET Key, NEW u \in Nat, NEW t \in RowTables,
         NEW r \in Bury(s, oids, u)[t]
  PROVE  /\ r.id \notin oids \ Dead(s)
         /\ t = "cards" => NoteOf[r.id] \notin oids \ Dead(s)
         /\ \E z \in s[t] : LeftOf(r, z, oids \ Dead(s), t)
<1> DEFINE d == Burial(s, oids, u)
           D == oids \ Dead(s)
<1>1. IsDelta(d)
  BY BurialType
<1>2. Oids(d.graves) = D
  BY BurialType
<1>3. Put(s[t], d[t]) = s[t]
  BY BuryRows
<1>4. r \in ApplyChanges(s, d)[t]
  BY BuryRows
<1> HIDE DEF d, D
<1>5. r.id \notin D
  BY <1>1, <1>2, <1>4, ApplyRow
<1>6. \E z \in Put(s[t], d[t]) :
        /\ z.id = r.id /\ z.mod = r.mod /\ z.usn = r.usn
        /\ t = "cards" => /\ NoteOf[r.id] \notin Oids(d.graves)
                          /\ r = Rehome(z, Oids(d.graves))
                          /\ r.did = IF z.did \in Oids(d.graves) THEN DefaultDeck ELSE z.did
        /\ t # "cards" => r = z
  BY <1>1, <1>4, ApplyRow
<1>7. PICK z \in s[t] :
        /\ z.id = r.id /\ z.mod = r.mod /\ z.usn = r.usn
        /\ t = "cards" => /\ NoteOf[r.id] \notin D
                          /\ r = Rehome(z, D)
                          /\ r.did = IF z.did \in D THEN DefaultDeck ELSE z.did
        /\ t # "cards" => r = z
  BY <1>2, <1>3, <1>6
<1>8. LeftOf(r, z, D, t)
  BY <1>7 DEF LeftOf
<1> QED
  BY <1>5, <1>7, <1>8 DEF D

\* A row that is not buried is left.
LEMMA NotBuried ==
  ASSUME NEW s \in Tables, NEW oids \in SUBSET Key, NEW u \in Nat, NEW t \in RowTables \ {"cards"}
  PROVE  Ids(s[t]) \subseteq Ids(Bury(s, oids, u)[t]) \cup oids
<1> SUFFICES ASSUME NEW z \in s[t], z.id \notin oids
             PROVE  z.id \in Ids(Bury(s, oids, u)[t])
  BY DEF Ids
<1> DEFINE d == Burial(s, oids, u)
<1>1. IsDelta(d)
  BY BurialType
<1>2. Oids(d.graves) = oids \ Dead(s)
  BY BurialType
<1>3. Put(s[t], d[t]) = s[t]
  BY BuryRows
<1>4. Bury(s, oids, u)[t] = ApplyChanges(s, d)[t]
  BY BuryRows
<1> HIDE DEF d
<1>5. \E r \in ApplyChanges(s, d)[t] : r.id = z.id /\ r.mod = z.mod
  BY <1>1, <1>2, <1>3, ApplyHas
<1> QED
  BY <1>4, <1>5 DEF Ids

LEMMA BuryAdvances ==
  ASSUME NEW s \in Tables, NEW oids \in SUBSET Key, NEW n \in Nat
  PROVE  Advances(s, Bury(s, oids, n + 1), n)
<1> DEFINE u == n + 1
           next == Bury(s, oids, u)
<1>1. u \in Nat /\ u > n
  OBVIOUS
<1> HIDE DEF u
<1>2. ASSUME NEW t \in RowTables, NEW x \in next[t]
      PROVE  \E y \in s[t] : y.id = x.id /\ y.mod = x.mod /\ y.usn = x.usn
  <2>1. PICK y \in s[t] : LeftOf(x, y, oids \ Dead(s), t)
    BY <1>1, BuriedRow
  <2> QED
    BY <2>1 DEF LeftOf
<1>3. \A g \in next.graves : g \in s.graves \/ g.usn > n
  BY <1>1, BuryGraves
<1>4. Dead(next) = Dead(s) \cup oids
  BY <1>1, BuryType
<1>5. \A t \in RowTables \ {"cards"} : Ids(s[t]) \subseteq Ids(next[t]) \cup oids
  BY <1>1, NotBuried
<1> HIDE DEF next
<1>6. Advances(s, next, n)
  BY <1>2, <1>3, <1>4, <1>5 DEF Advances, OnServer
<1> QED
  BY <1>6 DEF next, u

LEMMA BuryOK ==
  ASSUME NEW s \in Tables, NEW oids \in SUBSET Key, NEW u \in Nat, u >= 1, ServerOK(s),
         DefaultDeck \notin oids
  PROVE  ServerOK(Bury(s, oids, u))
<1> DEFINE next == Bury(s, oids, u)
           D == oids \ Dead(s)
<1>1. Dead(next) = Dead(s) \cup oids
  BY BuryType
<1>2. ASSUME NEW t \in RowTables, NEW r \in next[t]
      PROVE  r.id \notin D /\ \E z \in s[t] : LeftOf(r, z, D, t)
  BY BuriedRow
<1>3. \A g \in next.graves : g \in s.graves \/ g.usn = u
  BY BuryGraves
<1>4. Ids(s.decks) \subseteq Ids(next.decks) \cup oids
  BY NotBuried DEF RowTables
<1>5. ASSUME NEW c \in next.cards
      PROVE  NoteOf[c.id] \notin D /\ \E z \in s.cards : LeftOf(c, z, D, "cards")
  BY BuriedRow DEF RowTables
<1>6. Unique(next)
  <2> SUFFICES ASSUME NEW t \in RowTables, NEW x \in next[t], NEW y \in next[t], x.id = y.id
               PROVE  x = y
    BY DEF Unique
  <2>1. PICK v \in s[t] : LeftOf(x, v, D, t)
    BY <1>2
  <2>2. PICK w \in s[t] : LeftOf(y, w, D, t)
    BY <1>2
  <2>3. v = w
    BY <2>1, <2>2 DEF ServerOK, Unique, LeftOf
  <2> QED
    BY <2>1, <2>2, <2>3 DEF LeftOf
<1> HIDE DEF next
<1>7. ASSUME NEW t \in RowTables, NEW x \in next[t]
      PROVE  x.id \notin Dead(next) /\ x.usn >= 1
  <2>1. PICK z \in s[t] : z.id = x.id /\ z.usn = x.usn
    BY <1>2 DEF LeftOf
  <2> QED
    BY <1>1, <1>2, <2>1 DEF ServerOK
<1>8. \A g \in next.graves : g.usn >= 1
  BY <1>3 DEF ServerOK
<1>9. DefaultDeck \in Ids(next.decks) /\ DefaultDeck \notin Dead(next)
  BY <1>1, <1>4 DEF ServerOK, Ids, RowTables
<1>10. ASSUME NEW c \in next.cards
       PROVE  NoteOf[c.id] \notin Dead(next) /\ c.did \notin Dead(next)
  <2>1. PICK z \in s.cards :
          /\ z.id = c.id /\ NoteOf[c.id] \notin D
          /\ c.did = IF z.did \in D THEN DefaultDeck ELSE z.did
    BY <1>5 DEF LeftOf
  <2>2. NoteOf[z.id] \notin Dead(s) /\ z.did \notin Dead(s)
    BY DEF ServerOK
  <2> QED
    BY <1>1, <1>9, <2>1, <2>2
<1>11. ServerOK(next)
  BY <1>6, <1>7, <1>8, <1>9, <1>10 DEF ServerOK
<1> QED
  BY <1>11 DEF next

LEMMA BurySound ==
  ASSUME NEW s \in Tables, NEW oids \in SUBSET Key, NEW u \in Nat, NEW notes, NEW decks,
         DefaultDeck \in decks, Sound(s, notes, decks),
         \A k \in Cards : k \in oids => NoteOf[k] \in notes
  PROVE  Sound(Bury(s, oids, u), notes, decks)
<1> DEFINE next == Bury(s, oids, u)
           D == oids \ Dead(s)
<1>1. Dead(next) = Dead(s) \cup oids
  BY BuryType
<1>2. ASSUME NEW c \in next.cards
      PROVE  \E z \in s.cards : LeftOf(c, z, D, "cards")
  BY BuriedRow DEF RowTables
<1> HIDE DEF next
<1>3. ASSUME NEW c \in next.cards
      PROVE  NoteOf[c.id] \in notes /\ c.did \in decks
  <2>1. PICK z \in s.cards :
          z.id = c.id /\ c.did = IF z.did \in D THEN DefaultDeck ELSE z.did
    BY <1>2 DEF LeftOf
  <2> QED
    BY <2>1 DEF Sound, References
<1>4. Sound(next, notes, decks)
  BY <1>1, <1>3 DEF Sound, References, Dead
<1> QED
  BY <1>4 DEF next

-----------------------------------------------------------------------------
(* A step of the server                                                     *)

Moves == ServerOK(srv') /\ Advances(srv, srv', susn) /\ SoundNow(srv)'

LEMMA SeenStays ==
  ASSUME NEW s, NEW s2, NEW n, NEW c, Advances(s, s2, n)
  PROVE  /\ Seen(s, c, "notes") \subseteq Seen(s2, c, "notes")
         /\ Seen(s, c, "decks") \subseteq Seen(s2, c, "decks")
<1>1. \A t \in {"notes", "decks"} : OnServer(s, t) \subseteq OnServer(s2, t)
  BY DEF Advances, RowTables
<1> QED
  BY <1>1 DEF Seen

\* What is sound stays so while the server moves.
LEMMA SoundStays ==
  ASSUME NEW d, Advances(srv, srv', susn), UNCHANGED col, SoundNow(d)
  PROVE  Sound(d, Seen(srv', col', "notes"), Seen(srv', col', "decks"))
<1>1. /\ Seen(srv, col, "notes") \subseteq Seen(srv', col', "notes")
      /\ Seen(srv, col, "decks") \subseteq Seen(srv', col', "decks")
  BY SeenStays
<1> QED
  BY <1>1, SoundMore DEF SoundNow

\* Another device's edit revives nothing and refers to nothing dead.
LEMMA EditOK ==
  ASSUME NEW s \in Tables, ServerOK(s), NEW n \in Nat, NEW d, NEW m,
         IsEdit(d, m, n + 1), Unique(d),
         \A t \in RowTables : \A x \in d[t] : x.id \notin Dead(s),
         \A x \in d.cards : NoteOf[x.id] \notin Dead(s) /\ x.did \notin Dead(s)
  PROVE  /\ ServerOK(ApplyChanges(s, d)) /\ Advances(s, ApplyChanges(s, d), n)
         /\ \A t \in RowTables : Ids(ApplyChanges(s, d)[t]) = Ids(s[t]) \cup Ids(d[t])
<1> DEFINE next == ApplyChanges(s, d)
<1>1. /\ \A t \in RowTables : next[t] = Put(s[t], d[t])
      /\ next.graves = s.graves
  BY EditRows DEF IsEdit
<1> HIDE DEF next
<1>2. Dead(next) = Dead(s)
  BY <1>1 DEF Dead
<1>3. \A t \in RowTables : \A x \in d[t] : x.usn > n /\ x.usn >= 1
  BY DEF IsEdit
<1>4. \A t \in RowTables : Ids(next[t]) = Ids(s[t]) \cup Ids(d[t])
  BY <1>1, PutIds
<1>5. Unique(next)
  <2> SUFFICES ASSUME NEW t \in RowTables
               PROVE  \A x, y \in next[t] : x.id = y.id => x = y
    BY DEF Unique
  <2>1. \A x, y \in s[t] : x.id = y.id => x = y
    BY DEF ServerOK, Unique
  <2>2. \A x, y \in d[t] : x.id = y.id => x = y
    BY DEF Unique
  <2> QED
    BY <1>1, <2>1, <2>2, PutUnique
<1>6. \A t \in RowTables : \A x \in next[t] : x \in s[t] \/ x \in d[t]
  BY <1>1 DEF Put
<1>7. \A t \in RowTables : \A x \in next[t] : x.id \notin Dead(next) /\ x.usn >= 1
  BY <1>2, <1>3, <1>6 DEF ServerOK
<1>8. \A x \in next.cards : NoteOf[x.id] \notin Dead(next) /\ x.did \notin Dead(next)
  BY <1>2, <1>6 DEF ServerOK, RowTables
<1>9. DefaultDeck \in Ids(next.decks)
  BY <1>4 DEF ServerOK, RowTables
<1>10. \A g \in next.graves : g.usn >= 1
  BY <1>1 DEF ServerOK
<1>11. ServerOK(next)
  BY <1>5, <1>7, <1>8, <1>9, <1>10 DEF ServerOK
<1>12. Advances(s, next, n)
  <2>1. \A t \in RowTables : OnServer(s, t) \subseteq OnServer(next, t)
    BY <1>2, <1>4 DEF OnServer
  <2> QED
    BY <1>1, <1>2, <1>3, <1>6, <2>1 DEF Advances
<1> QED
  BY <1>4, <1>11, <1>12 DEF next

LEMMA EditSound ==
  ASSUME NEW s \in Tables, NEW d, NEW m, NEW u, IsEdit(d, m, u), NEW notes, NEW decks,
         Sound(s, notes, decks), References(d.cards, notes, decks)
  PROVE  Sound(ApplyChanges(s, d), notes, decks)
<1> DEFINE next == ApplyChanges(s, d)
<1>1. next.cards = Put(s.cards, d.cards) /\ next.graves = s.graves
  BY EditRows DEF IsEdit, RowTables
<1> HIDE DEF next
<1>2. \A x \in next.cards : x \in s.cards \/ x \in d.cards
  BY <1>1 DEF Put
<1>3. Sound(next, notes, decks)
  BY <1>1, <1>2 DEF Sound, References
<1> QED
  BY <1>3 DEF next

\* The two together: d is what another device changes.
LEMMA EditMoves ==
  ASSUME TypeOK, ServerOK(srv), SoundNow(srv), UNCHANGED col, NEW d, NEW m,
         IsEdit(d, m, susn + 1), Unique(d), srv' = ApplyChanges(srv, d),
         \A t \in RowTables : \A x \in d[t] : x.id \notin Dead(srv),
         \A x \in d.cards : NoteOf[x.id] \notin Dead(srv) /\ x.did \notin Dead(srv),
         References(d.cards, Seen(srv, col, "notes") \cup Ids(d.notes), Seen(srv, col, "decks"))
  PROVE  Moves
<1>1. srv \in Tables /\ susn \in Nat
  BY DEF TypeOK
<1>2. /\ ServerOK(srv') /\ Advances(srv, srv', susn)
      /\ \A t \in RowTables : Ids(srv'[t]) = Ids(srv[t]) \cup Ids(d[t])
  BY <1>1, EditOK
<1> DEFINE notes == Seen(srv', col', "notes")
           decks == Seen(srv', col', "decks")
<1>3. Sound(srv, notes, decks)
  BY <1>2, SoundStays
<1>4. References(d.cards, notes, decks)
  <2>1. Ids(d.notes) \subseteq notes
    BY <1>2 DEF Seen, OnServer, RowTables
  <2>2. Seen(srv, col, "notes") \subseteq notes /\ Seen(srv, col, "decks") \subseteq decks
    BY <1>2, SeenStays
  <2> QED
    BY <2>1, <2>2 DEF References
<1> HIDE DEF notes, decks
<1>5. Sound(srv', notes, decks)
  BY <1>1, <1>3, <1>4, EditSound
<1> QED
  BY <1>2, <1>5 DEF Moves, SoundNow, notes, decks

\* The cards of a note nobody has seen have never been deleted.
LEMMA FreshCards ==
  ASSUME SoundNow(srv), NEW n \in Notes, Fresh(n), NEW k \in Cards, NoteOf[k] = n
  PROVE  k \notin Dead(srv)
BY DEF SoundNow, Sound, Seen, OnServer, Fresh, Dead

LEMMA RemoteNoteMoves ==
  ASSUME TypeOK, ServerOK(srv), SoundNow(srv), UNCHANGED col,
         NEW n \in Notes, Fresh(n), NEW k \in Ids(srv.decks),
         srv' = ApplyChanges(srv, NewNote(n, k, susn + 1))
  PROVE  Moves
<1> DEFINE d == NewNote(n, k, susn + 1)
<1>1. srv \in Tables /\ susn \in Nat /\ susn + 1 \in Usn /\ clock \in Nat
  BY DEF TypeOK, Usn
<1>2. k \in Decks
  BY <1>1 DEF Ids, Tables, DeckRow
<1>3. IsEdit(d, clock + 1, susn + 1)
  BY <1>1, <1>2, NewNoteIsEdit
<1>4. d.decks = {} /\ d.notes = {[id |-> n, mod |-> clock + 1, usn |-> susn + 1]}
  BY DEF NewNote, NoRows
<1>5. d.cards = {[id |-> c, did |-> k, mod |-> clock + 1, usn |-> susn + 1] :
                   c \in {j \in Cards : NoteOf[j] = n}}
  BY DEF NewNote, NoRows
<1>6. \A x \in d.cards : x.id \in Cards /\ NoteOf[x.id] = n /\ x.did = k
  BY <1>5
<1>7. \A x, y \in d.cards : x.id = y.id => x = y
  BY <1>5
<1>8. \A x \in d.notes : x.id = n
  BY <1>4
<1>9. n \in Ids(d.notes)
  <2>1. [id |-> n, mod |-> clock + 1, usn |-> susn + 1].id = n
    OBVIOUS
  <2> QED
    BY <1>4, <2>1 DEF Ids
<1>10. Unique(d)
  BY <1>4, <1>7 DEF Unique, RowTables
<1> HIDE DEF d
<1>11. n \notin Dead(srv)
  BY DEF Fresh
<1>12. k \notin Dead(srv)
  BY DEF ServerOK, Ids, RowTables
<1>13. \A x \in d.cards : x.id \notin Dead(srv)
  BY <1>6, FreshCards
<1>14. \A t \in RowTables : \A x \in d[t] : x.id \notin Dead(srv)
  BY <1>4, <1>8, <1>11, <1>13 DEF RowTables
<1>15. References(d.cards, Seen(srv, col, "notes") \cup Ids(d.notes), Seen(srv, col, "decks"))
  BY <1>6, <1>9 DEF References, Seen, OnServer
<1> QED
  BY <1>3, <1>6, <1>10, <1>11, <1>12, <1>14, <1>15, EditMoves DEF d

LEMMA RemoteCardMoves ==
  ASSUME TypeOK, ServerOK(srv), SoundNow(srv), UNCHANGED col,
         NEW r \in srv.cards, NEW k \in Ids(srv.decks),
         srv' = ApplyChanges(srv, RemoteCard(r, k))
  PROVE  Moves
<1> DEFINE d == RemoteCard(r, k)
           row == [r EXCEPT !.mod = clock + 1, !.usn = susn + 1, !.did = k]
<1>1. srv \in Tables /\ susn \in Nat /\ susn + 1 \in Usn /\ clock \in Nat
  BY DEF TypeOK, Usn
<1>2. k \in Decks /\ r \in CardRow
  BY <1>1 DEF Ids, Tables, DeckRow
<1>3. /\ row \in CardRow /\ row.mod = clock + 1 /\ row.usn = susn + 1
      /\ row.did = k /\ row.id = r.id
  <2>1. clock + 1 \in Nat
    BY <1>1
  <2>2. row \in CardRow /\ row.mod = clock + 1 /\ row.usn = susn + 1
    BY <1>1, <1>2, <2>1 DEF CardRow
  <2>3. row.did = k
    BY <1>2 DEF CardRow
  <2>4. row.id = r.id
    BY <1>2 DEF CardRow
  <2> QED
    BY <2>2, <2>3, <2>4
<1>4. d.cards = {row} /\ d.notes = {} /\ d.decks = {} /\ d.graves = {}
  BY DEF NoRows, RemoteCard
<1> HIDE DEF row, d
<1>5. IsEdit(d, clock + 1, susn + 1)
  BY <1>3, <1>4 DEF IsEdit, IsDelta, RowTables
<1>6. Unique(d)
  BY <1>4 DEF Unique, RowTables
<1>7. \A t \in RowTables : \A x \in d[t] : x.id \notin Dead(srv)
  BY <1>3, <1>4 DEF RowTables, ServerOK
<1>8. k \notin Dead(srv) /\ NoteOf[r.id] \notin Dead(srv)
  BY DEF ServerOK, Ids, RowTables
<1>9. References(d.cards, Seen(srv, col, "notes") \cup Ids(d.notes), Seen(srv, col, "decks"))
  <2>1. NoteOf[r.id] \in Seen(srv, col, "notes")
    BY DEF SoundNow, Sound, References
  <2>2. k \in Seen(srv, col, "decks")
    BY DEF Seen, OnServer
  <2> QED
    BY <1>3, <1>4, <2>1, <2>2 DEF References
<1>10. \A x \in d.cards : NoteOf[x.id] \notin Dead(srv) /\ x.did \notin Dead(srv)
  BY <1>3, <1>4, <1>8
<1> QED
  BY <1>5, <1>6, <1>7, <1>9, <1>10, EditMoves DEF d

LEMMA RemoteDeckMoves ==
  ASSUME TypeOK, ServerOK(srv), SoundNow(srv), UNCHANGED col,
         NEW k \in Decks, Fresh(k) \/ k \in Ids(srv.decks),
         NEW d, d = [NoRows EXCEPT !.decks = {[id |-> k, mod |-> clock + 1, usn |-> susn + 1]}],
         srv' = ApplyChanges(srv, d)
  PROVE  Moves
<1> DEFINE row == [id |-> k, mod |-> clock + 1, usn |-> susn + 1]
<1>1. srv \in Tables /\ susn \in Nat /\ susn + 1 \in Usn /\ clock \in Nat
  BY DEF TypeOK, Usn
<1>2. row \in DeckRow /\ row.mod = clock + 1 /\ row.usn = susn + 1 /\ row.id = k
  BY <1>1 DEF DeckRow
<1>3. d.decks = {row} /\ d.notes = {} /\ d.cards = {} /\ d.graves = {}
  BY DEF NoRows
<1> HIDE DEF row
<1>4. IsEdit(d, clock + 1, susn + 1)
  BY <1>2, <1>3 DEF IsEdit, IsDelta, RowTables
<1>5. Unique(d)
  <2>1. \A x, y \in {row} : x = y
    OBVIOUS
  <2>2. \A t \in RowTables : d[t] \subseteq {row}
    BY <1>3 DEF RowTables
  <2> QED
    BY <2>1, <2>2 DEF Unique
<1>6. k \notin Dead(srv)
  BY DEF Fresh, ServerOK, Ids, RowTables
<1>7. \A t \in RowTables : \A x \in d[t] : x.id \notin Dead(srv)
  BY <1>2, <1>3, <1>6 DEF RowTables
<1>8. /\ References(d.cards, Seen(srv, col, "notes") \cup Ids(d.notes), Seen(srv, col, "decks"))
      /\ \A x \in d.cards : NoteOf[x.id] \notin Dead(srv) /\ x.did \notin Dead(srv)
  BY <1>3 DEF References
<1> QED
  BY <1>4, <1>5, <1>7, <1>8, EditMoves

LEMMA RemoteEditMoves ==
  ASSUME TypeOK, ServerOK(srv), SoundNow(srv), RemoteEdit
  PROVE  Moves
<1>1. PICK d \in RemoteNotes \cup RemoteCards \cup RemoteDecks : srv' = ApplyChanges(srv, d)
  BY DEF RemoteEdit
<1> UNCHANGED col
  BY DEF RemoteEdit
<1>2. CASE d \in RemoteNotes
  <2>1. PICK n \in Notes, k \in Ids(srv.decks) : Fresh(n) /\ d = NewNote(n, k, susn + 1)
    BY <1>2 DEF RemoteNotes
  <2> QED
    BY <1>1, <2>1, RemoteNoteMoves
<1>3. CASE d \in RemoteCards
  <2>1. PICK r \in srv.cards, k \in Ids(srv.decks) : d = RemoteCard(r, k)
    BY <1>3 DEF RemoteCards
  <2> QED
    BY <1>1, <2>1, RemoteCardMoves
<1>4. CASE d \in RemoteDecks
  <2>1. PICK k \in {e \in Decks : Fresh(e)} \cup Ids(srv.decks) :
          d = [NoRows EXCEPT !.decks = {[id |-> k, mod |-> clock + 1, usn |-> susn + 1]}]
    BY <1>4 DEF RemoteDecks
  <2>2. k \in Decks /\ (Fresh(k) \/ k \in Ids(srv.decks))
    BY DEF TypeOK, Ids, Tables, DeckRow
  <2> QED
    BY <1>1, <2>1, <2>2, RemoteDeckMoves
<1> QED
  BY <1>1, <1>2, <1>3, <1>4

LEMMA RemoteDeleteMoves ==
  ASSUME TypeOK, ServerOK(srv), SoundNow(srv), RemoteDelete
  PROVE  Moves
<1>1. srv \in Tables /\ susn \in Nat /\ susn + 1 \in Nat /\ susn + 1 >= 1 /\ UNCHANGED col
  BY DEF TypeOK, RemoteDelete
<1>2. PICK o \in (Ids(srv.cards) \cup Ids(srv.notes) \cup Ids(srv.decks)) \ {DefaultDeck} :
        srv' = Bury(srv, {o}, susn + 1)
  BY DEF RemoteDelete
<1>3. o \in Key
  BY <1>1 DEF Ids, Tables, CardRow, NoteRow, DeckRow, Key
<1>4. {o} \in SUBSET Key /\ DefaultDeck \notin {o}
  BY <1>3
<1>5. ServerOK(Bury(srv, {o}, susn + 1))
  BY <1>1, <1>4, BuryOK
<1>6. Advances(srv, Bury(srv, {o}, susn + 1), susn)
  BY <1>1, <1>4, BuryAdvances
<1> DEFINE notes == Seen(srv', col', "notes")
           decks == Seen(srv', col', "decks")
<1>7. Sound(srv, notes, decks)
  BY <1>1, <1>2, <1>6, SoundStays
<1>8. ASSUME NEW k \in Cards, k \in {o}
      PROVE  NoteOf[k] \in notes
  <2>1. Ids(srv.notes) \subseteq Notes /\ Ids(srv.decks) \subseteq Decks
    BY <1>1 DEF Ids, Tables, NoteRow, DeckRow
  <2>2. k \in Ids(srv.cards)
    BY <1>8, <2>1, KeysAssumption
  <2> QED
    BY <1>7, <2>2 DEF Ids, Sound, References
<1>9. DefaultDeck \in decks
  BY <1>2, <1>5 DEF ServerOK, Seen, OnServer
<1> HIDE DEF notes, decks
<1>10. Sound(srv', notes, decks)
  BY <1>1, <1>2, <1>4, <1>7, <1>8, <1>9, BurySound
<1> QED
  BY <1>2, <1>5, <1>6, <1>10 DEF Moves, SoundNow, notes, decks

\* A request that is in order.
LEMMA HandleMoves ==
  ASSUME TypeOK, ServerOK(srv), SoundNow(srv), UNCHANGED col,
         NEW q \in Request, Decent(q.delta), SoundNow(q.delta), Handle(q)
  PROVE  Moves
<1>1. srv \in Tables /\ susn \in Nat /\ susn + 1 \in Nat /\ susn + 1 >= 1
  BY DEF TypeOK
<1>2. IsDelta(q.delta) /\ Oids(q.delta.graves) \in SUBSET Key
  BY DEF Request, Delta, IsDelta, Oids, GraveRow
<1> DEFINE notes == Seen(srv', col', "notes")
           decks == Seen(srv', col', "decks")
           O == Oids(q.delta.graves)
<1>3. CASE q.kind = "changes"
  <2>1. srv' = Merge(srv, q.delta, susn + 1)
    BY <1>3 DEF Handle
  <2>2. ServerOK(srv')
    BY <1>1, <1>2, <2>1, MergeOK DEF Decent
  <2>3. Advances(srv, srv', susn)
    BY <1>1, <1>2, <2>1, MergeAdvances
  <2>4. Sound(srv, notes, decks) /\ Sound(q.delta, notes, decks)
    BY <2>3, SoundStays
  <2>5. DefaultDeck \in decks
    BY <2>2 DEF ServerOK, Seen, OnServer
  <2> HIDE DEF notes, decks
  <2>6. Sound(srv', notes, decks)
    BY <1>1, <1>2, <2>1, <2>4, <2>5, MergeSound
  <2> QED
    BY <2>2, <2>3, <2>6 DEF Moves, SoundNow, notes, decks
<1>4. CASE q.kind # "changes"
  <2>1. srv' = Bury(srv, O, susn + 1)
    BY <1>4 DEF Handle
  <2>2. DefaultDeck \notin O /\ O \in SUBSET Key
    BY <1>2 DEF Decent
  <2> HIDE DEF O
  <2>3. ServerOK(srv')
    BY <1>1, <2>1, <2>2, BuryOK
  <2>4. Advances(srv, srv', susn)
    BY <1>1, <2>1, <2>2, BuryAdvances
  <2>5. Sound(srv, notes, decks) /\ Sound(q.delta, notes, decks)
    BY <2>4, SoundStays
  <2>6. DefaultDeck \in decks
    BY <2>3 DEF ServerOK, Seen, OnServer
  <2>7. \A k \in Cards : k \in O => NoteOf[k] \in notes
    BY <2>5 DEF Sound, O
  <2> HIDE DEF notes, decks
  <2>8. Sound(srv', notes, decks)
    BY <1>1, <2>1, <2>2, <2>5, <2>6, <2>7, BurySound
  <2> QED
    BY <2>3, <2>4, <2>8 DEF Moves, SoundNow, notes, decks
<1> QED
  BY <1>3, <1>4

LEMMA StaysMoves ==
  ASSUME ServerOK(srv), SoundNow(srv), srv' = srv, UNCHANGED col
  PROVE  Moves
BY DEF Moves, Advances, SoundNow

-----------------------------------------------------------------------------
(* The client while the server moves                                        *)

\* What the client holds is as good as before.
LEMMA OtherHolds ==
  ASSUME BInv, BInv', CInv, Moves, late' \subseteq late, UNCHANGED <<col, local>>
  PROVE  /\ SoundNow(col)' /\ SoundNow(local)' /\ \A q \in late' : SoundNow(q.delta)'
         /\ Covers(col', srv', maxUSN(col'))
         /\ \A n \in Usn : n <= susn /\ Covers(col, srv, n) => Covers(col', srv', n)
<1>1. /\ col \in Tables /\ srv' \in Tables /\ susn \in Nat
  BY DEF BInv, TypeOK
<1>2. maxUSN(col) \in Usn /\ maxUSN(col) <= susn
  BY <1>1, MaxUSNType DEF BInv, UsnBound
<1>3. Advances(srv, srv', susn)
  BY DEF Moves
<1>4. /\ SoundNow(col) /\ SoundNow(local) /\ \A q \in late : SoundNow(q.delta)
  BY DEF CInv, AllSound
<1>5. SoundNow(col)' /\ SoundNow(local)'
  <2>1. Sound(col, Seen(srv', col', "notes"), Seen(srv', col', "decks"))
    BY <1>3, <1>4, SoundStays
  <2>2. Sound(local, Seen(srv', col', "notes"), Seen(srv', col', "decks"))
    BY <1>3, <1>4, SoundStays
  <2> QED
    BY <2>1, <2>2 DEF SoundNow
<1>6. ASSUME NEW q \in late'
      PROVE  SoundNow(q.delta)'
  <2>1. Sound(q.delta, Seen(srv', col', "notes"), Seen(srv', col', "decks"))
    BY <1>3, <1>4, <1>6, SoundStays
  <2> QED
    BY <2>1 DEF SoundNow
<1>7. \A n \in Usn : n <= susn /\ Covers(col, srv, n) => Covers(col', srv', n)
  BY <1>1, <1>3, CoversStays
<1>8. Covers(col', srv', maxUSN(col'))
  BY <1>2, <1>7 DEF CInv, CursorOK
<1> QED
  BY <1>5, <1>6, <1>7, <1>8

\* Steps of other devices, late requests, and the call ApplyGraves.
LEMMA OtherKeeps ==
  ASSUME BInv, BInv', CInv, Moves, late' \subseteq late,
         UNCHANGED <<col, local, remote, lastUSN, session>>,
         pc' = pc \/ (pc = "bury" /\ pc' = "apply")
  PROVE  CInv'
<1>1. /\ col \in Tables /\ srv \in Tables /\ srv' \in Tables /\ susn \in Nat
      /\ session \in Nat /\ session \in Usn /\ session <= susn
      /\ local.usn \in Usn /\ local.usn <= susn
  BY DEF BInv, TypeOK, UsnBound, Usn, Delta
<1>2. Advances(srv, srv', susn) /\ ServerOK(srv') /\ SoundNow(srv)'
  BY DEF Moves
<1>3. /\ SoundNow(col)' /\ SoundNow(local)' /\ \A q \in late' : SoundNow(q.delta)'
      /\ Covers(col', srv', maxUSN(col'))
      /\ \A n \in Usn : n <= susn /\ Covers(col, srv, n) => Covers(col', srv', n)
  BY OtherHolds
<1>4. SoundNow(remote)'
  <2>1. Sound(remote, Seen(srv', col', "notes"), Seen(srv', col', "decks"))
    BY <1>2, SoundStays DEF CInv, AllSound
  <2> QED
    BY <2>1 DEF SoundNow
<1>5. AllSound'
  BY <1>2, <1>3, <1>4 DEF AllSound
<1>6. PageOK'
  <2>1. ASSUME pc \in {"bury", "apply"} PROVE Completes(remote, col, srv', session)
    BY <1>1, <1>2, <2>1, CompletesStays DEF CInv, PageOK
  <2>2. ASSUME pc \in {"bury", "apply"}, ~remote.more PROVE Resolves(remote, col)
    BY <2>2 DEF CInv, PageOK
  <2> QED
    BY <2>1, <2>2 DEF PageOK
<1>7. LocalOK'
  BY DEF CInv, LocalOK, Query
<1>8. CursorOK'
  <2>1. pc' \in {"state", "usn", "upload", "mark"} \cup Query => Covers(col', srv', session')
    BY <1>1, <1>3 DEF CInv, CursorOK, Query
  <2>2. pc' = "upload" => maxUSN(col') <= local'.usn /\ Covers(col', srv', local'.usn)
    BY <1>1, <1>3 DEF CInv, CursorOK
  <2>3. pc' \notin {"idle", "finish"} => lastUSN' <= session'
    BY DEF CInv, CursorOK
  <2>4. ReferencesWhole'
    BY DEF CInv, CursorOK, ReferencesWhole
  <2> QED
    BY <1>3, <2>1, <2>2, <2>3, <2>4 DEF CursorOK
<1> QED
  BY <1>2, <1>5, <1>6, <1>7, <1>8 DEF CInv

LEMMA RemoteMoves ==
  ASSUME BInv, CInv, Remote
  PROVE  Moves
<1>1. TypeOK /\ ServerOK(srv) /\ SoundNow(srv)
  BY DEF BInv, CInv, AllSound
<1>2. CASE RemoteEdit
  BY <1>1, <1>2, RemoteEditMoves
<1>3. CASE RemoteDelete
  BY <1>1, <1>3, RemoteDeleteMoves
<1>4. CASE ServerLate
  <2>1. PICK q \in late : Handle(q)
    BY <1>4 DEF ServerLate
  <2>2. q \in Request /\ Decent(q.delta) /\ SoundNow(q.delta) /\ UNCHANGED col
    BY <1>1, <1>4 DEF TypeOK, CInv, AllSound, LocalOK, ServerLate
  <2> QED
    BY <1>1, <2>1, <2>2, HandleMoves
<1> QED
  BY <1>2, <1>3, <1>4 DEF Remote

LEMMA GravesMoves ==
  ASSUME BInv, CInv, ApplyGravesCall
  PROVE  Moves
<1> DEFINE req == [kind |-> "graves", delta |-> local]
<1>1. TypeOK /\ ServerOK(srv) /\ SoundNow(srv) /\ local \in Delta /\ UNCHANGED col
  BY DEF BInv, CInv, AllSound, TypeOK, ApplyGravesCall
<1>2. req \in Request /\ req.delta = local
  BY <1>1 DEF Request
<1>3. Decent(req.delta) /\ SoundNow(req.delta)
  BY <1>2 DEF CInv, AllSound, LocalOK
<1>4. CASE SendsGraves
  <2>1. Handle(req)
    BY <1>4 DEF ApplyGravesCall
  <2> HIDE DEF req
  <2> QED
    BY <1>1, <1>2, <1>3, <2>1, HandleMoves
<1>5. CASE ~SendsGraves
  BY <1>1, <1>5, StaysMoves DEF ApplyGravesCall
<1> QED
  BY <1>4, <1>5

LEMMA ServerStepKeeps ==
  ASSUME BInv, BInv', CInv, Remote \/ ApplyGravesCall
  PROVE  CInv'
<1>1. CASE Remote
  <2>1. UNCHANGED <<col, pc, local, remote, lastUSN, session>> /\ late' \subseteq late
    BY <1>1 DEF Remote, RemoteEdit, RemoteDelete, ServerLate, clientVars
  <2> QED
    BY <1>1, <2>1, RemoteMoves, OtherKeeps
<1>2. CASE ApplyGravesCall
  <2>1. /\ pc = "bury" /\ pc' = "apply"
        /\ UNCHANGED <<col, local, remote, lastUSN, session>> /\ late' = late
    BY <1>2 DEF ApplyGravesCall
  <2> QED
    BY <1>2, <2>1, GravesMoves, OtherKeeps
<1> QED
  BY <1>1, <1>2

-----------------------------------------------------------------------------
(* Edits of the collection, also of another process during a synchronisation *)

\* Rows and graves that become pending do not raise the highest usn.
LEMMA MaxUSNFalls ==
  ASSUME NEW c \in Tables, NEW c2 \in Tables, NEW n \in Nat, Numbered(c, n), Numbered(c2, n),
         \A t \in Query : c2[t] = {} => c[t] = {},
         \A t \in Query : \A r \in c2[t] : r.usn = Pending \/ \E x \in c[t] : x.usn = r.usn
  PROVE  maxUSN(c2) <= maxUSN(c)
<1> DEFINE top == maxUSN(c)
           m == maxUSN(c2)
<1>1. top \in Usn /\ \A u \in UsnsIn(c) : u <= top
  BY MaxUSNMax
<1>2. m \in UsnsIn(c2)
  BY MaxUSNMax
<1> HIDE DEF top, m
<1>3. PICK t \in UsnTables : m \in UsnsOf(c2[t])
  BY <1>2 DEF UsnsIn
<1>4. t \in Query
  BY DEF UsnTables, Query
<1>5. Pending <= top
  BY <1>1 DEF Usn, Pending
<1>6. \A u \in UsnsOf(c[t]) : u <= top
  BY <1>1 DEF UsnsIn
<1>7. CASE c2[t] = {}
  <2>1. c[t] = {}
    BY <1>4, <1>7
  <2>2. m = 0 /\ 0 \in UsnsOf(c[t])
    BY <1>3, <1>7, <2>1 DEF UsnsOf
  <2> QED
    BY <1>6, <2>2 DEF top, m
<1>8. CASE c2[t] # {}
  <2>1. PICK r \in c2[t] : m = r.usn
    BY <1>3, <1>8 DEF UsnsOf
  <2>2. CASE r.usn = Pending
    BY <1>5, <2>1, <2>2 DEF top, m
  <2>3. CASE r.usn # Pending
    <3>1. PICK x \in c[t] : x.usn = r.usn
      BY <1>4, <2>3
    <3>2. x.usn \in UsnsOf(c[t])
      BY DEF UsnsOf
    <3> QED
      BY <1>6, <2>1, <3>1, <3>2 DEF top, m
  <2> QED
    BY <2>2, <2>3
<1> QED
  BY <1>7, <1>8


LEMMA RefreshesTrans ==
  ASSUME NEW a \in Tables, NEW b \in Tables, NEW d, IsDelta(d),
         Refreshes(a, b), Refreshes(b, d)
  PROVE  Refreshes(a, d)
<1> SUFFICES ASSUME NEW t \in RowTables, NEW y \in d[t]
             PROVE  \E r \in a[t] : r.id = y.id /\ r.mod >= y.mod
  BY DEF Refreshes
<1>1. PICK x \in b[t] : x.id = y.id /\ x.mod >= y.mod
  BY DEF Refreshes
<1>2. PICK r \in a[t] : r.id = x.id /\ r.mod >= x.mod
  BY DEF Refreshes
<1>3. r.mod \in Nat /\ x.mod \in Nat /\ y.mod \in Nat
  BY DEF Tables, IsDelta, RowTables, CardRow, NoteRow, DeckRow
<1> QED
  BY <1>1, <1>2, <1>3

\* The tables c become c2 by an edit: rows get newer or are added, and what is
\* added refers to what is there and revives nothing that the server s buried.
Grows(c, c2, s) ==
  /\ Refreshes(c2, c)
  /\ \A o \in Dead(s) : Without(c, o) => Without(c2, o)
  /\ \A x \in c2.cards :
       \/ \E r \in c.cards : r.id = x.id /\ r.did = x.did
       \/ NoteOf[x.id] \in Ids(c2.notes) /\ x.did \in Ids(c2.decks)
  /\ maxUSN(c2) <= maxUSN(c)

LEMMA GrowIds ==
  ASSUME NEW c, NEW c2, Refreshes(c2, c), NEW t \in RowTables
  PROVE  Ids(c[t]) \subseteq Ids(c2[t])
BY DEF Refreshes, Ids

LEMMA GrowRow ==
  ASSUME NEW c \in Tables, NEW c2 \in Tables, Refreshes(c2, c), NEW t \in RowTables,
         NEW x, x.mod \in Nat, \E r \in c[t] : r.id = x.id /\ r.mod >= x.mod
  PROVE  \E r \in c2[t] : r.id = x.id /\ r.mod >= x.mod
<1>1. PICK y \in c[t] : y.id = x.id /\ y.mod >= x.mod
  OBVIOUS
<1>2. PICK r \in c2[t] : r.id = y.id /\ r.mod >= y.mod
  BY DEF Refreshes
<1>3. r.mod \in Nat /\ y.mod \in Nat
  BY DEF Tables, RowTables, CardRow, NoteRow, DeckRow
<1> QED
  BY <1>1, <1>2, <1>3

LEMMA GrowCovers ==
  ASSUME NEW c \in Tables, NEW c2 \in Tables, NEW s \in Tables, Grows(c, c2, s),
         NEW n, Covers(c, s, n)
  PROVE  Covers(c2, s, n)
<1>1. ASSUME NEW t \in RowTables, NEW x \in s[t], x.usn <= n
      PROVE  \E r \in c2[t] : r.id = x.id /\ r.mod >= x.mod
  <2>1. x.mod \in Nat
    BY DEF Tables, RowTables, CardRow, NoteRow, DeckRow
  <2>2. \E r \in c[t] : r.id = x.id /\ r.mod >= x.mod
    BY <1>1 DEF Covers
  <2> QED
    BY <2>1, <2>2, GrowRow DEF Grows
<1>2. ASSUME NEW g \in s.graves, g.usn <= n
      PROVE  Without(c2, g.oid)
  <2>1. g.oid \in Dead(s)
    BY DEF Dead, Oids
  <2> QED
    BY <1>2, <2>1 DEF Covers, Grows
<1> QED
  BY <1>1, <1>2 DEF Covers

LEMMA GrowCompletes ==
  ASSUME NEW c \in Tables, NEW c2 \in Tables, NEW s \in Tables, Grows(c, c2, s),
         NEW d, NEW n \in Nat, NEW m \in Nat, Numbered(c, m), Numbered(c2, m),
         Completes(d, c, s, n)
  PROVE  Completes(d, c2, s, n)
<1>1. ASSUME NEW t \in RowTables, NEW x \in s[t], x.usn <= n
      PROVE  \/ \E y \in d[t] : y.id = x.id /\ y.mod >= x.mod
             \/ x.id \notin Ids(d[t]) /\ \E r \in c2[t] : r.id = x.id /\ r.mod >= x.mod
  <2>1. x.mod \in Nat
    BY DEF Tables, RowTables, CardRow, NoteRow, DeckRow
  <2>2. \/ \E y \in d[t] : y.id = x.id /\ y.mod >= x.mod
        \/ x.id \notin Ids(d[t]) /\ \E r \in c[t] : r.id = x.id /\ r.mod >= x.mod
    BY <1>1 DEF Completes
  <2> QED
    BY <2>1, <2>2, GrowRow DEF Grows
<1>2. ASSUME NEW g \in s.graves, g.usn <= n
      PROVE  Without(d, g.oid) /\ (g.oid \in Oids(d.graves) \/ Without(c2, g.oid))
  <2>1. g.oid \in Dead(s)
    BY DEF Dead, Oids
  <2> QED
    BY <1>2, <2>1 DEF Completes, Grows
<1>3. maxUSN(c2) <= n
  <2>1. maxUSN(c) \in Usn /\ maxUSN(c2) \in Usn
    BY MaxUSNType
  <2>2. maxUSN(c2) <= maxUSN(c) /\ maxUSN(c) <= n
    BY DEF Grows, Completes
  <2> QED
    BY <2>1, <2>2 DEF Usn, Pending
<1> QED
  BY <1>1, <1>2, <1>3 DEF Completes

LEMMA GrowReferences ==
  ASSUME NEW c, NEW c2, NEW s, Grows(c, c2, s), NEW notes, NEW decks, NEW notes2, NEW decks2,
         notes \subseteq notes2, decks \subseteq decks2,
         Ids(c2.notes) \subseteq notes2, Ids(c2.decks) \subseteq decks2,
         References(c.cards, notes, decks)
  PROVE  References(c2.cards, notes2, decks2)
<1> SUFFICES ASSUME NEW x \in c2.cards
             PROVE  NoteOf[x.id] \in notes2 /\ x.did \in decks2
  BY DEF References
<1>1. CASE \E r \in c.cards : r.id = x.id /\ r.did = x.did
  BY <1>1 DEF References
<1>2. CASE NoteOf[x.id] \in Ids(c2.notes) /\ x.did \in Ids(c2.decks)
  BY <1>2
<1> QED
  BY <1>1, <1>2 DEF Grows

LEMMA GrowKeeps ==
  ASSUME BInv, BInv', CInv, UNCHANGED <<clientVars, serverVars, failures>>,
         Grows(col, col', srv), Decent(col'),
         \A k \in Cards : k \in Oids(col'.graves) =>
           k \in Oids(col.graves) \/ NoteOf[k] \in Seen(srv, col, "notes")
  PROVE  CInv'
<1>1. /\ col \in Tables /\ col' \in Tables /\ srv \in Tables /\ susn \in Nat /\ session \in Nat
      /\ Numbered(col, susn) /\ Numbered(col', susn) /\ local.usn \in Usn /\ IsDelta(local)
  BY DEF BInv, TypeOK, UsnBound, serverVars, Delta, IsDelta
<1>2. UNCHANGED <<pc, since, local, remote, lastUSN, srv, susn, session, late>>
  BY DEF clientVars, serverVars
<1>3. /\ Ids(col.notes) \subseteq Ids(col'.notes) /\ Ids(col.decks) \subseteq Ids(col'.decks)
      /\ Ids(col.cards) \subseteq Ids(col'.cards)
  BY GrowIds DEF Grows, RowTables
<1>4. /\ Seen(srv, col, "notes") \subseteq Seen(srv', col', "notes")
      /\ Seen(srv, col, "decks") \subseteq Seen(srv', col', "decks")
      /\ Ids(col'.notes) \subseteq Seen(srv', col', "notes")
      /\ Ids(col'.decks) \subseteq Seen(srv', col', "decks")
  BY <1>2, <1>3 DEF Seen
<1>5. AllSound'
  <2> DEFINE notes == Seen(srv', col', "notes")
             decks == Seen(srv', col', "decks")
  <2>1. /\ Sound(srv, notes, decks) /\ Sound(local, notes, decks)
        /\ Sound(remote, notes, decks) /\ \A q \in late : Sound(q.delta, notes, decks)
    BY <1>4, SoundMore DEF CInv, AllSound, SoundNow
  <2>2. References(col'.cards, notes, decks)
    BY <1>4, GrowReferences DEF CInv, AllSound, SoundNow, Sound
  <2>3. \A k \in Cards : k \in Oids(col'.graves) => NoteOf[k] \in notes
    BY <1>4 DEF CInv, AllSound, SoundNow, Sound
  <2>4. Sound(col', notes, decks)
    BY <2>2, <2>3 DEF Sound
  <2> HIDE DEF notes, decks
  <2>5. /\ Sound(srv', notes, decks) /\ Sound(local', notes, decks)
        /\ Sound(remote', notes, decks) /\ \A q \in late' : Sound(q.delta, notes, decks)
    BY <1>2, <2>1
  <2> QED
    BY <2>4, <2>5 DEF AllSound, SoundNow, notes, decks
<1>6. LocalOK'
  <2>1. DefaultDeck \in Ids(col'.decks)
    BY <1>3 DEF CInv, LocalOK
  <2>2. Refreshes(col, local) => Refreshes(col', local)
    BY <1>1, RefreshesTrans DEF Grows
  <2> QED
    BY <1>2, <2>1, <2>2 DEF CInv, LocalOK
<1>7. PageOK'
  <2>1. ASSUME pc \in {"bury", "apply"} PROVE Completes(remote, col', srv, session)
    BY <1>1, <2>1, GrowCompletes DEF CInv, PageOK
  <2>2. ASSUME pc \in {"bury", "apply"}, ~remote.more PROVE Resolves(remote, col')
    <3>1. Resolves(remote, col)
      BY <2>2 DEF CInv, PageOK
    <3> DEFINE notes == Ids(col'.notes) \cup Ids(remote.notes) \cup Oids(remote.graves)
               decks == Ids(col'.decks) \cup Ids(remote.decks) \cup Oids(remote.graves)
    <3>2. References(col.cards, notes, decks) /\ References(remote.cards, notes, decks)
      BY <1>3, <3>1 DEF Resolves, References
    <3>3. References(col'.cards, notes, decks)
      BY <3>2, GrowReferences
    <3> QED
      BY <3>2, <3>3 DEF Resolves, References
  <2> QED
    BY <1>2, <2>1, <2>2 DEF PageOK
<1>8. CursorOK'
  <2>1. maxUSN(col) \in Usn /\ maxUSN(col') \in Usn /\ maxUSN(col') <= maxUSN(col)
    BY <1>1, MaxUSNType DEF Grows
  <2>2. \A n : Covers(col, srv, n) => Covers(col', srv', n)
    BY <1>1, <1>2, GrowCovers
  <2>3. Covers(col', srv', maxUSN(col'))
    <3>1. Covers(col, srv, maxUSN(col'))
      BY <1>1, <2>1, CoversLess DEF CInv, CursorOK
    <3> QED
      BY <2>2, <3>1
  <2>4. pc' \in {"state", "usn", "upload", "mark"} \cup Query => Covers(col', srv', session')
    BY <1>2, <2>2 DEF CInv, CursorOK
  <2>5. pc' \notin {"idle", "finish"} => lastUSN' <= session'
    BY <1>2 DEF CInv, CursorOK
  <2>6. pc' = "upload" => maxUSN(col') <= local'.usn /\ Covers(col', srv', local'.usn)
    <3>1. maxUSN(col) <= local.usn => maxUSN(col') <= local.usn
      BY <1>1, <2>1 DEF Usn, Pending
    <3> QED
      BY <1>2, <2>2, <3>1 DEF CInv, CursorOK
  <2>7. ReferencesWhole'
    <3>1. References(col.cards, Ids(col.notes), Ids(col.decks))
          => References(col'.cards, Ids(col'.notes), Ids(col'.decks))
      BY <1>3, GrowReferences
    <3> QED
      BY <1>2, <3>1 DEF CInv, CursorOK, ReferencesWhole, References
  <2> QED
    BY <2>3, <2>4, <2>5, <2>6, <2>7 DEF CursorOK
<1> QED
  BY <1>2, <1>5, <1>6, <1>7, <1>8 DEF CInv

\* The rows of an edit: newer than anything, of what exists or is new.
LEMMA WriteKeeps ==
  ASSUME BInv, BInv', CInv, NEW d, WriteLocal(d),
         IsEdit(d, clock + 1, Pending), Unique(d),
         \A t \in RowTables : \A x \in d[t] : x.id \in Ids(col[t]) \/ x.id \notin Dead(srv),
         \A x \in d.cards :
           \/ \E r \in col.cards : r.id = x.id /\ r.did = x.did
           \/ /\ NoteOf[x.id] \in Ids(d.notes) \ Dead(srv)
              /\ x.did \in Ids(col.decks)
  PROVE  CInv'
<1>1. /\ col \in Tables /\ col' = ApplyChanges(col, d) /\ col' \in Tables
      /\ UNCHANGED <<clientVars, serverVars, failures>> /\ susn \in Nat
      /\ clock \in Nat /\ Dated(col, clock) /\ Numbered(col, susn) /\ Numbered(col', susn)
  BY DEF BInv, TypeOK, ModBound, UsnBound, WriteLocal, serverVars
<1>2. /\ \A t \in RowTables : col'[t] = Put(col[t], d[t])
      /\ col'.graves = col.graves
  BY <1>1, EditRows DEF IsEdit
<1>3. \A t \in RowTables : Ids(col'[t]) = Ids(col[t]) \cup Ids(d[t])
  BY <1>2, PutIds
<1>4. \A t \in RowTables : \A r \in col'[t] : r \in col[t] \/ r \in d[t]
  BY <1>2 DEF Put
<1>5. \A t \in RowTables : \A r \in d[t] : r.usn = Pending /\ r.mod = clock + 1
  BY DEF IsEdit
<1>6. Decent(col')
  <2> SUFFICES ASSUME NEW t \in RowTables
               PROVE  \A x, y \in col'[t] : x.id = y.id => x = y
    BY <1>2 DEF Decent, Unique, CInv, LocalOK
  <2>1. \A x, y \in col[t] : x.id = y.id => x = y
    BY DEF CInv, LocalOK, Decent, Unique
  <2>2. \A x, y \in d[t] : x.id = y.id => x = y
    BY DEF Unique
  <2> QED
    BY <1>2, <2>1, <2>2, PutUnique
<1>7. Refreshes(col', col)
  <2> SUFFICES ASSUME NEW t \in RowTables, NEW y \in col[t]
               PROVE  \E r \in col'[t] : r.id = y.id /\ r.mod >= y.mod
    BY DEF Refreshes
  <2>1. y.mod \in Nat /\ y.mod <= clock
    BY <1>1 DEF Dated, Tables, RowTables, CardRow, NoteRow, DeckRow
  <2>2. CASE y \in col'[t]
    BY <2>1, <2>2
  <2>3. CASE y \notin col'[t]
    <3>1. PICK r \in d[t] : r.id = y.id
      BY <1>2, <2>3 DEF Put, Ids
    <3>2. r \in col'[t]
      BY <1>2 DEF Put
    <3>3. r.mod >= y.mod
      BY <1>1, <1>5, <2>1
    <3> QED
      BY <3>1, <3>2, <3>3
  <2> QED
    BY <2>2, <2>3
<1>8. ASSUME NEW o \in Dead(srv), Without(col, o)
      PROVE  Without(col', o)
  <2>1. \A t \in RowTables : o \notin Ids(d[t])
    BY <1>8 DEF Without, Ids
  <2>2. \A r \in d.cards : NoteOf[r.id] # o /\ r.did # o
    BY <1>8 DEF Without, RowTables
  <2>3. \A r \in col'.cards : r \in col.cards \/ r \in d.cards
    BY <1>4 DEF RowTables
  <2> QED
    BY <1>3, <1>8, <2>1, <2>2, <2>3 DEF Without
<1>9. ASSUME NEW x \in col'.cards
      PROVE  \/ \E r \in col.cards : r.id = x.id /\ r.did = x.did
             \/ NoteOf[x.id] \in Ids(col'.notes) /\ x.did \in Ids(col'.decks)
  <2>1. CASE x \in col.cards
    BY <2>1
  <2>2. CASE x \in d.cards
    <3>1. Ids(d.notes) \subseteq Ids(col'.notes) /\ Ids(col.decks) \subseteq Ids(col'.decks)
      BY <1>3 DEF RowTables
    <3> QED
      BY <2>2, <3>1
  <2> QED
    BY <1>4, <2>1, <2>2 DEF RowTables
<1>10. maxUSN(col') <= maxUSN(col)
  <2>1. \A t \in Query : col'[t] = {} => col[t] = {}
    <3>1. \A t \in RowTables : col'[t] = {} => col[t] = {}
      BY <1>3 DEF Ids
    <3> QED
      BY <1>2, <3>1 DEF Query, RowTables
  <2>2. \A t \in Query : \A r \in col'[t] : r.usn = Pending \/ \E x \in col[t] : x.usn = r.usn
    <3>1. \A t \in RowTables : \A r \in col'[t] : r.usn = Pending \/ \E x \in col[t] : x.usn = r.usn
      BY <1>4, <1>5
    <3> QED
      BY <1>2, <3>1 DEF Query, RowTables
  <2> QED
    BY <1>1, <2>1, <2>2, MaxUSNFalls
<1>11. Grows(col, col', srv)
  BY <1>7, <1>8, <1>9, <1>10 DEF Grows
<1> QED
  BY <1>1, <1>2, <1>6, <1>11, GrowKeeps

LEMMA AnswerCardKeeps ==
  ASSUME BInv, BInv', CInv, AnswerCard
  PROVE  CInv'
<1>1. col \in Tables /\ clock \in Nat /\ clock + 1 \in Nat /\ Pending \in Usn
  BY DEF BInv, TypeOK, Usn
<1>2. PICK r \in col.cards :
        WriteLocal([NoRows EXCEPT !.cards = {[r EXCEPT !.mod = clock + 1, !.usn = Pending]}])
  BY DEF AnswerCard
<1> DEFINE row == [r EXCEPT !.mod = clock + 1, !.usn = Pending]
           d == [NoRows EXCEPT !.cards = {row}]
<1>3. row \in CardRow /\ row.mod = clock + 1 /\ row.usn = Pending
  BY <1>1 DEF Tables, CardRow
<1>4. row.id = r.id /\ row.did = r.did
  BY <1>1 DEF Tables, CardRow
<1>5. d.cards = {row} /\ d.notes = {} /\ d.decks = {} /\ d.graves = {}
  BY DEF NoRows
<1>6. WriteLocal(d)
  BY <1>2
<1> HIDE DEF row, d
<1>7. IsEdit(d, clock + 1, Pending)
  BY <1>3, <1>5 DEF IsEdit, IsDelta, RowTables
<1>8. Unique(d)
  BY <1>5 DEF Unique, RowTables
<1>9. \A t \in RowTables : \A x \in d[t] : x.id \in Ids(col[t])
  BY <1>4, <1>5 DEF RowTables, Ids
<1>10. \A x \in d.cards : \E q \in col.cards : q.id = x.id /\ q.did = x.did
  BY <1>4, <1>5
<1> QED
  BY <1>6, <1>7, <1>8, <1>9, <1>10, WriteKeeps

LEMMA AddNoteKeeps ==
  ASSUME BInv, BInv', CInv, AddNote
  PROVE  CInv'
<1>1. TypeOK /\ col \in Tables /\ clock \in Nat /\ Pending \in Usn /\ SoundNow(srv)
  BY DEF BInv, TypeOK, Usn, CInv, AllSound
<1>2. PICK n \in Notes, k \in Ids(col.decks) : Fresh(n) /\ WriteLocal(NewNote(n, k, Pending))
  BY DEF AddNote
<1> DEFINE d == NewNote(n, k, Pending)
<1>3. k \in Decks
  BY <1>1 DEF Ids, Tables, DeckRow
<1>4. IsEdit(d, clock + 1, Pending)
  BY <1>1, <1>3, NewNoteIsEdit
<1>5. d.decks = {} /\ d.notes = {[id |-> n, mod |-> clock + 1, usn |-> Pending]}
  BY DEF NewNote, NoRows
<1>6. d.cards = {[id |-> c, did |-> k, mod |-> clock + 1, usn |-> Pending] :
                   c \in {j \in Cards : NoteOf[j] = n}}
  BY DEF NewNote, NoRows
<1>7. \A x \in d.cards : x.id \in Cards /\ NoteOf[x.id] = n /\ x.did = k
  BY <1>6
<1>8. \A x, y \in d.cards : x.id = y.id => x = y
  BY <1>6
<1>9. \A x \in d.notes : x.id = n
  BY <1>5
<1>10. n \in Ids(d.notes)
  <2>1. [id |-> n, mod |-> clock + 1, usn |-> Pending].id = n
    OBVIOUS
  <2> QED
    BY <1>5, <2>1 DEF Ids
<1>11. Unique(d)
  BY <1>5, <1>8 DEF Unique, RowTables
<1>12. WriteLocal(d)
  BY <1>2
<1> HIDE DEF d
<1>13. n \notin Dead(srv) /\ n \notin Ids(srv.notes)
  BY <1>2 DEF Fresh
<1>14. \A t \in RowTables : \A x \in d[t] : x.id \notin Dead(srv)
  <2>1. \A x \in d.cards : x.id \notin Dead(srv)
    BY <1>1, <1>2, <1>7, FreshCards
  <2> QED
    BY <1>5, <1>9, <1>13, <2>1 DEF RowTables
<1>15. \A x \in d.cards : NoteOf[x.id] \in Ids(d.notes) \ Dead(srv) /\ x.did \in Ids(col.decks)
  BY <1>7, <1>10, <1>13
<1> QED
  BY <1>4, <1>11, <1>12, <1>14, <1>15, WriteKeeps

LEMMA CreateDeckKeeps ==
  ASSUME BInv, BInv', CInv, CreateDeck
  PROVE  CInv'
<1>1. clock \in Nat /\ Pending \in Usn
  BY DEF BInv, TypeOK, Usn
<1>2. PICK k \in Decks :
        /\ Fresh(k)
        /\ WriteLocal([NoRows EXCEPT !.decks = {[id |-> k, mod |-> clock + 1, usn |-> Pending]}])
  BY DEF CreateDeck
<1> DEFINE row == [id |-> k, mod |-> clock + 1, usn |-> Pending]
           d == [NoRows EXCEPT !.decks = {row}]
<1>3. row \in DeckRow /\ row.mod = clock + 1 /\ row.usn = Pending /\ row.id = k
  BY <1>1 DEF DeckRow
<1>4. d.decks = {row} /\ d.notes = {} /\ d.cards = {} /\ d.graves = {}
  BY DEF NoRows
<1>5. WriteLocal(d)
  BY <1>2
<1> HIDE DEF row, d
<1>6. IsEdit(d, clock + 1, Pending)
  BY <1>3, <1>4 DEF IsEdit, IsDelta, RowTables
<1>7. Unique(d)
  BY <1>4 DEF Unique, RowTables
<1>8. \A t \in RowTables : \A x \in d[t] : x.id \notin Dead(srv)
  BY <1>2, <1>3, <1>4 DEF RowTables, Fresh
<1> QED
  BY <1>4, <1>5, <1>6, <1>7, <1>8, WriteKeeps


LEMMA DeleteObjectKeeps ==
  ASSUME BInv, BInv', CInv, DeleteObject
  PROVE  CInv'
<1>1. /\ col \in Tables /\ col' \in Tables /\ UNCHANGED <<clientVars, serverVars, failures>>
      /\ susn \in Nat /\ Numbered(col, susn) /\ Numbered(col', susn)
  BY DEF BInv, TypeOK, UsnBound, DeleteObject, serverVars
<1>2. PICK o \in (Ids(col.cards) \cup Ids(col.notes) \cup Ids(col.decks)) \ {DefaultDeck} :
        col' = AddGrave(col, o)
  BY DEF DeleteObject
<1> DEFINE g == [oid |-> o, usn |-> Pending]
<1>3. /\ col'.cards = col.cards /\ col'.notes = col.notes /\ col'.decks = col.decks
      /\ col'.graves = col.graves \cup {g}
  BY <1>1, <1>2 DEF AddGrave, Tables
<1>4. g.oid = o /\ g.usn = Pending
  OBVIOUS
<1> HIDE DEF g
<1>5. Oids(col'.graves) = Oids(col.graves) \cup {o}
  BY <1>3, <1>4 DEF Oids
<1>6. \A t \in RowTables : col'[t] = col[t]
  BY <1>3 DEF RowTables
<1>7. Decent(col')
  <2>1. Decent(col) /\ DefaultDeck # o
    BY <1>2 DEF CInv, LocalOK
  <2> QED
    BY <1>5, <1>6, <2>1 DEF Decent, Unique
<1>8. Refreshes(col', col)
  <2>1. \A t \in RowTables : \A y \in col[t] : y.mod \in Nat
    BY <1>1 DEF Tables, RowTables, CardRow, NoteRow, DeckRow
  <2> QED
    BY <1>6, <2>1 DEF Refreshes
<1>9. \A x : Without(col, x) => Without(col', x)
  BY <1>3, <1>6 DEF Without
<1>10. \A t \in Query : col'[t] = {} => col[t] = {}
  BY <1>3 DEF Query
<1>11. \A t \in Query : \A r \in col'[t] : r.usn = Pending \/ \E x \in col[t] : x.usn = r.usn
  BY <1>3, <1>4 DEF Query
<1>12. maxUSN(col') <= maxUSN(col)
  BY <1>1, <1>10, <1>11, MaxUSNFalls
<1>13. Grows(col, col', srv)
  BY <1>3, <1>8, <1>9, <1>12 DEF Grows
<1>14. ASSUME NEW k \in Cards, k = o
       PROVE  NoteOf[k] \in Seen(srv, col, "notes")
  <2>1. Ids(col.notes) \subseteq Notes /\ Ids(col.decks) \subseteq Decks
    BY <1>1 DEF Ids, Tables, NoteRow, DeckRow
  <2>2. k \in Ids(col.cards)
    BY <1>14, <2>1, KeysAssumption
  <2>3. References(col.cards, Seen(srv, col, "notes"), Seen(srv, col, "decks"))
    BY DEF CInv, AllSound, SoundNow, Sound
  <2> QED
    BY <2>2, <2>3 DEF Ids, References
<1> QED
  BY <1>1, <1>5, <1>7, <1>13, <1>14, GrowKeeps

LEMMA EditKeeps ==
  ASSUME BInv, BInv', CInv, Edit
  PROVE  CInv'
BY AnswerCardKeeps, AddNoteKeeps, CreateDeckKeeps, DeleteObjectKeeps DEF Edit

-----------------------------------------------------------------------------
(* Steps of the client that neither write tables nor talk to the server     *)

LEMMA NothingSound ==
  /\ Decent(NoDelta) /\ \A notes, decks : Sound(NoDelta, notes, decks)
  /\ \A c : Refreshes(c, NoDelta)
BY DEF NoDelta, Decent, Unique, RowTables, Oids, Sound, References, Refreshes

LEMMA SyncStartKeeps ==
  ASSUME BInv, CInv, SyncStart
  PROVE  CInv'
<1>1. /\ pc = "idle" /\ pc' = "state" /\ session' = 0
      /\ UNCHANGED <<col, local, remote, lastUSN, srv, late>>
  BY DEF SyncStart
<1>2. srv \in Tables /\ ServerOK(srv) /\ 0 \in Usn
  BY DEF BInv, TypeOK, CInv, Usn
<1>3. Covers(col, srv, 0)
  BY <1>2, CoversNone
<1>4. local = NoDelta /\ lastUSN = Unset
  BY <1>1 DEF CInv, LocalOK
<1>5. LocalOK'
  BY <1>1, <1>4 DEF CInv, LocalOK, Query
<1>6. CursorOK'
  <2>1. Covers(col', srv', maxUSN(col'))
    BY <1>1 DEF CInv, CursorOK
  <2>2. lastUSN' <= session'
    BY <1>1, <1>4 DEF Unset
  <2>3. ReferencesWhole'
    BY <1>1 DEF ReferencesWhole
  <2>4. Covers(col', srv', session')
    BY <1>1, <1>3
  <2> QED
    BY <1>1, <2>1, <2>2, <2>3, <2>4 DEF CursorOK
<1>7. AllSound'
  BY <1>1 DEF CInv, AllSound, SoundNow
<1> QED
  BY <1>1, <1>2, <1>5, <1>6, <1>7 DEF CInv, PageOK

LEMMA GetSyncStateKeeps ==
  ASSUME BInv, CInv, GetSyncState
  PROVE  CInv'
<1>1. /\ pc = "state" /\ pc' = "cards"
      /\ UNCHANGED <<col, local, remote, lastUSN, srv, session, late>>
  BY DEF GetSyncState, serverVars
<1>2. Refreshes(col, local)
  BY <1>1, NothingSound DEF CInv, LocalOK
<1>3. LocalOK'
  BY <1>1, <1>2 DEF CInv, LocalOK
<1>4. CursorOK'
  <2>1. Covers(col', srv', maxUSN(col')) /\ Covers(col', srv', session')
    BY <1>1 DEF CInv, CursorOK
  <2>2. lastUSN' <= session'
    BY <1>1 DEF CInv, CursorOK
  <2>3. ReferencesWhole'
    BY <1>1 DEF ReferencesWhole
  <2> QED
    BY <1>1, <2>1, <2>2, <2>3 DEF CursorOK
<1>5. AllSound'
  BY <1>1 DEF CInv, AllSound, SoundNow
<1> QED
  BY <1>1, <1>3, <1>4, <1>5 DEF CInv, PageOK

\* What is read of the collection is as good as the collection.
LEMMA ReadSound ==
  ASSUME NEW d, NEW c, NEW new, Decent(d), Decent(c), NEW notes, NEW decks,
         Sound(d, notes, decks), Sound(c, notes, decks), Refreshes(c, d), c \in Tables,
         \A t \in RowTables \cup {"graves"} : new[t] = d[t] \/ new[t] \subseteq c[t]
  PROVE  Decent(new) /\ Sound(new, notes, decks) /\ Refreshes(c, new)
<1>1. Unique(new)
  BY DEF Decent, Unique
<1>2. Oids(new.graves) \subseteq Oids(d.graves) \cup Oids(c.graves)
  BY DEF Oids
<1>3. new.cards = d.cards \/ new.cards \subseteq c.cards
  BY DEF RowTables
<1>4. Sound(new, notes, decks)
  BY <1>2, <1>3 DEF Sound, References
<1>5. Refreshes(c, new)
  <2> SUFFICES ASSUME NEW t \in RowTables, NEW y \in new[t]
               PROVE  \E r \in c[t] : r.id = y.id /\ r.mod >= y.mod
    BY DEF Refreshes
  <2>1. CASE y \in d[t]
    BY <2>1 DEF Refreshes
  <2>2. CASE y \in c[t]
    <3>1. y.mod \in Nat
      BY <2>2 DEF Tables, RowTables, CardRow, NoteRow, DeckRow
    <3> QED
      BY <2>2, <3>1
  <2> QED
    BY <2>1, <2>2
<1> QED
  BY <1>1, <1>2, <1>4, <1>5 DEF Decent

LEMMA GetChangesQueryKeeps ==
  ASSUME BInv, CInv, GetChangesQuery
  PROVE  CInv'
<1>1. /\ pc \in Query /\ pc' \in Query \cup {"usn"}
      /\ UNCHANGED <<col, remote, lastUSN, srv, session, late>>
  BY DEF GetChangesQuery, NextQuery, Query, serverVars
<1>2. col \in Tables /\ Queries
  BY QueryAdds DEF BInv, TypeOK
<1>3. \A t \in RowTables \cup {"graves"} : local'[t] = local[t] \/ local'[t] \subseteq col[t]
  <2>1. RowTables \cup {"graves"} = Query
    BY DEF RowTables, Query
  <2>2. local'[pc] \subseteq col[pc]
    BY <1>2 DEF Queries, ChangedSince
  <2> QED
    BY <1>2, <2>1, <2>2 DEF Queries
<1>4. Decent(local) /\ Decent(col) /\ Refreshes(col, local) /\ SoundNow(local) /\ SoundNow(col)
  BY <1>1 DEF CInv, LocalOK, AllSound
<1>5. Decent(local') /\ Refreshes(col, local') /\ SoundNow(local')
  BY <1>2, <1>3, <1>4, ReadSound DEF SoundNow
<1>6. LocalOK'
  BY <1>1, <1>5 DEF CInv, LocalOK, Query
<1>7. AllSound'
  BY <1>1, <1>5 DEF CInv, AllSound, SoundNow
<1>8. CursorOK'
  <2>1. Covers(col', srv', maxUSN(col')) /\ Covers(col', srv', session')
    BY <1>1 DEF CInv, CursorOK
  <2>2. lastUSN' <= session'
    BY <1>1 DEF CInv, CursorOK, Query
  <2>3. ReferencesWhole' /\ pc' # "upload"
    BY <1>1 DEF ReferencesWhole, Query
  <2> QED
    BY <1>1, <2>1, <2>2, <2>3 DEF CursorOK
<1> QED
  BY <1>1, <1>6, <1>7, <1>8 DEF CInv, PageOK, Query

LEMMA GetChangesUSNKeeps ==
  ASSUME BInv, CInv, GetChangesUSN
  PROVE  CInv'
<1>1. /\ pc = "usn" /\ pc' = "upload"
      /\ UNCHANGED <<col, remote, lastUSN, srv, session, late>>
  BY DEF GetChangesUSN, serverVars
<1>2. /\ \A t \in Query : local'[t] = local[t]
      /\ local'.usn = maxUSN(col)
  BY UsnEnds
<1>3. /\ local'.cards = local.cards /\ local'.graves = local.graves
      /\ \A t \in RowTables : local'[t] = local[t]
  BY <1>2 DEF Query, RowTables
<1>4. LocalOK'
  BY <1>1, <1>3 DEF CInv, LocalOK, Decent, Unique, Refreshes
<1>5. AllSound'
  BY <1>1, <1>3 DEF CInv, AllSound, SoundNow, Sound, References
<1>6. CursorOK'
  <2>1. Covers(col', srv', maxUSN(col')) /\ Covers(col', srv', session')
    BY <1>1 DEF CInv, CursorOK
  <2>2. lastUSN' <= session'
    BY <1>1 DEF CInv, CursorOK
  <2>3. ReferencesWhole'
    BY <1>1 DEF ReferencesWhole
  <2>4. maxUSN(col') <= local'.usn /\ Covers(col', srv', local'.usn)
    <3>1. maxUSN(col) \in Usn
      BY MaxUSNType DEF BInv, TypeOK, UsnBound
    <3>2. maxUSN(col) <= maxUSN(col)
      BY <3>1 DEF Usn, Pending
    <3> QED
      BY <1>1, <1>2, <2>1, <3>2
  <2> QED
    BY <1>1, <2>1, <2>2, <2>3, <2>4 DEF CursorOK
<1> QED
  BY <1>1, <1>4, <1>5, <1>6 DEF CInv, PageOK

\* The end of a synchronisation, and a failure at any call.
LEMMA ForgetKeeps ==
  ASSUME CInv, Forget, pc' = "idle", UNCHANGED <<col, srv, session>>,
         \A q \in late' : q \in late \/ q.delta = local
  PROVE  CInv'
<1>1. LocalOK'
  BY NothingSound DEF CInv, LocalOK, Forget, Query
<1>2. CursorOK'
  <2>1. Covers(col', srv', maxUSN(col'))
    BY DEF CInv, CursorOK
  <2>2. ReferencesWhole'
    BY DEF ReferencesWhole
  <2> QED
    BY <2>1, <2>2 DEF CursorOK, Query
<1>3. AllSound'
  BY NothingSound DEF CInv, AllSound, SoundNow, Forget
<1> QED
  BY <1>1, <1>2, <1>3 DEF CInv, PageOK

LEMMA EndKeeps ==
  ASSUME CInv, SyncFinish \/ Fail
  PROVE  CInv'
<1>1. Forget /\ pc' = "idle" /\ UNCHANGED <<col, srv, session>>
  BY DEF SyncFinish, Fail, serverVars
<1>2. \A q \in late' : q \in late \/ q.delta = local
  <2>1. CASE SyncFinish
    BY <2>1 DEF SyncFinish, serverVars
  <2>2. CASE Fail
    BY <2>2 DEF Fail
  <2> QED
    BY <2>1, <2>2
<1> QED
  BY <1>1, <1>2, ForgetKeeps

-----------------------------------------------------------------------------
(* A page of the server's changes                                           *)

\* With everything of the server, what a card refers to is there or is buried.
LEMMA PageResolves ==
  ASSUME NEW d, NEW c, NEW s, NEW n, Completes(d, c, s, n), Numbered(s, n),
         References(c.cards \cup d.cards, Seen(s, c, "notes"), Seen(s, c, "decks"))
  PROVE  Resolves(d, c)
<1>1. ASSUME NEW t \in RowTables, NEW o \in Ids(s[t])
      PROVE  o \in Ids(c[t]) \cup Ids(d[t])
  <2>1. PICK x \in s[t] : x.id = o
    BY DEF Ids
  <2>2. x.usn <= n
    BY DEF Numbered
  <2> QED
    BY <2>1, <2>2 DEF Completes, Ids
<1>2. ASSUME NEW o \in Dead(s)
      PROVE  \/ o \in Oids(d.graves)
             \/ \A x \in c.cards \cup d.cards : NoteOf[x.id] # o /\ x.did # o
  <2>1. PICK g \in s.graves : g.oid = o
    BY DEF Dead, Oids
  <2>2. g.usn <= n
    BY DEF Numbered
  <2>3. Without(d, o) /\ (o \in Oids(d.graves) \/ Without(c, o))
    BY <2>1, <2>2 DEF Completes
  <2> QED
    BY <2>3 DEF Without
<1>3. /\ Ids(s.notes) \subseteq Ids(c.notes) \cup Ids(d.notes)
      /\ Ids(s.decks) \subseteq Ids(c.decks) \cup Ids(d.decks)
  BY <1>1 DEF RowTables
<1> QED
  BY <1>2, <1>3 DEF Resolves, References, Seen, OnServer

\* The rows and graves of a page are the server's.
LEMMA WithinOf ==
  ASSUME NEW rows, NEW lo, NEW hi
  PROVE  /\ Within(rows, lo, hi) \subseteq rows
         /\ \A r \in rows : lo < r.usn /\ r.usn <= hi => r \in Within(rows, lo, hi)
         /\ \A r \in Within(rows, lo, hi) : lo < r.usn /\ r.usn <= hi
BY DEF Within

\* The upload, answered with a page.
LEMMA ApplyChangesCallKeeps ==
  ASSUME BInv, BInv', CInv, ApplyChangesCall
  PROVE  CInv'
<1> DEFINE req == [kind |-> "changes", delta |-> local]
<1>1. /\ pc = "upload" /\ pc' = "bury" /\ Handle(req)
      /\ UNCHANGED <<col, local>> /\ late' = late
      /\ lastUSN' = IF lastUSN = Unset THEN local.usn ELSE lastUSN
  BY DEF ApplyChangesCall
<1>2. /\ TypeOK /\ ServerOK(srv) /\ SoundNow(srv) /\ local \in Delta /\ IsDelta(local)
      /\ srv \in Tables /\ srv' \in Tables /\ col \in Tables
      /\ susn \in Nat /\ susn' \in Nat /\ session \in Nat /\ session <= susn
      /\ Numbered(srv, susn) /\ Numbered(srv', susn') /\ Numbered(col, susn)
      /\ local.usn \in Usn /\ local.usn <= susn
  BY DEF BInv, CInv, AllSound, TypeOK, UsnBound, Delta, IsDelta
<1>3. req \in Request /\ req.delta = local /\ req.kind = "changes"
  BY <1>2 DEF Request
<1>4. Decent(local) /\ SoundNow(local) /\ Refreshes(col, local)
  BY <1>1 DEF CInv, LocalOK, AllSound
<1>5. Moves
  <2> HIDE DEF req
  <2> QED
    BY <1>1, <1>2, <1>3, <1>4, HandleMoves
<1>6. srv' = Merge(srv, local, susn + 1) /\ susn' \in {susn, susn + 1}
  BY <1>1, <1>3 DEF Handle
<1> HIDE DEF req
<1>7. /\ maxUSN(col) \in Usn /\ maxUSN(col) <= local.usn
      /\ Covers(col, srv, local.usn) /\ Covers(col, srv, session)
  BY <1>1, <1>2, MaxUSNType DEF CInv, CursorOK
<1> DEFINE lo == Higher(local.usn, session)
<1>8. /\ lo \in Nat /\ lo <= susn /\ session <= lo /\ maxUSN(col) <= lo
      /\ lo \in {local.usn, session} /\ local.usn <= lo
  <2> HIDE DEF maxUSN
  <2> QED
    BY <1>2, <1>7 DEF Higher, Usn, Pending
<1>9. PICK hi \in {susn} \cup (lo + 1 .. susn) :
        LET more == hi < susn
            usn  == IF more THEN hi ELSE susn'
        IN  remote' = Page(srv', lo, hi, usn, more) /\ session' = usn
  BY DEF ApplyChangesCall
<1> DEFINE usn == IF hi < susn THEN hi ELSE susn'
<1> HIDE DEF lo
<1>10. /\ hi \in Nat /\ hi <= susn /\ lo <= hi
       /\ usn \in Nat /\ hi <= usn /\ usn <= susn' /\ lo <= usn
       /\ usn <= susn \/ usn = susn + 1
       /\ ~(hi < susn) => usn = susn' /\ hi = susn
       /\ hi < susn => usn = hi
  BY <1>2, <1>6, <1>8
<1>11. /\ \A t \in RowTables : remote'[t] = Within(srv'[t], lo, hi)
       /\ remote'.graves = Within(srv'.graves, lo, hi)
       /\ remote'.usn = usn /\ session' = usn /\ remote'.more = (hi < susn)
  BY <1>9 DEF Page, RowTables
<1> HIDE DEF usn
<1>12. ServerOK(srv') /\ Advances(srv, srv', susn) /\ SoundNow(srv)'
  BY <1>5 DEF Moves
<1>13. /\ SoundNow(col)' /\ SoundNow(local)' /\ \A q \in late' : SoundNow(q.delta)'
       /\ Covers(col', srv', maxUSN(col'))
       /\ \A n \in Usn : n <= susn /\ Covers(col, srv, n) => Covers(col', srv', n)
  BY <1>1, <1>5, OtherHolds
<1>14. Covers(col, srv', lo)
  <2>1. Covers(col, srv, lo) /\ lo \in Usn
    BY <1>7, <1>8 DEF Usn
  <2> QED
    BY <1>1, <1>8, <1>13, <2>1
<1>15. /\ \A t \in RowTables : remote'[t] \subseteq srv'[t]
       /\ remote'.cards \subseteq srv'.cards /\ remote'.graves \subseteq srv'.graves
  BY <1>11, WithinOf DEF RowTables
<1>16. Unique(remote') /\ Numbered(remote', usn)
  <2>1. Unique(remote')
    BY <1>12, <1>15 DEF ServerOK, Unique
  <2>2. \A n \in Usn : n <= hi => n <= usn
    BY <1>10 DEF Usn, Pending
  <2>3. \A t \in RowTables : \A r \in remote'[t] : r.usn \in Usn /\ r.usn <= hi
    BY <1>2, <1>11, WithinOf DEF Tables, RowTables, CardRow, NoteRow, DeckRow
  <2>4. \A g \in remote'.graves : g.usn \in Usn /\ g.usn <= hi
    BY <1>2, <1>11, WithinOf DEF Tables, GraveRow
  <2> QED
    BY <2>1, <2>2, <2>3, <2>4 DEF Numbered
<1>17. maxUSN(col) <= usn
  <2> HIDE DEF maxUSN
  <2> QED
    BY <1>7, <1>8, <1>10 DEF Usn, Pending
<1>18. ASSUME NEW t \in RowTables, NEW x \in srv'[t], x.usn <= usn
       PROVE  \/ \E y \in remote'[t] : y.id = x.id /\ y.mod >= x.mod
              \/ x.id \notin Ids(remote'[t]) /\ \E r \in col[t] : r.id = x.id /\ r.mod >= x.mod
  <2>1. x.usn \in Usn /\ x.mod \in Nat
    BY <1>2 DEF Tables, RowTables, CardRow, NoteRow, DeckRow
  <2>2. x \in remote'[t] \/ \E r \in col[t] : r.id = x.id /\ r.mod >= x.mod
    <3>1. CASE x.usn <= lo
      BY <1>14, <3>1 DEF Covers
    <3>2. CASE lo < x.usn /\ x.usn <= hi
      BY <1>11, <3>2, WithinOf
    <3>3. CASE x.usn > hi
      <4>1. x.usn > susn
        BY <1>2, <1>10, <1>18, <2>1, <3>3 DEF Usn, Pending
      <4>2. x \notin srv[t]
        BY <1>2, <2>1, <4>1 DEF Numbered, Usn, Pending
      <4>3. x \in Added(srv, local, susn + 1, t)
        BY <1>6, <4>2, MergePuts DEF Put
      <4>4. susn + 1 \in Nat
        BY <1>2
      <4>5. PICK y \in Newer(local[t], srv[t], Dead(srv)) : y.id = x.id /\ y.mod = x.mod
        BY <1>2, <4>3, <4>4, AddedRow
      <4>6. y \in local[t]
        BY DEF Newer
      <4> QED
        BY <1>4, <4>5, <4>6 DEF Refreshes
    <3> QED
      BY <1>8, <1>10, <2>1, <3>1, <3>2, <3>3 DEF Usn, Pending
  <2>3. CASE x \in remote'[t]
    BY <2>1, <2>3
  <2>4. CASE x \notin remote'[t]
    <3>1. x.id \notin Ids(remote'[t])
      BY <1>12, <1>15, <2>4 DEF Ids, ServerOK, Unique
    <3> QED
      BY <2>2, <2>4, <3>1
  <2> QED
    BY <2>3, <2>4
<1>19. ASSUME NEW g \in srv'.graves, g.usn <= usn
       PROVE  /\ Without(remote', g.oid)
              /\ g.oid \in Oids(remote'.graves) \/ Without(col, g.oid)
  <2>1. g.usn \in Usn /\ g.oid \in Dead(srv')
    BY <1>2 DEF Tables, GraveRow, Dead, Oids
  <2>2. Without(remote', g.oid)
    <3>1. \A t \in RowTables : \A x \in remote'[t] : x.id # g.oid
      BY <1>12, <1>15, <2>1, Alive
    <3>2. \A x \in remote'.cards : NoteOf[x.id] # g.oid /\ x.did # g.oid
      BY <1>12, <1>15, <2>1, Alive DEF RowTables
    <3> QED
      BY <3>1, <3>2 DEF Without, Ids
  <2>3. g \in srv.graves
    BY <1>6 DEF Merge
  <2>4. g.usn <= susn
    BY <1>2, <2>3 DEF Numbered
  <2>5. g.usn <= hi
    BY <1>2, <1>10, <1>19, <2>1, <2>4 DEF Usn, Pending
  <2>6. CASE g.usn <= lo
    BY <1>14, <2>2, <2>6 DEF Covers
  <2>7. CASE lo < g.usn
    <3>1. g \in remote'.graves
      BY <1>11, <2>5, <2>7, WithinOf
    <3> QED
      BY <2>2, <3>1 DEF Oids
  <2> QED
    BY <1>8, <2>1, <2>6, <2>7 DEF Usn, Pending
<1>20. Completes(remote', col, srv', usn)
  <2>1. Oids(remote'.graves) \subseteq Dead(srv')
    BY <1>15 DEF Dead, Oids
  <2> QED
    BY <1>11, <1>16, <1>17, <1>18, <1>19, <2>1 DEF Completes
<1>21. SoundNow(remote)'
  BY <1>12, <1>15 DEF SoundNow, Sound, References, Oids
<1>22. ~remote'.more => Resolves(remote', col)
  <2> SUFFICES ASSUME ~(hi < susn)
               PROVE  Resolves(remote', col)
    BY <1>11
  <2>1. Numbered(srv', usn)
    BY <1>2, <1>10
  <2>2. References(col.cards \cup remote'.cards, Seen(srv', col, "notes"), Seen(srv', col, "decks"))
    BY <1>1, <1>13, <1>21 DEF SoundNow, Sound, References
  <2> QED
    BY <1>20, <2>1, <2>2, PageResolves
<1>23. PageOK'
  BY <1>1, <1>11, <1>20, <1>22 DEF PageOK
<1>24. LocalOK'
  BY <1>1 DEF CInv, LocalOK, Query
<1>25. AllSound'
  BY <1>12, <1>13, <1>21 DEF AllSound
<1>26. CursorOK'
  <2>1. lastUSN' <= session'
    <3>1. lastUSN <= session /\ lastUSN \in Usn
      BY <1>1, <1>2 DEF CInv, CursorOK, TypeOK
    <3>2. lastUSN' \in Usn /\ lastUSN' <= lo
      BY <1>1, <1>2, <1>8, <3>1 DEF Usn, Pending
    <3> QED
      BY <1>8, <1>10, <1>11, <3>2 DEF Usn, Pending
  <2>2. ReferencesWhole'
    BY <1>1 DEF ReferencesWhole
  <2> QED
    BY <1>1, <1>13, <2>1, <2>2 DEF CursorOK, Query
<1> QED
  BY <1>12, <1>23, <1>24, <1>25, <1>26 DEF CInv

\* Applying the page covers what the page completes.
LEMMA PageCovers ==
  ASSUME NEW c \in Tables, NEW s \in Tables, ServerOK(s), NEW d, IsDelta(d),
         NEW n \in Usn, Completes(d, c, s, n)
  PROVE  Covers(ApplyChanges(c, d), s, n)
<1> DEFINE new == ApplyChanges(c, d)
<1>1. Oids(d.graves) \subseteq Dead(s)
  BY DEF Completes
<1>2. ASSUME NEW t \in RowTables, NEW x \in s[t], x.usn <= n
      PROVE  \E r \in new[t] : r.id = x.id /\ r.mod >= x.mod
  <2>1. PICK z \in Put(c[t], d[t]) : z.id = x.id /\ z.mod >= x.mod
    <3>1. CASE \E y \in d[t] : y.id = x.id /\ y.mod >= x.mod
      BY <3>1 DEF Put
    <3>2. CASE x.id \notin Ids(d[t]) /\ \E r \in c[t] : r.id = x.id /\ r.mod >= x.mod
      BY <3>2 DEF Put
    <3> QED
      BY <1>2, <3>1, <3>2 DEF Completes
  <2>2. x.id \notin Dead(s) /\ (t = "cards" => NoteOf[x.id] \notin Dead(s))
    BY Alive
  <2>3. z.id \notin Oids(d.graves) /\ (t = "cards" => NoteOf[z.id] \notin Oids(d.graves))
    BY <1>1, <2>1, <2>2
  <2>4. \E r \in new[t] : r.id = z.id /\ r.mod = z.mod
    BY <2>3, ApplyHas
  <2> QED
    BY <2>1, <2>4
<1>3. ASSUME NEW g \in s.graves, g.usn <= n
      PROVE  Without(new, g.oid)
  <2>1. g.oid \in Dead(s)
    BY DEF Dead, Oids
  <2>2. Without(d, g.oid) /\ (g.oid \in Oids(d.graves) \/ Without(c, g.oid))
    BY <1>3 DEF Completes
  <2>3. ASSUME NEW t \in RowTables, NEW r \in new[t]
        PROVE  r.id # g.oid /\ (t = "cards" => NoteOf[r.id] # g.oid /\ r.did # g.oid)
    <3>1. PICK z \in Put(c[t], d[t]) :
            /\ z.id = r.id
            /\ t = "cards" => /\ NoteOf[r.id] \notin Oids(d.graves)
                              /\ r.did = IF z.did \in Oids(d.graves) THEN DefaultDeck ELSE z.did
      BY ApplyRow
    <3>2. r.id \notin Oids(d.graves)
      BY ApplyRow
    <3>3. DefaultDeck # g.oid
      BY <2>1, DefaultAlive
    <3>4. CASE g.oid \in Oids(d.graves)
      BY <3>1, <3>2, <3>3, <3>4
    <3>5. CASE Without(c, g.oid) /\ z \in c[t]
      <4>1. z.id # g.oid /\ (t = "cards" => NoteOf[z.id] # g.oid /\ z.did # g.oid)
        BY <3>5 DEF Without, Ids
      <4> QED
        BY <3>1, <3>3, <4>1
    <3>6. CASE z \in d[t]
      <4>1. z.id # g.oid /\ (t = "cards" => NoteOf[z.id] # g.oid /\ z.did # g.oid)
        BY <2>2, <3>6 DEF Without, Ids
      <4> QED
        BY <3>1, <3>3, <4>1
    <3> QED
      BY <2>2, <3>4, <3>5, <3>6 DEF Put
  <2> HIDE DEF new
  <2> QED
    BY <2>3 DEF Without, Ids, RowTables
<1> HIDE DEF new
<1>4. Covers(new, s, n)
  BY <1>2, <1>3 DEF Covers
<1> QED
  BY <1>4 DEF new

\* A note or deck goes only with its grave.
LEMMA ApplyIds ==
  ASSUME NEW c \in Tables, NEW d, IsDelta(d), NEW t \in {"notes", "decks"}
  PROVE  Ids(c[t]) \cup Ids(d[t]) \subseteq Ids(ApplyChanges(c, d)[t]) \cup Oids(d.graves)
<1> SUFFICES ASSUME NEW o \in Ids(c[t]) \cup Ids(d[t]), o \notin Oids(d.graves)
             PROVE  o \in Ids(ApplyChanges(c, d)[t])
  OBVIOUS
<1>1. Ids(Put(c[t], d[t])) = Ids(c[t]) \cup Ids(d[t])
  BY PutIds
<1>2. PICK z \in Put(c[t], d[t]) : z.id = o
  BY <1>1 DEF Ids
<1>3. \E r \in ApplyChanges(c, d)[t] : r.id = z.id /\ r.mod = z.mod
  BY <1>2, ApplyHas DEF RowTables
<1> QED
  BY <1>2, <1>3 DEF Ids

\* What resolves is whole once the page is applied.
LEMMA PageWhole ==
  ASSUME NEW c \in Tables, NEW d, IsDelta(d), Resolves(d, c),
         DefaultDeck \in Ids(ApplyChanges(c, d).decks)
  PROVE  LET new == ApplyChanges(c, d)
         IN  References(new.cards, Ids(new.notes), Ids(new.decks))
<1> DEFINE new == ApplyChanges(c, d)
<1>1. /\ Ids(c.notes) \cup Ids(d.notes) \subseteq Ids(new.notes) \cup Oids(d.graves)
      /\ Ids(c.decks) \cup Ids(d.decks) \subseteq Ids(new.decks) \cup Oids(d.graves)
  BY ApplyIds
<1>2. ASSUME NEW r \in new.cards
      PROVE  NoteOf[r.id] \in Ids(new.notes) /\ r.did \in Ids(new.decks)
  <2>1. PICK z \in Put(c.cards, d.cards) :
          /\ z.id = r.id /\ NoteOf[r.id] \notin Oids(d.graves)
          /\ r.did = IF z.did \in Oids(d.graves) THEN DefaultDeck ELSE z.did
    BY ApplyRow DEF RowTables
  <2>2. z \in c.cards \cup d.cards
    BY DEF Put
  <2> HIDE DEF new
  <2>3. /\ NoteOf[z.id] \in Ids(new.notes) \cup Oids(d.graves)
        /\ z.did \in Ids(new.decks) \cup Oids(d.graves)
    BY <1>1, <2>2 DEF Resolves, References
  <2> QED
    BY <2>1, <2>3 DEF new
<1> QED
  BY <1>2 DEF References

\* An empty page changes nothing.
LEMMA ApplyNothing ==
  ASSUME NEW c \in Tables, NEW d, IsDelta(d), ~HasRows(d)
  PROVE  ApplyChanges(c, d) = c
<1>1. d.cards = {} /\ d.notes = {} /\ d.decks = {} /\ d.graves = {}
  BY DEF HasRows
<1> DEFINE new == ApplyChanges(c, d)
<1>2. /\ \A t \in RowTables : new[t] = Put(c[t], d[t])
      /\ new.graves = c.graves
  BY <1>1, EditRows
<1>3. new \in Tables
  BY ApplyType
<1> HIDE DEF new
<1>4. \A t \in RowTables : new[t] = c[t]
  BY <1>1, <1>2 DEF Put, Ids, RowTables
<1>5. new = c
  BY <1>2, <1>3, <1>4 DEF Tables, RowTables
<1> QED
  BY <1>5 DEF new

LEMMA ApplyMaxUSN ==
  ASSUME NEW c \in Tables, NEW d, IsDelta(d), NEW m \in Nat, Numbered(c, m), Numbered(d, m),
         NEW n \in Nat, maxUSN(c) <= n, Numbered(d, n)
  PROVE  maxUSN(ApplyChanges(c, d)) \in Usn /\ maxUSN(ApplyChanges(c, d)) <= n
<1> DEFINE new == ApplyChanges(c, d)
<1>1. new \in Tables /\ Numbered(new, m)
  BY ApplyType, ApplyBounds
<1>2. \A t \in RowTables : \A r \in new[t] : \E x \in c[t] \cup d[t] : x.usn = r.usn
  BY ApplySource
<1>3. new.graves \subseteq c.graves
  BY ApplyGravesSource
<1> HIDE DEF new
<1>4. maxUSN(new) \in Usn /\ maxUSN(new) \in UsnsIn(new)
  BY <1>1, MaxUSNMax
<1>5. \A u \in UsnsIn(c) : u \in Usn /\ u <= maxUSN(c)
  BY MaxUSNMax
<1>6. maxUSN(c) \in Usn
  BY MaxUSNMax
<1>7. \A u \in UsnsIn(c) : u <= n
  <2> HIDE DEF maxUSN
  <2> QED
    BY <1>5, <1>6 DEF Usn, Pending
<1>8. ASSUME NEW t \in UsnTables, NEW u \in UsnsOf(new[t]) PROVE u <= n
  <2>1. CASE new[t] = {}
    BY <1>8, <2>1 DEF UsnsOf
  <2>2. CASE new[t] # {}
    <3>1. PICK r \in new[t] : u = r.usn
      BY <1>8, <2>2 DEF UsnsOf
    <3>2. ASSUME NEW x \in c[t] PROVE x.usn <= n
      <4>1. x.usn \in UsnsIn(c)
        BY DEF UsnsIn, UsnsOf
      <4> QED
        BY <1>7, <4>1
    <3>3. CASE t \in RowTables
      BY <1>2, <3>1, <3>2, <3>3 DEF Numbered
    <3>4. CASE t = "graves"
      BY <1>3, <3>1, <3>2, <3>4
    <3> QED
      BY <3>3, <3>4 DEF UsnTables, RowTables
  <2> QED
    BY <2>1, <2>2
<1>9. maxUSN(new) <= n
  BY <1>4, <1>8 DEF UsnsIn
<1> QED
  BY <1>4, <1>9 DEF new


LEMMA ApplyRemoteKeeps ==
  ASSUME BInv, CInv, ApplyRemote
  PROVE  CInv'
<1>1. /\ pc = "apply"
      /\ col' = IF HasRows(remote) THEN ApplyChanges(col, remote) ELSE col
      /\ lastUSN' = Higher(remote.usn, lastUSN)
      /\ IF remote.more THEN pc' = "cards" /\ local' = NoDelta ELSE pc' = "mark" /\ local' = local
      /\ UNCHANGED <<remote, srv, susn, session, late>>
  BY DEF ApplyRemote, serverVars
<1>2. /\ col \in Tables /\ IsDelta(remote) /\ susn \in Nat /\ session \in Nat /\ session \in Usn
      /\ srv \in Tables /\ Numbered(col, susn) /\ Numbered(remote, susn) /\ lastUSN \in Usn
  BY DEF BInv, TypeOK, UsnBound, Delta, IsDelta, Usn
<1>3. col' = ApplyChanges(col, remote)
  BY <1>1, <1>2, ApplyNothing
<1>4. /\ Completes(remote, col, srv, session) /\ (~remote.more => Resolves(remote, col))
      /\ ServerOK(srv)
  BY <1>1 DEF CInv, PageOK
<1>5. Covers(col', srv, session)
  BY <1>2, <1>3, <1>4, PageCovers
<1>6. maxUSN(col') \in Usn /\ maxUSN(col') <= session
  BY <1>2, <1>3, <1>4, ApplyMaxUSN DEF Completes
<1>7. Oids(remote.graves) \subseteq Dead(srv)
  BY <1>4 DEF Completes
<1>8. \A t \in {"notes", "decks"} :
        Ids(col[t]) \cup Ids(remote[t]) \subseteq Ids(col'[t]) \cup Oids(remote.graves)
  BY <1>2, <1>3, ApplyIds
<1>9. DefaultDeck \in Ids(col'.decks)
  <2>1. DefaultDeck \notin Oids(remote.graves)
    BY <1>4, <1>7, DefaultAlive
  <2> QED
    BY <1>8, <2>1 DEF CInv, LocalOK
<1>10. Decent(col')
  <2>1. Unique(col')
    BY <1>2, <1>3, <1>4, ApplyUnique DEF Completes, CInv, LocalOK, Decent
  <2>2. Oids(col'.graves) \subseteq Oids(col.graves)
    BY <1>3, ApplyGravesSource DEF Oids
  <2> QED
    BY <2>1, <2>2 DEF CInv, LocalOK, Decent
<1>11. LocalOK'
  <2>1. Decent(local') /\ (pc' = "cards" => Refreshes(col', local'))
    BY <1>1, NothingSound DEF CInv, LocalOK
  <2>2. pc' \in {"cards", "mark"}
    BY <1>1
  <2> QED
    BY <1>1, <1>9, <1>10, <2>1, <2>2 DEF CInv, LocalOK, Query
<1>12. AllSound'
  <2> DEFINE notes == Seen(srv', col', "notes")
             decks == Seen(srv', col', "decks")
  <2>1. Seen(srv, col, "notes") \subseteq notes /\ Seen(srv, col, "decks") \subseteq decks
    BY <1>1, <1>7, <1>8 DEF Seen, OnServer
  <2>2. DefaultDeck \in decks
    BY <1>9 DEF Seen
  <2> HIDE DEF notes, decks
  <2>3. /\ Sound(col, notes, decks) /\ Sound(srv, notes, decks) /\ Sound(local, notes, decks)
        /\ Sound(remote, notes, decks) /\ \A q \in late : Sound(q.delta, notes, decks)
    BY <2>1, SoundMore DEF CInv, AllSound, SoundNow
  <2>4. Sound(col', notes, decks)
    BY <1>2, <1>3, <2>2, <2>3, SoundApply DEF Sound
  <2>5. Sound(local', notes, decks)
    BY <1>1, <2>3, NothingSound
  <2>6. /\ Sound(srv', notes, decks) /\ Sound(remote', notes, decks)
        /\ \A q \in late' : Sound(q.delta, notes, decks)
    BY <1>1, <2>3
  <2> QED
    BY <2>4, <2>5, <2>6 DEF AllSound, SoundNow, notes, decks
<1>13. CursorOK'
  <2>1. Covers(col', srv', maxUSN(col'))
    BY <1>1, <1>2, <1>5, <1>6, CoversLess
  <2>2. Covers(col', srv', session')
    BY <1>1, <1>5
  <2>3. lastUSN' <= session'
    <3>1. lastUSN <= session
      BY <1>1 DEF CInv, CursorOK
    <3>2. remote.usn = session
      BY <1>4 DEF Completes
    <3> QED
      BY <1>1, <1>2, <3>1, <3>2 DEF Higher
  <2>4. ReferencesWhole'
    <3>1. ~remote.more => References(col'.cards, Ids(col'.notes), Ids(col'.decks))
      BY <1>2, <1>3, <1>4, <1>9, PageWhole
    <3> QED
      BY <1>1, <3>1 DEF ReferencesWhole, References
  <2>5. pc' # "upload"
    BY <1>1
  <2> QED
    BY <2>1, <2>2, <2>3, <2>4, <2>5 DEF CursorOK
<1>14. PageOK' /\ ServerOK(srv')
  BY <1>1 DEF CInv, PageOK
<1> QED
  BY <1>11, <1>12, <1>13, <1>14 DEF CInv

LEMMA MarkCovers ==
  ASSUME NEW c \in Tables, NEW s \in Tables, NEW u \in Usn, NEW n \in Usn, Covers(c, s, n)
  PROVE  Covers(MarkSynced(c, u), s, n)
<1> DEFINE new == MarkSynced(c, u)
<1>1. \A t \in RowTables : \A x \in c[t] : \E r \in new[t] : r.id = x.id /\ r.mod = x.mod
  BY MarkRows
<1>2. \A t \in RowTables : Ids(new[t]) = Ids(c[t])
  BY MarkIds
<1>3. \A r \in new.cards : \E x \in c.cards : r.id = x.id /\ r.did = x.did
  BY MarkRows DEF RowTables
<1> HIDE DEF new
<1>4. ASSUME NEW t \in RowTables, NEW x \in s[t], x.usn <= n
      PROVE  \E r \in new[t] : r.id = x.id /\ r.mod >= x.mod
  <2>1. PICK y \in c[t] : y.id = x.id /\ y.mod >= x.mod
    BY <1>4 DEF Covers
  <2> QED
    BY <1>1, <2>1
<1>5. ASSUME NEW g \in s.graves, g.usn <= n
      PROVE  Without(new, g.oid)
  <2>1. /\ \A t \in RowTables : g.oid \notin Ids(c[t])
        /\ \A r \in c.cards : NoteOf[r.id] # g.oid /\ r.did # g.oid
    BY <1>5 DEF Covers, Without
  <2> QED
    BY <1>2, <1>3, <2>1 DEF Without
<1>6. Covers(new, s, n)
  BY <1>4, <1>5 DEF Covers
<1> QED
  BY <1>6 DEF new

\* The highest usn after marking: as before, lower, or the one marked with.
LEMMA MarkMaxUSN ==
  ASSUME NEW c \in Tables, NEW u \in Usn, NEW n \in Nat, u <= n, Numbered(c, n)
  PROVE  LET m == maxUSN(MarkSynced(c, u))
         IN  m \in Usn /\ (m <= maxUSN(c) \/ m = u)
<1> DEFINE new == MarkSynced(c, u)
           m == maxUSN(new)
<1>1. new \in Tables /\ Numbered(new, n)
  BY MarkType, MarkBounds
<1>2. \A t \in RowTables : \A r \in new[t] : \E x \in c[t] : r.usn \in {x.usn, u}
  BY MarkSource
<1>3. \A g \in new.graves : \E x \in c.graves : g.usn \in {x.usn, u}
  BY MarkGraves
<1>4. ASSUME NEW t \in Query, new[t] = {} PROVE c[t] = {}
  <2>1. new[t] = Stamp(c[t], u)
    BY DEF MarkSynced, Query
  <2>2. \A x \in c[t] : (IF x.usn = Pending THEN [x EXCEPT !.usn = u] ELSE x) \in Stamp(c[t], u)
    BY DEF Stamp
  <2> QED
    BY <1>4, <2>1, <2>2
<1> HIDE DEF new
<1>5. \A t \in Query : \A r \in new[t] : \E x \in c[t] : r.usn \in {x.usn, u}
  BY <1>2, <1>3 DEF Query, RowTables
<1>6. m \in Usn /\ m \in UsnsIn(new)
  BY <1>1, MaxUSNMax
<1>7. \A v \in UsnsIn(c) : v <= maxUSN(c)
  BY MaxUSNMax
<1> HIDE DEF m
<1>8. PICK t \in UsnTables : m \in UsnsOf(new[t])
  BY <1>6 DEF UsnsIn
<1>9. t \in Query
  BY DEF UsnTables, Query
<1>10. \A v \in UsnsOf(c[t]) : v <= maxUSN(c)
  BY <1>7 DEF UsnsIn
<1>11. m \in UsnsOf(c[t]) \/ m = u
  <2>1. CASE new[t] = {}
    BY <1>4, <1>8, <1>9, <2>1 DEF UsnsOf
  <2>2. CASE new[t] # {}
    <3>1. PICK r \in new[t] : m = r.usn
      BY <1>8, <2>2 DEF UsnsOf
    <3>2. PICK x \in c[t] : r.usn \in {x.usn, u}
      BY <1>5, <1>9
    <3>3. x.usn \in UsnsOf(c[t])
      BY DEF UsnsOf
    <3> QED
      BY <3>1, <3>2, <3>3
  <2> QED
    BY <2>1, <2>2
<1>12. m \in Usn /\ (m <= maxUSN(c) \/ m = u)
  BY <1>6, <1>10, <1>11
<1> QED
  BY <1>12 DEF m, new


LEMMA MarkSyncedKeeps ==
  ASSUME BInv, CInv, MarkSyncedStep
  PROVE  CInv'
<1>1. /\ pc = "mark" /\ pc' = "finish"
      /\ col' = IF lastUSN > 0 THEN MarkSynced(col, lastUSN) ELSE col
      /\ UNCHANGED <<local, remote, lastUSN, srv, susn, session, late>>
  BY DEF MarkSyncedStep, serverVars
<1>2. /\ col \in Tables /\ srv \in Tables /\ lastUSN \in Usn /\ susn \in Nat
      /\ lastUSN <= susn /\ Numbered(col, susn) /\ session \in Usn
  BY DEF BInv, TypeOK, UsnBound, Usn
<1>3. /\ Covers(col, srv, maxUSN(col)) /\ Covers(col, srv, session)
      /\ lastUSN <= session
      /\ References(col.cards, Ids(col.notes), Ids(col.decks))
  BY <1>1 DEF CInv, CursorOK, ReferencesWhole, References
<1>4. Decent(col) /\ DefaultDeck \in Ids(col.decks) /\ SoundNow(col)
  BY DEF CInv, LocalOK, AllSound
<1> DEFINE new == MarkSynced(col, lastUSN)
<1>5. /\ \A t \in RowTables : Ids(new[t]) = Ids(col[t])
      /\ \A r \in new.cards : \E x \in col.cards : r.id = x.id /\ r.did = x.did
  BY <1>2, MarkIds, MarkRows DEF RowTables
<1>6. Oids(new.graves) = Oids(col.graves)
  BY <1>2, MarkGraves
<1>7. Unique(new)
  BY <1>2, <1>4, MarkUnique DEF Decent
<1>8. Covers(new, srv, maxUSN(new))
  <2> DEFINE m == maxUSN(new)
             top == maxUSN(col)
  <2>1. m \in Usn /\ (m <= top \/ m = lastUSN)
    BY <1>2, MarkMaxUSN
  <2>2. top \in Usn
    BY <1>2, MaxUSNMax
  <2> HIDE DEF m
  <2>3. Covers(col, srv, m)
    <3>1. CASE m <= top
      BY <1>2, <1>3, <2>1, <2>2, <3>1, CoversLess
    <3>2. CASE m = lastUSN
      BY <1>2, <1>3, <3>2, CoversLess
    <3> QED
      BY <2>1, <3>1, <3>2
  <2>4. Covers(new, srv, m)
    BY <1>2, <2>1, <2>3, MarkCovers
  <2> QED
    BY <2>4 DEF m
<1> HIDE DEF new
<1>9. References(new.cards, Ids(new.notes), Ids(new.decks))
  BY <1>3, <1>5 DEF References, RowTables
<1>10. col' = new \/ col' = col
  BY <1>1 DEF new
<1>11. /\ Ids(col'.notes) = Ids(col.notes) /\ Ids(col'.decks) = Ids(col.decks)
       /\ Oids(col'.graves) = Oids(col.graves) /\ Unique(col')
       /\ \A r \in col'.cards : \E x \in col.cards : r.id = x.id /\ r.did = x.did
  BY <1>4, <1>5, <1>6, <1>7, <1>10 DEF RowTables, Decent
<1>12. LocalOK'
  <2>1. Decent(col') /\ DefaultDeck \in Ids(col'.decks)
    BY <1>4, <1>11 DEF Decent
  <2> QED
    BY <1>1, <2>1 DEF CInv, LocalOK, Query
<1>13. AllSound'
  <2>1. /\ Seen(srv', col', "notes") = Seen(srv, col, "notes")
        /\ Seen(srv', col', "decks") = Seen(srv, col, "decks")
    BY <1>1, <1>11 DEF Seen
  <2>2. SoundNow(col)'
    BY <1>4, <1>11, <2>1 DEF SoundNow, Sound, References
  <2> QED
    BY <1>1, <2>1, <2>2 DEF CInv, AllSound, SoundNow
<1>14. CursorOK'
  <2>1. Covers(col', srv', maxUSN(col'))
    BY <1>1, <1>3, <1>8, <1>10
  <2>2. ReferencesWhole'
    BY <1>3, <1>9, <1>10 DEF ReferencesWhole, References
  <2> QED
    BY <1>1, <2>1, <2>2 DEF CursorOK, Query
<1>15. PageOK' /\ ServerOK(srv')
  BY <1>1 DEF CInv, PageOK
<1> QED
  BY <1>12, <1>13, <1>14, <1>15 DEF CInv

-----------------------------------------------------------------------------
(* The invariant                                                            *)

LEMMA CursorInit == Init => CInv
<1> SUFFICES ASSUME Init PROVE CInv
  OBVIOUS
<1>1. /\ col = Seed /\ srv = Seed /\ pc = "idle" /\ session = 0
      /\ local = NoDelta /\ remote = NoDelta /\ lastUSN = Unset /\ late = {}
  BY DEF Init
<1>2. /\ \A t \in RowTables : \A r \in Seed[t] : r.usn = 1 /\ r.mod = 0
      /\ Seed.graves = {} /\ Dead(Seed) = {} /\ Oids(Seed.graves) = {}
  BY DEF Seed, RowTables, Dead, Oids
<1>3. Unique(Seed)
  BY DEF Unique, Seed, RowTables
<1>4. DefaultDeck \in Ids(Seed.decks)
  <2>1. [id |-> DefaultDeck, mod |-> 0, usn |-> 1].id = DefaultDeck
    OBVIOUS
  <2>2. Seed.decks = {[id |-> DefaultDeck, mod |-> 0, usn |-> 1]}
    BY DEF Seed
  <2> QED
    BY <2>1, <2>2 DEF Ids
<1>5. SeedNotes \subseteq Ids(Seed.notes)
  <2> SUFFICES ASSUME NEW n \in SeedNotes PROVE n \in Ids(Seed.notes)
    OBVIOUS
  <2>1. [id |-> n, mod |-> 0, usn |-> 1] \in Seed.notes
    BY DEF Seed
  <2>2. [id |-> n, mod |-> 0, usn |-> 1].id = n
    OBVIOUS
  <2> QED
    BY <2>1, <2>2 DEF Ids
<1>6. \A c \in Seed.cards : NoteOf[c.id] \in SeedNotes /\ c.did = DefaultDeck
  BY DEF Seed
<1>7. References(Seed.cards, Ids(Seed.notes), Ids(Seed.decks))
  BY <1>4, <1>5, <1>6 DEF References
<1>8. ServerOK(Seed)
  BY <1>2, <1>3, <1>4 DEF ServerOK
<1>9. SoundNow(Seed)
  BY <1>1, <1>2, <1>7 DEF SoundNow, Sound, Seen, References
<1>10. \A n : Covers(Seed, Seed, n)
  <2>1. \A t \in RowTables : \A x \in Seed[t] : x.mod >= x.mod
    BY <1>2
  <2> QED
    BY <1>2, <2>1 DEF Covers
<1>11. LocalOK
  <2>1. Decent(Seed)
    BY <1>2, <1>3 DEF Decent
  <2> QED
    BY <1>1, <1>4, <2>1, NothingSound DEF LocalOK, Query
<1>12. AllSound
  BY <1>1, <1>9, NothingSound DEF AllSound, SoundNow
<1>13. CursorOK
  BY <1>1, <1>10 DEF CursorOK, ReferencesWhole, Query
<1> QED
  BY <1>1, <1>8, <1>11, <1>12, <1>13 DEF CInv, PageOK

LEMMA CursorStutters ==
  ASSUME CInv, UNCHANGED vars
  PROVE  CInv'
<1>1. UNCHANGED <<col, pc, since, local, remote, lastUSN, srv, susn, session, late,
                  clock, failures>>
  BY DEF vars, clientVars, serverVars
<1>2. ServerOK(srv') /\ LocalOK' /\ AllSound'
  BY <1>1 DEF CInv, LocalOK, AllSound, SoundNow
<1>3. PageOK'
  BY <1>1 DEF CInv, PageOK
<1>4. CursorOK'
  BY <1>1 DEF CInv, CursorOK, ReferencesWhole
<1> QED
  BY <1>2, <1>3, <1>4 DEF CInv

LEMMA CursorNext ==
  ASSUME BInv, CInv, [Next]_vars
  PROVE  CInv'
<1>1. BInv'
  BY BoundsNext
<1>2. CASE Edit
  BY <1>1, <1>2, EditKeeps
<1>3. CASE Remote
  BY <1>1, <1>3, ServerStepKeeps
<1>4. CASE Client
  BY <1>1, <1>4, SyncStartKeeps, GetSyncStateKeeps, GetChangesQueryKeeps, GetChangesUSNKeeps,
     ApplyChangesCallKeeps, ServerStepKeeps, ApplyRemoteKeeps, MarkSyncedKeeps,
     EndKeeps
     DEF Client
<1>5. CASE Fail
  BY <1>5, EndKeeps
<1>6. CASE UNCHANGED vars
  BY <1>6, CursorStutters
<1> QED
  BY <1>2, <1>3, <1>4, <1>5, <1>6 DEF Next

\* What FullSync knows of the server, whoever writes the collection meanwhile.
THEOREM CursorInvariant == Spec => [](BInv /\ CInv)
<1>1. Init => BInv /\ CInv
  BY InitBounds, CursorInit
<1>2. BInv /\ CInv /\ [Next]_vars => (BInv /\ CInv)'
  BY BoundsNext, CursorNext
<1> QED
  BY <1>1, <1>2, PTL DEF Spec

\* The usn that a synchronisation sends as what it has seen covers only server
\* changes that were applied (maxUSN and MarkSynced of pkg/collection/sync.go,
\* lastUSN of FullSync in pkg/sync/delta.go), whatever fails in between and
\* whoever writes the collection meanwhile.
THEOREM CursorTrue == Spec => []CursorCovers
<1>1. CInv => CursorCovers
  BY DEF CInv, CursorOK, Covers, Without, CursorCovers, RowTables
<1> QED
  BY CursorInvariant, <1>1, PTL

\* Once the last page is applied no card refers to a missing deck or note: the
\* cascades of applyGrave (pkg/collection/sync.go) keep references whole.
THEOREM NoneDangles == Spec => []ReferencesWhole
<1>1. CInv => ReferencesWhole
  BY DEF CInv, CursorOK
<1> QED
  BY CursorInvariant, <1>1, PTL

-----------------------------------------------------------------------------
(* Last write wins, when nobody else writes the collection                  *)

\* A page holds no older version of a row that is here.
PageNewer ==
  pc \in {"bury", "apply"} =>
    \A t \in RowTables : \A r \in col[t], x \in remote[t] : x.id = r.id => x.mod >= r.mod

LEMMA CallNewer ==
  ASSUME IInv', CInv', ApplyChangesCall,
         \A t \in RowTables : remote'[t] \subseteq srv'[t]
  PROVE  PageNewer'
<1> SUFFICES ASSUME NEW t \in RowTables, NEW r \in col'[t], NEW x \in remote'[t], x.id = r.id
             PROVE  x.mod >= r.mod
  BY DEF PageNewer
<1>1. pc' = "bury" /\ ServerOK(srv')
  BY DEF ApplyChangesCall, CInv
<1>2. x \in srv'[t] /\ KnownIn(srv', t, r)
  BY <1>1 DEF IInv, UploadKnown
<1>3. x.id \notin Dead(srv') /\ (t = "cards" => NoteOf[x.id] \notin Dead(srv'))
  BY <1>1, <1>2, Alive
<1>4. PICK y \in srv'[t] : y.id = r.id /\ y.mod >= r.mod
  BY <1>2, <1>3 DEF KnownIn
<1>5. y = x
  BY <1>1, <1>2, <1>4 DEF ServerOK, Unique
<1> QED
  BY <1>4, <1>5

LEMMA NewerNext ==
  ASSUME ~OutsideWriter, IInv, IInv', CInv', PageNewer, [Next]_vars
  PROVE  PageNewer'
<1>1. CASE ApplyChangesCall
  BY <1>1, BoundsApplyChangesCall, CallNewer DEF IInv, BInv
<1>2. CASE Edit
  <2>1. pc = "idle" /\ UNCHANGED clientVars
    BY <1>2 DEF Edit, AnswerCard, AddNote, CreateDeck, DeleteObject, WriteLocal, MayWrite
  <2> QED
    BY <2>1 DEF PageNewer, clientVars
<1>3. CASE ApplyGravesCall
  BY <1>3 DEF ApplyGravesCall, PageNewer
<1>4. CASE Remote
  <2>1. UNCHANGED <<col, clientVars>>
    BY <1>4 DEF Remote, RemoteEdit, RemoteDelete, ServerLate
  <2> QED
    BY <2>1 DEF PageNewer, clientVars
<1>5. CASE Fail \/ (Client /\ ~ApplyChangesCall /\ ~ApplyGravesCall)
  <2>1. pc' \notin {"bury", "apply"}
    BY <1>5 DEF Fail, Client, SyncStart, GetSyncState, GetChangesQuery, NextQuery, Query,
                GetChangesUSN, ApplyRemote, MarkSyncedStep, SyncFinish
  <2> QED
    BY <2>1 DEF PageNewer
<1>6. CASE UNCHANGED vars
  BY <1>6 DEF PageNewer, vars, clientVars
<1> QED
  BY <1>1, <1>2, <1>3, <1>4, <1>5, <1>6 DEF Next

\* With one writer, all that is known about a synchronisation holds together.
LEMMA AllHolds ==
  ASSUME ~OutsideWriter
  PROVE  Spec => [](IInv /\ CInv /\ PageNewer)
<1>1. Init => IInv /\ CInv /\ PageNewer
  BY InitHolds, CursorInit DEF Init, PageNewer
<1>2. ASSUME IInv /\ CInv /\ PageNewer, [Next]_vars PROVE (IInv /\ CInv /\ PageNewer)'
  <2>1. IInv'
    BY <1>2, NextHolds, StutterStep
  <2>2. CInv'
    BY <1>2, CursorNext DEF IInv, BInv
  <2> QED
    BY <1>2, <2>1, <2>2, NewerNext
<1> QED
  BY <1>1, <1>2, PTL DEF Spec

\* No step puts an older version in the place of a row.
LEMMA RowsGetNewer ==
  ASSUME IInv, CInv, PageNewer, Next,
         NEW t \in RowTables, NEW r \in col[t], NEW x \in col'[t], x.id = r.id
  PROVE  x.mod >= r.mod
<1>1. /\ TypeOK /\ col \in Tables /\ IsDelta(remote) /\ clock \in Nat /\ lastUSN \in Usn
      /\ Dated(col, clock)
  BY DEF IInv, TypeOK, ModBound, Delta, IsDelta
<1>2. r.mod \in Nat /\ r.mod <= clock
  BY <1>1 DEF Dated, Tables, RowTables, CardRow, NoteRow, DeckRow
<1>3. ASSUME NEW y \in col[t], y.id = x.id PROVE y = r
  BY <1>3 DEF CInv, LocalOK, Decent, Unique
<1>4. CASE Edit
  <2>1. x \in col[t] \/ x.mod = clock + 1
    BY <1>1, <1>4, EditWritten DEF Written
  <2> QED
    BY <1>1, <1>2, <1>3, <2>1
<1>5. CASE ApplyRemote
  <2>1. CASE col' = col
    BY <1>2, <1>3, <2>1
  <2>2. CASE col' = ApplyChanges(col, remote)
    <3>1. PICK z \in Put(col[t], remote[t]) : z.id = x.id /\ z.mod = x.mod
      BY <1>1, <2>2, ApplyRow
    <3>2. CASE z \in col[t]
      BY <1>2, <1>3, <3>1, <3>2
    <3>3. CASE z \in remote[t]
      BY <1>5, <3>1, <3>3 DEF ApplyRemote, PageNewer
    <3> QED
      BY <3>1, <3>2, <3>3 DEF Put
  <2> QED
    BY <1>5, <2>1, <2>2 DEF ApplyRemote
<1>6. CASE MarkSyncedStep
  <2>1. CASE col' = col
    BY <1>2, <1>3, <2>1
  <2>2. CASE col' = MarkSynced(col, lastUSN)
    <3>1. PICK z \in col[t] : z.id = x.id /\ z.mod = x.mod
      BY <1>1, <2>2, MarkRows
    <3> QED
      BY <1>2, <1>3, <3>1
  <2> QED
    BY <1>6, <2>1, <2>2 DEF MarkSyncedStep
<1>7. CASE Remote \/ Fail
  <2>1. col' = col
    BY <1>7 DEF Remote, RemoteEdit, RemoteDelete, ServerLate, Fail
  <2> QED
    BY <1>2, <1>3, <2>1
<1>8. CASE Client /\ ~ApplyRemote /\ ~MarkSyncedStep
  <2>1. col' = col
    BY <1>8 DEF Client, SyncStart, GetSyncState, GetChangesQuery, GetChangesUSN,
                ApplyChangesCall, ApplyGravesCall, SyncFinish
  <2> QED
    BY <1>2, <1>3, <2>1
<1> QED
  BY <1>4, <1>5, <1>6, <1>7, <1>8 DEF Next

\* A pending edit is never replaced by an older version (the INSERT OR REPLACE
\* of ApplyChanges in pkg/collection/sync.go): the upload precedes the page.
THEOREM NewerWins ==
  ASSUME ~OutsideWriter
  PROVE  Spec => NewerEditWins
<1>1. ASSUME IInv /\ CInv /\ PageNewer, [Next]_vars
      PROVE  [\A t \in RowTables : \A r \in col[t] : r.usn = Pending =>
                \A x \in col'[t] : x.id = r.id => x.mod >= r.mod]_vars
  BY <1>1, RowsGetNewer
<1>2. Spec => [][Next]_vars
  BY PTL DEF Spec
<1> QED
  BY <1>1, <1>2, AllHolds, PTL DEF NewerEditWins

-----------------------------------------------------------------------------
(* What a finished synchronisation has achieved                             *)

NothingPending(c) ==
  /\ \A t \in RowTables : \A r \in c[t] : r.usn # Pending
  /\ \A g \in c.graves : g.usn # Pending

\* A synchronisation that reaches its last call marks with a real usn, and so
\* leaves nothing pending and has everything up to the page it received last.
FinishOK ==
  /\ susn >= 1
  /\ pc \in {"bury", "apply"} => session >= 1
  /\ pc = "mark" => lastUSN >= 1
  /\ pc = "finish" => NothingPending(col) /\ Covers(col, srv, session)

LEMMA MarkLeavesNothing ==
  ASSUME NEW c \in Tables, NEW u \in Usn, u # Pending
  PROVE  NothingPending(MarkSynced(c, u))
<1>1. ASSUME NEW x \in CardRow \cup NoteRow \cup DeckRow \cup GraveRow
      PROVE  (IF x.usn = Pending THEN [x EXCEPT !.usn = u] ELSE x).usn # Pending
  BY DEF CardRow, NoteRow, DeckRow, GraveRow
<1>2. ASSUME NEW rows \in SUBSET (CardRow \cup NoteRow \cup DeckRow \cup GraveRow),
             NEW r \in Stamp(rows, u)
      PROVE  r.usn # Pending
  <2>1. PICK x \in rows : r = IF x.usn = Pending THEN [x EXCEPT !.usn = u] ELSE x
    BY DEF Stamp
  <2> QED
    BY <1>1, <2>1
<1>3. /\ MarkSynced(c, u).cards = Stamp(c.cards, u)
      /\ MarkSynced(c, u).notes = Stamp(c.notes, u)
      /\ MarkSynced(c, u).decks = Stamp(c.decks, u)
      /\ MarkSynced(c, u).graves = Stamp(c.graves, u)
  BY DEF MarkSynced
<1>4. /\ c.cards \subseteq CardRow /\ c.notes \subseteq NoteRow
      /\ c.decks \subseteq DeckRow /\ c.graves \subseteq GraveRow
  BY DEF Tables
<1> QED
  BY <1>2, <1>3, <1>4 DEF NothingPending, RowTables

LEMMA FinishInit == Init => FinishOK
<1> SUFFICES ASSUME Init PROVE FinishOK
  OBVIOUS
<1> QED
  BY DEF Init, FinishOK

\* Steps that leave the client where it is, or go on without marking.
LEMMA FinishOther ==
  ASSUME IInv, IInv', FinishOK, Moves, susn <= susn', UNCHANGED <<col, lastUSN, session>>,
         pc' = pc \/ (pc = "bury" /\ pc' = "apply")
  PROVE  FinishOK'
<1>1. /\ susn \in Nat /\ susn' \in Nat /\ srv' \in Tables
      /\ session \in Nat /\ session \in Usn /\ session <= susn
  BY DEF IInv, TypeOK, UsnBound, Usn
<1>2. susn' >= 1
  BY <1>1 DEF FinishOK
<1>3. pc = "finish" => Covers(col, srv', session)
  BY <1>1, CoversStays DEF FinishOK, Moves
<1> QED
  BY <1>2, <1>3 DEF FinishOK

LEMMA FinishRemote ==
  ASSUME IInv, IInv', CInv, FinishOK, Remote
  PROVE  FinishOK'
<1>1. UNCHANGED <<col, pc, lastUSN, session>>
  BY DEF Remote, RemoteEdit, RemoteDelete, ServerLate, clientVars
<1>2. Moves /\ susn <= susn'
  BY RemoteMoves, RemoteGrows DEF IInv, BInv, ServerGrows
<1> QED
  BY <1>1, <1>2, FinishOther

\* Every page is numbered at least 1, as the server has begun with 1.
LEMMA FinishUpload ==
  ASSUME IInv, IInv', FinishOK, ApplyChangesCall
  PROVE  FinishOK'
<1>1. pc = "upload" /\ pc' = "bury"
  BY DEF ApplyChangesCall
<1>2. susn \in Nat /\ susn' \in Nat /\ session \in Nat /\ local.usn \in Usn /\ susn >= 1
  BY DEF IInv, TypeOK, Delta, FinishOK
<1>3. susn <= susn'
  BY <1>2 DEF ApplyChangesCall, Handle
<1> DEFINE lo == Higher(local.usn, session)
<1>4. lo \in Nat
  BY <1>2 DEF Higher, Usn, Pending
<1>5. PICK hi \in {susn} \cup (lo + 1 .. susn) : session' = IF hi < susn THEN hi ELSE susn'
  BY DEF ApplyChangesCall
<1> HIDE DEF lo
<1>6. session' >= 1
  BY <1>2, <1>3, <1>4, <1>5
<1> QED
  BY <1>1, <1>2, <1>3, <1>6 DEF FinishOK

LEMMA FinishBury ==
  ASSUME IInv, IInv', CInv, FinishOK, ApplyGravesCall
  PROVE  FinishOK'
<1>1. /\ pc = "bury" /\ pc' = "apply"
      /\ UNCHANGED <<col, lastUSN, session>>
  BY DEF ApplyGravesCall
<1>2. Moves /\ susn <= susn'
  BY GravesMoves, BoundsApplyGravesCall DEF IInv, BInv, ServerGrows
<1> QED
  BY <1>1, <1>2, FinishOther

LEMMA FinishApply ==
  ASSUME IInv, CInv, FinishOK, ApplyRemote
  PROVE  FinishOK'
<1>1. /\ pc = "apply" /\ pc' \in {"cards", "mark"}
      /\ UNCHANGED <<session, susn>> /\ lastUSN' = Higher(remote.usn, lastUSN)
  BY DEF ApplyRemote, serverVars
<1>2. remote.usn = session /\ session >= 1 /\ session \in Nat /\ lastUSN \in Usn
  BY <1>1 DEF CInv, PageOK, Completes, FinishOK, IInv, TypeOK
<1>3. lastUSN' >= 1
  BY <1>1, <1>2 DEF Higher, Usn, Pending
<1> QED
  BY <1>1, <1>3 DEF FinishOK

LEMMA FinishMark ==
  ASSUME IInv, CInv, FinishOK, MarkSyncedStep
  PROVE  FinishOK'
<1>1. /\ pc = "mark" /\ pc' = "finish"
      /\ col' = IF lastUSN > 0 THEN MarkSynced(col, lastUSN) ELSE col
      /\ UNCHANGED <<srv, susn, session>>
  BY DEF MarkSyncedStep, serverVars
<1>2. /\ col \in Tables /\ srv \in Tables /\ session \in Usn
      /\ lastUSN \in Usn /\ lastUSN >= 1
  BY <1>1 DEF IInv, TypeOK, Usn, FinishOK
<1>3. lastUSN # Pending /\ lastUSN > 0
  BY <1>2 DEF Usn, Pending
<1>4. Covers(col, srv, session)
  BY <1>1 DEF CInv, CursorOK
<1>5. NothingPending(MarkSynced(col, lastUSN)) /\ Covers(MarkSynced(col, lastUSN), srv, session)
  BY <1>2, <1>3, <1>4, MarkLeavesNothing, MarkCovers
<1>6. col' = MarkSynced(col, lastUSN)
  BY <1>1, <1>3
<1> QED
  BY <1>1, <1>5, <1>6 DEF FinishOK

\* Steps to a place of which FinishOK says nothing.
LEMMA FinishElse ==
  ASSUME FinishOK, susn' = susn, pc' \notin {"bury", "apply", "mark", "finish"}
  PROVE  FinishOK'
BY DEF FinishOK

LEMMA FinishNext ==
  ASSUME IInv, IInv', CInv, FinishOK, ~OutsideWriter, Next
  PROVE  FinishOK'
<1>1. CASE Edit
  <2>1. pc = "idle" /\ UNCHANGED <<pc, susn>>
    BY <1>1 DEF Edit, AnswerCard, AddNote, CreateDeck, DeleteObject, WriteLocal, MayWrite,
                clientVars, serverVars
  <2> QED
    BY <2>1, FinishElse
<1>2. CASE Remote
  BY <1>2, FinishRemote
<1>3. CASE SyncStart \/ GetSyncState \/ GetChangesQuery \/ GetChangesUSN \/ SyncFinish \/ Fail
  <2>1. susn' = susn
    BY <1>3 DEF SyncStart, GetSyncState, GetChangesQuery, GetChangesUSN, SyncFinish, Fail,
                serverVars
  <2>2. pc' \in {"idle", "state", "cards", "usn", "upload"} \cup {"notes", "decks", "graves"}
    BY <1>3 DEF SyncStart, GetSyncState, GetChangesQuery, GetChangesUSN, SyncFinish, Fail,
                Query, NextQuery
  <2> QED
    BY <2>1, <2>2, FinishElse
<1>4. CASE ApplyChangesCall \/ ApplyGravesCall \/ ApplyRemote \/ MarkSyncedStep
  BY <1>4, FinishUpload, FinishBury, FinishApply, FinishMark
<1> QED
  BY <1>1, <1>2, <1>3, <1>4 DEF Next, Client

\* Where the server has changed nothing since the last page it sent, the last
\* call of FullSync finds both sides with the same versions of the same rows,
\* and nothing left to upload.
InSync ==
  pc = "finish" /\ Numbered(srv, session) =>
    Content(col) = Content(srv) /\ NothingPending(col)

LEMMA FinishInSync ==
  ASSUME IInv, CInv, FinishOK
  PROVE  InSync
<1> SUFFICES ASSUME pc = "finish", Numbered(srv, session)
             PROVE  Content(col) = Content(srv) /\ NothingPending(col)
  BY DEF InSync
<1>1. /\ col \in Tables /\ srv \in Tables /\ ServerOK(srv) /\ Unique(col) /\ Unique(srv)
      /\ NothingPending(col) /\ Covers(col, srv, session) /\ PendingUntilKnown
  BY DEF IInv, CInv, TypeOK, LocalOK, Decent, ServerOK, FinishOK
<1>2. \A t \in RowTables : \A r \in col[t] \cup srv[t] : r.mod \in Nat
  BY <1>1 DEF Tables, RowTables, CardRow, NoteRow, DeckRow
\* the server's rows are here, in this version or a later one
<1>3. ASSUME NEW t \in RowTables, NEW x \in srv[t]
      PROVE  \E r \in col[t] : r.id = x.id /\ r.mod >= x.mod
  <2>1. x.usn <= session
    BY DEF Numbered
  <2> QED
    BY <1>1, <2>1 DEF Covers
\* what is here the server has not buried
<1>4. ASSUME NEW o \in Dead(srv)
      PROVE  /\ \A t \in RowTables : o \notin Ids(col[t])
             /\ \A r \in col.cards : NoteOf[r.id] # o
  <2>1. PICK g \in srv.graves : g.oid = o
    BY DEF Dead, Oids
  <2>2. g.usn <= session
    BY DEF Numbered
  <2> QED
    BY <1>1, <2>1, <2>2 DEF Covers, Without
\* so the server knows the rows here
<1>5. ASSUME NEW t \in RowTables, NEW r \in col[t]
      PROVE  \E x \in srv[t] : x.id = r.id /\ x.mod >= r.mod
  <2>1. KnownIn(srv, t, r)
    BY <1>1 DEF NothingPending, PendingUntilKnown
  <2>2. r.id \notin Dead(srv) /\ ~(t = "cards" /\ NoteOf[r.id] \in Dead(srv))
    BY <1>4 DEF Ids
  <2> QED
    BY <2>1, <2>2 DEF KnownIn
\* and as each side has one row of a key, in the same version
<1>6. ASSUME NEW t \in RowTables, NEW x \in srv[t]
      PROVE  \E r \in col[t] : r.id = x.id /\ r.mod = x.mod
  <2>1. PICK r \in col[t] : r.id = x.id /\ r.mod >= x.mod
    BY <1>3
  <2>2. PICK y \in srv[t] : y.id = r.id /\ y.mod >= r.mod
    BY <1>5
  <2>3. y = x
    BY <1>1, <2>1, <2>2 DEF Unique
  <2> QED
    BY <1>2, <2>1, <2>2, <2>3
<1>7. ASSUME NEW t \in RowTables, NEW r \in col[t]
      PROVE  \E x \in srv[t] : x.id = r.id /\ x.mod = r.mod
  <2>1. PICK x \in srv[t] : x.id = r.id /\ x.mod >= r.mod
    BY <1>5
  <2>2. PICK q \in col[t] : q.id = x.id /\ q.mod >= x.mod
    BY <1>3
  <2>3. q = r
    BY <1>1, <2>1, <2>2 DEF Unique
  <2> QED
    BY <1>2, <2>1, <2>2, <2>3
<1>8. \A t \in RowTables :
        {<<r.id, r.mod>> : r \in col[t]} = {<<r.id, r.mod>> : r \in srv[t]}
  BY <1>6, <1>7
<1> QED
  BY <1>1, <1>8 DEF Content

\* A synchronisation does what it is for: when FullSync (pkg/sync/delta.go)
\* reaches SyncFinish and the server has changed nothing since the last page,
\* the collection and the server hold the same rows and nothing is pending,
\* whatever failed before, arrived late or was changed elsewhere meanwhile.
THEOREM FinishedInSync ==
  ASSUME ~OutsideWriter
  PROVE  Spec => []InSync
<1>1. ASSUME IInv /\ CInv, IInv', FinishOK, [Next]_vars PROVE FinishOK'
  <2>1. CASE Next
    BY <1>1, <2>1, FinishNext
  <2>2. CASE UNCHANGED vars
    BY <1>1, <2>2 DEF FinishOK, vars, clientVars, serverVars
  <2> QED
    BY <1>1, <2>1, <2>2
<1>2. IInv /\ CInv /\ FinishOK => InSync
  BY FinishInSync
<1> QED
  BY <1>1, <1>2, FinishInit, AllHolds, PTL DEF Spec

=============================================================================
