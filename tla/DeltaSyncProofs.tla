-------------------------- MODULE DeltaSyncProofs --------------------------
(***************************************************************************)
(* Proofs about DeltaSync: its type invariant, and that no pending edit or  *)
(* deletion is marked as synchronised before the server knows it.           *)
(*                                                                          *)
(* The types, and the bounds on usns and times (BInv), hold whoever writes  *)
(* the collection meanwhile. The rest assumes that nobody does, without     *)
(* which it is false.                                                       *)
(***************************************************************************)
EXTENDS DeltaSync, FiniteSetTheorems, WellFoundedInduction, TLAPS

-----------------------------------------------------------------------------
(* The highest usn of a collection                                          *)

\* A non-empty finite set of integers has a maximum (FiniteSetsExt!Max).
LEMMA MaxOfFinite ==
  ASSUME NEW S \in SUBSET Int, S # {}, IsFiniteSet(S)
  PROVE  Max(S) \in S /\ \A s \in S : s <= Max(S)
<1> DEFINE Above(x) == {y \in S : x < y}
           F == {Above(x) : x \in S}
<1>1. IsWellFoundedOn(StrictSubsetOrdering(S), FiniteSubsetsOf(S))
  BY FS_StrictSubsetOrderingWellFounded
<1>2. F \subseteq FiniteSubsetsOf(S)
  BY FS_Subset DEF FiniteSubsetsOf
<1>3. F # {}
  OBVIOUS
<1> HIDE DEF F
<1>4. PICK a \in F : \A b \in F : ~(<<b, a>> \in StrictSubsetOrdering(S))
  BY <1>1, <1>2, <1>3, WFMin
<1>5. PICK x \in S : a = Above(x)
  BY <1>4 DEF F
<1>6. ASSUME NEW y \in S, x < y PROVE FALSE
  <2>1. x \in Int /\ y \in Int
    OBVIOUS
  <2>2. Above(y) \in F
    BY DEF F
  <2>3. ASSUME NEW z \in Above(y) PROVE z \in Above(x)
    <3>1. z \in S /\ z \in Int /\ y < z
      BY <2>3
    <3>2. x < z
      BY <1>6, <2>1, <3>1
    <3>3. QED
      BY <3>1, <3>2
  <2>4. y \in Above(x) /\ y \notin Above(y)
    BY <1>6, <2>1
  <2>5. <<Above(y), a>> \in StrictSubsetOrdering(S)
    BY <2>3, <2>4, <1>5 DEF StrictSubsetOrdering
  <2>6. QED
    BY <2>2, <2>5, <1>4
<1>7. \A y \in S : x >= y
  BY <1>6
<1>8. QED
  BY <1>7 DEF Max

\* A set of usns bounded by the server's number has a maximum among them.
LEMMA MaxOfUsns ==
  ASSUME NEW S \in SUBSET Usn, S # {}, NEW n \in Nat, \A s \in S : s <= n
  PROVE  Max(S) \in Usn /\ Max(S) <= n
<1>1. S \subseteq -1 .. n
  BY DEF Usn, Pending
<1>2. IsFiniteSet(-1 .. n)
  BY FS_Interval
<1>3. IsFiniteSet(S)
  BY <1>1, <1>2, FS_Subset
<1>4. S \in SUBSET Int
  BY DEF Usn, Pending
<1>5. QED
  BY <1>3, <1>4, MaxOfFinite

\* maxUSN returns a usn that no bound on the rows' usns is below.
LEMMA MaxUSNType ==
  ASSUME NEW c \in Tables, NEW n \in Nat, Numbered(c, n)
  PROVE  maxUSN(c) \in Usn /\ maxUSN(c) <= n
<1> DEFINE S == UNION {UsnsOf(c[t]) : t \in UsnTables}
<1>1. \A t \in UsnTables : UsnsOf(c[t]) \subseteq Usn /\ \A u \in UsnsOf(c[t]) : u <= n
  BY DEF UsnTables, UsnsOf, Tables, CardRow, NoteRow, DeckRow, GraveRow, Usn,
         Numbered, RowTables
<1>2. S \in SUBSET Usn /\ \A s \in S : s <= n
  BY <1>1
<1>3. UsnsOf(c.cards) # {}
  BY DEF UsnsOf
<1>4. "cards" \in UsnTables
  BY DEF UsnTables
<1>5. S # {}
  BY <1>3, <1>4
<1> HIDE DEF S
<1>6. Max(S) \in Usn /\ Max(S) <= n
  BY <1>2, <1>5, MaxOfUsns
<1>7. QED
  BY <1>6 DEF S, maxUSN

-----------------------------------------------------------------------------
(* The operators on tables                                                  *)

\* A page or an upload: its rows are rows of the tables.
IsDelta(d) ==
  /\ d.cards \in SUBSET CardRow /\ d.notes \in SUBSET NoteRow
  /\ d.decks \in SUBSET DeckRow /\ d.graves \in SUBSET GraveRow

\* ApplyChanges turns tables into tables.
LEMMA ApplyType ==
  ASSUME NEW c \in Tables, NEW d, IsDelta(d)
  PROVE  ApplyChanges(c, d) \in Tables
BY KeysAssumption
   DEF Tables, IsDelta, ApplyChanges, Put, Rehome, CardRow, NoteRow, DeckRow, GraveRow

\* Every row it leaves is an old or a received one, up to a card's deck; every
\* grave it leaves was there.
LEMMA ApplySource ==
  ASSUME NEW c \in Tables, NEW d, IsDelta(d), NEW t \in RowTables,
         NEW r \in ApplyChanges(c, d)[t]
  PROVE  \E x \in c[t] \cup d[t] : x.id = r.id /\ x.mod = r.mod /\ x.usn = r.usn
<1>1. CASE t = "cards"
  <2>1. PICK x \in Put(c.cards, d.cards) : r = Rehome(x, Oids(d.graves))
    BY <1>1 DEF ApplyChanges
  <2>2. x \in c.cards \cup d.cards /\ x \in CardRow
    BY <2>1 DEF Put, Tables, IsDelta
  <2>3. x.id = r.id /\ x.mod = r.mod /\ x.usn = r.usn
    BY <2>1, <2>2 DEF Rehome, CardRow
  <2>4. QED
    BY <2>2, <2>3, <1>1
<1>2. CASE t = "notes"
  BY <1>2 DEF ApplyChanges, Put
<1>3. CASE t = "decks"
  BY <1>3 DEF ApplyChanges, Put
<1>4. QED
  BY <1>1, <1>2, <1>3 DEF RowTables

LEMMA ApplyGravesSource ==
  ASSUME NEW c, NEW d
  PROVE  ApplyChanges(c, d).graves \subseteq c.graves
BY DEF ApplyChanges

\* Marking changes no key, time or deck, and leaves every usn that was set.
LEMMA StampRow ==
  ASSUME NEW rows, NEW n, NEW r \in Stamp(rows, n)
  PROVE  \E x \in rows : r = x \/ (x.usn = Pending /\ r = [x EXCEPT !.usn = n])
BY DEF Stamp

LEMMA MarkType ==
  ASSUME NEW c \in Tables, NEW n \in Usn
  PROVE  MarkSynced(c, n) \in Tables
BY DEF MarkSynced, Stamp, Tables, CardRow, NoteRow, DeckRow, GraveRow

LEMMA MarkSource ==
  ASSUME NEW c \in Tables, NEW n \in Usn, NEW t \in RowTables,
         NEW r \in MarkSynced(c, n)[t]
  PROVE  \E x \in c[t] : x.id = r.id /\ x.mod = r.mod /\ r.usn \in {x.usn, n}
<1>1. r \in Stamp(c[t], n)
  BY DEF MarkSynced, RowTables
<1>2. PICK x \in c[t] : r = x \/ r = [x EXCEPT !.usn = n]
  BY <1>1, StampRow
<1>3. x \in CardRow \cup NoteRow \cup DeckRow
  BY DEF Tables, RowTables
<1>4. QED
  BY <1>2, <1>3 DEF CardRow, NoteRow, DeckRow

LEMMA MarkGraves ==
  ASSUME NEW c \in Tables, NEW n \in Usn
  PROVE  /\ Oids(MarkSynced(c, n).graves) = Oids(c.graves)
         /\ \A g \in MarkSynced(c, n).graves : \E x \in c.graves : g.usn \in {x.usn, n}
<1>1. \A x \in c.graves : x \in GraveRow
  BY DEF Tables
<1>2. ASSUME NEW g \in Stamp(c.graves, n)
      PROVE  \E x \in c.graves : g.oid = x.oid /\ g.usn \in {x.usn, n}
  BY <1>1, <1>2 DEF Stamp, GraveRow
<1>3. ASSUME NEW x \in c.graves
      PROVE  \E g \in Stamp(c.graves, n) : g.oid = x.oid
  <2> DEFINE g == IF x.usn = Pending THEN [x EXCEPT !.usn = n] ELSE x
  <2>1. g \in Stamp(c.graves, n)
    BY DEF Stamp
  <2>2. g.oid = x.oid
    BY <1>1 DEF GraveRow
  <2>3. QED
    BY <2>1, <2>2
<1>4. QED
  BY <1>2, <1>3 DEF MarkSynced, Oids

-----------------------------------------------------------------------------
(* The server                                                               *)

LEMMA MergeType ==
  ASSUME NEW s \in Tables, NEW d, IsDelta(d), NEW u \in Nat
  PROVE  Merge(s, d, u) \in Tables
BY KeysAssumption
   DEF Merge, Tables, IsDelta, Put, StampAll, AcceptedCards, Newer,
       CardRow, NoteRow, DeckRow, GraveRow, Usn

\* The graves of the objects X name exactly these.
LEMMA OidsOfGraves ==
  ASSUME NEW X, NEW u
  PROVE  Oids({[oid |-> o, usn |-> u] : o \in X}) = X
<1> DEFINE G == {[oid |-> o, usn |-> u] : o \in X}
<1>1. \A g \in G : g.oid \in X
  OBVIOUS
<1>2. ASSUME NEW o \in X PROVE o \in Oids(G)
  <2>1. [oid |-> o, usn |-> u] \in G
    OBVIOUS
  <2>2. [oid |-> o, usn |-> u].oid = o
    OBVIOUS
  <2> HIDE DEF G
  <2>3. QED
    BY <2>1, <2>2 DEF Oids
<1> HIDE DEF G
<1>3. Oids(G) = X
  BY <1>1, <1>2 DEF Oids
<1>4. QED
  BY <1>3 DEF G

\* Burying objects puts them among the dead, and changes tables into tables.
LEMMA BuryType ==
  ASSUME NEW s \in Tables, NEW oids \in SUBSET Key, NEW u \in Nat
  PROVE  /\ Bury(s, oids, u) \in Tables
         /\ Dead(Bury(s, oids, u)) = Dead(s) \cup oids
<1> DEFINE new == [NoRows EXCEPT !.graves = {[oid |-> o, usn |-> u] : o \in oids \ Dead(s)}]
<1>1. IsDelta(new)
  BY DEF IsDelta, NoRows, GraveRow, Usn
<1>2. ApplyChanges(s, new) \in Tables
  BY <1>1, ApplyType
<1>3. s.graves \cup new.graves \in SUBSET GraveRow
  BY <1>1 DEF Tables, IsDelta
<1>4. Oids(s.graves \cup new.graves) = Dead(s) \cup oids
  <2>1. Oids(new.graves) = oids \ Dead(s)
    BY OidsOfGraves DEF NoRows
  <2>2. Oids(s.graves \cup new.graves) = Oids(s.graves) \cup Oids(new.graves)
    BY DEF Oids
  <2>3. QED
    BY <2>1, <2>2 DEF Dead
<1> HIDE DEF new
<1>5. [ApplyChanges(s, new) EXCEPT !.graves = s.graves \cup new.graves] \in Tables
  BY <1>2, <1>3 DEF Tables
<1>6. Bury(s, oids, u) = [ApplyChanges(s, new) EXCEPT !.graves = s.graves \cup new.graves]
  BY DEF Bury, new
<1>7. Bury(s, oids, u).graves = s.graves \cup new.graves
  BY <1>6, <1>2 DEF Tables
<1>8. QED
  BY <1>4, <1>5, <1>6, <1>7 DEF Dead

\* The server never forgets what it knows: not when it takes an upload, ...
LEMMA MergeKeeps ==
  ASSUME NEW s \in Tables, NEW d, IsDelta(d), NEW u \in Nat,
         NEW t \in RowTables, NEW r, r.mod \in Nat, KnownIn(s, t, r)
  PROVE  KnownIn(Merge(s, d, u), t, r)
<1>1. Dead(Merge(s, d, u)) = Dead(s)
  BY DEF Merge, Dead
<1>2. ASSUME NEW x \in s[t], x.id = r.id, x.mod >= r.mod
      PROVE  \E y \in Merge(s, d, u)[t] : y.id = r.id /\ y.mod >= r.mod
  <2>1. x.mod \in Nat
    BY DEF Tables, RowTables, CardRow, NoteRow, DeckRow
  <2>2. CASE t = "cards"
    <3> DEFINE N == StampAll(AcceptedCards(s, d), u)
    <3>1. \A y \in N : y.mod \in Nat /\ \A z \in s.cards : z.id = y.id => z.mod < y.mod
      BY DEF StampAll, AcceptedCards, Newer, IsDelta, CardRow
    <3>2. Merge(s, d, u).cards = {z \in s.cards : z.id \notin Ids(N)} \cup N
      BY DEF Merge, Put
    <3> HIDE DEF N
    <3>3. QED
      BY <1>2, <2>1, <2>2, <3>1, <3>2 DEF Ids
  <2>3. CASE t = "notes"
    <3> DEFINE N == StampAll(Newer(d.notes, s.notes, Dead(s)), u)
    <3>1. \A y \in N : y.mod \in Nat /\ \A z \in s.notes : z.id = y.id => z.mod < y.mod
      BY DEF StampAll, Newer, IsDelta, NoteRow
    <3>2. Merge(s, d, u).notes = {z \in s.notes : z.id \notin Ids(N)} \cup N
      BY DEF Merge, Put
    <3> HIDE DEF N
    <3>3. QED
      BY <1>2, <2>1, <2>3, <3>1, <3>2 DEF Ids
  <2>4. CASE t = "decks"
    <3> DEFINE N == StampAll(Newer(d.decks, s.decks, Dead(s)), u)
    <3>1. \A y \in N : y.mod \in Nat /\ \A z \in s.decks : z.id = y.id => z.mod < y.mod
      BY DEF StampAll, Newer, IsDelta, DeckRow
    <3>2. Merge(s, d, u).decks = {z \in s.decks : z.id \notin Ids(N)} \cup N
      BY DEF Merge, Put
    <3> HIDE DEF N
    <3>3. QED
      BY <1>2, <2>1, <2>4, <3>1, <3>2 DEF Ids
  <2>5. QED
    BY <2>2, <2>3, <2>4 DEF RowTables
<1>3. QED
  BY <1>1, <1>2 DEF KnownIn

\* ... and afterwards it knows every row of the upload.
LEMMA MergeLearns ==
  ASSUME NEW s \in Tables, NEW d, IsDelta(d), NEW u \in Nat,
         NEW t \in RowTables, NEW r \in d[t]
  PROVE  KnownIn(Merge(s, d, u), t, r)
<1>1. Dead(Merge(s, d, u)) = Dead(s)
  BY DEF Merge, Dead
<1>2. r.mod \in Nat
  BY DEF IsDelta, RowTables, CardRow, NoteRow, DeckRow
<1>3. CASE KnownIn(s, t, r)
  BY <1>2, <1>3, MergeKeeps
<1>4. CASE ~KnownIn(s, t, r)
  <2>1. \A x \in s[t] : x.id = r.id => x.mod < r.mod
    BY <1>2, <1>4 DEF KnownIn, Tables, RowTables, CardRow, NoteRow, DeckRow
  <2>2. r \in Newer(d[t], s[t], Dead(s))
    BY <1>4, <2>1 DEF Newer, KnownIn
  <2>3. \E y \in Merge(s, d, u)[t] : y.id = r.id /\ y.mod = r.mod
    <3>1. CASE t = "cards"
      <4> DEFINE a == [r EXCEPT !.did = IF @ \in Dead(s) THEN DefaultDeck ELSE @]
                 b == [a EXCEPT !.usn = u]
      <4>1. a \in AcceptedCards(s, d)
        BY <1>4, <2>2, <3>1 DEF AcceptedCards, KnownIn
      <4>2. b \in Merge(s, d, u).cards
        BY <4>1 DEF Merge, Put, StampAll
      <4>3. b.id = r.id /\ b.mod = r.mod
        BY <3>1 DEF IsDelta, CardRow
      <4>4. QED
        BY <4>2, <4>3, <3>1
    <3>2. CASE t \in {"notes", "decks"}
      <4> DEFINE b == [r EXCEPT !.usn = u]
      <4>1. b \in Merge(s, d, u)[t]
        <5>1. CASE t = "notes"
          BY <2>2, <5>1 DEF Merge, Put, StampAll
        <5>2. CASE t = "decks"
          BY <2>2, <5>2 DEF Merge, Put, StampAll
        <5>3. QED
          BY <3>2, <5>1, <5>2
      <4>2. b.id = r.id /\ b.mod = r.mod
        BY <3>2 DEF IsDelta, NoteRow, DeckRow
      <4>3. QED
        BY <4>1, <4>2
    <3>3. QED
      BY <3>1, <3>2 DEF RowTables
  <2>4. QED
    BY <1>2, <2>3 DEF KnownIn
<1>5. QED
  BY <1>3, <1>4

\* Deleting objects does not make the server forget a row either.
LEMMA BuryKeeps ==
  ASSUME NEW s \in Tables, NEW oids \in SUBSET Key, NEW u \in Nat,
         NEW t \in RowTables, NEW r, r.mod \in Nat, KnownIn(s, t, r)
  PROVE  KnownIn(Bury(s, oids, u), t, r)
<1> DEFINE new == [NoRows EXCEPT !.graves = {[oid |-> o, usn |-> u] : o \in oids \ Dead(s)}]
<1>1. Dead(Bury(s, oids, u)) = Dead(s) \cup oids
  BY BuryType
<1>2. Oids(new.graves) = oids \ Dead(s)
  BY OidsOfGraves DEF NoRows
<1>3. new.cards = {} /\ new.notes = {} /\ new.decks = {}
  BY DEF NoRows
<1> HIDE DEF new
<1>4. \A q \in RowTables : Bury(s, oids, u)[q] = ApplyChanges(s, new)[q]
  BY DEF Bury, new, RowTables, ApplyChanges
<1>5. ASSUME NEW x \in s[t], x.id = r.id, x.mod >= r.mod,
             r.id \notin oids, t = "cards" => NoteOf[r.id] \notin oids
      PROVE  \E y \in ApplyChanges(s, new)[t] : y.id = r.id /\ y.mod >= r.mod
  <2>1. CASE t = "cards"
    <3>1. Rehome(x, Oids(new.graves)) \in ApplyChanges(s, new).cards
      BY <1>2, <1>3, <1>5, <2>1 DEF ApplyChanges, Put, Ids, CardBuried
    <3>2. x \in CardRow
      BY <2>1 DEF Tables
    <3>3. Rehome(x, Oids(new.graves)).id = x.id /\ Rehome(x, Oids(new.graves)).mod = x.mod
      BY <3>2 DEF Rehome, CardRow
    <3>4. QED
      BY <1>5, <2>1, <3>1, <3>3
  <2>2. CASE t \in {"notes", "decks"}
    <3>1. x \in ApplyChanges(s, new)[t]
      BY <1>2, <1>3, <1>5, <2>2 DEF ApplyChanges, Put, Ids
    <3>2. QED
      BY <3>1, <1>5
  <2>3. QED
    BY <2>1, <2>2 DEF RowTables
<1>6. QED
  BY <1>1, <1>4, <1>5 DEF KnownIn

-----------------------------------------------------------------------------
(* Bounds on usns and times                                                 *)

LEMMA ApplyBounds ==
  ASSUME NEW c \in Tables, NEW d, IsDelta(d), NEW n \in Nat
  PROVE  /\ Numbered(c, n) /\ Numbered(d, n) => Numbered(ApplyChanges(c, d), n)
         /\ Dated(c, n) /\ Dated(d, n) => Dated(ApplyChanges(c, d), n)
<1>1. \A t \in RowTables : \A r \in ApplyChanges(c, d)[t] :
        \E x \in c[t] \cup d[t] : x.mod = r.mod /\ x.usn = r.usn
  BY ApplySource
<1>2. ApplyChanges(c, d).graves \subseteq c.graves
  BY ApplyGravesSource
<1> HIDE DEF ApplyChanges
<1>3. QED
  BY <1>1, <1>2 DEF Numbered, Dated

LEMMA MarkBounds ==
  ASSUME NEW c \in Tables, NEW u \in Usn, NEW n \in Nat, u <= n
  PROVE  Numbered(c, n) => Numbered(MarkSynced(c, u), n)
<1>1. \A t \in RowTables : \A r \in MarkSynced(c, u)[t] :
        \E x \in c[t] : r.usn \in {x.usn, u}
  BY MarkSource
<1>2. \A g \in MarkSynced(c, u).graves : \E x \in c.graves : g.usn \in {x.usn, u}
  BY MarkGraves
<1>3. QED
  BY <1>1, <1>2 DEF Numbered

LEMMA MergeBounds ==
  ASSUME NEW s \in Tables, NEW d, IsDelta(d), NEW u \in Nat, NEW n \in Nat
  PROVE  /\ Numbered(s, u) => Numbered(Merge(s, d, u), u)
         /\ Dated(s, n) /\ Dated(d, n) => Dated(Merge(s, d, u), n)
<1>1. ASSUME NEW t \in RowTables, NEW r \in Merge(s, d, u)[t]
      PROVE  r \in s[t] \/ (r.usn = u /\ \E x \in d[t] : x.mod = r.mod)
  <2>1. CASE t = "cards"
    BY <1>1, <2>1 DEF Merge, Put, StampAll, AcceptedCards, Newer, IsDelta, CardRow
  <2>2. CASE t = "notes"
    BY <1>1, <2>2 DEF Merge, Put, StampAll, Newer, IsDelta, NoteRow
  <2>3. CASE t = "decks"
    BY <1>1, <2>3 DEF Merge, Put, StampAll, Newer, IsDelta, DeckRow
  <2>4. QED
    BY <2>1, <2>2, <2>3 DEF RowTables
<1>2. Merge(s, d, u).graves = s.graves
  BY DEF Merge
<1> HIDE DEF Merge
<1>3. QED
  BY <1>1, <1>2 DEF Numbered, Dated

LEMMA BuryBounds ==
  ASSUME NEW s \in Tables, NEW oids \in SUBSET Key, NEW u \in Nat, NEW n \in Nat
  PROVE  /\ Numbered(s, u) => Numbered(Bury(s, oids, u), u)
         /\ Dated(s, n) => Dated(Bury(s, oids, u), n)
<1> DEFINE G == {[oid |-> o, usn |-> u] : o \in oids \ Dead(s)}
           new == [NoRows EXCEPT !.graves = G]
<1>1. new.cards = {} /\ new.notes = {} /\ new.decks = {} /\ new.graves = G
  BY DEF NoRows
<1>2. G \in SUBSET GraveRow /\ \A g \in G : g.usn = u
  BY DEF GraveRow, Usn
<1>3. IsDelta(new)
  BY <1>1, <1>2 DEF IsDelta
<1>4. Bury(s, oids, u) = [ApplyChanges(s, new) EXCEPT !.graves = s.graves \cup new.graves]
  BY DEF Bury
<1> HIDE DEF new, G
<1>5. Numbered(s, u) => Numbered(ApplyChanges(s, new), u)
  BY <1>1, <1>2, <1>3, ApplyBounds DEF Numbered, RowTables
<1>6. Dated(s, n) => Dated(ApplyChanges(s, new), n)
  BY <1>1, <1>3, ApplyBounds DEF Dated, RowTables
<1>7. ApplyChanges(s, new) \in Tables
  BY <1>3, ApplyType
<1>8. \A t \in RowTables : Bury(s, oids, u)[t] = ApplyChanges(s, new)[t]
  BY <1>4, <1>7 DEF Tables, RowTables
<1>9. Bury(s, oids, u).graves = s.graves \cup G
  BY <1>1, <1>4, <1>7 DEF Tables
<1>10. QED
  BY <1>2, <1>5, <1>6, <1>8, <1>9 DEF Numbered, Dated

-----------------------------------------------------------------------------
(* What any step of the server or of another device leaves true             *)

ServerGrows ==
  /\ srv' \in Tables /\ susn' \in Nat /\ susn <= susn'
  /\ clock' \in Nat /\ clock <= clock'
  /\ Numbered(srv', susn') /\ Dated(srv', clock')
  /\ Dead(srv) \subseteq Dead(srv')
  /\ \A t \in RowTables : \A r :
       r.mod \in Nat /\ r.mod <= clock /\ KnownIn(srv, t, r) => KnownIn(srv', t, r)

LEMMA NumberedMonotone ==
  ASSUME NEW c \in Tables, NEW m \in Nat, NEW n \in Nat, m <= n, Numbered(c, m)
  PROVE  Numbered(c, n)
BY DEF Numbered, Tables, RowTables, CardRow, NoteRow, DeckRow, GraveRow, Usn, Pending

LEMMA DatedMonotone ==
  ASSUME NEW d, IsDelta(d), NEW m \in Nat, NEW n \in Nat, m <= n, Dated(d, m)
  PROVE  Dated(d, n)
BY DEF Dated, IsDelta, RowTables, CardRow, NoteRow, DeckRow

\* Handling a request.
LEMMA HandleGrows ==
  ASSUME TypeOK, UsnBound, ModBound, UNCHANGED clock,
         NEW req \in Request, Dated(req.delta, clock), Handle(req)
  PROVE  ServerGrows
<1>1. IsDelta(req.delta) /\ Oids(req.delta.graves) \in SUBSET Key
  BY DEF Request, Delta, IsDelta, Oids, GraveRow
<1>2. srv \in Tables /\ susn \in Nat /\ clock \in Nat
  BY DEF TypeOK
<1>3. Numbered(srv, susn) /\ Dated(srv, clock) /\ Numbered(srv, susn + 1)
  BY <1>2, NumberedMonotone DEF UsnBound, ModBound
<1>4. CASE req.kind = "changes"
  <2> DEFINE next == Merge(srv, req.delta, susn + 1)
  <2>1. next \in Tables /\ Numbered(next, susn + 1) /\ Dated(next, clock)
    BY <1>1, <1>2, <1>3, MergeType, MergeBounds
  <2>2. \A t \in RowTables : \A r :
          r.mod \in Nat /\ KnownIn(srv, t, r) => KnownIn(next, t, r)
    BY <1>1, <1>2, MergeKeeps
  <2>3. Dead(next) = Dead(srv)
    BY DEF Merge, Dead
  <2>4. srv' = next /\ susn' = IF next = srv THEN susn ELSE susn + 1
    BY <1>4 DEF Handle
  <2> HIDE DEF next
  <2>5. QED
    BY <1>2, <1>3, <2>1, <2>2, <2>3, <2>4 DEF ServerGrows
<1>5. CASE req.kind # "changes"
  <2> DEFINE O == Oids(req.delta.graves)
           next == Bury(srv, O, susn + 1)
  <2>a. O \in SUBSET Key /\ susn + 1 \in Nat
    BY <1>1, <1>2
  <2> HIDE DEF O
  <2>b. next \in Tables
    BY <1>2, <2>a, BuryType
  <2>c. Numbered(next, susn + 1)
    BY <1>2, <1>3, <2>a, BuryBounds
  <2>d. Dated(next, clock)
    BY <1>2, <1>3, <2>a, BuryBounds
  <2>1. next \in Tables /\ Numbered(next, susn + 1) /\ Dated(next, clock)
    BY <2>b, <2>c, <2>d
  <2>2. \A t \in RowTables : \A r :
          r.mod \in Nat /\ KnownIn(srv, t, r) => KnownIn(next, t, r)
    BY <1>2, <2>a, BuryKeeps
  <2>3. Dead(srv) \subseteq Dead(next)
    BY <1>2, <2>a, BuryType
  <2>4. srv' = next /\ susn' = IF next = srv THEN susn ELSE susn + 1
    BY <1>5 DEF Handle, O
  <2> HIDE DEF next
  <2>5. QED
    BY <1>2, <1>3, <2>1, <2>2, <2>3, <2>4 DEF ServerGrows
<1>6. QED
  BY <1>4, <1>5

\* Replacing rows without burying any touches nothing else.
LEMMA EditRows ==
  ASSUME NEW c \in Tables, NEW d, IsDelta(d), d.graves = {}
  PROVE  /\ \A t \in RowTables : ApplyChanges(c, d)[t] = Put(c[t], d[t])
         /\ ApplyChanges(c, d).graves = c.graves
<1>1. Oids(d.graves) = {}
  BY DEF Oids
<1>2. \A x : Rehome(x, {}) = x
  BY DEF Rehome
<1>3. ApplyChanges(c, d).cards = Put(c.cards, d.cards)
  BY <1>1, <1>2 DEF ApplyChanges, CardBuried
<1>4. ApplyChanges(c, d).notes = Put(c.notes, d.notes)
  BY <1>1 DEF ApplyChanges
<1>5. ApplyChanges(c, d).decks = Put(c.decks, d.decks)
  BY <1>1 DEF ApplyChanges
<1>6. ApplyChanges(c, d).graves = c.graves
  BY <1>1 DEF ApplyChanges
<1>7. QED
  BY <1>3, <1>4, <1>5, <1>6 DEF RowTables

\* The rows of an edit: well-typed, of the time and with the usn given.
IsEdit(d, m, u) ==
  /\ IsDelta(d) /\ d.graves = {}
  /\ \A t \in RowTables : \A r \in d[t] : r.mod = m /\ r.usn = u

LEMMA NewNoteIsEdit ==
  ASSUME TypeOK, NEW n \in Notes, NEW d \in Decks, NEW u \in Usn
  PROVE  IsEdit(NewNote(n, d, u), clock + 1, u)
<1>1. clock + 1 \in Nat
  BY DEF TypeOK
<1>2. NewNote(n, d, u).graves = {} /\ NewNote(n, d, u).decks = {}
  BY DEF NewNote, NoRows
<1>3. NewNote(n, d, u).notes = {[id |-> n, mod |-> clock + 1, usn |-> u]}
  BY DEF NewNote, NoRows
<1>4. NewNote(n, d, u).cards =
        {[id |-> c, did |-> d, mod |-> clock + 1, usn |-> u] : c \in {k \in Cards : NoteOf[k] = n}}
  BY DEF NewNote, NoRows
<1>5. QED
  BY <1>1, <1>2, <1>3, <1>4 DEF IsEdit, IsDelta, RowTables, CardRow, NoteRow

\* An edit made on another device.
LEMMA RemoteEditGrows ==
  ASSUME TypeOK, UsnBound, ModBound, RemoteEdit
  PROVE  ServerGrows
<1>0. /\ srv \in Tables /\ susn \in Nat /\ clock \in Nat /\ susn + 1 \in Usn
      /\ susn + 1 \in Nat /\ clock + 1 \in Nat
      /\ susn' = susn + 1 /\ clock' = clock + 1
  BY DEF TypeOK, RemoteEdit, Usn
<1>1. PICK d \in RemoteNotes \cup RemoteCards \cup RemoteDecks : srv' = ApplyChanges(srv, d)
  BY DEF RemoteEdit
<1>2. IsEdit(d, clock + 1, susn + 1)
  <2>1. Ids(srv.decks) \subseteq Decks
    BY <1>0 DEF Ids, Tables, DeckRow
  <2>2. CASE d \in RemoteNotes
    <3>1. PICK n \in Notes, k \in Ids(srv.decks) : d = NewNote(n, k, susn + 1)
      BY <2>2 DEF RemoteNotes
    <3>2. QED
      BY <1>0, <2>1, <3>1, NewNoteIsEdit
  <2>3. CASE d \in RemoteCards
    <3>1. PICK r \in srv.cards, k \in Ids(srv.decks) : d = RemoteCard(r, k)
      BY <2>3 DEF RemoteCards
    <3>2. r \in CardRow /\ k \in Decks
      BY <1>0, <2>1 DEF Tables
    <3> DEFINE row == [r EXCEPT !.mod = clock + 1, !.usn = susn + 1, !.did = k]
    <3>3. row \in CardRow /\ row.mod = clock + 1 /\ row.usn = susn + 1
      BY <1>0, <3>2 DEF CardRow
    <3>4. d.cards = {row} /\ d.notes = {} /\ d.decks = {} /\ d.graves = {}
      BY <3>1 DEF NoRows, RemoteCard
    <3> HIDE DEF row
    <3>5. QED
      BY <3>3, <3>4 DEF IsEdit, IsDelta, RowTables
  <2>4. CASE d \in RemoteDecks
    <3>1. PICK k \in Decks :
            d = [NoRows EXCEPT !.decks = {[id |-> k, mod |-> clock + 1, usn |-> susn + 1]}]
      BY <2>1, <2>4 DEF RemoteDecks
    <3>2. QED
      BY <1>0, <3>1 DEF IsEdit, IsDelta, NoRows, RowTables, DeckRow
  <2>5. QED
    BY <2>2, <2>3, <2>4
<1>3. srv' \in Tables
  BY <1>0, <1>1, <1>2, ApplyType DEF IsEdit
<1>4. Numbered(srv', susn')
  <2>1. Numbered(srv, susn + 1)
    BY <1>0, NumberedMonotone DEF UsnBound
  <2>2. Numbered(d, susn + 1)
    BY <1>0, <1>2 DEF IsEdit, Numbered
  <2>3. QED
    BY <1>0, <1>1, <1>2, <2>1, <2>2, ApplyBounds DEF IsEdit
<1>5. Dated(srv', clock')
  <2>1. Dated(srv, clock + 1)
    BY <1>0, DatedMonotone DEF ModBound, IsDelta, Tables
  <2>2. Dated(d, clock + 1)
    BY <1>0, <1>2 DEF IsEdit, Dated
  <2>3. QED
    BY <1>0, <1>1, <1>2, <2>1, <2>2, ApplyBounds DEF IsEdit
<1>6. /\ \A t \in RowTables : srv'[t] = Put(srv[t], d[t])
      /\ srv'.graves = srv.graves
  BY <1>0, <1>1, <1>2, EditRows DEF IsEdit
<1>7. Dead(srv') = Dead(srv)
  BY <1>6 DEF Dead
<1>8. ASSUME NEW t \in RowTables, NEW r, r.mod \in Nat, r.mod <= clock, KnownIn(srv, t, r)
      PROVE  KnownIn(srv', t, r)
  <2>1. ASSUME NEW x \in srv[t], x.id = r.id, x.mod >= r.mod
        PROVE  \E y \in srv'[t] : y.id = r.id /\ y.mod >= r.mod
    <3>1. CASE x.id \in Ids(d[t])
      <4>1. PICK y \in d[t] : y.id = x.id
        BY <3>1 DEF Ids
      <4>2. y.mod = clock + 1
        BY <1>2 DEF IsEdit
      <4>3. y \in srv'[t]
        BY <1>6 DEF Put
      <4>4. QED
        BY <1>0, <1>8, <2>1, <4>1, <4>2, <4>3
    <3>2. CASE x.id \notin Ids(d[t])
      BY <1>6, <2>1, <3>2 DEF Put
    <3>3. QED
      BY <3>1, <3>2
  <2>2. QED
    BY <1>7, <1>8, <2>1 DEF KnownIn
<1>9. QED
  BY <1>0, <1>3, <1>4, <1>5, <1>7, <1>8 DEF ServerGrows

\* A deletion made on another device.
LEMMA RemoteDeleteGrows ==
  ASSUME TypeOK, UsnBound, ModBound, RemoteDelete
  PROVE  ServerGrows
<1>1. /\ srv \in Tables /\ susn \in Nat /\ clock \in Nat
      /\ susn + 1 \in Nat /\ clock + 1 \in Nat
      /\ susn' = susn + 1 /\ clock' = clock + 1
  BY DEF TypeOK, RemoteDelete
<1>2. PICK o \in Ids(srv.cards) \cup Ids(srv.notes) \cup Ids(srv.decks) :
        srv' = Bury(srv, {o}, susn + 1)
  BY DEF RemoteDelete
<1>3. {o} \in SUBSET Key
  BY <1>1, <1>2 DEF Ids, Tables, CardRow, NoteRow, DeckRow, Key
<1>4. Numbered(srv, susn + 1) /\ Dated(srv, clock + 1)
  BY <1>1, NumberedMonotone, DatedMonotone DEF UsnBound, ModBound, IsDelta, Tables
<1>5. srv' \in Tables /\ Dead(srv) \subseteq Dead(srv')
  BY <1>1, <1>2, <1>3, BuryType
<1>6. Numbered(srv', susn') /\ Dated(srv', clock')
  BY <1>1, <1>2, <1>3, <1>4, BuryBounds
<1>7. \A t \in RowTables : \A r :
        r.mod \in Nat /\ KnownIn(srv, t, r) => KnownIn(srv', t, r)
  BY <1>1, <1>2, <1>3, BuryKeeps
<1>8. QED
  BY <1>1, <1>5, <1>6, <1>7 DEF ServerGrows

-----------------------------------------------------------------------------
(* Types and bounds, action by action: they hold whoever writes             *)

BInv == TypeOK /\ UsnBound /\ ModBound

\* Bounds on what the client holds survive every step of the server.
LEMMA BoundsStay ==
  ASSUME TypeOK, UsnBound, ModBound, ServerGrows
  PROVE  /\ Numbered(col, susn') /\ Numbered(remote, susn')
         /\ since <= susn' /\ local.usn <= susn' /\ remote.usn <= susn'
         /\ lastUSN <= susn' /\ session <= susn'
         /\ Dated(col, clock') /\ Dated(local, clock') /\ Dated(remote, clock')
         /\ \A q \in late : Dated(q.delta, clock')
<1>1. /\ susn \in Nat /\ susn' \in Nat /\ susn <= susn'
      /\ clock \in Nat /\ clock' \in Nat /\ clock <= clock'
  BY DEF TypeOK, ServerGrows
<1>2. Numbered(col, susn')
  BY <1>1, NumberedMonotone DEF TypeOK, UsnBound
<1>3. Numbered(remote, susn')
  BY <1>1 DEF UsnBound, Numbered, TypeOK, Delta, RowTables, CardRow, NoteRow,
              DeckRow, GraveRow, Usn, Pending
<1>4. /\ since <= susn' /\ local.usn <= susn' /\ remote.usn <= susn'
      /\ lastUSN <= susn' /\ session <= susn'
  BY <1>1 DEF UsnBound, TypeOK, Delta, Usn, Pending
<1>5. IsDelta(col) /\ IsDelta(local) /\ IsDelta(remote) /\ \A q \in late : IsDelta(q.delta)
  BY DEF TypeOK, Tables, Delta, IsDelta, Request
<1>6. Dated(col, clock') /\ Dated(local, clock') /\ Dated(remote, clock')
  BY <1>1, <1>5, DatedMonotone DEF ModBound
<1>7. \A q \in late : Dated(q.delta, clock')
  BY <1>1, <1>5, DatedMonotone DEF ModBound
<1>8. QED
  BY <1>2, <1>3, <1>4, <1>6, <1>7

\* Steps of the server leave the client alone.
LEMMA BoundsOther ==
  ASSUME BInv, ServerGrows, UNCHANGED <<col, clientVars, session, failures>>,
         late' \subseteq late
  PROVE  BInv'
<1> USE DEF clientVars
<1>1. TypeOK'
  BY DEF BInv, TypeOK, ServerGrows
<1>2. UsnBound' /\ ModBound'
  BY BoundsStay DEF BInv, UsnBound, ModBound, ServerGrows
<1>3. QED
  BY <1>1, <1>2 DEF BInv

\* A request handled now or later.
LEMMA ServerLateGrows ==
  ASSUME BInv, ServerLate
  PROVE  ServerGrows
<1>1. PICK req \in late : Handle(req)
  BY DEF ServerLate
<1>2. req \in Request /\ Dated(req.delta, clock)
  BY DEF BInv, TypeOK, ModBound
<1>3. UNCHANGED clock
  BY DEF ServerLate
<1>4. QED
  BY <1>1, <1>2, <1>3, HandleGrows DEF BInv

LEMMA RemoteGrows ==
  ASSUME BInv, Remote
  PROVE  /\ ServerGrows /\ UNCHANGED <<col, clientVars, session, failures>>
         /\ late' \subseteq late
<1>1. CASE RemoteEdit
  BY <1>1, RemoteEditGrows DEF BInv, RemoteEdit
<1>2. CASE RemoteDelete
  BY <1>2, RemoteDeleteGrows DEF BInv, RemoteDelete
<1>3. CASE ServerLate
  BY <1>3, ServerLateGrows DEF ServerLate
<1>4. QED
  BY <1>1, <1>2, <1>3 DEF Remote

\* What an edit of the collection does: rows and graves written now, pending.
Written ==
  /\ UNCHANGED <<clientVars, serverVars, failures>>
  /\ clock' = clock + 1 /\ col' \in Tables
  /\ \A t \in RowTables : \A r \in col'[t] :
       r \in col[t] \/ (r.usn = Pending /\ r.mod = clock + 1)
  /\ \A g \in col'.graves : g \in col.graves \/ g.usn = Pending

LEMMA WriteWritten ==
  ASSUME TypeOK, NEW d, IsEdit(d, clock + 1, Pending), WriteLocal(d)
  PROVE  Written
<1>1. col \in Tables /\ col' = ApplyChanges(col, d)
  BY DEF TypeOK, WriteLocal
<1>2. col' \in Tables
  BY <1>1, ApplyType DEF IsEdit
<1>3. /\ \A t \in RowTables : col'[t] = Put(col[t], d[t])
      /\ col'.graves = col.graves
  BY <1>1, EditRows DEF IsEdit
<1>4. \A t \in RowTables : \A r \in col'[t] :
        r \in col[t] \/ (r.usn = Pending /\ r.mod = clock + 1)
  BY <1>3 DEF Put, IsEdit
<1>5. UNCHANGED <<clientVars, serverVars, failures>> /\ clock' = clock + 1
  BY DEF WriteLocal
<1>6. QED
  BY <1>2, <1>3, <1>4, <1>5 DEF Written

LEMMA EditWritten ==
  ASSUME TypeOK, Edit
  PROVE  Written
<1>1. /\ TypeOK /\ col \in Tables /\ clock \in Nat /\ clock + 1 \in Nat
      /\ Pending \in Usn
  BY DEF TypeOK, Usn
<1>2. CASE AnswerCard
  <2>1. PICK r \in col.cards :
          WriteLocal([NoRows EXCEPT !.cards = {[r EXCEPT !.mod = clock + 1, !.usn = Pending]}])
    BY <1>2 DEF AnswerCard
  <2> DEFINE row == [r EXCEPT !.mod = clock + 1, !.usn = Pending]
             d == [NoRows EXCEPT !.cards = {row}]
  <2>2. row \in CardRow /\ row.mod = clock + 1 /\ row.usn = Pending
    BY <1>1 DEF Tables, CardRow
  <2>3. d.cards = {row} /\ d.notes = {} /\ d.decks = {} /\ d.graves = {}
    BY DEF NoRows
  <2>4. WriteLocal(d)
    BY <2>1
  <2> HIDE DEF row, d
  <2>5. IsEdit(d, clock + 1, Pending)
    BY <2>2, <2>3 DEF IsEdit, IsDelta, RowTables
  <2>6. QED
    BY <2>4, <2>5, WriteWritten
<1>3. CASE AddNote
  <2>1. PICK n \in Notes, k \in Ids(col.decks) : WriteLocal(NewNote(n, k, Pending))
    BY <1>3 DEF AddNote
  <2>2. k \in Decks
    BY <1>1 DEF Ids, Tables, DeckRow
  <2>3. QED
    BY <1>1, <2>1, <2>2, NewNoteIsEdit, WriteWritten
<1>4. CASE CreateDeck
  <2>1. PICK k \in Decks :
          WriteLocal([NoRows EXCEPT !.decks = {[id |-> k, mod |-> clock + 1, usn |-> Pending]}])
    BY <1>4 DEF CreateDeck
  <2> DEFINE d == [NoRows EXCEPT !.decks = {[id |-> k, mod |-> clock + 1, usn |-> Pending]}]
  <2>2. IsEdit(d, clock + 1, Pending)
    BY <1>1 DEF IsEdit, IsDelta, NoRows, RowTables, DeckRow
  <2>3. QED
    BY <2>1, <2>2, WriteWritten
<1>5. CASE DeleteObject
  <2>1. PICK o \in Ids(col.cards) \cup Ids(col.notes) \cup Ids(col.decks) :
          col' = AddGrave(col, o)
    BY <1>5 DEF DeleteObject
  <2>2. o \in Key
    BY <1>1, <2>1 DEF Ids, Tables, CardRow, NoteRow, DeckRow, Key
  <2>3. /\ col'.cards = col.cards /\ col'.notes = col.notes /\ col'.decks = col.decks
        /\ col'.graves = col.graves \cup {[oid |-> o, usn |-> Pending]}
        /\ col' \in Tables
    BY <1>1, <2>1, <2>2 DEF AddGrave, Tables, GraveRow
  <2>4. UNCHANGED <<clientVars, serverVars, failures>> /\ clock' = clock + 1
    BY <1>5 DEF DeleteObject
  <2>5. QED
    BY <2>3, <2>4 DEF Written, RowTables
<1>6. QED
  BY <1>2, <1>3, <1>4, <1>5 DEF Edit

LEMMA BoundsEdit ==
  ASSUME BInv, Edit
  PROVE  BInv'
<1> USE DEF clientVars, serverVars
<1>1. Written
  BY EditWritten DEF BInv
<1>2. TypeOK'
  BY <1>1 DEF Written, BInv, TypeOK
<1>3. ServerGrows
  <2>1. Dated(srv, clock + 1)
    BY DatedMonotone DEF BInv, TypeOK, ModBound, Tables, IsDelta
  <2>2. QED
    BY <1>1, <2>1 DEF Written, ServerGrows, BInv, TypeOK, UsnBound
<1>4. UsnBound'
  BY <1>1, <1>3, BoundsStay DEF Written, BInv, TypeOK, UsnBound, Numbered, Pending
<1>5. ModBound'
  BY <1>1, <1>3, BoundsStay DEF Written, BInv, TypeOK, ModBound, Dated, ServerGrows
<1>6. QED
  BY <1>2, <1>4, <1>5 DEF BInv

\* The calls of FullSync that neither write the collection nor talk to the server.
LEMMA BoundsSyncStart ==
  ASSUME BInv, SyncStart
  PROVE  BInv'
BY DEF SyncStart, BInv, TypeOK, PC, UsnBound, ModBound

LEMMA BoundsGetSyncState ==
  ASSUME BInv, GetSyncState
  PROVE  BInv'
<1> USE DEF GetSyncState, serverVars
<1>1. since' \in Usn /\ since' <= susn
  BY MaxUSNType DEF BInv, TypeOK, UsnBound
<1>2. QED
  BY <1>1 DEF BInv, TypeOK, PC, Query, UsnBound, ModBound

\* What one query adds to localDelta.
Queries ==
  /\ local' \in Delta
  /\ local'[pc] = ChangedSince(col[pc], since)
  /\ \A t \in Query \ {pc} : local'[t] = local[t]
  /\ local'.usn = local.usn
  /\ pc' \in PC /\ (pc' = "usn" \/ pc' \in Query)

LEMMA QueryAdds ==
  ASSUME TypeOK, GetChangesQuery
  PROVE  Queries
<1>1. pc \in Query /\ local' = [local EXCEPT ![pc] = ChangedSince(col[pc], since)]
  BY DEF GetChangesQuery
<1>2. local \in Delta /\ col \in Tables
  BY DEF TypeOK
<1>3. ChangedSince(col[pc], since) \subseteq col[pc]
  BY DEF ChangedSince
<1>4. local' \in Delta
  BY <1>1, <1>2, <1>3 DEF Query, Delta, Tables
<1>5. /\ local'[pc] = ChangedSince(col[pc], since)
      /\ \A t \in Query \ {pc} : local'[t] = local[t]
      /\ local'.usn = local.usn
  BY <1>1, <1>2 DEF Query, Delta
<1>6. pc' \in PC /\ (pc' = "usn" \/ pc' \in Query)
  BY <1>1 DEF GetChangesQuery, Query, NextQuery, PC
<1>7. QED
  BY <1>4, <1>5, <1>6 DEF Queries

LEMMA BoundsGetChangesQuery ==
  ASSUME BInv, GetChangesQuery
  PROVE  BInv'
<1> USE DEF GetChangesQuery, serverVars
<1>1. Queries
  BY QueryAdds DEF BInv
<1>2. TypeOK' /\ UsnBound'
  BY <1>1 DEF Queries, BInv, TypeOK, UsnBound
<1>3. ModBound'
  BY <1>1 DEF Queries, ChangedSince, BInv, ModBound, Dated, RowTables, Query
<1>4. QED
  BY <1>2, <1>3 DEF BInv

\* The usn that ends GetChanges.
LEMMA UsnEnds ==
  ASSUME BInv, GetChangesUSN
  PROVE  /\ local' \in Delta /\ local'.usn = maxUSN(col) /\ local'.usn <= susn
         /\ \A t \in Query : local'[t] = local[t]
<1> USE DEF GetChangesUSN, serverVars
<1>1. maxUSN(col) \in Usn /\ maxUSN(col) <= susn
  BY MaxUSNType DEF BInv, TypeOK, UsnBound
<1> HIDE DEF maxUSN
<1>2. QED
  BY <1>1 DEF BInv, TypeOK, Delta, Query

LEMMA BoundsGetChangesUSN ==
  ASSUME BInv, GetChangesUSN
  PROVE  BInv'
<1>1. /\ local' \in Delta /\ local'.usn <= susn
      /\ \A t \in Query : local'[t] = local[t]
  BY UsnEnds
<1> USE DEF GetChangesUSN, serverVars
<1>2. TypeOK' /\ UsnBound'
  BY <1>1 DEF BInv, TypeOK, PC, UsnBound
<1>3. ModBound'
  BY <1>1 DEF BInv, ModBound, Dated, RowTables, Query
<1>4. QED
  BY <1>2, <1>3 DEF BInv

\* The end of a synchronisation, and a failure at any call.
LEMMA BoundsForget ==
  ASSUME BInv, Forget, pc' = "idle", UNCHANGED <<col, srv, susn, session, clock>>,
         failures' \in Nat, late' \subseteq Request,
         \A q \in late' : Dated(q.delta, clock)
  PROVE  BInv'
<1>1. NoDelta \in Delta /\ \A t \in Query : NoDelta[t] = {}
  BY DEF NoDelta, Delta, Usn, Query
<1>2. Numbered(NoDelta, susn) /\ Dated(NoDelta, clock) /\ NoDelta.usn = 0
  BY <1>1 DEF Numbered, Dated, RowTables, Query, NoDelta
<1>3. TypeOK'
  BY <1>1 DEF BInv, TypeOK, PC, Forget, Usn, Pending, Unset
<1>4. UsnBound' /\ ModBound'
  BY <1>2 DEF BInv, TypeOK, UsnBound, ModBound, Forget, Unset
<1>5. QED
  BY <1>3, <1>4 DEF BInv

LEMMA FailLeaves ==
  ASSUME BInv, Fail
  PROVE  /\ Forget /\ pc' = "idle" /\ UNCHANGED <<col, srv, susn, session, clock>>
         /\ failures' \in Nat /\ late' \subseteq Request
         /\ \A q \in late' : Dated(q.delta, clock)
<1>1. Forget /\ pc' = "idle" /\ UNCHANGED <<col, srv, susn, session, clock>>
  BY DEF Fail
<1>2. failures' \in Nat
  BY DEF Fail, BInv, TypeOK
<1>3. \A q \in late' : q \in late \/ (q.kind \in {"changes", "graves"} /\ q.delta = local)
  BY DEF Fail
<1>4. \A k \in {"changes", "graves"} : [kind |-> k, delta |-> local] \in Request
  BY DEF BInv, TypeOK, Request
<1>5. late' \subseteq late \cup {[kind |-> k, delta |-> local] : k \in {"changes", "graves"}}
  BY DEF Fail
<1>6. late' \subseteq Request
  BY <1>4, <1>5 DEF BInv, TypeOK
<1>7. \A q \in late' : Dated(q.delta, clock)
  BY <1>3 DEF BInv, ModBound
<1>8. QED
  BY <1>1, <1>2, <1>6, <1>7

LEMMA FinishLeaves ==
  ASSUME BInv, SyncFinish
  PROVE  /\ Forget /\ pc' = "idle" /\ UNCHANGED <<col, srv, susn, session, clock>>
         /\ failures' \in Nat /\ late' \subseteq Request
         /\ \A q \in late' : Dated(q.delta, clock)
BY DEF SyncFinish, serverVars, BInv, TypeOK, ModBound

\* The upload, answered with a page.
LEMMA BoundsApplyChangesCall ==
  ASSUME BInv, ApplyChangesCall
  PROVE  BInv' /\ ServerGrows /\ \A t \in RowTables : remote'[t] \subseteq srv'[t]
<1> DEFINE req == [kind |-> "changes", delta |-> local]
<1>1. /\ pc = "upload" /\ pc' = "bury" /\ Handle(req)
      /\ UNCHANGED <<col, since, local, late, clock, failures>>
      /\ lastUSN' = IF lastUSN = Unset THEN local.usn ELSE lastUSN
  BY DEF ApplyChangesCall
<1>2. /\ TypeOK /\ UsnBound /\ ModBound /\ local \in Delta /\ IsDelta(local)
      /\ srv \in Tables /\ susn \in Nat /\ session \in Nat /\ clock \in Nat
      /\ Dated(local, clock)
  BY DEF BInv, TypeOK, ModBound, Delta, IsDelta
<1>3. req \in Request /\ req.delta = local /\ req.kind = "changes"
  BY <1>2 DEF Request
<1>4. ServerGrows
  <2>1. Dated(req.delta, clock)
    BY <1>2, <1>3
  <2> HIDE DEF req
  <2>2. UNCHANGED clock
    BY <1>1
  <2>3. QED
    BY <1>1, <1>2, <1>3, <2>1, <2>2, HandleGrows
<1>5. srv' = Merge(srv, local, susn + 1)
  BY <1>1, <1>3 DEF Handle
<1>6. PICK hi \in {susn} \cup (Higher(local.usn, session) + 1 .. susn) :
        LET more == hi < susn
            usn  == IF more THEN hi ELSE susn'
        IN  /\ remote' = Page(srv', Higher(local.usn, session), hi, usn, more)
            /\ session' = usn
  BY DEF ApplyChangesCall
<1> DEFINE lo == Higher(local.usn, session)
           usn == IF hi < susn THEN hi ELSE susn'
<1>7. lo \in Int /\ session <= lo
  BY <1>2 DEF Higher, Delta, Usn, Pending
<1>8. hi \in Nat /\ hi <= susn
  BY <1>2, <1>6, <1>7
<1>9. usn \in Nat /\ usn <= susn'
  BY <1>2, <1>4, <1>8 DEF ServerGrows
<1>10. /\ remote'.cards \subseteq srv'.cards /\ remote'.notes \subseteq srv'.notes
       /\ remote'.decks \subseteq srv'.decks /\ remote'.graves \subseteq srv'.graves
       /\ remote'.usn = usn /\ session' = usn
  BY <1>6 DEF Page, Within
<1>11. remote' \in Delta
  <2>1. /\ Within(srv'.cards, lo, hi) \in SUBSET CardRow
        /\ Within(srv'.notes, lo, hi) \in SUBSET NoteRow
        /\ Within(srv'.decks, lo, hi) \in SUBSET DeckRow
        /\ Within(srv'.graves, lo, hi) \in SUBSET GraveRow
    BY <1>4 DEF ServerGrows, Tables, Within
  <2>2. usn \in Usn
    BY <1>9 DEF Usn
  <2>3. remote' = [cards |-> Within(srv'.cards, lo, hi), notes |-> Within(srv'.notes, lo, hi),
                   decks |-> Within(srv'.decks, lo, hi), graves |-> Within(srv'.graves, lo, hi),
                   usn |-> usn, more |-> hi < susn]
    BY <1>6 DEF Page
  <2> HIDE DEF usn, lo
  <2>4. QED
    BY <2>1, <2>2, <2>3 DEF Delta
<1>12. lastUSN' \in Usn /\ lastUSN' <= susn
  BY <1>1, <1>2 DEF TypeOK, UsnBound, Delta
<1> HIDE DEF usn, lo, req
<1>13. TypeOK'
  BY <1>1, <1>2, <1>4, <1>9, <1>10, <1>11, <1>12 DEF TypeOK, PC, ServerGrows
<1>14. Numbered(remote', susn') /\ Dated(remote', clock')
  BY <1>4, <1>10 DEF ServerGrows, Numbered, Dated, RowTables
<1>15. UsnBound'
  <2>1. /\ Numbered(col, susn') /\ since <= susn' /\ local.usn <= susn'
    BY <1>2, <1>4, BoundsStay
  <2>2. lastUSN' <= susn'
    BY <1>2, <1>4, <1>12 DEF ServerGrows, Usn, Pending
  <2>3. QED
    BY <1>1, <1>4, <1>9, <1>10, <1>14, <2>1, <2>2 DEF UsnBound, ServerGrows
<1>16. ModBound'
  BY <1>1, <1>2, <1>4, <1>14, BoundsStay DEF ModBound, ServerGrows
<1>17. QED
  BY <1>4, <1>10, <1>13, <1>15, <1>16 DEF BInv, RowTables

\* The list of graves.
LEMMA BoundsApplyGravesCall ==
  ASSUME BInv, ApplyGravesCall
  PROVE  BInv' /\ ServerGrows /\ Oids(local.graves) \subseteq Dead(srv')
<1> DEFINE req == [kind |-> "graves", delta |-> local]
<1>1. /\ pc = "bury" /\ pc' = "apply"
      /\ UNCHANGED <<col, since, local, remote, lastUSN, session, late, clock, failures>>
  BY DEF ApplyGravesCall
<1>2. /\ TypeOK /\ UsnBound /\ ModBound /\ local \in Delta
      /\ srv \in Tables /\ susn \in Nat /\ clock \in Nat /\ Dated(local, clock)
  BY DEF BInv, TypeOK, ModBound
<1>3. req \in Request /\ req.delta = local /\ req.kind = "graves"
  BY <1>2 DEF Request
<1>4. ASSUME SendsGraves PROVE ServerGrows /\ Oids(local.graves) \subseteq Dead(srv')
  <2>1. Handle(req)
    BY <1>4 DEF ApplyGravesCall
  <2>2. srv' = Bury(srv, Oids(local.graves), susn + 1)
    BY <1>3, <2>1 DEF Handle
  <2> HIDE DEF req
  <2>3. ServerGrows
    BY <1>1, <1>2, <1>3, <2>1, HandleGrows
  <2> DEFINE O == Oids(local.graves)
  <2>4. O \in SUBSET Key /\ susn + 1 \in Nat
    BY <1>2 DEF Oids, Delta, GraveRow
  <2> HIDE DEF O
  <2>5. Dead(srv') = Dead(srv) \cup O
    BY <1>2, <2>2, <2>4, BuryType DEF O
  <2>6. Oids(local.graves) \subseteq Dead(srv')
    BY <2>5 DEF O
  <2>7. QED
    BY <2>3, <2>6
<1>5. ASSUME ~SendsGraves PROVE ServerGrows /\ Oids(local.graves) \subseteq Dead(srv')
  <2>1. srv' = srv /\ susn' = susn /\ clock' = clock
    BY <1>1, <1>5 DEF ApplyGravesCall
  <2>2. ServerGrows
    BY <1>2, <2>1 DEF ServerGrows, UsnBound, ModBound
  <2>3. Oids(local.graves) = {}
    BY <1>5 DEF SendsGraves, Oids
  <2>4. QED
    BY <2>2, <2>3
<1>6. ServerGrows /\ Oids(local.graves) \subseteq Dead(srv')
  BY <1>4, <1>5
<1> HIDE DEF req
<1>7. TypeOK'
  BY <1>1, <1>2, <1>6 DEF TypeOK, PC, ServerGrows
<1>8. UsnBound' /\ ModBound'
  BY <1>1, <1>2, <1>6, BoundsStay DEF UsnBound, ModBound, ServerGrows
<1>9. QED
  BY <1>6, <1>7, <1>8 DEF BInv

\* What applying a page makes of the collection.
LEMMA BoundsApplyRemote ==
  ASSUME BInv, ApplyRemote
  PROVE  /\ BInv'
         /\ \A t \in RowTables : \A r \in col'[t] :
              \E x \in col[t] \cup remote[t] : x.id = r.id /\ x.mod = r.mod /\ x.usn = r.usn
         /\ col'.graves \subseteq col.graves
<1>1. /\ pc = "apply" /\ pc' \in {"cards", "mark"}
      /\ col' = IF HasRows(remote) THEN ApplyChanges(col, remote) ELSE col
      /\ lastUSN' = Higher(remote.usn, lastUSN)
      /\ since' \in {since, lastUSN'} /\ local' \in {local, NoDelta}
      /\ UNCHANGED <<remote, serverVars, clock, failures>>
  BY DEF ApplyRemote
<1>2. col \in Tables /\ IsDelta(remote) /\ susn \in Nat /\ clock \in Nat
  BY DEF BInv, TypeOK, Delta, IsDelta
<1>3. col' \in Tables
  BY <1>1, <1>2, ApplyType
<1>4. \A t \in RowTables : \A r \in col'[t] :
        \E x \in col[t] \cup remote[t] : x.id = r.id /\ x.mod = r.mod /\ x.usn = r.usn
  BY <1>1, <1>2, ApplySource
<1>5. col'.graves \subseteq col.graves
  BY <1>1, ApplyGravesSource
<1>6. Numbered(col', susn) /\ Dated(col', clock)
  BY <1>1, <1>2, ApplyBounds DEF BInv, UsnBound, ModBound
<1>7. lastUSN' \in Usn /\ lastUSN' <= susn
  BY <1>1 DEF BInv, TypeOK, UsnBound, Delta, Higher
<1>8. NoDelta \in Delta /\ NoDelta.usn = 0 /\ \A t \in RowTables : NoDelta[t] = {}
  BY DEF NoDelta, Delta, Usn, RowTables
<1>9. TypeOK'
  BY <1>1, <1>3, <1>7, <1>8 DEF BInv, TypeOK, PC, Query, serverVars
<1>10. UsnBound'
  BY <1>1, <1>2, <1>6, <1>7, <1>8 DEF BInv, UsnBound, serverVars
<1>11. ModBound'
  BY <1>1, <1>6, <1>8 DEF BInv, ModBound, Dated, serverVars
<1>12. QED
  BY <1>4, <1>5, <1>9, <1>10, <1>11 DEF BInv

LEMMA BoundsMarkSynced ==
  ASSUME BInv, MarkSyncedStep
  PROVE  BInv'
<1>1. /\ pc = "mark" /\ pc' = "finish"
      /\ col' = IF lastUSN > 0 THEN MarkSynced(col, lastUSN) ELSE col
      /\ UNCHANGED <<since, local, remote, lastUSN, serverVars, clock, failures>>
  BY DEF MarkSyncedStep
<1>2. /\ col \in Tables /\ lastUSN \in Usn /\ lastUSN <= susn /\ susn \in Nat
      /\ clock \in Nat
  BY DEF BInv, TypeOK, UsnBound
<1>3. col' \in Tables
  BY <1>1, <1>2, MarkType
<1>4. Numbered(col', susn) /\ Dated(col', clock)
  <2>1. Numbered(col, susn) /\ Dated(col, clock)
    BY DEF BInv, UsnBound, ModBound
  <2>2. Numbered(MarkSynced(col, lastUSN), susn)
    BY <1>2, <2>1, MarkBounds
  <2>3. \A r : \A t \in RowTables : r \in MarkSynced(col, lastUSN)[t] => r.mod <= clock
    BY <1>2, <2>1, MarkSource DEF Dated
  <2>4. QED
    BY <1>1, <2>1, <2>2, <2>3 DEF Dated
<1>5. QED
  BY <1>1, <1>3, <1>4 DEF BInv, TypeOK, PC, UsnBound, ModBound, serverVars

LEMMA BoundsNext ==
  ASSUME BInv, [Next]_vars
  PROVE  BInv'
<1>1. CASE Edit
  BY <1>1, BoundsEdit
<1>2. CASE Remote
  BY <1>2, RemoteGrows, BoundsOther
<1>3. CASE Client
  BY <1>3, BoundsSyncStart, BoundsGetSyncState, BoundsGetChangesQuery, BoundsGetChangesUSN,
     BoundsApplyChangesCall, BoundsApplyGravesCall, BoundsApplyRemote, BoundsMarkSynced,
     FinishLeaves, BoundsForget
     DEF Client
<1>4. CASE Fail
  BY <1>4, FailLeaves, BoundsForget
<1>5. CASE UNCHANGED vars
  BY <1>5 DEF vars, clientVars, serverVars, BInv, TypeOK, UsnBound, ModBound
<1>6. QED
  BY <1>1, <1>2, <1>3, <1>4, <1>5 DEF Next

LEMMA InitBounds == Init => BInv
<1> SUFFICES ASSUME Init PROVE BInv
  OBVIOUS
<1>1. NoDelta \in Delta /\ NoDelta.usn = 0 /\ NoDelta.graves = {}
      /\ \A t \in RowTables : NoDelta[t] = {}
  BY DEF NoDelta, Delta, Usn, RowTables
<1>2. Seed \in Tables
  BY KeysAssumption, SeedAssumption
     DEF Seed, Tables, CardRow, NoteRow, DeckRow, Usn
<1>3. /\ \A t \in RowTables : \A r \in Seed[t] : r.usn = 1 /\ r.mod = 0
      /\ Seed.graves = {}
  BY DEF Seed, RowTables
<1>4. /\ col = Seed /\ srv = Seed /\ susn = 1 /\ session = 0 /\ pc = "idle"
      /\ since = 0 /\ lastUSN = -1 /\ local = NoDelta /\ remote = NoDelta
      /\ late = {} /\ clock = 0 /\ failures = 0
  BY DEF Init, Unset
<1>5. TypeOK
  BY <1>1, <1>2, <1>4 DEF TypeOK, PC, Usn, Pending
<1>6. UsnBound /\ ModBound
  BY <1>1, <1>3, <1>4 DEF UsnBound, ModBound, Numbered, Dated
<1>7. QED
  BY <1>5, <1>6 DEF BInv

\* No usn exceeds the server's number and no time the clock, whoever writes.
LEMMA BoundsHold == Spec => []BInv
BY InitBounds, BoundsNext, PTL DEF Spec

-----------------------------------------------------------------------------
(* The inductive invariant, action by action                                *)

LEMMA KnownStays ==
  ASSUME TypeOK, ModBound, ServerGrows
  PROVE  /\ \A t \in RowTables : \A r \in col[t] :
              KnownIn(srv, t, r) => KnownIn(srv', t, r)
         /\ \A t \in RowTables : \A r \in remote[t] :
              KnownIn(srv, t, r) => KnownIn(srv', t, r)
<1>1. \A t \in RowTables : \A r \in col[t] \cup remote[t] :
        r.mod \in Nat /\ r.mod <= clock
  BY DEF TypeOK, ModBound, Dated, Tables, Delta, RowTables, CardRow, NoteRow, DeckRow
<1>2. QED
  BY <1>1 DEF ServerGrows

\* Steps of other devices and late requests.
LEMMA OtherStep ==
  ASSUME IInv, Remote
  PROVE  IInv'
<1>1. BInv /\ TypeOK /\ ModBound
  BY DEF IInv, BInv
<1>2. BInv'
  BY <1>1, BoundsNext DEF Next
<1>3. ServerGrows
  BY <1>1, RemoteGrows
<1>4. UNCHANGED <<col, pc, local, remote>>
  BY <1>1, RemoteGrows DEF clientVars
<1>5. RemoteKnown' /\ UploadKnown' /\ PendingUntilKnown'
  BY <1>1, <1>3, <1>4, KnownStays DEF IInv, RemoteKnown, UploadKnown, PendingUntilKnown
<1>6. GravesKnown' /\ GravesUploaded'
  BY <1>3, <1>4 DEF IInv, ServerGrows, GravesKnown, GravesUploaded
<1>7. LocalComplete'
  BY <1>4 DEF IInv, LocalComplete
<1>8. QED
  BY <1>2, <1>5, <1>6, <1>7 DEF IInv, BInv

\* Edits of the local collection between synchronisations.
LEMMA EditStep ==
  ASSUME IInv, ~OutsideWriter, Edit
  PROVE  IInv'
<1> USE DEF clientVars, serverVars
<1>1. BInv /\ BInv'
  BY BoundsEdit DEF IInv, BInv
<1>2. Written
  BY <1>1, EditWritten DEF BInv
<1>3. pc = "idle" /\ pc' = "idle"
  BY <1>2 DEF Written, Edit, AnswerCard, AddNote, CreateDeck, DeleteObject, WriteLocal,
              MayWrite
<1>4. RemoteKnown' /\ PendingUntilKnown' /\ GravesUploaded'
  BY <1>2 DEF Written, IInv, RemoteKnown, PendingUntilKnown, GravesUploaded
<1>5. LocalComplete' /\ UploadKnown' /\ GravesKnown'
  BY <1>3 DEF LocalComplete, Queried, UploadKnown, GravesKnown
<1>6. QED
  BY <1>1, <1>4, <1>5 DEF IInv, BInv

-----------------------------------------------------------------------------
(* The calls of FullSync                                                    *)

LEMMA SyncStartStep ==
  ASSUME IInv, SyncStart
  PROVE  IInv'
<1>1. BInv'
  BY BoundsSyncStart DEF IInv, BInv
<1> USE DEF SyncStart
<1>2. RemoteKnown' /\ PendingUntilKnown' /\ GravesUploaded'
  BY DEF IInv, RemoteKnown, PendingUntilKnown, GravesUploaded
<1>3. LocalComplete' /\ UploadKnown' /\ GravesKnown'
  BY DEF LocalComplete, Queried, UploadKnown, GravesKnown
<1>4. QED
  BY <1>1, <1>2, <1>3 DEF IInv, BInv

LEMMA GetSyncStateStep ==
  ASSUME IInv, GetSyncState
  PROVE  IInv'
<1>1. BInv'
  BY BoundsGetSyncState DEF IInv, BInv
<1> USE DEF GetSyncState, serverVars
<1>2. RemoteKnown' /\ PendingUntilKnown' /\ GravesUploaded'
  BY DEF IInv, RemoteKnown, PendingUntilKnown, GravesUploaded
<1>3. LocalComplete' /\ UploadKnown' /\ GravesKnown'
  BY DEF LocalComplete, Queried, UploadKnown, GravesKnown
<1>4. QED
  BY <1>1, <1>2, <1>3 DEF IInv, BInv

LEMMA GetChangesQueryStep ==
  ASSUME IInv, GetChangesQuery
  PROVE  IInv'
<1>1. BInv' /\ Queries /\ pc \in Query
  BY BoundsGetChangesQuery, QueryAdds DEF IInv, BInv, GetChangesQuery
<1> USE DEF GetChangesQuery, serverVars
<1>2. RemoteKnown' /\ PendingUntilKnown' /\ GravesUploaded'
  BY DEF IInv, RemoteKnown, PendingUntilKnown, GravesUploaded
<1>3. UploadKnown' /\ GravesKnown'
  BY <1>1 DEF Queries, Query, UploadKnown, GravesKnown
<1>4. LocalComplete'
  <2>1. Queried[pc'] \subseteq Queried[pc] \cup {pc} /\ Queried[pc'] \subseteq Query
    BY <1>1 DEF Query, NextQuery, Queried
  <2>2. pc \in DOMAIN Queried
    BY <1>1 DEF Query, Queried
  <2>3. \A t \in Queried[pc] : \A r \in col[t] : r.usn = Pending => r \in local[t]
    BY <2>2 DEF IInv, LocalComplete
  <2>4. \A r \in col[pc] : r.usn = Pending => r \in local'[pc]
    BY <1>1 DEF Queries, ChangedSince
  <2>5. ASSUME NEW t \in Queried[pc'], NEW r \in col[t], r.usn = Pending
        PROVE  r \in local'[t]
    BY <1>1, <2>1, <2>3, <2>4, <2>5 DEF Queries
  <2>6. col' = col
    OBVIOUS
  <2>7. QED
    BY <2>5, <2>6 DEF LocalComplete
<1>5. QED
  BY <1>1, <1>2, <1>3, <1>4 DEF IInv, BInv

LEMMA GetChangesUSNStep ==
  ASSUME IInv, GetChangesUSN
  PROVE  IInv'
<1>1. BInv' /\ \A t \in Query : local'[t] = local[t]
  BY BoundsGetChangesUSN, UsnEnds DEF IInv, BInv
<1> USE DEF GetChangesUSN, serverVars
<1>2. RemoteKnown' /\ PendingUntilKnown' /\ GravesUploaded'
  BY DEF IInv, RemoteKnown, PendingUntilKnown, GravesUploaded
<1>3. UploadKnown' /\ GravesKnown'
  BY DEF UploadKnown, GravesKnown
<1>4. LocalComplete'
  BY <1>1 DEF IInv, LocalComplete, Queried, Query
<1>5. QED
  BY <1>1, <1>2, <1>3, <1>4 DEF IInv, BInv

\* The end of a synchronisation, and a failure at any call.
LEMMA ForgetStep ==
  ASSUME IInv, BInv', Forget, pc' = "idle", UNCHANGED <<col, srv>>
  PROVE  IInv'
<1>1. \A t \in RowTables : NoDelta[t] = {}
  BY DEF NoDelta, RowTables
<1>2. RemoteKnown' /\ PendingUntilKnown' /\ GravesUploaded'
  BY <1>1 DEF IInv, Forget, RemoteKnown, PendingUntilKnown, GravesUploaded
<1>3. LocalComplete' /\ UploadKnown' /\ GravesKnown'
  BY DEF LocalComplete, Queried, UploadKnown, GravesKnown
<1>4. QED
  BY <1>2, <1>3 DEF IInv, BInv

LEMMA EndStep ==
  ASSUME IInv, SyncFinish \/ Fail
  PROVE  IInv'
<1>1. BInv
  BY DEF IInv, BInv
<1>2. /\ Forget /\ pc' = "idle" /\ UNCHANGED <<col, srv, susn, session, clock>>
      /\ failures' \in Nat /\ late' \subseteq Request
      /\ \A q \in late' : Dated(q.delta, clock)
  BY <1>1, FinishLeaves, FailLeaves
<1>3. BInv'
  BY <1>1, <1>2, BoundsForget
<1>4. QED
  BY <1>2, <1>3, ForgetStep

\* The upload, answered with a page.
LEMMA ApplyChangesCallStep ==
  ASSUME IInv, ApplyChangesCall
  PROVE  IInv'
<1>1. /\ pc = "upload" /\ pc' = "bury" /\ srv' = Merge(srv, local, susn + 1)
      /\ UNCHANGED <<col, since, local, late, clock, failures>>
  BY DEF ApplyChangesCall, Handle
<1>2. /\ TypeOK /\ ModBound /\ srv \in Tables /\ susn + 1 \in Nat /\ IsDelta(local)
  BY DEF IInv, TypeOK, Delta, IsDelta
<1>3. BInv' /\ ServerGrows /\ \A t \in RowTables : remote'[t] \subseteq srv'[t]
  BY BoundsApplyChangesCall DEF IInv, BInv
<1>4. RemoteKnown'
  <2>1. \A t \in RowTables : \A r \in remote'[t] : r \in srv'[t] /\ r.mod \in Nat
    BY <1>3 DEF RowTables, ServerGrows, Tables, CardRow, NoteRow, DeckRow
  <2>2. QED
    BY <2>1 DEF RemoteKnown, KnownIn
<1>5. \A t \in RowTables : \A r \in col[t] : KnownIn(srv', t, r)
  <2>1. ASSUME NEW t \in RowTables, NEW r \in col[t], r.usn = Pending
        PROVE  KnownIn(srv', t, r)
    <3>1. r \in local[t]
      BY <1>1, <2>1 DEF IInv, LocalComplete, Queried, Query, RowTables
    <3>2. QED
      BY <1>1, <1>2, <3>1, MergeLearns
  <2>2. ASSUME NEW t \in RowTables, NEW r \in col[t], r.usn # Pending
        PROVE  KnownIn(srv', t, r)
    <3>1. KnownIn(srv, t, r)
      BY <2>2 DEF IInv, PendingUntilKnown
    <3>2. QED
      BY <1>2, <1>3, <3>1, KnownStays
  <2>3. QED
    BY <2>1, <2>2
<1>6. UploadKnown' /\ PendingUntilKnown'
  BY <1>1, <1>5 DEF UploadKnown, PendingUntilKnown
<1>7. GravesKnown'
  BY <1>1 DEF GravesKnown
<1>8. GravesUploaded'
  BY <1>1, <1>3 DEF IInv, GravesUploaded, ServerGrows
<1>9. LocalComplete'
  BY <1>1 DEF IInv, LocalComplete, Queried, Query
<1>10. QED
  BY <1>3, <1>4, <1>6, <1>7, <1>8, <1>9 DEF IInv, BInv

\* The list of graves.
LEMMA ApplyGravesCallStep ==
  ASSUME IInv, ApplyGravesCall
  PROVE  IInv'
<1>1. /\ pc = "bury" /\ pc' = "apply"
      /\ UNCHANGED <<col, since, local, remote, lastUSN, session, late, clock, failures>>
  BY DEF ApplyGravesCall
<1>2. TypeOK /\ ModBound
  BY DEF IInv
<1>3. BInv' /\ ServerGrows /\ Oids(local.graves) \subseteq Dead(srv')
  BY BoundsApplyGravesCall DEF IInv, BInv
<1>4. RemoteKnown' /\ UploadKnown' /\ PendingUntilKnown'
  BY <1>1, <1>2, <1>3, KnownStays
     DEF IInv, RemoteKnown, UploadKnown, PendingUntilKnown
<1>5. \A g \in col.graves : g.oid \in Dead(srv')
  <2>1. ASSUME NEW g \in col.graves, g.usn = Pending PROVE g.oid \in Oids(local.graves)
    BY <1>1, <2>1 DEF IInv, LocalComplete, Queried, Oids
  <2>2. ASSUME NEW g \in col.graves, g.usn # Pending PROVE g.oid \in Dead(srv)
    BY <2>2 DEF IInv, GravesUploaded
  <2>3. QED
    BY <1>3, <2>1, <2>2 DEF ServerGrows
<1>6. GravesKnown' /\ GravesUploaded'
  BY <1>1, <1>5 DEF GravesKnown, GravesUploaded, Oids
<1>7. LocalComplete'
  BY <1>1 DEF LocalComplete, Queried
<1>8. QED
  BY <1>3, <1>4, <1>6, <1>7 DEF IInv, BInv

\* A page is applied.
LEMMA ApplyRemoteStep ==
  ASSUME IInv, ApplyRemote
  PROVE  IInv'
<1>1. /\ pc = "apply" /\ pc' \in {"cards", "mark"}
      /\ UNCHANGED <<remote, srv>>
  BY DEF ApplyRemote, serverVars
<1>2. /\ BInv'
      /\ \A t \in RowTables : \A r \in col'[t] :
           \E x \in col[t] \cup remote[t] : x.id = r.id /\ x.mod = r.mod /\ x.usn = r.usn
      /\ col'.graves \subseteq col.graves
  BY BoundsApplyRemote DEF IInv, BInv
<1>3. RemoteKnown'
  BY <1>1 DEF IInv, RemoteKnown
<1>4. \A t \in RowTables : \A r \in col'[t] : KnownIn(srv, t, r)
  <2>1. \A t \in RowTables : \A x \in col[t] \cup remote[t] : KnownIn(srv, t, x)
    BY <1>1 DEF IInv, UploadKnown, RemoteKnown
  <2>2. QED
    BY <1>2, <2>1 DEF KnownIn
<1>5. UploadKnown' /\ PendingUntilKnown'
  BY <1>1, <1>4 DEF UploadKnown, PendingUntilKnown
<1>6. GravesKnown' /\ GravesUploaded'
  BY <1>1, <1>2 DEF IInv, GravesKnown, GravesUploaded, Oids
<1>7. LocalComplete'
  BY <1>1 DEF LocalComplete, Queried
<1>8. QED
  BY <1>2, <1>3, <1>5, <1>6, <1>7 DEF IInv, BInv

LEMMA MarkSyncedStepStep ==
  ASSUME IInv, MarkSyncedStep
  PROVE  IInv'
<1>1. /\ pc = "mark" /\ pc' = "finish"
      /\ col' = IF lastUSN > 0 THEN MarkSynced(col, lastUSN) ELSE col
      /\ UNCHANGED <<remote, srv>>
  BY DEF MarkSyncedStep, serverVars
<1>2. BInv' /\ col \in Tables /\ lastUSN \in Usn
  BY BoundsMarkSynced DEF IInv, BInv, TypeOK
<1>3. \A t \in RowTables : \A r \in col'[t] : \E x \in col[t] : x.id = r.id /\ x.mod = r.mod
  BY <1>1, <1>2, MarkSource
<1>4. Oids(col'.graves) = Oids(col.graves)
  BY <1>1, <1>2, MarkGraves
<1>5. RemoteKnown'
  BY <1>1 DEF IInv, RemoteKnown
<1>6. PendingUntilKnown'
  <2>1. \A t \in RowTables : \A x \in col[t] : KnownIn(srv, t, x)
    BY <1>1 DEF IInv, UploadKnown
  <2>2. QED
    BY <1>1, <1>3, <2>1 DEF KnownIn, PendingUntilKnown
<1>7. GravesUploaded'
  BY <1>1, <1>4 DEF IInv, GravesKnown, GravesUploaded, Oids
<1>8. LocalComplete' /\ UploadKnown' /\ GravesKnown'
  BY <1>1 DEF LocalComplete, Queried, UploadKnown, GravesKnown
<1>9. QED
  BY <1>2, <1>5, <1>6, <1>7, <1>8 DEF IInv, BInv

-----------------------------------------------------------------------------
(* The theorems                                                             *)

LEMMA InitHolds == Init => IInv
<1> SUFFICES ASSUME Init PROVE IInv
  OBVIOUS
<1>1. \A t \in RowTables : NoDelta[t] = {}
  BY DEF NoDelta, RowTables
<1>2. /\ \A t \in RowTables : \A r \in Seed[t] : r.usn = 1 /\ r.mod = 0
      /\ Seed.graves = {}
  BY DEF Seed, RowTables
<1>3. col = Seed /\ srv = Seed /\ pc = "idle" /\ remote = NoDelta
  BY DEF Init
<1>4. BInv
  BY InitBounds
<1>5. RemoteKnown /\ GravesUploaded
  BY <1>1, <1>2, <1>3 DEF RemoteKnown, GravesUploaded
<1>6. PendingUntilKnown
  BY <1>2, <1>3 DEF PendingUntilKnown, KnownIn
<1>7. LocalComplete /\ UploadKnown /\ GravesKnown
  BY <1>3 DEF LocalComplete, Queried, UploadKnown, GravesKnown
<1>8. QED
  BY <1>4, <1>5, <1>6, <1>7 DEF IInv, BInv

LEMMA StutterStep ==
  ASSUME IInv, UNCHANGED vars
  PROVE  IInv'
<1>1. UNCHANGED <<col, pc, since, local, remote, lastUSN, srv, susn, session, late,
                  clock, failures>>
  BY DEF vars, clientVars, serverVars
<1>2. TypeOK' /\ UsnBound' /\ ModBound'
  BY <1>1 DEF IInv, TypeOK, UsnBound, ModBound
<1>3. RemoteKnown' /\ LocalComplete' /\ UploadKnown' /\ GravesKnown'
  BY <1>1 DEF IInv, RemoteKnown, LocalComplete, UploadKnown, GravesKnown
<1>4. PendingUntilKnown' /\ GravesUploaded'
  BY <1>1 DEF IInv, PendingUntilKnown, GravesUploaded
<1>5. QED
  BY <1>2, <1>3, <1>4 DEF IInv

\* Every step of the system keeps the inductive invariant, as long as no other
\* process writes the collection during a synchronisation.
LEMMA NextHolds ==
  ASSUME IInv, ~OutsideWriter, Next
  PROVE  IInv'
<1>1. CASE Edit
  BY <1>1, EditStep
<1>2. CASE Remote
  BY <1>2, OtherStep
<1>3. CASE Client
  BY <1>3, SyncStartStep, GetSyncStateStep, GetChangesQueryStep, GetChangesUSNStep,
     ApplyChangesCallStep, ApplyGravesCallStep, ApplyRemoteStep, MarkSyncedStepStep,
     EndStep
     DEF Client
<1>4. CASE Fail
  BY <1>4, EndStep
<1>5. QED
  BY <1>1, <1>2, <1>3, <1>4 DEF Next

\* The inductive invariant holds throughout.
THEOREM InductiveInvariant ==
  ASSUME ~OutsideWriter
  PROVE  Spec => []IInv
<1>1. IInv /\ [Next]_vars => IInv'
  BY NextHolds, StutterStep
<1>2. QED
  BY InitHolds, <1>1, PTL DEF Spec

\* The variables keep their types, also while another process writes the
\* collection (MaxEdits, MaxFailures and the keys arbitrary).
THEOREM TypeCorrect == Spec => []TypeOK
<1>1. BInv => TypeOK
  BY DEF BInv
<1>2. QED
  BY BoundsHold, <1>1, PTL

\* No local edit is marked as synchronised before the server knows it, however
\* many edits, devices, pages, failures and late requests there are (GetChanges,
\* ApplyChanges and MarkSynced of pkg/collection/sync.go under FullSync).
THEOREM NoEditLost ==
  ASSUME ~OutsideWriter
  PROVE  Spec => []PendingUntilKnown
<1>1. IInv => PendingUntilKnown
  BY DEF IInv
<1>2. QED
  BY InductiveInvariant, <1>1, PTL

\* No local deletion is marked as synchronised before the server knows it.
THEOREM NoDeletionLost ==
  ASSUME ~OutsideWriter
  PROVE  Spec => []GravesUploaded
<1>1. IInv => GravesUploaded
  BY DEF IInv
<1>2. QED
  BY InductiveInvariant, <1>1, PTL
=============================================================================
