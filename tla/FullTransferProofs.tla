------------------------- MODULE FullTransferProofs -------------------------
(***************************************************************************)
(* What is proved of FullTransfer: of the collection and of the server's    *)
(* copy, for all archives, databases and limits.                            *)
(***************************************************************************)
EXTENDS FullTransfer, TLAPS

Whole(d) == [i \in 1..Pieces |-> d]

-----------------------------------------------------------------------------
(* What the passes of ImportColpkg have found in the first n entries, and   *)
(* unpacked of the first m                                                  *)

UpTo(n, S) == {i \in S : i <= n}
IsLast(i, S) == i \in S /\ \A j \in S : j <= i

DatabasesIn(A) == Download!Indices(A, "database")
MapsIn(A) == Download!Indices(A, "map")

\* The last database, within the limit on its size.
DatabaseFound(A, n, db) ==
  /\ \A i \in UpTo(n, DatabasesIn(A)) : A[i].size <= MaxFile
  /\ db = NoDatabase => UpTo(n, DatabasesIn(A)) = {}
  /\ db # NoDatabase =>
       \E i \in UpTo(n, DatabasesIn(A)) : IsLast(i, UpTo(n, DatabasesIn(A))) /\ db = A[i].id

\* The maps since the last null.
KeptUpTo(A, n) ==
  {i \in UpTo(n, MapsIn(A)) :
     /\ A[i].json = "object"
     /\ \A j \in UpTo(n, MapsIn(A)) : j > i => A[j].json # "null"}

MapUpTo(A, n, k) == {i \in KeptUpTo(A, n) : k \in DOMAIN A[i].names}

\* The names are those of these maps, of which a later one counts.
NamesFound(A, n, names) ==
  /\ \A i \in KeptUpTo(A, n) : DOMAIN A[i].names \subseteq DOMAIN names
  /\ \A k \in DOMAIN names :
       \E i \in MapUpTo(A, n, k) :
         IsLast(i, MapUpTo(A, n, k)) /\ names[k] = A[i].names[k]

\* The files that have been unpacked.
FilesFound(A, m, names) ==
  \A i \in UpTo(m, Download!Unpacked(A)) : A[i].size <= MaxFile /\ names[A[i].key] # Invalid

\* The entries that count against the limit on the total, and the sums of their sizes.
CountedIn(A, n, m) == UpTo(n, DatabasesIn(A) \cup MapsIn(A)) \cup UpTo(m, Download!Unpacked(A))

SumsTo(A, S, sum, total) ==
  /\ sum[0] = 0 /\ sum[Len(A)] = total
  /\ \A i \in DOMAIN A :
       sum[i] = sum[i - 1] + (IF i \in S THEN Download!Smaller(A[i].size, MaxFile) ELSE 0)
  /\ \A i \in 0..Len(A) : sum[i] <= total

Totalled(A, S, total) == \E sum \in [0..Len(A) -> 0..MaxTotal] : SumsTo(A, S, sum, total)

-----------------------------------------------------------------------------
(* The invariant of a download                                              *)

\* Where nothing has been written beside the database yet.
Importing == {"save", "first", "second", "place"}

FirstDone == CASE dl.pc = "save" -> 0 [] dl.pc = "first" -> dl.at - 1 [] OTHER -> Len(archive)
SecondDone ==
  CASE dl.pc \in {"save", "first"} -> 0 [] dl.pc = "second" -> dl.at - 1 [] OTHER -> Len(archive)

Imported ==
  /\ IF dl.pc = "save" THEN dl.at = 1 ELSE Len(archive) <= MaxCount
  /\ DatabaseFound(archive, FirstDone, dl.db)
  /\ NamesFound(archive, FirstDone, dl.names)
  /\ FilesFound(archive, SecondDone, dl.names)
  /\ Totalled(archive, CountedIn(archive, FirstDone, SecondDone), dl.total)

\* The collection is as it was until the whole copy has been renamed.
Placed ==
  /\ \A i \in DOMAIN dl.temp : dl.db # NoDatabase /\ dl.temp[i] = dl.db
  /\ dl.pc \in Importing => dl.temp = << >>
  /\ dl.pc \notin {"clean", "media"} => path = dl.before
  /\ dl.pc \in {"clean", "media"} => path = Whole(Download!LastDatabase(archive))

Shape ==
  /\ dl.pc = "idle" => dl = Download!Idle
  /\ dl.pc \in Download!Working =>
       DOMAIN dl = {"pc", "at", "total", "written", "names", "db", "temp", "before"}

WrittenBounded ==
  /\ dl.pc \in Download!Working => dl.written <= dl.total
  /\ dl.pc = "done" => dl.written \in Nat /\ dl.written <= MaxTotal + MaxFile

DownloadInv ==
  /\ Download!TypeOK /\ Shape /\ WrittenBounded
  /\ \E d \in Databases : path = Whole(d)
  /\ dl.pc \in Download!Working => Imported /\ Placed
  /\ AnswerMeaning

-----------------------------------------------------------------------------
(* Lemmas about archives                                                    *)

Typed(A) ==
  /\ Len(A) \in Nat /\ DOMAIN A = 1..Len(A)
  /\ \A i \in DOMAIN A :
       /\ A[i].kind \in {"database", "map", "file", "placeholder"} /\ A[i].size \in Nat
       /\ A[i].kind = "database" => A[i].id \in Databases
       /\ A[i].kind = "map" => A[i].json \in {"object", "null", "malformed"}

LEMMA ArchiveTyped ==
  ASSUME Download!TypeOK
  PROVE  Typed(archive)
<1>1. CASE archive \in Archives
  BY <1>1, ArchivesAssumption DEF Typed
<1>2. CASE archive = << >>
  BY <1>2 DEF Typed
<1> QED
  BY <1>1, <1>2 DEF Download!TypeOK

LEMMA BoundedSequences ==
  ASSUME NEW S, NEW n \in Nat
  PROVE  /\ Download!SeqOf(S, n) = {s \in Seq(S) : Len(s) <= n}
         /\ Upload!SeqOf(S, n) = {s \in Seq(S) : Len(s) <= n}
<1> DEFINE Bounded == UNION {[1..m -> S] : m \in 0..n}
<1>1. ASSUME NEW s \in Bounded
      PROVE  s \in Seq(S) /\ Len(s) <= n
  <2>1. PICK m \in 0..n : s \in [1..m -> S]
    OBVIOUS
  <2> QED
    BY <2>1
<1>2. ASSUME NEW s \in Seq(S), Len(s) <= n
      PROVE  s \in Bounded
  <2>1. Len(s) \in 0..n /\ s \in [1..Len(s) -> S]
    BY <1>2
  <2> QED
    BY <2>1
<1>3. Bounded = {s \in Seq(S) : Len(s) <= n}
  BY <1>1, <1>2
<1> QED
  BY <1>3 DEF Download!SeqOf, Upload!SeqOf

LEMMA MaxIsLast ==
  ASSUME NEW S \in SUBSET Nat, NEW i, IsLast(i, S)
  PROVE  Download!Max(S) = i
<1>1. i \in S /\ \A j \in S : i >= j
  BY DEF IsLast
<1>2. \A x \in S : (\A y \in S : x >= y) => x = i
  BY <1>1
<1> QED
  BY <1>1, <1>2 DEF Download!Max

\* One entry more.
LEMMA OneMore ==
  ASSUME NEW n \in Nat, NEW S \in SUBSET Nat
  PROVE  UpTo(n + 1, S) = UpTo(n, S) \cup (S \cap {n + 1})
<1>1. \A x \in S : x <= n + 1 <=> x <= n \/ x = n + 1
  OBVIOUS
<1> QED
  BY <1>1, Zenon DEF UpTo

LEMMA Sets ==
  ASSUME NEW A, Typed(A)
  PROVE  /\ DatabasesIn(A) \in SUBSET Nat /\ MapsIn(A) \in SUBSET Nat
         /\ Download!Unpacked(A) \in SUBSET Nat
         /\ \A k : Download!MapOf(A, k) \in SUBSET Nat
BY DEF DatabasesIn, MapsIn, Download!Unpacked, Download!KeptMaps, Download!MapOf,
       Download!Indices, Typed

\* Before the first entry nothing has been found.
LEMMA NothingYet ==
  ASSUME NEW A, Typed(A)
  PROVE  /\ DatabaseFound(A, 0, NoDatabase) /\ NamesFound(A, 0, << >>) /\ FilesFound(A, 0, << >>)
         /\ Totalled(A, CountedIn(A, 0, 0), 0)
<1>1. \A S \in SUBSET (DOMAIN A) : UpTo(0, S) = {}
  BY DEF UpTo, Typed
<1>2. /\ DatabasesIn(A) \in SUBSET (DOMAIN A) /\ MapsIn(A) \in SUBSET (DOMAIN A)
      /\ Download!Unpacked(A) \in SUBSET (DOMAIN A)
      /\ (DatabasesIn(A) \cup MapsIn(A)) \in SUBSET (DOMAIN A)
  BY DEF DatabasesIn, MapsIn, Download!Unpacked, Download!Indices
<1>3. DatabaseFound(A, 0, NoDatabase)
  BY <1>1, <1>2 DEF DatabaseFound
<1>4. NamesFound(A, 0, << >>)
  <2>1. KeptUpTo(A, 0) = {}
    BY <1>1, <1>2 DEF KeptUpTo
  <2> QED
    BY <2>1 DEF NamesFound
<1>5. FilesFound(A, 0, << >>)
  BY <1>1, <1>2 DEF FilesFound
<1>6. CountedIn(A, 0, 0) = {}
  BY <1>1, <1>2 DEF CountedIn
<1>7. Totalled(A, {}, 0)
  <2> DEFINE sum == [i \in 0..Len(A) |-> 0]
  <2>1. sum \in [0..Len(A) -> 0..MaxTotal]
    BY LimitsAssumption
  <2>2. SumsTo(A, {}, sum, 0)
    BY DEF SumsTo, Typed
  <2> QED
    BY <2>1, <2>2 DEF Totalled
<1> QED
  BY <1>3, <1>4, <1>5, <1>6, <1>7

\* A database within the limit.
LEMMA DatabaseRead ==
  ASSUME NEW A, Typed(A), NEW n \in Nat, NEW db, DatabaseFound(A, n, db),
         n + 1 \in DatabasesIn(A), A[n + 1].size <= MaxFile
  PROVE  DatabaseFound(A, n + 1, A[n + 1].id)
<1> DEFINE S == DatabasesIn(A)
<1>1. UpTo(n + 1, S) = UpTo(n, S) \cup {n + 1}
  BY Sets, OneMore
<1>2. A[n + 1].id \in Databases
  BY DEF DatabasesIn, Download!Indices, Typed
<1>3. IsLast(n + 1, UpTo(n + 1, S))
  BY <1>1, Sets DEF UpTo, IsLast
<1>4. \A i \in UpTo(n + 1, S) : A[i].size <= MaxFile
  BY <1>1 DEF DatabaseFound
<1> QED
  BY <1>1, <1>2, <1>3, <1>4, DatabasesAssumption DEF DatabaseFound

\* Any other entry.
LEMMA DatabaseSame ==
  ASSUME NEW A, Typed(A), NEW n \in Nat, NEW db, DatabaseFound(A, n, db), n + 1 \notin DatabasesIn(A)
  PROVE  DatabaseFound(A, n + 1, db)
<1> DEFINE S == DatabasesIn(A)
<1>0. S \in SUBSET Nat
  BY Sets
<1>1. UpTo(n + 1, S) = UpTo(n, S)
  <2>1. UpTo(n + 1, S) = UpTo(n, S) \cup (S \cap {n + 1})
    BY <1>0, OneMore
  <2> QED
    BY <2>1
<1> QED
  BY <1>1 DEF DatabaseFound

\* What one entry more does to the maps that count.
LEMMA KeptMore ==
  ASSUME NEW A, Typed(A), NEW n \in Nat
  PROVE  /\ n + 1 \in MapsIn(A) /\ A[n + 1].json = "object" =>
              KeptUpTo(A, n + 1) = KeptUpTo(A, n) \cup {n + 1}
         /\ n + 1 \in MapsIn(A) /\ A[n + 1].json = "null" => KeptUpTo(A, n + 1) = {}
         /\ n + 1 \notin MapsIn(A) \/ A[n + 1].json = "malformed" =>
              KeptUpTo(A, n + 1) = KeptUpTo(A, n)
<1> DEFINE S == MapsIn(A)
<1>1. S \in SUBSET Nat
  BY Sets
<1>2. UpTo(n + 1, S) = UpTo(n, S) \cup (S \cap {n + 1})
  BY <1>1, OneMore
<1>3. \A i \in UpTo(n, S) : i \in Nat /\ i < n + 1
  BY <1>1 DEF UpTo
<1>4. CASE n + 1 \in S
  <2>1. UpTo(n + 1, S) = UpTo(n, S) \cup {n + 1}
    BY <1>2, <1>4
  <2> HIDE DEF S
  <2>2. A[n + 1].json = "null" => KeptUpTo(A, n + 1) = {}
    BY <1>3, <2>1 DEF KeptUpTo, S
  <2>3. A[n + 1].json = "malformed" => KeptUpTo(A, n + 1) = KeptUpTo(A, n)
    BY <1>3, <2>1 DEF KeptUpTo, S
  <2>4. A[n + 1].json = "object" => KeptUpTo(A, n + 1) = KeptUpTo(A, n) \cup {n + 1}
    BY <1>3, <2>1 DEF KeptUpTo, S
  <2> QED
    BY <1>4, <2>2, <2>3, <2>4 DEF S
<1>5. CASE n + 1 \notin S
  <2>1. UpTo(n + 1, S) = UpTo(n, S)
    BY <1>2, <1>5
  <2> QED
    BY <1>5, <2>1 DEF KeptUpTo
<1> QED
  BY <1>4, <1>5

LEMMA KeptAll ==
  ASSUME NEW A, Typed(A)
  PROVE  KeptUpTo(A, Len(A)) = Download!KeptMaps(A)
<1>1. UpTo(Len(A), MapsIn(A)) = MapsIn(A)
  BY DEF UpTo, MapsIn, Download!Indices, Typed
<1> QED
  BY <1>1 DEF KeptUpTo, Download!KeptMaps, MapsIn

\* A map that is read.
LEMMA NamesRead ==
  ASSUME NEW A, Typed(A), NEW n \in Nat, NEW names, NamesFound(A, n, names),
         n + 1 \in MapsIn(A), A[n + 1].json = "object",
         NEW more, more = [k \in DOMAIN A[n + 1].names \cup DOMAIN names |->
                             IF k \in DOMAIN A[n + 1].names THEN A[n + 1].names[k] ELSE names[k]]
  PROVE  NamesFound(A, n + 1, more)
<1>1. KeptUpTo(A, n + 1) = KeptUpTo(A, n) \cup {n + 1}
  BY KeptMore
<1>2. \A i \in KeptUpTo(A, n + 1) : DOMAIN A[i].names \subseteq DOMAIN more
  BY <1>1 DEF NamesFound
<1>3. ASSUME NEW k \in DOMAIN more
      PROVE  \E i \in MapUpTo(A, n + 1, k) :
               IsLast(i, MapUpTo(A, n + 1, k)) /\ more[k] = A[i].names[k]
  <2>1. CASE k \in DOMAIN A[n + 1].names
    <3>1. n + 1 \in MapUpTo(A, n + 1, k)
      BY <1>1, <2>1 DEF MapUpTo
    <3>2. \A i \in MapUpTo(A, n + 1, k) : i <= n + 1
      BY DEF MapUpTo, KeptUpTo, UpTo
    <3> QED
      BY <2>1, <3>1, <3>2 DEF IsLast
  <2>2. CASE k \notin DOMAIN A[n + 1].names
    <3>1. MapUpTo(A, n + 1, k) = MapUpTo(A, n, k)
      BY <1>1, <2>2 DEF MapUpTo
    <3>2. k \in DOMAIN names /\ more[k] = names[k]
      BY <2>2
    <3> QED
      BY <3>1, <3>2 DEF NamesFound
  <2> QED
    BY <2>1, <2>2
<1> QED
  BY <1>2, <1>3 DEF NamesFound

\* A map that is null.
LEMMA NamesCleared ==
  ASSUME NEW A, Typed(A), NEW n \in Nat, n + 1 \in MapsIn(A), A[n + 1].json = "null"
  PROVE  NamesFound(A, n + 1, << >>)
<1>1. KeptUpTo(A, n + 1) = {}
  BY KeptMore
<1> QED
  BY <1>1 DEF NamesFound

\* Any other entry.
LEMMA NamesSame ==
  ASSUME NEW A, Typed(A), NEW n \in Nat, NEW names, NamesFound(A, n, names),
         n + 1 \notin MapsIn(A) \/ A[n + 1].json = "malformed"
  PROVE  NamesFound(A, n + 1, names)
<1>1. KeptUpTo(A, n + 1) = KeptUpTo(A, n)
  BY KeptMore
<1>2. \A k : MapUpTo(A, n + 1, k) = MapUpTo(A, n, k)
  BY <1>1 DEF MapUpTo
<1> QED
  BY <1>1, <1>2 DEF NamesFound

\* An entry with the size n is counted, which was not counted yet.
LEMMA TotalAdded ==
  ASSUME NEW A, Typed(A), NEW S, NEW total \in Nat, Totalled(A, S, total),
         NEW i \in DOMAIN A, i \notin S,
         NEW n \in Nat, n = Download!Smaller(A[i].size, MaxFile), total + n <= MaxTotal
  PROVE  Totalled(A, S \cup {i}, total + n)
<1>1. PICK sum \in [0..Len(A) -> 0..MaxTotal] : SumsTo(A, S, sum, total)
  BY DEF Totalled
<1> DEFINE more == [j \in 0..Len(A) |-> IF j < i THEN sum[j] ELSE sum[j] + n]
<1>2. i \in 1..Len(A) /\ Len(A) \in Nat
  BY DEF Typed
<1>3. \A j \in 0..Len(A) : sum[j] \in Nat /\ sum[j] <= total
  BY <1>1 DEF SumsTo
<1>4. more \in [0..Len(A) -> 0..MaxTotal]
  BY <1>2, <1>3, LimitsAssumption
<1>5. more[0] = 0 /\ more[Len(A)] = total + n
  BY <1>1, <1>2 DEF SumsTo
<1>6. ASSUME NEW j \in DOMAIN A
      PROVE  more[j] = more[j - 1]
               + (IF j \in S \cup {i} THEN Download!Smaller(A[j].size, MaxFile) ELSE 0)
  <2>1. j \in 1..Len(A) /\ j - 1 \in 0..Len(A)
    BY DEF Typed
  <2>2. sum[j] = sum[j - 1] + (IF j \in S THEN Download!Smaller(A[j].size, MaxFile) ELSE 0)
    BY <1>1 DEF SumsTo
  <2>3. CASE j = i
    <3>1. sum[j] = sum[j - 1]
      BY <2>1, <2>2, <2>3, <1>3
    <3> QED
      BY <2>1, <2>3, <3>1, <1>3
  <2>4. CASE j # i
    <3>1. j < i <=> j - 1 < i /\ j # i
      BY <2>1, <1>2
    <3>2. Download!Smaller(A[j].size, MaxFile) \in Nat
      BY LimitsAssumption DEF Download!Smaller, Typed
    <3> HIDE DEF more
    <3>3. more[j] = (IF j < i THEN sum[j] ELSE sum[j] + n)
      BY <2>1 DEF more
    <3>4. more[j - 1] = (IF j < i THEN sum[j - 1] ELSE sum[j - 1] + n)
      BY <2>1, <2>4, <1>2 DEF more
    <3> QED
      BY <2>1, <2>2, <2>4, <1>3, <3>2, <3>3, <3>4
  <2> QED
    BY <2>3, <2>4
<1>7. \A j \in 0..Len(A) : more[j] <= total + n
  BY <1>2, <1>3
<1> QED
  BY <1>4, <1>5, <1>6, <1>7 DEF Totalled, SumsTo

\* The two passes count an entry once.
LEMMA CountedFirst ==
  ASSUME NEW A, Typed(A), NEW n \in Nat
  PROVE  /\ n + 1 \in DatabasesIn(A) \cup MapsIn(A) =>
              CountedIn(A, n + 1, 0) = CountedIn(A, n, 0) \cup {n + 1}
         /\ n + 1 \notin DatabasesIn(A) \cup MapsIn(A) => CountedIn(A, n + 1, 0) = CountedIn(A, n, 0)
         /\ n + 1 \notin CountedIn(A, n, 0)
<1> DEFINE S == DatabasesIn(A) \cup MapsIn(A)
<1>1. S \in SUBSET Nat
  BY Sets
<1>2. UpTo(n + 1, S) = UpTo(n, S) \cup (S \cap {n + 1})
  BY <1>1, OneMore
<1>3. UpTo(0, Download!Unpacked(A)) = {}
  BY DEF UpTo, Download!Unpacked, Download!Indices, Typed
<1>4. n + 1 \notin UpTo(n, S)
  BY DEF UpTo
<1> QED
  BY <1>2, <1>3, <1>4 DEF CountedIn

LEMMA CountedSecond ==
  ASSUME NEW A, Typed(A), NEW m \in Nat
  PROVE  /\ m + 1 \in Download!Unpacked(A) =>
              /\ CountedIn(A, Len(A), m + 1) = CountedIn(A, Len(A), m) \cup {m + 1}
              /\ m + 1 \notin CountedIn(A, Len(A), m)
         /\ m + 1 \notin Download!Unpacked(A) =>
              CountedIn(A, Len(A), m + 1) = CountedIn(A, Len(A), m)
<1> DEFINE S == Download!Unpacked(A)
<1>1. S \in SUBSET Nat
  BY Sets
<1>2. UpTo(m + 1, S) = UpTo(m, S) \cup (S \cap {m + 1})
  BY <1>1, OneMore
<1>3. m + 1 \notin UpTo(m, S)
  BY DEF UpTo
<1>4. m + 1 \in S => m + 1 \notin DatabasesIn(A) \cup MapsIn(A)
  BY DEF DatabasesIn, MapsIn, Download!Unpacked, Download!Indices
<1>5. m + 1 \in S => m + 1 \notin UpTo(Len(A), DatabasesIn(A) \cup MapsIn(A))
  BY <1>4 DEF UpTo
<1> QED
  BY <1>2, <1>3, <1>5 DEF CountedIn

\* After the first pass the files in the map are those to be unpacked.
LEMMA MappedFiles ==
  ASSUME NEW A, Typed(A), NEW names, NamesFound(A, Len(A), names), NEW i \in DOMAIN A
  PROVE  A[i].kind = "file" /\ A[i].key \in DOMAIN names <=> i \in Download!Unpacked(A)
<1>1. \A k : MapUpTo(A, Len(A), k) = Download!MapOf(A, k)
  BY KeptAll DEF MapUpTo, Download!MapOf
<1>2. KeptUpTo(A, Len(A)) = Download!KeptMaps(A)
  BY KeptAll
<1>3. \A k : k \in DOMAIN names <=> Download!MapOf(A, k) # {}
  <2> SUFFICES ASSUME NEW k PROVE k \in DOMAIN names <=> Download!MapOf(A, k) # {}
    OBVIOUS
  <2>1. k \in DOMAIN names => Download!MapOf(A, k) # {}
    BY <1>1 DEF NamesFound
  <2>2. Download!MapOf(A, k) # {} => k \in DOMAIN names
    BY <1>2 DEF NamesFound, Download!MapOf
  <2> QED
    BY <2>1, <2>2
<1> QED
  BY <1>3 DEF Download!Unpacked, Download!Indices

\* What an import that has passed both loops has found.
LEMMA Complete ==
  ASSUME NEW A, Typed(A), Len(A) <= MaxCount,
         NEW db, db # NoDatabase, DatabaseFound(A, Len(A), db),
         NEW names, NamesFound(A, Len(A), names), FilesFound(A, Len(A), names),
         NEW total, Totalled(A, CountedIn(A, Len(A), Len(A)), total)
  PROVE  Download!Acceptable(A) /\ db = Download!LastDatabase(A)
<1>1. /\ UpTo(Len(A), DatabasesIn(A)) = DatabasesIn(A)
      /\ UpTo(Len(A), Download!Unpacked(A)) = Download!Unpacked(A)
      /\ UpTo(Len(A), DatabasesIn(A) \cup MapsIn(A)) = DatabasesIn(A) \cup MapsIn(A)
  BY DEF UpTo, DatabasesIn, MapsIn, Download!Unpacked, Download!Indices, Typed
<1>2. PICK i \in DatabasesIn(A) : IsLast(i, DatabasesIn(A)) /\ db = A[i].id
  BY <1>1 DEF DatabaseFound
<1>3. db = Download!LastDatabase(A)
  BY <1>2, Sets, MaxIsLast DEF Download!LastDatabase, DatabasesIn
<1>4. \A j \in DatabasesIn(A) \cup Download!Unpacked(A) : A[j].size <= MaxFile
  BY <1>1 DEF DatabaseFound, FilesFound
<1>5. ASSUME NEW j \in Download!Unpacked(A)
      PROVE  Download!NameOf(A, A[j].key) # Invalid
  <2>1. A[j].key \in DOMAIN names
    BY MappedFiles DEF Download!Unpacked, Download!Indices
  <2>2. MapUpTo(A, Len(A), A[j].key) = Download!MapOf(A, A[j].key)
    BY KeptAll DEF MapUpTo, Download!MapOf
  <2>3. PICK k \in Download!MapOf(A, A[j].key) :
               /\ IsLast(k, Download!MapOf(A, A[j].key))
               /\ names[A[j].key] = A[k].names[A[j].key]
    BY <2>1, <2>2 DEF NamesFound
  <2>4. Download!Max(Download!MapOf(A, A[j].key)) = k
    BY <2>3, Sets, MaxIsLast
  <2>5. names[A[j].key] # Invalid
    BY <1>1 DEF FilesFound
  <2> QED
    BY <2>3, <2>4, <2>5 DEF Download!NameOf
<1>6. Download!FitsTotal(A, DatabasesIn(A) \cup MapsIn(A) \cup Download!Unpacked(A))
  BY <1>1 DEF Totalled, SumsTo, CountedIn, Download!FitsTotal
<1>7. DatabasesIn(A) # {}
  BY <1>2
<1> QED
  BY <1>3, <1>4, <1>5, <1>6, <1>7 DEF Download!Acceptable, DatabasesIn, MapsIn

-----------------------------------------------------------------------------
(* The steps of a download                                                  *)

\* An answer is returned: that of the failure of a step, or of success.
LEMMA Returned ==
  ASSUME DownloadInv, dl.pc \in Download!Working, NEW answer,
         (answer = dl.pc /\ dl.pc # "clean") \/ (answer = "ok" /\ dl.pc = "media"),
         NEW written \in Nat, written <= MaxTotal + MaxFile,
         Download!Return(answer, written), UNCHANGED <<path, archive>>
  PROVE  DownloadInv'
<1>1. /\ dl'.pc = "done" /\ dl'.answer = answer /\ dl'.before = dl.before /\ dl'.written = written
  BY DEF Download!Return
<1>2. Download!TypeOK'
  BY <1>1 DEF DownloadInv, Download!TypeOK, Download!Working
<1>3. Shape' /\ WrittenBounded' /\ (dl.pc \in Download!Working => Imported /\ Placed)'
  BY <1>1 DEF Shape, WrittenBounded, Download!Working
<1>4. AnswerMeaning'
  <2>1. CASE answer \in {"ok", "media"}
    <3>1. path = Whole(Download!LastDatabase(archive))
      BY <2>1 DEF DownloadInv, Placed, Download!Working
    <3> QED
      BY <1>1, <2>1, <3>1
         DEF AnswerMeaning, Download!AnswerMeaning, Download!LastDatabase, Whole, Download!Whole
  <2>2. CASE answer \notin {"ok", "media"}
    <3>1. path = dl.before
      BY <2>2 DEF DownloadInv, Placed, Download!Working
    <3> QED
      BY <1>1, <2>2, <3>1 DEF AnswerMeaning, Download!AnswerMeaning
  <2> QED
    BY <2>1, <2>2
<1> QED
  BY <1>2, <1>3, <1>4 DEF DownloadInv

\* A step before the database is replaced.
LEMMA Goes ==
  ASSUME DownloadInv, dl.pc \in Importing \cup {"copy"}, dl'.pc \in Importing \cup {"copy"},
         DOMAIN dl' = DOMAIN dl, dl'.before = dl.before, UNCHANGED <<path, archive>>,
         dl'.at \in 1..(Len(archive) + 1), dl'.total \in 0..MaxTotal,
         dl'.written \in Nat, dl'.written <= dl'.total, dl'.db \in Databases \cup {NoDatabase},
         dl'.temp \in Download!SeqOf(Databases, Pieces),
         dl'.pc \in Importing => dl'.temp = << >>,
         \A i \in DOMAIN dl'.temp : dl'.db # NoDatabase /\ dl'.temp[i] = dl'.db,
         Imported'
  PROVE  DownloadInv'
<1> USE DEF Importing, Download!Working
<1>1. Download!TypeOK'
  BY DEF DownloadInv, Download!TypeOK
<1>2. Shape' /\ WrittenBounded'
  BY DEF DownloadInv, Shape, WrittenBounded
<1>3. path = dl.before
  BY DEF DownloadInv, Placed
<1>4. Placed'
  BY <1>3 DEF Placed
<1>5. AnswerMeaning'
  BY DEF AnswerMeaning, Download!AnswerMeaning
<1> QED
  BY <1>1, <1>2, <1>4, <1>5 DEF DownloadInv

\* What the invariant says of a download that is on its way.
LEMMA OnItsWay ==
  ASSUME DownloadInv, dl.pc \in Download!Working
  PROVE  /\ Typed(archive) /\ dl.at \in 1..(Len(archive) + 1) /\ dl.total \in 0..MaxTotal
         /\ dl.written \in Nat /\ dl.written <= dl.total /\ dl.total \in Nat
         /\ dl.db \in Databases \cup {NoDatabase} /\ dl.temp \in Download!SeqOf(Databases, Pieces)
         /\ DOMAIN dl = {"pc", "at", "total", "written", "names", "db", "temp", "before"}
         /\ Imported /\ Placed
BY ArchiveTyped, LimitsAssumption DEF DownloadInv, Download!TypeOK, Shape, WrittenBounded

LEMMA ImportedSame ==
  ASSUME Imported, dl.pc \in Download!Working, dl'.pc \in Download!Working \ {"save"}, archive' = archive,
         FirstDone' = FirstDone, SecondDone' = SecondDone,
         dl'.db = dl.db, dl'.names = dl.names, dl'.total = dl.total, Len(archive) <= MaxCount
  PROVE  Imported'
BY DEF Imported

LEMMA BeginKeeps ==
  ASSUME DownloadInv, Download!BeginDownload
  PROVE  DownloadInv'
<1>1. PICK A \in Archives :
        /\ archive' = A
        /\ dl' = [pc |-> "save", at |-> 1, total |-> 0, written |-> 0, names |-> << >>,
                  db |-> NoDatabase, temp |-> << >>, before |-> path]
  BY DEF Download!BeginDownload
<1>2. path' = path
  BY DEF Download!BeginDownload
<1>3. Typed(A)
  BY ArchivesAssumption DEF Typed
<1>4. << >> \in Download!SeqOf(Databases, Pieces)
  BY PiecesAssumption DEF Download!SeqOf
<1>5. Download!TypeOK'
  BY <1>1, <1>2, <1>3, <1>4, LimitsAssumption
     DEF DownloadInv, Download!TypeOK, Download!Working, Typed
<1>6. Shape' /\ WrittenBounded'
  BY <1>1, LimitsAssumption DEF Shape, WrittenBounded, Download!Working
<1>7. FirstDone' = 0 /\ SecondDone' = 0
  BY <1>1 DEF FirstDone, SecondDone
<1>8. Imported'
  BY <1>1, <1>3, <1>7, NothingYet DEF Imported
<1>9. Placed'
  BY <1>1, <1>2 DEF Placed, Importing
<1> QED
  BY <1>1, <1>2, <1>5, <1>6, <1>8, <1>9
     DEF DownloadInv, AnswerMeaning, Download!AnswerMeaning

LEMMA FailKeeps ==
  ASSUME DownloadInv, Download!FailDownload
  PROVE  DownloadInv'
<1>1. dl.written \in Nat /\ dl.written <= MaxTotal + MaxFile /\ dl.pc \in Download!Working
  BY OnItsWay, LimitsAssumption DEF Download!FailDownload
<1>2. dl.pc # "clean" /\ UNCHANGED <<path, archive>> /\ Download!Return(dl.pc, dl.written)
  BY DEF Download!FailDownload, Download!ReturnError
<1> QED
  BY <1>1, <1>2, Returned, Zenon

LEMMA OpenKeeps ==
  ASSUME DownloadInv, Download!OpenArchive
  PROVE  DownloadInv'
<1>1. dl.pc = "save" /\ dl.pc \in Download!Working /\ UNCHANGED <<path, archive>>
  BY DEF Download!OpenArchive, Download!Working
<1>2. CASE Len(archive) > MaxCount
  <2>1. dl.written \in Nat /\ dl.written <= MaxTotal + MaxFile
    BY <1>1, OnItsWay, LimitsAssumption
  <2> QED
    BY <1>1, <1>2, <2>1, Returned DEF Download!OpenArchive, Download!ReturnError
<1>3. CASE ~(Len(archive) > MaxCount)
  <2>1. dl' = [dl EXCEPT !.pc = "first"]
    BY <1>3 DEF Download!OpenArchive
  <2>2. Len(archive) <= MaxCount
    BY <1>1, <1>3, OnItsWay, LimitsAssumption DEF Typed
  <2>3. DOMAIN dl = {"pc", "at", "total", "written", "names", "db", "temp", "before"}
    BY <1>1, OnItsWay
  <2>4. dl'.pc = "first" /\ dl'.at = 1
    BY <1>1, <2>1, <2>3, OnItsWay DEF Imported
  <2>5. /\ DOMAIN dl' = DOMAIN dl /\ dl'.before = dl.before /\ dl'.total = dl.total
        /\ dl'.written = dl.written /\ dl'.db = dl.db /\ dl'.temp = dl.temp /\ dl'.names = dl.names
    BY <2>1, <2>3
  <2>6. FirstDone' = FirstDone /\ SecondDone' = SecondDone
    BY <1>1, <2>4 DEF FirstDone, SecondDone
  <2>7. Imported'
    BY <1>1, <2>2, <2>4, <2>5, <2>6, OnItsWay, ImportedSame DEF Download!Working
  <2> QED
    BY <1>1, <2>4, <2>5, <2>7, OnItsWay, Goes DEF Importing, Placed
<1> QED
  BY <1>2, <1>3

\* The bytes of the current entry are unpacked, and counted against the total.
LEMMA Counting ==
  ASSUME DownloadInv, dl.pc \in {"first", "second"}, dl.at <= Len(archive),
         NEW n \in Nat, n = Download!Smaller(archive[dl.at].size, MaxFile),
         NEW u, DOMAIN u = DOMAIN dl, u.pc = dl.pc, u.at = dl.at, u.temp = dl.temp,
         u.before = dl.before, u.db \in Databases \cup {NoDatabase},
         u.written \in Nat, u.written <= dl.written + n,
         NEW first, first = (IF dl.pc = "first" THEN dl.at ELSE Len(archive)),
         NEW second, second = (IF dl.pc = "first" THEN 0 ELSE dl.at),
         DatabaseFound(archive, first, u.db), NamesFound(archive, first, u.names),
         FilesFound(archive, second, u.names),
         dl.at \notin CountedIn(archive, FirstDone, SecondDone),
         CountedIn(archive, first, second) = CountedIn(archive, FirstDone, SecondDone) \cup {dl.at},
         Download!Count(n, u), UNCHANGED <<path, archive>>
  PROVE  DownloadInv'
<1>1. dl.pc \in Download!Working
  BY DEF Download!Working
<1>2. n <= MaxFile
  BY <1>1, OnItsWay, LimitsAssumption DEF Download!Smaller, Typed
<1>3. CASE dl.total + n > MaxTotal
  <2>1. Download!Return(dl.pc, u.written)
    BY <1>3 DEF Download!Count, Download!Exceeds
  <2>2. u.written <= MaxTotal + MaxFile
    BY <1>1, <1>2, OnItsWay, LimitsAssumption
  <2> QED
    BY <1>1, <2>1, <2>2, Returned
<1>4. CASE ~(dl.total + n > MaxTotal)
  <2>1. dl' = [u EXCEPT !.at = dl.at + 1, !.total = dl.total + n]
    BY <1>4 DEF Download!Count, Download!Exceeds
  <2>2. DOMAIN dl = {"pc", "at", "total", "written", "names", "db", "temp", "before"}
    BY <1>1, OnItsWay
  <2>3. /\ DOMAIN dl' = DOMAIN dl /\ dl'.pc = dl.pc /\ dl'.at = dl.at + 1 /\ dl'.total = dl.total + n
        /\ dl'.written = u.written /\ dl'.names = u.names /\ dl'.db = u.db
        /\ dl'.temp = dl.temp /\ dl'.before = dl.before
    BY <2>1, <2>2
  <2>4. dl.at \in 1..Len(archive) /\ Len(archive) \in Nat
    BY <1>1, OnItsWay DEF Typed
  <2>5. FirstDone' = first /\ SecondDone' = second
    BY <2>3, <2>4 DEF FirstDone, SecondDone
  <2>6. /\ dl.total + n <= MaxTotal /\ dl.total + n \in 0..MaxTotal
        /\ u.written <= dl.total + n
    BY <1>1, <1>4, OnItsWay, LimitsAssumption
  <2>7. Totalled(archive, CountedIn(archive, first, second), dl.total + n)
    <3> DEFINE S == CountedIn(archive, FirstDone, SecondDone)
    <3>1. Typed(archive) /\ dl.at \in DOMAIN archive /\ dl.total \in Nat /\ dl.at \notin S
      BY <1>1, <2>4, OnItsWay DEF Typed
    <3>2. Totalled(archive, S, dl.total)
      BY <1>1, OnItsWay DEF Imported
    <3> HIDE DEF S
    <3>3. Totalled(archive, S \cup {dl.at}, dl.total + n)
      BY <2>6, <3>1, <3>2, TotalAdded
    <3> QED
      BY <3>3 DEF S
  <2>8. Imported'
    BY <1>1, <2>3, <2>5, <2>7, OnItsWay DEF Imported
  <2>9. dl.temp = << >>
    BY <1>1, OnItsWay DEF Placed, Importing
  <2> QED
    BY <1>1, <2>3, <2>4, <2>6, <2>8, <2>9, OnItsWay, Goes DEF Importing
<1> QED
  BY <1>3, <1>4

\* An entry is passed over.
LEMMA Skipping ==
  ASSUME DownloadInv, dl.pc \in {"first", "second"}, dl.at <= Len(archive),
         NEW first, first = (IF dl.pc = "first" THEN dl.at ELSE Len(archive)),
         NEW second, second = (IF dl.pc = "first" THEN 0 ELSE dl.at),
         DatabaseFound(archive, first, dl.db), NamesFound(archive, first, dl.names),
         FilesFound(archive, second, dl.names),
         CountedIn(archive, first, second) = CountedIn(archive, FirstDone, SecondDone),
         Download!Skip, UNCHANGED <<path, archive>>
  PROVE  DownloadInv'
<1>1. dl.pc \in Download!Working
  BY DEF Download!Working
<1>2. DOMAIN dl = {"pc", "at", "total", "written", "names", "db", "temp", "before"}
  BY <1>1, OnItsWay
<1>3. /\ DOMAIN dl' = DOMAIN dl /\ dl'.pc = dl.pc /\ dl'.at = dl.at + 1 /\ dl'.total = dl.total
      /\ dl'.written = dl.written /\ dl'.names = dl.names /\ dl'.db = dl.db
      /\ dl'.temp = dl.temp /\ dl'.before = dl.before
  BY <1>2 DEF Download!Skip
<1>4. dl.at \in 1..Len(archive) /\ Len(archive) \in Nat
  BY <1>1, OnItsWay DEF Typed
<1>5. FirstDone' = first /\ SecondDone' = second
  BY <1>3, <1>4 DEF FirstDone, SecondDone
<1>6. Imported'
  BY <1>1, <1>3, <1>5, OnItsWay DEF Imported
<1>7. dl.temp = << >>
  BY <1>1, OnItsWay DEF Placed, Importing
<1> QED
  BY <1>1, <1>3, <1>4, <1>6, <1>7, OnItsWay, Goes DEF Importing

\* The first pass (ImportColpkg): a database, a map, or another entry.
LEMMA FirstPassKeeps ==
  ASSUME DownloadInv, Download!FirstPass
  PROVE  DownloadInv'
<1> DEFINE n == dl.at - 1
<1>1. dl.pc = "first" /\ dl.pc \in Download!Working /\ dl.at <= Len(archive) /\ UNCHANGED <<path, archive>>
  BY DEF Download!FirstPass, Download!Working
<1>2. /\ Typed(archive) /\ n \in Nat /\ n + 1 = dl.at /\ dl.at \in DOMAIN archive
      /\ FirstDone = n /\ SecondDone = 0
  BY <1>1, OnItsWay DEF Typed, FirstDone, SecondDone
<1>3. /\ DatabaseFound(archive, n, dl.db) /\ NamesFound(archive, n, dl.names)
      /\ DOMAIN dl = {"pc", "at", "total", "written", "names", "db", "temp", "before"}
      /\ dl.written \in Nat
  BY <1>1, <1>2, OnItsWay DEF Imported
<1>4. \A names : FilesFound(archive, 0, names)
  BY <1>2, Sets DEF FilesFound, UpTo, Download!Unpacked, Download!Indices, Typed
<1>5. archive[dl.at].size \in Nat
  BY <1>2 DEF Typed
<1> HIDE DEF n
<1>6. CASE Download!ExtractDatabase
  <2>1. dl.at \in DatabasesIn(archive) /\ dl.at \notin MapsIn(archive)
    BY <1>2, <1>6 DEF Download!ExtractDatabase, Download!Entry, DatabasesIn, MapsIn, Download!Indices
  <2>2. CASE archive[dl.at].size > MaxFile
    <3>1. Download!Return(dl.pc, dl.written)
      BY <1>6, <2>2 DEF Download!ExtractDatabase, Download!Entry, Download!ReturnError
    <3>2. dl.written <= MaxTotal + MaxFile
      BY <1>1, OnItsWay, LimitsAssumption
    <3> QED
      BY <1>1, <1>3, <3>1, <3>2, Returned
  <2>3. CASE ~(archive[dl.at].size > MaxFile)
    <3> DEFINE size == archive[dl.at].size
               u == [dl EXCEPT !.db = archive[dl.at].id, !.written = @ + size]
    <3>1. Download!Count(size, u)
      BY <1>6, <2>3 DEF Download!ExtractDatabase, Download!Entry
    <3>2. /\ DOMAIN u = DOMAIN dl /\ u.pc = dl.pc /\ u.at = dl.at /\ u.temp = dl.temp
          /\ u.before = dl.before /\ u.names = dl.names
          /\ u.db = archive[dl.at].id /\ u.written = dl.written + size
      BY <1>3
    <3>3. size = Download!Smaller(archive[dl.at].size, MaxFile) /\ size <= MaxFile
      BY <1>5, <2>3, LimitsAssumption DEF Download!Smaller
    <3>4. DatabaseFound(archive, dl.at, u.db)
      BY <1>2, <1>3, <2>1, <3>2, <3>3, DatabaseRead
    <3>5. NamesFound(archive, dl.at, u.names)
      BY <1>2, <1>3, <2>1, <3>2, NamesSame
    <3>6. u.db \in Databases
      BY <1>2, <2>1, <3>2 DEF Typed, DatabasesIn, Download!Indices
    <3>7. /\ dl.at \notin CountedIn(archive, FirstDone, SecondDone)
          /\ CountedIn(archive, dl.at, 0) = CountedIn(archive, FirstDone, SecondDone) \cup {dl.at}
      BY <1>2, <2>1, CountedFirst
    <3>8. size \in Nat /\ u.written \in Nat /\ u.written <= dl.written + size
      BY <1>3, <1>5, <3>2
    <3> HIDE DEF u, size
    <3> QED
      BY <1>1, <1>4, <3>1, <3>2, <3>3, <3>4, <3>5, <3>6, <3>7, <3>8, Counting
  <2> QED
    BY <2>2, <2>3
<1>7. CASE Download!ReadMap
  <2> DEFINE size == Download!Smaller(archive[dl.at].size, MaxFile)
             u == [dl EXCEPT !.names = Download!Unmarshal(archive[dl.at], @)]
  <2>1. dl.at \in MapsIn(archive) /\ dl.at \notin DatabasesIn(archive)
    BY <1>2, <1>7 DEF Download!ReadMap, Download!Entry, DatabasesIn, MapsIn, Download!Indices
  <2>2. archive[dl.at].json \in {"object", "null", "malformed"}
    BY <1>2, <2>1 DEF Typed, MapsIn, Download!Indices
  <2>3. Download!Count(size, u)
    BY <1>7 DEF Download!ReadMap, Download!Entry
  <2>4. /\ DOMAIN u = DOMAIN dl /\ u.pc = dl.pc /\ u.at = dl.at /\ u.temp = dl.temp
        /\ u.before = dl.before /\ u.db = dl.db /\ u.written = dl.written
        /\ u.names = Download!Unmarshal(archive[dl.at], dl.names)
    BY <1>3
  <2>5. size \in Nat /\ u.written <= dl.written + size
    BY <1>3, <1>5, <2>4, LimitsAssumption DEF Download!Smaller
  <2>6. DatabaseFound(archive, dl.at, u.db)
    BY <1>2, <1>3, <2>1, <2>4, DatabaseSame
  <2>7. NamesFound(archive, dl.at, u.names)
    <3>1. CASE archive[dl.at].json = "object"
      BY <1>2, <1>3, <2>1, <2>4, <3>1, NamesRead DEF Download!Unmarshal
    <3>2. CASE archive[dl.at].json = "null"
      BY <1>2, <2>1, <2>4, <3>2, NamesCleared DEF Download!Unmarshal
    <3>3. CASE archive[dl.at].json = "malformed"
      BY <1>2, <1>3, <2>4, <3>3, NamesSame DEF Download!Unmarshal
    <3> QED
      BY <2>2, <3>1, <3>2, <3>3
  <2>8. /\ dl.at \notin CountedIn(archive, FirstDone, SecondDone)
        /\ CountedIn(archive, dl.at, 0) = CountedIn(archive, FirstDone, SecondDone) \cup {dl.at}
    BY <1>2, <2>1, CountedFirst
  <2>9. u.db \in Databases \cup {NoDatabase} /\ u.written \in Nat
    BY <1>1, <2>4, OnItsWay
  <2>10. size = Download!Smaller(archive[dl.at].size, MaxFile)
    OBVIOUS
  <2> HIDE DEF u, size
  <2> QED
    BY <1>1, <1>4, <2>3, <2>4, <2>5, <2>6, <2>7, <2>8, <2>9, <2>10, Counting
<1>8. CASE archive[dl.at].kind \in {"placeholder", "file"} /\ Download!Skip
  <2>1. dl.at \notin DatabasesIn(archive) /\ dl.at \notin MapsIn(archive)
    BY <1>8 DEF DatabasesIn, MapsIn, Download!Indices
  <2>2. DatabaseFound(archive, dl.at, dl.db) /\ NamesFound(archive, dl.at, dl.names)
    BY <1>2, <1>3, <2>1, DatabaseSame, NamesSame
  <2>3. CountedIn(archive, dl.at, 0) = CountedIn(archive, FirstDone, SecondDone)
    BY <1>2, <2>1, CountedFirst
  <2> QED
    BY <1>1, <1>4, <1>8, <2>2, <2>3, Skipping
<1> QED
  BY <1>6, <1>7, <1>8 DEF Download!FirstPass, Download!Entry

\* A step that only goes on, with nothing new found.
LEMMA GoesOn ==
  ASSUME DownloadInv, dl.pc \in Importing \ {"save"}, dl'.pc \in (Importing \ {"save"}) \cup {"copy"},
         DOMAIN dl' = DOMAIN dl, dl'.before = dl.before, dl'.total = dl.total,
         dl'.written = dl.written, dl'.db = dl.db, dl'.names = dl.names, dl'.temp = dl.temp,
         dl'.at \in 1..(Len(archive) + 1), FirstDone' = FirstDone, SecondDone' = SecondDone,
         UNCHANGED <<path, archive>>
  PROVE  DownloadInv'
<1>1. dl.pc \in Download!Working /\ dl'.pc \in Download!Working \ {"save"}
  BY DEF Importing, Download!Working
<1>2. Imported /\ dl.temp = << >> /\ Len(archive) <= MaxCount
  BY <1>1, OnItsWay DEF Imported, Placed, Importing
<1>3. Imported'
  BY <1>1, <1>2, ImportedSame
<1>4. \A i \in DOMAIN dl'.temp : dl'.db # NoDatabase /\ dl'.temp[i] = dl'.db
  BY <1>1, OnItsWay DEF Placed
<1> QED
  BY <1>1, <1>2, <1>3, <1>4, OnItsWay, Goes

LEMMA EndFirstKeeps ==
  ASSUME DownloadInv, Download!EndFirstPass
  PROVE  DownloadInv'
<1>1. /\ dl.pc = "first" /\ dl.pc \in Download!Working /\ dl.at > Len(archive)
      /\ dl' = [dl EXCEPT !.pc = "second", !.at = 1, !.total = dl.total] /\ UNCHANGED <<path, archive>>
  BY DEF Download!EndFirstPass, Download!TotalSoFar, Download!Working
<1>2. /\ DOMAIN dl' = DOMAIN dl /\ dl'.pc = "second" /\ dl'.at = 1 /\ dl'.total = dl.total
      /\ dl'.written = dl.written /\ dl'.names = dl.names /\ dl'.db = dl.db
      /\ dl'.temp = dl.temp /\ dl'.before = dl.before
  BY <1>1, OnItsWay
<1>3. dl.at = Len(archive) + 1 /\ Len(archive) \in Nat
  BY <1>1, OnItsWay DEF Typed
<1>4. FirstDone' = FirstDone /\ SecondDone' = SecondDone
  BY <1>1, <1>2, <1>3 DEF FirstDone, SecondDone
<1> QED
  BY <1>1, <1>2, <1>3, <1>4, GoesOn DEF Importing

\* The second pass: a file in the map, or another entry.
LEMMA SecondPassKeeps ==
  ASSUME DownloadInv, Download!SecondPass
  PROVE  DownloadInv'
<1> DEFINE m == dl.at - 1
           N == Len(archive)
<1>1. dl.pc = "second" /\ dl.pc \in Download!Working /\ dl.at <= N /\ UNCHANGED <<path, archive>>
  BY DEF Download!SecondPass, Download!Working
<1>2. /\ Typed(archive) /\ m \in Nat /\ m + 1 = dl.at /\ dl.at \in DOMAIN archive
      /\ FirstDone = N /\ SecondDone = m
  BY <1>1, OnItsWay DEF Typed, FirstDone, SecondDone
<1>3. /\ DatabaseFound(archive, N, dl.db) /\ NamesFound(archive, N, dl.names)
      /\ FilesFound(archive, m, dl.names)
      /\ DOMAIN dl = {"pc", "at", "total", "written", "names", "db", "temp", "before"}
      /\ dl.written \in Nat /\ dl.db \in Databases \cup {NoDatabase}
  BY <1>1, <1>2, OnItsWay DEF Imported
<1>4. Download!Mapped <=> dl.at \in Download!Unpacked(archive)
  BY <1>2, <1>3, MappedFiles DEF Download!Mapped, Download!Entry
<1>5. archive[dl.at].size \in Nat /\ Download!Unpacked(archive) \in SUBSET Nat
  BY <1>2, Sets DEF Typed
<1> HIDE DEF m
<1>6. UpTo(dl.at, Download!Unpacked(archive))
        = UpTo(m, Download!Unpacked(archive)) \cup (Download!Unpacked(archive) \cap {dl.at})
  BY <1>2, <1>5, OneMore
<1>7. CASE Download!ExtractFile
  <2>1. dl.at \in Download!Unpacked(archive)
    BY <1>4, <1>7 DEF Download!ExtractFile
  <2>2. CASE dl.names[archive[dl.at].key] = Invalid \/ archive[dl.at].size > MaxFile
    <3>1. Download!Return(dl.pc, dl.written)
      BY <1>7, <2>2 DEF Download!ExtractFile, Download!Entry, Download!ReturnError
    <3>2. dl.written <= MaxTotal + MaxFile
      BY <1>1, OnItsWay, LimitsAssumption
    <3> QED
      BY <1>1, <1>3, <3>1, <3>2, Returned
  <2>3. CASE ~(dl.names[archive[dl.at].key] = Invalid \/ archive[dl.at].size > MaxFile)
    <3> DEFINE size == archive[dl.at].size
               u == [dl EXCEPT !.written = @ + size]
    <3>1. Download!Count(size, u)
      BY <1>7, <2>3 DEF Download!ExtractFile, Download!Entry
    <3>2. /\ DOMAIN u = DOMAIN dl /\ u.pc = dl.pc /\ u.at = dl.at /\ u.temp = dl.temp
          /\ u.before = dl.before /\ u.names = dl.names
          /\ u.db = dl.db /\ u.written = dl.written + size
      BY <1>3
    <3>3. size = Download!Smaller(archive[dl.at].size, MaxFile) /\ size <= MaxFile
      BY <1>5, <2>3, LimitsAssumption DEF Download!Smaller
    <3>4. FilesFound(archive, dl.at, u.names)
      BY <1>3, <1>6, <2>3, <3>2, <3>3 DEF FilesFound
    <3>5. /\ dl.at \notin CountedIn(archive, FirstDone, SecondDone)
          /\ CountedIn(archive, N, dl.at) = CountedIn(archive, FirstDone, SecondDone) \cup {dl.at}
      BY <1>2, <2>1, CountedSecond
    <3>6. size \in Nat /\ u.written \in Nat /\ u.written <= dl.written + size
      BY <1>3, <1>5, <3>2
    <3> HIDE DEF u, size
    <3> QED
      BY <1>1, <1>3, <3>1, <3>2, <3>3, <3>4, <3>5, <3>6, Counting
  <2> QED
    BY <2>2, <2>3
<1>8. CASE ~Download!Mapped /\ Download!Skip
  <2>1. dl.at \notin Download!Unpacked(archive)
    BY <1>4, <1>8
  <2>2. FilesFound(archive, dl.at, dl.names)
    BY <1>3, <1>6, <2>1 DEF FilesFound
  <2>3. CountedIn(archive, N, dl.at) = CountedIn(archive, FirstDone, SecondDone)
    BY <1>2, <2>1, CountedSecond
  <2> QED
    BY <1>1, <1>3, <1>8, <2>2, <2>3, Skipping
<1> QED
  BY <1>7, <1>8 DEF Download!SecondPass

LEMMA EndSecondKeeps ==
  ASSUME DownloadInv, Download!EndSecondPass
  PROVE  DownloadInv'
<1>1. /\ dl.pc = "second" /\ dl.pc \in Download!Working /\ dl.at > Len(archive)
      /\ dl' = [dl EXCEPT !.pc = "place"] /\ UNCHANGED <<path, archive>>
  BY DEF Download!EndSecondPass, Download!Working
<1>2. /\ DOMAIN dl' = DOMAIN dl /\ dl'.pc = "place" /\ dl'.at = dl.at /\ dl'.total = dl.total
      /\ dl'.written = dl.written /\ dl'.names = dl.names /\ dl'.db = dl.db
      /\ dl'.temp = dl.temp /\ dl'.before = dl.before
  BY <1>1, OnItsWay
<1>3. dl.at = Len(archive) + 1 /\ Len(archive) \in Nat /\ dl.at \in 1..(Len(archive) + 1)
  BY <1>1, OnItsWay DEF Typed
<1>4. FirstDone' = FirstDone /\ SecondDone' = SecondDone
  BY <1>1, <1>2, <1>3 DEF FirstDone, SecondDone
<1> QED
  BY <1>1, <1>2, <1>3, <1>4, GoesOn DEF Importing

LEMMA CreateTempKeeps ==
  ASSUME DownloadInv, Download!CreateTemp
  PROVE  DownloadInv'
<1>1. /\ dl.pc = "place" /\ dl.pc \in Download!Working
      /\ dl' = [dl EXCEPT !.pc = "copy"] /\ UNCHANGED <<path, archive>>
  BY DEF Download!CreateTemp, Download!Working
<1>2. /\ DOMAIN dl' = DOMAIN dl /\ dl'.pc = "copy" /\ dl'.at = dl.at /\ dl'.total = dl.total
      /\ dl'.written = dl.written /\ dl'.names = dl.names /\ dl'.db = dl.db
      /\ dl'.temp = dl.temp /\ dl'.before = dl.before
  BY <1>1, OnItsWay
<1>3. FirstDone' = FirstDone /\ SecondDone' = SecondDone
  BY <1>1, <1>2 DEF FirstDone, SecondDone
<1> QED
  BY <1>1, <1>2, <1>3, OnItsWay, GoesOn DEF Importing

LEMMA CopyPieceKeeps ==
  ASSUME DownloadInv, Download!CopyPiece
  PROVE  DownloadInv'
<1>1. /\ dl.pc = "copy" /\ dl.pc \in Download!Working /\ dl.db # NoDatabase /\ Len(dl.temp) < Pieces
      /\ dl' = [dl EXCEPT !.temp = Append(@, dl.db)] /\ UNCHANGED <<path, archive>>
  BY DEF Download!CopyPiece, Download!DuringCopy, Download!Working
<1>2. /\ DOMAIN dl' = DOMAIN dl /\ dl'.pc = "copy" /\ dl'.at = dl.at /\ dl'.total = dl.total
      /\ dl'.written = dl.written /\ dl'.names = dl.names /\ dl'.db = dl.db
      /\ dl'.temp = Append(dl.temp, dl.db) /\ dl'.before = dl.before
  BY <1>1, OnItsWay
<1>3. dl.temp \in Seq(Databases) /\ dl.db \in Databases
  BY <1>1, OnItsWay, PiecesAssumption, BoundedSequences
<1>4. dl'.temp \in Download!SeqOf(Databases, Pieces)
  <2>1. dl'.temp \in Seq(Databases) /\ Len(dl'.temp) <= Pieces
    BY <1>1, <1>2, <1>3, PiecesAssumption
  <2> QED
    BY <2>1, PiecesAssumption, BoundedSequences
<1>5. \A i \in DOMAIN dl'.temp : dl'.temp[i] = dl'.db
  BY <1>1, <1>2, <1>3, OnItsWay DEF Placed
<1>6. FirstDone' = FirstDone /\ SecondDone' = SecondDone
  BY <1>1, <1>2 DEF FirstDone, SecondDone
<1>7. Imported'
  BY <1>1, <1>2, <1>6, OnItsWay, ImportedSame DEF Imported
<1> QED
  BY <1>1, <1>2, <1>4, <1>5, <1>7, OnItsWay, Goes DEF Importing

\* The import has found what makes the archive acceptable.
LEMMA Accepted ==
  ASSUME DownloadInv, dl.pc \in {"place", "copy", "clean", "media"}, dl.db # NoDatabase
  PROVE  /\ Download!Acceptable(archive) /\ dl.db = Download!LastDatabase(archive)
         /\ dl.db \in Databases
<1>1. dl.pc \in Download!Working /\ FirstDone = Len(archive) /\ SecondDone = Len(archive)
  BY DEF Download!Working, FirstDone, SecondDone
<1> QED
  BY <1>1, OnItsWay, Complete DEF Imported

\* The two ways in which renameWithCopy gives the collection its new database.
LEMMA Replaced ==
  ASSUME DownloadInv, dl.pc \in {"place", "copy"}, dl.db # NoDatabase, path' = Whole(dl.db),
         archive' = archive, NEW next \in {"clean", "media"}, dl' = [dl EXCEPT !.pc = next]
  PROVE  DownloadInv'
<1>1. dl.pc \in Download!Working /\ next \in Download!Working
  BY DEF Download!Working
<1>2. DOMAIN dl = {"pc", "at", "total", "written", "names", "db", "temp", "before"}
  BY <1>1, OnItsWay
<1>3. /\ DOMAIN dl' = DOMAIN dl /\ dl'.pc = next /\ dl'.at = dl.at /\ dl'.total = dl.total
      /\ dl'.written = dl.written /\ dl'.names = dl.names /\ dl'.db = dl.db
      /\ dl'.temp = dl.temp /\ dl'.before = dl.before
  BY <1>2
<1>4. dl.db \in Databases /\ dl.db = Download!LastDatabase(archive)
  BY Accepted
<1>5. path' \in Download!SeqOf(Databases, Pieces)
  BY <1>4, PiecesAssumption DEF Whole, Download!SeqOf
<1>6. Download!TypeOK'
  BY <1>1, <1>3, <1>5, OnItsWay DEF DownloadInv, Download!TypeOK, Download!Working
<1>7. Shape' /\ WrittenBounded' /\ AnswerMeaning'
  BY <1>1, <1>2, <1>3, OnItsWay
     DEF Shape, WrittenBounded, AnswerMeaning, Download!AnswerMeaning, Download!Working
<1>8. FirstDone' = FirstDone /\ SecondDone' = SecondDone
  BY <1>3 DEF FirstDone, SecondDone
<1>9. Imported'
  BY <1>1, <1>3, <1>8, OnItsWay, ImportedSame DEF Imported
<1>10. Placed'
  BY <1>1, <1>3, <1>4, OnItsWay DEF Placed, Importing, Download!LastDatabase
<1> QED
  BY <1>4, <1>6, <1>7, <1>9, <1>10 DEF DownloadInv

LEMMA RenameDatabaseKeeps ==
  ASSUME DownloadInv, Download!RenameDatabase
  PROVE  DownloadInv'
BY Replaced DEF Download!RenameDatabase, Whole, Download!Whole

\* A whole copy is the database that was found.
LEMMA CopyWhole ==
  ASSUME DownloadInv, dl.pc = "copy", Len(dl.temp) = Pieces
  PROVE  dl.temp = Whole(dl.db) /\ dl.db # NoDatabase
<1>1. dl.pc \in Download!Working
  BY DEF Download!Working
<1>2. dl.temp \in Seq(Databases) /\ \A i \in DOMAIN dl.temp : dl.db # NoDatabase /\ dl.temp[i] = dl.db
  BY <1>1, OnItsWay, PiecesAssumption, BoundedSequences DEF Placed
<1>3. DOMAIN dl.temp = 1..Pieces /\ 1 \in 1..Pieces
  BY <1>2, PiecesAssumption
<1> QED
  BY <1>2, <1>3 DEF Whole

LEMMA RenameCopyKeeps ==
  ASSUME DownloadInv, Download!RenameCopy
  PROVE  DownloadInv'
BY CopyWhole, Replaced DEF Download!RenameCopy

LEMMA RemoveSourceKeeps ==
  ASSUME DownloadInv, Download!RemoveSource
  PROVE  DownloadInv'
<1>1. /\ dl.pc = "clean" /\ dl.pc \in Download!Working
      /\ dl' = [dl EXCEPT !.pc = "media"] /\ UNCHANGED <<path, archive>>
  BY DEF Download!RemoveSource, Download!AfterRemoval, Download!Working
<1>2. DOMAIN dl = {"pc", "at", "total", "written", "names", "db", "temp", "before"}
  BY <1>1, OnItsWay
<1>3. /\ DOMAIN dl' = DOMAIN dl /\ dl'.pc = "media" /\ dl'.at = dl.at /\ dl'.total = dl.total
      /\ dl'.written = dl.written /\ dl'.names = dl.names /\ dl'.db = dl.db
      /\ dl'.temp = dl.temp /\ dl'.before = dl.before
  BY <1>1, <1>2
<1>4. Download!TypeOK'
  BY <1>1, <1>3, OnItsWay DEF DownloadInv, Download!TypeOK, Download!Working
<1>5. Shape' /\ WrittenBounded' /\ AnswerMeaning'
  BY <1>1, <1>2, <1>3, OnItsWay
     DEF Shape, WrittenBounded, AnswerMeaning, Download!AnswerMeaning, Download!Working
<1>6. FirstDone' = FirstDone /\ SecondDone' = SecondDone
  BY <1>1, <1>3 DEF FirstDone, SecondDone
<1>7. Imported'
  BY <1>1, <1>3, <1>6, OnItsWay, ImportedSame DEF Imported, Download!Working
<1>8. Placed'
  BY <1>1, <1>3, OnItsWay DEF Placed, Importing, Download!LastDatabase
<1> QED
  BY <1>1, <1>4, <1>5, <1>7, <1>8 DEF DownloadInv

LEMMA MoveMediaKeeps ==
  ASSUME DownloadInv, Download!MoveMedia
  PROVE  DownloadInv'
<1>1. dl.pc \in Download!Working /\ dl.pc = "media" /\ Download!Return("ok", dl.written)
  BY DEF Download!MoveMedia, Download!Working
<1>2. dl.written \in Nat /\ dl.written <= MaxTotal + MaxFile
  BY <1>1, OnItsWay, LimitsAssumption
<1> QED
  BY <1>1, <1>2, Returned DEF Download!MoveMedia

\* The call or the process ends, and nothing of it stays but the collection.
LEMMA ForgottenKeeps ==
  ASSUME DownloadInv, Download!EndDownload \/ Download!CrashDownload
  PROVE  DownloadInv'
<1>1. dl' = Download!Idle /\ archive' = << >> /\ path' = path
  BY DEF Download!EndDownload, Download!CrashDownload
<1>2. dl'.pc = "idle"
  BY <1>1 DEF Download!Idle
<1> QED
  BY <1>1, <1>2
     DEF DownloadInv, Download!TypeOK, Shape, WrittenBounded, AnswerMeaning,
         Download!AnswerMeaning, Download!Working, Download!Idle

LEMMA DownloadKeeps ==
  ASSUME DownloadInv, Download!Next
  PROVE  DownloadInv'
BY BeginKeeps, FailKeeps, OpenKeeps, FirstPassKeeps, EndFirstKeeps, SecondPassKeeps, EndSecondKeeps,
   RenameDatabaseKeeps, CreateTempKeeps, CopyPieceKeeps, RenameCopyKeeps, RemoveSourceKeeps,
   MoveMediaKeeps, ForgottenKeeps
   DEF Download!Next

\* Whatever happens elsewhere leaves a download alone.
LEMMA DownloadStays ==
  ASSUME DownloadInv, UNCHANGED <<path, archive, dl>>
  PROVE  DownloadInv'
BY DEF DownloadInv, Download!TypeOK, Shape, WrittenBounded, Imported, Placed, FirstDone, SecondDone,
       AnswerMeaning, Download!AnswerMeaning, Download!LastDatabase

-----------------------------------------------------------------------------
(* The invariant of an upload                                               *)

Streaming == {"header", "copy", "flush", "abort", "trailer", "close", "ended"}

\* The streamer's record, while there is one.
StreamFields ==
  [pc : Streaming, file : Upload!SeqOf(Databases, Pieces), at : 0..Pieces, open : BOOLEAN,
   held : Upload!SeqOf(Databases, Pieces), sent : Upload!SeqOf(Upload!Parts, Pieces + 3),
   pipe : {"open", "eof", "broken"}, body : {"waiting", "read", "closed"},
   failed : BOOLEAN, stored : BOOLEAN]

\* The pieces of the file d are in the form, from the second part on, as far as part n.
HasPieces(s, n, d) == \A i \in 2..n : s[i] = d

\* A complete form.
FormOf(s, d) == Len(s) = Pieces + 3 /\ HasPieces(s, Pieces + 1, d)

\* What has been written into the pipe and what the compressor holds is what has been
\* read of the file d; the form is complete only after all of it.
Streamed(s, d) ==
  /\ s.pc = "header" => s.sent = << >> /\ s.held = << >> /\ s.at = 0
  /\ s.pc \in {"copy", "flush", "abort"} =>
       /\ Len(s.sent) >= 1 /\ Len(s.sent) + Len(s.held) = 1 + s.at
       /\ HasPieces(s.sent, Len(s.sent), d) /\ \A i \in DOMAIN s.held : s.held[i] = d
  /\ s.pc = "flush" => s.at = Pieces
  /\ s.pc = "trailer" => Len(s.sent) = Pieces + 2 /\ HasPieces(s.sent, Pieces + 1, d)
  /\ s.pc \notin {"close", "ended"} => ~Upload!Contains(s.sent, "trailer")
  /\ Upload!Contains(s.sent, "trailer") => FormOf(s.sent, d)
  /\ s.stored => Upload!Contains(s.sent, "trailer")

\* A streamer works for the last call of FullUpload, on the file that this one opened.
Serves(d) ==
  /\ stream \in StreamFields /\ main.pc # "idle" /\ main.file = stream.file
  /\ stream.file = Whole(d) /\ Streamed(stream, d)
  /\ stream.stored => remote = stream.file

UploadInv ==
  /\ Upload!TypeOK
  /\ \E d \in Databases : remote = Whole(d)
  /\ stream # Upload!Ended => \E d \in Databases : Serves(d)
  /\ main.pc \in {"request", "do"} => stream # Upload!Ended
  /\ main.pc = "done" /\ main.answer = "ok" => remote = main.file
  /\ main.pc = "done" /\ main.answer = "ok" => stream # Upload!Ended /\ stream.stored

-----------------------------------------------------------------------------
(* The steps of an upload                                                   *)

LEMMA WholeFile ==
  ASSUME NEW d \in Databases
  PROVE  /\ Whole(d) \in Upload!SeqOf(Databases, Pieces) /\ Len(Whole(d)) = Pieces
         /\ \A i \in 1..Pieces : Whole(d)[i] = d
BY PiecesAssumption DEF Whole, Upload!SeqOf

\* A step of the streamer, given that what it has written stays in order.
LEMMA StreamerStep ==
  ASSUME UploadInv, NEW d \in Databases, Serves(d), UNCHANGED <<main, remote>>,
         stream' \in StreamFields, stream'.file = stream.file, stream'.stored = stream.stored,
         Streamed(stream', d)
  PROVE  UploadInv'
<1>1. Serves(d)'
  BY DEF Serves
<1>2. stream' # Upload!Ended
  <2>1. "file" \in DOMAIN stream'
    BY DEF StreamFields
  <2>2. "file" \notin DOMAIN Upload!Ended
    BY DEF Upload!Ended
  <2> QED
    BY <2>1, <2>2
<1>3. Upload!TypeOK'
  BY DEF UploadInv, Upload!TypeOK, StreamFields, Streaming
<1> QED
  BY <1>1, <1>2, <1>3 DEF UploadInv, Serves

\* A write to the pipe.
LEMMA Delivered ==
  ASSUME NEW s \in StreamFields, NEW parts \in Seq(Upload!Parts), NEW pc \in Streaming,
         Len(s.sent) + Len(parts) <= Pieces + 3, Upload!Deliver(s, parts, pc)
  PROVE  /\ stream' \in StreamFields /\ stream'.pc = pc /\ stream'.file = s.file /\ stream'.at = s.at
         /\ stream'.sent = s.sent \o parts /\ stream'.held = << >> /\ stream'.stored = s.stored
         /\ stream'.sent \in Seq(Upload!Parts)
<1>1. stream' = [s EXCEPT !.pc = pc, !.sent = s.sent \o parts, !.held = << >>]
  BY DEF Upload!Deliver, StreamFields
<1>2. s.sent \in Seq(Upload!Parts)
  BY PiecesAssumption, BoundedSequences DEF StreamFields
<1>3. s.sent \o parts \in Seq(Upload!Parts) /\ Len(s.sent \o parts) <= Pieces + 3
  BY <1>2, PiecesAssumption
<1>4. s.sent \o parts \in Upload!SeqOf(Upload!Parts, Pieces + 3)
  <2>1. Pieces + 3 \in Nat
    BY PiecesAssumption
  <2> QED
    BY <1>3, <2>1, BoundedSequences
<1>5. << >> \in Upload!SeqOf(Databases, Pieces)
  BY PiecesAssumption DEF Upload!SeqOf
<1> QED
  BY <1>1, <1>3, <1>4, <1>5 DEF StreamFields

\* A write that fails, or another step that only goes on.
LEMMA OnlyGoes ==
  ASSUME NEW s \in StreamFields, NEW t \in StreamFields, NEW d, Streamed(s, d),
         t.sent = s.sent, t.held = s.held, t.at = s.at, t.stored = s.stored,
         \/ t.pc = s.pc
         \/ t.pc \in {"close", "ended"}
         \/ s.pc = "copy" /\ t.pc = "abort"
         \/ (s.pc = "copy" /\ t.pc = "flush" /\ s.at = Pieces)
  PROVE  Streamed(t, d)
BY DEF Streamed

LEMMA Sequences ==
  ASSUME NEW d, Serves(d)
  PROVE  /\ stream.sent \in Seq(Upload!Parts) /\ stream.held \in Seq(Databases)
         /\ Len(stream.sent) \in Nat /\ Len(stream.held) \in Nat /\ stream.at \in 0..Pieces
         /\ Len(stream.held) <= Pieces
BY PiecesAssumption, BoundedSequences DEF Serves, StreamFields

LEMMA WriteHeaderKeeps ==
  ASSUME UploadInv, NEW d \in Databases, Serves(d), Upload!WriteHeader
  PROVE  UploadInv'
<1>1. stream.pc = "header" /\ UNCHANGED <<main, remote>> /\ stream \in StreamFields /\ Streamed(stream, d)
  BY DEF Upload!WriteHeader, Upload!Streamer, Serves
<1>2. CASE Upload!Deliver(stream, <<"header">>, "copy")
  <2>1. <<"header">> \in Seq(Upload!Parts) /\ Len(<<"header">>) = 1 /\ "copy" \in Streaming
    BY DEF Upload!Parts, Upload!Marks, Streaming
  <2>2. stream.sent = << >> /\ stream.at = 0 /\ ~Upload!Contains(stream.sent, "trailer")
    BY <1>1 DEF Streamed
  <2>3. /\ stream' \in StreamFields /\ stream'.pc = "copy" /\ stream'.file = stream.file
        /\ stream'.at = 0 /\ stream'.sent = <<"header">> /\ stream'.held = << >>
        /\ stream'.stored = stream.stored
    <3>1. Len(stream.sent) + Len(<<"header">>) <= Pieces + 3 /\ stream.sent \o <<"header">> = <<"header">>
      BY <2>2, PiecesAssumption
    <3> QED
      BY <1>1, <1>2, <2>1, <2>2, <3>1, Delivered
  <2>4. ~Upload!Contains(stream'.sent, "trailer")
    BY <2>3 DEF Upload!Contains
  <2>5. Streamed(stream', d)
    BY <1>1, <2>2, <2>3, <2>4 DEF Streamed, HasPieces
  <2> QED
    BY <1>1, <2>3, <2>5, StreamerStep
<1>3. CASE Upload!FailWrite("close")
  <2>1. stream' = [stream EXCEPT !.pc = "close", !.failed = TRUE]
    BY <1>3 DEF Upload!FailWrite
  <2>2. stream' \in StreamFields
    BY <1>1, <2>1 DEF StreamFields, Streaming
  <2>3. Streamed(stream', d)
    BY <1>1, <2>1, <2>2, OnlyGoes DEF StreamFields
  <2> QED
    BY <1>1, <2>1, <2>2, <2>3, StreamerStep DEF StreamFields
<1> QED
  BY <1>2, <1>3 DEF Upload!WriteHeader

\* What the compressor held, and the end of its frame, follow what has been written.
LEMMA Joined ==
  ASSUME NEW d \in Databases, NEW sent \in Seq(Upload!Parts), NEW held \in Seq(Databases),
         Len(sent) >= 1, HasPieces(sent, Len(sent), d), \A i \in DOMAIN held : held[i] = d,
         ~Upload!Contains(sent, "trailer"),
         NEW parts, parts \in {held, held \o <<"frame">>}
  PROVE  /\ parts \in Seq(Upload!Parts) /\ sent \o parts \in Seq(Upload!Parts)
         /\ Len(sent \o parts) = Len(sent) + Len(parts)
         /\ HasPieces(sent \o parts, Len(sent) + Len(held), d)
         /\ ~Upload!Contains(sent \o parts, "trailer")
<1>1. parts \in Seq(Upload!Parts)
  BY DEF Upload!Parts, Upload!Marks
<1>2. /\ sent \o parts \in Seq(Upload!Parts) /\ Len(sent \o parts) = Len(sent) + Len(parts)
      /\ Len(sent) \in Nat /\ Len(held) \in Nat /\ Len(parts) \in Nat
  BY <1>1
<1>3. Len(parts) >= Len(held) /\ \A i \in 1..Len(held) : parts[i] = d
  OBVIOUS
<1>4. ASSUME NEW i \in 2..(Len(sent) + Len(held))
      PROVE  (sent \o parts)[i] = d
  <2>1. CASE i <= Len(sent)
    BY <1>1, <2>1 DEF HasPieces
  <2>2. CASE ~(i <= Len(sent))
    <3>1. i - Len(sent) \in 1..Len(held)
      BY <1>2, <2>2
    <3>2. (sent \o parts)[i] = parts[i - Len(sent)]
      BY <1>1, <1>2, <1>3, <2>2, <3>1
    <3> QED
      BY <1>3, <3>1, <3>2
  <2> QED
    BY <2>1, <2>2
<1>5. ASSUME NEW i \in 1..Len(sent \o parts)
      PROVE  (sent \o parts)[i] # "trailer"
  <2>1. CASE i <= Len(sent)
    BY <1>1, <1>2, <2>1 DEF Upload!Contains
  <2>2. CASE ~(i <= Len(sent))
    <3>1. i - Len(sent) \in 1..Len(parts) /\ (sent \o parts)[i] = parts[i - Len(sent)]
      BY <1>1, <1>2, <2>2
    <3>2. \A j \in 1..Len(parts) : parts[j] \in {d, "frame"}
      OBVIOUS
    <3> QED
      BY <3>1, <3>2, DatabasesAssumption
  <2> QED
    BY <2>1, <2>2
<1> QED
  BY <1>1, <1>2, <1>4, <1>5 DEF HasPieces, Upload!Contains

\* Of what is in the form (a), held (b) and read (c).
LEMMA Sizes ==
  ASSUME NEW a \in Nat, NEW b \in Nat, NEW c \in 0..Pieces, a >= 1, a + b = 1 + c
  PROVE  /\ c < Pieces => b + 1 <= Pieces
         /\ a + (b + 1) = 1 + (c + 1) /\ a + (b + 1) = c + 2 /\ c + 2 <= Pieces + 3
BY PiecesAssumption

LEMMA CopyNextKeeps ==
  ASSUME UploadInv, NEW d \in Databases, Serves(d), Upload!CopyNext
  PROVE  UploadInv'
<1> DEFINE held == Append(stream.held, stream.file[stream.at + 1])
           s == [stream EXCEPT !.at = @ + 1, !.held = held]
<1>1. /\ stream.pc = "copy" /\ stream.at < Pieces /\ UNCHANGED <<main, remote>>
      /\ stream \in StreamFields /\ Streamed(stream, d)
      /\ \/ stream' = s
         \/ Upload!Deliver(s, s.held, "copy")
         \/ Upload!FailWrite("abort")
  BY DEF Upload!CopyNext, Upload!Streamer, Serves
<1>2. stream.file[stream.at + 1] = d
  BY <1>1, WholeFile, PiecesAssumption DEF Serves, StreamFields
<1>3. held \in Seq(Databases) /\ Len(held) = Len(stream.held) + 1 /\ \A i \in DOMAIN held : held[i] = d
  BY <1>1, <1>2, Sequences DEF Streamed
<1> HIDE DEF held
<1>4. Len(held) <= Pieces /\ Len(stream.sent) + Len(held) = 1 + (stream.at + 1)
  <2>1. Len(stream.sent) >= 1 /\ Len(stream.sent) + Len(stream.held) = 1 + stream.at
    BY <1>1 DEF Streamed
  <2>2. /\ Len(stream.held) + 1 <= Pieces
        /\ Len(stream.sent) + (Len(stream.held) + 1) = 1 + (stream.at + 1)
    BY <1>1, <2>1, Sequences, Sizes
  <2>3. Len(held) = Len(stream.held) + 1
    BY <1>3
  <2> QED
    BY <2>2, <2>3
<1>5. held \in Upload!SeqOf(Databases, Pieces) /\ stream.at + 1 \in 0..Pieces
  <2>1. stream.at \in 0..Pieces /\ Pieces \in Nat
    BY Sequences, PiecesAssumption
  <2>2. stream.at + 1 \in 0..Pieces
    BY <1>1, <2>1
  <2> QED
    BY <1>3, <1>4, <2>1, <2>2, BoundedSequences
<1>6. /\ s \in StreamFields /\ s.pc = "copy" /\ s.file = stream.file /\ s.stored = stream.stored
      /\ s.sent = stream.sent /\ s.held = held /\ s.at = stream.at + 1
  BY <1>1, <1>5 DEF StreamFields
<1> HIDE DEF s
<1>7. Streamed(s, d)
  BY <1>1, <1>3, <1>4, <1>6 DEF Streamed
<1>8. CASE stream' = s
  BY <1>1, <1>6, <1>7, <1>8, StreamerStep
<1>9. CASE Upload!Deliver(s, s.held, "copy")
  <2>1. /\ Len(stream.sent) >= 1 /\ HasPieces(stream.sent, Len(stream.sent), d)
        /\ ~Upload!Contains(stream.sent, "trailer")
    BY <1>1 DEF Streamed
  <2>2. /\ held \in Seq(Upload!Parts) /\ Len(stream.sent \o held) = Len(stream.sent) + Len(held)
        /\ HasPieces(stream.sent \o held, Len(stream.sent) + Len(held), d)
        /\ ~Upload!Contains(stream.sent \o held, "trailer")
    BY <1>3, <2>1, Sequences, Joined
  <2>3. Len(stream.sent) + Len(held) <= Pieces + 3 /\ "copy" \in Streaming
    BY <1>1, <1>4, Sequences, PiecesAssumption DEF Streaming
  <2>4. /\ stream' \in StreamFields /\ stream'.pc = "copy" /\ stream'.file = stream.file
        /\ stream'.at = stream.at + 1 /\ stream'.sent = stream.sent \o held /\ stream'.held = << >>
        /\ stream'.stored = stream.stored
    BY <1>6, <1>9, <2>2, <2>3, Delivered
  <2>5. Len(stream'.sent) >= 1 /\ Len(stream'.sent) + Len(stream'.held) = 1 + stream'.at
    <3>1. Len(stream'.held) = 0 /\ Len(held) \in Nat /\ Len(stream.sent) \in Nat
      BY <1>3, <2>4, Sequences
    <3>2. Len(stream'.sent) = Len(stream.sent) + Len(held)
      BY <2>2, <2>4
    <3>3. stream.at \in Nat
      BY Sequences, PiecesAssumption
    <3> QED
      BY <1>4, <2>1, <2>4, <3>1, <3>2, <3>3
  <2>6. Streamed(stream', d)
    BY <1>1, <2>2, <2>4, <2>5 DEF Streamed
  <2> QED
    BY <1>1, <2>4, <2>6, StreamerStep
<1>10. CASE Upload!FailWrite("abort")
  <2>1. stream' = [stream EXCEPT !.pc = "abort", !.failed = TRUE]
    BY <1>10 DEF Upload!FailWrite
  <2>2. stream' \in StreamFields
    BY <1>1, <2>1 DEF StreamFields, Streaming
  <2>3. Streamed(stream', d)
    BY <1>1, <2>1, <2>2, OnlyGoes DEF StreamFields
  <2> QED
    BY <1>1, <2>1, <2>2, <2>3, StreamerStep DEF StreamFields
<1> QED
  BY <1>1, <1>8, <1>9, <1>10

\* Steps of the streamer that write nothing.
LEMMA SilentKeeps ==
  ASSUME UploadInv, NEW d \in Databases, Serves(d),
         Upload!FailRead \/ Upload!EndCopy \/ Upload!ClosePipe
  PROVE  UploadInv'
<1>1. /\ UNCHANGED <<main, remote>> /\ stream \in StreamFields /\ Streamed(stream, d)
      /\ stream' \in StreamFields
  BY DEF Upload!FailRead, Upload!EndCopy, Upload!ClosePipe, Upload!Streamer, Upload!Broken,
         Serves, StreamFields, Streaming
<1>2. /\ stream'.sent = stream.sent /\ stream'.held = stream.held /\ stream'.at = stream.at
      /\ stream'.stored = stream.stored /\ stream'.file = stream.file
      /\ \/ stream'.pc = "ended"
         \/ stream.pc = "copy" /\ stream'.pc = "abort"
         \/ stream.pc = "copy" /\ stream'.pc = "flush" /\ stream.at = Pieces
  BY <1>1 DEF Upload!FailRead, Upload!EndCopy, Upload!ClosePipe, Upload!Streamer, StreamFields
<1>3. Streamed(stream', d)
  BY <1>1, <1>2, OnlyGoes
<1> QED
  BY <1>1, <1>2, <1>3, StreamerStep

\* A write of the streamer that fails for good.
LEMMA FailWriteKeeps ==
  ASSUME UploadInv, NEW d \in Databases, Serves(d), UNCHANGED <<main, remote>>,
         Upload!FailWrite("close")
  PROVE  UploadInv'
<1>1. stream' = [stream EXCEPT !.pc = "close", !.failed = TRUE]
  BY DEF Upload!FailWrite
<1>2. stream \in StreamFields /\ stream' \in StreamFields /\ Streamed(stream, d)
  BY <1>1 DEF Serves, StreamFields, Streaming
<1>3. Streamed(stream', d)
  BY <1>1, <1>2, OnlyGoes DEF StreamFields
<1> QED
  BY <1>1, <1>2, <1>3, StreamerStep DEF StreamFields

\* The end of the frame, after everything has been read (Flush) or not (Abort).
LEMMA FrameEnds ==
  ASSUME UploadInv, NEW d \in Databases, Serves(d), UNCHANGED <<main, remote>>,
         NEW pc, (stream.pc = "flush" /\ pc = "trailer") \/ (stream.pc = "abort" /\ pc = "close"),
         Upload!Deliver(stream, stream.held \o <<"frame">>, pc)
  PROVE  UploadInv'
<1> DEFINE parts == stream.held \o <<"frame">>
<1>1. stream \in StreamFields /\ Streamed(stream, d) /\ pc \in Streaming
  BY DEF Serves, Streaming
<1>2. /\ Len(stream.sent) >= 1 /\ Len(stream.sent) + Len(stream.held) = 1 + stream.at
      /\ HasPieces(stream.sent, Len(stream.sent), d)
      /\ \A i \in DOMAIN stream.held : stream.held[i] = d
      /\ ~Upload!Contains(stream.sent, "trailer")
  BY <1>1 DEF Streamed
<1>3. /\ parts \in Seq(Upload!Parts) /\ Len(stream.sent \o parts) = Len(stream.sent) + Len(parts)
      /\ HasPieces(stream.sent \o parts, Len(stream.sent) + Len(stream.held), d)
      /\ ~Upload!Contains(stream.sent \o parts, "trailer")
  BY <1>2, Sequences, Joined
<1>4. /\ Len(parts) = Len(stream.held) + 1
      /\ Len(stream.sent) \in Nat /\ Len(stream.held) \in Nat /\ stream.at \in 0..Pieces
  <2>1. stream.held \in Seq(Databases)
    BY Sequences
  <2>2. Len(stream.held \o <<"frame">>) = Len(stream.held) + 1
    BY <2>1
  <2> QED
    BY <2>2, Sequences
<1> HIDE DEF parts
<1>5. Len(stream.sent) + Len(parts) = stream.at + 2 /\ stream.at + 2 <= Pieces + 3
  <2>1. Len(stream.sent) + (Len(stream.held) + 1) = stream.at + 2 /\ stream.at + 2 <= Pieces + 3
    BY <1>2, <1>4, Sizes
  <2> QED
    BY <1>4, <2>1
<1>6. /\ stream' \in StreamFields /\ stream'.pc = pc /\ stream'.file = stream.file
      /\ stream'.at = stream.at /\ stream'.sent = stream.sent \o parts /\ stream'.held = << >>
      /\ stream'.stored = stream.stored
  BY <1>1, <1>3, <1>5, Delivered DEF parts
<1>7. pc = "trailer" => Len(stream'.sent) = Pieces + 2 /\ HasPieces(stream'.sent, Pieces + 1, d)
  <2> SUFFICES ASSUME pc = "trailer"
               PROVE  Len(stream'.sent) = Pieces + 2 /\ HasPieces(stream'.sent, Pieces + 1, d)
    OBVIOUS
  <2>1. stream.at = Pieces
    BY <1>1 DEF Streamed
  <2>2. Len(stream.sent) + Len(stream.held) = Pieces + 1
    <3>1. Len(stream.sent) + Len(stream.held) = 1 + Pieces
      BY <1>2, <2>1, Zenon
    <3>2. 1 + Pieces = Pieces + 1
      BY PiecesAssumption
    <3> QED
      BY <3>1, <3>2, Zenon
  <2> QED
    BY <1>3, <1>5, <1>6, <2>1, <2>2
<1>8. Streamed(stream', d)
  BY <1>1, <1>2, <1>3, <1>6, <1>7 DEF Streamed
<1> QED
  BY <1>6, <1>8, StreamerStep

LEMMA FlushKeeps ==
  ASSUME UploadInv, NEW d \in Databases, Serves(d), Upload!Flush
  PROVE  UploadInv'
BY FrameEnds, FailWriteKeeps DEF Upload!Flush, Upload!Streamer

LEMMA AbortKeeps ==
  ASSUME UploadInv, NEW d \in Databases, Serves(d), Upload!Abort
  PROVE  UploadInv'
<1>1. stream.pc = "abort" /\ UNCHANGED <<main, remote>>
  BY DEF Upload!Abort, Upload!Streamer
<1>2. CASE Upload!Deliver(stream, stream.held \o <<"frame">>, "close")
  BY <1>1, <1>2, FrameEnds
<1>3. CASE stream' = [stream EXCEPT !.pc = "close"]
  <2>1. stream \in StreamFields /\ stream' \in StreamFields /\ Streamed(stream, d)
    BY <1>3 DEF Serves, StreamFields, Streaming
  <2>2. Streamed(stream', d)
    BY <1>3, <2>1, OnlyGoes DEF StreamFields
  <2> QED
    BY <1>1, <1>3, <2>1, <2>2, StreamerStep DEF StreamFields
<1> QED
  BY <1>2, <1>3 DEF Upload!Abort, Upload!AfterAbort

LEMMA WriteTrailerKeeps ==
  ASSUME UploadInv, NEW d \in Databases, Serves(d), Upload!WriteTrailer
  PROVE  UploadInv'
<1>1. stream.pc = "trailer" /\ UNCHANGED <<main, remote>> /\ stream \in StreamFields /\ Streamed(stream, d)
  BY DEF Upload!WriteTrailer, Upload!Streamer, Serves
<1>2. CASE Upload!Deliver(stream, <<"trailer">>, "close")
  <2>1. <<"trailer">> \in Seq(Upload!Parts) /\ Len(<<"trailer">>) = 1 /\ "close" \in Streaming
    BY DEF Upload!Parts, Upload!Marks, Streaming
  <2>2. Len(stream.sent) = Pieces + 2 /\ HasPieces(stream.sent, Pieces + 1, d)
    BY <1>1 DEF Streamed
  <2>3. Len(stream.sent) + Len(<<"trailer">>) <= Pieces + 3
    BY <2>1, <2>2, PiecesAssumption
  <2>4. /\ stream' \in StreamFields /\ stream'.pc = "close" /\ stream'.file = stream.file
        /\ stream'.sent = stream.sent \o <<"trailer">> /\ stream'.stored = stream.stored
    BY <1>1, <1>2, <2>1, <2>3, Delivered
  <2>5. stream.sent \in Seq(Upload!Parts) /\ Pieces \in Nat
    BY Sequences, PiecesAssumption
  <2>6. FormOf(stream'.sent, d)
    <3>1. Len(stream'.sent) = Pieces + 3
      BY <2>1, <2>2, <2>4, <2>5
    <3>2. \A i \in 2..(Pieces + 1) : stream'.sent[i] = stream.sent[i]
      BY <2>1, <2>2, <2>4, <2>5
    <3> QED
      BY <2>2, <3>1, <3>2 DEF FormOf, HasPieces
  <2>7. ~stream.stored
    BY <1>1 DEF Streamed
  <2>8. Streamed(stream', d)
    BY <2>4, <2>6, <2>7 DEF Streamed
  <2> QED
    BY <1>1, <2>4, <2>8, StreamerStep
<1>3. CASE Upload!FailWrite("close")
  BY <1>1, <1>3, FailWriteKeeps
<1> QED
  BY <1>2, <1>3 DEF Upload!WriteTrailer

\* The transport has closed the body, or the server has taken the form.
LEMMA CloseBodyKeeps ==
  ASSUME UploadInv, NEW d \in Databases, Serves(d), Upload!CloseBody
  PROVE  UploadInv'
<1>1. /\ stream' = [stream EXCEPT !.body = "closed"] /\ UNCHANGED <<main, remote>>
      /\ stream \in StreamFields /\ Streamed(stream, d)
  BY DEF Upload!CloseBody, Serves
<1>2. stream' \in StreamFields
  BY <1>1 DEF StreamFields
<1>3. Streamed(stream', d)
  BY <1>1, <1>2, OnlyGoes DEF StreamFields
<1> QED
  BY <1>1, <1>2, <1>3, StreamerStep DEF StreamFields

\* A complete form has the whole file.
LEMMA FormWhole ==
  ASSUME NEW d \in Databases, NEW s \in Seq(Upload!Parts), FormOf(s, d)
  PROVE  SubSeq(s, 2, Len(s) - 2) = Whole(d)
<1>1. Len(s) = Pieces + 3 /\ Pieces \in Nat /\ Pieces >= 1 /\ \A i \in 2..(Pieces + 1) : s[i] = d
  BY PiecesAssumption DEF FormOf, HasPieces
<1>2. Len(s) - 2 = Pieces + 1
  BY <1>1
<1>3. SubSeq(s, 2, Pieces + 1) = [i \in 1..Pieces |-> s[i + 1]]
  BY <1>1
<1>4. \A i \in 1..Pieces : s[i + 1] = d
  BY <1>1
<1>5. [i \in 1..Pieces |-> s[i + 1]] = [i \in 1..Pieces |-> d]
  BY <1>4
<1> QED
  BY <1>2, <1>3, <1>5 DEF Whole

LEMMA StoreKeeps ==
  ASSUME UploadInv, NEW d \in Databases, Serves(d), Upload!Store
  PROVE  UploadInv'
<1>1. /\ ~stream.stored /\ Upload!Contains(stream.sent, "trailer") /\ remote' = Upload!Received
      /\ stream' = [stream EXCEPT !.stored = TRUE] /\ main' = main
      /\ stream \in StreamFields /\ Streamed(stream, d) /\ stream.file = Whole(d)
      /\ main.pc # "idle" /\ main.file = stream.file
  BY DEF Upload!Store, Serves
<1>2. remote' = Whole(d)
  BY <1>1, Sequences, FormWhole DEF Streamed, Upload!Received
<1>3. /\ stream' \in StreamFields /\ stream'.file = stream.file /\ stream'.stored
      /\ stream'.pc = stream.pc /\ stream'.sent = stream.sent /\ stream'.held = stream.held
      /\ stream'.at = stream.at
  BY <1>1 DEF StreamFields
<1>4. Streamed(stream', d)
  BY <1>1, <1>3 DEF Streamed
<1>5. Serves(d)'
  BY <1>1, <1>2, <1>3, <1>4 DEF Serves
<1>6. stream' # Upload!Ended
  <2>1. "file" \in DOMAIN stream' /\ "file" \notin DOMAIN Upload!Ended
    BY <1>3 DEF StreamFields, Upload!Ended
  <2> QED
    BY <2>1
<1>7. Upload!TypeOK'
  BY <1>1, <1>2, <1>3, WholeFile DEF UploadInv, Upload!TypeOK, StreamFields, Streaming
<1>8. main'.pc = "done" /\ main'.answer = "ok" => remote' = main'.file
  BY <1>1, <1>2
<1> QED
  BY <1>1, <1>2, <1>3, <1>5, <1>6, <1>7, <1>8 DEF UploadInv

LEMMA BeginUploadKeeps ==
  ASSUME DownloadInv, UploadInv, Upload!BeginUpload
  PROVE  UploadInv'
<1>1. PICK d \in Databases : path = Whole(d)
  BY DEF DownloadInv
<1>2. /\ main' = [pc |-> "request", file |-> Whole(d)] /\ stream' = Upload!Start(Whole(d))
      /\ remote' = remote
  BY <1>1 DEF Upload!BeginUpload
<1>3. /\ << >> \in Upload!SeqOf(Databases, Pieces) /\ 0 \in 0..Pieces
      /\ << >> \in Upload!SeqOf(Upload!Parts, Pieces + 3)
  BY PiecesAssumption DEF Upload!SeqOf
<1>4. /\ stream' \in StreamFields /\ stream'.pc = "header" /\ stream'.file = Whole(d)
      /\ stream'.sent = << >> /\ stream'.held = << >> /\ stream'.at = 0 /\ stream'.stored = FALSE
  BY <1>2, <1>3, WholeFile DEF StreamFields, Upload!Start, Streaming
<1>5. Streamed(stream', d)
  BY <1>4 DEF Streamed, Upload!Contains
<1>6. Serves(d)'
  BY <1>2, <1>4, <1>5 DEF Serves
<1>7. stream' # Upload!Ended
  <2>1. "file" \in DOMAIN stream' /\ "file" \notin DOMAIN Upload!Ended
    BY <1>4 DEF StreamFields, Upload!Ended
  <2> QED
    BY <2>1
<1>8. Upload!TypeOK'
  BY <1>2, <1>4, WholeFile DEF UploadInv, Upload!TypeOK, StreamFields, Streaming
<1> QED
  BY <1>2, <1>6, <1>7, <1>8 DEF UploadInv

LEMMA RefuseKeeps ==
  ASSUME DownloadInv, UploadInv, Upload!RefuseUpload
  PROVE  UploadInv'
<1>1. /\ main.pc = "idle" /\ main' = [pc |-> "done", answer |-> "error", file |-> path]
      /\ UNCHANGED <<stream, remote>>
  BY DEF Upload!RefuseUpload
<1>2. stream = Upload!Ended
  BY <1>1 DEF UploadInv, Serves
<1>3. path \in Upload!SeqOf(Databases, Pieces)
  BY WholeFile DEF DownloadInv
<1>4. Upload!TypeOK'
  BY <1>1, <1>3 DEF UploadInv, Upload!TypeOK
<1> QED
  BY <1>1, <1>2, <1>4 DEF UploadInv

\* A step of FullUpload that leaves what its streamer has written alone.
LEMMA MainStep ==
  ASSUME UploadInv, NEW d \in Databases, Serves(d), remote' = remote,
         stream' \in StreamFields, stream'.pc = stream.pc, stream'.file = stream.file,
         stream'.sent = stream.sent, stream'.held = stream.held, stream'.at = stream.at,
         stream'.stored = stream.stored,
         main' \in [pc : {"do"}, file : {main.file}]
                     \cup [pc : {"done"}, answer : {"ok", "error"}, file : {main.file}],
         main'.pc = "done" /\ main'.answer = "ok" => stream.stored
  PROVE  UploadInv'
<1>1. stream \in StreamFields /\ Streamed(stream, d) /\ main.file = Whole(d) /\ stream.file = Whole(d)
  BY DEF Serves
<1>2. Streamed(stream', d)
  BY <1>1, OnlyGoes
<1>3. main'.file = main.file /\ main'.pc \in {"do", "done"}
  OBVIOUS
<1>4. Serves(d)'
  BY <1>1, <1>2, <1>3 DEF Serves
<1>5. stream' # Upload!Ended
  <2>1. "file" \in DOMAIN stream' /\ "file" \notin DOMAIN Upload!Ended
    BY DEF StreamFields, Upload!Ended
  <2> QED
    BY <2>1
<1>6. Upload!TypeOK'
  BY <1>1, WholeFile DEF UploadInv, Upload!TypeOK, StreamFields, Streaming
<1>7. stream.stored => remote = main.file
  BY DEF Serves
<1> QED
  BY <1>3, <1>4, <1>5, <1>6, <1>7 DEF UploadInv

LEMMA MainKeeps ==
  ASSUME UploadInv, Upload!Main
  PROVE  UploadInv'
<1>1. main.pc \in {"request", "do"}
  BY DEF Upload!Main, Upload!NewRequest, Upload!FailNewRequest, Upload!Succeed, Upload!FailUpload
<1>2. PICK d \in Databases : Serves(d)
  BY <1>1 DEF UploadInv
<1>3. stream \in StreamFields /\ main \in [pc : {"request", "do"}, file : {main.file}]
  BY <1>1, <1>2 DEF Serves, UploadInv, Upload!TypeOK
<1>4. CASE Upload!NewRequest
  <2>1. /\ main' \in [pc : {"do"}, file : {main.file}] /\ remote' = remote
        /\ stream' = [stream EXCEPT !.body = "read"]
    BY <1>3, <1>4 DEF Upload!NewRequest
  <2>2. /\ stream' \in StreamFields /\ stream'.pc = stream.pc /\ stream'.file = stream.file
        /\ stream'.sent = stream.sent /\ stream'.held = stream.held /\ stream'.at = stream.at
        /\ stream'.stored = stream.stored
    BY <1>3, <2>1 DEF StreamFields
  <2> QED
    BY <1>2, <2>1, <2>2, MainStep
<1>5. ASSUME NEW answer \in {"ok", "error"}, NEW pipe \in {"open", "eof", "broken"},
             Upload!ReturnUpload(answer, pipe), answer = "ok" => stream.stored
      PROVE  UploadInv'
  <2>1. /\ main' = [pc |-> "done", answer |-> answer, file |-> main.file] /\ remote' = remote
        /\ stream' = [stream EXCEPT !.open = FALSE, !.pipe = pipe]
    BY <1>5 DEF Upload!ReturnUpload
  <2>2. /\ stream' \in StreamFields /\ stream'.pc = stream.pc /\ stream'.file = stream.file
        /\ stream'.sent = stream.sent /\ stream'.held = stream.held /\ stream'.at = stream.at
        /\ stream'.stored = stream.stored
    BY <1>3, <2>1 DEF StreamFields
  <2> QED
    BY <1>2, <1>5, <2>1, <2>2, MainStep
<1>6. stream.pipe \in {"open", "eof", "broken"} /\ Upload!Broken \in {"open", "eof", "broken"}
  BY <1>3 DEF StreamFields, Upload!Broken
<1>7. CASE Upload!FailNewRequest
  BY <1>5, <1>6, <1>7 DEF Upload!FailNewRequest
<1>8. CASE Upload!Succeed
  BY <1>5, <1>6, <1>8 DEF Upload!Succeed
<1>9. CASE Upload!FailUpload
  BY <1>5, <1>6, <1>9 DEF Upload!FailUpload
<1> QED
  BY <1>4, <1>7, <1>8, <1>9 DEF Upload!Main

LEMMA EndUploadKeeps ==
  ASSUME UploadInv, Upload!EndUpload
  PROVE  UploadInv'
<1>1. main' = [pc |-> "idle"] /\ stream' = Upload!Ended /\ remote' = remote
  BY DEF Upload!EndUpload
<1>2. main'.pc = "idle"
  BY <1>1
<1>3. Upload!TypeOK'
  BY <1>1 DEF UploadInv, Upload!TypeOK
<1> QED
  BY <1>1, <1>2, <1>3 DEF UploadInv

LEMMA UploadKeeps ==
  ASSUME DownloadInv, UploadInv, Upload!Next
  PROVE  UploadInv'
<1>1. CASE Upload!CloseBody \/ Upload!Store \/ Upload!Stream
  <2>1. stream # Upload!Ended
    BY <1>1 DEF Upload!CloseBody, Upload!Store, Upload!Stream, Upload!WriteHeader, Upload!CopyNext,
                Upload!FailRead, Upload!EndCopy, Upload!Flush, Upload!Abort, Upload!WriteTrailer,
                Upload!ClosePipe, Upload!Streamer, Upload!Ended
  <2>2. PICK d \in Databases : Serves(d)
    BY <2>1 DEF UploadInv
  <2> QED
    BY <1>1, <2>2, CloseBodyKeeps, StoreKeeps, WriteHeaderKeeps, CopyNextKeeps, SilentKeeps,
       FlushKeeps, AbortKeeps, WriteTrailerKeeps
       DEF Upload!Stream
<1>2. CASE Upload!BeginUpload \/ Upload!RefuseUpload \/ Upload!Main \/ Upload!EndUpload
  BY <1>2, BeginUploadKeeps, RefuseKeeps, MainKeeps, EndUploadKeeps
<1> QED
  BY <1>1, <1>2 DEF Upload!Next

\* FullUpload does not change the file it reads.
LEMMA OnlyReads ==
  ASSUME Upload!Next
  PROVE  path' = path
BY DEF Upload!Next, Upload!BeginUpload, Upload!RefuseUpload, Upload!Main, Upload!NewRequest,
       Upload!FailNewRequest, Upload!Succeed, Upload!FailUpload, Upload!ReturnUpload,
       Upload!EndUpload, Upload!CloseBody, Upload!Store, Upload!Stream, Upload!WriteHeader,
       Upload!CopyNext, Upload!FailRead, Upload!EndCopy, Upload!Flush, Upload!Abort,
       Upload!WriteTrailer, Upload!ClosePipe, Upload!Streamer

LEMMA UploadStays ==
  ASSUME UploadInv, UNCHANGED <<main, stream, remote>>
  PROVE  UploadInv'
BY DEF UploadInv, Upload!TypeOK, Serves

-----------------------------------------------------------------------------
(* The theorems                                                             *)

IInv == DownloadInv /\ UploadInv

LEMMA Initially == Init => IInv
<1> SUFFICES ASSUME Init PROVE IInv
  OBVIOUS
<1>1. path = Whole(Old) /\ archive = << >> /\ dl = Download!Idle
  BY DEF Init, Download!Init, Download!Whole, Whole
<1>2. path = Whole(Old) /\ remote = path /\ main = [pc |-> "idle"] /\ stream = Upload!Ended
  BY <1>1 DEF Init, Upload!Init
<1>3. Whole(Old) \in Upload!SeqOf(Databases, Pieces) /\ Whole(Old) \in Download!SeqOf(Databases, Pieces)
  BY WholeFile, DatabasesAssumption, PiecesAssumption, BoundedSequences
<1>4. dl.pc = "idle" /\ main.pc = "idle"
  BY <1>1, <1>2 DEF Download!Idle
<1>5. DownloadInv
  BY <1>1, <1>3, <1>4, DatabasesAssumption
     DEF DownloadInv, Download!TypeOK, Shape, WrittenBounded, AnswerMeaning, Download!AnswerMeaning,
         Download!Working
<1>6. UploadInv
  BY <1>2, <1>3, <1>4, DatabasesAssumption DEF UploadInv, Upload!TypeOK
<1> QED
  BY <1>5, <1>6 DEF IInv

LEMMA Inductive == IInv /\ [Next]_vars => IInv'
<1> SUFFICES ASSUME IInv, [Next]_vars PROVE IInv'
  OBVIOUS
<1> USE DEF IInv
<1>1. CASE DownloadStep
  BY <1>1, DownloadKeeps, UploadStays DEF DownloadStep
<1>2. CASE UploadStep
  <2>1. path' = path
    BY <1>2, OnlyReads DEF UploadStep
  <2> QED
    BY <1>2, <2>1, UploadKeeps, DownloadStays DEF UploadStep
<1>3. CASE UNCHANGED vars
  BY <1>3, DownloadStays, UploadStays DEF vars
<1> QED
  BY <1>1, <1>2, <1>3 DEF Next

(***************************************************************************)
(* IInv holds in every reachable state: what the two passes of ImportColpkg *)
(* have found and counted, and what the streamer has written.               *)
(***************************************************************************)
THEOREM InductiveInvariant == Spec => []IInv
BY Initially, Inductive, PTL DEF Spec

(***************************************************************************)
(* A download and an upload keep their types.                               *)
(***************************************************************************)
THEOREM TypeCorrect == Spec => []TypeOK
<1>1. IInv => TypeOK
  BY DEF IInv, DownloadInv, UploadInv, TypeOK
<1> QED
  BY <1>1, InductiveInvariant, PTL

(***************************************************************************)
(* FullDownload's success means that the collection has been replaced by    *)
(* the archive's last database; an error that it has not, except that of    *)
(* the media directory.                                                     *)
(***************************************************************************)
THEOREM AnswerTrue == Spec => []AnswerMeaning
<1>1. IInv => AnswerMeaning
  BY DEF IInv, DownloadInv
<1> QED
  BY <1>1, InductiveInvariant, PTL

(***************************************************************************)
(* ImportColpkg writes at most one entry more than the limit on the total,  *)
(* and no more than the limit for an archive that it accepts.               *)
(***************************************************************************)
THEOREM LimitsKept == Spec => []ImportLimits
<1>1. IInv => ImportLimits
  <2> SUFFICES ASSUME IInv PROVE ImportLimits
    OBVIOUS
  <2>1. dl.pc \in Download!Working => dl.written <= MaxTotal /\ dl.written <= MaxTotal + MaxFile
    BY OnItsWay, LimitsAssumption DEF IInv
  <2>2. dl.pc = "done" => dl.written <= MaxTotal + MaxFile
    BY DEF IInv, DownloadInv, WrittenBounded
  <2> QED
    BY <2>1, <2>2 DEF ImportLimits, Download!ImportLimits, Download!Working
<1> QED
  BY <1>1, InductiveInvariant, PTL

(***************************************************************************)
(* The sync server has a whole database whatever fails during FullUpload,   *)
(* and after success the file as it was when the upload began.              *)
(***************************************************************************)
THEOREM ServerWhole == Spec => []UploadWhole
<1>1. IInv => UploadWhole
  BY DEF IInv, UploadInv, UploadWhole, Upload!UploadWhole, Whole
<1> QED
  BY <1>1, InductiveInvariant, PTL

(***************************************************************************)
(* The collection changes only at one step of FullDownload, to the whole    *)
(* last database of an archive within every limit, whatever the order of    *)
(* its entries.                                                             *)
(***************************************************************************)
THEOREM CollectionWhole == Spec => ReplacedWhole
<1>1. IInv /\ [Next]_vars =>
        [path' # path => Download!Acceptable(archive)
                           /\ path' = Download!Whole(Download!LastDatabase(archive))]_<<path, archive, dl>>
  <2> SUFFICES ASSUME IInv, [Next]_vars, path' # path
               PROVE  /\ Download!Acceptable(archive)
                      /\ path' = Download!Whole(Download!LastDatabase(archive))
    OBVIOUS
  <2>1. DownloadStep
    BY OnlyReads DEF Next, vars, UploadStep
  <2>2. Download!RenameDatabase \/ Download!RenameCopy
    BY <2>1 DEF DownloadStep, Download!Next, Download!BeginDownload, Download!FailDownload,
         Download!OpenArchive, Download!FirstPass, Download!EndFirstPass, Download!SecondPass,
         Download!EndSecondPass, Download!CreateTemp, Download!CopyPiece, Download!DuringCopy,
         Download!RemoveSource, Download!MoveMedia, Download!EndDownload, Download!CrashDownload
  <2>3. CASE Download!RenameDatabase
    BY <2>3, Accepted DEF IInv, Download!RenameDatabase
  <2>4. CASE Download!RenameCopy
    BY <2>4, Accepted, CopyWhole DEF IInv, Download!RenameCopy, Whole, Download!Whole
  <2> QED
    BY <2>2, <2>3, <2>4
<1> QED
  BY <1>1, InductiveInvariant, PTL DEF Spec, ReplacedWhole, Download!ReplacedWhole

=============================================================================
