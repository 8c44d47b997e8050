----------------------------- MODULE DeltaSync -----------------------------
(***************************************************************************)
(* FullSync (pkg/sync/delta.go): the incremental synchronisation of the     *)
(* local collection with a sync server that other devices also write.       *)
(*                                                                          *)
(* The client is a process with a program counter: one step per call it     *)
(* makes, because a call may fail, the process may die after any of them,   *)
(* and another process may write the database file between any two.  The    *)
(* server is not part of the repository: it is modelled from the requests   *)
(* the client sends and the replies it expects, and resolves conflicts as   *)
(* PLAN.md says a sync does (the newer modification time wins, the server   *)
(* wins a tie).                                                             *)
(***************************************************************************)
EXTENDS CollectionSync

CONSTANTS
  OutsideWriter,  \* TRUE: another process may write during a synchronisation
  MaxEdits,       \* bound: changes made here and on other devices
  MaxFailures,    \* bound: synchronisations that fail
  SeedNotes       \* the notes the collection starts with

ASSUME OutsideWriterAssumption == OutsideWriter \in BOOLEAN
ASSUME BoundsAssumption == MaxEdits \in Nat /\ MaxFailures \in Nat
ASSUME SeedAssumption == SeedNotes \subseteq Notes

VARIABLES
  col,       \* the local collection's tables
  pc,        \* the next call of FullSync, "idle" when none runs
  since,     \* the usn GetChanges is called with
  local,     \* localDelta
  remote,    \* remoteDelta
  lastUSN,   \* the usn that MarkSynced will write
  srv,       \* the server's tables; graves are its tombstones
  susn,      \* the server's update sequence number
  session,   \* up to which usn the server has sent this session its changes
  late,      \* requests of failed calls, which may still reach the server
  clock,     \* the time of the latest edit
  failures   \* synchronisations that have failed

clientVars == <<pc, since, local, remote, lastUSN>>
serverVars == <<srv, susn, session, late>>
vars == <<col, clientVars, serverVars, clock, failures>>

NoRows == [cards |-> {}, notes |-> {}, decks |-> {}, graves |-> {}]
NoDelta == [cards |-> {}, notes |-> {}, decks |-> {}, graves |-> {},
            usn |-> 0, more |-> FALSE]

Delta == [cards : SUBSET CardRow, notes : SUBSET NoteRow,
          decks : SUBSET DeckRow, graves : SUBSET GraveRow,
          usn : Usn, more : BOOLEAN]

Unset == -1    \* lastUSN before the first page

Query == {"cards", "notes", "decks", "graves"}
PC == {"idle", "state", "usn", "upload", "bury", "apply", "mark", "finish"} \cup Query

\* A request that a failed call leaves behind: an upload or a list of graves.
Request == [kind : {"changes", "graves"}, delta : Delta]

TypeOK ==
  /\ col \in Tables
  /\ pc \in PC
  /\ since \in Usn
  /\ local \in Delta /\ remote \in Delta
  /\ lastUSN \in Usn
  /\ srv \in Tables
  /\ susn \in Nat /\ session \in Nat
  /\ late \subseteq Request
  /\ clock \in Nat /\ failures \in Nat

-----------------------------------------------------------------------------
(* The server                                                               *)

Dead(s) == Oids(s.graves)

\* The rows of an upload that beat what the server has.
Newer(new, rows, dead) ==
  {x \in new : x.id \notin dead /\ \A r \in rows : r.id = x.id => r.mod < x.mod}

AcceptedCards(s, d) ==
  {[x EXCEPT !.did = IF @ \in Dead(s) THEN DefaultDeck ELSE @] :
     x \in {y \in Newer(d.cards, s.cards, Dead(s)) : NoteOf[y.id] \notin Dead(s)}}

StampAll(rows, u) == {[r EXCEPT !.usn = u] : r \in rows}

\* The server's tables after it takes upload d with the sequence number u.
Merge(s, d, u) ==
  [cards  |-> Put(s.cards, StampAll(AcceptedCards(s, d), u)),
   notes  |-> Put(s.notes, StampAll(Newer(d.notes, s.notes, Dead(s)), u)),
   decks  |-> Put(s.decks, StampAll(Newer(d.decks, s.decks, Dead(s)), u)),
   graves |-> s.graves]

\* The server's tables after it deletes the objects oids.
Bury(s, oids, u) ==
  LET new == [NoRows EXCEPT !.graves =
                {[oid |-> o, usn |-> u] : o \in oids \ Dead(s)}]
  IN  [ApplyChanges(s, new) EXCEPT !.graves = s.graves \cup new.graves]

\* A request reaches the server: srv and susn change if it changes anything.
Handle(req) ==
  LET next == IF req.kind = "changes"
                THEN Merge(srv, req.delta, susn + 1)
                ELSE Bury(srv, Oids(req.delta.graves), susn + 1)
  IN  /\ srv' = next
      /\ susn' = IF next = srv THEN susn ELSE susn + 1

Within(rows, lo, hi) == {r \in rows : lo < r.usn /\ r.usn <= hi}

\* A page of the server's changes: everything numbered in lo+1 .. hi.
Page(s, lo, hi, usn, more) ==
  [cards  |-> Within(s.cards, lo, hi),  notes  |-> Within(s.notes, lo, hi),
   decks  |-> Within(s.decks, lo, hi),  graves |-> Within(s.graves, lo, hi),
   usn |-> usn, more |-> more]

\* A request that its sender gave up on is handled after all.
ServerLate ==
  \E req \in late :
    /\ Handle(req)
    /\ late' = late \ {req}
    /\ UNCHANGED <<col, clientVars, session, clock, failures>>

-----------------------------------------------------------------------------
(* Edits, here and on other devices                                         *)

CanEdit == clock < MaxEdits
MayWrite == pc = "idle" \/ OutsideWriter

Fresh(id) == id \notin Ids(col.notes) \cup Ids(col.decks) \cup Ids(srv.notes)
                         \cup Ids(srv.decks) \cup Dead(srv)

NewNote(n, d, usn) ==
  [NoRows EXCEPT
     !.notes = {[id |-> n, mod |-> clock + 1, usn |-> usn]},
     !.cards = {[id |-> c, did |-> d, mod |-> clock + 1, usn |-> usn] :
                  c \in {k \in Cards : NoteOf[k] = n}}]

WriteLocal(rows) ==
  /\ CanEdit
  /\ MayWrite
  /\ col' = ApplyChanges(col, rows)
  /\ clock' = clock + 1
  /\ UNCHANGED <<clientVars, serverVars, failures>>

\* AnswerCard and UpdateCard: the card's row, newer and pending.
AnswerCard ==
  \E r \in col.cards :
    WriteLocal([NoRows EXCEPT !.cards =
                 {[r EXCEPT !.mod = clock + 1, !.usn = Pending]}])

\* AddNote: one transaction inserts the note and its cards.
AddNote ==
  \E n \in Notes, d \in Ids(col.decks) :
    Fresh(n) /\ WriteLocal(NewNote(n, d, Pending))

CreateDeck ==
  \E d \in Decks :
    /\ Fresh(d)
    /\ WriteLocal([NoRows EXCEPT !.decks =
                    {[id |-> d, mod |-> clock + 1, usn |-> Pending]}])

\* The caller of AddGrave names an object that exists, never the default deck.
DeleteObject ==
  /\ CanEdit
  /\ MayWrite
  /\ \E o \in (Ids(col.cards) \cup Ids(col.notes) \cup Ids(col.decks)) \ {DefaultDeck} :
       col' = AddGrave(col, o)
  /\ clock' = clock + 1
  /\ UNCHANGED <<clientVars, serverVars, failures>>

\* Another device adds or changes an object, or deletes one.
RemoteNotes ==
  {NewNote(n, d, susn + 1) : n \in {m \in Notes : Fresh(m)}, d \in Ids(srv.decks)}

RemoteCard(r, d) ==
  [NoRows EXCEPT !.cards = {[r EXCEPT !.mod = clock + 1, !.usn = susn + 1, !.did = d]}]

RemoteCards == {RemoteCard(r, d) : r \in srv.cards, d \in Ids(srv.decks)}

RemoteDecks ==
  {[NoRows EXCEPT !.decks = {[id |-> d, mod |-> clock + 1, usn |-> susn + 1]}] :
     d \in {e \in Decks : Fresh(e)} \cup Ids(srv.decks)}

RemoteEdit ==
  /\ CanEdit
  /\ \E rows \in RemoteNotes \cup RemoteCards \cup RemoteDecks : srv' = ApplyChanges(srv, rows)
  /\ susn' = susn + 1
  /\ clock' = clock + 1
  /\ UNCHANGED <<col, clientVars, session, late, failures>>

RemoteDelete ==
  /\ CanEdit
  /\ \E o \in (Ids(srv.cards) \cup Ids(srv.notes) \cup Ids(srv.decks)) \ {DefaultDeck} :
       srv' = Bury(srv, {o}, susn + 1)
  /\ susn' = susn + 1
  /\ clock' = clock + 1
  /\ UNCHANGED <<col, clientVars, session, late, failures>>

-----------------------------------------------------------------------------
(* FullSync                                                                 *)

Forget ==
  since' = 0 /\ local' = NoDelta /\ remote' = NoDelta /\ lastUSN' = Unset

\* Authenticate and SyncStart succeed; the server opens a session.
SyncStart ==
  /\ pc = "idle"
  /\ pc' = "state"
  /\ session' = 0
  /\ UNCHANGED <<col, since, local, remote, lastUSN, srv, susn, late, clock, failures>>

\* GetSyncState: the usn to ask for changes from.
GetSyncState ==
  /\ pc = "state"
  /\ pc' = "cards"
  /\ since' = maxUSN(col)
  /\ UNCHANGED <<col, local, remote, lastUSN, serverVars, clock, failures>>

NextQuery == [cards |-> "notes", notes |-> "decks", decks |-> "graves", graves |-> "usn"]

\* GetChanges runs one query per table, outside any transaction ...
GetChangesQuery ==
  /\ pc \in Query
  /\ local' = [local EXCEPT ![pc] = ChangedSince(col[pc], since)]
  /\ pc' = NextQuery[pc]
  /\ UNCHANGED <<col, since, remote, lastUSN, serverVars, clock, failures>>

\* ... and then reads the highest usn.
GetChangesUSN ==
  /\ pc = "usn"
  /\ local' = [local EXCEPT !.usn = maxUSN(col)]
  /\ pc' = "upload"
  /\ UNCHANGED <<col, since, remote, lastUSN, serverVars, clock, failures>>

Higher(a, b) == IF a > b THEN a ELSE b

(***************************************************************************)
(* The call ApplyChanges.  The server takes the upload and answers with a   *)
(* page of its changes after the later of the client's usn and what it has  *)
(* sent in this session; it chooses where the page ends.  Before the first  *)
(* page lastUSN is the usn of the upload.                                   *)
(***************************************************************************)
ApplyChangesCall ==
  /\ pc = "upload"
  /\ Handle([kind |-> "changes", delta |-> local])
  /\ LET lo == Higher(local.usn, session)
     IN  \E hi \in {susn} \cup (lo + 1 .. susn) :
           LET more == hi < susn
               usn  == IF more THEN hi ELSE susn'
           IN  /\ remote' = Page(srv', lo, hi, usn, more)
               /\ session' = usn
               /\ lastUSN' = IF lastUSN = Unset THEN local.usn ELSE lastUSN
  /\ pc' = "bury"
  /\ UNCHANGED <<col, since, local, late, clock, failures>>

\* Mutant: graves are sent only along with changed notes.
SendsGravesWithNotes == local.graves # {} /\ local.notes # {}

SendsGraves == local.graves # {}

\* The call ApplyGraves, made only when there are graves to send.
ApplyGravesCall ==
  /\ pc = "bury"
  /\ IF SendsGraves
       THEN Handle([kind |-> "graves", delta |-> local])
       ELSE UNCHANGED <<srv, susn>>
  /\ pc' = "apply"
  /\ UNCHANGED <<col, since, local, remote, lastUSN, session, late, clock, failures>>

\* Mutant: the test for an empty page does not look at its graves.
HasRowsButGraves(d) == d.cards # {} \/ d.notes # {} \/ d.decks # {}

HasRows(d) == d.cards # {} \/ d.notes # {} \/ d.decks # {} \/ d.graves # {}

\* Apply the page, advance lastUSN, and read the changes again for the next
\* page if the server has more.
ApplyRemote ==
  /\ pc = "apply"
  /\ col' = IF HasRows(remote) THEN ApplyChanges(col, remote) ELSE col
  /\ lastUSN' = Higher(remote.usn, lastUSN)
  /\ IF remote.more
       THEN pc' = "cards" /\ since' = lastUSN' /\ local' = NoDelta
       ELSE pc' = "mark" /\ UNCHANGED <<since, local>>
  /\ UNCHANGED <<remote, serverVars, clock, failures>>

MarkSyncedStep ==
  /\ pc = "mark"
  /\ col' = IF lastUSN > 0 THEN MarkSynced(col, lastUSN) ELSE col
  /\ pc' = "finish"
  /\ UNCHANGED <<since, local, remote, lastUSN, serverVars, clock, failures>>

SyncFinish ==
  /\ pc = "finish"
  /\ pc' = "idle"
  /\ Forget
  /\ UNCHANGED <<col, serverVars, clock, failures>>

(***************************************************************************)
(* A call fails, a local error is returned, or the process dies: FullSync   *)
(* ends where it is.  If a request was on its way it may arrive later.      *)
(***************************************************************************)
Fail ==
  /\ pc # "idle"
  /\ failures < MaxFailures
  /\ failures' = failures + 1
  /\ pc' = "idle"
  /\ Forget
  /\ late' = late \cup
       (IF pc = "upload" THEN {[kind |-> "changes", delta |-> local]}
        ELSE IF pc = "bury" /\ SendsGraves
          THEN {[kind |-> "graves", delta |-> local]}
        ELSE {})
  /\ UNCHANGED <<col, srv, susn, session, clock>>

-----------------------------------------------------------------------------
\* The collection starts as a full download of the server left it.
Seed ==
  [cards  |-> {[id |-> c, did |-> DefaultDeck, mod |-> 0, usn |-> 1] :
                 c \in {k \in Cards : NoteOf[k] \in SeedNotes}},
   notes  |-> {[id |-> n, mod |-> 0, usn |-> 1] : n \in SeedNotes},
   decks  |-> {[id |-> DefaultDeck, mod |-> 0, usn |-> 1]},
   graves |-> {}]

Init ==
  /\ col = Seed /\ srv = Seed
  /\ susn = 1 /\ session = 0
  /\ pc = "idle" /\ since = 0 /\ lastUSN = Unset
  /\ local = NoDelta /\ remote = NoDelta
  /\ late = {}
  /\ clock = 0 /\ failures = 0

Edit == AnswerCard \/ AddNote \/ CreateDeck \/ DeleteObject
Remote == RemoteEdit \/ RemoteDelete \/ ServerLate

Client ==
  \/ SyncStart \/ GetSyncState \/ GetChangesQuery \/ GetChangesUSN
  \/ ApplyChangesCall \/ ApplyGravesCall \/ ApplyRemote
  \/ MarkSyncedStep \/ SyncFinish

Next == Edit \/ Remote \/ Client \/ Fail

Spec == Init /\ [][Next]_vars

\* The client is run again and again and each of its calls returns.
FairSpec == Spec /\ WF_vars(Client)
-----------------------------------------------------------------------------
(* Properties                                                               *)

RowTables == {"cards", "notes", "decks"}

\* The server has this version of the row, a later one, or has deleted it.
KnownIn(s, t, r) ==
  \/ r.id \in Dead(s)
  \/ t = "cards" /\ NoteOf[r.id] \in Dead(s)
  \/ \E x \in s[t] : x.id = r.id /\ x.mod >= r.mod

(***************************************************************************)
(* No edit is lost: a row loses its pending mark only when the server knows *)
(* that version of it, whatever calls fail, are repeated or arrive late     *)
(* (MarkSynced, the INSERT OR REPLACE of ApplyChanges).                     *)
(***************************************************************************)
PendingUntilKnown ==
  \A t \in RowTables : \A r \in col[t] : r.usn # Pending => KnownIn(srv, t, r)

(***************************************************************************)
(* The same for deletions: MarkSynced marks only graves that have been      *)
(* uploaded (the comment above its last statement says so).                 *)
(***************************************************************************)
GravesUploaded == \A g \in col.graves : g.usn # Pending => g.oid \in Dead(srv)

(***************************************************************************)
(* The cursor never runs ahead: the highest usn in the tables, which a sync *)
(* sends as what it has seen, covers only server changes that were applied, *)
(* even after a synchronisation that failed between two pages.              *)
(***************************************************************************)
CursorCovers ==
  LET top == maxUSN(col)
  IN  /\ \A t \in RowTables : \A s \in srv[t] :
            s.usn <= top => \E r \in col[t] : r.id = s.id /\ r.mod >= s.mod
      /\ \A g \in srv.graves : g.usn <= top =>
            g.oid \notin Ids(col.cards) \cup Ids(col.notes) \cup Ids(col.decks)

(***************************************************************************)
(* Once all pages are applied no card refers to a missing deck or note: the *)
(* cascades of applyGrave keep references whole.                            *)
(***************************************************************************)
ReferencesWhole ==
  pc \in {"mark", "finish"} =>
    \A c \in col.cards : c.did \in Ids(col.decks) /\ NoteOf[c.id] \in Ids(col.notes)

(***************************************************************************)
(* Last write wins: applying remote changes never replaces a pending edit   *)
(* by an older version.                                                     *)
(***************************************************************************)
NewerEditWins ==
  [][\A t \in RowTables : \A r \in col[t] : r.usn = Pending =>
       \A x \in col'[t] : x.id = r.id => x.mod >= r.mod]_vars

Content(c) == [t \in RowTables |-> {<<r.id, r.mod>> : r \in c[t]}]

(***************************************************************************)
(* When edits and failures stop, repeated synchronisation makes the local   *)
(* collection and the server hold the same rows and keeps them so.          *)
(***************************************************************************)
Converges == <>[](Content(col) = Content(srv))
-----------------------------------------------------------------------------
(***************************************************************************)
(* The inductive invariant behind PendingUntilKnown and GravesUploaded,     *)
(* when there is no outside writer.                                         *)
(***************************************************************************)

\* No usn exceeds the server's number, no time exceeds the clock.
Numbered(d, n) ==
  /\ \A t \in RowTables : \A r \in d[t] : r.usn <= n
  /\ \A g \in d.graves : g.usn <= n

Dated(d, n) == \A t \in RowTables : \A r \in d[t] : r.mod <= n

UsnBound ==
  /\ Numbered(col, susn) /\ Numbered(srv, susn) /\ Numbered(remote, susn)
  /\ since <= susn /\ local.usn <= susn /\ remote.usn <= susn
  /\ lastUSN <= susn /\ session <= susn

ModBound ==
  /\ Dated(col, clock) /\ Dated(srv, clock)
  /\ Dated(local, clock) /\ Dated(remote, clock)
  /\ \A q \in late : Dated(q.delta, clock)

\* What the server has sent, it knows.
RemoteKnown == \A t \in RowTables : \A r \in remote[t] : KnownIn(srv, t, r)

\* The tables GetChanges has read when FullSync is at its next call.
Queried ==
  [cards |-> {}, notes |-> {"cards"}, decks |-> {"cards", "notes"},
   graves |-> {"cards", "notes", "decks"}, usn |-> Query, upload |-> Query,
   bury |-> {"graves"}]

\* Every pending row of a table that has been read is in localDelta.
LocalComplete ==
  pc \in DOMAIN Queried =>
    \A t \in Queried[pc] : \A r \in col[t] : r.usn = Pending => r \in local[t]

\* After the upload the server knows every local row, pending or not.
UploadKnown ==
  pc \in {"bury", "apply", "mark"} =>
    \A t \in RowTables : \A r \in col[t] : KnownIn(srv, t, r)

GravesKnown == pc \in {"apply", "mark"} => Oids(col.graves) \subseteq Dead(srv)

IInv ==
  /\ TypeOK /\ UsnBound /\ ModBound
  /\ RemoteKnown /\ LocalComplete /\ UploadKnown /\ GravesKnown
  /\ PendingUntilKnown /\ GravesUploaded
=============================================================================
