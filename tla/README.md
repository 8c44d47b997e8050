# A TLA+ model of go-anki

go-anki reads and writes Anki collections (SQLite databases): it schedules
reviews with FSRS, adds notes and decks, synchronises with a sync server, and
offers all of it as a library (`pkg/`), an HTTP API (`server/`) and a command
line (`cmd/anki-go`). This directory holds TLA+ modules that model what in this
code is hard to test, the configurations that check them with TLC, and proofs
that TLAPS checks.

    tlc -config MCDeltaSync.cfg MCDeltaSync.tla        # one run
    tlapm DeltaSyncProofs.tla                          # the proofs of one module

`PROJECT.json` lists the runs, the mutants (changes to the model, as a bug in the
code would make them, that each property must notice), the source lines behind
every definition, the findings, the hazards and the theorems.

## The system

| Component | State | Operations | What makes it hard |
|---|---|---|---|
| Collection (`pkg/collection`) | tables cards, notes, decks (schema 18) or the JSON in col (schema 11), graves, revlog; a mutex per open collection | AnswerCard, AddNote, CreateDeck, GetDueCards, GetCardByID, GetStats; for synchronisation GetChanges, ApplyChanges, MarkSynced, AddGrave | the mutex keeps out one process only; ids are time plus a random number; due dates have three units |
| Scheduler (`pkg/scheduler`) | none | Answer: a card and a rating to a new card and a log row | conversions between Anki's and FSRS's states; a sentinel for what only the collection knows |
| Delta synchronisation (`pkg/sync/delta.go`) | session key; localDelta, remoteDelta, lastUSN during FullSync | eight steps, each a request or a call of the collection; pages | any call may fail, be lost or arrive late; other devices and processes write meanwhile |
| Full synchronisation (`pkg/sync/sync.go`) | temporary files | FullDownload, FullUpload, Authenticate, Meta | replaces or reads a file that others have open |
| Media directory (handlers, download, exporters) | files, some of them temporary | list, get, put, delete; the files a download moves in; the walk of an export | nobody takes a lock; crashes leave files |
| Media synchronisation (`pkg/sync/media.go`) | none | begin, download, upload, sanity: requests | what the server makes of them |
| Archives (`pkg/apkg`) | files | ExportApkg, ImportApkg, ImportColpkg, ExportColpkg | limits on sizes and counts; entries in any order, twice or missing |
| Schema 18 (`pkg/collection/schema.go`) | none | reading decks and note types, decoding their blobs | blobs cut off; rows that cannot be read |
| HTTP server (`server`) | writeMu, syncMu, a mutex per collection; the rate limiter's map; closeCh, httpServer | one handler per route, middleware, ListenAndServe, Close | lock order, readers without locks, cleanup in the middle of requests, closing a channel twice |
| Command line (`cmd/anki-go`) | none | one operation per process | it is the second process on a collection |

They interact by calls; what they share is the collection's file (among the
handlers, the command line and other processes), the server's mutexes, and,
through requests, the sync server with the other devices. A review goes from a
handler (or command) to `Collection.AnswerCard`, to the scheduler, and into the
tables with a usn of -1; a synchronisation uploads what has this mark.

Correct means:

* *Synchronisation*: no edit or deletion made here is marked as uploaded before
  the server has it; no change made elsewhere is skipped; an older version never
  replaces a newer one; references stay whole; both sides become equal.
* *Server*: a file that is written, replaced or sent has one user; an upload is
  complete; a replaced database does not inherit the log of its predecessor;
  every request gets an answer.
* *Reviews*: a card comes back neither before its interval nor later; card and
  log agree.
* *Notes and decks*: a note comes with all its cards or not at all; no call
  damages a deck.
* *Full synchronisation*: the collection is replaced at one moment, by a whole
  database, or not at all, and the answer says which; the server gets whole
  databases; no goroutine is left behind.
* *Media*: a file is whole under its name; a request takes effect at one moment;
  an export misses no file; nothing is left behind.
* *Rate limiter*: the limit holds in every window; the map is bounded and
  forgets; the waiting time it states is short by less than half a second.
* *Lifecycle*: Close ends the server and its goroutine and does not panic.

## Modules

| Module | Role |
|---|---|
| `CollectionSync` | the tables and the operators on them that synchronisation uses |
| `DeltaSync` | extends it: FullSync, local edits, the server and other devices |
| `DeltaSyncProofs` | theorems about `DeltaSync`: types, uploads |
| `DeltaSyncCursorProofs` | extends them: the cursor, references, last write wins, what a finished synchronisation has done |
| `FileAccess` | abstract: each file has one user at a time |
| `CollectionServer` | the server's handlers, locks and files; implements `FileAccess` |
| `CollectionServerProofs` | the refinement, and what holds of logs and uploads, proved |
| `CardReview`, `CardReviewProofs` | reviews, and theorems |
| `NoteIds`, `NoteIdsProofs` | AddNote and CreateDeck, and theorems |
| `ConfigBlobs` | operators: how the blobs of schema 18 are decoded |
| `FullDownload` | a full download: archive, import, replacement |
| `FullUpload` | a full upload: the streamer, the pipe, the request |
| `FullTransfer`, `FullTransferProofs` | composes the two, on one collection, and theorems |
| `MediaDirectory` | abstract: a table of whole files, requests that take effect at one moment |
| `MediaStore` | the media directory as the file system has it; implements `MediaDirectory` |
| `MediaStoreProofs` | the refinement, and what holds of files and walks, proved |
| `RateLimiter` | the rate limiter |
| `ServerLifecycle` | ListenAndServe and Close |
| `HttpServer`, `HttpServerProofs` | composes the two, and theorems about both |
| `MC...` | the constants of the instances TLC checks |

Definitions that a comment calls a *mutant* stand before the definition they
would replace; no specification uses them.

### CollectionSync and DeltaSync

A table is a set of rows. A row keeps its key, its time `mod` and its `usn`; the
time also stands for the content, since every edit advances the clock. A card
keeps its deck; its note is the constant `NoteOf`. Two versions of a row made in
the same second, with the same `mod`, are therefore not told apart.

The client is a process: `pc` is the next call of FullSync. `GetChangesQuery`
occurs once per table, because GetChanges runs its queries outside any
transaction. `Fail` covers an error of any call and the death of the process
after any step (nothing of FullSync survives it but the tables); the request that
was on its way goes to `late`, and `ServerLate` may deliver it at any time later.
With `OutsideWriter` another process may edit between any two calls; without it,
only between synchronisations.

The server is not in the repository. It is modelled from the requests and the
answers the client expects, and resolves conflicts as PLAN.md:126-131 describes:
the newer time wins, it wins a tie, and deletions win over edits. It numbers its
changes, and divides what it sends into pages as it likes. This is an assumption:
a server that numbered its changes differently would not have the properties
below.

The edits are the operations of the collection that leave rows pending. A caller
of AddGrave names an object that exists. The collection starts as a download left
it: a note, its card, the default deck.

### CollectionServer

Each request runs a handler, given as a table from one step to the next. The
steps take and release the mutexes (`collLock`, `writeMu`), open, query, commit
to and close the database, or replace or send its file. `Fail` jumps to the
deferred calls, as an error, an early return or a recovered panic does.

SQLite's files are modelled only as far as the handlers can disturb them: commits
go to a log beside the database; the last connection that closes moves them into
the database, and a connection that closes while others are open may leave them.
`ReplaceFile` gives the path a new database (`file` counts them) and leaves the
log where it is, as `renameWithCopy` does.

Left out: the media handlers, which use no collection; the read-only connections
with which handleSyncDelta counts cards before and after; the health check, which
is a reader.

### CardReview

A card has its type, queue, due date, interval and count of reviews. AnswerCard
is three steps: `Schedule` reads the card and the clock and calls the scheduler,
`SetDue` reads the clock again and replaces the sentinel, `Store` is the
transaction. FSRS is external: which state follows which rating, and any positive
interval up to a bound for cards in review. A memory state stands for the review
that computed it. `MemoryRead` says what GetCardByID returns of it: nothing.

### NoteIds and ConfigBlobs

Ids are drawn as the code draws them, `Span` instead of 1000 in a second of
`Second` ticks. A transaction works on its own copy of the tables; SQLite lets
one process write at a time and refuses the first write of a transaction that
began before another's commit (external). `StoreDeck` is CreateDeck's statement
outside any transaction, which in schema 11 writes back all decks as they were
read. Any step may fail (`Fail`), also because an id is already taken: then the
transaction is rolled back. `made` is a history: the decks of the calls that
succeeded. The deck's row in deck_config is left out: nothing in this code reads
it.

AddNote makes one card per template of the model that GetModels returned. In
schema 18 that may be fewer than there are: a query of the templates that fails,
or a row that cannot be scanned, is logged and left out (`ModelRead`), so AddNote
succeeds with too few cards, or none. `NoteWhole` therefore promises a card for
each template that was *read*; the field `of` of a note is this history. (The
same happens to fields, whose texts are then dropped; texts are not modelled.)

`ConfigBlobs` has the decoder of the blobs of schema 18 as functions on sequences
of bytes: numbers, fields, what the two parsers keep of them, and the test for
filtered decks. Its reference is the encoder: a message is a sequence of fields,
and a blob is its bytes, perhaps cut off. A byte has 4 bits and one, a number 6
bits, so that numbers which do not fit, lengths beyond the end and beyond
`maxProtobufFieldLen` are all among the inputs. A sort field is a signed integer of
these bits, as `int(val)` makes it (`Signed`); one with the highest bit set comes
out negative.

### FullDownload, FullUpload and FullTransfer

An archive is a sequence of entries of four kinds: a compressed database, a map
of names, a numbered file, and others, such as the placeholder collection.anki2.
`FirstPass` and `SecondPass` handle one entry each, as the loops of ImportColpkg
do, with the limits where the code compares them: the size of an entry before the
total, the total after the entry has been written. `FitsTotal` states the total of a whole
archive by its partial sums, since no recursive function is needed to speak of
them. Of a map of names the first `MaxFile` bytes are parsed, and what they are is
the field `json`: an object, whose names are added to those of earlier maps; null,
which empties them; or anything else, which is passed over (`Unmarshal`). Then `RenameDatabase` replaces
the collection, or `CreateTemp`, `CopyPiece`, `RenameCopy` and `RemoveSource` do it
across file systems. `FailDownload` may come at each step, and `CrashDownload`
ends the process anywhere. An archive without a database is refused when there is
nothing to rename and nothing to copy. `answer` says what was returned: "ok", or
the step that failed.

FullUpload has two goroutines and the HTTP transport between them. A write to the
pipe is a step of the streamer that needs the transport to read, or fails when
either end is closed. The compressor may hold back what it got (`held`). The
deferred Close of the file may come while the streamer reads it: then reading
fails (`FailRead`). The transport closes the body at any time after the request
was sent, and the sync server takes a database only from a complete form
(external: `Store`). An upload keeps the file that it has opened: os.Rename gives
the path a new file and does not change the old one. The module has `stream.file`
for this, and `FullTransfer` lets downloads replace the file meanwhile. That nobody
writes to the opened file in place is an assumption: writeMu sees to it within the
server, and nothing does outside.

### MediaDirectory and MediaStore

A file's bytes are apart from its name (`entry`, `data`): a rename gives bytes
another name, and who has a file open keeps it when its name goes. An upload
creates `<name>.tmp.<nanoseconds>`, writes piece by piece, closes and renames; each
failure removes the temporary file. Its name is itself a valid media name, so a
client that sees it in the listing may get or delete it. The files that a
download brings are renamed into the directory or, across file systems, copied to
a hidden file that is then renamed. An answer to a download of a file is what the
open file has when it is sent. `Crash` forgets all requests and leaves the files.

A walk (`scan`) is the listing of the directory followed by one step per file, as
in handleListMedia and the exporters; the number of files is limited in the
exporters. `due` are the files that must be in the result: there at the start and
not deleted since.

`AtomicDirectory` says that all this implements `MediaDirectory`, in which every
request takes effect at one moment. The abstract directory has the names without
the temporary files; requests for those are not part of what it promises.

### RateLimiter

`allow` is one action per outcome, since it holds the mutex throughout. `cleanup`
is three: the list of addresses, the clock, and one address at a time. `admitted`
and `told` are history. The second clock reading of `allow`, with which it
computes the waiting time, is taken to be the first. The client is told whole
seconds: `RetryAfter` rounds as the middleware does, to the nearest number of
`Second` ticks, so the time may be too short, by less than half a second.
`WaitNearlySuffices` therefore promises an address that has waited half a second
longer that it is not rejected for its own requests.

### ServerLifecycle and HttpServer

One goroutine runs ListenAndServe, others call Close, and the ticker's goroutine
ends when `closeCh` is closed. Testing and closing the channel are two steps. A
panic ends the process. A Close may come at any time, also before the server is
stored: then it shuts nothing down, and `CloseStops` does not promise that it
does. The standard library's Shutdown makes ListenAndServe of
http.Server return, also one called later.

`HttpServer` puts the rate limiter into this life: requests come once the server
listens (and on connections that are left afterwards), cleanup runs in the
ticker's goroutine while there is one, and that goroutine looks at `closeCh` only
between two cleanups, so that the properties about stopping include a cleanup on
its way. A Close before the server is stored ends the cleanup of a server that
then goes on serving: its map is not cleaned any more. `Forgets` is therefore
about servers that nobody has told to close; the cap and the limit hold in any
case.

## What the runs show

| Run (cfg) | Bounds | Shows |
|---|---|---|
| `MCDeltaSync` | 2 cards of 2 notes, 2 decks, 3 edits, 1 failure, schema 18; no outside writer | `PendingUntilKnown`, `GravesUploaded`, `CursorCovers`, `ReferencesWhole`, `NewerEditWins`, `Converges` |
| `MCCollectionServer` | 2 requests, 2 names of one file, 2 commits, 1 download; no readers | `FileExclusive`, `UploadComplete`, `LogBelongs`, `Answered` |
| `MCCardReview` | 2 processes, 2 cards (one imported at position 1, one by AddNote), 2 reviews, intervals of 1 day, days of 2 ticks, two midnights | `LogAccounts`, `OfferedFrom`, `NeverEarly`, `NeverLate`, `StepsOffered` |
| `MCNotesV18` | 2 processes, 2 ids a second, 2 templates, no call starts after 3 commits; blobs of up to 2 fields | `NoteWhole`, `DecksAccounted`, `DecksKept`, `BlobsRead` |
| `MCHttpServer` | 2 addresses, limit 1, cap 1, 2 admissions, a second of 3 ticks, a window of 1 second, 2 closers at any time; listening may fail | `WindowLimit`, `CapHolds`, `WaitNearlySuffices`, `Forgets`, `CloseStops`, `CleanerStops` |
| `MCMediaStore` | 2 requests at a time, 1 name, 2 contents of 2 pieces, 2 uploads, 1 crash that leaves files, at most 2 files in an export | `PublishedWhole`, `NoLeftovers`, `WalkComplete`, `AtomicDirectory` |
| `MCFullTransfer` | archives of up to 3 (5) entries with sizes up to one beyond the limits, databases of 2 pieces | `ReplacedWhole`, `AnswerMeaning`, `ImportLimits`, `UploadWhole`, `StreamEnds` |

Each of these runs but `MCHttpServer` also checks its module's `TypeOK`; the types
of the rate limiter are part of its proved invariant.

The bounds let what matters happen. Three edits and a failure suffice for an edit
here, one elsewhere and a deletion, in every order with the calls of two or more
synchronisations, one of which fails, and several pages. Two ids per second make
every collision common. A day of two ticks puts midnight between any two steps.
Two requests with two names of one file are the least that could break the
exclusion by writeMu, and the proof covers any number. Two admissions exceed
the limit in a window, and two addresses the cap; a window of three ticks has
waits that are rounded down, rounded up and exact. The proofs are for any limit,
cap, number, second and window. One media name suffices for uploads, downloads and
deletions to meet, since requests with different names share nothing but the
walk; two uploads have two temporary files, and the second rename meets the file
of the first. Two files are at and one more above the exporters' limit, because
temporary files count. The archives are all sequences of up to two databases and
maps, and those of three entries in which order, absence, repetition and the
limits interact; one of four has a map that empties the names, and one with five
entries exceeds their number. An imported card at position 1
is not offered on the first day, and is from the next.

What the runs leave out, on purpose. Readers are not in `MCCollectionServer`:
with them `LogBelongs` is false, which is `MCServerStaleLog`, and an upload may
miss what a writer's close left in the log; readers take no lock, so they cannot
change `Answered` or `FileExclusive` (the proof of which includes them). Schema 11 is not in
`MCNotesV18`, where a new deck may replace one with the same id, and not in
`MCDeltaSync`; the theorems about `DeltaSync` hold for both schemas, and its
configuration with `V18 = FALSE` passes as well (992,522 states).

That `MCDeltaSync` has no outside writer is what the server provides when it is the
only process: handleSyncDelta holds writeMu throughout, and `FileExclusive` says
that no handler that writes then has the file. The command line provides it only
if nothing else runs.

The bounded modules stop when their bounds are used up, so their configurations
switch the deadlock check off (`CardReview`, `NoteIds`, `MediaStore`,
`HttpServer`); the server's life ends, besides. `DeltaSync`, `CollectionServer` and
`FullTransfer` run for ever, and their runs check for deadlock.

### Where the code and its texts disagree

Each of these runs has a counterexample; the quotations are in `PROJECT.json`.

| Run | What happens |
|---|---|
| `MCDeltaSyncLostGrave` | a deletion made by another process during FullSync is stamped as uploaded and never is |
| `MCServerStaleLog` | a download, while a reader has the old database open, leaves the old log beside the new one |
| `MCReviewMemory` | the memory state stored by a review is not used by the next |
| `MCNotesDeckLost` | in schema 11 a deck that another process makes meanwhile is lost |
| `MCLifecyclePanic` | two calls of Close close the channel twice |

The command line never calls Close: the last concerns users of the library.

Met while modelling, and not the subject of a run:

* A new card is offered only if its position does not exceed the number of days
  since the collection was created (`collection.go:211`). A comment says "due is a
  position/order number (always ≤ dayCutoff as it grows)" (`collection.go:201`); an
  imported card with a larger position is not offered until the day that its
  position numbers. `OfferedFrom` states this, and `MCCardReview` has such a card.
* Retry-After is to be the "seconds until next request is allowed"
  (`server.go:130`), but is rounded to the nearest second (`server.go:498`). A client
  that obeys it may be up to half a second early and is rejected again;
  `WaitNearlySuffices` states what holds instead.
* A sort field of 2^63 or more becomes negative (`schema.go:321`). AddNote tests only
  that it is below the number of fields (`write.go:349`) and panics at the index; its
  transaction is rolled back. `BlobsRead` includes such numbers, and the panic is a
  case of `Fail` in `NoteIds`.
* FullUpload reads the live file. A process outside the server that moves SQLite's
  log into the database meanwhile may make the upload a mixture of two states; the
  reader is also limited to `maxUploadSize`, so a file that grows beyond it is cut
  (`sync.go:623`). Neither is modelled.
* Templates that cannot be read make AddNote store a note with too few cards
  (`schema.go:197-209`), although it is to "Create cards for each template"
  (`write.go:387`).
* Two uploads of one name that read the same nanosecond share a temporary file.
  With `FineClock = FALSE` in `MediaStore`, `PublishedWhole` is violated.
* With another process writing the collection during a synchronisation, more than
  `GravesUploaded` fails: `PendingUntilKnown` (MarkSynced marks an edit made since
  GetChanges), `NewerEditWins` (ApplyChanges replaces it) and `InSync`. TLC shows
  each with `OutsideWriter = TRUE` in `MCDeltaSync`. `TypeOK`, `CursorCovers` and
  `ReferencesWhole` hold even then, which is proved.
* Temporary files left by a crash are listed, exported and counted, and nothing
  removes them.
* FullUpload accepts databases up to 500 MB, but ImportColpkg, with which FullDownload
  reads them back, refuses those above 50 MB. An export writes up to
  `maxFileCount` media files and two or three entries more, so its own import may
  refuse it. ImportApkg takes collection.anki21b as it is, compressed, and the last
  of several databases wins.
* FullDownload that fails for the media directory returns an error when the
  collection has been replaced (`AnswerMeaning` states this).
* The comment at `export_colpkg.go:160` speaks of a deferred Close of the zip writer
  that is not there; an export writes to its final place, and one that fails
  leaves a part.
* A note type's `is_cloze` is set by a field that is not 0 and never reset by a later
  one (`schema.go:324`).

### Fairness

* `DeltaSync`: weak fairness of the client's steps. FullSync is sequential and
  its calls have timeouts; that it is run again and again is the user's part, and
  `Converges` is about that use. Failures and edits are bounded, not fair.
* `CollectionServer`: weak fairness of each request's own steps (SQLite calls
  return; requests to the sync server have timeouts), and strong fairness of
  taking a mutex: Go's mutex hands over to a goroutine that has waited for a
  millisecond. Arrivals are not fair.
* `FullTransfer`: weak fairness of FullUpload and of its streamer (the client has a
  time limit for the request, disk reads end), and of the transport closing the
  body once the request is over, which net/http promises. Downloads are not fair.
* `HttpServer`: weak fairness of cleanup, which a ticker starts, and of each
  goroutine's steps; strong fairness of the ticker's goroutine taking `closeCh`:
  a Go select with two ready cases takes either at random, so a closed channel is
  not passed over for ever. Nobody has to call Close, and nothing has to fail.

## What is proved

The theorems are `Spec => ...` for every value of the constants that the named
assumptions of the modules allow: sets may be infinite, unless an assumption says
otherwise, and bounds arbitrary. A further hypothesis is written in the theorem,
and given below. Every safety property of the passing runs is a theorem, but one
(`BlobsRead`). Each inductive invariant was checked with TLC before it was proved.

**DeltaSyncProofs**: `TypeCorrect`, whoever writes the collection meanwhile, with
the bounds on usns and times (`BInv`). `NoEditLost` (`PendingUntilKnown`) and
`NoDeletionLost` (`GravesUploaded`) assume no outside writer, without which they
are false (`MCDeltaSyncLostGrave`). `PendingUntilKnown` is not inductive: that
MarkSynced is right depends on what the steps before it have done. `IInv` says what
is true at each call. Once a table has been queried its pending rows are in
localDelta (`LocalComplete`). After the upload the server knows every local row,
and after ApplyGraves every local grave (`UploadKnown`, `GravesKnown`). What the
server sent it knows (`RemoteKnown`), and late requests never make it forget,
because a row on the server only becomes newer or is buried. Bounds on usns and
times (`UsnBound`, `ModBound`) carry the comparisons.

**DeltaSyncCursorProofs** (both schemas): `CursorTrue` (`CursorCovers`) and
`NoneDangles` (`ReferencesWhole`), whoever writes the collection meanwhile. `CInv`
joins `BInv`. The server numbers whatever it changes above all that it had, so what
the tables have of its changes up to some number (`Covers`) stays true while others
write to it (`Moves`, `Advances`) and while local edits, wherever they come from,
make rows newer or add to them (`Refreshes`). What a local row, a grave or a
request on its way refers to is known, here or on the server, which may have buried
it (`Seen`, `Sound`). Hence a page on its way completes the tables it will be
applied to, whatever these have become since it was asked for: they then cover the
page's usn, and after the last page nothing dangles (`Completes`, `Resolves`). The
server's own tables have whole references (`ServerOK`): that is a theorem about the
external server as `DeltaSync` describes it.

Two results assume no outside writer, since they need every pending row to have
been in the upload when the page arrives; with one they are false. `NewerWins`
(`NewerEditWins`): no row of a page is older than the local one (`PageNewer`).
`FinishedInSync`: a synchronisation that reaches its end has made both sides hold
the same versions of the same rows, and left nothing pending, if the server has
changed nothing since the last page (`InSync`, from `FinishOK`). This is the safety
half of `Converges`; no run lists it, but TLC checked it before it was proved. It
compares keys and times. That the cards of both sides are then in the same decks
TLC found as well, but it is not proved.

**CollectionServerProofs**: `Refinement`, `Spec => FileExclusive`. A request that
uses a file, and is not a reader, holds writeMu, of which there is one; so at most
one such request exists, on any path, and each step either leaves the user of a
file or is an Acquire or a Release of `FileAccess`. The registry's mutexes play no
part in the argument. `TypeCorrect` needs the steps of each handler.
`LocksGivenBack`: a request that has been answered holds no mutex; it has one
exactly from the step that takes it to the deferred call that gives it back
(`LockInv`, `OwnerInv`). The two locks are taken in one order, hence `NoDeadlock`:
whoever waits for a mutex waits for a request that goes on, or for one that waits
for writeMu and whose owner goes on. So no circle of requests wait for each other,
with any number of them; that they are then all answered (`Answered`) also needs
fairness and stays with TLC. `LogIsOwn` (`LogBelongs`) and `UploadsAll`
(`UploadComplete`) assume that there are no readers (`"read" \notin Kinds`),
without which `LogBelongs` is false (`MCServerStaleLog`). Then a file that is open
is the owner's, so a close is the last one and leaves no log; there is one only
while the owner of writeMu writes (`LogInv`), and a handler that replaces or sends
the file finds none.

**CardReviewProofs**: `NotEarly`, `NotLate`, `StepsOfferedAlways`. `IInv` puts each
due date between the one that the time of the answer allows and the one that the
time of storing allows, for rows already stored and for answers on their way;
division by the length of the day is monotonic, and that is all the proof needs to
know about midnight. `NewOfferedFrom` says when new cards are offered: one that
AddNote made always, one that came with the collection from the day on that its
position numbers (`OfferedFrom`); the position of a new card never changes, and no
answer makes a card new (`NewInv`). `LogComplete`
(`LogAccounts`) rests on `LogInv`: an answer on its way counts at most one review
more than the log has, and the log id that Store draws is free. `TypeCorrect`
follows from `IInv`.

**NoteIdsProofs**: `TypeCorrect`, `CardsStoredTogether` (a note has one card for
each template that was read, a card has its note) and `NoDeckLeft`
(`DecksAccounted`) in both schemas, `NotesWhole` (`NoteWhole`) and `DecksStay`
(`DecksKept`) for schema 18. What a process sees in its transaction is as sound as
the tables, but for the note that it is adding, which has the cards of the
templates done so far (`Adding`, `Seen`). SQLite's rule is the invariant `Ahead`: a
transaction that has written started from the tables as they are, so its commit
replaces nothing that another has added, and of its decks only its own is new
(`Accounted`). In schema 11 a note's deck may be lost to the overwriting of
`MCNotesDeckLost`, so `NotesWhole`, which adds the deck, assumes schema 18.

**MediaStoreProofs**: `TypeCorrect` and `NothingLeft` (`NoLeftovers`), also when
two uploads share a temporary file. The others assume a clock that never shows two
uploads of one name the same nanosecond (`FineClock`; without it `PublishedWhole`
is false): `NamesWhole` (`PublishedWhole`), `WalksComplete` (`WalkComplete`), and
`Atomic`, the refinement of `MediaDirectory` (`AtomicDirectory`). While a request
writes, the temporary path is its own, the bytes have no other name, and all that a
client can do is delete the path (`Owned`); the clock is past the name of every
temporary file there is, so a new one is fresh (`Stamped`); the file holds what has
been written (`Written`), so the rename publishes it whole; and a file that is
served is not open for writing (`ServedWhole`). The refinement has an upload take
effect with its rename, a download of a file with its opening, a deletion with its
unlink.

**FullTransferProofs**: `TypeCorrect`, `CollectionWhole` (`ReplacedWhole`),
`AnswerTrue` (`AnswerMeaning`), `LimitsKept` (`ImportLimits`), `ServerWhole`
(`UploadWhole`), for archives of any length. The invariant of a download says of
the entries that each pass has gone through: the database found is their last one,
each name is from the last map that has it since the last that was null, the files unpacked are within the
limits, and the total is the sum of the sizes that count (`Imported`); the
collection is what it was until the rename (`Placed`). The invariant of an upload
follows the bytes through the streamer, the pipe and the request (`UploadInv`).
Each part keeps its invariant while the other one runs; they share the collection's
path only.

**HttpServerProofs**: `LimitHolds` (`WindowLimit`), `MapBounded` (`CapHolds`). The
invariant says that the map remembers every admission that a window ending now can
count (`Remembered`), and that the clock reading of cleanup is not ahead
(`NotAhead`): so cleanup removes only what has expired. `WaitingNearlySuffices`
(`WaitNearlySuffices`): an entry that is full has exactly `Limit` admissions, by
`WindowLimit`, so it is below the limit without the oldest, and from then on it
only shrinks (`WaitInv`) until the address is admitted. The oldest has expired less
than half a second after the time told (`Rounding`). `ServerImplementsLimiter`
shows that the limiter within `HttpServer` is the same: every step of the server is
one of the limiter or none; `ServerLimits` states the three properties of the
specification that `MCHttpServer` checks.

`ServerImplementsLife` is the other half: a step of the limiter changes nothing of
`ServerLifecycle`. `NoPanic` is false in general (`MCLifecyclePanic`);
`OneCloserNoPanic` says what is enough for it: nobody calls Close, or only one
goroutine does and listening does not fail by itself. In the second case
ListenAndServe returns only because it was shut down, and leaves closeCh alone
(`LifeInv`).

**Only model-checked.** Liveness (`Converges`, `Answered`, `Forgets`, `CloseStops`,
`CleanerStops`, `StreamEnds`) is out of the prover's reach, as is `ENABLED`, on
which fairness rests. `BlobsRead` is about recursive functions of arbitrary inputs,
which needs an induction over data. What the violating runs show is that a property
fails in one instance.

## What is not modelled

* Content: fields, templates, tags, JSON, the wire format. No property depends on
  it. Most of `pkg/types` is of this kind.
* FSRS's numbers (a library) and the ease factor.
* Authentication, headers, validation of names and of URLs: guards that refuse a
  request before it changes anything.
* Media synchronisation (`pkg/sync/media.go`): four requests, each of which is sent
  and answered; no state here depends on their order, and the files are given to
  and taken from the caller in memory.
* ImportApkg, and writing the zip file in the exporters: sequential, on files of
  the caller that nobody shares. What they do with a directory that changes is in
  `MediaStore`, and the loops of ImportColpkg, nearly the same, in `FullDownload`.
* A process that writes the database in place while FullUpload reads it.
* GetStats: five counts, each a query of its own, for information only; written to
  by nobody and nothing is decided by them.
* The command line: each command is one call of a modelled operation.

## Plan

The order is that of importance; the modules are done.

1. `CollectionSync`, `DeltaSync`: the synchronisation, with proofs.
2. `CollectionServer` with `FileAccess`, and the refinement.
3. `CardReview`, with proofs.
4. `RateLimiter`, with proofs.
5. `ServerLifecycle`, and `HttpServer` which composes it with the rate limiter.
6. `NoteIds`, `ConfigBlobs`.
7. `FullDownload` and `FullUpload`, composed in `FullTransfer`.
8. `MediaStore`, with its abstract specification.

Proved, in this order: the uploads of `DeltaSync`; the refinement of `FileAccess`;
when cards of `CardReview` are offered; the limit and the cap of `RateLimiter`;
`MediaStore` with its refinement; `FullTransfer`; `NoteIds`; the logs, the uploads and
the types of `CollectionServer`; the log and the new cards of `CardReview`; the waiting
time of `RateLimiter`; the cursor and the references of `DeltaSync`; the locks of
`CollectionServer`; `HttpServer` with one closer; `DeltaSync` with an outside writer, and
what a finished synchronisation has done.

Not proved: liveness, `BlobsRead`, and that after a finished synchronisation the
cards of both sides are in the same decks.
