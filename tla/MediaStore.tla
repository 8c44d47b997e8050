----------------------------- MODULE MediaStore -----------------------------
(***************************************************************************)
(* The media directory: the server's handlers for it (server/server.go),    *)
(* the files a full download moves into it (pkg/sync/sync.go), and those    *)
(* who walk through it while it changes, the listing and an export          *)
(* (pkg/apkg).  Nobody takes a lock.                                        *)
(*                                                                          *)
(* A file has its bytes apart from its name: a rename gives them a new      *)
(* name, and who has the file open keeps it when the name goes.  A content  *)
(* is written in Chunks pieces; a piece is named after the content.         *)
(***************************************************************************)
EXTENDS Naturals, FiniteSets, Sequences

CONSTANTS
  Requests,      \* the goroutines that serve requests, or download
  Names,         \* names of media files
  Bodies,        \* contents
  Chunks,        \* pieces in which a content is written
  Files,         \* the file system's files (inodes)
  MaxTick,       \* bound: readings of the clock
  MaxHidden,     \* bound: names that os.CreateTemp may take
  FineClock,     \* TRUE: no two uploads read the same nanosecond
  MaxLeaked,     \* bound: files left by crashes, up to one more crash
  MaxFileCount,  \* the exporter's limit on media files
  Absent, Hole

ASSUME ChunksAssumption == Chunks \in Nat \ {0}
ASSUME BoundsAssumption == \A n \in {MaxTick, MaxHidden, MaxLeaked, MaxFileCount} : n \in Nat
ASSUME ClockAssumption == FineClock \in BOOLEAN
ASSUME NamesAssumption ==
  /\ Absent \notin Files \cup Bodies
  /\ Hole \notin Bodies \cup {Absent}
  /\ {"ok", "error"} \cap (Bodies \cup {Absent}) = {}

VARIABLES
  entry,   \* the directory: path -> file or Absent
  data,    \* the bytes of each file
  clock,   \* nanoseconds
  req,     \* the state of each request's handler
  scan,    \* one walk through the directory
  leaked   \* history: temporary files a crash has left

vars == <<entry, data, clock, req, scan, leaked>>

Ticks == 0..MaxTick

\* Besides the names: "<name>.tmp.<nanoseconds>", which is itself a valid name,
\* and ".tmp-*", which is hidden.
UploadTemps == [name : Names, tick : Ticks \ {MaxTick}]
HiddenTemps == [hidden : 1..MaxHidden]
Temps == UploadTemps \cup HiddenTemps
Paths == Names \cup Temps
Valid == Names \cup UploadTemps

ASSUME PathsAssumption == IsFiniteSet(Names) /\ Names \cap Temps = {}

Whole(b) == [i \in 1..Chunks |-> b]
IsWhole(s) == \E b \in Bodies : s = Whole(b)
BodyOf(s) == IF IsWhole(s) THEN s[1] ELSE Hole

Idle == [pc |-> "idle"]

\* A file without a name that nobody has open: the next one to be created.
Free(f) ==
  /\ \A p \in Paths : entry[p] # f
  /\ \A r \in Requests : req[r].pc \in {"write", "rename", "remove", "serve"} => req[r].file # f

\* The states of a handler, besides Idle.
Starting == [pc : {"start"}, op : {"put", "move"}, path : Names, body : Bodies]
            \cup [pc : {"start"}, op : {"get", "delete"}, path : Valid]
Writing == [pc : {"write"}, op : {"put", "move"}, path : Names, body : Bodies,
            temp : Temps, file : Files, at : 0..Chunks]
Closing == [pc : {"rename", "remove"}, op : {"put", "move"}, path : Names, body : Bodies,
            temp : Temps, file : Files]
Serving == [pc : {"serve"}, op : {"get"}, path : Valid, file : Files]
Answered == [pc : {"done"}, path : Valid, answer : Bodies \cup {Absent, Hole, "ok", "error"}]

Pieces == UNION {[1..k -> Bodies \cup {Hole}] : k \in 0..Chunks}

TypeOK ==
  /\ entry \in [Paths -> Files \cup {Absent}]
  /\ data \in [Files -> Pieces]
  /\ clock \in Ticks
  /\ req \in [Requests -> {Idle} \cup Starting \cup Writing \cup Closing \cup Serving \cup Answered]
  /\ scan \in [on : BOOLEAN, left : SUBSET Names, due : SUBSET Names, whole : SUBSET Names]
  /\ leaked \subseteq Temps

\* The files' bytes become d, and those of a file that is free are gone.
Bytes(d) == data' = [f \in Files |-> IF Free(f)' THEN << >> ELSE d[f]]

-----------------------------------------------------------------------------
(* Requests                                                                 *)

Go(r, state) == req' = [req EXCEPT ![r] = state]
Done(r, a) == Go(r, [pc |-> "done", path |-> req[r].path, answer |-> a])

At(r, pc) == req[r].pc = pc

Present(S) == {p \in S : entry[p] # Absent}

\* Clients put files of their own, and get or delete whatever the listing shows.
Arrive(r) ==
  /\ At(r, "idle")
  /\ \/ \E op \in {"put", "move"}, n \in Names, b \in Bodies :
          Go(r, [pc |-> "start", op |-> op, path |-> n, body |-> b])
     \/ \E op \in {"get", "delete"}, p \in Names \cup Present(UploadTemps) :
          Go(r, [pc |-> "start", op |-> op, path |-> p])
  /\ UNCHANGED <<entry, data, clock, scan, leaked>>

\* An error before anything is done, from any handler.
RefuseRequest(r) ==
  /\ At(r, "start")
  /\ Done(r, "error")
  /\ UNCHANGED <<entry, data, clock, scan, leaked>>

\* Mutant: the upload writes to the file's own name.
InPlace(n, t) == n

UploadTemp(n, t) == [name |-> n, tick |-> t]

\* Create the file at path p and write to it; one that is there loses its bytes.
OpenForWriting(r, p) ==
  \E f \in Files :
    /\ IF entry[p] # Absent THEN f = entry[p] ELSE Free(f)
    /\ entry' = [entry EXCEPT ![p] = f]
    /\ Go(r, [pc |-> "write", op |-> req[r].op, path |-> req[r].path, body |-> req[r].body,
              temp |-> p, file |-> f, at |-> 0])
    /\ Bytes([data EXCEPT ![f] = << >>])

\* handleUploadMedia: os.Create of the temporary file.
CreateUpload(r) ==
  /\ At(r, "start") /\ req[r].op = "put"
  /\ clock < MaxTick
  /\ OpenForWriting(r, UploadTemp(req[r].path, clock))
  /\ clock' \in (IF FineClock THEN {clock + 1} ELSE {clock, clock + 1})
  /\ UNCHANGED <<scan, leaked>>

\* renameWithCopy: the rename of an extracted file, whole, within a file system.
MoveFile(r) ==
  /\ At(r, "start") /\ req[r].op = "move"
  /\ \E f \in Files :
       /\ Free(f)
       /\ entry' = [entry EXCEPT ![req[r].path] = f]
       /\ Done(r, "ok")
       /\ Bytes([data EXCEPT ![f] = Whole(req[r].body)])
  /\ UNCHANGED <<clock, scan, leaked>>

\* Its fallback across file systems: os.CreateTemp, which takes an unused name.
CreateHidden(r) ==
  /\ At(r, "start") /\ req[r].op = "move"
  /\ \E p \in HiddenTemps : entry[p] = Absent /\ OpenForWriting(r, p)
  /\ UNCHANGED <<clock, scan, leaked>>

\* Piece i of content b, written at its offset.
WriteAt(s, i, b) ==
  [j \in 1..(IF Len(s) > i THEN Len(s) ELSE i) |->
     IF j = i THEN b ELSE IF j <= Len(s) THEN s[j] ELSE Hole]

WritePiece(r) ==
  /\ At(r, "write") /\ req[r].at < Chunks
  /\ data' = [data EXCEPT ![req[r].file] = WriteAt(@, req[r].at + 1, req[r].body)]
  /\ req' = [req EXCEPT ![r].at = @ + 1]
  /\ UNCHANGED <<entry, clock, scan, leaked>>

Resume(r, pc) ==
  Go(r, [pc |-> pc, op |-> req[r].op, path |-> req[r].path, body |-> req[r].body,
         temp |-> req[r].temp, file |-> req[r].file])

CloseWritten(r) ==
  /\ At(r, "write") /\ req[r].at = Chunks
  /\ Resume(r, "rename")
  /\ UNCHANGED <<entry, data, clock, scan, leaked>>

\* Mutant: an interrupted upload is published.
Publish == "rename"
AfterFailedWrite == "remove"

\* The connection drops, the body is too large, the disk is full, Close fails.
FailWrite(r) ==
  /\ At(r, "write")
  /\ Resume(r, AfterFailedWrite)
  /\ UNCHANGED <<entry, data, clock, scan, leaked>>

RenameTemp(r) ==
  /\ At(r, "rename") /\ entry[req[r].temp] # Absent
  /\ entry' = [p \in Paths |-> IF p = req[r].temp THEN Absent
                               ELSE IF p = req[r].path THEN entry[req[r].temp]
                               ELSE entry[p]]
  /\ Done(r, "ok")
  /\ Bytes(data)
  /\ UNCHANGED <<clock, scan, leaked>>

\* Among the reasons: a client has deleted the temporary file.
FailRename(r) ==
  /\ At(r, "rename")
  /\ Resume(r, "remove")
  /\ UNCHANGED <<entry, data, clock, scan, leaked>>

\* Mutant: the temporary file of a failed request stays.
KeepsTemp(r) == entry

WithoutTemp(r) == [entry EXCEPT ![req[r].temp] = Absent]

RemoveTemp(r) ==
  /\ At(r, "remove")
  /\ entry' = WithoutTemp(r)
  /\ Done(r, "error")
  /\ Bytes(data)
  /\ UNCHANGED <<clock, scan, leaked>>

\* handleGetMedia: os.Open, and then ServeContent from the open file.
OpenMedia(r) ==
  /\ At(r, "start") /\ req[r].op = "get"
  /\ IF entry[req[r].path] = Absent
       THEN Done(r, Absent)
       ELSE Go(r, [pc |-> "serve", op |-> "get", path |-> req[r].path,
                   file |-> entry[req[r].path]])
  /\ UNCHANGED <<entry, data, clock, scan, leaked>>

ServeMedia(r) ==
  /\ At(r, "serve")
  /\ Done(r, BodyOf(data[req[r].file]))
  /\ UNCHANGED <<entry, clock, scan, leaked>>
  /\ Bytes(data)

\* handleDeleteMedia.
DeleteMedia(r) ==
  /\ At(r, "start") /\ req[r].op = "delete"
  /\ Done(r, IF entry[req[r].path] = Absent THEN Absent ELSE "ok")
  /\ entry' = [entry EXCEPT ![req[r].path] = Absent]
  /\ scan' = [scan EXCEPT !.due = @ \ {req[r].path}]
  /\ Bytes(data)
  /\ UNCHANGED <<clock, leaked>>

\* The answer is given, or the client has gone away.
Return(r) ==
  /\ req[r].pc \in {"serve", "done"}
  /\ Go(r, Idle)
  /\ UNCHANGED <<entry, clock, scan, leaked>>
  /\ Bytes(data)

\* The server's process dies and is started again: it removes nothing.
Crash ==
  /\ Cardinality(leaked) < MaxLeaked
  /\ req' = [r \in Requests |-> Idle]
  /\ leaked' = leaked \cup {p \in Temps : entry[p] # Absent}
  /\ UNCHANGED <<entry, clock, scan>>
  /\ Bytes(data)

-----------------------------------------------------------------------------
(* Walks: the names first, then one file after the other                    *)

\* What a walk finds at the paths of temporary files is left out.
NoScan == [on |-> FALSE, left |-> {}, due |-> {}, whole |-> {}]

StartScan(found, due) ==
  /\ ~scan.on
  /\ scan' = [on |-> TRUE, left |-> found \cap Names, due |-> due, whole |-> {}]
  /\ UNCHANGED <<entry, data, clock, req, leaked>>

\* handleListMedia: os.ReadDir.
ReadDir == StartScan(Present(Paths), Present(Names))

\* Mutant: the limit is off by one.
OneTooFew(n) == IF n >= MaxFileCount THEN MaxFileCount - 1 ELSE n

Discovered(n) == IF n > MaxFileCount THEN MaxFileCount ELSE n

\* discoverMediaFiles: it stops at the limit, temporary files count as well;
\* which ones come first is a matter of their names.
Discover ==
  LET valid == Present(Valid) IN
    \E S \in SUBSET valid :
      /\ Cardinality(S) = Discovered(Cardinality(valid))
      /\ StartScan(S, IF Cardinality(valid) <= MaxFileCount THEN Present(Names) ELSE {})

\* The size of a file for the listing, or its content for the archive.
Visit(n) ==
  /\ n \in scan.left /\ entry[n] # Absent
  /\ scan' = [scan EXCEPT !.left = @ \ {n},
                          !.whole = IF IsWhole(data[entry[n]]) THEN @ \cup {n} ELSE @]
  /\ UNCHANGED <<entry, data, clock, req, leaked>>

\* A file that has gone, or cannot be read, is passed over.
PassOver(n) ==
  /\ n \in scan.left
  /\ scan' = [scan EXCEPT !.left = @ \ {n},
                          !.due = IF entry[n] = Absent THEN @ ELSE @ \ {n}]
  /\ UNCHANGED <<entry, data, clock, req, leaked>>

\* The end, or an error of the export.
EndScan ==
  /\ scan.on
  /\ scan' = NoScan
  /\ UNCHANGED <<entry, data, clock, req, leaked>>

-----------------------------------------------------------------------------
\* A directory of whole files, with none or some of the names.
Init ==
  /\ \E b \in Bodies :
       \/ entry = [p \in Paths |-> Absent] /\ data = [f \in Files |-> << >>]
       \/ \E f \in Files, n \in Names :
            /\ entry = [p \in Paths |-> IF p = n THEN f ELSE Absent]
            /\ data = [g \in Files |-> IF g = f THEN Whole(b) ELSE << >>]
  /\ clock = 0 /\ req = [r \in Requests |-> Idle] /\ scan = NoScan /\ leaked = {}

Handle(r) ==
  \/ Arrive(r) \/ RefuseRequest(r) \/ CreateUpload(r) \/ MoveFile(r) \/ CreateHidden(r)
  \/ WritePiece(r) \/ CloseWritten(r) \/ FailWrite(r) \/ RenameTemp(r) \/ FailRename(r)
  \/ RemoveTemp(r) \/ OpenMedia(r) \/ ServeMedia(r) \/ DeleteMedia(r) \/ Return(r)

Next ==
  \/ \E r \in Requests : Handle(r)
  \/ Crash \/ ReadDir \/ Discover \/ EndScan \/ (\E n \in Names : Visit(n) \/ PassOver(n))

Spec == Init /\ [][Next]_vars

-----------------------------------------------------------------------------
(* Properties                                                               *)

(***************************************************************************)
(* handleUploadMedia writes to a temporary file "to prevent partial writes  *)
(* on failure": a name in the directory has a whole content, that of one    *)
(* request, whichever uploads run at once and fail or crash.                *)
(***************************************************************************)
PublishedWhole == \A n \in Names : entry[n] # Absent => IsWhole(data[entry[n]])

(***************************************************************************)
(* No file is left by a request that failed; only a crash leaves some, and  *)
(* nothing ever removes those.                                              *)
(***************************************************************************)
NoLeftovers ==
  \A p \in Temps : entry[p] # Absent =>
    \/ p \in leaked
    \/ \E r \in Requests : req[r].pc \in {"write", "rename", "remove"} /\ req[r].temp = p

(***************************************************************************)
(* A file that was there when an export or a listing began and was not      *)
(* deleted since is in it, whole, also if an upload has replaced it         *)
(* meanwhile (discoverMediaFiles, ExportColpkg, handleListMedia).           *)
(***************************************************************************)
WalkComplete == scan.due \ scan.left \subseteq scan.whole

CallOf(r) ==
  LET q == req[r] IN
    IF q.pc = "idle" \/ q.path \notin Names THEN [phase |-> "idle"]
    ELSE IF q.pc = "done" THEN [phase |-> "answered", answer |-> q.answer]
    ELSE IF q.pc = "serve" THEN [phase |-> "answered", answer |-> BodyOf(data[q.file])]
    ELSE IF q.op \in {"get", "delete"} THEN [phase |-> "open", op |-> q.op, name |-> q.path]
    ELSE [phase |-> "open", op |-> "put", name |-> q.path, body |-> q.body]

Directory == [n \in Names |-> IF entry[n] = Absent THEN Absent ELSE BodyOf(data[entry[n]])]
CallsMade == [r \in Requests |-> CallOf(r)]

MD == INSTANCE MediaDirectory WITH dir <- Directory, call <- CallsMade

(***************************************************************************)
(* The handlers implement the directory of whole files: each request takes  *)
(* effect at one moment, although no handler takes a lock.                  *)
(***************************************************************************)
AtomicDirectory == MD!Spec
=============================================================================
