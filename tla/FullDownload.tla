---------------------------- MODULE FullDownload ----------------------------
(***************************************************************************)
(* A full download (pkg/sync/sync.go): the client saves the archive that    *)
(* the server sends, imports it into a temporary directory (ImportColpkg in *)
(* pkg/apkg/apkg.go) and moves the database it found to its place.          *)
(*                                                                          *)
(* An archive is a sequence of entries, each with the bytes it unpacks to.  *)
(* A database is written in Pieces pieces, each named after the database.   *)
(***************************************************************************)
EXTENDS Naturals, SequencesExt, FiniteSetsExt

CONSTANTS
  Archives,   \* the archives a server may send
  Databases,  \* databases; Old is the one there is
  Old,
  Pieces,     \* pieces in which a database is copied
  MaxFile,    \* maxFileSize, bytes of one entry
  MaxTotal,   \* maxTotalSize, bytes of all entries that are unpacked
  MaxCount,   \* maxFileCount, entries
  NoDatabase, Invalid

VARIABLES
  path,     \* the pieces of the file at dbPath
  archive,  \* the archive of the current download
  dl        \* the state of the download

Whole(d) == [i \in 1..Pieces |-> d]

Idle == [pc |-> "idle"]

Working == {"save", "first", "second", "place", "copy", "clean", "media"}

TypeOK ==
  /\ path \in SeqOf(Databases, Pieces)
  /\ archive \in Archives \cup {<< >>}
  /\ dl.pc \in {"idle", "done"} \cup Working
  /\ dl.pc \in Working =>
       /\ dl.at \in 1..(Len(archive) + 1) /\ dl.total \in 0..MaxTotal /\ dl.written \in Nat
       /\ dl.db \in Databases \cup {NoDatabase}
       /\ dl.temp \in SeqOf(Databases, Pieces)
  /\ dl.pc = "done" => dl.answer \in {"ok"} \cup Working

Entry == archive[dl.at]
Smaller(m, n) == IF m < n THEN m ELSE n

-----------------------------------------------------------------------------
(* Saving and importing the archive                                         *)

\* FullDownload is called and the server answers with an archive.
BeginDownload ==
  /\ dl.pc = "idle"
  /\ \E A \in Archives :
       /\ archive' = A
       /\ dl' = [pc |-> "save", at |-> 1, total |-> 0, written |-> 0, names |-> << >>,
                 db |-> NoDatabase, temp |-> << >>, before |-> path]
  /\ UNCHANGED path

Return(answer, written) ==
  dl' = [pc |-> "done", answer |-> answer, before |-> dl.before, written |-> written]

\* An error is returned; what failed is the answer.  The deferred calls
\* remove the temporary directory and the temporary file.
ReturnError == Return(dl.pc, dl.written)

\* A time limit, the disk, a malformed archive, an archive too large to save.
FailDownload ==
  /\ dl.pc \in Working \ {"clean"}
  /\ ReturnError
  /\ UNCHANGED <<path, archive>>

OpenArchive ==
  /\ dl.pc = "save"
  /\ IF Len(archive) > MaxCount THEN ReturnError
                                ELSE dl' = [dl EXCEPT !.pc = "first"]
  /\ UNCHANGED <<path, archive>>

\* Mutant: the total is compared before the bytes are added.
ExceedsBefore(n) == dl.total > MaxTotal

Exceeds(n) == dl.total + n > MaxTotal

\* n bytes count against the total, which is compared with the limit when they
\* have been unpacked, with the state "unpacked" as the result.
Count(n, unpacked) ==
  IF Exceeds(n)
    THEN Return(dl.pc, unpacked.written)
    ELSE dl' = [unpacked EXCEPT !.at = dl.at + 1, !.total = dl.total + n]

ExtractDatabase ==
  /\ Entry.kind = "database"
  /\ IF Entry.size > MaxFile
       THEN ReturnError
       ELSE Count(Entry.size, [dl EXCEPT !.db = Entry.id, !.written = @ + Entry.size])

\* json.Unmarshal of a map, of which json says what its first MaxFile bytes are: null
\* empties the names, the keys of an object are added to those of earlier maps (with
\* an Invalid name for a value that is no string), anything else is passed over.
Unmarshal(map, names) ==
  CASE map.json = "null" -> << >>
    [] map.json = "object" ->
         [k \in DOMAIN map.names \cup DOMAIN names |->
            IF k \in DOMAIN map.names THEN map.names[k] ELSE names[k]]
    [] OTHER -> names

ReadMap ==
  /\ Entry.kind = "map"
  /\ Count(Smaller(Entry.size, MaxFile), [dl EXCEPT !.names = Unmarshal(Entry, @)])

Skip == dl' = [dl EXCEPT !.at = @ + 1]

FirstPass ==
  /\ dl.pc = "first" /\ dl.at <= Len(archive)
  /\ \/ ExtractDatabase \/ ReadMap
     \/ Entry.kind \in {"placeholder", "file"} /\ Skip
  /\ UNCHANGED <<path, archive>>

\* Mutant: the second pass counts anew.
TotalAnew == 0
TotalSoFar == dl.total

EndFirstPass ==
  /\ dl.pc = "first" /\ dl.at > Len(archive)
  /\ dl' = [dl EXCEPT !.pc = "second", !.at = 1, !.total = TotalSoFar]
  /\ UNCHANGED <<path, archive>>

Mapped == Entry.kind = "file" /\ Entry.key \in DOMAIN dl.names

ExtractFile ==
  /\ Mapped
  /\ IF dl.names[Entry.key] = Invalid \/ Entry.size > MaxFile
       THEN ReturnError
       ELSE Count(Entry.size, [dl EXCEPT !.written = @ + Entry.size])

SecondPass ==
  /\ dl.pc = "second" /\ dl.at <= Len(archive)
  /\ ExtractFile \/ (~Mapped /\ Skip)
  /\ UNCHANGED <<path, archive>>

EndSecondPass ==
  /\ dl.pc = "second" /\ dl.at > Len(archive)
  /\ dl' = [dl EXCEPT !.pc = "place"]
  /\ UNCHANGED <<path, archive>>

-----------------------------------------------------------------------------
(* renameWithCopy, and the media files                                      *)

\* Within a file system, and only if the archive had a database.
RenameDatabase ==
  /\ dl.pc = "place" /\ dl.db # NoDatabase
  /\ path' = Whole(dl.db)
  /\ dl' = [dl EXCEPT !.pc = "media"]
  /\ UNCHANGED archive

\* The rename fails: a temporary file beside the database.
CreateTemp ==
  /\ dl.pc = "place"
  /\ dl' = [dl EXCEPT !.pc = "copy"]
  /\ UNCHANGED <<path, archive>>

\* Mutant: the copy goes to the database's own place.
OntoDatabase(p, s) == s

\* The file at dbPath, while the temporary file has the pieces s.
DuringCopy(p, s) == p

CopyPiece ==
  /\ dl.pc = "copy" /\ dl.db # NoDatabase /\ Len(dl.temp) < Pieces
  /\ dl' = [dl EXCEPT !.temp = Append(@, dl.db)]
  /\ path' = DuringCopy(path, dl'.temp)
  /\ UNCHANGED archive

RenameCopy ==
  /\ dl.pc = "copy" /\ Len(dl.temp) = Pieces
  /\ path' = dl.temp
  /\ dl' = [dl EXCEPT !.pc = "clean"]
  /\ UNCHANGED archive

\* Mutant: a source that cannot be removed is an error.
StrictRemoval == {"media", "done"}
AfterRemoval == {"media"}

\* The source of the copy is removed; if that fails there is a warning.
RemoveSource ==
  /\ dl.pc = "clean"
  /\ \E next \in AfterRemoval :
       IF next = "done" THEN ReturnError ELSE dl' = [dl EXCEPT !.pc = next]
  /\ UNCHANGED <<path, archive>>

\* The directory is made and files are moved; one that cannot be is left out.
MoveMedia ==
  /\ dl.pc = "media"
  /\ Return("ok", dl.written)
  /\ UNCHANGED <<path, archive>>

EndDownload ==
  /\ dl.pc = "done"
  /\ dl' = Idle /\ archive' = << >>
  /\ UNCHANGED path

\* The process dies; files in temporary places stay and are not used again.
CrashDownload ==
  /\ dl.pc \in Working
  /\ dl' = Idle /\ archive' = << >>
  /\ UNCHANGED path

-----------------------------------------------------------------------------
Init == path = Whole(Old) /\ archive = << >> /\ dl = Idle

Next ==
  \/ BeginDownload \/ FailDownload \/ OpenArchive \/ FirstPass \/ EndFirstPass
  \/ SecondPass \/ EndSecondPass \/ RenameDatabase \/ CreateTemp \/ CopyPiece
  \/ RenameCopy \/ RemoveSource \/ MoveMedia \/ EndDownload \/ CrashDownload

-----------------------------------------------------------------------------
(* Properties                                                               *)

\* What an archive must be, said without the order of the two passes.
Indices(A, kind) == {i \in DOMAIN A : A[i].kind = kind}
KeptMaps(A) ==
  {i \in Indices(A, "map") :
     /\ A[i].json = "object"
     /\ \A j \in Indices(A, "map") : j > i => A[j].json # "null"}
MapOf(A, k) == {i \in KeptMaps(A) : k \in DOMAIN A[i].names}
Unpacked(A) == {i \in Indices(A, "file") : MapOf(A, A[i].key) # {}}
NameOf(A, k) == A[Max(MapOf(A, k))].names[k]

\* Added up in the archive's order, the sizes of the entries S stay within the limit.
FitsTotal(A, S) ==
  \E sum \in [0..Len(A) -> 0..MaxTotal] :
    /\ sum[0] = 0
    /\ \A i \in DOMAIN A :
         sum[i] = sum[i - 1] + (IF i \in S THEN Smaller(A[i].size, MaxFile) ELSE 0)

Acceptable(A) ==
  /\ Len(A) <= MaxCount
  /\ Indices(A, "database") # {}
  /\ \A i \in Indices(A, "database") \cup Unpacked(A) : A[i].size <= MaxFile
  /\ \A i \in Unpacked(A) : NameOf(A, A[i].key) # Invalid
  /\ FitsTotal(A, Indices(A, "database") \cup Indices(A, "map") \cup Unpacked(A))

LastDatabase(A) == A[Max(Indices(A, "database"))].id

(***************************************************************************)
(* The collection is replaced at one moment, by the whole database of an    *)
(* archive that keeps every limit; nothing else ever changes it, whatever   *)
(* fails and wherever the process dies ("prevents data loss if extraction   *)
(* fails partway through").                                                 *)
(***************************************************************************)
ReplacedWhole ==
  [][path' # path =>
       Acceptable(archive) /\ path' = Whole(LastDatabase(archive))]_<<path, archive, dl>>

(***************************************************************************)
(* What the answer of FullDownload says of the collection: success that it  *)
(* has been replaced, an error that it is as it was, except an error about  *)
(* the media directory, which comes when it has been replaced.              *)
(***************************************************************************)
AnswerMeaning ==
  dl.pc = "done" =>
    CASE dl.answer \in {"ok", "media"} -> path = Whole(LastDatabase(archive))
      [] OTHER -> path = dl.before

(***************************************************************************)
(* ImportColpkg writes no more than the limit on the total to disk for an   *)
(* archive that it goes on with, and one entry more for one that it         *)
(* refuses, whatever the archive repeats or leaves out.                     *)
(***************************************************************************)
ImportLimits ==
  /\ dl.pc \in Working \cup {"done"} => dl.written <= MaxTotal + MaxFile
  /\ dl.pc \in {"place", "copy", "clean", "media"} => dl.written <= MaxTotal
=============================================================================
