---------------------------- MODULE FullTransfer ----------------------------
(***************************************************************************)
(* A full download and a full upload of one collection, at once: those of   *)
(* one server exclude each other (CollectionServer), but the command line   *)
(* and other servers take no part in that.  They share the file at dbPath,  *)
(* of which an upload keeps what it has opened.                             *)
(***************************************************************************)
EXTENDS Naturals, Sequences

CONSTANTS
  Archives, Databases, Old, Pieces, MaxFile, MaxTotal, MaxCount, NoDatabase, Invalid

ASSUME LimitsAssumption == \A n \in {MaxFile, MaxTotal, MaxCount} : n \in Nat
ASSUME PiecesAssumption == Pieces \in Nat \ {0}
ASSUME DatabasesAssumption ==
  /\ Old \in Databases /\ NoDatabase \notin Databases
  /\ Databases \cap {"header", "frame", "trailer"} = {}

\* What an archive is: its entries, with the number of bytes each unpacks to.
ASSUME ArchivesAssumption ==
  \A A \in Archives :
    /\ Len(A) \in Nat /\ DOMAIN A = 1..Len(A)
    /\ \A i \in DOMAIN A :
         /\ A[i].kind \in {"database", "map", "file", "placeholder"} /\ A[i].size \in Nat
         /\ A[i].kind = "database" => A[i].id \in Databases
         /\ A[i].kind = "map" => A[i].json \in {"object", "null", "malformed"}

VARIABLES path, archive, dl, main, stream, remote

vars == <<path, archive, dl, main, stream, remote>>

Download == INSTANCE FullDownload
Upload == INSTANCE FullUpload

TypeOK == Download!TypeOK /\ Upload!TypeOK

Init == Download!Init /\ Upload!Init

DownloadStep == Download!Next /\ UNCHANGED <<main, stream, remote>>
UploadStep == Upload!Next /\ UNCHANGED <<archive, dl>>

Next == DownloadStep \/ UploadStep

Spec == Init /\ [][Next]_vars /\ Upload!Fairness

-----------------------------------------------------------------------------
(* Properties of the two, also while the other one runs                     *)

(***************************************************************************)
(* FullDownload changes the collection at one moment, to a whole database   *)
(* of an archive that keeps the limits of ImportColpkg.                     *)
(***************************************************************************)
ReplacedWhole == Download!ReplacedWhole

(***************************************************************************)
(* What the answer of FullDownload says of the collection.                  *)
(***************************************************************************)
AnswerMeaning == Download!AnswerMeaning

(***************************************************************************)
(* How much ImportColpkg writes for one archive.                            *)
(***************************************************************************)
ImportLimits == Download!ImportLimits

(***************************************************************************)
(* The server has a whole database, and after FullUpload's success that of  *)
(* the file, also if a download replaced it meanwhile.                      *)
(***************************************************************************)
UploadWhole == Upload!UploadWhole

(***************************************************************************)
(* FullUpload's goroutine ends.                                             *)
(***************************************************************************)
StreamEnds == Upload!StreamEnds
=============================================================================
