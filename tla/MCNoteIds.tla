----------------------------- MODULE MCNoteIds -----------------------------
(***************************************************************************)
(* Instances of NoteIds: a second has two ticks and two ids, so that equal  *)
(* ids, of notes, of cards and of decks, are common.  Of the blobs that     *)
(* GetModels reads: bytes of four bits and one, numbers of six bits.        *)
(***************************************************************************)
EXTENDS NoteIds, TLC, SequencesExt

Symmetry == Permutations(Procs)

Blobs == INSTANCE ConfigBlobs WITH
           Bits <- 4, Width <- 6, WireBits <- 3, Fixed64 <- 2, Fixed32 <- 1, MaxFieldLen <- 2

Bytes == {0, 5, 16, 21}

SomeFields ==
  [num : {1, 2, 3}, wire : {0}, value : {0, 1, 42}]
  \cup [num : {1, 3}, wire : {1, 5}, value : {<< >>}]
  \cup [num : {1, 2, 3}, wire : {2}, value : {<< >>, <<16>>, <<9, 21>>}]

ReadAsWritten ==
  /\ Blobs!ReadsNumbers(0..63, SeqOf(Bytes, 4))
  /\ Blobs!ReadsPrefixes(SeqOf(SomeFields, 2))
  /\ Blobs!ReadsConfigs({m \in SeqOf(SomeFields, 2) :
                            \A i, j \in DOMAIN m : m[i].num = m[j].num => i = j})

(***************************************************************************)
(* The model that AddNote goes on with is what the blobs of schema 18 say:  *)
(* they are read as they were written, numbers modulo their width, fields   *)
(* one after the other, and what is cut off or follows an unknown field     *)
(* does not disturb what came before (decodeVarint, parseTemplateConfig,    *)
(* parseNotetypeConfig, isFilteredDeckKind).  The sort field comes out as    *)
(* the signed integer of these bits: negative if the highest is set, which  *)
(* the test of AddNote (write.go:349) lets through to an index, so that it  *)
(* panics there, with its transaction rolled back (Fail).                   *)
(***************************************************************************)
BlobsRead == \A p \in Procs : tx[p].op = "note" => ReadAsWritten
=============================================================================
