----------------------------- MODULE FullUpload -----------------------------
(***************************************************************************)
(* A full upload (pkg/sync/sync.go): a goroutine, the streamer, reads the   *)
(* database, compresses it and writes it as a form into a pipe; the HTTP    *)
(* transport reads the pipe as the body of the request.                     *)
(*                                                                          *)
(* io.Pipe, the compressor, the transport and the sync server are external: *)
(* a write to the pipe ends when the transport has read it, or fails when   *)
(* either end is closed; the transport closes its end some time after the   *)
(* request is over; the server takes a database when the form is complete.  *)
(*                                                                          *)
(* The opened file keeps its bytes: a download gives the path another file, *)
(* and nobody writes to this one in place while it is read.  Within the     *)
(* server writeMu sees to that; a process outside that moves SQLite's log   *)
(* into the database meanwhile is not modelled.                             *)
(***************************************************************************)
EXTENDS Integers, SequencesExt

CONSTANTS
  Databases, Old,  \* databases; Old is the one the server has at first
  Pieces           \* pieces in which a database is read

VARIABLES
  path,    \* the pieces of the file at dbPath, written by others
  main,    \* FullUpload: where it is, or what it has returned
  stream,  \* the streamer, with the opened file, the compressor and the pipe
  remote   \* the pieces of the database that the server has

upVars == <<main, stream, remote>>

Marks == {"header", "frame", "trailer"}
Parts == Databases \cup Marks

Ended == [pc |-> "ended"]

TypeOK ==
  /\ main \in [pc : {"idle"}]
              \cup [pc : {"request", "do"}, file : SeqOf(Databases, Pieces)]
              \cup [pc : {"done"}, answer : {"ok", "error"}, file : SeqOf(Databases, Pieces)]
  /\ stream \in {Ended}
       \cup [pc : {"header", "copy", "flush", "abort", "trailer", "close", "ended"},
             file : SeqOf(Databases, Pieces), at : 0..Pieces, open : BOOLEAN,
             held : SeqOf(Databases, Pieces), sent : SeqOf(Parts, Pieces + 3),
             pipe : {"open", "eof", "broken"}, body : {"waiting", "read", "closed"},
             failed : BOOLEAN, stored : BOOLEAN]
  /\ remote \in SeqOf(Databases, Pieces)

-----------------------------------------------------------------------------
(* FullUpload                                                               *)

Start(file) ==
  [pc |-> "header", file |-> file, at |-> 0, open |-> TRUE, held |-> << >>, sent |-> << >>,
   pipe |-> "open", body |-> "waiting", failed |-> FALSE, stored |-> FALSE]

BeginUpload ==
  /\ main.pc = "idle"
  /\ main' = [pc |-> "request", file |-> path]
  /\ stream' = Start(path)
  /\ UNCHANGED <<path, remote>>

\* The file cannot be opened, or is too large; no streamer is started.
RefuseUpload ==
  /\ main.pc = "idle"
  /\ main' = [pc |-> "done", answer |-> "error", file |-> path]
  /\ UNCHANGED <<path, stream, remote>>

NewRequest ==
  /\ main.pc = "request"
  /\ main' = [main EXCEPT !.pc = "do"]
  /\ stream' = [stream EXCEPT !.body = "read"]
  /\ UNCHANGED <<path, remote>>

\* The deferred Close of the file comes also while the streamer reads it.
ReturnUpload(answer, pipe) ==
  /\ main' = [pc |-> "done", answer |-> answer, file |-> main.file]
  /\ stream' = [stream EXCEPT !.open = FALSE, !.pipe = pipe]
  /\ UNCHANGED <<path, remote>>

\* Mutant: the request fails and the pipe stays open.
LeaveOpen == "open"

\* CloseWithError, which does not change the reason of an earlier close.
Broken == IF stream.pipe = "open" THEN "broken" ELSE stream.pipe

FailNewRequest == main.pc = "request" /\ ReturnUpload("error", Broken)

\* The server's status, of which only 200 is a success.
Succeed == main.pc = "do" /\ stream.stored /\ ReturnUpload("ok", stream.pipe)

\* The server refuses, at any time, or its answer is lost or too late.
FailUpload == main.pc = "do" /\ ReturnUpload("error", stream.pipe)

EndUpload ==
  /\ main.pc = "done" /\ stream.pc = "ended"
  /\ main' = [pc |-> "idle"] /\ stream' = Ended
  /\ UNCHANGED <<path, remote>>

-----------------------------------------------------------------------------
(* The transport and the server                                             *)

CloseBody ==
  /\ main.pc \in {"do", "done"} /\ stream # Ended /\ stream.body = "read"
  /\ stream' = [stream EXCEPT !.body = "closed"]
  /\ UNCHANGED <<path, main, remote>>

\* What the form has between its header and the end of the compressed frame.
Received == SubSeq(stream.sent, 2, Len(stream.sent) - 2)

\* The form is complete; whether the client still waits does not matter.
Store ==
  /\ stream # Ended /\ ~stream.stored /\ Contains(stream.sent, "trailer")
  /\ remote' = Received
  /\ stream' = [stream EXCEPT !.stored = TRUE]
  /\ UNCHANGED <<path, main>>

-----------------------------------------------------------------------------
(* The streamer                                                             *)

Streamer(pc) == stream.pc = pc /\ UNCHANGED <<path, main, remote>>

\* A write to the pipe, after which the streamer goes on to pc, or fails.
Deliver(s, parts, pc) ==
  /\ s.pipe = "open" /\ s.body = "read"
  /\ stream' = [s EXCEPT !.pc = pc, !.sent = @ \o parts, !.held = << >>]

FailWrite(pc) ==
  /\ stream.pipe # "open" \/ stream.body = "closed"
  /\ stream' = [stream EXCEPT !.pc = pc, !.failed = TRUE]

WriteHeader ==
  /\ Streamer("header")
  /\ Deliver(stream, <<"header">>, "copy") \/ FailWrite("close")

\* A piece is read and compressed; the compressor may hold it back or write.  The
\* limit on what is read is that of RefuseUpload, and the file does not grow.
CopyNext ==
  /\ Streamer("copy") /\ stream.open /\ stream.at < Pieces
  /\ LET piece == stream.file[stream.at + 1]
         s == [stream EXCEPT !.at = @ + 1, !.held = Append(@, piece)] IN
       stream' = s \/ Deliver(s, s.held, "copy") \/ FailWrite("abort")

\* The file has been closed, or the disk fails.
FailRead ==
  /\ Streamer("copy")
  /\ stream' = [stream EXCEPT !.pc = "abort", !.failed = TRUE]

EndCopy ==
  /\ Streamer("copy") /\ stream.open /\ stream.at = Pieces
  /\ stream' = [stream EXCEPT !.pc = "flush"]

\* zstdWriter.Close, after success.
Flush ==
  /\ Streamer("flush")
  /\ Deliver(stream, stream.held \o <<"frame">>, "trailer") \/ FailWrite("close")

\* Mutant: a deferred formWriter.Close.
CompleteForm == "trailer"
AfterAbort == "close"

\* zstdWriter.Close, after a failure: it may write what it held.
Abort ==
  /\ Streamer("abort")
  /\ \/ Deliver(stream, stream.held \o <<"frame">>, AfterAbort)
     \/ stream' = [stream EXCEPT !.pc = AfterAbort]

WriteTrailer ==
  /\ Streamer("trailer")
  /\ Deliver(stream, <<"trailer">>, "close") \/ FailWrite("close")

\* pw.CloseWithError, which tells the transport of the end or of the error.
ClosePipe ==
  /\ Streamer("close")
  /\ stream' = [stream EXCEPT !.pc = "ended",
                  !.pipe = IF @ = "open" /\ ~stream.failed THEN "eof" ELSE Broken]

Stream ==
  \/ WriteHeader \/ CopyNext \/ FailRead \/ EndCopy \/ Flush \/ Abort
  \/ WriteTrailer \/ ClosePipe

-----------------------------------------------------------------------------
Init ==
  /\ path = [i \in 1..Pieces |-> Old] /\ remote = path
  /\ main = [pc |-> "idle"] /\ stream = Ended

Main == NewRequest \/ FailNewRequest \/ Succeed \/ FailUpload

Next == BeginUpload \/ RefuseUpload \/ Main \/ EndUpload \/ CloseBody \/ Store \/ Stream

\* Calls return (the client has a time limit, which covers Do and reading the
\* answer), and the transport closes the body of a request that is over.
Fairness ==
  /\ WF_upVars(Main) /\ WF_upVars(Stream)
  /\ WF_upVars(main.pc = "done" /\ CloseBody)

-----------------------------------------------------------------------------
(* Properties                                                               *)

(***************************************************************************)
(* The server has a whole database at all times: of an upload that fails    *)
(* anywhere (the file closed under the streamer, a broken connection, an    *)
(* early answer) it never takes the part it got, and success means that it  *)
(* has the file as it was when the upload began.                            *)
(***************************************************************************)
UploadWhole ==
  /\ \E d \in Databases : remote = [i \in 1..Pieces |-> d]
  /\ main.pc = "done" /\ main.answer = "ok" => remote = main.file

(***************************************************************************)
(* The streamer ends, however FullUpload returns: it is not left waiting    *)
(* for a reader of the pipe.                                                *)
(***************************************************************************)
StreamEnds == stream.pc # "ended" ~> stream.pc = "ended"
=============================================================================
