-------------------------- MODULE MediaStoreProofs --------------------------
(***************************************************************************)
(* What is proved of MediaStore, for every set of requests, names, contents *)
(* and files, and for every bound.                                          *)
(***************************************************************************)
EXTENDS MediaStore, FiniteSetTheorems, TLAPS

\* The requests that write to a file, or have written it.
Holds(r) == req[r].pc \in {"write", "rename", "remove"}

\* Whoever holds a file alone has its name and its bytes.
Alone(r, s) == Holds(s) /\ s # r => req[s].temp # req[r].temp /\ req[s].file # req[r].file

(* A temporary path is its request's, a client can at most delete it, and   *)
(* the file has no other name.                                              *)
Owned ==
  \A r \in Requests : Holds(r) =>
    /\ entry[req[r].temp] \in {req[r].file, Absent}
    /\ req[r].temp \in HiddenTemps => entry[req[r].temp] = req[r].file
    /\ \A p \in Paths : entry[p] = req[r].file => p = req[r].temp
    /\ \A s \in Requests : Alone(r, s)

(* The clock has passed every temporary path of an upload.                  *)
Stamped ==
  /\ \A p \in UploadTemps : entry[p] # Absent => p.tick < clock
  /\ \A r \in Requests : Holds(r) /\ req[r].temp \in UploadTemps => req[r].temp.tick < clock

(* What a request has written is what its file holds.                       *)
Written ==
  \A r \in Requests :
    /\ req[r].pc = "write" => data[req[r].file] = [i \in 1..req[r].at |-> req[r].body]
    /\ req[r].pc = "rename" => data[req[r].file] = Whole(req[r].body)

(* A file that is served under a name is whole, and nobody writes to it.    *)
ServedWhole ==
  \A r \in Requests : req[r].pc = "serve" /\ req[r].path \in Names =>
    /\ IsWhole(data[req[r].file])
    /\ \A s \in Requests : Holds(s) => req[s].file # req[r].file

(* What a walk still owes is there.                                         *)
DueThere == \A n \in scan.due : entry[n] # Absent

IInv ==
  /\ TypeOK /\ Owned /\ Stamped /\ Written /\ ServedWhole /\ PublishedWhole
  /\ DueThere /\ WalkComplete

-----------------------------------------------------------------------------
(* What the states of a handler are made of                                 *)

States == {Idle} \cup Starting \cup Writing \cup Closing \cup Serving \cup Answered

\* The fields a request has, given where it is (handleUploadMedia, handleGetMedia,
\* handleDeleteMedia, renameWithCopy).
LEMMA Fields ==
  ASSUME NEW q \in States
  PROVE  /\ q.pc \in {"idle", "start", "write", "rename", "remove", "serve", "done"}
         /\ q.pc = "idle" => q = Idle
         /\ q.pc = "start" =>
              \/ q.op \in {"put", "move"} /\ q.path \in Names /\ q.body \in Bodies
              \/ q.op \in {"get", "delete"} /\ q.path \in Valid
         /\ q.pc \in {"write", "rename", "remove"} =>
              /\ q.op \in {"put", "move"} /\ q.path \in Names /\ q.body \in Bodies
              /\ q.temp \in Temps /\ q.file \in Files
         /\ q.pc = "write" => q \in Writing /\ q.at \in 0..Chunks
         /\ q.pc = "serve" => q.op = "get" /\ q.path \in Valid /\ q.file \in Files
         /\ q.pc = "done" => q.path \in Valid
                              /\ q.answer \in Bodies \cup {Absent, Hole, "ok", "error"}
<1>1. CASE q = Idle
  BY <1>1 DEF Idle
<1>2. CASE q \in Starting
  BY <1>2 DEF Starting
<1>3. CASE q \in Writing
  BY <1>3 DEF Writing
<1>4. CASE q \in Closing
  BY <1>4 DEF Closing
<1>5. CASE q \in Serving
  BY <1>5 DEF Serving
<1>6. CASE q \in Answered
  BY <1>6 DEF Answered
<1> QED
  BY <1>1, <1>2, <1>3, <1>4, <1>5, <1>6 DEF States

\* A whole content is told from its bytes.
LEMMA WholeBody ==
  ASSUME NEW b \in Bodies
  PROVE  IsWhole(Whole(b)) /\ BodyOf(Whole(b)) = b /\ Whole(b) \in Pieces
<1>1. IsWhole(Whole(b))
  BY DEF IsWhole
<1>2. Whole(b)[1] = b
  BY ChunksAssumption DEF Whole
<1>3. Whole(b) \in [1..Chunks -> Bodies \cup {Hole}] /\ Chunks \in 0..Chunks
  BY ChunksAssumption DEF Whole
<1> QED
  BY <1>1, <1>2, <1>3 DEF BodyOf, Pieces

\* The content of a file, as it is served, is a body or a hole.
LEMMA BodyOfType ==
  ASSUME NEW s
  PROVE  BodyOf(s) \in Bodies \cup {Hole} /\ (IsWhole(s) => BodyOf(s) \in Bodies)
<1>1. CASE IsWhole(s)
  <2>1. PICK b \in Bodies : s = Whole(b)
    BY <1>1 DEF IsWhole
  <2> QED
    BY <2>1, WholeBody
<1>2. CASE ~IsWhole(s)
  BY <1>2 DEF BodyOf
<1> QED
  BY <1>1, <1>2

\* A piece written at its place (os.File.Write through io.Copy).
LEMMA WriteAtType ==
  ASSUME NEW s \in Pieces, NEW i \in 1..Chunks, NEW b \in Bodies
  PROVE  WriteAt(s, i, b) \in Pieces
<1>1. PICK k \in 0..Chunks : s \in [1..k -> Bodies \cup {Hole}]
  BY DEF Pieces
<1>2. k \in Nat /\ i \in Nat /\ Len(s) = k /\ s \in Seq(Bodies \cup {Hole})
  BY <1>1, ChunksAssumption
<1> DEFINE m == IF Len(s) > i THEN Len(s) ELSE i
<1>3. m \in 0..Chunks
  BY <1>2, <1>1, ChunksAssumption
<1>4. WriteAt(s, i, b) \in [1..m -> Bodies \cup {Hole}]
  BY <1>1, <1>2 DEF WriteAt
<1> QED
  BY <1>3, <1>4 DEF Pieces

\* Piece after piece, the file holds what has been written of the content.
LEMMA WriteNext ==
  ASSUME NEW i \in 0..Chunks, i < Chunks, NEW b
  PROVE  WriteAt([j \in 1..i |-> b], i + 1, b) = [j \in 1..(i + 1) |-> b]
<1> DEFINE s == [j \in 1..i |-> b]
<1>1. i \in Nat /\ Len(s) = i
  BY ChunksAssumption
<1>2. (IF Len(s) > i + 1 THEN Len(s) ELSE i + 1) = i + 1
  BY <1>1
<1>3. \A j \in 1..(i + 1) : j = i + 1 \/ (j \in 1..i /\ j <= Len(s))
  BY <1>1
<1>4. \A j \in 1..i : s[j] = b
  OBVIOUS
<1> QED
  BY <1>1, <1>2, <1>3, <1>4 DEF WriteAt

\* The bytes of the files that stay are those that the step gives them.
LEMMA BytesType ==
  ASSUME NEW d \in [Files -> Pieces], Bytes(d)
  PROVE  /\ data' \in [Files -> Pieces]
         /\ \A f \in Files : data'[f] = d[f] \/ Free(f)'
<1>1. << >> \in Pieces
  <2>1. << >> \in [1..0 -> Bodies \cup {Hole}] /\ 0 \in 0..Chunks
    BY ChunksAssumption
  <2> QED
    BY <2>1 DEF Pieces
<1> DEFINE gone(f) == Free(f)'
<1>2. data' = [f \in Files |-> IF gone(f) THEN << >> ELSE d[f]]
  BY DEF Bytes
<1> HIDE DEF gone
<1>3. data' \in [Files -> Pieces] /\ \A f \in Files : data'[f] = d[f] \/ gone(f)
  BY <1>1, <1>2
<1> QED
  BY <1>3 DEF gone

\* A file with a name, or held by a request, is not free: before a step and after it.
LEMMA NotFree ==
  ASSUME NEW f
  PROVE  /\ \A p \in Paths : entry[p] = f => ~Free(f)
         /\ \A r \in Requests : (Holds(r) \/ req[r].pc = "serve") /\ req[r].file = f => ~Free(f)
  BY DEF Free, Holds

LEMMA NotFreeNext ==
  ASSUME NEW f
  PROVE  /\ \A p \in Paths : entry'[p] = f => ~Free(f)'
         /\ \A r \in Requests : (Holds(r)' \/ req'[r].pc = "serve") /\ req'[r].file = f => ~Free(f)'
  BY DEF Free, Holds

-----------------------------------------------------------------------------
(* Steps that give no request a new file to write to                        *)

\* What is asked of such a step of request r: r may give its file up, close it or
\* publish it, and open one that has a name; a name may go, or be given a file
\* that is whole and that nobody writes to.
Gentle(r) ==
  /\ \A s \in Requests \ {r} : req'[s] = req[s]
  /\ Holds(r)' => Holds(r) /\ req'[r].temp = req[r].temp /\ req'[r].file = req[r].file
  /\ req'[r].pc # "write"
  /\ req'[r].pc = "rename" =>
       req[r].pc = "write" /\ req[r].at = Chunks /\ req'[r].body = req[r].body
  /\ req'[r].pc = "serve" => entry[req'[r].path] = req'[r].file
  /\ \A s \in Requests : Holds(s)' =>
       \/ entry'[req[s].temp] = entry[req[s].temp]
       \/ entry'[req[s].temp] = Absent /\ req[s].temp \notin HiddenTemps
  /\ \A p \in Paths :
       \/ entry'[p] \in {entry[p], Absent}
       \/ p \in Names /\ IsWhole(data'[entry'[p]])
          /\ \A s \in Requests : Holds(s)' => entry'[p] # req[s].file
  /\ \A f \in Files : data'[f] = data[f] \/ Free(f) \/ Free(f)'
  /\ clock' = clock
  /\ scan'.left = scan.left /\ scan'.due \subseteq scan.due /\ scan'.whole = scan.whole
  /\ \A n \in Names : entry'[n] = Absent => entry[n] = Absent \/ n \notin scan'.due

\* Such a step keeps the invariant.
LEMMA GentleKeeps ==
  ASSUME IInv, TypeOK', NEW r \in Requests, Gentle(r)
  PROVE  IInv'
<1> USE DEF IInv
<1>1. \A s \in Requests : Holds(s)' =>
        Holds(s) /\ req'[s].temp = req[s].temp /\ req'[s].file = req[s].file
  BY DEF Gentle, Holds
<1>2. \A s \in Requests : req[s] \in States /\ req'[s] \in States
  BY DEF TypeOK, States
<1>3. \A s \in Requests : Holds(s) => req[s].temp \in Temps /\ req[s].file \in Files
  BY <1>2, Fields DEF Holds
<1>4. Names \subseteq Paths /\ Temps \subseteq Paths /\ UploadTemps \subseteq Temps
      /\ HiddenTemps \subseteq Temps /\ Names \cap Temps = {}
  BY PathsAssumption DEF Paths, Temps
<1>5. \A p \in Paths : entry[p] \in Files \cup {Absent} /\ entry'[p] \in Files \cup {Absent}
  BY DEF TypeOK
<1>6. Absent \notin Files
  BY NamesAssumption
<1>7. Owned'
  <2> SUFFICES ASSUME NEW s \in Requests, Holds(s)'
               PROVE  /\ entry'[req'[s].temp] \in {req'[s].file, Absent}
                      /\ req'[s].temp \in HiddenTemps => entry'[req'[s].temp] = req'[s].file
                      /\ \A p \in Paths : entry'[p] = req'[s].file => p = req'[s].temp
                      /\ \A q \in Requests : Alone(s, q)'
    BY DEF Owned
  <2>1. Holds(s) /\ req'[s].temp = req[s].temp /\ req'[s].file = req[s].file
    BY <1>1
  <2>2. /\ entry[req[s].temp] \in {req[s].file, Absent}
        /\ req[s].temp \in HiddenTemps => entry[req[s].temp] = req[s].file
        /\ \A p \in Paths : entry[p] = req[s].file => p = req[s].temp
        /\ \A q \in Requests : Alone(s, q)
    BY <2>1 DEF Owned
  <2>3. \/ entry'[req[s].temp] = entry[req[s].temp]
        \/ entry'[req[s].temp] = Absent /\ req[s].temp \notin HiddenTemps
    BY DEF Gentle
  <2>4. ASSUME NEW p \in Paths, entry'[p] = req[s].file
        PROVE  p = req[s].temp
    <3>1. entry'[p] \in {entry[p], Absent} \/ entry'[p] # req[s].file
      BY DEF Gentle
    <3>2. req[s].file # Absent
      BY <2>1, <1>3, <1>6
    <3> QED
      BY <3>1, <3>2, <2>2, <2>4
  <2>5. \A q \in Requests : Alone(s, q)'
    BY <2>1, <2>2, <1>1 DEF Alone
  <2> QED
    BY <2>1, <2>2, <2>3, <2>4, <2>5
<1>8. Stamped'
  <2>1. \A p \in UploadTemps : entry'[p] # Absent => entry[p] # Absent
    BY <1>4 DEF Gentle
  <2> QED
    BY <1>1, <2>1 DEF Stamped, Gentle
<1>9. \A s \in Requests : Holds(s)' => data'[req[s].file] = data[req[s].file]
  BY <1>1, <1>3, NotFree, NotFreeNext DEF Gentle
<1>10. Written'
  <2> SUFFICES ASSUME NEW s \in Requests
               PROVE  /\ req'[s].pc = "write" => data'[req'[s].file] = [i \in 1..req'[s].at |-> req'[s].body]
                      /\ req'[s].pc = "rename" => data'[req'[s].file] = Whole(req'[s].body)
    BY DEF Written, Whole
  <2>1. CASE s # r
    <3>1. req'[s] = req[s]
      BY <2>1 DEF Gentle
    <3> QED
      BY <3>1, <1>9, <1>1 DEF Written, Holds
  <2>2. CASE s = r
    <3>1. req'[s].pc # "write"
      BY <2>2 DEF Gentle
    <3>2. ASSUME req'[s].pc = "rename"
          PROVE  data'[req'[s].file] = Whole(req'[s].body)
      <4>1. Holds(s)'
        BY <3>2 DEF Holds
      <4>2. req[s].pc = "write" /\ req[s].at = Chunks /\ req'[s].body = req[s].body
        BY <3>2, <2>2 DEF Gentle
      <4>3. data'[req'[s].file] = data[req[s].file]
        BY <4>1, <1>1, <1>9
      <4>4. data[req[s].file] = [i \in 1..req[s].at |-> req[s].body]
        BY <4>2 DEF Written
      <4> QED
        BY <4>2, <4>3, <4>4 DEF Whole
    <3> QED
      BY <3>1, <3>2
  <2> QED
    BY <2>1, <2>2
<1>11. \A n \in Names : entry[n] # Absent =>
         IsWhole(data[entry[n]]) /\ entry[n] \in Files /\ ~Free(entry[n])
         /\ \A s \in Requests : Holds(s) => entry[n] # req[s].file
  BY <1>3, <1>4, <1>5, NotFree DEF PublishedWhole, Owned
<1>12. PublishedWhole'
  <2> SUFFICES ASSUME NEW n \in Names, entry'[n] # Absent
               PROVE  IsWhole(data'[entry'[n]])
    BY DEF PublishedWhole, IsWhole, Whole
  <2>1. CASE entry'[n] = entry[n]
    <3>1. data'[entry[n]] = data[entry[n]]
      BY <2>1, <1>11, <1>4, NotFreeNext DEF Gentle
    <3> QED
      BY <2>1, <3>1, <1>11
  <2>2. CASE entry'[n] # entry[n]
    BY <2>2, <1>4 DEF Gentle
  <2> QED
    BY <2>1, <2>2
<1>13. ServedWhole'
  <2> SUFFICES ASSUME NEW s \in Requests, req'[s].pc = "serve", req'[s].path \in Names
               PROVE  /\ IsWhole(data'[req'[s].file])
                      /\ \A q \in Requests : Holds(q)' => req'[q].file # req'[s].file
    BY DEF ServedWhole, IsWhole, Whole
  <2>1. req'[s].file \in Files
    BY <1>2, Fields
  <2>2. IsWhole(data[req'[s].file]) /\ ~Free(req'[s].file)
        /\ \A q \in Requests : Holds(q) => req[q].file # req'[s].file
    <3>1. CASE s # r
      BY <3>1, NotFree DEF Gentle, ServedWhole
    <3>2. CASE s = r
      <4>1. entry[req'[s].path] = req'[s].file
        BY <3>2 DEF Gentle
      <4>2. entry[req'[s].path] # Absent
        BY <4>1, <2>1, <1>6
      <4> QED
        BY <4>1, <4>2, <1>11
    <3> QED
      BY <3>1, <3>2
  <2>3. data'[req'[s].file] = data[req'[s].file]
    BY <2>1, <2>2, NotFreeNext DEF Gentle
  <2> QED
    BY <2>2, <2>3, <1>1
<1>14. DueThere' /\ WalkComplete'
  <2>1. scan'.due \subseteq Names
    BY DEF TypeOK
  <2> QED
    BY <2>1 DEF DueThere, WalkComplete, Gentle
<1> QED
  BY <1>7, <1>8, <1>10, <1>12, <1>13, <1>14

\* What a step that sends r to state x does to the handlers.
LEMMA GoTo ==
  ASSUME TypeOK, NEW r \in Requests, NEW x \in States, Go(r, x)
  PROVE  /\ req' \in [Requests -> States]
         /\ req'[r] = x
         /\ \A s \in Requests \ {r} : req'[s] = req[s]
  BY DEF TypeOK, States, Go

\* An answer that is due is a state of the handler.
LEMMA DoneState ==
  ASSUME NEW p \in Valid, NEW a \in Bodies \cup {Absent, Hole, "ok", "error"}
  PROVE  [pc |-> "done", path |-> p, answer |-> a] \in States
  BY DEF States, Answered

\* Every request that is not idle has a valid name.
LEMMA PathValid ==
  ASSUME TypeOK, NEW r \in Requests
  PROVE  /\ req[r] \in States
         /\ req[r].pc # "idle" => req[r].path \in Valid
<1>1. req[r] \in States
  BY DEF TypeOK, States
<1> QED
  BY <1>1, Fields DEF Valid

\* Arrival, an early error, the end of the writing and errors on the way change
\* nothing but the state of their own handler.
LEMMA HandlerOnly ==
  ASSUME TypeOK, NEW r \in Requests,
         Arrive(r) \/ RefuseRequest(r) \/ CloseWritten(r) \/ FailWrite(r) \/ FailRename(r)
         \/ OpenMedia(r)
  PROVE  TypeOK' /\ Gentle(r)
<1> USE DEF At
<1>1. TypeOK /\ req[r] \in States /\ (req[r].pc # "idle" => req[r].path \in Valid)
  BY PathValid
<1>2. UNCHANGED <<entry, data, clock, scan, leaked>>
  BY DEF Arrive, RefuseRequest, CloseWritten, FailWrite, FailRename, OpenMedia
<1>3. SUFFICES ASSUME NEW x \in States, Go(r, x), ~(x.pc = "write"),
                      x.pc \in {"rename", "remove"} =>
                        Holds(r) /\ x.temp = req[r].temp /\ x.file = req[r].file,
                      x.pc = "rename" =>
                        req[r].pc = "write" /\ req[r].at = Chunks /\ x.body = req[r].body,
                      x.pc = "serve" => entry[x.path] = x.file
               PROVE  TypeOK' /\ Gentle(r)
  <2>1. CASE Arrive(r)
    <3>1. CASE \E op \in {"put", "move"}, n \in Names, b \in Bodies :
                 Go(r, [pc |-> "start", op |-> op, path |-> n, body |-> b])
      <4>1. PICK op \in {"put", "move"}, n \in Names, b \in Bodies :
              Go(r, [pc |-> "start", op |-> op, path |-> n, body |-> b])
        BY <3>1
      <4>2. [pc |-> "start", op |-> op, path |-> n, body |-> b] \in States
        BY DEF States, Starting
      <4> QED
        BY <4>1, <4>2, <1>3
    <3>2. CASE \E op \in {"get", "delete"}, p \in Names \cup Present(UploadTemps) :
                 Go(r, [pc |-> "start", op |-> op, path |-> p])
      <4>1. PICK op \in {"get", "delete"}, p \in Names \cup Present(UploadTemps) :
              Go(r, [pc |-> "start", op |-> op, path |-> p])
        BY <3>2
      <4>2. [pc |-> "start", op |-> op, path |-> p] \in States
        BY DEF States, Starting, Valid, Present
      <4> QED
        BY <4>1, <4>2, <1>3
    <3> QED
      BY <2>1, <3>1, <3>2 DEF Arrive
  <2>2. CASE RefuseRequest(r)
    BY <2>2, <1>1, <1>3, DoneState DEF RefuseRequest, Done
  <2>3. CASE CloseWritten(r) \/ FailWrite(r) \/ FailRename(r)
    <3> DEFINE X(pc) == [pc |-> pc, op |-> req[r].op, path |-> req[r].path, body |-> req[r].body,
                         temp |-> req[r].temp, file |-> req[r].file]
    <3>1. req[r].pc \in {"write", "rename"}
      BY <2>3 DEF CloseWritten, FailWrite, FailRename
    <3>2. \A pc \in {"rename", "remove"} : X(pc) \in States
      BY <1>1, <3>1, Fields DEF States, Closing
    <3>3. Holds(r)
      BY <3>1 DEF Holds
    <3>4. CASE CloseWritten(r)
      <4>1. Go(r, X("rename")) /\ req[r].pc = "write" /\ req[r].at = Chunks
        BY <3>4 DEF CloseWritten, Resume
      <4> QED
        BY <4>1, <3>2, <3>3, <1>3
    <3>5. CASE FailWrite(r) \/ FailRename(r)
      <4>1. Go(r, X("remove"))
        BY <3>5 DEF FailWrite, FailRename, Resume, AfterFailedWrite
      <4> QED
        BY <4>1, <3>2, <3>3, <1>3
    <3> QED
      BY <2>3, <3>4, <3>5
  <2>4. CASE OpenMedia(r)
    <3>1. req[r].path \in Valid
      BY <2>4, <1>1 DEF OpenMedia
    <3>2. CASE entry[req[r].path] = Absent
      BY <2>4, <3>1, <3>2, <1>3, DoneState DEF OpenMedia, Done
    <3>3. CASE entry[req[r].path] # Absent
      <4> DEFINE x == [pc |-> "serve", op |-> "get", path |-> req[r].path,
                       file |-> entry[req[r].path]]
      <4>1. entry[req[r].path] \in Files
        BY <3>1, <3>3, <1>1 DEF TypeOK, Valid, Paths, Temps
      <4>2. x \in States /\ Go(r, x)
        BY <2>4, <3>1, <3>3, <4>1 DEF OpenMedia, States, Serving
      <4> QED
        BY <4>2, <1>3
    <3> QED
      BY <3>2, <3>3
  <2> QED
    BY <2>1, <2>2, <2>3, <2>4
<1>4. /\ req' \in [Requests -> States] /\ req'[r] = x
      /\ \A s \in Requests \ {r} : req'[s] = req[s]
  BY <1>1, <1>3, GoTo
<1>5. TypeOK'
  BY <1>1, <1>2, <1>4 DEF TypeOK, States
<1>6. Gentle(r)
  BY <1>1, <1>2, <1>3, <1>4 DEF Gentle, Holds
<1> QED
  BY <1>5, <1>6

\* Temporary paths and names.
LEMMA PathsApart ==
  /\ Names \subseteq Paths /\ Temps \subseteq Paths /\ Valid \subseteq Paths
  /\ Names \subseteq Valid /\ UploadTemps \subseteq Temps /\ HiddenTemps \subseteq Temps
  /\ Names \cap Temps = {} /\ UploadTemps \cap HiddenTemps = {} /\ Valid \cap HiddenTemps = {}
<1>1. UploadTemps \cap HiddenTemps = {}
  <2> SUFFICES ASSUME NEW p \in UploadTemps, p \in HiddenTemps
               PROVE  FALSE
    OBVIOUS
  <2>1. DOMAIN p = {"name", "tick"}
    BY DEF UploadTemps
  <2>2. DOMAIN p = {"hidden"}
    BY DEF HiddenTemps
  <2> QED
    BY <2>1, <2>2
<1> QED
  BY <1>1, PathsAssumption DEF Paths, Valid, Temps

\* A served file is answered as it is; the answer is given, or is not; either way
\* the file may be gone after that.
LEMMA ServeAndReturn ==
  ASSUME TypeOK, NEW r \in Requests, ServeMedia(r) \/ Return(r)
  PROVE  TypeOK' /\ Gentle(r)
<1>1. TypeOK /\ req[r] \in States /\ (req[r].pc # "idle" => req[r].path \in Valid)
  BY PathValid
<1>2. UNCHANGED <<entry, clock, scan, leaked>> /\ Bytes(data)
  BY DEF ServeMedia, Return
<1>3. PICK x \in States : Go(r, x) /\ x.pc \in {"idle", "done"}
  <2>1. CASE ServeMedia(r)
    <3>1. BodyOf(data[req[r].file]) \in Bodies \cup {Absent, Hole, "ok", "error"}
      BY BodyOfType
    <3>2. req[r].path \in Valid
      BY <2>1, <1>1 DEF ServeMedia, At
    <3> QED
      BY <2>1, <3>1, <3>2, DoneState DEF ServeMedia, Done
  <2>2. CASE Return(r)
    BY <2>2 DEF Return, States, Idle
  <2> QED
    BY <2>1, <2>2
<1>4. /\ req' \in [Requests -> States] /\ req'[r] = x
      /\ \A s \in Requests \ {r} : req'[s] = req[s]
  BY <1>1, <1>3, GoTo
<1>5. data \in [Files -> Pieces]
  BY <1>1 DEF TypeOK
<1>6. data' \in [Files -> Pieces] /\ \A f \in Files : data'[f] = data[f] \/ Free(f)'
  BY <1>2, <1>5, BytesType
<1>7. TypeOK'
  BY <1>1, <1>2, <1>4, <1>6 DEF TypeOK, States
<1>8. Gentle(r)
  BY <1>2, <1>3, <1>4, <1>6 DEF Gentle, Holds
<1> QED
  BY <1>7, <1>8

\* A request that removes its temporary file holds no other, and a client that
\* deletes a file cannot name a hidden one.
LEMMA Removal ==
  ASSUME IInv, NEW r \in Requests, RemoveTemp(r) \/ DeleteMedia(r)
  PROVE  TypeOK' /\ Gentle(r)
<1>1. TypeOK /\ req[r] \in States /\ (req[r].pc # "idle" => req[r].path \in Valid)
  BY PathValid DEF IInv
<1>2. UNCHANGED <<clock, leaked>> /\ Bytes(data)
  BY DEF RemoveTemp, DeleteMedia
<1>3. PICK x \in States : Go(r, x) /\ x.pc = "done"
  <2>1. CASE RemoveTemp(r)
    BY <2>1, <1>1, DoneState DEF RemoveTemp, Done, At
  <2>2. CASE DeleteMedia(r)
    <3>1. (IF entry[req[r].path] = Absent THEN Absent ELSE "ok")
            \in Bodies \cup {Absent, Hole, "ok", "error"}
      OBVIOUS
    <3> QED
      BY <2>2, <3>1, <1>1, DoneState DEF DeleteMedia, Done, At
  <2> QED
    BY <2>1, <2>2
<1>4. /\ req' \in [Requests -> States] /\ req'[r] = x
      /\ \A s \in Requests \ {r} : req'[s] = req[s]
  BY <1>1, <1>3, GoTo
<1>5. data \in [Files -> Pieces] /\ entry \in [Paths -> Files \cup {Absent}]
  BY <1>1 DEF TypeOK
<1>6. data' \in [Files -> Pieces] /\ \A f \in Files : data'[f] = data[f] \/ Free(f)'
  BY <1>2, <1>5, BytesType
<1>7. \A s \in Requests : Holds(s)' => Holds(s) /\ s # r
  BY <1>3, <1>4 DEF Holds
<1>8. CASE RemoveTemp(r)
  <2>1. Holds(r) /\ req[r].temp \in Temps /\ entry' = [entry EXCEPT ![req[r].temp] = Absent]
        /\ scan' = scan
    BY <1>8, <1>1, Fields DEF RemoveTemp, At, Holds, WithoutTemp
  <2>2. \A s \in Requests : Holds(s)' => req[s].temp # req[r].temp /\ req[s].temp \in Paths
    BY <2>1, <1>1, <1>7, Fields, PathsApart DEF IInv, Owned, Alone, Holds, TypeOK, States
  <2>3. \A s \in Requests : Holds(s)' => entry'[req[s].temp] = entry[req[s].temp]
    BY <2>1, <2>2, <1>5
  <2>4. \A p \in Paths : entry'[p] \in {entry[p], Absent}
    BY <2>1, <1>5
  <2>5. \A n \in Names : entry'[n] = entry[n]
    BY <2>1, <1>5, PathsApart
  <2>6. entry' \in [Paths -> Files \cup {Absent}]
    BY <2>1, <1>5
  <2>7. TypeOK'
    BY <1>1, <1>2, <1>4, <1>6, <2>6, <2>1 DEF TypeOK, States
  <2>8. Gentle(r)
    BY <1>2, <1>3, <1>4, <1>6, <2>1, <2>3, <2>4, <2>5 DEF Gentle, Holds
  <2> QED
    BY <2>7, <2>8
<1>9. CASE DeleteMedia(r)
  <2>1. req[r].path \in Valid /\ entry' = [entry EXCEPT ![req[r].path] = Absent]
        /\ scan' = [scan EXCEPT !.due = @ \ {req[r].path}]
    BY <1>9, <1>1 DEF DeleteMedia, At
  <2>2. scan \in [on : BOOLEAN, left : SUBSET Names, due : SUBSET Names, whole : SUBSET Names]
    BY <1>1 DEF TypeOK
  <2>3. /\ scan' \in [on : BOOLEAN, left : SUBSET Names, due : SUBSET Names, whole : SUBSET Names]
        /\ scan'.left = scan.left /\ scan'.whole = scan.whole
        /\ scan'.due = scan.due \ {req[r].path}
    BY <2>1, <2>2
  <2>4. \A s \in Requests : Holds(s)' => req[s].temp \in Paths
    BY <1>1, <1>7, Fields, PathsApart DEF Holds, TypeOK, States
  <2>5. \A s \in Requests : Holds(s)' =>
          \/ entry'[req[s].temp] = entry[req[s].temp]
          \/ entry'[req[s].temp] = Absent /\ req[s].temp \notin HiddenTemps
    BY <2>1, <2>4, <1>5, PathsApart
  <2>6. \A p \in Paths : entry'[p] \in {entry[p], Absent}
    BY <2>1, <1>5
  <2>7. \A n \in Names : entry'[n] = Absent => entry[n] = Absent \/ n \notin scan'.due
    BY <2>1, <2>3, <1>5, PathsApart
  <2>8. entry' \in [Paths -> Files \cup {Absent}]
    BY <2>1, <1>5
  <2>9. TypeOK'
    BY <1>1, <1>2, <1>4, <1>6, <2>8, <2>3 DEF TypeOK, States
  <2>10. Gentle(r)
    BY <1>2, <1>3, <1>4, <1>6, <2>3, <2>5, <2>6, <2>7 DEF Gentle, Holds
  <2> QED
    BY <2>9, <2>10
<1> QED
  BY <1>8, <1>9

\* A request publishes what it has written, whole, and the file is nobody else's
\* to write to; a downloaded file is moved to its name in one piece.
LEMMA Publication ==
  ASSUME IInv, NEW r \in Requests, RenameTemp(r) \/ MoveFile(r)
  PROVE  TypeOK' /\ Gentle(r)
<1>1. TypeOK /\ req[r] \in States /\ (req[r].pc # "idle" => req[r].path \in Valid)
  BY PathValid DEF IInv
<1>2. UNCHANGED <<clock, scan, leaked>>
  BY DEF RenameTemp, MoveFile
<1>3. req[r].path \in Names /\ req[r].path \in Paths
  BY <1>1, Fields, PathsApart DEF RenameTemp, MoveFile, At
<1> DEFINE x == [pc |-> "done", path |-> req[r].path, answer |-> "ok"]
<1>4. Go(r, x) /\ x \in States
  BY <1>3, DoneState, PathsApart DEF RenameTemp, MoveFile, Done
<1>5. /\ req' \in [Requests -> States] /\ req'[r].pc = "done"
      /\ \A s \in Requests \ {r} : req'[s] = req[s]
  BY <1>1, <1>4, GoTo
<1>6. data \in [Files -> Pieces] /\ entry \in [Paths -> Files \cup {Absent}]
  BY <1>1 DEF TypeOK
<1>7. \A s \in Requests : Holds(s)' => Holds(s) /\ s # r /\ req[s].file \in Files
                                       /\ req[s].temp \in Temps /\ req[s].temp \in Paths
  BY <1>5, <1>1, Fields, PathsApart DEF Holds, TypeOK, States
<1>8. CASE RenameTemp(r)
  <2> DEFINE temp == req[r].temp
             path == req[r].path
  <2>1. /\ Holds(r) /\ temp \in Temps /\ req[r].file \in Files /\ req[r].body \in Bodies
        /\ entry[temp] # Absent /\ Bytes(data) /\ temp \in Paths /\ temp # path
        /\ req[r].pc = "rename"
    BY <1>8, <1>1, <1>3, Fields, PathsApart DEF RenameTemp, At, Holds
  <2>2. /\ entry[temp] = req[r].file
        /\ data[req[r].file] = Whole(req[r].body)
        /\ \A s \in Requests : Alone(r, s)
    BY <2>1 DEF IInv, Owned, Written
  <2>3. entry' = [p \in Paths |-> IF p = temp THEN Absent
                                  ELSE IF p = path THEN entry[temp] ELSE entry[p]]
    BY <1>8 DEF RenameTemp
  <2> HIDE DEF temp, path
  <2>4. /\ entry'[temp] = Absent /\ entry'[path] = req[r].file
        /\ \A p \in Paths \ {temp, path} : entry'[p] = entry[p]
    BY <2>1, <2>2, <2>3, <1>3 DEF path
  <2>5. entry' \in [Paths -> Files \cup {Absent}]
    BY <2>3, <1>6, <2>1
  <2>6. data' \in [Files -> Pieces] /\ \A f \in Files : data'[f] = data[f] \/ Free(f)'
    BY <2>1, <1>6, BytesType
  <2>7. data'[req[r].file] = Whole(req[r].body)
    BY <2>1, <2>2, <2>4, <2>6, <1>3, NotFreeNext DEF path
  <2>8. path \in Names /\ IsWhole(data'[entry'[path]])
        /\ \A s \in Requests : Holds(s)' => entry'[path] # req[s].file
    BY <2>1, <2>2, <2>4, <2>7, <1>3, <1>7, WholeBody DEF path, Alone
  <2>9. \A s \in Requests : Holds(s)' => entry'[req[s].temp] = entry[req[s].temp]
    BY <2>2, <2>4, <1>3, <1>7, PathsApart DEF path, temp, Alone
  <2>10. \A n \in Names : entry'[n] = Absent => entry[n] = Absent
    BY <2>1, <2>4, PathsApart, NamesAssumption
  <2>11. TypeOK'
    BY <1>1, <1>2, <1>5, <2>5, <2>6 DEF TypeOK, States
  <2>12. \A p \in Paths : entry'[p] \in {entry[p], Absent} \/ p = path
    BY <2>4
  <2>13. Gentle(r)
    BY <1>2, <1>5, <2>6, <2>8, <2>9, <2>10, <2>12 DEF Gentle, Holds
  <2> QED
    BY <2>11, <2>13
<1>9. CASE MoveFile(r)
  <2> DEFINE path == req[r].path
  <2>1. req[r].body \in Bodies
    BY <1>9, <1>1, Fields DEF MoveFile, At
  <2>2. PICK f \in Files : /\ Free(f)
                           /\ entry' = [entry EXCEPT ![path] = f]
                           /\ Bytes([data EXCEPT ![f] = Whole(req[r].body)])
    BY <1>9 DEF MoveFile
  <2> DEFINE d == [data EXCEPT ![f] = Whole(req[r].body)]
  <2>3. d \in [Files -> Pieces] /\ d[f] = Whole(req[r].body) /\ \A g \in Files \ {f} : d[g] = data[g]
    BY <2>1, <1>6, WholeBody
  <2>4. data' \in [Files -> Pieces] /\ \A g \in Files : data'[g] = d[g] \/ Free(g)'
    BY <2>2, <2>3, BytesType
  <2> HIDE DEF d, path
  <2>5. entry'[path] = f /\ (\A p \in Paths \ {path} : entry'[p] = entry[p]) /\ path \in Paths
        /\ path \in Names /\ entry' \in [Paths -> Files \cup {Absent}]
    BY <2>2, <1>3, <1>6 DEF path
  <2>6. data'[f] = Whole(req[r].body)
    BY <2>3, <2>4, <2>5, NotFreeNext
  <2>7. IsWhole(data'[entry'[path]]) /\ \A s \in Requests : Holds(s)' => entry'[path] # req[s].file
    BY <2>1, <2>2, <2>5, <2>6, <1>7, WholeBody, NotFree
  <2>8. \A s \in Requests : Holds(s)' => entry'[req[s].temp] = entry[req[s].temp]
    BY <2>5, <1>7, PathsApart
  <2>9. \A n \in Names : entry'[n] = Absent => entry[n] = Absent
    BY <2>5, PathsApart, NamesAssumption
  <2>10. \A g \in Files : data'[g] = data[g] \/ Free(g) \/ Free(g)'
    BY <2>2, <2>3, <2>4
  <2>11. TypeOK'
    BY <1>1, <1>2, <1>5, <2>5, <2>4 DEF TypeOK, States
  <2>12. \A p \in Paths : entry'[p] \in {entry[p], Absent} \/ p = path
    BY <2>5
  <2>13. Gentle(r)
    BY <1>2, <1>5, <2>5, <2>7, <2>8, <2>9, <2>10, <2>12 DEF Gentle, Holds
  <2> QED
    BY <2>11, <2>13
<1> QED
  BY <1>8, <1>9

-----------------------------------------------------------------------------
(* The steps that write, and the others                                     *)

\* A request that creates a temporary file at a path that nobody has is alone with it.
LEMMA Creation ==
  ASSUME IInv, NEW r \in Requests, NEW p \in Temps,
         At(r, "start"), req[r].op \in {"put", "move"},
         OpenForWriting(r, p), entry[p] = Absent,
         \A s \in Requests : Holds(s) => req[s].temp # p,
         clock' \in Ticks, clock <= clock', p \in UploadTemps => p.tick < clock',
         UNCHANGED <<scan, leaked>>
  PROVE  IInv'
<1> USE DEF IInv, At
<1>1. TypeOK /\ req[r] \in States
  BY PathValid
<1> DEFINE x(f) == [pc |-> "write", op |-> req[r].op, path |-> req[r].path,
                    body |-> req[r].body, temp |-> p, file |-> f, at |-> 0]
<1>2. PICK f \in Files : /\ Free(f) /\ entry' = [entry EXCEPT ![p] = f]
                         /\ Go(r, x(f)) /\ Bytes([data EXCEPT ![f] = << >>])
  BY DEF OpenForWriting
<1>3. x(f) \in States
  BY <1>1, Fields, ChunksAssumption DEF States, Writing
<1>4. /\ req' \in [Requests -> States] /\ req'[r] = x(f)
      /\ \A s \in Requests \ {r} : req'[s] = req[s]
  BY <1>1, <1>2, <1>3, GoTo
<1>5. data \in [Files -> Pieces] /\ entry \in [Paths -> Files \cup {Absent}]
  BY <1>1 DEF TypeOK
<1> DEFINE d == [data EXCEPT ![f] = << >>]
<1>6. << >> \in Pieces
  <2>1. << >> \in [1..0 -> Bodies \cup {Hole}] /\ 0 \in 0..Chunks
    BY ChunksAssumption
  <2> QED
    BY <2>1 DEF Pieces
<1>7. d \in [Files -> Pieces] /\ d[f] = << >> /\ \A g \in Files \ {f} : d[g] = data[g]
  BY <1>5, <1>6
<1>8. data' \in [Files -> Pieces] /\ \A g \in Files : data'[g] = d[g] \/ Free(g)'
  BY <1>2, <1>7, BytesType
<1> HIDE DEF d
<1>9. entry'[p] = f /\ (\A q \in Paths \ {p} : entry'[q] = entry[q]) /\ p \in Paths
      /\ entry' \in [Paths -> Files \cup {Absent}]
  BY <1>2, <1>5, PathsApart
<1>10. data'[f] = << >>
  BY <1>7, <1>8, <1>9, NotFreeNext
<1>11. \A s \in Requests : Holds(s) => req[s].temp \in Temps /\ req[s].file \in Files
  BY <1>1, Fields DEF Holds, TypeOK, States
<1>12. \A s \in Requests : Holds(s)' <=> s = r \/ Holds(s)
  BY <1>4 DEF Holds
<1>13. \A s \in Requests : Holds(s) => s # r /\ req[s].file # f /\ req'[s] = req[s]
  BY <1>2, <1>4, NotFree DEF Holds
<1>14. /\ req'[r].pc = "write" /\ req'[r].temp = p /\ req'[r].file = f
       /\ req'[r].at = 0 /\ req'[r].body = req[r].body
  BY <1>4
<1>15. TypeOK'
  BY <1>1, <1>4, <1>8, <1>9 DEF TypeOK, States
<1>16. Owned'
  <2> SUFFICES ASSUME NEW s \in Requests, Holds(s)'
               PROVE  /\ entry'[req'[s].temp] \in {req'[s].file, Absent}
                      /\ req'[s].temp \in HiddenTemps => entry'[req'[s].temp] = req'[s].file
                      /\ \A q \in Paths : entry'[q] = req'[s].file => q = req'[s].temp
                      /\ \A q \in Requests : Alone(s, q)'
    BY DEF Owned
  <2>1. CASE s = r
    <3>1. \A q \in Paths : entry'[q] = f => q = p
      BY <1>2, <1>9, NotFree
    <3>2. \A q \in Requests : Alone(r, q)'
      BY <1>12, <1>13, <1>14 DEF Alone
    <3> QED
      BY <2>1, <3>1, <3>2, <1>9, <1>14
  <2>2. CASE s # r
    <3>1. Holds(s) /\ req'[s] = req[s] /\ req[s].temp # p /\ req[s].temp \in Paths
          /\ req[s].file # f
      BY <2>2, <1>11, <1>12, <1>13, PathsApart
    <3>2. \A q \in Requests : Alone(s, q)'
      BY <3>1, <1>12, <1>13, <1>14 DEF Alone, Owned
    <3> QED
      BY <3>1, <3>2, <1>9 DEF Owned
  <2> QED
    BY <2>1, <2>2
<1>17. Stamped'
  <2>1. clock \in Nat /\ clock' \in Nat
    BY <1>1, BoundsAssumption DEF TypeOK, Ticks
  <2>2. \A q \in UploadTemps : q.tick \in Nat /\ q \in Paths
    BY BoundsAssumption, PathsApart DEF UploadTemps, Ticks
  <2>3. \A q \in UploadTemps : entry'[q] # Absent => q.tick < clock'
    BY <1>9, <2>1, <2>2 DEF Stamped
  <2>4. \A s \in Requests : Holds(s)' /\ req'[s].temp \in UploadTemps => req'[s].temp.tick < clock'
    BY <1>12, <1>13, <1>14, <2>1, <2>2 DEF Stamped
  <2> QED
    BY <2>3, <2>4 DEF Stamped
<1>18. \A g \in Files : ~Free(g) /\ ~Free(g)' => data'[g] = data[g]
  BY <1>2, <1>7, <1>8
<1>19. Written'
  <2> SUFFICES ASSUME NEW s \in Requests
               PROVE  /\ req'[s].pc = "write" => data'[req'[s].file] = [i \in 1..req'[s].at |-> req'[s].body]
                      /\ req'[s].pc = "rename" => data'[req'[s].file] = Whole(req'[s].body)
    BY DEF Written, Whole
  <2>1. CASE s = r
    <3>1. << >> = [i \in 1..0 |-> req[r].body]
      OBVIOUS
    <3> QED
      BY <2>1, <3>1, <1>10, <1>14
  <2>2. CASE s # r
    <3>1. req'[s] = req[s]
      BY <2>2, <1>4
    <3>2. Holds(s) => data'[req[s].file] = data[req[s].file]
      BY <3>1, <1>11, <1>12, <1>18, NotFree, NotFreeNext
    <3> QED
      BY <3>1, <3>2 DEF Written, Holds
  <2> QED
    BY <2>1, <2>2
<1>20. ServedWhole'
  <2> SUFFICES ASSUME NEW s \in Requests, req'[s].pc = "serve", req'[s].path \in Names
               PROVE  /\ IsWhole(data'[req'[s].file])
                      /\ \A q \in Requests : Holds(q)' => req'[q].file # req'[s].file
    BY DEF ServedWhole, IsWhole, Whole
  <2>1. s # r /\ req'[s] = req[s] /\ req[s].file \in Files
    BY <1>4, <1>14, <1>1, Fields DEF TypeOK, States
  <2>2. ~Free(req[s].file) /\ ~Free(req[s].file)' /\ req[s].file # f
    BY <2>1, <1>2, NotFree, NotFreeNext
  <2> QED
    BY <2>1, <2>2, <1>12, <1>13, <1>14, <1>18 DEF ServedWhole
<1>21. \A n \in Names : entry'[n] = entry[n]
  BY <1>9, PathsApart
<1>22. PublishedWhole'
  <2> SUFFICES ASSUME NEW n \in Names, entry'[n] # Absent
               PROVE  IsWhole(data'[entry'[n]])
    BY DEF PublishedWhole, IsWhole, Whole
  <2>1. entry'[n] = entry[n] /\ entry[n] \in Files /\ n \in Paths
    BY <1>21, <1>5, PathsApart
  <2>2. ~Free(entry[n]) /\ ~Free(entry[n])'
    BY <2>1, NotFree, NotFreeNext
  <2> QED
    BY <2>1, <2>2, <1>18 DEF PublishedWhole
<1>23. DueThere' /\ WalkComplete'
  BY <1>21, <1>1 DEF DueThere, WalkComplete, TypeOK
<1> QED
  BY <1>15, <1>16, <1>17, <1>19, <1>20, <1>22, <1>23

\* With a clock as fine as the uploads, the path of a new upload is its own.
LEMMA UploadCreation ==
  ASSUME FineClock = TRUE, IInv, NEW r \in Requests, CreateUpload(r)
  PROVE  IInv'
<1> DEFINE p == UploadTemp(req[r].path, clock)
<1>1. TypeOK /\ req[r] \in States /\ At(r, "start") /\ req[r].op = "put" /\ clock < MaxTick
      /\ OpenForWriting(r, p) /\ clock' = clock + 1 /\ UNCHANGED <<scan, leaked>>
  BY PathValid DEF CreateUpload, IInv
<1>2. req[r].path \in Names
  BY <1>1, Fields DEF At
<1>3. clock \in Nat /\ MaxTick \in Nat /\ clock \in Ticks \ {MaxTick} /\ clock' \in Ticks
  BY <1>1, BoundsAssumption DEF TypeOK, Ticks
<1>4. p \in UploadTemps /\ p.tick = clock
  BY <1>2, <1>3 DEF UploadTemps, UploadTemp
<1> HIDE DEF p
<1>5. entry[p] = Absent /\ \A s \in Requests : Holds(s) => req[s].temp # p
  BY <1>3, <1>4 DEF IInv, Stamped
<1>6. p \in Temps
  BY <1>4, PathsApart
<1>7. clock <= clock' /\ p.tick < clock'
  BY <1>1, <1>3, <1>4
<1> QED
  BY <1>1, <1>3, <1>5, <1>6, <1>7, Creation

\* os.CreateTemp takes a name that is not there, and so nobody's.
LEMMA HiddenCreation ==
  ASSUME IInv, NEW r \in Requests, CreateHidden(r)
  PROVE  IInv'
<1>1. PICK p \in HiddenTemps : entry[p] = Absent /\ OpenForWriting(r, p)
  BY DEF CreateHidden
<1>2. \A s \in Requests : Holds(s) => req[s].file \in Files /\ req[s].file # Absent
  BY Fields, NamesAssumption DEF IInv, Holds, TypeOK, States
<1>3. \A s \in Requests : Holds(s) => req[s].temp # p
  BY <1>1, <1>2 DEF IInv, Owned
<1>4. p \in Temps /\ p \notin UploadTemps
  BY PathsApart
<1>5. clock' = clock /\ clock \in Ticks /\ clock <= clock
  BY BoundsAssumption DEF CreateHidden, IInv, TypeOK, Ticks
<1> QED
  BY <1>1, <1>3, <1>4, <1>5, Creation DEF CreateHidden

\* A piece goes where the last one ended, into a file that has no other name and
\* that nobody serves under one.
LEMMA WritingKeeps ==
  ASSUME IInv, NEW r \in Requests, WritePiece(r)
  PROVE  IInv'
<1> USE DEF IInv, At
<1> DEFINE f == req[r].file
           b == req[r].body
           i == req[r].at
<1>1. TypeOK /\ req[r] \in Writing /\ f \in Files /\ b \in Bodies /\ i \in 0..Chunks
      /\ req[r].pc = "write" /\ i < Chunks /\ Holds(r)
      /\ UNCHANGED <<entry, clock, scan, leaked>>
  BY PathValid, Fields DEF WritePiece, Holds
<1>2. data' = [data EXCEPT ![f] = WriteAt(@, i + 1, b)] /\ req' = [req EXCEPT ![r].at = @ + 1]
  BY DEF WritePiece
<1>3. i \in Nat /\ i + 1 \in 1..Chunks /\ i + 1 \in 0..Chunks
  BY <1>1, ChunksAssumption
<1>4. data[f] = [j \in 1..i |-> b] /\ data[f] \in Pieces
  BY <1>1 DEF Written, TypeOK
<1> DEFINE x == [req[r] EXCEPT !.at = i + 1]
<1>5. x \in Writing /\ x.pc = "write" /\ x.temp = req[r].temp /\ x.file = f /\ x.body = b
      /\ x.at = i + 1
  BY <1>1, <1>3 DEF Writing
<1>6. req' = [req EXCEPT ![r] = x]
  BY <1>2
<1> HIDE DEF x
<1>7. req' \in [Requests -> States] /\ req'[r] = x /\ \A s \in Requests \ {r} : req'[s] = req[s]
  BY <1>1, <1>5, <1>6 DEF TypeOK, States
<1>8. data'[f] = [j \in 1..(i + 1) |-> b] /\ \A g \in Files \ {f} : data'[g] = data[g]
  <2>1. WriteAt(data[f], i + 1, b) = [j \in 1..(i + 1) |-> b]
    <3> HIDE DEF f, b, i
    <3>1. WriteAt([j \in 1..i |-> b], i + 1, b) = [j \in 1..(i + 1) |-> b]
      BY <1>1, WriteNext
    <3> QED
      BY <1>4, <3>1
  <2>2. data' = [data EXCEPT ![f] = [j \in 1..(i + 1) |-> b]]
    BY <1>2, <2>1
  <2> HIDE DEF f, b, i
  <2> QED
    BY <2>2, <1>1 DEF TypeOK
<1>9. data' \in [Files -> Pieces]
  <2>1. WriteAt(data[f], i + 1, b) \in Pieces
    BY <1>1, <1>3, <1>4, WriteAtType
  <2> QED
    BY <1>1, <1>2, <2>1 DEF TypeOK
<1>10. \A s \in Requests : /\ Holds(s)' <=> Holds(s)
                           /\ Holds(s) => req'[s].temp = req[s].temp /\ req'[s].file = req[s].file
  BY <1>1, <1>5, <1>7 DEF Holds
<1>11. TypeOK'
  BY <1>1, <1>7, <1>9 DEF TypeOK, States
<1>12. Owned' /\ Stamped'
  <2>1. Owned'
    BY <1>1, <1>10 DEF Owned, Alone
  <2>2. Stamped'
    BY <1>1, <1>10 DEF Stamped
  <2> QED
    BY <2>1, <2>2
<1>13. \A s \in Requests : Holds(s) /\ s # r => req[s].file \in Files \ {f}
  BY <1>1, Fields DEF Owned, Alone, TypeOK, States, Holds
<1>14. Written'
  <2> SUFFICES ASSUME NEW s \in Requests
               PROVE  /\ req'[s].pc = "write" => data'[req'[s].file] = [j \in 1..req'[s].at |-> req'[s].body]
                      /\ req'[s].pc = "rename" => data'[req'[s].file] = Whole(req'[s].body)
    BY DEF Written, Whole
  <2>1. CASE s = r
    BY <2>1, <1>5, <1>7, <1>8
  <2>2. CASE s # r
    BY <2>2, <1>7, <1>8, <1>13 DEF Written, Holds
  <2> QED
    BY <2>1, <2>2
<1>15. PublishedWhole'
  <2>1. \A n \in Names : entry[n] # Absent => entry[n] \in Files \ {f}
    BY <1>1, PathsApart, Fields DEF Owned, TypeOK, States, Writing
  <2> QED
    BY <2>1, <1>1, <1>8 DEF PublishedWhole, IsWhole, Whole
<1>16. ServedWhole'
  <2> SUFFICES ASSUME NEW s \in Requests, req'[s].pc = "serve", req'[s].path \in Names
               PROVE  /\ IsWhole(data'[req'[s].file])
                      /\ \A q \in Requests : Holds(q)' => req'[q].file # req'[s].file
    BY DEF ServedWhole, IsWhole, Whole
  <2>1. s # r /\ req'[s] = req[s]
    BY <1>5, <1>7
  <2>2. req[s].file \in Files \ {f} /\ IsWhole(data[req[s].file])
        /\ \A q \in Requests : Holds(q) => req[q].file # req[s].file
    BY <2>1, <1>1, Fields DEF ServedWhole, TypeOK, States
  <2> QED
    BY <2>1, <2>2, <1>8, <1>10
<1>17. DueThere' /\ WalkComplete'
  BY <1>1 DEF DueThere, WalkComplete
<1> QED
  BY <1>11, <1>12, <1>14, <1>15, <1>16, <1>17

\* When the process dies nobody holds a file any more; the names keep theirs.
LEMMA CrashKeeps ==
  ASSUME IInv, Crash
  PROVE  IInv'
<1> USE DEF IInv
<1>1. \A s \in Requests : req'[s] = Idle /\ req'[s].pc = "idle"
  BY DEF Crash, Idle
<1>2. UNCHANGED <<entry, clock, scan>> /\ leaked' \subseteq Temps /\ Bytes(data)
  BY DEF Crash, TypeOK
<1>3. data' \in [Files -> Pieces] /\ \A f \in Files : data'[f] = data[f] \/ Free(f)'
  BY <1>2, BytesType DEF TypeOK
<1>4. req' \in [Requests -> States]
  BY DEF Crash, States
<1>5. TypeOK'
  BY <1>2, <1>3, <1>4 DEF TypeOK, States
<1>6. \A s \in Requests : ~Holds(s)'
  BY <1>1 DEF Holds
<1>7. Owned' /\ Stamped' /\ Written' /\ ServedWhole'
  BY <1>1, <1>2, <1>6 DEF Owned, Stamped, Written, ServedWhole
<1>8. PublishedWhole'
  <2> SUFFICES ASSUME NEW n \in Names, entry'[n] # Absent
               PROVE  IsWhole(data'[entry'[n]])
    BY DEF PublishedWhole, IsWhole, Whole
  <2>1. entry'[n] = entry[n] /\ entry[n] \in Files /\ n \in Paths
    BY <1>2, PathsApart DEF TypeOK
  <2>2. data'[entry[n]] = data[entry[n]]
    BY <2>1, <1>3, NotFreeNext
  <2> QED
    BY <2>1, <2>2 DEF PublishedWhole
<1>9. DueThere' /\ WalkComplete'
  BY <1>2 DEF DueThere, WalkComplete
<1> QED
  BY <1>5, <1>7, <1>8, <1>9

-----------------------------------------------------------------------------
(* Walks through the directory                                              *)

\* There are finitely many paths that a client may name.
LEMMA FiniteValid == IsFiniteSet(Valid)
<1>1. IsFiniteSet(Names)
  BY PathsAssumption
<1>2. IsFiniteSet(Ticks \ {MaxTick})
  <2>1. 0 \in Int /\ MaxTick \in Int
    BY BoundsAssumption
  <2>2. IsFiniteSet(Ticks)
    BY <2>1, FS_Interval DEF Ticks
  <2> QED
    BY <2>2, FS_RemoveElement
<1>3. IsFiniteSet(Names \X (Ticks \ {MaxTick}))
  BY <1>1, <1>2, FS_Product
<1> DEFINE f == [z \in Names \X (Ticks \ {MaxTick}) |-> [name |-> z[1], tick |-> z[2]]]
<1>4. f \in Surjection(Names \X (Ticks \ {MaxTick}), UploadTemps)
  <2>1. f \in [Names \X (Ticks \ {MaxTick}) -> UploadTemps]
    BY DEF UploadTemps
  <2>2. ASSUME NEW p \in UploadTemps
        PROVE  \E z \in Names \X (Ticks \ {MaxTick}) : f[z] = p
    <3>1. <<p.name, p.tick>> \in Names \X (Ticks \ {MaxTick})
      BY DEF UploadTemps
    <3>2. f[<<p.name, p.tick>>] = p
      BY <3>1 DEF UploadTemps
    <3> QED
      BY <3>1, <3>2
  <2> QED
    BY <2>1, <2>2 DEF Surjection
<1>5. IsFiniteSet(UploadTemps)
  BY <1>3, <1>4, FS_Surjection
<1> QED
  BY <1>1, <1>5, FS_Union DEF Valid

\* A walk begins with every file that is there, unless there are too many of them.
LEMMA WalkBegins ==
  ASSUME TypeOK, ReadDir \/ Discover
  PROVE  /\ UNCHANGED <<entry, data, clock, req, leaked>>
         /\ scan' \in [on : BOOLEAN, left : SUBSET Names, due : SUBSET Names, whole : SUBSET Names]
         /\ scan'.due \subseteq Present(Names)
         /\ scan'.due \subseteq scan'.left
<1>1. Present(Names) \subseteq Present(Paths) /\ Present(Names) \subseteq Present(Valid)
      /\ Present(Names) \subseteq Names
  BY PathsApart DEF Present
<1>2. CASE ReadDir
  BY <1>1, <1>2 DEF ReadDir, StartScan
<1>3. CASE Discover
  <2> DEFINE valid == Present(Valid)
             due == IF Cardinality(valid) <= MaxFileCount THEN Present(Names) ELSE {}
  <2>1. PICK S \in SUBSET valid : /\ Cardinality(S) = Discovered(Cardinality(valid))
                                  /\ StartScan(S, due)
    BY <1>3 DEF Discover
  <2>2. due \subseteq S
    <3>1. CASE Cardinality(valid) <= MaxFileCount
      <4>1. IsFiniteSet(valid)
        BY FiniteValid, FS_Subset DEF Present
      <4>2. Cardinality(valid) \in Nat /\ MaxFileCount \in Nat
        BY <4>1, FS_CardinalityType, BoundsAssumption
      <4>3. Cardinality(S) = Cardinality(valid)
        BY <2>1, <3>1, <4>2 DEF Discovered
      <4>4. S = valid
        BY <4>1, <4>3, FS_Subset
      <4> QED
        BY <4>4, <1>1, <3>1
    <3>2. CASE ~(Cardinality(valid) <= MaxFileCount)
      BY <3>2
    <3> QED
      BY <3>1, <3>2
  <2>3. due \subseteq Present(Names)
    OBVIOUS
  <2> HIDE DEF due, valid
  <2> QED
    BY <2>1, <2>2, <2>3, <1>1 DEF StartScan
<1> QED
  BY <1>2, <1>3

\* A walk finds each file that it owes, under its name and whole.
LEMMA WalkKeeps ==
  ASSUME IInv, ReadDir \/ Discover \/ EndScan \/ \E n \in Names : Visit(n) \/ PassOver(n)
  PROVE  IInv'
<1> USE DEF IInv
<1>1. UNCHANGED <<entry, data, clock, req, leaked>>
  BY DEF ReadDir, Discover, EndScan, Visit, PassOver, StartScan
<1>2. scan \in [on : BOOLEAN, left : SUBSET Names, due : SUBSET Names, whole : SUBSET Names]
  BY DEF TypeOK
<1>3. /\ scan' \in [on : BOOLEAN, left : SUBSET Names, due : SUBSET Names, whole : SUBSET Names]
      /\ DueThere' /\ WalkComplete'
  <2>1. CASE ReadDir \/ Discover
    BY <2>1, <1>1, WalkBegins DEF DueThere, WalkComplete, Present
  <2>2. CASE EndScan
    BY <2>2 DEF EndScan, NoScan, DueThere, WalkComplete
  <2>3. ASSUME NEW n \in Names, Visit(n)
        PROVE  /\ scan' \in [on : BOOLEAN, left : SUBSET Names, due : SUBSET Names, whole : SUBSET Names]
               /\ DueThere' /\ WalkComplete'
    <3>1. IsWhole(data[entry[n]])
      BY <2>3 DEF Visit, PublishedWhole
    <3>2. scan' = [scan EXCEPT !.left = scan.left \ {n}, !.whole = scan.whole \cup {n}]
      BY <2>3, <3>1 DEF Visit
    <3>3. scan'.left = scan.left \ {n} /\ scan'.whole = scan.whole \cup {n} /\ scan'.due = scan.due
      BY <3>2, <1>2
    <3> QED
      BY <3>2, <3>3, <1>1, <1>2 DEF DueThere, WalkComplete
  <2>4. ASSUME NEW n \in Names, PassOver(n)
        PROVE  /\ scan' \in [on : BOOLEAN, left : SUBSET Names, due : SUBSET Names, whole : SUBSET Names]
               /\ DueThere' /\ WalkComplete'
    <3> DEFINE due == IF entry[n] = Absent THEN scan.due ELSE scan.due \ {n}
    <3>1. scan' = [scan EXCEPT !.left = scan.left \ {n}, !.due = due]
      BY <2>4 DEF PassOver
    <3>2. n \notin due /\ due \subseteq scan.due
      BY DEF DueThere
    <3> HIDE DEF due
    <3>3. scan'.left = scan.left \ {n} /\ scan'.whole = scan.whole /\ scan'.due = due
      BY <3>1, <1>2
    <3>4. due \in SUBSET Names
      BY <3>2, <1>2
    <3> QED
      BY <3>1, <3>2, <3>3, <3>4, <1>1, <1>2 DEF DueThere, WalkComplete
  <2> QED
    BY <2>1, <2>2, <2>3, <2>4
<1>4. TypeOK'
  BY <1>1, <1>3 DEF TypeOK
<1>5. Owned' /\ Stamped' /\ Written' /\ ServedWhole' /\ PublishedWhole'
  <2>1. Owned'
    BY <1>1 DEF Owned, Alone, Holds
  <2>2. Stamped'
    BY <1>1 DEF Stamped, Holds
  <2>3. Written'
    BY <1>1 DEF Written, Whole
  <2>4. ServedWhole'
    BY <1>1 DEF ServedWhole, Holds, IsWhole, Whole
  <2>5. PublishedWhole'
    BY <1>1 DEF PublishedWhole, IsWhole, Whole
  <2> QED
    BY <2>1, <2>2, <2>3, <2>4, <2>5
<1> QED
  BY <1>3, <1>4, <1>5

-----------------------------------------------------------------------------
(* The invariant                                                            *)

\* A directory of whole files, and nobody there yet.
LEMMA Initially == Init => IInv
<1> SUFFICES ASSUME Init PROVE IInv
  OBVIOUS
<1>1. clock = 0 /\ req = [r \in Requests |-> Idle] /\ scan = NoScan /\ leaked = {}
  BY DEF Init
<1>2. \A r \in Requests : req[r] = Idle /\ req[r].pc = "idle"
  BY <1>1 DEF Idle
<1>3. << >> \in Pieces
  <2>1. << >> \in [1..0 -> Bodies \cup {Hole}] /\ 0 \in 0..Chunks
    BY ChunksAssumption
  <2> QED
    BY <2>1 DEF Pieces
<1>4. /\ entry \in [Paths -> Files \cup {Absent}] /\ data \in [Files -> Pieces]
      /\ \A p \in Paths : entry[p] # Absent => p \in Names /\ IsWhole(data[entry[p]])
  <2>1. PICK b \in Bodies :
          \/ entry = [p \in Paths |-> Absent] /\ data = [f \in Files |-> << >>]
          \/ \E f \in Files, n \in Names :
               /\ entry = [p \in Paths |-> IF p = n THEN f ELSE Absent]
               /\ data = [g \in Files |-> IF g = f THEN Whole(b) ELSE << >>]
    BY DEF Init
  <2>2. CASE entry = [p \in Paths |-> Absent] /\ data = [f \in Files |-> << >>]
    BY <2>2, <1>3
  <2>3. CASE \E f \in Files, n \in Names :
               /\ entry = [p \in Paths |-> IF p = n THEN f ELSE Absent]
               /\ data = [g \in Files |-> IF g = f THEN Whole(b) ELSE << >>]
    BY <2>3, <1>3, WholeBody
  <2> QED
    BY <2>1, <2>2, <2>3
<1>5. clock \in Ticks
  BY <1>1, BoundsAssumption DEF Ticks
<1>6. TypeOK
  BY <1>1, <1>4, <1>5 DEF TypeOK, NoScan
<1>7. Owned /\ Stamped /\ Written /\ ServedWhole
  <2>1. \A p \in UploadTemps : entry[p] = Absent
    BY <1>4, PathsApart
  <2> QED
    BY <1>2, <2>1 DEF Owned, Stamped, Written, ServedWhole, Holds
<1>8. PublishedWhole /\ DueThere /\ WalkComplete
  BY <1>1, <1>4, PathsApart DEF PublishedWhole, DueThere, WalkComplete, NoScan
<1> QED
  BY <1>6, <1>7, <1>8 DEF IInv

\* Every step keeps the invariant, if no two uploads read the same nanosecond.
LEMMA Inductive ==
  ASSUME FineClock = TRUE
  PROVE  IInv /\ [Next]_vars => IInv'
<1> SUFFICES ASSUME IInv, [Next]_vars PROVE IInv'
  OBVIOUS
<1>1. ASSUME NEW r \in Requests, Handle(r)
      PROVE  IInv'
  <2>1. CASE Arrive(r) \/ RefuseRequest(r) \/ CloseWritten(r) \/ FailWrite(r) \/ FailRename(r)
             \/ OpenMedia(r)
    BY <2>1, HandlerOnly, GentleKeeps DEF IInv
  <2>2. CASE ServeMedia(r) \/ Return(r)
    BY <2>2, ServeAndReturn, GentleKeeps DEF IInv
  <2>3. CASE RemoveTemp(r) \/ DeleteMedia(r)
    BY <2>3, Removal, GentleKeeps
  <2>4. CASE RenameTemp(r) \/ MoveFile(r)
    BY <2>4, Publication, GentleKeeps
  <2>5. CASE CreateUpload(r)
    BY <2>5, UploadCreation
  <2>6. CASE CreateHidden(r)
    BY <2>6, HiddenCreation
  <2>7. CASE WritePiece(r)
    BY <2>7, WritingKeeps
  <2> QED
    BY <1>1, <2>1, <2>2, <2>3, <2>4, <2>5, <2>6, <2>7 DEF Handle
<1>2. CASE Crash
  BY <1>2, CrashKeeps
<1>3. CASE ReadDir \/ Discover \/ EndScan \/ \E n \in Names : Visit(n) \/ PassOver(n)
  BY <1>3, WalkKeeps
<1>4. CASE UNCHANGED vars
  <2>1. UNCHANGED <<entry, data, clock, req, scan, leaked>>
    BY <1>4 DEF vars
  <2>2. TypeOK' /\ DueThere' /\ WalkComplete'
    BY <2>1 DEF IInv, TypeOK, DueThere, WalkComplete
  <2>3. Owned' /\ Stamped'
    BY <2>1 DEF IInv, Owned, Alone, Holds, Stamped
  <2>4. Written' /\ PublishedWhole'
    BY <2>1 DEF IInv, Written, PublishedWhole, IsWhole, Whole
  <2>5. ServedWhole'
    BY <2>1 DEF IInv, ServedWhole, Holds, IsWhole, Whole
  <2> QED
    BY <2>2, <2>3, <2>4, <2>5 DEF IInv
<1> QED
  BY <1>1, <1>2, <1>3, <1>4 DEF Next

(***************************************************************************)
(* What holds at every moment if no two uploads read the same nanosecond:   *)
(* a temporary file is its request's alone until it is renamed, whole.      *)
(***************************************************************************)
THEOREM InductiveInvariant ==
  ASSUME FineClock = TRUE
  PROVE  Spec => []IInv
<1>1. Init => IInv
  BY Initially
<1>2. IInv /\ [Next]_vars => IInv'
  BY Inductive
<1> QED
  BY <1>1, <1>2, PTL DEF Spec

(***************************************************************************)
(* Every name in the media directory has one request's whole content        *)
(* (handleUploadMedia), for any number of uploads, downloads, deletions and *)
(* crashes.                                                                 *)
(***************************************************************************)
THEOREM NamesWhole ==
  ASSUME FineClock = TRUE
  PROVE  Spec => []PublishedWhole
<1>1. IInv => PublishedWhole
  BY DEF IInv
<1> QED
  BY <1>1, InductiveInvariant, PTL

(***************************************************************************)
(* An export or a listing has every file that was there all the time, whole *)
(* (discoverMediaFiles, ExportColpkg, handleListMedia).                     *)
(***************************************************************************)
THEOREM WalksComplete ==
  ASSUME FineClock = TRUE
  PROVE  Spec => []WalkComplete
<1>1. IInv => WalkComplete
  BY DEF IInv
<1> QED
  BY <1>1, InductiveInvariant, PTL

-----------------------------------------------------------------------------
(* Types, whichever clock                                                   *)

Scans == [on : BOOLEAN, left : SUBSET Names, due : SUBSET Names, whole : SUBSET Names]

\* A step that sends r to x and leaves the files that stay the bytes d.
LEMMA TypeAfter ==
  ASSUME TypeOK, NEW r \in Requests, NEW x \in States, Go(r, x),
         entry' \in [Paths -> Files \cup {Absent}],
         NEW d \in [Files -> Pieces], Bytes(d),
         clock' \in Ticks, scan' \in Scans, leaked' = leaked
  PROVE  TypeOK'
<1>1. req' \in [Requests -> States]
  BY GoTo
<1>2. data' \in [Files -> Pieces]
  BY BytesType
<1> QED
  BY <1>1, <1>2 DEF TypeOK, States, Scans

\* Two uploads that read the same nanosecond create the same file, and the second
\* takes its bytes from the first.
LEMMA TypeOfCreation ==
  ASSUME TypeOK, NEW r \in Requests, CreateUpload(r) \/ CreateHidden(r)
  PROVE  TypeOK'
<1>1. /\ req[r] \in States /\ req[r].pc = "start" /\ entry \in [Paths -> Files \cup {Absent}]
      /\ data \in [Files -> Pieces] /\ clock \in Ticks /\ clock \in Nat /\ MaxTick \in Nat
  BY PathValid, BoundsAssumption DEF CreateUpload, CreateHidden, At, TypeOK, Ticks
<1>2. PICK p \in Temps : OpenForWriting(r, p) /\ req[r].op \in {"put", "move"}
  <2>1. CASE CreateHidden(r)
    BY <2>1, PathsApart DEF CreateHidden
  <2>2. CASE CreateUpload(r)
    <3>1. req[r].op = "put" /\ clock < MaxTick
      BY <2>2 DEF CreateUpload
    <3>2. req[r].path \in Names
      BY <3>1, <1>1, Fields
    <3>3. clock \in Ticks \ {MaxTick}
      BY <3>1, <1>1
    <3>4. UploadTemp(req[r].path, clock) \in UploadTemps
      BY <3>2, <3>3 DEF UploadTemp, UploadTemps
    <3> QED
      BY <2>2, <3>1, <3>4, PathsApart DEF CreateUpload
  <2> QED
    BY <2>1, <2>2
<1> DEFINE x(f) == [pc |-> "write", op |-> req[r].op, path |-> req[r].path,
                    body |-> req[r].body, temp |-> p, file |-> f, at |-> 0]
<1>3. PICK f \in Files : /\ entry' = [entry EXCEPT ![p] = f] /\ Go(r, x(f))
                         /\ Bytes([data EXCEPT ![f] = << >>])
  BY <1>2 DEF OpenForWriting
<1>4. x(f) \in States
  BY <1>1, <1>2, Fields, ChunksAssumption DEF States, Writing
<1>5. << >> \in Pieces
  <2>1. << >> \in [1..0 -> Bodies \cup {Hole}] /\ 0 \in 0..Chunks
    BY ChunksAssumption
  <2> QED
    BY <2>1 DEF Pieces
<1> DEFINE d == [data EXCEPT ![f] = << >>]
<1>6. d \in [Files -> Pieces] /\ Bytes(d)
  BY <1>1, <1>3, <1>5
<1>7. entry' \in [Paths -> Files \cup {Absent}]
  BY <1>1, <1>3
<1>8. clock' \in {clock, clock + 1} /\ (clock' = clock \/ clock < MaxTick)
  BY ClockAssumption DEF CreateUpload, CreateHidden
<1>9. clock' \in Ticks
  BY <1>1, <1>8 DEF Ticks
<1>10. scan' \in Scans /\ leaked' = leaked
  BY DEF CreateUpload, CreateHidden, TypeOK, Scans
<1>11. Go(r, x(f))
  BY <1>3
<1> HIDE DEF d, x
<1> QED
  BY <1>4, <1>6, <1>7, <1>9, <1>10, <1>11, TypeAfter

\* A piece goes to its offset, also when the file is shorter than that.
LEMMA TypeOfWriting ==
  ASSUME TypeOK, NEW r \in Requests, WritePiece(r)
  PROVE  TypeOK'
<1> DEFINE f == req[r].file
           b == req[r].body
           i == req[r].at
<1>1. /\ req[r] \in Writing /\ f \in Files /\ b \in Bodies /\ i \in 0..Chunks /\ i < Chunks
      /\ data[f] \in Pieces /\ UNCHANGED <<entry, clock, scan, leaked>>
  BY PathValid, Fields DEF WritePiece, At, TypeOK
<1>2. i + 1 \in 1..Chunks /\ i + 1 \in 0..Chunks
  BY <1>1, ChunksAssumption
<1>3. WriteAt(data[f], i + 1, b) \in Pieces
  BY <1>1, <1>2, WriteAtType
<1>4. data' = [data EXCEPT ![f] = WriteAt(data[f], i + 1, b)]
  BY DEF WritePiece
<1>5. data' \in [Files -> Pieces]
  BY <1>3, <1>4 DEF TypeOK
<1>6. [req[r] EXCEPT !.at = i + 1] \in Writing
  BY <1>1, <1>2 DEF Writing
<1>7. req' = [req EXCEPT ![r] = [req[r] EXCEPT !.at = i + 1]]
  BY DEF WritePiece
<1>8. req' \in [Requests -> States]
  BY <1>6, <1>7 DEF TypeOK, States
<1> QED
  BY <1>1, <1>5, <1>8 DEF TypeOK, States

LEMMA TypeOfHandling ==
  ASSUME TypeOK, NEW r \in Requests, Handle(r)
  PROVE  TypeOK'
<1>1. /\ req[r] \in States /\ (req[r].pc # "idle" => req[r].path \in Valid)
      /\ entry \in [Paths -> Files \cup {Absent}] /\ data \in [Files -> Pieces]
      /\ clock \in Ticks /\ scan \in Scans
  BY PathValid DEF TypeOK, Scans
<1> DEFINE x(answer) == [pc |-> "done", path |-> req[r].path, answer |-> answer]
<1>2. ASSUME RemoveTemp(r) \/ DeleteMedia(r) \/ RenameTemp(r) \/ MoveFile(r)
      PROVE  \A answer \in {Absent, "ok", "error"} : x(answer) \in States
  <2>1. req[r].path \in Valid
    BY <1>1, <1>2 DEF RemoveTemp, DeleteMedia, RenameTemp, MoveFile, At
  <2> QED
    BY <2>1, DoneState
<1> HIDE DEF x
<1>3. CASE RemoveTemp(r)
  <2>1. /\ Go(r, x("error")) /\ entry' = [entry EXCEPT ![req[r].temp] = Absent] /\ Bytes(data)
        /\ UNCHANGED <<clock, scan, leaked>>
    BY <1>3 DEF RemoveTemp, WithoutTemp, Done, x
  <2>2. entry' \in [Paths -> Files \cup {Absent}] /\ x("error") \in States
    BY <1>1, <1>2, <1>3, <2>1
  <2> QED
    BY <1>1, <2>1, <2>2, TypeAfter
<1>4. CASE DeleteMedia(r)
  <2> DEFINE answer == IF entry[req[r].path] = Absent THEN Absent ELSE "ok"
  <2>1. /\ Go(r, x(answer)) /\ entry' = [entry EXCEPT ![req[r].path] = Absent] /\ Bytes(data)
        /\ scan' = [scan EXCEPT !.due = @ \ {req[r].path}] /\ UNCHANGED <<clock, leaked>>
    BY <1>4 DEF DeleteMedia, Done, x
  <2>2. answer \in {Absent, "ok", "error"}
    OBVIOUS
  <2> HIDE DEF answer
  <2>3. entry' \in [Paths -> Files \cup {Absent}] /\ x(answer) \in States
    BY <1>1, <1>2, <1>4, <2>1, <2>2
  <2>4. scan' \in Scans
    BY <1>1, <2>1 DEF Scans
  <2> QED
    BY <1>1, <2>1, <2>3, <2>4, TypeAfter
<1>5. CASE RenameTemp(r)
  <2>1. /\ Go(r, x("ok")) /\ Bytes(data) /\ UNCHANGED <<clock, scan, leaked>>
        /\ entry' = [p \in Paths |-> IF p = req[r].temp THEN Absent
                                     ELSE IF p = req[r].path THEN entry[req[r].temp]
                                     ELSE entry[p]]
    BY <1>5 DEF RenameTemp, Done, x
  <2>2. req[r].temp \in Paths
    BY <1>1, <1>5, Fields, PathsApart DEF RenameTemp, At
  <2>3. entry' \in [Paths -> Files \cup {Absent}] /\ x("ok") \in States
    BY <1>1, <1>2, <1>5, <2>1, <2>2
  <2> QED
    BY <1>1, <2>1, <2>3, TypeAfter
<1>6. CASE MoveFile(r)
  <2>1. PICK f \in Files : /\ entry' = [entry EXCEPT ![req[r].path] = f]
                           /\ Bytes([data EXCEPT ![f] = Whole(req[r].body)])
    BY <1>6 DEF MoveFile
  <2>2. Go(r, x("ok")) /\ UNCHANGED <<clock, scan, leaked>> /\ req[r].body \in Bodies
    BY <1>1, <1>6, Fields DEF MoveFile, Done, At, x
  <2> DEFINE d == [data EXCEPT ![f] = Whole(req[r].body)]
  <2>3. d \in [Files -> Pieces] /\ Bytes(d)
    BY <1>1, <2>1, <2>2, WholeBody
  <2>4. entry' \in [Paths -> Files \cup {Absent}] /\ x("ok") \in States
    BY <1>1, <1>2, <1>6, <2>1
  <2> HIDE DEF d
  <2> QED
    BY <1>1, <2>2, <2>3, <2>4, TypeAfter
<1> QED
  BY <1>3, <1>4, <1>5, <1>6, HandlerOnly, ServeAndReturn, TypeOfCreation, TypeOfWriting DEF Handle

LEMMA TypeKept ==
  ASSUME TypeOK, [Next]_vars
  PROVE  TypeOK'
<1>1. CASE \E r \in Requests : Handle(r)
  BY <1>1, TypeOfHandling
<1>2. CASE Crash
  <2>1. data' \in [Files -> Pieces]
    BY <1>2, BytesType DEF Crash, TypeOK
  <2>2. req' \in [Requests -> States] /\ leaked' \subseteq Temps /\ UNCHANGED <<entry, clock, scan>>
    BY <1>2 DEF Crash, States, TypeOK
  <2> QED
    BY <2>1, <2>2 DEF TypeOK, States
<1>3. CASE ReadDir \/ Discover
  BY <1>3, WalkBegins DEF TypeOK
<1>4. CASE EndScan \/ \E n \in Names : Visit(n) \/ PassOver(n)
  <2>1. scan \in Scans /\ UNCHANGED <<entry, data, clock, req, leaked>>
    BY <1>4 DEF EndScan, Visit, PassOver, TypeOK, Scans
  <2>2. scan' \in Scans
    <3>1. CASE EndScan
      BY <3>1 DEF EndScan, NoScan, Scans
    <3>2. ASSUME NEW n \in Names, Visit(n) PROVE scan' \in Scans
      BY <2>1, <3>2 DEF Visit, Scans
    <3>3. ASSUME NEW n \in Names, PassOver(n) PROVE scan' \in Scans
      BY <2>1, <3>3 DEF PassOver, Scans
    <3> QED
      BY <1>4, <3>1, <3>2, <3>3
  <2> QED
    BY <2>1, <2>2 DEF TypeOK, Scans
<1>5. CASE UNCHANGED vars
  BY <1>5 DEF vars, TypeOK
<1> QED
  BY <1>1, <1>2, <1>3, <1>4, <1>5 DEF Next

(***************************************************************************)
(* The state of the handlers, the directory and the walks has its shape,    *)
(* also when uploads read the same nanosecond and share a temporary file.   *)
(***************************************************************************)
THEOREM TypeCorrect == Spec => []TypeOK
<1>1. Init => TypeOK
  BY Initially DEF IInv
<1>2. TypeOK /\ [Next]_vars => TypeOK'
  BY TypeKept
<1> QED
  BY <1>1, <1>2, PTL DEF Spec

\* Whoever gives up a temporary file has removed or renamed it, and only a crash
\* makes requests forget theirs.
LEMMA LeftoversKept ==
  ASSUME TypeOK, NoLeftovers, [Next]_vars
  PROVE  NoLeftovers'
<1> SUFFICES ASSUME NEW p \in Temps, entry'[p] # Absent
             PROVE  p \in leaked' \/ \E s \in Requests : Holds(s)' /\ req'[s].temp = p
  BY DEF NoLeftovers, Holds
<1>1. p \in Paths /\ p \notin Names /\ entry \in [Paths -> Files \cup {Absent}]
  BY PathsApart DEF TypeOK
<1>2. entry[p] # Absent => p \in leaked \/ \E s \in Requests : Holds(s) /\ req[s].temp = p
  BY DEF NoLeftovers, Holds
<1>3. ASSUME NEW r \in Requests, Handle(r)
      PROVE  p \in leaked' \/ \E s \in Requests : Holds(s)' /\ req'[s].temp = p
  <2>1. req \in [Requests -> States] /\ leaked' = leaked
    BY <1>3 DEF TypeOK, States, Handle, Arrive, RefuseRequest, CloseWritten, FailWrite,
                FailRename, OpenMedia, ServeMedia, Return, RemoveTemp, DeleteMedia, RenameTemp,
                MoveFile, CreateUpload, CreateHidden, WritePiece
  <2>2. /\ entry[p] # Absent \/ (Holds(r)' /\ req'[r].temp = p)
        /\ Holds(r) /\ req[r].temp = p => Holds(r)' /\ req'[r].temp = p
        /\ \A s \in Requests \ {r} : req'[s] = req[s]
    <3>1. CASE Arrive(r) \/ RefuseRequest(r) \/ OpenMedia(r) \/ ServeMedia(r) \/ Return(r)
      <4>1. ~Holds(r) /\ entry' = entry
        BY <3>1 DEF Arrive, RefuseRequest, OpenMedia, ServeMedia, Return, Holds, At
      <4>2. \E x : req' = [req EXCEPT ![r] = x]
        BY <3>1 DEF Arrive, RefuseRequest, OpenMedia, ServeMedia, Return, Go, Done
      <4> QED
        BY <4>1, <4>2, <2>1
    <3>2. CASE CloseWritten(r) \/ FailWrite(r) \/ FailRename(r)
      <4>1. PICK pc \in {"rename", "remove"} : Resume(r, pc)
        BY <3>2 DEF CloseWritten, FailWrite, FailRename, AfterFailedWrite
      <4>2. req'[r].pc = pc /\ req'[r].temp = req[r].temp /\ entry' = entry
            /\ \A s \in Requests \ {r} : req'[s] = req[s]
        BY <4>1, <3>2, <2>1 DEF Resume, Go, CloseWritten, FailWrite, FailRename
      <4> QED
        BY <4>2 DEF Holds
    <3>3. CASE WritePiece(r)
      <4>1. req[r] \in Writing
        BY <3>3, <2>1, Fields DEF WritePiece, At
      <4>2. PICK n : req' = [req EXCEPT ![r] = [req[r] EXCEPT !.at = n]]
        BY <3>3 DEF WritePiece
      <4>3. req'[r].pc = "write" /\ req'[r].temp = req[r].temp /\ entry' = entry
            /\ \A s \in Requests \ {r} : req'[s] = req[s]
        BY <4>1, <4>2, <3>3, <2>1 DEF Writing, WritePiece
      <4> QED
        BY <4>3 DEF Holds
    <3>4. CASE RemoveTemp(r) \/ RenameTemp(r)
      <4>1. Holds(r) /\ req[r].temp \in Temps /\ req[r].path \in Names
        BY <3>4, <2>1, Fields DEF RemoveTemp, RenameTemp, Holds, At
      <4>2. p # req[r].temp /\ entry[p] = entry'[p]
        BY <3>4, <4>1, <1>1 DEF RemoveTemp, RenameTemp, WithoutTemp
      <4>3. \E x : req' = [req EXCEPT ![r] = x]
        BY <3>4 DEF RemoveTemp, RenameTemp, Done, Go
      <4> QED
        BY <4>2, <4>3, <2>1
    <3>5. CASE DeleteMedia(r) \/ MoveFile(r)
      <4>1. ~Holds(r) /\ \E x : req' = [req EXCEPT ![r] = x]
        BY <3>5 DEF DeleteMedia, MoveFile, Holds, At, Done, Go
      <4>2. CASE DeleteMedia(r)
        <5>1. entry' = [entry EXCEPT ![req[r].path] = Absent]
          BY <4>2 DEF DeleteMedia
        <5> QED
          BY <4>1, <5>1, <1>1, <2>1
      <4>3. CASE MoveFile(r)
        <5>1. req[r].path \in Names
          BY <4>3, <2>1, Fields DEF MoveFile, At
        <5>2. entry'[p] = entry[p]
          BY <4>3, <5>1, <1>1 DEF MoveFile
        <5> QED
          BY <4>1, <5>2, <2>1
      <4> QED
        BY <3>5, <4>2, <4>3
    <3>6. CASE CreateUpload(r) \/ CreateHidden(r)
      <4>1. PICK q : OpenForWriting(r, q) /\ At(r, "start")
        BY <3>6 DEF CreateUpload, CreateHidden
      <4>2. PICK f \in Files :
              /\ entry' = [entry EXCEPT ![q] = f]
              /\ Go(r, [pc |-> "write", op |-> req[r].op, path |-> req[r].path,
                        body |-> req[r].body, temp |-> q, file |-> f, at |-> 0])
        BY <4>1 DEF OpenForWriting
      <4>3. Holds(r)' /\ req'[r].temp = q /\ ~Holds(r) /\ \A s \in Requests \ {r} : req'[s] = req[s]
        BY <4>1, <4>2, <2>1 DEF Go, Holds, At
      <4>4. p = q \/ entry'[p] = entry[p]
        BY <4>2, <1>1
      <4> QED
        BY <4>3, <4>4
    <3> QED
      BY <1>3, <3>1, <3>2, <3>3, <3>4, <3>5, <3>6 DEF Handle
  <2>3. CASE Holds(r)' /\ req'[r].temp = p
    BY <2>3
  <2>4. CASE entry[p] # Absent /\ ~(Holds(r)' /\ req'[r].temp = p)
    BY <2>4, <2>1, <2>2, <1>2 DEF Holds
  <2> QED
    BY <2>2, <2>3, <2>4
<1>4. CASE Crash
  BY <1>1, <1>4 DEF Crash
<1>5. CASE UNCHANGED <<entry, req, leaked>>
  BY <1>2, <1>5 DEF Holds
<1>6. ASSUME ReadDir \/ Discover \/ EndScan \/ \E n \in Names : Visit(n) \/ PassOver(n)
      PROVE  UNCHANGED <<entry, req, leaked>>
  BY <1>6 DEF ReadDir, Discover, EndScan, Visit, PassOver, StartScan
<1> QED
  BY <1>3, <1>4, <1>5, <1>6 DEF Next, vars

(***************************************************************************)
(* Every temporary file in the directory is one that a request still writes *)
(* or removes, or that a crash has left (handleUploadMedia, renameWithCopy),*)
(* also when two of them share it.                                          *)
(***************************************************************************)
THEOREM NothingLeft == Spec => []NoLeftovers
<1>1. Init => NoLeftovers
  BY PathsApart DEF Init, NoLeftovers
<1>2. TypeOK /\ NoLeftovers /\ [Next]_vars => NoLeftovers'
  BY LeftoversKept
<1> QED
  BY <1>1, <1>2, TypeCorrect, PTL DEF Spec

-----------------------------------------------------------------------------
(* The handlers implement the directory of whole files                      *)

\* What a request is to its client, by where its handler is.
LEMMA CallShape ==
  ASSUME NEW r \in Requests, req[r] \in States
  PROVE  /\ req[r].pc = "idle" \/ req[r].path \notin Names => CallOf(r) = [phase |-> "idle"]
         /\ req[r].pc \in {"write", "rename", "remove"}
            \/ (req[r].pc = "start" /\ req[r].op \in {"put", "move"}) =>
              CallOf(r) = [phase |-> "open", op |-> "put", name |-> req[r].path, body |-> req[r].body]
         /\ req[r].pc = "start" /\ req[r].op \in {"get", "delete"} /\ req[r].path \in Names =>
              CallOf(r) = [phase |-> "open", op |-> req[r].op, name |-> req[r].path]
         /\ req[r].pc = "serve" /\ req[r].path \in Names =>
              CallOf(r) = [phase |-> "answered", answer |-> BodyOf(data[req[r].file])]
         /\ req[r].pc = "done" /\ req[r].path \in Names =>
              CallOf(r) = [phase |-> "answered", answer |-> req[r].answer]
  BY Fields DEF CallOf

LEMMA CallShapeNext ==
  ASSUME NEW r \in Requests, req'[r] \in States
  PROVE  /\ req'[r].pc = "idle" \/ req'[r].path \notin Names => CallOf(r)' = [phase |-> "idle"]
         /\ req'[r].pc \in {"write", "rename", "remove"}
            \/ (req'[r].pc = "start" /\ req'[r].op \in {"put", "move"}) =>
              CallOf(r)' = [phase |-> "open", op |-> "put", name |-> req'[r].path, body |-> req'[r].body]
         /\ req'[r].pc = "start" /\ req'[r].op \in {"get", "delete"} /\ req'[r].path \in Names =>
              CallOf(r)' = [phase |-> "open", op |-> req'[r].op, name |-> req'[r].path]
         /\ req'[r].pc = "serve" /\ req'[r].path \in Names =>
              CallOf(r)' = [phase |-> "answered", answer |-> BodyOf(data'[req'[r].file])]
         /\ req'[r].pc = "done" /\ req'[r].path \in Names =>
              CallOf(r)' = [phase |-> "answered", answer |-> req'[r].answer]
<1>1. \A d : BodyOf(d)' = BodyOf(d)
  BY DEF BodyOf, IsWhole, Whole
<1> QED
  BY Fields DEF CallOf, BodyOf, IsWhole, Whole

\* A step of r changes bytes that nobody else can see: of files that are free
\* before it or after it, and of the file that r writes.
Discreet(r) ==
  /\ req' \in [Requests -> States]
  /\ \A s \in Requests \ {r} : req'[s] = req[s]
  /\ \A f \in Files : \/ data'[f] = data[f] \/ Free(f) \/ Free(f)'
                      \/ Holds(r) /\ f = req[r].file

LEMMA HandlersDiscreet ==
  ASSUME FineClock = TRUE, IInv, NEW r \in Requests, Handle(r)
  PROVE  Discreet(r)
<1>1. TypeOK /\ req \in [Requests -> States] /\ data \in [Files -> Pieces]
  BY DEF IInv, TypeOK, States
<1>2. ASSUME TypeOK', Gentle(r)
      PROVE  Discreet(r)
  BY <1>2 DEF Discreet, Gentle, TypeOK, States
<1>3. CASE CreateUpload(r) \/ CreateHidden(r)
  <2>1. IInv'
    BY <1>3, UploadCreation, HiddenCreation
  <2>2. PICK p : OpenForWriting(r, p) /\ entry[p] = Absent
    <3>1. CASE CreateHidden(r)
      BY <3>1 DEF CreateHidden
    <3>2. CASE CreateUpload(r)
      <4>1. req[r].path \in Names /\ clock \in Ticks \ {MaxTick} /\ clock \in Nat
        BY <3>2, <1>1, Fields, BoundsAssumption DEF CreateUpload, At, TypeOK, Ticks
      <4>2. UploadTemp(req[r].path, clock) \in UploadTemps /\ UploadTemp(req[r].path, clock).tick = clock
        BY <4>1 DEF UploadTemp, UploadTemps
      <4>3. entry[UploadTemp(req[r].path, clock)] = Absent
        BY <4>1, <4>2 DEF IInv, Stamped
      <4> QED
        BY <3>2, <4>3 DEF CreateUpload
    <3> QED
      BY <1>3, <3>1, <3>2
  <2>3. PICK f \in Files : Free(f) /\ Bytes([data EXCEPT ![f] = << >>])
    BY <2>2 DEF OpenForWriting
  <2>4. \E x : req' = [req EXCEPT ![r] = x]
    BY <2>2 DEF OpenForWriting, Go
  <2> DEFINE d == [data EXCEPT ![f] = << >>]
  <2>5. << >> \in Pieces
    <3>1. << >> \in [1..0 -> Bodies \cup {Hole}] /\ 0 \in 0..Chunks
      BY ChunksAssumption
    <3> QED
      BY <3>1 DEF Pieces
  <2>6. d \in [Files -> Pieces] /\ \A g \in Files \ {f} : d[g] = data[g]
    BY <1>1, <2>5
  <2>7. \A g \in Files : data'[g] = d[g] \/ Free(g)'
    BY <2>3, <2>6, BytesType
  <2> HIDE DEF d
  <2>8. \A g \in Files : data'[g] = data[g] \/ Free(g) \/ Free(g)'
    BY <2>3, <2>6, <2>7
  <2>9. req' \in [Requests -> States]
    BY <2>1 DEF IInv, TypeOK, States
  <2> QED
    BY <1>1, <2>4, <2>8, <2>9 DEF Discreet
<1>4. CASE WritePiece(r)
  <2>1. IInv'
    BY <1>4, WritingKeeps
  <2>2. req' \in [Requests -> States] /\ \E x : req' = [req EXCEPT ![r] = x]
    BY <2>1, <1>4 DEF IInv, TypeOK, States, WritePiece
  <2>3. Holds(r) /\ \A f \in Files \ {req[r].file} : data'[f] = data[f]
    BY <1>1, <1>4 DEF WritePiece, Holds, At
  <2> QED
    BY <1>1, <2>2, <2>3 DEF Discreet
<1> QED
  BY <1>1, <1>2, <1>3, <1>4, HandlerOnly, ServeAndReturn, Removal, Publication DEF Handle

\* So the other requests' calls stay as they are, and what has a name keeps its
\* content unless the step gives the name another file.
LEMMA OthersUnmoved ==
  ASSUME IInv, NEW r \in Requests, Discreet(r)
  PROVE  /\ \A s \in Requests \ {r} : CallOf(s)' = CallOf(s)
         /\ CallsMade' = [CallsMade EXCEPT ![r] = CallOf(r)']
         /\ \A n \in Names : entry'[n] = entry[n] => Directory'[n] = Directory[n]
<1>1. req \in [Requests -> States] /\ entry \in [Paths -> Files \cup {Absent}]
  BY DEF IInv, TypeOK, States
<1>2. ASSUME NEW s \in Requests \ {r}
      PROVE  CallOf(s)' = CallOf(s)
  <2>1. req'[s] = req[s] /\ req[s] \in States
    BY <1>1 DEF Discreet
  <2>2. req[s].pc = "serve" /\ req[s].path \in Names => data'[req[s].file] = data[req[s].file]
    <3> SUFFICES ASSUME req[s].pc = "serve", req[s].path \in Names
                 PROVE  data'[req[s].file] = data[req[s].file]
      OBVIOUS
    <3>1. req[s].file \in Files /\ ~Free(req[s].file) /\ ~Free(req[s].file)'
      BY <2>1, Fields, NotFree, NotFreeNext
    <3>2. Holds(r) => req[r].file # req[s].file
      BY DEF IInv, ServedWhole
    <3> QED
      BY <3>1, <3>2 DEF Discreet
  <2> QED
    BY <2>1, <2>2 DEF CallOf, BodyOf, IsWhole, Whole
<1>3. CallsMade' = [CallsMade EXCEPT ![r] = CallOf(r)']
  <2> DEFINE c(s) == CallOf(s)'
             b(s) == CallOf(s)
  <2>1. CallsMade' = [s \in Requests |-> c(s)] /\ CallsMade = [s \in Requests |-> b(s)]
    BY DEF CallsMade
  <2>2. \A s \in Requests \ {r} : c(s) = b(s)
    BY <1>2
  <2> HIDE DEF c, b
  <2>3. [s \in Requests |-> c(s)] = [[s \in Requests |-> b(s)] EXCEPT ![r] = c(r)]
    BY <2>2
  <2> QED
    BY <2>1, <2>3 DEF c
<1>4. ASSUME NEW n \in Names, entry'[n] = entry[n]
      PROVE  Directory'[n] = Directory[n]
  <2>1. CASE entry[n] = Absent
    BY <1>4, <2>1 DEF Directory
  <2>2. CASE entry[n] # Absent
    <3>1. entry[n] \in Files /\ n \in Paths /\ ~Free(entry[n]) /\ ~Free(entry[n])'
      BY <1>1, <1>4, <2>2, PathsApart, NotFree, NotFreeNext
    <3>2. Holds(r) => req[r].temp \in Temps /\ entry[n] # req[r].file
      BY <1>1, <3>1, Fields, PathsApart DEF Holds, IInv, Owned
    <3>3. data'[entry[n]] = data[entry[n]]
      BY <1>4, <3>1, <3>2 DEF Discreet
    <3> QED
      BY <1>4, <3>3 DEF Directory, BodyOf, IsWhole, Whole
  <2> QED
    BY <2>1, <2>2
<1> QED
  BY <1>2, <1>3, <1>4

\* The directory after a step that leaves the names alone, or gives one another file.
LEMMA DirectoryAfter ==
  ASSUME IInv, NEW r \in Requests, Discreet(r), NEW m \in Names,
         \A n \in Names \ {m} : entry'[n] = entry[n]
  PROVE  /\ Directory' = [Directory EXCEPT ![m] = Directory'[m]]
         /\ entry'[m] = entry[m] => Directory' = Directory
<1>1. Directory = [n \in Names |-> Directory[n]] /\ Directory' = [n \in Names |-> Directory'[n]]
  BY DEF Directory
<1>2. \A n \in Names \ {m} : Directory'[n] = Directory[n]
  BY OthersUnmoved
<1>3. entry'[m] = entry[m] => Directory'[m] = Directory[m]
  BY OthersUnmoved
<1> QED
  BY <1>1, <1>2, <1>3

LEMMA DirectorySame ==
  ASSUME IInv, NEW r \in Requests, Discreet(r), \A n \in Names : entry'[n] = entry[n]
  PROVE  Directory' = Directory
<1>1. Directory = [n \in Names |-> Directory[n]] /\ Directory' = [n \in Names |-> Directory'[n]]
  BY DEF Directory
<1>2. \A n \in Names : Directory'[n] = Directory[n]
  BY OthersUnmoved
<1> QED
  BY <1>1, <1>2

\* A request for a file that is not a media file's name is none of the directory's.
LEMMA StutterAt ==
  ASSUME IInv, NEW r \in Requests, Discreet(r), \A n \in Names : entry'[n] = entry[n],
         CallOf(r)' = CallOf(r)
  PROVE  UNCHANGED <<Directory, CallsMade>>
<1>1. CallsMade' = [CallsMade EXCEPT ![r] = CallOf(r)']
  BY OthersUnmoved
<1>2. CallsMade = [s \in Requests |-> CallsMade[s]] /\ CallsMade[r] = CallOf(r)
  BY DEF CallsMade
<1>3. CallsMade' = CallsMade
  BY <1>1, <1>2
<1> QED
  BY <1>3, DirectorySame

\* handleUploadMedia and renameWithCopy: the rename is the moment of the upload.
LEMMA PutStep ==
  ASSUME FineClock = TRUE, IInv, NEW r \in Requests, RenameTemp(r) \/ MoveFile(r)
  PROVE  MD!Put(r)
<1>1. Discreet(r) /\ req[r] \in States /\ req'[r] \in States
  <2>1. Discreet(r)
    BY HandlersDiscreet DEF Handle
  <2> QED
    BY <2>1 DEF Discreet, IInv, TypeOK, States
<1>2. req[r].path \in Names /\ req[r].body \in Bodies
  BY <1>1, Fields DEF RenameTemp, MoveFile, At
<1>3. CallOf(r) = [phase |-> "open", op |-> "put", name |-> req[r].path, body |-> req[r].body]
  BY <1>1, CallShape DEF RenameTemp, MoveFile, At
<1>4. req'[r] = [pc |-> "done", path |-> req[r].path, answer |-> "ok"]
  BY DEF RenameTemp, MoveFile, Done, Go, IInv, TypeOK
<1>5. CallOf(r)' = [phase |-> "answered", answer |-> "ok"]
  BY <1>1, <1>2, <1>4, CallShapeNext
<1>6. CallsMade[r] = CallOf(r) /\ CallsMade' = [CallsMade EXCEPT ![r] = CallOf(r)']
  BY <1>1, OthersUnmoved DEF CallsMade
<1>7. /\ \A n \in Names \ {req[r].path} : entry'[n] = entry[n]
      /\ Directory'[req[r].path] = req[r].body
  <2>1. entry \in [Paths -> Files \cup {Absent}] /\ data \in [Files -> Pieces]
    BY DEF IInv, TypeOK
  <2>2. CASE RenameTemp(r)
    <3>1. /\ req[r].temp \in Temps /\ entry[req[r].temp] = req[r].file /\ req[r].file \in Files
          /\ data[req[r].file] = Whole(req[r].body)
      BY <2>2, <1>1, Fields DEF RenameTemp, At, IInv, Owned, Written, Holds
    <3>2. entry'[req[r].path] = req[r].file /\ \A n \in Names \ {req[r].path} : entry'[n] = entry[n]
      BY <2>2, <3>1, <1>2, PathsApart DEF RenameTemp
    <3>3. Bytes(data)
      BY <2>2 DEF RenameTemp
    <3>4. data'[req[r].file] = data[req[r].file]
      <4>1. \A f \in Files : data'[f] = data[f] \/ Free(f)'
        BY <2>1, <3>3, BytesType
      <4>2. \A f : entry'[req[r].path] = f => ~Free(f)'
        BY <1>2, PathsApart, NotFreeNext
      <4> QED
        BY <3>1, <3>2, <4>1, <4>2
    <3>5. Directory'[req[r].path] = BodyOf(Whole(req[r].body))
      BY <1>2, <3>1, <3>2, <3>4, NamesAssumption DEF Directory, BodyOf, IsWhole, Whole
    <3> QED
      BY <3>2, <3>5, <1>2, WholeBody
  <2>3. CASE MoveFile(r)
    <3>1. PICK f \in Files : /\ entry' = [entry EXCEPT ![req[r].path] = f]
                             /\ Bytes([data EXCEPT ![f] = Whole(req[r].body)])
      BY <2>3 DEF MoveFile
    <3>2. entry'[req[r].path] = f /\ \A n \in Names \ {req[r].path} : entry'[n] = entry[n]
      BY <2>1, <3>1, <1>2, PathsApart
    <3> DEFINE d == [data EXCEPT ![f] = Whole(req[r].body)]
    <3>3. d \in [Files -> Pieces] /\ d[f] = Whole(req[r].body)
      BY <2>1, <1>2, WholeBody
    <3>4. \A g \in Files : data'[g] = d[g] \/ Free(g)'
      BY <3>1, <3>3, BytesType
    <3> HIDE DEF d
    <3>5. data'[f] = Whole(req[r].body)
      BY <3>2, <3>3, <3>4, <1>2, PathsApart, NotFreeNext
    <3>6. Directory'[req[r].path] = BodyOf(Whole(req[r].body))
      BY <1>2, <3>2, <3>5, NamesAssumption DEF Directory, BodyOf, IsWhole, Whole
    <3> QED
      BY <3>2, <3>6, <1>2, WholeBody
  <2> QED
    BY <2>2, <2>3
<1>8. Directory' = [Directory EXCEPT ![req[r].path] = req[r].body]
  BY <1>1, <1>2, <1>7, DirectoryAfter
<1> QED
  BY <1>3, <1>5, <1>6, <1>8 DEF MD!Put, MD!Answer

\* handleGetMedia: the open is the moment of the answer, whatever happens to the
\* name while the file is served.
LEMMA OpenStep ==
  ASSUME FineClock = TRUE, IInv, NEW r \in Requests, OpenMedia(r)
  PROVE  MD!Get(r) \/ UNCHANGED <<Directory, CallsMade>>
<1>1. Discreet(r) /\ req[r] \in States /\ req'[r] \in States
  <2>1. Discreet(r)
    BY HandlersDiscreet DEF Handle
  <2> QED
    BY <2>1 DEF Discreet, IInv, TypeOK, States
<1>2. entry' = entry /\ data' = data /\ req[r].pc = "start" /\ req[r].op = "get"
  BY DEF OpenMedia, At
<1>3. req \in [Requests -> States]
  BY DEF IInv, TypeOK, States
<1>4. IF entry[req[r].path] = Absent
        THEN req'[r] = [pc |-> "done", path |-> req[r].path, answer |-> Absent]
        ELSE req'[r] = [pc |-> "serve", op |-> "get", path |-> req[r].path,
                        file |-> entry[req[r].path]]
  BY <1>3 DEF OpenMedia, Done, Go
<1>5. CASE req[r].path \notin Names
  <2>1. CallOf(r)' = CallOf(r)
    BY <1>1, <1>4, <1>5, CallShape, CallShapeNext
  <2> QED
    BY <1>1, <1>2, <2>1, StutterAt
<1>6. CASE req[r].path \in Names
  <2>1. CallOf(r) = [phase |-> "open", op |-> "get", name |-> req[r].path]
    BY <1>1, <1>2, <1>6, CallShape
  <2>2. CallOf(r)' = [phase |-> "answered", answer |-> Directory[req[r].path]]
    BY <1>1, <1>2, <1>4, <1>6, CallShapeNext DEF Directory
  <2>3. CallsMade[r] = CallOf(r) /\ CallsMade' = [CallsMade EXCEPT ![r] = CallOf(r)']
    BY <1>1, OthersUnmoved DEF CallsMade
  <2>4. Directory' = Directory
    BY <1>1, <1>2, DirectorySame
  <2> QED
    BY <2>1, <2>2, <2>3, <2>4 DEF MD!Get, MD!Answer
<1> QED
  BY <1>5, <1>6

\* handleDeleteMedia: the removal is the moment of the deletion.
LEMMA DeleteStep ==
  ASSUME FineClock = TRUE, IInv, NEW r \in Requests, DeleteMedia(r)
  PROVE  MD!Delete(r) \/ UNCHANGED <<Directory, CallsMade>>
<1>1. Discreet(r) /\ req[r] \in States /\ req'[r] \in States
  <2>1. Discreet(r)
    BY HandlersDiscreet DEF Handle
  <2> QED
    BY <2>1 DEF Discreet, IInv, TypeOK, States
<1>2. req[r].pc = "start" /\ req[r].op = "delete" /\ req[r].path \in Valid
  BY <1>1, Fields DEF DeleteMedia, At, Valid
<1>3. req \in [Requests -> States] /\ entry \in [Paths -> Files \cup {Absent}]
  BY DEF IInv, TypeOK, States
<1>4. req'[r] = [pc |-> "done", path |-> req[r].path,
                 answer |-> IF entry[req[r].path] = Absent THEN Absent ELSE "ok"]
  BY <1>3 DEF DeleteMedia, Done, Go
<1>5. entry'[req[r].path] = Absent /\ \A p \in Paths \ {req[r].path} : entry'[p] = entry[p]
  BY <1>2, <1>3, PathsApart DEF DeleteMedia
<1>6. CASE req[r].path \notin Names
  <2>1. CallOf(r)' = CallOf(r)
    BY <1>1, <1>4, <1>6, CallShape, CallShapeNext
  <2>2. \A n \in Names : entry'[n] = entry[n]
    BY <1>5, <1>6, PathsApart
  <2> QED
    BY <1>1, <2>1, <2>2, StutterAt
<1>7. CASE req[r].path \in Names
  <2>1. CallOf(r) = [phase |-> "open", op |-> "delete", name |-> req[r].path]
    BY <1>1, <1>2, <1>7, CallShape
  <2>2. Directory[req[r].path] = Absent <=> entry[req[r].path] = Absent
    BY <1>7, BodyOfType, NamesAssumption DEF Directory
  <2>3. CallOf(r)' = [phase |-> "answered",
                      answer |-> IF Directory[req[r].path] = Absent THEN Absent ELSE "ok"]
    BY <1>1, <1>4, <1>7, <2>2, CallShapeNext
  <2>4. CallsMade[r] = CallOf(r) /\ CallsMade' = [CallsMade EXCEPT ![r] = CallOf(r)']
    BY <1>1, OthersUnmoved DEF CallsMade
  <2>5. \A n \in Names \ {req[r].path} : entry'[n] = entry[n]
    BY <1>5, PathsApart
  <2>6. Directory'[req[r].path] = Absent
    BY <1>5, <1>7 DEF Directory
  <2>7. Directory' = [Directory EXCEPT ![req[r].path] = Absent]
    BY <1>1, <1>7, <2>5, <2>6, DirectoryAfter
  <2> QED
    BY <2>1, <2>3, <2>4, <2>7 DEF MD!Delete, MD!Answer
<1> QED
  BY <1>6, <1>7

\* A request arrives, or is answered with an error before it has done anything that
\* others can see.
LEMMA AskAndRefuse ==
  ASSUME FineClock = TRUE, IInv, NEW r \in Requests,
         Arrive(r) \/ RefuseRequest(r) \/ RemoveTemp(r)
  PROVE  MD!Ask(r) \/ MD!Refuse(r) \/ UNCHANGED <<Directory, CallsMade>>
<1>1. Discreet(r) /\ req[r] \in States /\ req'[r] \in States
  <2>1. Discreet(r)
    BY HandlersDiscreet DEF Handle
  <2> QED
    BY <2>1 DEF Discreet, IInv, TypeOK, States
<1>2. req \in [Requests -> States] /\ entry \in [Paths -> Files \cup {Absent}]
  BY DEF IInv, TypeOK, States
<1>3. CallsMade[r] = CallOf(r) /\ CallsMade' = [CallsMade EXCEPT ![r] = CallOf(r)']
  BY <1>1, OthersUnmoved DEF CallsMade
<1>4. CASE Arrive(r)
  <2>1. entry' = entry /\ CallOf(r) = [phase |-> "idle"]
    BY <1>1, <1>4, CallShape DEF Arrive, At
  <2>2. Directory' = Directory
    BY <1>1, <2>1, DirectorySame
  <2>3. CASE CallOf(r)' \in MD!Calls
    <3> DEFINE c == CallOf(r)'
    <3>1. CallsMade' = [CallsMade EXCEPT ![r] = c] /\ c \in MD!Calls
      BY <1>3, <2>3
    <3> HIDE DEF c
    <3> QED
      BY <3>1, <1>3, <2>1, <2>2 DEF MD!Ask
  <2>4. CASE CallOf(r)' = [phase |-> "idle"]
    BY <1>1, <2>1, <2>4, StutterAt
  <2>5. CallOf(r)' \in MD!Calls \/ CallOf(r)' = [phase |-> "idle"]
    <3>1. CASE \E op \in {"put", "move"}, n \in Names, b \in Bodies :
                 Go(r, [pc |-> "start", op |-> op, path |-> n, body |-> b])
      <4>1. PICK op \in {"put", "move"}, n \in Names, b \in Bodies :
              req'[r] = [pc |-> "start", op |-> op, path |-> n, body |-> b]
        BY <3>1, <1>2 DEF Go
      <4>2. CallOf(r)' = [phase |-> "open", op |-> "put", name |-> n, body |-> b]
        BY <1>1, <4>1, CallShapeNext
      <4> QED
        BY <4>2 DEF MD!Calls
    <3>2. CASE \E op \in {"get", "delete"}, p \in Names \cup Present(UploadTemps) :
                 Go(r, [pc |-> "start", op |-> op, path |-> p])
      <4>1. PICK op \in {"get", "delete"}, p \in Names \cup Present(UploadTemps) :
              req'[r] = [pc |-> "start", op |-> op, path |-> p]
        BY <3>2, <1>2 DEF Go
      <4>2. CASE p \in Names
        <5>1. CallOf(r)' = [phase |-> "open", op |-> op, name |-> p]
          BY <1>1, <4>1, <4>2, CallShapeNext
        <5> QED
          BY <5>1, <4>2 DEF MD!Calls
      <4>3. CASE p \notin Names
        BY <1>1, <4>1, <4>3, CallShapeNext
      <4> QED
        BY <4>2, <4>3
    <3> QED
      BY <1>4, <3>1, <3>2 DEF Arrive
  <2> QED
    BY <2>3, <2>4, <2>5
<1>5. CASE RefuseRequest(r) \/ RemoveTemp(r)
  <2>1. req'[r] = [pc |-> "done", path |-> req[r].path, answer |-> "error"]
    BY <1>2, <1>5 DEF RefuseRequest, RemoveTemp, Done, Go
  <2>2. \A n \in Names : entry'[n] = entry[n]
    <3>1. CASE RefuseRequest(r)
      BY <3>1 DEF RefuseRequest
    <3>2. CASE RemoveTemp(r)
      <4>1. req[r].temp \in Temps
        BY <3>2, <1>1, Fields DEF RemoveTemp, At
      <4> QED
        BY <3>2, <4>1, <1>2, PathsApart DEF RemoveTemp, WithoutTemp
    <3> QED
      BY <1>5, <3>1, <3>2
  <2>3. req[r].pc \in {"start", "remove"}
    BY <1>5 DEF RefuseRequest, RemoveTemp, At
  <2>4. CASE req[r].path \in Names
    <3>1. CallOf(r).phase = "open"
      BY <1>1, <2>3, <2>4, Fields, CallShape
    <3>2. CallOf(r)' = [phase |-> "answered", answer |-> "error"]
      BY <1>1, <2>1, <2>4, CallShapeNext
    <3>3. Directory' = Directory
      BY <1>1, <2>2, DirectorySame
    <3> QED
      BY <1>3, <3>1, <3>2, <3>3 DEF MD!Refuse, MD!Answer
  <2>5. CASE req[r].path \notin Names
    <3>1. CallOf(r)' = CallOf(r)
      BY <1>1, <2>1, <2>5, CallShape, CallShapeNext
    <3> QED
      BY <1>1, <2>2, <3>1, StutterAt
  <2> QED
    BY <2>4, <2>5
<1> QED
  BY <1>4, <1>5

\* What a request does with its temporary file, and the sending of an answer that
\* was settled when the file was opened, others do not see.
LEMMA UnseenStep ==
  ASSUME FineClock = TRUE, IInv, NEW r \in Requests,
         CreateUpload(r) \/ CreateHidden(r) \/ WritePiece(r) \/ CloseWritten(r) \/ FailWrite(r)
         \/ FailRename(r) \/ ServeMedia(r)
  PROVE  UNCHANGED <<Directory, CallsMade>>
<1>1. Discreet(r) /\ req[r] \in States /\ req'[r] \in States
  <2>1. Discreet(r)
    BY HandlersDiscreet DEF Handle
  <2> QED
    BY <2>1 DEF Discreet, IInv, TypeOK, States
<1>2. req \in [Requests -> States] /\ entry \in [Paths -> Files \cup {Absent}]
  BY DEF IInv, TypeOK, States
<1>3. CASE ServeMedia(r)
  <2>1. req[r].pc = "serve" /\ entry' = entry
        /\ req'[r] = [pc |-> "done", path |-> req[r].path, answer |-> BodyOf(data[req[r].file])]
    BY <1>2, <1>3 DEF ServeMedia, At, Done, Go
  <2>2. CallOf(r)' = CallOf(r)
    BY <1>1, <2>1, CallShape, CallShapeNext
  <2> QED
    BY <1>1, <2>1, <2>2, StutterAt
<1>4. ASSUME req[r].pc \in {"write", "rename", "remove"}
               \/ (req[r].pc = "start" /\ req[r].op \in {"put", "move"}),
             req'[r].pc \in {"write", "rename", "remove"},
             req'[r].path = req[r].path, req'[r].body = req[r].body,
             \A n \in Names : entry'[n] = entry[n]
      PROVE  UNCHANGED <<Directory, CallsMade>>
  <2>1. CallOf(r)' = CallOf(r)
    BY <1>1, <1>4, CallShape, CallShapeNext
  <2> QED
    BY <1>1, <1>4, <2>1, StutterAt
<1>5. CASE CreateUpload(r) \/ CreateHidden(r)
  <2>1. PICK p \in Temps : OpenForWriting(r, p)
    <3>1. CASE CreateHidden(r)
      BY <3>1, PathsApart DEF CreateHidden
    <3>2. CASE CreateUpload(r)
      <4>1. req[r].path \in Names /\ clock \in Ticks \ {MaxTick}
        BY <3>2, <1>1, Fields, BoundsAssumption DEF CreateUpload, At, IInv, TypeOK, Ticks
      <4>2. UploadTemp(req[r].path, clock) \in Temps
        BY <4>1, PathsApart DEF UploadTemp, UploadTemps
      <4> QED
        BY <3>2, <4>2 DEF CreateUpload
    <3> QED
      BY <1>5, <3>1, <3>2
  <2>2. PICK f : /\ entry' = [entry EXCEPT ![p] = f]
                 /\ req'[r] = [pc |-> "write", op |-> req[r].op, path |-> req[r].path,
                               body |-> req[r].body, temp |-> p, file |-> f, at |-> 0]
    BY <2>1, <1>2 DEF OpenForWriting, Go
  <2>3. \A n \in Names : entry'[n] = entry[n]
    BY <2>2, <1>2, PathsApart
  <2>4. req[r].pc = "start" /\ req[r].op \in {"put", "move"}
    BY <1>5 DEF CreateUpload, CreateHidden, At
  <2> QED
    BY <1>4, <2>2, <2>3, <2>4
<1>6. CASE WritePiece(r)
  <2>1. req[r] \in Writing /\ req[r].pc = "write" /\ entry' = entry
    BY <1>1, <1>6, Fields DEF WritePiece, At
  <2>2. PICK n : req'[r] = [req[r] EXCEPT !.at = n]
    BY <1>2, <1>6 DEF WritePiece
  <2>3. req'[r].pc = "write" /\ req'[r].path = req[r].path /\ req'[r].body = req[r].body
    BY <2>1, <2>2 DEF Writing
  <2> QED
    BY <1>4, <2>1, <2>3
<1>7. CASE CloseWritten(r) \/ FailWrite(r) \/ FailRename(r)
  <2>1. req[r].pc \in {"write", "rename"} /\ entry' = entry
    BY <1>7 DEF CloseWritten, FailWrite, FailRename, At
  <2>2. PICK pc \in {"rename", "remove"} : Resume(r, pc)
    BY <1>7 DEF CloseWritten, FailWrite, FailRename, AfterFailedWrite
  <2>3. req'[r].pc = pc /\ req'[r].path = req[r].path /\ req'[r].body = req[r].body
    BY <1>2, <2>2 DEF Resume, Go
  <2> QED
    BY <1>4, <2>1, <2>3
<1> QED
  BY <1>3, <1>5, <1>6, <1>7

\* The end of a request, or of all of them with the process.
LEMMA EndStep ==
  ASSUME FineClock = TRUE, IInv, Crash \/ \E r \in Requests : Return(r)
  PROVE  \E S \in SUBSET Requests : MD!End(S)
<1>1. CASE Crash
  <2>1. \A s \in Requests : req'[s] = Idle /\ CallOf(s)' = [phase |-> "idle"]
    BY <1>1 DEF Crash, CallOf, Idle
  <2>2. CallsMade' = [s \in Requests |-> IF s \in Requests THEN [phase |-> "idle"] ELSE CallsMade[s]]
    BY <2>1 DEF CallsMade
  <2>3. Directory' = Directory
    <3>1. entry' = entry /\ Bytes(data) /\ entry \in [Paths -> Files \cup {Absent}]
          /\ data \in [Files -> Pieces]
      BY <1>1 DEF Crash, IInv, TypeOK
    <3>2. \A f \in Files : data'[f] = data[f] \/ Free(f)'
      BY <3>1, BytesType
    <3>3. \A n \in Names : entry[n] # Absent => data'[entry[n]] = data[entry[n]]
      BY <3>1, <3>2, PathsApart, NotFreeNext
    <3> QED
      BY <3>1, <3>3 DEF Directory, BodyOf, IsWhole, Whole
  <2> QED
    BY <2>2, <2>3 DEF MD!End
<1>2. ASSUME NEW r \in Requests, Return(r)
      PROVE  \E S \in SUBSET Requests : MD!End(S)
  <2>1. Discreet(r) /\ req'[r] \in States
    BY <1>2, HandlersDiscreet DEF Handle, Discreet
  <2>2. entry' = entry /\ req'[r] = Idle /\ req'[r].pc = "idle"
    BY <1>2 DEF Return, Go, Idle, IInv, TypeOK
  <2>3. CallOf(r)' = [phase |-> "idle"]
    BY <2>1, <2>2, CallShapeNext
  <2>4. CallsMade' = [CallsMade EXCEPT ![r] = [phase |-> "idle"]]
    BY <2>1, <2>3, OthersUnmoved
  <2>5. CallsMade' = [s \in Requests |-> IF s \in {r} THEN [phase |-> "idle"] ELSE CallsMade[s]]
    BY <2>4 DEF CallsMade
  <2>6. Directory' = Directory
    BY <2>1, <2>2, DirectorySame
  <2>7. MD!End({r})
    BY <2>5, <2>6 DEF MD!End
  <2> QED
    BY <2>7
<1> QED
  BY <1>1, <1>2

(***************************************************************************)
(* The handlers and the downloads, which take no lock, implement a table of *)
(* whole files in which every request takes effect at one moment            *)
(* (MediaDirectory), if no two uploads read the same nanosecond.            *)
(***************************************************************************)
THEOREM Atomic ==
  ASSUME FineClock = TRUE
  PROVE  Spec => AtomicDirectory
<1>1. Init => MD!Init
  <2> SUFFICES ASSUME Init PROVE MD!Init
    OBVIOUS
  <2>1. IInv /\ req = [r \in Requests |-> Idle]
    BY Initially DEF Init
  <2>2. \A n \in Names : entry[n] # Absent => BodyOf(data[entry[n]]) \in Bodies
    BY <2>1, BodyOfType DEF IInv, PublishedWhole
  <2>3. Directory \in [Names -> Bodies \cup {Absent}]
    BY <2>2 DEF Directory
  <2>4. \A r \in Requests : CallOf(r) = [phase |-> "idle"]
    BY <2>1 DEF CallOf, Idle
  <2>5. CallsMade = [r \in Requests |-> [phase |-> "idle"]]
    BY <2>4 DEF CallsMade
  <2> QED
    BY <2>3, <2>5 DEF MD!Init
<1>2. IInv /\ [Next]_vars => [MD!Next]_<<Directory, CallsMade>>
  <2> SUFFICES ASSUME IInv, [Next]_vars
               PROVE  MD!Next \/ UNCHANGED <<Directory, CallsMade>>
    OBVIOUS
  <2>1. ASSUME NEW r \in Requests, Handle(r)
        PROVE  MD!Next \/ UNCHANGED <<Directory, CallsMade>>
    <3>1. CASE RenameTemp(r) \/ MoveFile(r)
      BY <3>1, PutStep DEF MD!Next
    <3>2. CASE OpenMedia(r)
      BY <3>2, OpenStep DEF MD!Next
    <3>3. CASE DeleteMedia(r)
      BY <3>3, DeleteStep DEF MD!Next
    <3>4. CASE Arrive(r) \/ RefuseRequest(r) \/ RemoveTemp(r)
      BY <3>4, AskAndRefuse DEF MD!Next
    <3>5. CASE Return(r)
      BY <3>5, EndStep DEF MD!Next
    <3>6. CASE CreateUpload(r) \/ CreateHidden(r) \/ WritePiece(r) \/ CloseWritten(r)
               \/ FailWrite(r) \/ FailRename(r) \/ ServeMedia(r)
      BY <3>6, UnseenStep
    <3> QED
      BY <2>1, <3>1, <3>2, <3>3, <3>4, <3>5, <3>6 DEF Handle
  <2>2. CASE Crash
    BY <2>2, EndStep DEF MD!Next
  <2>3. CASE UNCHANGED <<entry, data, req>>
    BY <2>3 DEF Directory, CallsMade, CallOf, BodyOf, IsWhole, Whole
  <2>4. ASSUME ReadDir \/ Discover \/ EndScan \/ \E n \in Names : Visit(n) \/ PassOver(n)
        PROVE  UNCHANGED <<entry, data, req>>
    BY <2>4 DEF ReadDir, Discover, EndScan, Visit, PassOver, StartScan
  <2> QED
    BY <2>1, <2>2, <2>3, <2>4 DEF Next, vars
<1> QED
  BY <1>1, <1>2, InductiveInvariant, PTL DEF Spec, AtomicDirectory, MD!Spec

=============================================================================
