--------------------------- MODULE MediaDirectory ---------------------------
(***************************************************************************)
(* What the server's media handlers promise: the directory is a table of    *)
(* whole files, and every request takes effect at one moment between its    *)
(* arrival and its answer, or not at all and then it is answered with an    *)
(* error.  A request may also end without any answer.                       *)
(***************************************************************************)
CONSTANTS Requests, Names, Bodies, Absent

VARIABLES
  dir,    \* name -> the file's content, or Absent
  call    \* what each request asks for and what it has been told

Init ==
  /\ dir \in [Names -> Bodies \cup {Absent}]
  /\ call = [r \in Requests |-> [phase |-> "idle"]]

Calls == [phase : {"open"}, op : {"get", "delete"}, name : Names]
         \cup [phase : {"open"}, op : {"put"}, name : Names, body : Bodies]

Ask(r) ==
  /\ call[r] = [phase |-> "idle"]
  /\ \E c \in Calls : call' = [call EXCEPT ![r] = c]
  /\ UNCHANGED dir

Answer(r, a) == call' = [call EXCEPT ![r] = [phase |-> "answered", answer |-> a]]

Put(r) ==
  /\ call[r].phase = "open" /\ call[r].op = "put"
  /\ dir' = [dir EXCEPT ![call[r].name] = call[r].body]
  /\ Answer(r, "ok")

Get(r) ==
  /\ call[r].phase = "open" /\ call[r].op = "get"
  /\ Answer(r, dir[call[r].name])
  /\ UNCHANGED dir

Delete(r) ==
  /\ call[r].phase = "open" /\ call[r].op = "delete"
  /\ dir' = [dir EXCEPT ![call[r].name] = Absent]
  /\ Answer(r, IF dir[call[r].name] = Absent THEN Absent ELSE "ok")

Refuse(r) == call[r].phase = "open" /\ Answer(r, "error") /\ UNCHANGED dir

\* Requests end, answered or not; a crash of the server ends all of them.
End(S) ==
  /\ call' = [r \in Requests |-> IF r \in S THEN [phase |-> "idle"] ELSE call[r]]
  /\ UNCHANGED dir

Next ==
  \/ \E r \in Requests : Ask(r) \/ Put(r) \/ Get(r) \/ Delete(r) \/ Refuse(r)
  \/ \E S \in SUBSET Requests : End(S)

Spec == Init /\ [][Next]_<<dir, call>>
=============================================================================
