----------------------------- MODULE CardReview -----------------------------
(***************************************************************************)
(* The life of a card under review: AddNote creates it, GetDueCards offers  *)
(* it, AnswerCard reads it, asks the scheduler (pkg/scheduler) for its next  *)
(* state, turns the answer into a due date and stores card and log.         *)
(*                                                                          *)
(* A due date has three units: a position (new cards), seconds (learning)   *)
(* and days since the collection was created (review).  AnswerCard reads    *)
(* the clock twice, and the card before its transaction; the mutex it holds *)
(* keeps out its own process only.  FSRS itself is a library (external).    *)
(***************************************************************************)
EXTENDS Integers, FiniteSets

CONSTANTS
  Cards,
  Imported,      \* new cards that came with the collection: card -> position
  Procs,         \* the processes that have the collection open
  Day,           \* seconds per day
  crt,           \* when the collection was created
  HasMemory,     \* TRUE: cards have the columns stability and difficulty
  MaxTime,       \* bound: the clock
  MaxInterval,   \* bound: days FSRS schedules ahead
  MaxReviews     \* bound: reviews stored

ASSUME ImportedAssumption ==
  DOMAIN Imported \subseteq Cards /\ \A c \in DOMAIN Imported : Imported[c] \in Nat
ASSUME TimeAssumption == Day \in Nat \ {0} /\ crt \in Nat /\ HasMemory \in BOOLEAN
ASSUME BoundsAssumption == MaxTime \in Nat /\ MaxInterval \in Nat \ {0} /\ MaxReviews \in Nat

VARIABLES
  now,        \* the wall clock
  card,       \* the rows of cards
  memory,     \* their columns stability and difficulty
  revlog,     \* the rows of revlog
  pc,         \* where each process is in AnswerCard
  answer,     \* its goanki.Answer
  history     \* of each card: when it was last answered, and when stored

vars == <<now, card, memory, revlog, pc, answer, history>>

States == {"new", "learning", "review", "relearning"}    \* CardType
Ratings == {"again", "hard", "good", "easy"}

Queue == [new |-> 0, learning |-> 1, review |-> 2, relearning |-> 1]
Sentinel == -1      \* the due date of a Review card, until the day is known
NoMemory == 0       \* stability or difficulty is nil

\* A memory state stands for the review that computed it: 1, 2, ...
Card == [type : States, queue : 0..3, due : Int, ivl : Nat, reps : Nat]
NoCard == [type |-> "new", queue |-> -1, due |-> 0, ivl |-> 0, reps |-> 0]
Answer == [id : Cards, row : Card, at : Nat, given : Nat]
NoAnswer == [id |-> "none"]
ReviewLog == [id : Nat \X (0..1), cid : Cards, ivl : Int]

Stored == {c \in Cards : card[c] # NoCard}

TypeOK ==
  /\ now \in Nat
  /\ card \in [Cards -> Card \cup {NoCard}]
  /\ \A c \in Stored : card[c].due # Sentinel
  /\ memory \in [Cards -> Nat]
  /\ revlog \subseteq ReviewLog
  /\ pc \in [Procs -> {"idle", "day", "store"}]
  /\ answer \in [Procs -> Answer \cup {NoAnswer}]
  /\ \A p \in Procs : pc[p] = "idle" \/ answer[p] \in Answer
  /\ history \in [Cards -> [answered : Nat, stored : Nat]]

-----------------------------------------------------------------------------
(* Due dates                                                                *)

\* dayOffsetSinceCreation; with crt = 0 the days are those since 1970.
DayOffset(t) == (t - crt) \div Day

\* The cards GetDueCards selects.
Due(c) ==
  \/ card[c].queue \in {0, 2, 3} /\ card[c].due <= DayOffset(now)
  \/ card[c].queue = 1 /\ card[c].due <= now

NewRow(due) == [type |-> "new", queue |-> 0, due |-> due, ivl |-> 0, reps |-> 0]

-----------------------------------------------------------------------------
(* The scheduler                                                            *)

\* The states FSRS moves a card to (external).
NextState(state, rating) ==
  CASE state = "new" -> IF rating = "easy" THEN "review" ELSE "learning"
    [] state = "review" -> IF rating = "again" THEN "relearning" ELSE "review"
    [] OTHER -> IF rating \in {"good", "easy"} THEN "review" ELSE state

\* The days FSRS schedules a card ahead (external).
ScheduledDays(state) == IF state = "review" THEN 1..MaxInterval ELSE {0}

\* Mutant: relearning cards go to the queue of cards learnt by the day.
ToAnkiDayLearn(original, state, days, t) ==
  [original EXCEPT
     !.type = state, !.queue = IF state = "relearning" THEN 3 ELSE Queue[state],
     !.ivl = days, !.reps = @ + 1,
     !.due = IF state = "review" THEN Sentinel ELSE t]

\* fsrsCardToAnki
ToAnki(original, state, days, t) ==
  [original EXCEPT
     !.type = state, !.queue = Queue[state], !.ivl = days, !.reps = @ + 1,
     !.due = IF state = "review" THEN Sentinel ELSE t]

\* The interval of a log row: -1 for a step of learning.
LogIvl(days) == IF days = 0 THEN -1 ELSE days

-----------------------------------------------------------------------------
(* Operations                                                               *)

\* Mutant: the position of the next new card.
AddNoteByPosition(c) ==
  /\ card[c] = NoCard
  /\ card' = [card EXCEPT ![c] = NewRow(Cardinality(Stored) + 1)]
  /\ UNCHANGED <<now, memory, revlog, pc, answer, history>>

AddNote(c) ==
  /\ card[c] = NoCard
  /\ card' = [card EXCEPT ![c] = NewRow(DayOffset(now))]
  /\ UNCHANGED <<now, memory, revlog, pc, answer, history>>

\* The fields stability and difficulty of a card that GetCardByID returns:
\* it does not select these columns.
MemoryRead(c) == NoMemory

\* Mutant: it is 0 that stands for a due date not yet known.
NeedsDayOffsetZero(row) == row.type = "review" /\ row.due = 0

\* The scheduler left the due date to AnswerCard.
NeedsDayOffset(row) == row.type = "review" /\ row.due = Sentinel

(* AnswerCard reads the card and calls the scheduler.  A card whose due date *)
(* is not the sentinel needs no day offset.                                 *)
Schedule(p, c) ==
  /\ pc[p] = "idle" /\ c \in Stored
  /\ \E rating \in Ratings :
       LET state == NextState(card[c].type, rating)
       IN \E days \in ScheduledDays(state) :
            LET row == ToAnki(card[c], state, days, now)
            IN /\ answer' = [answer EXCEPT ![p] =
                    [id |-> c, row |-> row, at |-> now, given |-> MemoryRead(c)]]
               /\ pc' = [pc EXCEPT ![p] =
                    IF NeedsDayOffset(row) THEN "day" ELSE "store"]
  /\ UNCHANGED <<now, card, memory, revlog, history>>

\* Mutant: the interval is left out.
DueAtOnce(ivl, t) == DayOffset(t)

\* Mutant: the due date is in seconds.
DueInSeconds(ivl, t) == t + ivl * Day

\* The due date of an answer whose interval is ivl, by the clock t.
DueAfter(ivl, t) == DayOffset(t) + ivl

\* AnswerCard computes the due date, from a second look at the clock.
SetDue(p) ==
  /\ pc[p] = "day"
  /\ answer' = [answer EXCEPT ![p].row.due = DueAfter(answer[p].row.ivl, now)]
  /\ pc' = [pc EXCEPT ![p] = "store"]
  /\ UNCHANGED <<now, card, memory, revlog, history>>

Return(p) ==
  /\ pc' = [pc EXCEPT ![p] = "idle"]
  /\ answer' = [answer EXCEPT ![p] = NoAnswer]

\* The log row of an answer; its id is the time and a random number.
LogRow(a, r) == [id |-> <<a.at, r>>, cid |-> a.id, ivl |-> LogIvl(a.row.ivl)]

\* Mutant: no transaction, and the log row is inserted after the card.
StoreUnlogged(p) ==
  LET a == answer[p] IN
  /\ pc[p] = "store" /\ Cardinality(revlog) < MaxReviews
  /\ \E r \in 0..1 :
       revlog' = IF <<a.at, r>> \in {l.id : l \in revlog} THEN revlog
                 ELSE revlog \cup {LogRow(a, r)}
  /\ card' = [card EXCEPT ![a.id] = a.row]
  /\ memory' = [memory EXCEPT ![a.id] = IF HasMemory THEN a.row.reps ELSE @]
  /\ history' = [history EXCEPT ![a.id] = [answered |-> a.at, stored |-> now]]
  /\ Return(p)
  /\ UNCHANGED now

\* The row of the card, its columns and the log row in one transaction, which a
\* log row of the same id makes fail.
Store(p) ==
  LET a == answer[p] IN
  /\ pc[p] = "store" /\ Cardinality(revlog) < MaxReviews
  /\ \E r \in 0..1 :
       /\ <<a.at, r>> \notin {l.id : l \in revlog}
       /\ revlog' = revlog \cup {LogRow(a, r)}
  /\ card' = [card EXCEPT ![a.id] = a.row]
  /\ memory' = [memory EXCEPT ![a.id] = IF HasMemory THEN a.row.reps ELSE @]
  /\ history' = [history EXCEPT ![a.id] = [answered |-> a.at, stored |-> now]]
  /\ Return(p)
  /\ UNCHANGED now

\* Any call fails, the transaction is rolled back: the answer is lost.
Fail(p) ==
  /\ pc[p] # "idle"
  /\ Return(p)
  /\ UNCHANGED <<now, card, memory, revlog, history>>

Tick ==
  /\ now < MaxTime
  /\ now' = now + 1
  /\ UNCHANGED <<card, memory, revlog, pc, answer, history>>

-----------------------------------------------------------------------------

Init ==
  /\ now = crt
  /\ card = [c \in Cards |-> IF c \in DOMAIN Imported THEN NewRow(Imported[c]) ELSE NoCard]
  /\ memory = [c \in Cards |-> NoMemory]
  /\ revlog = {}
  /\ pc = [p \in Procs |-> "idle"]
  /\ answer = [p \in Procs |-> NoAnswer]
  /\ history = [c \in Cards |-> [answered |-> crt, stored |-> crt]]

Next ==
  \/ Tick
  \/ \E c \in Cards : AddNote(c)
  \/ \E p \in Procs :
       \/ \E c \in Cards : Schedule(p, c)
       \/ SetDue(p) \/ Store(p) \/ Fail(p)

Spec == Init /\ [][Next]_vars

-----------------------------------------------------------------------------
(* Properties                                                               *)

(* A card in review is not offered before its interval has passed since the *)
(* day of the answer, although AnswerCard writes the due date in two steps  *)
(* (the sentinel) and midnight may pass between its two looks at the clock. *)
NeverEarly ==
  \A c \in Stored : card[c].type = "review" /\ Due(c) =>
    DayOffset(now) - DayOffset(history[c].answered) >= card[c].ivl

(* A card in review is offered once its interval has passed since the day   *)
(* the answer was stored: the two looks at the clock, and processes that    *)
(* answer the same card, cost no more than that.                            *)
NeverLate ==
  \A c \in Stored :
    card[c].type = "review" /\ DayOffset(now) >= DayOffset(history[c].stored) + card[c].ivl
      => Due(c)

(* A card in learning or relearning is offered from the moment its answer   *)
(* is stored: its queue is the one whose due dates are in seconds.          *)
StepsOffered ==
  \A c \in Stored : card[c].type \in {"learning", "relearning"} => Due(c)

(* When GetDueCards offers a new card, which is selected by comparing its   *)
(* position with days: one that AddNote has made always, as its position is *)
(* the day it was made; one that came with the collection from the day on   *)
(* that its position numbers, and not before, although its position is said *)
(* to be "always <= dayCutoff as it grows" (collection.go:201).             *)
OfferedFrom ==
  \A c \in Stored : card[c].type = "new" =>
    (Due(c) <=> (c \in DOMAIN Imported => Imported[c] <= DayOffset(now)))

(* The log accounts for every review that a card counts, and for the         *)
(* interval it was given last: card and log row are stored together or not  *)
(* at all, even when the ids of two rows collide or two processes answer     *)
(* the card (then the log may hold a review that the card does not count).   *)
LogAccounts ==
  \A c \in Stored :
    LET rows == {l \in revlog : l.cid = c}
    IN /\ Cardinality(rows) >= card[c].reps
       /\ card[c].reps > 0 =>
            \E l \in rows : l.ivl = LogIvl(card[c].ivl) /\ l.id[1] = history[c].answered

(* "Set stability and difficulty if available" (scheduler.go:97): an answer *)
(* is computed from the memory state that the card's last review stored.    *)
MemoryKept ==
  \A p \in Procs : pc[p] # "idle" => answer[p].given = memory[answer[p].id]
-----------------------------------------------------------------------------
(***************************************************************************)
(* The inductive invariant behind NeverEarly, NeverLate and StepsOffered.   *)
(***************************************************************************)

\* A row answered at time at, whose due date was computed at time by.
Timely(row, at, by) ==
  /\ row.queue = Queue[row.type]
  /\ row.type = "review" =>
       /\ DayOffset(at) + row.ivl <= row.due
       /\ row.due <= DayOffset(by) + row.ivl
  /\ row.type \in {"learning", "relearning"} => row.due <= by

CardsTimely ==
  /\ \A c \in Stored : Timely(card[c], history[c].answered, history[c].stored)
  /\ \A c \in Cards : history[c].stored <= now

AnswersTimely ==
  \A p \in Procs :
    /\ pc[p] # "idle" => crt <= answer[p].at /\ answer[p].at <= now
    /\ pc[p] = "day" => answer[p].row.type = "review" /\ answer[p].row.queue = 2
    /\ pc[p] = "store" =>
         answer[p].row.due # Sentinel /\ Timely(answer[p].row, answer[p].at, now)

IInv == TypeOK /\ crt <= now /\ CardsTimely /\ AnswersTimely
=============================================================================
