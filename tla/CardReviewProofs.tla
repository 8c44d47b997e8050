-------------------------- MODULE CardReviewProofs --------------------------
(***************************************************************************)
(* Cards come up when they should, for every length of the day, every        *)
(* interval FSRS may choose and any number of processes and cards.           *)
(*                                                                          *)
(* The argument: a due date in days lies between the interval counted from  *)
(* the day of the answer and counted from the day it is stored, because the *)
(* clock is read in between (Timely); DayOffset is monotone, so the two     *)
(* bounds decide when GetDueCards selects the card.                         *)
(*                                                                          *)
(* A new card keeps the day it was made as its position (NewInv), and the   *)
(* log grows by a row whenever a card counts a review more (LogInv).        *)
(***************************************************************************)
EXTENDS CardReview, FiniteSetTheorems, TLAPS

(* Days are counted upwards from the creation of the collection.            *)
LEMMA DayOffsetInt ==
  ASSUME NEW t \in Nat
  PROVE  DayOffset(t) \in Int /\ (crt <= t => DayOffset(t) >= 0)
BY TimeAssumption DEF DayOffset

LEMMA DayOffsetMonotone ==
  ASSUME NEW s \in Nat, NEW t \in Nat, s <= t
  PROVE  DayOffset(s) <= DayOffset(t)
<1> DEFINE q == (s - crt) \div Day
           r == (t - crt) \div Day
<1>1. Day \in Nat \ {0} /\ s - crt \in Int /\ t - crt \in Int
  BY TimeAssumption
<1>2. q \in Int /\ Day * q <= s - crt /\ s - crt < Day * q + Day
  BY <1>1
<1>3. r \in Int /\ Day * r <= t - crt /\ t - crt < Day * r + Day
  BY <1>1
<1> HIDE DEF q, r
<1>4. ~(r < q)
  <2> SUFFICES ASSUME r + 1 <= q PROVE FALSE
    BY <1>2, <1>3
  <2>1. Day * (r + 1) <= Day * q
    BY <1>1, <1>2, <1>3
  <2>2. Day * (r + 1) = Day * r + Day
    BY <1>1, <1>3
  <2>3. Day * q \in Int /\ Day * r \in Int /\ Day * r + Day <= Day * q
    BY <1>1, <1>2, <1>3, <2>1, <2>2
  <2> DEFINE x == Day * q
             y == Day * r
  <2>4. x \in Int /\ y \in Int /\ y + Day <= x /\ x <= s - crt /\ t - crt < y + Day
    BY <1>2, <1>3, <2>3
  <2> HIDE DEF x, y
  <2> QED
    BY <1>1, <2>4, TimeAssumption
<1> QED
  BY <1>2, <1>3, <1>4 DEF DayOffset, q, r

(* A row stays timely while the clock runs on.                               *)
LEMMA TimelyLater ==
  ASSUME NEW row \in Card, NEW at \in Nat, NEW by \in Nat, NEW later \in Nat,
         Timely(row, at, by), by <= later
  PROVE  Timely(row, at, later)
<1>1. /\ DayOffset(by) \in Int /\ DayOffset(later) \in Int
      /\ DayOffset(by) <= DayOffset(later)
  BY DayOffsetInt, DayOffsetMonotone
<1>2. row.due \in Int /\ row.ivl \in Nat
  BY DEF Card
<1> QED
  BY <1>1, <1>2 DEF Timely

LEMMA NewRowTimely ==
  ASSUME NEW due \in Int, NEW at, NEW by
  PROVE  /\ NewRow(due) \in Card /\ NewRow(due).due = due
         /\ Timely(NewRow(due), at, by)
BY DEF NewRow, Card, States, Timely, Queue

(* What the scheduler makes of a card.                                       *)
LEMMA ToAnkiRow ==
  ASSUME NEW row \in Card, NEW rating \in Ratings, NEW t \in Nat,
         NEW days \in ScheduledDays(NextState(row.type, rating))
  PROVE  LET state == NextState(row.type, rating)
             new == ToAnki(row, state, days, t)
         IN  /\ new \in Card
             /\ NeedsDayOffset(new) => new.type = "review" /\ new.queue = 2
             /\ ~NeedsDayOffset(new) => new.due # Sentinel /\ Timely(new, t, t)
<1> DEFINE state == NextState(row.type, rating)
           new == ToAnki(row, state, days, t)
<1>1. state \in States \ {"new"} /\ days \in Nat
  <2>1. row.type \in States
    BY DEF Card
  <2>2. state \in States \ {"new"}
    BY <2>1 DEF NextState, States, Ratings
  <2> QED
    BY <2>2, BoundsAssumption DEF ScheduledDays
<1> HIDE DEF state
<1>2. /\ new.type = state /\ new.queue = Queue[state] /\ new.ivl = days
      /\ new.due = (IF state = "review" THEN Sentinel ELSE t)
      /\ new.reps = row.reps + 1
  BY DEF ToAnki, Card
<1>3. new \in Card
  <2>1. Queue[state] \in 0..3 /\ row.reps + 1 \in Nat
    BY <1>1 DEF Queue, States, Card
  <2> DEFINE due == IF state = "review" THEN Sentinel ELSE t
             queue == Queue[state]
             reps == row.reps + 1
  <2>2. state \in States /\ due \in Int /\ queue \in 0..3 /\ reps \in Nat
    BY <1>1, <2>1 DEF Sentinel
  <2>3. new = [row EXCEPT !.type = state, !.queue = queue, !.ivl = days,
                          !.reps = reps, !.due = due]
    BY DEF ToAnki
  <2> HIDE DEF due, queue, reps, new
  <2> QED
    BY <1>1, <2>2, <2>3 DEF Card
<1> HIDE DEF new
<1>4. NeedsDayOffset(new) => new.type = "review" /\ new.queue = 2
  BY <1>2 DEF NeedsDayOffset, Queue
<1>5. ASSUME ~NeedsDayOffset(new) PROVE new.due # Sentinel /\ Timely(new, t, t)
  <2>1. state # "review" /\ new.due = t
    BY <1>2, <1>5 DEF NeedsDayOffset, Sentinel
  <2> QED
    BY <1>1, <1>2, <2>1 DEF Timely, Sentinel
<1> QED
  BY <1>3, <1>4, <1>5 DEF new, state

-----------------------------------------------------------------------------
(* The invariant                                                            *)

LEMMA InitInv == Init => IInv
<1> SUFFICES ASSUME Init PROVE IInv
  OBVIOUS
<1>1. now = crt /\ crt \in Nat /\ crt <= now
  BY TimeAssumption DEF Init
<1>2. \A c \in Stored : /\ c \in DOMAIN Imported /\ card[c] = NewRow(Imported[c])
                        /\ Imported[c] \in Nat
  BY ImportedAssumption DEF Init, Stored
<1>3. \A c \in Cards : card[c] \in Card \cup {NoCard}
  BY <1>2, NewRowTimely DEF Stored
<1>4. card \in [Cards -> Card \cup {NoCard}]
  BY <1>3 DEF Init
<1>5. \A c \in Stored : card[c].due # Sentinel
  BY <1>2, NewRowTimely DEF Sentinel
<1>6. TypeOK
  BY <1>1, <1>4, <1>5 DEF Init, TypeOK, NoMemory
<1>7. CardsTimely
  <2> SUFFICES ASSUME NEW c \in Stored
               PROVE  Timely(card[c], history[c].answered, history[c].stored)
    BY <1>1 DEF CardsTimely, Init
  <2>1. Timely(card[c], history[c].answered, history[c].stored)
    BY <1>2, NewRowTimely
  <2> QED
    BY <2>1
<1>8. AnswersTimely
  BY DEF Init, AnswersTimely
<1> QED
  BY <1>1, <1>6, <1>7, <1>8 DEF IInv

(* Steps that leave the rows alone keep them timely.                         *)
LEMMA SameCards ==
  ASSUME IInv, UNCHANGED <<card, history>>, now' \in Nat, now <= now'
  PROVE  CardsTimely' /\ Stored' = Stored
<1>1. Stored' = Stored
  BY DEF Stored
<1>2. \A c \in Stored : history[c].stored \in Nat
  BY DEF IInv, TypeOK, Stored
<1> QED
  BY <1>1, <1>2 DEF IInv, TypeOK, CardsTimely

LEMMA AddNoteInv ==
  ASSUME IInv, NEW c \in Cards, AddNote(c)
  PROVE  IInv'
<1>1. /\ card[c] = NoCard
      /\ card' = [card EXCEPT ![c] = NewRow(DayOffset(now))]
      /\ UNCHANGED <<now, memory, revlog, pc, answer, history>>
  BY DEF AddNote
<1>2. now \in Nat /\ crt <= now
  BY DEF IInv, TypeOK
<1>3. DayOffset(now) \in Int /\ DayOffset(now) # Sentinel
  BY <1>2, DayOffsetInt DEF Sentinel
<1> DEFINE row == NewRow(DayOffset(now))
<1>4. row \in Card /\ row.due # Sentinel /\ \A at, by : Timely(row, at, by)
  BY <1>3, NewRowTimely
<1> HIDE DEF row
<1>5. card'[c] = row /\ \A d \in Cards \ {c} : card'[d] = card[d]
  BY <1>1 DEF IInv, TypeOK, row
<1>6. Stored' \subseteq Stored \cup {c}
  BY <1>5 DEF Stored
<1>7. card' \in [Cards -> Card \cup {NoCard}]
  BY <1>1, <1>4 DEF IInv, TypeOK, row
<1>8. \A d \in Stored' : card'[d].due # Sentinel
  BY <1>4, <1>5, <1>6 DEF IInv, TypeOK, Stored
<1>9. TypeOK'
  BY <1>1, <1>7, <1>8 DEF IInv, TypeOK
<1>10. CardsTimely'
  BY <1>1, <1>4, <1>5, <1>6 DEF IInv, CardsTimely, Stored
<1>11. AnswersTimely'
  BY <1>1 DEF IInv, AnswersTimely
<1> QED
  BY <1>1, <1>9, <1>10, <1>11 DEF IInv

LEMMA ScheduleInv ==
  ASSUME IInv, NEW p \in Procs, NEW c \in Cards, Schedule(p, c)
  PROVE  IInv'
<1>1. pc[p] = "idle" /\ c \in Stored /\ UNCHANGED <<now, card, memory, revlog, history>>
  BY DEF Schedule
<1>2. card[c] \in Card /\ now \in Nat
  BY <1>1 DEF IInv, TypeOK, Stored
<1> DEFINE Answered(rating, days) ==
             LET row == ToAnki(card[c], NextState(card[c].type, rating), days, now)
             IN /\ answer' = [answer EXCEPT ![p] =
                     [id |-> c, row |-> row, at |-> now, given |-> MemoryRead(c)]]
                /\ pc' = [pc EXCEPT ![p] = IF NeedsDayOffset(row) THEN "day" ELSE "store"]
<1>r. PICK rating \in Ratings :
        \E days \in ScheduledDays(NextState(card[c].type, rating)) : Answered(rating, days)
  BY DEF Schedule
<1>d. PICK days \in ScheduledDays(NextState(card[c].type, rating)) : Answered(rating, days)
  BY <1>r
<1> DEFINE row == ToAnki(card[c], NextState(card[c].type, rating), days, now)
           new == [id |-> c, row |-> row, at |-> now, given |-> MemoryRead(c)]
<1>4. /\ row \in Card
      /\ NeedsDayOffset(row) => row.type = "review" /\ row.queue = 2
      /\ ~NeedsDayOffset(row) => row.due # Sentinel /\ Timely(row, now, now)
  BY <1>2, ToAnkiRow
<1> HIDE DEF row
<1>5. new \in Answer
  BY <1>2, <1>4 DEF Answer, MemoryRead, NoMemory
<1>6. /\ answer'[p] = new /\ pc'[p] = IF NeedsDayOffset(row) THEN "day" ELSE "store"
      /\ \A q \in Procs \ {p} : answer'[q] = answer[q] /\ pc'[q] = pc[q]
  BY <1>d DEF IInv, TypeOK, row
<1>7. new.row = row /\ new.at = now
  OBVIOUS
<1>8. /\ answer' \in [Procs -> Answer \cup {NoAnswer}]
      /\ pc' \in [Procs -> {"idle", "day", "store"}]
  BY <1>d, <1>5 DEF IInv, TypeOK, row
<1> HIDE DEF new
<1>9. TypeOK'
  BY <1>1, <1>5, <1>6, <1>8, SameCards DEF IInv, TypeOK
<1>10. AnswersTimely'
  <2>1. \A q \in Procs \ {p} :
          /\ pc'[q] # "idle" => crt <= answer'[q].at /\ answer'[q].at <= now
          /\ pc'[q] = "day" => answer'[q].row.type = "review" /\ answer'[q].row.queue = 2
          /\ pc'[q] = "store" =>
               answer'[q].row.due # Sentinel /\ Timely(answer'[q].row, answer'[q].at, now)
    BY <1>6 DEF IInv, AnswersTimely
  <2>2. /\ crt <= answer'[p].at /\ answer'[p].at <= now
        /\ pc'[p] = "day" => answer'[p].row.type = "review" /\ answer'[p].row.queue = 2
        /\ pc'[p] = "store" =>
             answer'[p].row.due # Sentinel /\ Timely(answer'[p].row, answer'[p].at, now)
    BY <1>2, <1>4, <1>6, <1>7 DEF IInv
  <2> QED
    BY <1>1, <2>1, <2>2 DEF AnswersTimely
<1>11. CardsTimely'
  BY <1>1, <1>2, SameCards
<1> QED
  BY <1>1, <1>9, <1>10, <1>11 DEF IInv

LEMMA SetDueInv ==
  ASSUME IInv, NEW p \in Procs, SetDue(p)
  PROVE  IInv'
<1> DEFINE old == answer[p].row
           due == DueAfter(old.ivl, now)
           row == [old EXCEPT !.due = due]
           new == [answer[p] EXCEPT !.row = row]
<1>1. /\ pc[p] = "day" /\ UNCHANGED <<now, card, memory, revlog, history>>
      /\ answer' = [answer EXCEPT ![p].row.due = due]
      /\ pc' = [pc EXCEPT ![p] = "store"]
  BY DEF SetDue
<1>2. /\ answer[p] \in Answer /\ old \in Card /\ answer[p].at \in Nat
      /\ now \in Nat /\ crt <= now
      /\ crt <= answer[p].at /\ answer[p].at <= now
      /\ old.type = "review" /\ old.queue = 2 /\ old.ivl \in Nat
  BY <1>1 DEF IInv, TypeOK, AnswersTimely, Answer, Card
<1>3. /\ DayOffset(now) \in Int /\ DayOffset(now) >= 0
      /\ DayOffset(answer[p].at) \in Int /\ DayOffset(answer[p].at) <= DayOffset(now)
  BY <1>2, DayOffsetInt, DayOffsetMonotone
<1>4. due = DayOffset(now) + old.ivl /\ due \in Int /\ due # Sentinel
  BY <1>2, <1>3 DEF DueAfter, Sentinel
<1> HIDE DEF due
<1>5. /\ row \in Card /\ row.type = "review" /\ row.queue = 2
      /\ row.ivl = old.ivl /\ row.due = due
  BY <1>2, <1>4 DEF Card
<1>6. Timely(row, answer[p].at, now)
  BY <1>2, <1>3, <1>4, <1>5 DEF Timely, Queue
<1>7. new \in Answer /\ new.row = row /\ new.at = answer[p].at
  BY <1>2, <1>5 DEF Answer
<1>8. answer' = [answer EXCEPT ![p] = new]
  BY <1>1
<1> HIDE DEF old, row, new
<1>9. /\ answer'[p] = new /\ pc'[p] = "store"
      /\ \A q \in Procs \ {p} : answer'[q] = answer[q] /\ pc'[q] = pc[q]
  BY <1>1, <1>8 DEF IInv, TypeOK
<1>10. /\ answer' \in [Procs -> Answer \cup {NoAnswer}]
       /\ pc' \in [Procs -> {"idle", "day", "store"}]
  BY <1>1, <1>7, <1>8 DEF IInv, TypeOK
<1>11. TypeOK'
  BY <1>1, <1>7, <1>9, <1>10, SameCards DEF IInv, TypeOK
<1>12. AnswersTimely'
  BY <1>1, <1>2, <1>4, <1>5, <1>6, <1>7, <1>9 DEF IInv, AnswersTimely
<1>13. CardsTimely'
  BY <1>1, <1>2, SameCards
<1> QED
  BY <1>1, <1>11, <1>12, <1>13 DEF IInv

(* An answer is stored or lost, and its process is idle again.               *)
LEMMA ReturnKeeps ==
  ASSUME IInv, NEW p \in Procs, Return(p), now' = now
  PROVE  /\ AnswersTimely'
         /\ pc' \in [Procs -> {"idle", "day", "store"}]
         /\ answer' \in [Procs -> Answer \cup {NoAnswer}]
         /\ \A q \in Procs : pc'[q] = "idle" \/ answer'[q] \in Answer
<1>1. /\ pc'[p] = "idle"
      /\ \A q \in Procs \ {p} : answer'[q] = answer[q] /\ pc'[q] = pc[q]
  BY DEF Return, IInv, TypeOK
<1>2. AnswersTimely'
  BY <1>1 DEF IInv, AnswersTimely
<1> QED
  BY <1>1, <1>2 DEF Return, IInv, TypeOK

LEMMA StoreInv ==
  ASSUME IInv, NEW p \in Procs, Store(p)
  PROVE  IInv'
<1> DEFINE a == answer[p]
<1>1. /\ pc[p] = "store" /\ Return(p) /\ now' = now
      /\ card' = [card EXCEPT ![a.id] = a.row]
      /\ memory' = [memory EXCEPT ![a.id] = IF HasMemory THEN a.row.reps ELSE @]
      /\ history' = [history EXCEPT ![a.id] = [answered |-> a.at, stored |-> now]]
  BY DEF Store
<1>2. PICK r \in 0..1 : revlog' = revlog \cup {LogRow(a, r)}
  BY DEF Store
<1>3. /\ a \in Answer /\ a.id \in Cards /\ a.row \in Card /\ a.at \in Nat /\ now \in Nat
      /\ a.row.due # Sentinel /\ Timely(a.row, a.at, now)
      /\ a.row.reps \in Nat /\ a.row.ivl \in Nat
  BY <1>1 DEF IInv, TypeOK, AnswersTimely, Answer, Card
<1> HIDE DEF a
<1>4. LogRow(a, r) \in ReviewLog
  <2>1. LogIvl(a.row.ivl) \in Int
    BY <1>3 DEF LogIvl
  <2>2. <<a.at, r>> \in Nat \X (0..1)
    BY <1>3
  <2> QED
    BY <1>3, <2>1, <2>2 DEF LogRow, ReviewLog
<1>5. revlog' \subseteq ReviewLog
  BY <1>2, <1>4 DEF IInv, TypeOK
<1>6. /\ card'[a.id] = a.row /\ history'[a.id] = [answered |-> a.at, stored |-> now]
      /\ \A c \in Cards \ {a.id} : card'[c] = card[c] /\ history'[c] = history[c]
  BY <1>1, <1>3 DEF IInv, TypeOK
<1>7. /\ card' \in [Cards -> Card \cup {NoCard}]
      /\ memory' \in [Cards -> Nat]
      /\ history' \in [Cards -> [answered : Nat, stored : Nat]]
  BY <1>1, <1>3 DEF IInv, TypeOK
<1>8. Stored' \subseteq Stored \cup {a.id}
  BY <1>6 DEF Stored
<1>9. \A c \in Stored' : card'[c].due # Sentinel
  BY <1>3, <1>6, <1>8 DEF IInv, TypeOK, Stored
<1>10. TypeOK'
  BY <1>1, <1>5, <1>7, <1>9, ReturnKeeps DEF IInv, TypeOK
<1>11. CardsTimely'
  BY <1>1, <1>3, <1>6, <1>8 DEF IInv, CardsTimely, Stored
<1> QED
  BY <1>1, <1>10, <1>11, ReturnKeeps DEF IInv

LEMMA FailInv ==
  ASSUME IInv, NEW p \in Procs, Fail(p)
  PROVE  IInv'
<1>1. Return(p) /\ UNCHANGED <<now, card, memory, revlog, history>>
  BY DEF Fail
<1>2. TypeOK'
  BY <1>1, ReturnKeeps DEF IInv, TypeOK, Stored
<1>3. CardsTimely'
  BY <1>1, SameCards DEF IInv, TypeOK
<1> QED
  BY <1>1, <1>2, <1>3, ReturnKeeps DEF IInv

LEMMA TickInv ==
  ASSUME IInv, Tick
  PROVE  IInv'
<1>1. now' = now + 1 /\ UNCHANGED <<card, memory, revlog, pc, answer, history>>
  BY DEF Tick
<1>2. now \in Nat /\ now' \in Nat /\ now <= now' /\ crt <= now'
  BY <1>1, TimeAssumption DEF IInv, TypeOK
<1>3. TypeOK'
  BY <1>1, <1>2 DEF IInv, TypeOK, Stored
<1>4. CardsTimely'
  BY <1>1, <1>2, SameCards
<1>5. AnswersTimely'
  <2> SUFFICES ASSUME NEW p \in Procs
               PROVE  /\ pc[p] # "idle" => crt <= answer[p].at /\ answer[p].at <= now'
                      /\ pc[p] = "day" =>
                           answer[p].row.type = "review" /\ answer[p].row.queue = 2
                      /\ pc[p] = "store" =>
                           answer[p].row.due # Sentinel /\ Timely(answer[p].row, answer[p].at, now')
    BY <1>1 DEF AnswersTimely
  <2>1. pc[p] # "idle" =>
          answer[p].row \in Card /\ answer[p].at \in Nat /\ answer[p].at <= now
    BY DEF IInv, TypeOK, AnswersTimely, Answer
  <2>2. pc[p] = "store" => Timely(answer[p].row, answer[p].at, now')
    BY <1>2, <2>1, TimelyLater DEF IInv, AnswersTimely
  <2> QED
    BY <1>2, <2>1, <2>2 DEF IInv, AnswersTimely
<1> QED
  BY <1>2, <1>3, <1>4, <1>5 DEF IInv

(* IInv holds initially and every step preserves it. *)
THEOREM InductiveInvariant == Spec => []IInv
<1>1. IInv /\ [Next]_vars => IInv'
  <2> SUFFICES ASSUME IInv, [Next]_vars PROVE IInv'
    OBVIOUS
  <2>1. CASE Tick
    BY <2>1, TickInv
  <2>2. ASSUME NEW c \in Cards, AddNote(c) PROVE IInv'
    BY <2>2, AddNoteInv
  <2>3. ASSUME NEW p \in Procs, NEW c \in Cards, Schedule(p, c) PROVE IInv'
    BY <2>3, ScheduleInv
  <2>4. ASSUME NEW p \in Procs, SetDue(p) PROVE IInv'
    BY <2>4, SetDueInv
  <2>5. ASSUME NEW p \in Procs, Store(p) PROVE IInv'
    BY <2>5, StoreInv
  <2>6. ASSUME NEW p \in Procs, Fail(p) PROVE IInv'
    BY <2>6, FailInv
  <2>7. CASE UNCHANGED vars
    BY <2>7 DEF vars, IInv, TypeOK, CardsTimely, AnswersTimely, Stored
  <2> QED
    BY <2>1, <2>2, <2>3, <2>4, <2>5, <2>6, <2>7 DEF Next
<1> QED
  BY InitInv, <1>1, PTL DEF Spec

-----------------------------------------------------------------------------
(* The properties                                                           *)

(* The facts about a stored card that decide whether it is due.              *)
LEMMA StoredFacts ==
  ASSUME IInv, NEW c \in Stored
  PROVE  /\ c \in Cards /\ card[c] \in Card /\ card[c].due \in Int /\ card[c].ivl \in Nat
         /\ Timely(card[c], history[c].answered, history[c].stored)
         /\ history[c].stored <= now /\ now \in Nat
         /\ DayOffset(now) \in Int
         /\ DayOffset(history[c].answered) \in Int /\ DayOffset(history[c].stored) \in Int
<1>1. c \in Cards /\ card[c] \in Card /\ now \in Nat
  BY DEF IInv, TypeOK, Stored
<1>2. history[c].answered \in Nat /\ history[c].stored \in Nat
  BY <1>1 DEF IInv, TypeOK
<1>3. card[c].due \in Int /\ card[c].ivl \in Nat
  BY <1>1 DEF Card
<1> QED
  BY <1>1, <1>2, <1>3, DayOffsetInt DEF IInv, CardsTimely

(***************************************************************************)
(* AnswerCard, GetDueCards: a card in review comes up no earlier than its   *)
(* interval says, counted from the day of the answer ...                    *)
(***************************************************************************)
THEOREM NotEarly == Spec => []NeverEarly
<1>1. IInv => NeverEarly
  <2> SUFFICES ASSUME IInv, NEW c \in Stored, card[c].type = "review", Due(c)
               PROVE  DayOffset(now) - DayOffset(history[c].answered) >= card[c].ivl
    BY DEF NeverEarly
  <2>1. card[c].queue = 2
    BY StoredFacts DEF Timely, Queue
  <2>2. card[c].due <= DayOffset(now)
    BY <2>1 DEF Due
  <2> QED
    BY <2>2, StoredFacts DEF Timely
<1> QED
  BY <1>1, InductiveInvariant, PTL

(***************************************************************************)
(* ... and no later than it says counted from the day it was stored.        *)
(***************************************************************************)
THEOREM NotLate == Spec => []NeverLate
<1>1. IInv => NeverLate
  <2> SUFFICES ASSUME IInv, NEW c \in Stored, card[c].type = "review",
                      DayOffset(now) >= DayOffset(history[c].stored) + card[c].ivl
               PROVE  Due(c)
    BY DEF NeverLate
  <2>1. card[c].queue = 2
    BY StoredFacts DEF Timely, Queue
  <2>2. card[c].due <= DayOffset(now)
    BY StoredFacts DEF Timely
  <2> QED
    BY <2>1, <2>2 DEF Due
<1> QED
  BY <1>1, InductiveInvariant, PTL

(***************************************************************************)
(* fsrsCardToAnki, GetDueCards: cards in learning and relearning come up at *)
(* once, their queue and the unit of their due date agree.                  *)
(***************************************************************************)
THEOREM StepsOfferedAlways == Spec => []StepsOffered
<1>1. IInv => StepsOffered
  <2> SUFFICES ASSUME IInv, NEW c \in Stored, card[c].type \in {"learning", "relearning"}
               PROVE  Due(c)
    BY DEF StepsOffered
  <2>1. card[c].queue = 1
    BY StoredFacts DEF Timely, Queue
  <2>2. history[c].stored \in Nat
    BY StoredFacts DEF IInv, TypeOK
  <2>3. card[c].due <= now
    BY <2>2, StoredFacts DEF Timely
  <2> QED
    BY <2>1, <2>3 DEF Due
<1> QED
  BY <1>1, InductiveInvariant, PTL

(***************************************************************************)
(* The types of the rows, the log and the answers on their way.             *)
(***************************************************************************)
THEOREM TypeCorrect == Spec => []TypeOK
<1>1. IInv => TypeOK
  BY DEF IInv
<1> QED
  BY <1>1, InductiveInvariant, PTL

-----------------------------------------------------------------------------
(* New cards                                                                *)

\* A new card keeps the position that it came with, or the day it was made, and
\* no answer makes one new.
NewInv ==
  /\ DOMAIN Imported \subseteq Stored
  /\ \A c \in Stored : card[c].type = "new" =>
       /\ card[c].queue = 0
       /\ IF c \in DOMAIN Imported THEN card[c].due = Imported[c] ELSE card[c].due <= DayOffset(now)
  /\ \A p \in Procs : pc[p] # "idle" => answer[p].row.type # "new"

LEMMA NewKept ==
  ASSUME IInv, IInv', NewInv, [Next]_vars
  PROVE  NewInv'
<1>0. /\ now \in Nat /\ DayOffset(now) \in Int
      /\ \A c \in Stored : c \in Cards /\ card[c] \in Card /\ card[c].due \in Int
      /\ answer \in [Procs -> Answer \cup {NoAnswer}] /\ pc \in [Procs -> {"idle", "day", "store"}]
      /\ card \in [Cards -> Card \cup {NoCard}]
  <2>1. now \in Nat
    BY DEF IInv, TypeOK
  <2> QED
    BY <2>1, DayOffsetInt DEF IInv, TypeOK, Stored, Card
<1>1. CASE Tick
  <2>1. now' = now + 1 /\ UNCHANGED <<card, pc, answer>>
    BY <1>1 DEF Tick
  <2>2. DayOffset(now') \in Int /\ DayOffset(now) <= DayOffset(now')
    BY <1>0, <2>1, DayOffsetInt, DayOffsetMonotone
  <2>3. Stored' = Stored
    BY <2>1 DEF Stored
  <2> QED
    BY <1>0, <2>1, <2>2, <2>3 DEF NewInv
<1>2. ASSUME NEW c \in Cards, AddNote(c) PROVE NewInv'
  <2>1. /\ card' = [card EXCEPT ![c] = NewRow(DayOffset(now))]
        /\ UNCHANGED <<now, pc, answer>>
    BY <1>2 DEF AddNote
  <2>2. card'[c].queue = 0 /\ card'[c].due = DayOffset(now) /\ c \notin DOMAIN Imported
    BY <1>0, <1>2, <2>1 DEF NewRow, AddNote, NewInv, Stored
  <2>3. card'[c] # NoCard
    BY <2>2 DEF NoCard
  <2>4. \A d \in Stored : d \in Stored'
    BY <1>0, <2>1, <2>3 DEF Stored
  <2>5. \A d \in Stored' : d = c \/ (d \in Stored /\ card'[d] = card[d])
    BY <1>0, <2>1 DEF Stored
  <2>6. (DOMAIN Imported \subseteq Stored)'
    BY <2>4 DEF NewInv
  <2>7. ASSUME NEW d \in Stored', card'[d].type = "new"
        PROVE  /\ card'[d].queue = 0
               /\ IF d \in DOMAIN Imported THEN card'[d].due = Imported[d]
                  ELSE card'[d].due <= DayOffset(now)
    <3>1. CASE d = c
      BY <1>0, <2>2, <3>1
    <3>2. CASE d \in Stored /\ card'[d] = card[d]
      BY <2>7, <3>2 DEF NewInv
    <3> QED
      BY <2>5, <3>1, <3>2
  <2>8. now' = now /\ pc' = pc /\ answer' = answer
    BY <2>1
  <2> QED
    BY <2>6, <2>7, <2>8 DEF NewInv
<1>3. ASSUME NEW p \in Procs, NEW c \in Cards, Schedule(p, c) PROVE NewInv'
  <2>1. UNCHANGED <<now, card>> /\ c \in Stored
    BY <1>3 DEF Schedule
  <2> DEFINE Answered(rating, days) ==
               LET row == ToAnki(card[c], NextState(card[c].type, rating), days, now)
               IN /\ answer' = [answer EXCEPT ![p] =
                       [id |-> c, row |-> row, at |-> now, given |-> MemoryRead(c)]]
                  /\ pc' = [pc EXCEPT ![p] = IF NeedsDayOffset(row) THEN "day" ELSE "store"]
  <2>r. PICK rating \in Ratings :
          \E days \in ScheduledDays(NextState(card[c].type, rating)) : Answered(rating, days)
    BY <1>3 DEF Schedule
  <2>2. PICK days \in ScheduledDays(NextState(card[c].type, rating)) : Answered(rating, days)
    BY <2>r
  <2>3. NextState(card[c].type, rating) # "new"
    <3>1. card[c].type \in States
      BY <1>0, <2>1 DEF Card
    <3> QED
      BY <3>1 DEF NextState, States, Ratings
  <2>4. answer'[p].row.type = NextState(card[c].type, rating)
    BY <1>0, <2>1, <2>2 DEF ToAnki, Card
  <2>5. \A q \in Procs \ {p} : answer'[q] = answer[q] /\ pc'[q] = pc[q]
    BY <2>2, <1>0
  <2>6. Stored' = Stored
    BY <2>1 DEF Stored
  <2> QED
    BY <2>1, <2>3, <2>4, <2>5, <2>6 DEF NewInv
<1>4. ASSUME NEW p \in Procs, SetDue(p) PROVE NewInv'
  <2>1. UNCHANGED <<now, card>> /\ pc[p] = "day"
    BY <1>4 DEF SetDue
  <2>2. \E due : answer' = [answer EXCEPT ![p].row.due = due]
    BY <1>4 DEF SetDue
  <2>3. answer[p] \in Answer /\ answer[p].row \in Card
    BY <2>1 DEF IInv, TypeOK, Answer
  <2>4. answer'[p].row.type = answer[p].row.type
    BY <1>0, <2>2, <2>3 DEF Answer, Card
  <2>5. \A q \in Procs \ {p} : answer'[q] = answer[q] /\ pc'[q] = pc[q]
    BY <1>0, <1>4, <2>2 DEF SetDue
  <2>6. Stored' = Stored
    BY <2>1 DEF Stored
  <2> QED
    BY <2>1, <2>4, <2>5, <2>6 DEF NewInv
<1>5. ASSUME NEW p \in Procs, Return(p), now' = now,
             card' = card \/
               (pc[p] = "store" /\ card' = [card EXCEPT ![answer[p].id] = answer[p].row])
      PROVE  NewInv'
  <2>1. /\ pc'[p] = "idle"
        /\ \A q \in Procs \ {p} : answer'[q] = answer[q] /\ pc'[q] = pc[q]
    BY <1>0, <1>5 DEF Return
  <2>2. \A d \in Stored' :
          \/ d \in Stored /\ card'[d] = card[d]
          \/ pc[p] = "store" /\ card'[d] = answer[p].row
    BY <1>0, <1>5 DEF Stored
  <2>3. \A d \in Stored : d \in Stored'
    <3> SUFFICES ASSUME NEW d \in Stored, card'[d] # card[d] PROVE card'[d] # NoCard
      BY DEF Stored
    <3>1. pc[p] = "store" /\ card'[d] = answer[p].row
      BY <1>0, <1>5
    <3>2. answer[p].row \in Card
      BY <3>1 DEF IInv, TypeOK, Answer
    <3> QED
      BY <3>1, <3>2 DEF Card, NoCard
  <2> QED
    BY <1>5, <2>1, <2>2, <2>3 DEF NewInv
<1>6. CASE UNCHANGED vars
  <2>1. UNCHANGED <<now, card, pc, answer>> /\ Stored' = Stored
    BY <1>6 DEF vars, Stored
  <2> QED
    BY <2>1 DEF NewInv
<1>7. ASSUME NEW p \in Procs, Store(p) PROVE NewInv'
  BY <1>5, <1>7 DEF Store
<1>8. ASSUME NEW p \in Procs, Fail(p) PROVE NewInv'
  BY <1>5, <1>8 DEF Fail
<1> QED
  BY <1>1, <1>2, <1>3, <1>4, <1>6, <1>7, <1>8 DEF Next

LEMMA NewAlways == Spec => []NewInv
<1>1. Init => NewInv
  <2> SUFFICES ASSUME Init PROVE NewInv
    OBVIOUS
  <2>0. \A due : NewRow(due) # NoCard
    <3> SUFFICES ASSUME NEW due PROVE NewRow(due) # NoCard
      OBVIOUS
    <3>1. NewRow(due).queue = 0 /\ NoCard.queue = -1
      BY DEF NewRow, NoCard
    <3> QED
      BY <3>1
  <2>1. Stored = DOMAIN Imported
    <3>1. \A c \in Cards : card[c] = IF c \in DOMAIN Imported THEN NewRow(Imported[c]) ELSE NoCard
      BY DEF Init
    <3>2. \A c \in Cards : c \in Stored <=> c \in DOMAIN Imported
      BY <2>0, <3>1 DEF Stored
    <3> QED
      BY <3>2, ImportedAssumption DEF Stored
  <2>2. \A c \in Stored : card[c].queue = 0 /\ card[c].due = Imported[c]
    BY <2>1 DEF Init, Stored, NewRow
  <2>3. \A p \in Procs : pc[p] = "idle"
    BY DEF Init
  <2> QED
    BY <2>1, <2>2, <2>3 DEF NewInv
<1>2. IInv /\ IInv' /\ NewInv /\ [Next]_vars => NewInv'
  BY NewKept
<1> QED
  BY <1>1, <1>2, InductiveInvariant, PTL DEF Spec

(***************************************************************************)
(* A new card is offered always if AddNote has made it, and if it came with *)
(* the collection from the day on that its position numbers (GetDueCards).  *)
(***************************************************************************)
THEOREM NewOfferedFrom == Spec => []OfferedFrom
<1>1. IInv /\ NewInv => OfferedFrom
  BY DEF NewInv, OfferedFrom, Due
<1> QED
  BY <1>1, NewAlways, InductiveInvariant, PTL

-----------------------------------------------------------------------------
(* The log                                                                  *)

Rows(c) == {l \in revlog : l.cid = c}

\* The reviews the row of an answer counts are those of the card it was
\* computed from, and one more.
LogInv ==
  /\ IsFiniteSet(revlog)
  /\ LogAccounts
  /\ \A p \in Procs : pc[p] # "idle" =>
       answer[p].row.reps <= Cardinality(Rows(answer[p].id)) + 1

LEMMA RowsFinite ==
  ASSUME IsFiniteSet(revlog), NEW c
  PROVE  IsFiniteSet(Rows(c)) /\ Cardinality(Rows(c)) \in Nat
BY FS_Subset, FS_CardinalityType DEF Rows

\* An answer's row takes its place in the log, under an id that was free.
LEMMA Logged ==
  ASSUME IsFiniteSet(revlog), NEW a, NEW r, <<a.at, r>> \notin {l.id : l \in revlog},
         revlog' = revlog \cup {LogRow(a, r)}
  PROVE  /\ IsFiniteSet(revlog')
         /\ Cardinality(Rows(a.id)') = Cardinality(Rows(a.id)) + 1
         /\ LogRow(a, r) \in Rows(a.id)'
         /\ \A c : c # a.id => Rows(c)' = Rows(c)
<1>1. LogRow(a, r).id = <<a.at, r>> /\ LogRow(a, r).cid = a.id
  BY DEF LogRow
<1>2. LogRow(a, r) \notin Rows(a.id)
  BY <1>1 DEF Rows
<1>3. /\ Rows(a.id)' = Rows(a.id) \cup {LogRow(a, r)}
      /\ \A c : c # a.id => Rows(c)' = Rows(c)
  BY <1>1 DEF Rows
<1>4. IsFiniteSet(revlog')
  BY FS_AddElement
<1>5. Cardinality(Rows(a.id)') = Cardinality(Rows(a.id)) + 1
  BY <1>2, <1>3, RowsFinite, FS_AddElement
<1> QED
  BY <1>3, <1>4, <1>5

LEMMA LogKept ==
  ASSUME IInv, LogInv, [Next]_vars
  PROVE  LogInv'
<1>0. /\ now \in Nat
      /\ card \in [Cards -> Card \cup {NoCard}] /\ history \in [Cards -> [answered : Nat, stored : Nat]]
      /\ answer \in [Procs -> Answer \cup {NoAnswer}] /\ pc \in [Procs -> {"idle", "day", "store"}]
      /\ \A c \in Stored : c \in Cards /\ card[c] \in Card /\ card[c].reps \in Nat
      /\ \A c : Cardinality(Rows(c)) \in Nat
  BY RowsFinite DEF IInv, TypeOK, LogInv, Stored, Card
<1>1. \A c \in Stored :
        /\ Cardinality(Rows(c)) >= card[c].reps
        /\ card[c].reps > 0 =>
             \E l \in Rows(c) : l.ivl = LogIvl(card[c].ivl) /\ l.id[1] = history[c].answered
  BY DEF LogInv, LogAccounts, Rows
\* A step that leaves card and log alone.
<1>2. ASSUME UNCHANGED <<card, revlog, history>>,
             \A p \in Procs : pc'[p] # "idle" =>
               answer'[p].row.reps <= Cardinality(Rows(answer'[p].id)) + 1
      PROVE  LogInv'
  <2>1. Stored' = Stored /\ \A c : Rows(c)' = Rows(c)
    BY <1>2 DEF Stored, Rows
  <2>2. LogAccounts'
    BY <1>1, <1>2, <2>1 DEF LogAccounts, Rows
  <2> QED
    BY <1>2, <2>1, <2>2 DEF LogInv
<1>3. CASE Tick
  BY <1>2, <1>3 DEF Tick, LogInv
<1>4. ASSUME NEW c \in Cards, AddNote(c) PROVE LogInv'
  <2>1. /\ card[c] = NoCard
        /\ card' = [card EXCEPT ![c] = NewRow(DayOffset(now))]
        /\ UNCHANGED <<revlog, history, pc, answer>>
    BY <1>4 DEF AddNote
  <2>2. card'[c].reps = 0
    BY <1>0, <2>1 DEF NewRow
  <2>3. \A d \in Stored' : d = c \/ (d \in Stored /\ card'[d] = card[d])
    BY <1>0, <2>1 DEF Stored
  <2>4. \A d : Rows(d)' = Rows(d)
    BY <2>1 DEF Rows
  <2>5. ASSUME NEW d \in Stored'
        PROVE  /\ Cardinality(Rows(d)') >= card'[d].reps
               /\ card'[d].reps > 0 =>
                    \E l \in Rows(d)' : l.ivl = LogIvl(card'[d].ivl) /\ l.id[1] = history'[d].answered
    <3>1. CASE d = c
      <4>1. Cardinality(Rows(d)') \in Nat
        BY <1>0, <2>4
      <4> QED
        BY <2>2, <3>1, <4>1
    <3>2. CASE d \in Stored /\ card'[d] = card[d]
      BY <1>1, <2>1, <2>4, <3>2
    <3> QED
      BY <2>3, <3>1, <3>2
  <2>6. LogAccounts'
    BY <2>5 DEF LogAccounts, Rows
  <2> QED
    BY <2>1, <2>4, <2>6 DEF LogInv
<1>5. ASSUME NEW p \in Procs, NEW c \in Cards, Schedule(p, c) PROVE LogInv'
  <2>1. UNCHANGED <<card, revlog, history>> /\ c \in Stored
    BY <1>5 DEF Schedule
  <2> DEFINE Answered(row) ==
               /\ answer' = [answer EXCEPT ![p] =
                    [id |-> c, row |-> row, at |-> now, given |-> MemoryRead(c)]]
               /\ pc' = [pc EXCEPT ![p] = IF NeedsDayOffset(row) THEN "day" ELSE "store"]
  <2>s. \E rating \in Ratings :
          \E days \in ScheduledDays(NextState(card[c].type, rating)) :
            Answered(ToAnki(card[c], NextState(card[c].type, rating), days, now))
    BY <1>5 DEF Schedule
  <2>a. PICK state, days : Answered(ToAnki(card[c], state, days, now))
    BY <2>s
  <2>2. /\ ToAnki(card[c], state, days, now).reps = card[c].reps + 1
        /\ Answered(ToAnki(card[c], state, days, now))
    BY <1>0, <2>1, <2>a DEF ToAnki, Card
  <2>3. /\ answer'[p].row.reps = card[c].reps + 1 /\ answer'[p].id = c
        /\ \A q \in Procs \ {p} : answer'[q] = answer[q] /\ pc'[q] = pc[q]
    BY <1>0, <2>2
  <2>4. answer'[p].row.reps <= Cardinality(Rows(answer'[p].id)) + 1
    BY <1>0, <1>1, <2>1, <2>3
  <2> QED
    BY <1>2, <2>1, <2>3, <2>4 DEF LogInv
<1>6. ASSUME NEW p \in Procs, SetDue(p) PROVE LogInv'
  <2>1. UNCHANGED <<card, revlog, history>> /\ pc[p] = "day"
    BY <1>6 DEF SetDue
  <2>2. \E due : answer' = [answer EXCEPT ![p].row.due = due]
    BY <1>6 DEF SetDue
  <2>3. answer[p] \in Answer /\ answer[p].row \in Card
    BY <2>1 DEF IInv, TypeOK, Answer
  <2>4. answer'[p].row.reps = answer[p].row.reps /\ answer'[p].id = answer[p].id
    BY <1>0, <2>2, <2>3 DEF Answer, Card
  <2>5. \A q \in Procs \ {p} : answer'[q] = answer[q] /\ pc'[q] = pc[q]
    BY <1>0, <1>6, <2>2 DEF SetDue
  <2> QED
    BY <1>2, <2>1, <2>4, <2>5 DEF LogInv
<1>7. ASSUME NEW p \in Procs, Store(p) PROVE LogInv'
  <2>a. PICK a : a = answer[p]
    OBVIOUS
  <2>1. /\ pc[p] = "store" /\ Return(p)
        /\ card' = [card EXCEPT ![a.id] = a.row]
        /\ history' = [history EXCEPT ![a.id] = [answered |-> a.at, stored |-> now]]
    BY <1>7, <2>a DEF Store
  <2>2. PICK r \in 0..1 : /\ <<a.at, r>> \notin {l.id : l \in revlog}
                          /\ revlog' = revlog \cup {LogRow(a, r)}
    BY <1>7, <2>a DEF Store
  <2>3. a \in Answer /\ a.id \in Cards /\ a.row \in Card /\ a.row.reps \in Nat
    BY <2>1, <2>a DEF IInv, TypeOK, Answer, Card
  <2>4. a.row.reps <= Cardinality(Rows(a.id)) + 1
    BY <2>1, <2>a DEF LogInv
  <2>5. /\ IsFiniteSet(revlog')
        /\ Cardinality(Rows(a.id)') = Cardinality(Rows(a.id)) + 1
        /\ LogRow(a, r) \in Rows(a.id)'
        /\ \A c : c # a.id => Rows(c)' = Rows(c)
    BY <2>2, Logged DEF LogInv
  <2>6. /\ card'[a.id] = a.row /\ history'[a.id].answered = a.at
        /\ \A c \in Cards \ {a.id} : card'[c] = card[c] /\ history'[c] = history[c]
    BY <1>0, <2>1, <2>3
  <2>7. LogRow(a, r).ivl = LogIvl(a.row.ivl) /\ LogRow(a, r).id[1] = a.at
    BY DEF LogRow
  <2>8. ASSUME NEW d \in Stored'
        PROVE  /\ Cardinality(Rows(d)') >= card'[d].reps
               /\ card'[d].reps > 0 =>
                    \E l \in Rows(d)' : l.ivl = LogIvl(card'[d].ivl) /\ l.id[1] = history'[d].answered
    <3>1. CASE d = a.id
      BY <2>3, <2>4, <2>5, <2>6, <2>7, <3>1
    <3>2. CASE d # a.id
      <4>1. d \in Stored /\ card'[d] = card[d] /\ history'[d] = history[d] /\ Rows(d)' = Rows(d)
        BY <2>5, <2>6, <3>2 DEF Stored
      <4> QED
        BY <1>1, <4>1
    <3> QED
      BY <3>1, <3>2
  <2>9. LogAccounts'
    BY <2>8 DEF LogAccounts, Rows
  <2>10. ASSUME NEW q \in Procs, pc'[q] # "idle"
         PROVE  answer'[q].row.reps <= Cardinality(Rows(answer[q].id)') + 1
    <3>1. q # p /\ answer'[q] = answer[q] /\ pc[q] # "idle"
      BY <1>0, <2>1, <2>10 DEF Return
    <3>2. answer[q].row.reps <= Cardinality(Rows(answer[q].id)) + 1
      BY <3>1 DEF LogInv
    <3>3. answer[q].row.reps \in Nat
      BY <3>1 DEF IInv, TypeOK, Answer, Card
    <3>4. PICK id : id = answer[q].id
      OBVIOUS
    <3>5. Rows(id)' = Rows(id) \/ Cardinality(Rows(id)') = Cardinality(Rows(id)) + 1
      BY <2>5
    <3>6. answer[q].row.reps <= Cardinality(Rows(id)') + 1
      BY <1>0, <3>2, <3>3, <3>4, <3>5
    <3>7. answer'[q].row.reps = answer[q].row.reps
      BY <3>1
    <3>8. Rows(answer[q].id)' = Rows(id)'
      BY <3>1, <3>4 DEF Rows
    <3> QED
      BY <3>6, <3>7, <3>8
  <2>11. \A q \in Procs : pc'[q] # "idle" =>
           answer'[q].row.reps <= Cardinality(Rows(answer[q].id)') + 1
    BY <2>10
  <2> QED
    BY <2>5, <2>9, <2>11 DEF LogInv, Rows
<1>8. ASSUME NEW p \in Procs, Fail(p) PROVE LogInv'
  <2>1. UNCHANGED <<card, revlog, history>> /\ Return(p)
    BY <1>8 DEF Fail
  <2>2. pc'[p] = "idle" /\ \A q \in Procs \ {p} : answer'[q] = answer[q] /\ pc'[q] = pc[q]
    BY <1>0, <2>1 DEF Return
  <2> QED
    BY <1>2, <2>1, <2>2 DEF LogInv
<1>9. CASE UNCHANGED vars
  BY <1>2, <1>9 DEF vars, LogInv
<1> QED
  BY <1>3, <1>4, <1>5, <1>6, <1>7, <1>8, <1>9 DEF Next

(***************************************************************************)
(* AnswerCard, one transaction for card and log: the log has at least the   *)
(* reviews that a card counts and the interval it was given last, when any  *)
(* number of processes answer the same card and ids collide.                *)
(***************************************************************************)
THEOREM LogComplete == Spec => []LogAccounts
<1>1. Init => LogInv
  <2> SUFFICES ASSUME Init PROVE LogInv
    OBVIOUS
  <2>1. revlog = {} /\ \A p \in Procs : pc[p] = "idle"
    BY DEF Init
  <2>2. \A c \in Stored : card[c].reps = 0
    BY DEF Init, Stored, NewRow
  <2>3. IsFiniteSet(revlog) /\ \A c : Cardinality(Rows(c)) \in Nat
    BY <2>1, FS_EmptySet, RowsFinite
  <2>4. LogAccounts
    BY <2>2, <2>3 DEF LogAccounts, Rows
  <2> QED
    BY <2>1, <2>3, <2>4 DEF LogInv
<1>2. IInv /\ LogInv /\ [Next]_vars => LogInv'
  BY LogKept
<1>3. LogInv => LogAccounts
  BY DEF LogInv
<1> QED
  BY <1>1, <1>2, <1>3, InductiveInvariant, PTL DEF Spec

=============================================================================
