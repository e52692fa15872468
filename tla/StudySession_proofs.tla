------------------------ MODULE StudySession_proofs ------------------------
(***************************************************************************)
(* Proofs about the study loop, for every set of cards and devices and     *)
(* every value of the limits: the events that count are the answers that   *)
(* stand, the rows of the plain words tell the same story, and a session   *)
(* is a budget of answers.  A client names its events, as the app does:    *)
(* what the undo of a nameless answer takes back can not be recognised.    *)
(***************************************************************************)
EXTENDS StudySession, Integers, FiniteSetTheorems, TLAPS

\* The answers that no undo names.
Standing == {e \in log : e.type # "answer_undo" /\ e.id \notin UndoneClientEventIDs}
StandingOf(w) == {e \in Standing : WordOf[e.card] = w}

Spent(d) == SessionReviewCompleted(d) + SessionNewCompleted(d)
Counts(e) == IsReview(e) \/ IsLearnedNew(e)

NoReason == ""
Shown(c) == [card |-> c, reason |-> ""]

\* Events are numbered by their order, and an answer is named by its number.
LogIsNumbered ==
  /\ IsFiniteSet(log)
  /\ \A e \in log : e.at \in 1..Cardinality(log) /\ e.id \in 1..Cardinality(log)
  /\ \A e, f \in log : e.at = f.at => e = f
  /\ \A e \in log : e.type # "answer_undo" => e.id = e.at

\* New cards are exposed, and the others reviewed.
OfItsKind(e) == e.type = IF e.card \in NewCards THEN "first_exposure" ELSE "review_answer"
KindsMatch == \A e \in Standing : OfItsKind(e)

\* A card that was completed is one whose latest answer stands.
Done == {"completed", "gone"}
StandingMeansDone ==
  /\ \A e \in Standing : cards[e.card] \in Done /\ \A f \in Answers(e.card) : f.at <= e.at
  /\ \A c \in Cards : cards[c] \in Done => \E e \in Standing : e.card = c

\* The last answer of a device stands and is its own; when it does not count the
\* session has room for one that does.
LastStands ==
  \A d \in Devices : last[d] # NoCard =>
    \E e \in Standing :
      /\ e.card = last[d] /\ e.session = d
      /\ d \in Sessions /\ ~Counts(e) => Spent(d) < catchUpSessionTotalCap

\* A device that is shown a card has an answer left.
BudgetKept ==
  /\ \A d \in Sessions : Spent(d) <= catchUpSessionTotalCap
  /\ \A d \in Devices : reply[d].card # NoCard => reply[d].reason = NoReason
  /\ \A d \in Sessions : reply[d].card # NoCard => Spent(d) < catchUpSessionTotalCap

Books == TypeOK /\ LogIsNumbered /\ KindsMatch /\ StandingMeansDone /\ LastStands /\ BudgetKept

\* The words whose two counts have to agree, and what holds of each.
Plain == Words \ parted
IsWaiting(status) == status \in {"pending", "later"}
IsInPool(status) == status \in {"pending", "later", "completed"}

\* The word has one new card, which waits only while no answer of the word stands.
OneNewCard(w) ==
  /\ \A c \in CardsOf(Cards, w) : cards[c] # "gone"
  /\ \A c, x \in CardsOf(NewCards, w) : IsInPool(cards[c]) /\ IsInPool(cards[x]) => c = x
  /\ \A c \in CardsOf(NewCards, w) : IsWaiting(cards[c]) => StandingOf(w) = {}

\* Its row, once it has a new card, is what the answer of that card left; the answer
\* of another card leaves the row as it is.
RowAfter(e) == IF e.unknown THEN "learning" ELSE "known"
RowFollowsAnswers(w) ==
  /\ \A c \in CardsOf(NewCards, w) :
       cards[c] # "undealt" => row[w] = "none" \/ \E t \in StandingOf(w) : t.card \in NewCards
  /\ \A t \in StandingOf(w) : t.card \in NewCards => row[w] = RowAfter(t) /\ t.prev = "none"
  /\ \A e \in StandingOf(w) : e.card \notin NewCards => e.prev = row[w]
  /\ \A e \in StandingOf(w) : e.card \in ReviewCards => row[w] = "learning"

\* It is exposed before it is reviewed, on a follow-up of an answer that stands.
ReviewsFollow(w) ==
  /\ \A t, e \in StandingOf(w) : t.card \in NewCards => t.at <= e.at
  /\ \A x \in CardsOf(ReviewCards, w) : IsWaiting(cards[x]) => row[w] = "learning"
  /\ \A x \in CardsOf(ReviewCards, w), t \in StandingOf(w) :
       IsInPool(cards[x]) /\ t.card \in NewCards => \E s \in StandingOf(w) : x \in s.created

\* An answer trims it once, and before any answer of the word that stands.
TrimmedBefore(w) ==
  \A e \in Standing : \A x \in e.deleted : WordOf[x] = w =>
    /\ \A y \in e.deleted : WordOf[y] = w => x = y
    /\ \A s \in StandingOf(w) : e.at < s.at

PlainWord(w) == OneNewCard(w) /\ RowFollowsAnswers(w) /\ ReviewsFollow(w) /\ TrimmedBefore(w)

IInv == Books /\ \A w \in Plain : PlainWord(w)

(***************************************************************************)
(* The replies that are not a refusal, and how to tell them from one.      *)
(***************************************************************************)
LEMMA Replies ==
  /\ Silent \in CardResponse /\ Silent.card = NoCard /\ Silent.reason = NoReason
  /\ \A c : Shown(c).card = c /\ Shown(c).reason = NoReason
  /\ \A c \in Cards : Shown(c) \in CardResponse
  /\ NoReason # "session_total_cap_reached" /\ NoReason # "no_cards_available"
<1>1. Silent.card = NoCard /\ Silent.reason = NoReason
  BY Zenon DEF Silent, NoReason
<1>2. \A c : Shown(c).card = c /\ Shown(c).reason = NoReason
  BY Zenon DEF Shown, NoReason
<1>3. Silent \in CardResponse
  BY Zenon DEF Silent, CardResponse
<1>4. \A c \in Cards : Shown(c) \in CardResponse
  BY Zenon DEF Shown, CardResponse
<1>5. NoReason # "session_total_cap_reached" /\ NoReason # "no_cards_available"
  BY Zenon DEF NoReason
<1> QED BY <1>1, <1>2, <1>3, <1>4, <1>5

---------------------------------------------------------------------------
(* The log and the answers that stand *)

(***************************************************************************)
(* The answers that count are the standing ones of a kind that counts.     *)
(***************************************************************************)
LEMMA CompletedIsStanding ==
  /\ Completed = {e \in Standing : Counts(e)}
  /\ Completed' = {e \in Standing' : Counts(e)}
  /\ Standing \subseteq log /\ Standing' \subseteq log'
BY DEF Completed, Standing, Counts, IsReview, IsLearnedNew

(***************************************************************************)
(* A new answer stands, and is younger than every event of the log.        *)
(***************************************************************************)
LEMMA AnswerStands ==
  ASSUME LogIsNumbered, NEW e, Record(e),
         e.at = EventAt, e.id = EventAt, e.type # "answer_undo"
  PROVE  /\ LogIsNumbered'
         /\ e \notin Standing /\ Standing' = Standing \cup {e}
         /\ \A f \in log : f.at < e.at
         /\ EventAt \in 1..MaxEvents
<1>1. IsFiniteSet(log) /\ Cardinality(log) \in Nat
  BY FS_CardinalityType DEF LogIsNumbered
<1>2. log' = log \cup {e} /\ Cardinality(log) < MaxEvents /\ MaxEvents \in Nat
  BY SessionAssumption DEF Record
<1>3. \A f \in log : f.at \in Nat /\ f.id \in Nat /\ f.at < e.at /\ f.id < e.at
  BY <1>1 DEF LogIsNumbered, EventAt
<1>4. e \notin log
  BY <1>1, <1>3 DEF EventAt
<1>5. IsFiniteSet(log') /\ Cardinality(log') = Cardinality(log) + 1
  BY <1>1, <1>2, <1>4, FS_AddElement
<1>6. LogIsNumbered'
  <2>1. \A f \in log' : f.at \in 1..Cardinality(log') /\ f.id \in 1..Cardinality(log')
    BY <1>1, <1>2, <1>3, <1>5 DEF LogIsNumbered, EventAt
  <2>2. \A f, g \in log' : f.at = g.at => f = g
    BY <1>1, <1>2, <1>3 DEF LogIsNumbered
  <2>3. \A f \in log' : f.type # "answer_undo" => f.id = f.at
    BY <1>2 DEF LogIsNumbered
  <2> QED BY <1>5, <2>1, <2>2, <2>3 DEF LogIsNumbered
<1>7. UndoneClientEventIDs' = UndoneClientEventIDs
  BY <1>2 DEF UndoneClientEventIDs
<1>8. e.id \notin UndoneClientEventIDs
  BY <1>1, <1>3 DEF UndoneClientEventIDs, EventAt
<1>9. Standing' = Standing \cup {e} /\ e \notin Standing
  BY <1>2, <1>4, <1>7, <1>8 DEF Standing
<1>10. EventAt \in 1..MaxEvents
  BY <1>1, <1>2 DEF EventAt
<1> QED BY <1>3, <1>6, <1>9, <1>10

(***************************************************************************)
(* An undo takes the answer whose name it repeats, and no other.           *)
(***************************************************************************)
LEMMA UndoFalls ==
  ASSUME LogIsNumbered, NEW u, Record(u), NEW e \in Standing,
         u.at = EventAt, u.id = e.id, u.type = "answer_undo"
  PROVE  /\ LogIsNumbered'
         /\ Standing' = Standing \ {e}
         /\ EventAt \in 1..MaxEvents
<1>1. IsFiniteSet(log) /\ Cardinality(log) \in Nat
  BY FS_CardinalityType DEF LogIsNumbered
<1>2. log' = log \cup {u} /\ Cardinality(log) < MaxEvents /\ MaxEvents \in Nat
  BY SessionAssumption DEF Record
<1>3. \A f \in log : f.at \in Nat /\ f.id \in Nat /\ f.at < u.at /\ f.id < u.at
  BY <1>1 DEF LogIsNumbered, EventAt
<1>4. u \notin log /\ e \in log
  BY <1>1, <1>3 DEF EventAt, Standing
<1>5. IsFiniteSet(log') /\ Cardinality(log') = Cardinality(log) + 1
  BY <1>1, <1>2, <1>4, FS_AddElement
<1>6. LogIsNumbered'
  <2>1. \A f \in log' : f.at \in 1..Cardinality(log') /\ f.id \in 1..Cardinality(log')
    <3>1. e.id \in 1..Cardinality(log)
      BY <1>4 DEF LogIsNumbered
    <3> QED BY <1>1, <1>2, <1>3, <1>5, <3>1 DEF LogIsNumbered, EventAt
  <2>2. \A f, g \in log' : f.at = g.at => f = g
    BY <1>1, <1>2, <1>3 DEF LogIsNumbered
  <2>3. \A f \in log' : f.type # "answer_undo" => f.id = f.at
    BY <1>2 DEF LogIsNumbered
  <2> QED BY <1>5, <2>1, <2>2, <2>3 DEF LogIsNumbered
<1>7. e.id # 0
  BY <1>1, <1>4 DEF LogIsNumbered
<1>8. UndoneClientEventIDs' = UndoneClientEventIDs \cup {e.id}
  BY <1>2, <1>7 DEF UndoneClientEventIDs
<1>9. \A f \in Standing : f.id = e.id => f = e
  BY DEF Standing, LogIsNumbered
<1>10. Standing' = Standing \ {e}
  BY <1>2, <1>8, <1>9 DEF Standing
<1>11. EventAt \in 1..MaxEvents
  BY <1>1, <1>2 DEF EventAt
<1> QED BY <1>6, <1>10, <1>11

---------------------------------------------------------------------------
(* Counting the answers of a session *)

Reviews(S, d) == {e \in S : IsReview(e) /\ e.session = d}
Learnings(S, d) == {e \in S : IsLearnedNew(e) /\ e.session = d}

(***************************************************************************)
(* The two counts of a session, in this state and the next, are the sizes  *)
(* of sets of standing answers.                                            *)
(***************************************************************************)
LEMMA SessionCounts ==
  ASSUME NEW d
  PROVE  /\ SessionReviewCompleted(d) = Cardinality(Reviews(Standing, d))
         /\ SessionNewCompleted(d) = Cardinality(Learnings(Standing, d))
         /\ SessionReviewCompleted(d)' = Cardinality(Reviews(Standing', d))
         /\ SessionNewCompleted(d)' = Cardinality(Learnings(Standing', d))
<1>1. /\ {e \in Completed : e.session = d /\ IsReview(e)} = Reviews(Standing, d)
      /\ {e \in Completed' : e.session = d /\ IsReview(e)} = Reviews(Standing', d)
  BY CompletedIsStanding DEF Counts, Reviews
<1>2. /\ {e \in Completed : e.session = d /\ IsLearnedNew(e)} = Learnings(Standing, d)
      /\ {e \in Completed' : e.session = d /\ IsLearnedNew(e)} = Learnings(Standing', d)
  BY CompletedIsStanding DEF Counts, Learnings
<1> QED BY <1>1, <1>2 DEF SessionReviewCompleted, SessionNewCompleted

(***************************************************************************)
(* How the sizes change when an answer is added or taken away.             *)
(***************************************************************************)
LEMMA CountWithOneMore ==
  ASSUME NEW S, IsFiniteSet(S), NEW e, e \notin S, NEW d
  PROVE  /\ Cardinality(Reviews(S, d)) \in Nat /\ Cardinality(Learnings(S, d)) \in Nat
         /\ Cardinality(Reviews(S \cup {e}, d))
              = Cardinality(Reviews(S, d)) + IF IsReview(e) /\ e.session = d THEN 1 ELSE 0
         /\ Cardinality(Learnings(S \cup {e}, d))
              = Cardinality(Learnings(S, d)) + IF IsLearnedNew(e) /\ e.session = d THEN 1 ELSE 0
<1>1. Reviews(S, d) \subseteq S /\ Learnings(S, d) \subseteq S
  BY DEF Reviews, Learnings
<1>2. IsFiniteSet(Reviews(S, d)) /\ IsFiniteSet(Learnings(S, d))
  BY <1>1, FS_Subset
<1>3. Cardinality(Reviews(S, d)) \in Nat /\ Cardinality(Learnings(S, d)) \in Nat
  BY <1>2, FS_CardinalityType
<1>4. e \notin Reviews(S, d) /\ e \notin Learnings(S, d)
  BY <1>1
<1>5. /\ Cardinality(Reviews(S, d) \cup {e}) = Cardinality(Reviews(S, d)) + 1
      /\ Cardinality(Learnings(S, d) \cup {e}) = Cardinality(Learnings(S, d)) + 1
  BY <1>2, <1>4, FS_AddElement
<1>6. Reviews(S \cup {e}, d)
        = IF IsReview(e) /\ e.session = d THEN Reviews(S, d) \cup {e} ELSE Reviews(S, d)
  BY DEF Reviews
<1>7. Learnings(S \cup {e}, d)
        = IF IsLearnedNew(e) /\ e.session = d THEN Learnings(S, d) \cup {e} ELSE Learnings(S, d)
  BY DEF Learnings
<1>8. Cardinality(Reviews(S \cup {e}, d))
        = Cardinality(Reviews(S, d)) + IF IsReview(e) /\ e.session = d THEN 1 ELSE 0
  BY <1>3, <1>5, <1>6
<1>9. Cardinality(Learnings(S \cup {e}, d))
        = Cardinality(Learnings(S, d)) + IF IsLearnedNew(e) /\ e.session = d THEN 1 ELSE 0
  BY <1>3, <1>5, <1>7
<1> QED BY <1>3, <1>8, <1>9

LEMMA CountWithOneLess ==
  ASSUME NEW S, IsFiniteSet(S), NEW e \in S, NEW d
  PROVE  /\ Cardinality(Reviews(S \ {e}, d)) \in Nat /\ Cardinality(Learnings(S \ {e}, d)) \in Nat
         /\ Cardinality(Reviews(S, d))
              = Cardinality(Reviews(S \ {e}, d)) + IF IsReview(e) /\ e.session = d THEN 1 ELSE 0
         /\ Cardinality(Learnings(S, d))
              = Cardinality(Learnings(S \ {e}, d)) + IF IsLearnedNew(e) /\ e.session = d THEN 1 ELSE 0
<1>1. IsFiniteSet(S \ {e}) /\ e \notin S \ {e} /\ (S \ {e}) \cup {e} = S
  BY FS_Subset
<1> QED BY <1>1, CountWithOneMore

(***************************************************************************)
(* The counts of a session before and after an answer e, and before and    *)
(* after the undo of an answer e.                                          *)
(***************************************************************************)
LEMMA CountsAfterAnswer ==
  ASSUME LogIsNumbered, NEW e, e \notin Standing, Standing' = Standing \cup {e}, NEW d
  PROVE  /\ SessionReviewCompleted(d) \in Nat /\ SessionNewCompleted(d) \in Nat
         /\ SessionReviewCompleted(d)'
              = SessionReviewCompleted(d) + IF IsReview(e) /\ e.session = d THEN 1 ELSE 0
         /\ SessionNewCompleted(d)'
              = SessionNewCompleted(d) + IF IsLearnedNew(e) /\ e.session = d THEN 1 ELSE 0
<1>1. IsFiniteSet(Standing)
  BY CompletedIsStanding, FS_Subset DEF LogIsNumbered
<1> QED BY <1>1, SessionCounts, CountWithOneMore

LEMMA CountsAfterUndo ==
  ASSUME LogIsNumbered, NEW e \in Standing, Standing' = Standing \ {e}, NEW d
  PROVE  /\ SessionReviewCompleted(d)' \in Nat /\ SessionNewCompleted(d)' \in Nat
         /\ SessionReviewCompleted(d)
              = SessionReviewCompleted(d)' + IF IsReview(e) /\ e.session = d THEN 1 ELSE 0
         /\ SessionNewCompleted(d)
              = SessionNewCompleted(d)' + IF IsLearnedNew(e) /\ e.session = d THEN 1 ELSE 0
<1>1. IsFiniteSet(Standing)
  BY CompletedIsStanding, FS_Subset DEF LogIsNumbered
<1> QED BY <1>1, SessionCounts, CountWithOneLess

LEMMA CountsKept ==
  ASSUME UNCHANGED log, NEW d
  PROVE  /\ Standing' = Standing /\ Completed' = Completed /\ DailyNewCompleted' = DailyNewCompleted
         /\ SessionReviewCompleted(d)' = SessionReviewCompleted(d)
         /\ SessionNewCompleted(d)' = SessionNewCompleted(d)
BY DEF Standing, Completed, UndoneClientEventIDs, SessionReviewCompleted, SessionNewCompleted,
       DailyNewCompleted

LEMMA CountsAreNaturals ==
  ASSUME LogIsNumbered, NEW d
  PROVE  SessionReviewCompleted(d) \in Nat /\ SessionNewCompleted(d) \in Nat
<1>1. IsFiniteSet(Reviews(Standing, d)) /\ IsFiniteSet(Learnings(Standing, d))
  <2>1. Reviews(Standing, d) \subseteq log /\ Learnings(Standing, d) \subseteq log
    BY CompletedIsStanding DEF Reviews, Learnings
  <2> QED BY <2>1, FS_Subset DEF LogIsNumbered
<1> QED BY <1>1, SessionCounts, FS_CardinalityType

---------------------------------------------------------------------------
(* What the invariant says of the properties *)

(***************************************************************************)
(* The latest answer of a card that has a standing one is that one.        *)
(***************************************************************************)
LEMMA LatestStands ==
  ASSUME LogIsNumbered, StandingMeansDone, NEW e \in Standing
  PROVE  Latest(Answers(e.card)) = e
<1>1. /\ e \in Answers(e.card) /\ \A f \in Answers(e.card) : f.at <= e.at
      /\ Answers(e.card) \subseteq log
  BY DEF Standing, StandingMeansDone, Answers
<1>2. /\ Latest(Answers(e.card)) \in Answers(e.card)
      /\ \A f \in Answers(e.card) : f.at <= Latest(Answers(e.card)).at
  BY <1>1 DEF Latest
<1>3. \A f \in log : f.at \in Int
  <2>1. Cardinality(log) \in Nat
    BY FS_CardinalityType DEF LogIsNumbered
  <2> QED BY <2>1 DEF LogIsNumbered
<1>4. e.at = Latest(Answers(e.card)).at
  BY <1>1, <1>2, <1>3
<1> QED BY <1>1, <1>2, <1>4 DEF LogIsNumbered

LEMMA InvariantCounts == Books => CountedAnswersStand
<1> SUFFICES ASSUME Books PROVE CountedAnswersStand
  OBVIOUS
<1> USE DEF Books
<1> DEFINE Right == {e \in log : Counts(e) /\ cards[e.card] \in Done /\ e = Latest(Answers(e.card))}
<1>1. Completed \subseteq Right
  BY CompletedIsStanding, LatestStands DEF StandingMeansDone
<1>2. ASSUME NEW e \in Right PROVE e \in Completed
  <2>1. e.card \in Cards /\ cards[e.card] \in Done
    BY DEF TypeOK, Event
  <2>2. PICK s \in Standing : s.card = e.card
    BY <2>1 DEF StandingMeansDone
  <2>3. e = s
    BY <2>2, LatestStands
  <2> QED BY <2>2, <2>3, CompletedIsStanding
<1>3. Right = {e \in log : /\ IsReview(e) \/ IsLearnedNew(e)
                           /\ cards[e.card] \in {"completed", "gone"} /\ e = Latest(Answers(e.card))}
  BY DEF Counts, Done
<1> HIDE DEF Right
<1> QED BY <1>1, <1>2, <1>3 DEF CountedAnswersStand

(***************************************************************************)
(* Each event that counts as a new word is of another new card.            *)
(***************************************************************************)
LEMMA CountedOnce ==
  ASSUME Books
  PROVE  /\ IsFiniteSet(CountedNew) /\ CountedNew \subseteq NewCards
         /\ DailyNewCompleted = Cardinality(CountedNew)
         /\ \A c : c \in CountedNew <=> \E e \in Standing : e.card = c /\ IsLearnedNew(e)
<1> USE DEF Books
<1> DEFINE Events == {e \in Completed : IsLearnedNew(e)}
           card == [e \in Events |-> e.card]
<1>1. Events = {e \in Standing : IsLearnedNew(e)}
  BY CompletedIsStanding DEF Counts
<1>2. IsFiniteSet(Events)
  <2>1. Events \subseteq log
    BY DEF Completed
  <2> QED BY <2>1, FS_Subset DEF LogIsNumbered
<1>3. \A e \in Events : e.card \in NewCards
  BY <1>1 DEF KindsMatch, OfItsKind, IsLearnedNew
<1>4. \A e, f \in Events : e.card = f.card => e = f
  BY <1>1, LatestStands
<1>5. CountedNew = {e.card : e \in Events}
  BY DEF CountedNew
<1>6. \A c : c \in CountedNew <=> \E e \in Standing : e.card = c /\ IsLearnedNew(e)
  BY <1>1, <1>5
<1> HIDE DEF Events
<1>7. card \in Bijection(Events, CountedNew)
  BY <1>4, <1>5 DEF Bijection, Injection, Surjection, IsInjective
<1>8. ExistsBijection(Events, CountedNew)
  BY <1>7 DEF ExistsBijection
<1>9. IsFiniteSet(CountedNew) /\ Cardinality(CountedNew) = Cardinality(Events)
  BY <1>2, <1>8, FS_Bijection
<1> QED BY <1>3, <1>5, <1>6, <1>9 DEF Events, DailyNewCompleted

(***************************************************************************)
(* Of a plain word the standing answer that learned it and its row go      *)
(* together.                                                               *)
(***************************************************************************)
LEMMA InvariantLimits == IInv => LimitsAgree
<1> SUFFICES ASSUME IInv PROVE LimitsAgree
  OBVIOUS
<1> USE DEF IInv, Books
<1>1. ASSUME NEW c \in NewCards, WordOf[c] \notin parted
      PROVE  c \in CountedNew <=> c \in LearnedNew(cards, row)
  <2> DEFINE w == WordOf[c]
  <2>1. c \in Cards /\ w \in Plain /\ PlainWord(w) /\ c \in CardsOf(Cards, w) /\ c \in CardsOf(NewCards, w)
    BY <1>1, SessionAssumption DEF Cards, Plain, CardsOf
  <2>2. ASSUME NEW e \in Standing, e.card = c
        PROVE  e.type = "first_exposure" /\ row[w] = RowAfter(e) /\ cards[c] = "completed"
    <3>1. e \in StandingOf(w) /\ OfItsKind(e) /\ cards[c] \in Done
      BY <2>2 DEF StandingOf, KindsMatch, StandingMeansDone
    <3> QED BY <2>1, <2>2, <3>1 DEF PlainWord, RowFollowsAnswers, OneNewCard, OfItsKind, Done
  <2>3. ASSUME c \in CountedNew PROVE c \in LearnedNew(cards, row)
    <3>1. PICK e \in Standing : e.card = c /\ IsLearnedNew(e)
      BY <2>3, CountedOnce
    <3> QED BY <2>2, <3>1 DEF LearnedNew, RowAfter, IsLearnedNew
  <2>4. ASSUME c \in LearnedNew(cards, row) PROVE c \in CountedNew
    <3>1. cards[c] \in Done /\ row[w] = "learning"
      BY <2>4 DEF LearnedNew, Done
    <3>2. PICK e \in Standing : e.card = c
      BY <2>1, <3>1 DEF StandingMeansDone
    <3>3. IsLearnedNew(e)
      BY <2>2, <3>1, <3>2 DEF RowAfter, IsLearnedNew
    <3> QED BY <3>2, <3>3, CountedOnce
  <2> QED BY <2>3, <2>4
<1> QED BY <1>1, CountedOnce DEF LimitsAgree

---------------------------------------------------------------------------
(* An answer *)

\* What SubmitReview and SubmitFirstExposure have in common; e is the event.
RowAnswered(e) ==
  /\ row' \in [Words -> RowStatuses]
  /\ \A w \in Words \ {WordOf[e.card]} : row'[w] = row[w]
  /\ e.card \in NewCards => row'[WordOf[e.card]] = RowAfter(e)
  /\ e.card \notin NewCards => row[WordOf[e.card]] # "none"
  /\ e.card \in ReviewCards => row'[WordOf[e.card]] = "learning"
  /\ e.card \notin NewCards \cup ReviewCards => row'[WordOf[e.card]] = row[WordOf[e.card]]
  /\ e.prev = row[WordOf[e.card]]

CardsAnswered(e) ==
  /\ cards' \in [Cards -> Statuses]
  /\ cards[e.card] = "pending" /\ cards'[e.card] = "completed"
  /\ \A x \in Cards \ {e.card} : cards'[x] # cards[x] =>
       \/ x \in e.deleted
       \/ x \in e.created /\ IsWaiting(cards'[x])
  /\ \A x \in e.deleted : x # e.card /\ IsWaiting(cards[x]) /\ cards'[x] = "deleted"
  /\ \A x \in e.created : cards[x] = "undealt" /\ x \in ReviewCards \cup NewCards

\* The follow-up is of the answered word, the other cards are of words without a card.
CreatedFor(e) ==
  /\ \A x \in e.created : x \in ReviewCards =>
       WordOf[x] = WordOf[e.card] /\ row'[WordOf[e.card]] = "learning"
  /\ \A x \in e.created : x \in NewCards =>
       /\ row'[WordOf[x]] = "none" /\ WordOf[x] # WordOf[e.card]
       /\ \A y \in CardsOf(Cards, WordOf[x]) : ~IsInPool(cards[y])
       /\ \A y \in e.created : y \in NewCards /\ WordOf[y] = WordOf[x] => y = x

AnswerGiven(e) ==
  /\ e \in Event /\ OfItsKind(e) /\ e.at = EventAt /\ e.id = EventAt /\ Record(e)
  /\ reply[e.session].card = e.card
  /\ RowAnswered(e) /\ CardsAnswered(e) /\ CreatedFor(e)
  /\ reply' = [reply EXCEPT ![e.session] = Silent]
  /\ last' = [last EXCEPT ![e.session] = e.card]
  /\ parted' = parted /\ edits' = edits

(***************************************************************************)
(* A follow-up turns one undealt review card of the word, at most, into a  *)
(* waiting one.                                                            *)
(***************************************************************************)
LEMMA FollowUpIsDealt ==
  ASSUME NEW deck \in [Cards -> Statuses], NEW w, NEW f \in FollowUps(w)
  PROVE  /\ Followed(deck, f) \in [Cards -> Statuses]
         /\ \A x \in Cards : Followed(deck, f)[x] # deck[x] =>
              x \in Created(f) /\ IsWaiting(Followed(deck, f)[x])
         /\ \A x \in Created(f) : x \in Cards /\ x \in ReviewCards /\ WordOf[x] = w /\ cards[x] = "undealt"
<1>1. CASE f = <<>>
  BY <1>1 DEF Followed, Created
<1>2. CASE f # <<>>
  <2>1. f \in Undealt(cards, CardsOf(ReviewCards, w)) \X {"pending", "later"}
    BY <1>2 DEF FollowUps
  <2>2. /\ f[1] \in Cards /\ f[1] \in ReviewCards /\ WordOf[f[1]] = w /\ cards[f[1]] = "undealt"
        /\ f[2] \in {"pending", "later"}
    BY <2>1 DEF Undealt, CardsOf, Cards
  <2>3. Followed(deck, f) = [deck EXCEPT ![f[1]] = f[2]] /\ Created(f) = {f[1]}
    BY <1>2 DEF Followed, Created
  <2>4. {"pending", "later"} \subseteq Statuses
    BY DEF Statuses
  <2> QED BY <2>2, <2>3, <2>4 DEF IsWaiting
<1> QED BY <1>1, <1>2

(***************************************************************************)
(* A batch of new words is of words without a row and without a card.      *)
(***************************************************************************)
LEMMA BatchIsNew ==
  ASSUME NEW deck, NEW rows, NEW n, NEW S \in NewWords(deck, rows, n)
  PROVE  \A x \in S : /\ x \in NewCards /\ x \in Cards /\ deck[x] = "undealt" /\ rows[WordOf[x]] = "none"
                      /\ \A y \in CardsOf(Cards, WordOf[x]) : ~IsInPool(deck[y])
                      /\ \A y \in S : WordOf[y] = WordOf[x] => y = x
BY DEF NewWords, Undealt, InPool, IsInPool, Cards

LEMMA EventNumber ==
  ASSUME LogIsNumbered, Cardinality(log) < MaxEvents
  PROVE  EventAt \in 1..MaxEvents /\ EventAt \in 0..MaxEvents
<1>1. Cardinality(log) \in Nat /\ MaxEvents \in Nat
  BY SessionAssumption, FS_CardinalityType DEF LogIsNumbered
<1> QED BY <1>1 DEF EventAt

LEMMA ReviewIsAnswer ==
  ASSUME TypeOK, NamesEvents = {TRUE}, LogIsNumbered,
         NEW d \in Devices, NEW c \in Cards, SubmitReview(d, c)
  PROVE  \E e : AnswerGiven(e)
<1> DEFINE w == WordOf[c]
           deck == [cards EXCEPT ![c] = "completed"]
           event(f) == [at |-> EventAt, type |-> "review_answer", unknown |-> FALSE, id |-> EventAt,
                        session |-> d, card |-> c, prev |-> row[w],
                        created |-> Created(f), deleted |-> {}]
<1>1. /\ reply[d].card = c /\ c \in ReviewCards \cup PracticeCards /\ cards[c] = "pending" /\ Answered(d, c)
      /\ row[w] # "none" /\ row' = IF c \in ReviewCards THEN [row EXCEPT ![w] = "learning"] ELSE row
      /\ UNCHANGED <<parted, edits>>
      /\ \E f \in (IF c \in ReviewCards THEN FollowUps(w) ELSE {<<>>}), id \in Ids :
           /\ cards' = Followed(deck, f)
           /\ Record([at |-> EventAt, type |-> "review_answer", unknown |-> FALSE, id |-> id,
                      session |-> d, card |-> c, prev |-> row[w],
                      created |-> Created(f), deleted |-> {}])
  BY DEF SubmitReview
<1>2. Ids = {EventAt}
  BY DEF Ids
<1>3. PICK f \in FollowUps(w) :
        cards' = Followed(deck, f) /\ Record(event(f)) /\ (c \notin ReviewCards => f = <<>>)
  BY <1>1, <1>2 DEF FollowUps
<1> DEFINE e == event(f)
<1>4. deck \in [Cards -> Statuses] /\ deck[c] = "completed" /\ \A x \in Cards \ {c} : deck[x] = cards[x]
  BY DEF TypeOK, Statuses
<1> HIDE DEF deck
<1>5. /\ cards' \in [Cards -> Statuses]
      /\ \A x \in Cards : cards'[x] # deck[x] => x \in Created(f) /\ IsWaiting(cards'[x])
      /\ \A x \in Created(f) : x \in Cards /\ x \in ReviewCards /\ WordOf[x] = w /\ cards[x] = "undealt"
  BY <1>3, <1>4, FollowUpIsDealt
<1>6. w \in Words /\ c \notin NewCards /\ row[w] \in RowStatuses
  BY <1>1, SessionAssumption DEF TypeOK
<1>7. e \in Event
  <2>1. EventAt \in 1..MaxEvents /\ EventAt \in 0..MaxEvents
    BY <1>3, EventNumber DEF Record
  <2>2. Created(f) \subseteq Cards
    BY <1>5
  <2> QED BY <1>6, <2>1, <2>2 DEF Event
<1>8. /\ e.card = c /\ e.session = d /\ e.created = Created(f) /\ e.deleted = {} /\ e.prev = row[w]
      /\ e.at = EventAt /\ e.id = EventAt /\ e.type = "review_answer" /\ Record(e)
  BY <1>3
<1> HIDE DEF e, event
<1>9. OfItsKind(e)
  BY <1>6, <1>8 DEF OfItsKind
<1>10. RowAnswered(e)
  BY <1>1, <1>6, <1>8 DEF RowAnswered, TypeOK, RowStatuses
<1>11. CardsAnswered(e)
  BY <1>1, <1>4, <1>5, <1>8 DEF CardsAnswered
<1>12. CreatedFor(e)
  <2>1. ASSUME NEW x \in e.created
        PROVE  x \in ReviewCards /\ x \notin NewCards /\ WordOf[x] = w /\ row'[w] = "learning"
    <3>1. x \in ReviewCards /\ WordOf[x] = w
      BY <1>5, <1>8
    <3>2. c \in ReviewCards
      BY <1>3, <1>8 DEF Created
    <3> QED BY <1>1, <1>6, <3>1, <3>2, SessionAssumption DEF TypeOK
  <2> QED BY <1>8, <2>1 DEF CreatedFor
<1>13. AnswerGiven(e)
  BY <1>1, <1>7, <1>8, <1>9, <1>10, <1>11, <1>12 DEF AnswerGiven, Answered
<1> QED BY <1>13

LEMMA ExposureIsAnswer ==
  ASSUME TypeOK, NamesEvents = {TRUE}, LogIsNumbered,
         NEW d \in Devices, NEW c \in Cards, NEW unknown \in BOOLEAN, SubmitFirstExposure(d, c, unknown)
  PROVE  \E e : AnswerGiven(e)
<1> DEFINE w == WordOf[c]
           deck(f) == Followed([cards EXCEPT ![c] = "completed"], f)
           event(f, S) == [at |-> EventAt, type |-> "first_exposure", unknown |-> unknown, id |-> EventAt,
                           session |-> d, card |-> c, prev |-> row[w],
                           created |-> Created(f) \cup S, deleted |-> Trimmed(deck(f), row')]
<1>1. /\ reply[d].card = c /\ c \in NewCards /\ cards[c] = "pending" /\ Answered(d, c)
      /\ row' = [row EXCEPT ![w] = IF unknown THEN "learning" ELSE "known"]
      /\ UNCHANGED <<parted, edits>>
      /\ \E f \in (IF unknown THEN FollowUps(w) ELSE {<<>>}), id \in Ids :
           \E S \in Replenishments(deck(f), row') :
             /\ cards' = [x \in Cards |-> IF x \in Trimmed(deck(f), row') THEN "deleted" ELSE Deal(deck(f), S)[x]]
             /\ Record([at |-> EventAt, type |-> "first_exposure", unknown |-> unknown, id |-> id,
                        session |-> d, card |-> c, prev |-> row[w],
                        created |-> Created(f) \cup S, deleted |-> Trimmed(deck(f), row')])
  BY DEF SubmitFirstExposure
<1>2. Ids = {EventAt}
  BY DEF Ids
<1> HIDE DEF deck
<1>3. PICK f \in (IF unknown THEN FollowUps(w) ELSE {<<>>}), id \in Ids :
        \E S \in Replenishments(deck(f), row') :
          /\ cards' = [x \in Cards |-> IF x \in Trimmed(deck(f), row') THEN "deleted" ELSE Deal(deck(f), S)[x]]
          /\ Record([at |-> EventAt, type |-> "first_exposure", unknown |-> unknown, id |-> id,
                     session |-> d, card |-> c, prev |-> row[w],
                     created |-> Created(f) \cup S, deleted |-> Trimmed(deck(f), row')])
  BY <1>1
<1>4. id = EventAt /\ f \in FollowUps(w) /\ (~unknown => f = <<>>)
  <2>1. CASE unknown
    BY <1>2, <2>1
  <2>2. CASE ~unknown
    BY <1>2, <2>2 DEF FollowUps
  <2> QED BY <2>1, <2>2
<1>5. PICK S \in Replenishments(deck(f), row') :
        /\ cards' = [x \in Cards |-> IF x \in Trimmed(deck(f), row') THEN "deleted" ELSE Deal(deck(f), S)[x]]
        /\ Record(event(f, S))
  BY <1>3, <1>4
<1> DEFINE e == event(f, S)
<1>6. w \in Words /\ row[w] \in RowStatuses /\ c \notin ReviewCards
  BY <1>1, SessionAssumption DEF TypeOK
<1>7. /\ deck(f) \in [Cards -> Statuses] /\ deck(f)[c] = "completed"
      /\ \A x \in Cards \ {c} : deck(f)[x] # cards[x] => x \in Created(f) /\ IsWaiting(deck(f)[x])
      /\ \A x \in Created(f) : x \in Cards /\ x \in ReviewCards /\ WordOf[x] = w /\ cards[x] = "undealt"
  <2> DEFINE answered == [cards EXCEPT ![c] = "completed"]
  <2>1. /\ answered \in [Cards -> Statuses] /\ answered[c] = "completed"
        /\ \A x \in Cards \ {c} : answered[x] = cards[x]
    BY DEF TypeOK, Statuses
  <2>2. deck(f) = Followed(answered, f)
    BY DEF deck
  <2> HIDE DEF answered
  <2>3. /\ deck(f) \in [Cards -> Statuses]
        /\ \A x \in Cards : deck(f)[x] # answered[x] => x \in Created(f) /\ IsWaiting(deck(f)[x])
        /\ \A x \in Created(f) : x \in Cards /\ x \in ReviewCards /\ WordOf[x] = w /\ cards[x] = "undealt"
    BY <1>4, <2>1, <2>2, FollowUpIsDealt
  <2>4. deck(f)[c] = "completed"
    BY <1>6, <2>1, <2>3
  <2> QED BY <2>1, <2>3, <2>4
<1>8. \A x \in S : /\ x \in NewCards /\ x \in Cards /\ deck(f)[x] = "undealt" /\ row'[WordOf[x]] = "none"
                   /\ \A y \in CardsOf(Cards, WordOf[x]) : ~IsInPool(deck(f)[y])
                   /\ \A y \in S : WordOf[y] = WordOf[x] => y = x
  <2>1. S = {} \/ S \in NewWords(deck(f), row', PrefetchBatchSize)
    BY DEF Replenishments
  <2> QED BY <2>1, BatchIsNew
<1>9. \A x \in Trimmed(deck(f), row') : x \in NewCards /\ x \in Cards /\ IsWaiting(deck(f)[x])
  BY DEF Trimmed, PendingNew, Waiting, IsWaiting, Cards
<1>10. \A x \in Cards :
        cards'[x] = IF x \in Trimmed(deck(f), row') THEN "deleted" ELSE IF x \in S THEN "pending" ELSE deck(f)[x]
  BY <1>5 DEF Deal
<1>11. e \in Event
  <2>1. EventAt \in 1..MaxEvents /\ EventAt \in 0..MaxEvents
    BY <1>5, EventNumber DEF Record
  <2>2. Created(f) \cup S \subseteq Cards /\ Trimmed(deck(f), row') \subseteq NewCards
    BY <1>7, <1>8, <1>9
  <2> QED BY <1>6, <2>1, <2>2 DEF Event
<1>12. /\ e.card = c /\ e.session = d /\ e.created = Created(f) \cup S /\ e.deleted = Trimmed(deck(f), row')
       /\ e.prev = row[w] /\ e.unknown = unknown
       /\ e.at = EventAt /\ e.id = EventAt /\ e.type = "first_exposure" /\ Record(e)
  BY <1>5
<1> HIDE DEF e, event
<1>13. RowAnswered(e)
  BY <1>1, <1>6, <1>12 DEF RowAnswered, RowAfter, TypeOK, RowStatuses
<1>14. CardsAnswered(e)
  <2>1. cards' \in [Cards -> Statuses]
    BY <1>5, <1>7, <1>10 DEF Statuses
  <2>2. cards[e.card] = "pending" /\ cards'[e.card] = "completed"
    <3>1. c \notin S
      BY <1>7, <1>8
    <3>2. c \notin Trimmed(deck(f), row')
      BY <1>7, <1>9 DEF IsWaiting
    <3> QED BY <1>1, <1>7, <1>10, <1>12, <3>1, <3>2
  <2>3. ASSUME NEW x \in e.deleted
        PROVE  x # e.card /\ IsWaiting(cards[x]) /\ cards'[x] = "deleted"
    <3>1. x \in NewCards /\ x \in Cards /\ IsWaiting(deck(f)[x]) /\ x \notin ReviewCards
      BY <1>9, <1>12, SessionAssumption
    <3> QED BY <1>7, <1>10, <1>12, <3>1 DEF IsWaiting
  <2>4. ASSUME NEW x \in e.created
        PROVE  cards[x] = "undealt" /\ x \in ReviewCards \cup NewCards
    BY <1>1, <1>7, <1>8, <1>12 DEF IsWaiting
  <2>5. ASSUME NEW x \in Cards \ {e.card}, cards'[x] # cards[x], x \notin e.deleted
        PROVE  x \in e.created /\ IsWaiting(cards'[x])
    BY <1>7, <1>10, <1>12, <2>5 DEF IsWaiting
  <2> QED BY <2>1, <2>2, <2>3, <2>4, <2>5 DEF CardsAnswered
<1>15. CreatedFor(e)
  <2>1. ASSUME NEW x \in e.created, x \in ReviewCards
        PROVE  WordOf[x] = w /\ row'[w] = "learning"
    <3>1. x \in Created(f)
      BY <1>8, <1>12, <2>1, SessionAssumption
    <3>2. unknown
      BY <1>4, <3>1 DEF Created
    <3> QED BY <1>1, <1>6, <1>7, <3>1, <3>2 DEF TypeOK
  <2>2. ASSUME NEW x \in e.created, x \in NewCards
        PROVE  /\ row'[WordOf[x]] = "none" /\ WordOf[x] # w
               /\ \A y \in CardsOf(Cards, WordOf[x]) : ~IsInPool(cards[y])
               /\ \A y \in e.created : y \in NewCards /\ WordOf[y] = WordOf[x] => y = x
    <3>1. x \in S /\ \A y \in e.created : y \in NewCards => y \in S
      BY <1>7, <1>12, <2>2, SessionAssumption
    <3>2. c \in CardsOf(Cards, w)
      BY DEF CardsOf
    <3>3. WordOf[x] # w
      BY <1>7, <1>8, <3>1, <3>2 DEF IsInPool
    <3>4. ASSUME NEW y \in CardsOf(Cards, WordOf[x]) PROVE ~IsInPool(cards[y])
      <4>1. y \in Cards /\ y # c /\ ~IsInPool(deck(f)[y])
        BY <1>8, <3>1, <3>3 DEF CardsOf
      <4> QED BY <1>7, <4>1 DEF IsInPool, IsWaiting
    <3> QED BY <1>8, <3>1, <3>3, <3>4
  <2> QED BY <1>12, <2>1, <2>2 DEF CreatedFor
<1>16. OfItsKind(e)
  BY <1>1, <1>12 DEF OfItsKind
<1>17. AnswerGiven(e)
  BY <1>1, <1>11, <1>12, <1>13, <1>14, <1>15, <1>16 DEF AnswerGiven, Answered
<1> QED BY <1>17

(***************************************************************************)
(* What an answer does to the log and to the budgets.                      *)
(***************************************************************************)
LEMMA AnswerKeepsBooks ==
  ASSUME Books, NEW e, AnswerGiven(e)
  PROVE  /\ Books'
         /\ e \notin Standing /\ Standing' = Standing \cup {e}
         /\ \A f \in log : f.at < e.at
         /\ e.session \in Sessions => Spent(e.session) < catchUpSessionTotalCap
<1> USE DEF Books
<1>1. /\ e \in Event /\ e.at = EventAt /\ e.id = EventAt /\ e.type # "answer_undo" /\ OfItsKind(e)
      /\ e.session \in Devices /\ e.card \in Cards /\ e.at \in Nat
      /\ log' = log \cup {e} /\ cards[e.card] = "pending" /\ reply[e.session].card = e.card
      /\ cards'[e.card] = "completed" /\ parted' = parted /\ edits' = edits
  BY SessionAssumption DEF AnswerGiven, Event, Record, OfItsKind, CardsAnswered
<1>2. /\ LogIsNumbered' /\ e \notin Standing /\ Standing' = Standing \cup {e}
      /\ \A f \in log : f.at < e.at
  BY <1>1, AnswerStands DEF AnswerGiven
<1>3. /\ Standing \subseteq log
      /\ \A g \in Standing : g \in Event /\ g.card \in Cards /\ g.card # e.card
  BY <1>1, CompletedIsStanding DEF TypeOK, Event, StandingMeansDone, Done
<1>4. e.session \in Sessions => Spent(e.session) < catchUpSessionTotalCap
  BY <1>1, SessionAssumption DEF BudgetKept
<1>5. ASSUME NEW d
      PROVE  /\ Spent(d) \in Nat /\ Spent(d)' \in Nat
             /\ Spent(d)' = Spent(d) + IF Counts(e) /\ e.session = d THEN 1 ELSE 0
  BY <1>2, CountsAfterAnswer DEF Spent, Counts, IsReview, IsLearnedNew
<1>6. TypeOK'
  <2>1. log' \subseteq Event /\ cards' \in [Cards -> Statuses] /\ row' \in [Words -> RowStatuses]
    BY <1>1 DEF TypeOK, AnswerGiven, CardsAnswered, RowAnswered
  <2>2. reply' \in [Devices -> CardResponse] /\ last' \in [Devices -> Cards \cup {NoCard}]
    BY <1>1, Replies DEF TypeOK, AnswerGiven
  <2> QED BY <1>1, <2>1, <2>2 DEF TypeOK
<1>7. StandingMeansDone'
  <2>1. \A c \in Cards \ {e.card} : cards'[c] \in Done <=> cards[c] \in Done
    BY DEF AnswerGiven, CardsAnswered, Done, IsWaiting
  <2>2. ASSUME NEW g \in Standing'
        PROVE  cards'[g.card] \in Done /\ \A f \in Answers(g.card)' : f.at <= g.at
    <3>1. CASE g = e
      <4>1. \A f \in log' : f.at <= e.at
        <5>1. \A f \in log : f.at \in Nat
          BY FS_CardinalityType DEF LogIsNumbered
        <5> QED BY <1>1, <1>2, <5>1
      <4> QED BY <3>1, <4>1, <1>1 DEF Answers, Done
    <3>2. CASE g \in Standing
      <4>1. g.card \in Cards /\ g.card # e.card
        BY <3>2, <1>3
      <4>2. Answers(g.card)' = Answers(g.card)
        BY <4>1, <1>1 DEF Answers
      <4> QED BY <2>1, <3>2, <4>1, <4>2 DEF StandingMeansDone
    <3> QED BY <1>2, <3>1, <3>2
  <2>3. ASSUME NEW c \in Cards, cards'[c] \in Done
        PROVE  \E g \in Standing' : g.card = c
    <3>1. CASE c = e.card
      BY <1>2, <3>1
    <3>2. CASE c # e.card
      BY <1>2, <2>1, <2>3, <3>2 DEF StandingMeansDone
    <3> QED BY <3>1, <3>2
  <2> QED BY <2>2, <2>3 DEF StandingMeansDone
<1>8. KindsMatch'
  BY <1>1, <1>2 DEF KindsMatch
<1>9. LastStands'
  <2> SUFFICES ASSUME NEW d \in Devices, last'[d] # NoCard
               PROVE  \E g \in Standing' :
                        /\ g.card = last'[d] /\ g.session = d
                        /\ d \in Sessions /\ ~Counts(g) => Spent(d)' < catchUpSessionTotalCap
    BY DEF LastStands
  <2>1. CASE d = e.session
    <3>1. last'[d] = e.card
      BY <2>1, <1>1 DEF AnswerGiven, TypeOK
    <3>2. d \in Sessions /\ ~Counts(e) => Spent(d)' < catchUpSessionTotalCap
      BY <2>1, <1>4, <1>5
    <3> QED BY <2>1, <1>2, <3>1, <3>2
  <2>2. CASE d # e.session
    <3>1. last'[d] = last[d] /\ last[d] # NoCard
      BY <2>2, <1>1 DEF AnswerGiven, TypeOK
    <3>2. PICK g \in Standing :
            /\ g.card = last[d] /\ g.session = d
            /\ d \in Sessions /\ ~Counts(g) => Spent(d) < catchUpSessionTotalCap
      BY <3>1 DEF LastStands
    <3>3. Spent(d)' = Spent(d)
      BY <1>5, <2>2
    <3> QED BY <1>2, <3>1, <3>2, <3>3
  <2> QED BY <2>1, <2>2
<1>10. BudgetKept'
  <2>1. catchUpSessionTotalCap \in Nat /\ Sessions \subseteq Devices
    BY SessionAssumption DEF Sessions
  <2>2. \A d \in Devices : reply'[d] = IF d = e.session THEN Silent ELSE reply[d]
    BY <1>1 DEF AnswerGiven, TypeOK
  <2>3. ASSUME NEW d \in Sessions
        PROVE  /\ Spent(d)' <= catchUpSessionTotalCap
               /\ reply'[d].card # NoCard => Spent(d)' < catchUpSessionTotalCap
    <3>1. CASE d = e.session
      <4>1. Spent(d) < catchUpSessionTotalCap /\ reply'[d] = Silent
        BY <3>1, <1>4, <2>2, <2>1
      <4>2. Spent(d) \in Nat /\ (Spent(d)' = Spent(d) \/ Spent(d)' = Spent(d) + 1)
        BY <1>5
      <4>3. reply'[d].card = NoCard
        BY <4>1, Replies
      <4> QED BY <4>1, <4>2, <4>3, <2>1
    <3>2. CASE d # e.session
      <4>1. Spent(d)' = Spent(d) /\ reply'[d] = reply[d]
        BY <3>2, <1>5, <2>1, <2>2
      <4> QED BY <4>1 DEF BudgetKept
    <3> QED BY <3>1, <3>2
  <2>4. \A d \in Devices : reply'[d].card # NoCard => reply'[d].reason = NoReason
    BY <2>2, Replies DEF BudgetKept
  <2> QED BY <2>3, <2>4 DEF BudgetKept
<1> QED BY <1>2, <1>4, <1>6, <1>7, <1>8, <1>9, <1>10

(***************************************************************************)
(* A word without a card in the pool has no answer that stands, unless a   *)
(* completed card of it was removed.                                       *)
(***************************************************************************)
LEMMA NoCardNoAnswer ==
  ASSUME Books, NEW w, OneNewCard(w), \A c \in CardsOf(Cards, w) : ~IsInPool(cards[c])
  PROVE  StandingOf(w) = {}
<1>1. ASSUME NEW t \in StandingOf(w) PROVE FALSE
  <2>1. t.card \in CardsOf(Cards, w) /\ cards[t.card] \in Done
    BY CompletedIsStanding DEF StandingOf, CardsOf, Books, TypeOK, Event, StandingMeansDone
  <2>2. cards[t.card] = "completed"
    BY <2>1 DEF OneNewCard, Done
  <2> QED BY <2>1, <2>2 DEF IsInPool
<1> QED BY <1>1

(***************************************************************************)
(* The other plain words gain a new card or lose a waiting one, at most.   *)
(***************************************************************************)
LEMMA AnswerKeepsOthers ==
  ASSUME Books, NEW e, AnswerGiven(e), NEW w \in Plain, PlainWord(w), w # WordOf[e.card]
  PROVE  PlainWord(w)'
<1> USE DEF PlainWord
<1>1. /\ Standing' = Standing \cup {e} /\ e \notin Standing
      /\ row'[w] = row[w] /\ StandingOf(w)' = StandingOf(w)
  <2>1. Standing' = Standing \cup {e} /\ e \notin Standing
    BY AnswerKeepsBooks
  <2>2. row'[w] = row[w]
    BY DEF Plain, AnswerGiven, RowAnswered
  <2>3. StandingOf(w)' = StandingOf(w)
    BY <2>1 DEF StandingOf
  <2> QED BY <2>1, <2>2, <2>3
<1>2. ASSUME NEW x \in CardsOf(Cards, w)
      PROVE  \/ cards'[x] = cards[x]
             \/ x \in e.deleted /\ x \in NewCards /\ IsWaiting(cards[x]) /\ cards'[x] = "deleted"
             \/ x \in e.created /\ x \in NewCards /\ cards[x] = "undealt" /\ IsWaiting(cards'[x])
  BY DEF CardsOf, AnswerGiven, CardsAnswered, CreatedFor, Event
<1>3. ASSUME NEW x \in CardsOf(Cards, w), x \in e.created, x \in NewCards
      PROVE  /\ row[w] = "none" /\ StandingOf(w) = {}
             /\ \A y \in CardsOf(Cards, w) : ~IsInPool(cards[y])
             /\ \A y \in e.created : y \in NewCards /\ WordOf[y] = w => y = x
  <2>1. /\ row'[w] = "none" /\ \A y \in CardsOf(Cards, w) : ~IsInPool(cards[y])
        /\ \A y \in e.created : y \in NewCards /\ WordOf[y] = w => y = x
    BY <1>3 DEF CardsOf, AnswerGiven, CreatedFor
  <2> QED BY <1>1, <2>1, NoCardNoAnswer
<1>4. CardsOf(NewCards, w) \subseteq CardsOf(Cards, w) /\ CardsOf(ReviewCards, w) \subseteq CardsOf(Cards, w)
  BY DEF CardsOf, Cards
<1>5. \A x \in CardsOf(ReviewCards, w) : cards'[x] = cards[x]
  BY <1>2, <1>4, SessionAssumption DEF CardsOf
<1>6. OneNewCard(w)'
  <2>1. \A c \in CardsOf(Cards, w) : cards'[c] # "gone"
    BY <1>2 DEF OneNewCard, IsWaiting
  <2>2. ASSUME NEW c \in CardsOf(NewCards, w), NEW x \in CardsOf(NewCards, w),
               IsInPool(cards'[c]), IsInPool(cards'[x])
        PROVE  c = x
    <3>1. ASSUME NEW y \in CardsOf(NewCards, w), IsInPool(cards'[y])
          PROVE  IsInPool(cards[y]) \/ y \in e.created
      BY <1>2, <1>4, <3>1 DEF IsInPool
    <3>2. CASE c \in e.created
      BY <1>3, <1>4, <2>2, <3>1, <3>2 DEF CardsOf
    <3>3. CASE x \in e.created
      BY <1>3, <1>4, <2>2, <3>1, <3>3 DEF CardsOf
    <3>4. CASE c \notin e.created /\ x \notin e.created
      BY <2>2, <3>1, <3>4 DEF OneNewCard
    <3> QED BY <3>2, <3>3, <3>4
  <2>3. ASSUME NEW c \in CardsOf(NewCards, w), IsWaiting(cards'[c])
        PROVE  StandingOf(w) = {}
    <3>1. CASE c \in e.created
      BY <1>3, <1>4, <3>1 DEF CardsOf
    <3>2. CASE c \notin e.created
      <4>1. IsWaiting(cards[c])
        BY <1>2, <1>4, <2>3, <3>2 DEF IsWaiting
      <4> QED BY <4>1 DEF OneNewCard
    <3> QED BY <3>1, <3>2
  <2> QED BY <1>1, <2>1, <2>2, <2>3 DEF OneNewCard
<1>7. RowFollowsAnswers(w)'
  <2>1. ASSUME NEW c \in CardsOf(NewCards, w), cards'[c] # "undealt"
        PROVE  row[w] = "none" \/ \E t \in StandingOf(w) : t.card \in NewCards
    <3>1. CASE c \in e.created
      BY <1>3, <1>4, <3>1 DEF CardsOf
    <3>2. CASE c \notin e.created
      <4>1. cards[c] # "undealt"
        BY <1>2, <1>4, <2>1, <3>2 DEF IsWaiting
      <4> QED BY <4>1 DEF RowFollowsAnswers
    <3> QED BY <3>1, <3>2
  <2>2. /\ \A t \in StandingOf(w) : t.card \in NewCards => row[w] = RowAfter(t) /\ t.prev = "none"
        /\ \A t \in StandingOf(w) : t.card \notin NewCards => t.prev = row[w]
        /\ \A t \in StandingOf(w) : t.card \in ReviewCards => row[w] = "learning"
    BY DEF RowFollowsAnswers
  <2> QED BY <1>1, <2>1, <2>2 DEF RowFollowsAnswers
<1>8. ReviewsFollow(w)'
  BY <1>1, <1>5 DEF ReviewsFollow
<1>9. TrimmedBefore(w)'
  <2>1. ASSUME NEW x \in e.deleted, WordOf[x] = w
        PROVE  /\ x \in CardsOf(NewCards, w) /\ IsWaiting(cards[x]) /\ IsInPool(cards[x])
    BY <2>1 DEF AnswerGiven, CardsAnswered, Event, CardsOf, IsWaiting, IsInPool
  <2>2. ASSUME NEW x \in e.deleted, WordOf[x] = w
        PROVE  /\ \A y \in e.deleted : WordOf[y] = w => x = y
               /\ StandingOf(w) = {}
    BY <2>1, <2>2 DEF OneNewCard
  <2> QED BY <1>1, <2>2 DEF TrimmedBefore
<1> QED BY <1>6, <1>7, <1>8, <1>9

(***************************************************************************)
(* The answer of a new card is the first of its word that stands, and a    *)
(* review or practice finds the row as it leaves it.                       *)
(***************************************************************************)
LEMMA AnswerKeepsItsWord ==
  ASSUME Books, NEW e, AnswerGiven(e), NEW w \in Plain, PlainWord(w), w = WordOf[e.card]
  PROVE  PlainWord(w)'
<1> USE DEF PlainWord
<1>1. /\ Standing' = Standing \cup {e} /\ e \notin Standing
      /\ StandingOf(w)' = StandingOf(w) \cup {e} /\ StandingOf(w) \subseteq Standing
      /\ \A g \in Standing : g.at < e.at
  BY AnswerKeepsBooks, CompletedIsStanding DEF StandingOf
<1>2. /\ e.card \in CardsOf(Cards, w) /\ cards[e.card] = "pending" /\ cards'[e.card] = "completed"
      /\ e.card \notin e.deleted /\ e.at \in Int
  BY SessionAssumption DEF CardsOf, AnswerGiven, CardsAnswered, Event
<1>3. ASSUME NEW x \in CardsOf(Cards, w), x # e.card
      PROVE  \/ cards'[x] = cards[x]
             \/ x \in e.deleted /\ x \in NewCards /\ IsWaiting(cards[x]) /\ cards'[x] = "deleted"
             \/ x \in e.created /\ x \in ReviewCards /\ cards[x] = "undealt" /\ IsWaiting(cards'[x])
  BY <1>3 DEF CardsOf, AnswerGiven, CardsAnswered, CreatedFor, Event
<1>4. \A x \in e.created : x \in CardsOf(ReviewCards, w) => row'[w] = "learning"
  BY DEF CardsOf, AnswerGiven, CreatedFor
<1>5. CardsOf(NewCards, w) \subseteq CardsOf(Cards, w) /\ CardsOf(ReviewCards, w) \subseteq CardsOf(Cards, w)
  BY DEF CardsOf, Cards
<1>6. \A x \in e.deleted : WordOf[x] = w =>
        x \in CardsOf(NewCards, w) /\ x # e.card /\ IsWaiting(cards[x]) /\ IsInPool(cards[x])
  BY <1>2 DEF CardsOf, AnswerGiven, CardsAnswered, Event, IsInPool, IsWaiting
<1>7. \A c \in CardsOf(Cards, w) : cards'[c] # "gone"
  BY <1>2, <1>3 DEF OneNewCard, IsWaiting
<1>8. \A c \in CardsOf(NewCards, w) : c # e.card => cards'[c] = cards[c] \/ cards'[c] = "deleted"
  BY <1>3, <1>5, SessionAssumption DEF CardsOf
<1>9. \A c, x \in CardsOf(NewCards, w) : IsInPool(cards'[c]) /\ IsInPool(cards'[x]) => c = x
  <2>1. \A c \in CardsOf(NewCards, w) : IsInPool(cards'[c]) => IsInPool(cards[c])
    BY <1>2, <1>8 DEF IsInPool
  <2> QED BY <2>1 DEF OneNewCard
<1>10. ASSUME \A x \in e.deleted : WordOf[x] # w PROVE TrimmedBefore(w)'
  <2>1. ASSUME NEW g \in Standing, NEW x \in g.deleted, WordOf[x] = w
        PROVE  /\ \A y \in g.deleted : WordOf[y] = w => x = y
               /\ \A s \in StandingOf(w) \cup {e} : g.at < s.at
    BY <1>1, <2>1 DEF TrimmedBefore
  <2> QED BY <1>1, <1>10, <2>1 DEF TrimmedBefore
<1>11. CASE e.card \in NewCards
  <2>1. StandingOf(w) = {} /\ row[w] = "none" /\ e.card \in CardsOf(NewCards, w)
    BY <1>2, <1>11 DEF OneNewCard, RowFollowsAnswers, CardsOf, IsWaiting
  <2>2. StandingOf(w)' = {e}
    BY <1>1, <2>1
  <2>3. row'[w] = RowAfter(e) /\ e.prev = "none"
    BY <1>11, <2>1 DEF AnswerGiven, RowAnswered
  <2>4. ASSUME NEW x \in CardsOf(ReviewCards, w), IsInPool(cards'[x])
        PROVE  x \in e.created
    <3>1. x \in CardsOf(Cards, w) /\ x # e.card
      BY <1>5, <1>11, SessionAssumption DEF CardsOf
    <3>2. ~IsWaiting(cards[x])
      BY <2>1 DEF ReviewsFollow
    <3>3. cards[x] # "completed"
      <4>1. x \in Cards /\ WordOf[x] = w
        BY <3>1 DEF CardsOf
      <4> QED BY <2>1, <4>1 DEF Books, StandingMeansDone, Done, StandingOf
    <3>4. ~IsInPool(cards[x])
      BY <3>2, <3>3 DEF IsInPool, IsWaiting
    <3> QED BY <1>3, <2>4, <3>1, <3>4 DEF IsInPool
  <2>5. \A c \in CardsOf(NewCards, w) : ~IsWaiting(cards'[c])
    <3>1. \A c \in CardsOf(NewCards, w) : c # e.card => ~IsWaiting(cards[c])
      BY <1>2, <2>1 DEF OneNewCard, IsInPool, IsWaiting
    <3> QED BY <1>2, <1>8, <3>1 DEF IsWaiting
  <2>6. OneNewCard(w)'
    BY <1>7, <1>9, <2>5 DEF OneNewCard
  <2>7. RowFollowsAnswers(w)'
    BY <1>11, <2>2, <2>3, SessionAssumption DEF RowFollowsAnswers
  <2>8. ReviewsFollow(w)'
    <3>1. \A x \in CardsOf(ReviewCards, w) : IsWaiting(cards'[x]) => row'[w] = "learning"
      BY <1>4, <2>4 DEF IsInPool, IsWaiting
    <3> QED BY <1>2, <2>2, <2>4, <3>1 DEF ReviewsFollow
  <2>9. \A x \in e.deleted : WordOf[x] # w
    BY <1>2, <1>6, <2>1 DEF OneNewCard, IsInPool
  <2> QED BY <1>10, <2>6, <2>7, <2>8, <2>9
<1>12. CASE e.card \notin NewCards
  <2>1. row[w] # "none" /\ e.prev = row[w]
    BY <1>12 DEF AnswerGiven, RowAnswered
  <2>2. e.card \in ReviewCards => row[w] = "learning"
    BY <1>2 DEF ReviewsFollow, CardsOf, IsWaiting
  <2>3. row'[w] = row[w]
    BY <1>12, <2>2 DEF AnswerGiven, RowAnswered
  <2>4. \A c \in CardsOf(NewCards, w) : ~IsWaiting(cards[c])
    BY <2>1 DEF OneNewCard, RowFollowsAnswers, IsWaiting
  <2>5. \A c \in CardsOf(NewCards, w) : cards'[c] = cards[c]
    BY <1>3, <1>5, <1>12, <2>4, SessionAssumption DEF CardsOf
  <2>6. OneNewCard(w)'
    BY <1>7, <1>9, <2>4, <2>5 DEF OneNewCard
  <2>7. RowFollowsAnswers(w)'
    <3>1. \A c \in CardsOf(NewCards, w) :
            cards'[c] # "undealt" => \E t \in StandingOf(w) : t.card \in NewCards
      BY <2>1, <2>5 DEF RowFollowsAnswers
    <3>2. \A t \in StandingOf(w) \cup {e} : t.card \in NewCards => row'[w] = RowAfter(t) /\ t.prev = "none"
      BY <1>12, <2>3 DEF RowFollowsAnswers
    <3>3. \A t \in StandingOf(w) \cup {e} : t.card \notin NewCards => t.prev = row'[w]
      BY <2>1, <2>3 DEF RowFollowsAnswers
    <3>4. \A t \in StandingOf(w) \cup {e} : t.card \in ReviewCards => row'[w] = "learning"
      BY <2>2, <2>3 DEF RowFollowsAnswers
    <3> QED BY <1>1, <3>1, <3>2, <3>3, <3>4 DEF RowFollowsAnswers
  <2>8. ReviewsFollow(w)'
    <3>1. \A t, s \in StandingOf(w) \cup {e} : t.card \in NewCards => t.at <= s.at
      <4>1. \A t \in StandingOf(w) : t.at \in Int
        BY <1>1, CompletedIsStanding, SessionAssumption DEF Books, TypeOK, Event
      <4> QED BY <1>1, <1>2, <1>12, <4>1 DEF ReviewsFollow
    <3>2. ASSUME NEW x \in CardsOf(ReviewCards, w)
          PROVE  IsInPool(cards'[x]) => IsInPool(cards[x]) \/ x \in e.created
      BY <1>2, <1>3, <1>5 DEF IsInPool
    <3>3. \A x \in CardsOf(ReviewCards, w) : IsWaiting(cards'[x]) => row'[w] = "learning"
      BY <1>2, <1>3, <1>4, <1>5, <2>3 DEF ReviewsFollow, IsWaiting
    <3>4. ASSUME NEW x \in CardsOf(ReviewCards, w), NEW t \in StandingOf(w) \cup {e},
                 IsInPool(cards'[x]), t.card \in NewCards
          PROVE  \E s \in StandingOf(w) \cup {e} : x \in s.created
      BY <1>12, <3>2, <3>4 DEF ReviewsFollow
    <3> QED BY <1>1, <3>1, <3>3, <3>4 DEF ReviewsFollow
  <2>9. \A x \in e.deleted : WordOf[x] # w
    BY <1>6, <2>4
  <2> QED BY <1>10, <2>6, <2>7, <2>8, <2>9
<1> QED BY <1>11, <1>12

LEMMA AnswerPreserves ==
  ASSUME IInv, NEW e, AnswerGiven(e)
  PROVE  IInv'
<1>1. Plain' = Plain
  BY DEF Plain, AnswerGiven
<1> QED BY <1>1, AnswerKeepsBooks, AnswerKeepsOthers, AnswerKeepsItsWord DEF IInv

---------------------------------------------------------------------------
(* An undo *)

\* What UndoLastAnswer does, in terms of the standing answer e it takes back.
IsLastOne(e) ==
  /\ cards[e.card] = "completed"
  /\ \A s \in Standing : cards[s.card] = "completed" => s.at <= e.at

AnswerTaken(d, e) ==
  /\ e.session = d /\ e.card = last[d] /\ IsLastOne(e)
  /\ d \in Sessions /\ ~Counts(e) => Spent(d) < catchUpSessionTotalCap
  /\ LogIsNumbered' /\ Standing' = Standing \ {e}
  /\ \E u \in Event : u.type = "answer_undo" /\ log' = log \cup {u}
  /\ \A x \in e.created : IsWaiting(cards[x])
  /\ \A x \in e.deleted : cards[x] = "deleted"
  /\ cards' = TakenBack(e, e.deleted \cup {e.card})
  /\ row' = [row EXCEPT ![WordOf[e.card]] = e.prev]
  /\ reply' = [reply EXCEPT ![d] = Shown(e.card)]
  /\ last' = [last EXCEPT ![d] = NoCard]
  /\ parted' = parted \cup DealtAgain(e.deleted) /\ edits' = edits

(***************************************************************************)
(* The event an undo finds is the answer of the device that stands, and    *)
(* the last one of the cards that are completed.                           *)
(***************************************************************************)
LEMMA UndoneStands ==
  ASSUME Books, NEW d \in Devices, NEW e, Undoes(d, e)
  PROVE  /\ e \in Standing /\ e.session = d /\ e.card = last[d] /\ IsLastOne(e)
         /\ d \in Sessions /\ ~Counts(e) => Spent(d) < catchUpSessionTotalCap
         /\ \A x \in e.created : IsWaiting(cards[x])
<1> USE DEF Books
<1>1. last[d] # NoCard /\ IsLastCompleted(last[d]) /\ e = Latest(Answers(last[d]))
  BY DEF Undoes
<1>2. PICK s \in Standing :
        /\ s.card = last[d] /\ s.session = d
        /\ d \in Sessions /\ ~Counts(s) => Spent(d) < catchUpSessionTotalCap
  BY <1>1 DEF LastStands
<1>3. e = s
  BY <1>1, <1>2, LatestStands
<1>4. IsLastOne(e)
  <2>1. ASSUME NEW t \in Standing, cards[t.card] = "completed" PROVE t.at <= e.at
    <3>1. t.card \in Cards /\ Latest(Answers(t.card)) = t
      BY CompletedIsStanding, LatestStands DEF TypeOK, Event
    <3> QED BY <1>1, <2>1, <3>1 DEF IsLastCompleted
  <2> QED BY <1>1, <1>2, <1>3, <2>1 DEF IsLastOne, IsLastCompleted
<1>5. \A x \in e.created : IsWaiting(cards[x])
  BY DEF Undoes, Waiting, IsWaiting
<1> QED BY <1>2, <1>3, <1>4, <1>5

LEMMA UndoTakesAnswer ==
  ASSUME Books, NEW d \in Devices, UndoLastAnswer(d)
  PROVE  \E e \in Standing : AnswerTaken(d, e)
<1> USE DEF Books
<1> DEFINE undo(e) == [at |-> EventAt, type |-> "answer_undo", unknown |-> FALSE, id |-> e.id,
                       session |-> d, card |-> e.card, prev |-> row[WordOf[e.card]],
                       created |-> {}, deleted |-> {}]
<1>1. PICK e \in log :
        /\ Undoes(d, e) /\ Record(undo(e))
        /\ \A x \in e.deleted : cards[x] = "deleted"
        /\ cards' = TakenBack(e, e.deleted \cup {e.card})
        /\ row' = [row EXCEPT ![WordOf[e.card]] = e.prev]
        /\ reply' = [reply EXCEPT ![d] = Shown(e.card)]
        /\ last' = [last EXCEPT ![d] = NoCard]
        /\ parted' = parted \cup DealtAgain(e.deleted) /\ edits' = edits
  BY DEF UndoLastAnswer, Shown
<1>2. /\ e \in Standing /\ e.session = d /\ e.card = last[d] /\ IsLastOne(e)
      /\ d \in Sessions /\ ~Counts(e) => Spent(d) < catchUpSessionTotalCap
      /\ \A x \in e.created : IsWaiting(cards[x])
  BY <1>1, UndoneStands
<1> DEFINE u == undo(e)
<1>3. LogIsNumbered' /\ Standing' = Standing \ {e} /\ EventAt \in 1..MaxEvents
  <2>1. Record(u) /\ u.at = EventAt /\ u.id = e.id /\ u.type = "answer_undo"
    BY <1>1
  <2> HIDE DEF u
  <2> QED BY <1>2, <2>1, UndoFalls
<1>4. e \in Event /\ row[WordOf[e.card]] \in RowStatuses
  BY SessionAssumption DEF TypeOK, Event
<1>5. u \in Event
  BY <1>3, <1>4 DEF Event
<1>6. log' = log \cup {u} /\ u.type = "answer_undo"
  BY <1>1 DEF Record
<1> HIDE DEF u, undo
<1> QED BY <1>1, <1>2, <1>3, <1>5, <1>6 DEF AnswerTaken

(***************************************************************************)
(* What an undo does to the log and to the budgets.                        *)
(***************************************************************************)
LEMMA UndoKeepsBooks ==
  ASSUME Books, NEW d \in Devices, NEW e \in Standing, AnswerTaken(d, e)
  PROVE  Books'
<1> USE DEF Books
<1>1. PICK u \in Event : u.type = "answer_undo" /\ log' = log \cup {u}
  BY DEF AnswerTaken
<1>2. /\ LogIsNumbered' /\ Standing' = Standing \ {e}
      /\ e.session = d /\ e.card = last[d] /\ cards[e.card] = "completed"
      /\ reply' = [reply EXCEPT ![d] = Shown(e.card)] /\ last' = [last EXCEPT ![d] = NoCard]
      /\ \A x \in e.created : IsWaiting(cards[x])
      /\ \A x \in e.deleted : cards[x] = "deleted"
  BY DEF AnswerTaken, IsLastOne
<1>3. /\ Standing \subseteq log /\ e \in Event /\ e.card \in Cards
      /\ \A g \in Standing : g \in Event /\ g.card \in Cards
  BY CompletedIsStanding DEF TypeOK, Event
<1>4. /\ cards' \in [Cards -> Statuses]
      /\ \A x \in Cards : cards'[x] = IF x \in e.created THEN "deleted"
                                      ELSE IF x \in e.deleted \cup {e.card} THEN "pending" ELSE cards[x]
  BY DEF AnswerTaken, TakenBack, TypeOK, Statuses
<1>5. \A g \in Standing : g.card = e.card => g = e
  BY LatestStands
<1>6. \A x \in Cards : cards'[x] \in Done <=> cards[x] \in Done /\ x # e.card
  BY <1>2, <1>4 DEF Done, IsWaiting
<1>7. ASSUME NEW s
      PROVE  /\ Spent(s) \in Nat /\ Spent(s)' \in Nat
             /\ Spent(s) = Spent(s)' + IF Counts(e) /\ e.session = s THEN 1 ELSE 0
  BY <1>2, CountsAfterUndo DEF Spent, Counts, IsReview, IsLearnedNew
<1>8. TypeOK'
  <2>1. log' \subseteq Event
    BY <1>1 DEF TypeOK
  <2>2. row' \in [Words -> RowStatuses]
    BY <1>3 DEF AnswerTaken, TypeOK, Event
  <2>3. reply' \in [Devices -> CardResponse] /\ last' \in [Devices -> Cards \cup {NoCard}]
    BY <1>2, <1>3, Replies DEF TypeOK
  <2>4. parted' \subseteq Words /\ edits' \in 0..MaxEdits
    <3>1. \A x \in e.deleted : x \in Cards
      BY <1>3 DEF Event, Cards
    <3> QED BY <3>1, SessionAssumption DEF AnswerTaken, TypeOK, DealtAgain
  <2> QED BY <1>4, <2>1, <2>2, <2>3, <2>4 DEF TypeOK
<1>9. StandingMeansDone'
  <2>1. ASSUME NEW g \in Standing'
        PROVE  cards'[g.card] \in Done /\ \A f \in Answers(g.card)' : f.at <= g.at
    <3>1. g \in Standing /\ g.card \in Cards /\ g.card # e.card
      BY <1>2, <1>3, <1>5
    <3>2. Answers(g.card)' = Answers(g.card)
      BY <1>1 DEF Answers
    <3> QED BY <1>6, <3>1, <3>2 DEF StandingMeansDone
  <2>2. ASSUME NEW c \in Cards, cards'[c] \in Done
        PROVE  \E g \in Standing' : g.card = c
    BY <1>2, <1>6, <2>2 DEF StandingMeansDone
  <2> QED BY <2>1, <2>2 DEF StandingMeansDone
<1>10. KindsMatch'
  BY <1>2 DEF KindsMatch
<1>11. LastStands'
  <2> SUFFICES ASSUME NEW s \in Devices, last'[s] # NoCard
               PROVE  \E g \in Standing' :
                        /\ g.card = last'[s] /\ g.session = s
                        /\ s \in Sessions /\ ~Counts(g) => Spent(s)' < catchUpSessionTotalCap
    BY DEF LastStands
  <2>1. s # d /\ last'[s] = last[s]
    BY <1>2 DEF TypeOK
  <2>2. PICK g \in Standing :
          /\ g.card = last[s] /\ g.session = s
          /\ s \in Sessions /\ ~Counts(g) => Spent(s) < catchUpSessionTotalCap
    BY <2>1 DEF LastStands
  <2>3. g # e /\ Spent(s)' = Spent(s)
    BY <1>2, <1>7, <2>1, <2>2
  <2> QED BY <1>2, <2>1, <2>2, <2>3
<1>12. BudgetKept'
  <2>1. catchUpSessionTotalCap \in Nat /\ Sessions \subseteq Devices
    BY SessionAssumption DEF Sessions
  <2>2. \A s \in Devices : reply'[s] = IF s = d THEN Shown(e.card) ELSE reply[s]
    BY <1>2 DEF TypeOK
  <2>3. ASSUME NEW s \in Sessions
        PROVE  /\ Spent(s)' <= catchUpSessionTotalCap
               /\ reply'[s].card # NoCard => Spent(s)' < catchUpSessionTotalCap
    <3>1. CASE s = d
      <4>1. Spent(s) <= catchUpSessionTotalCap
        BY DEF BudgetKept
      <4>2. Spent(s) \in Nat /\ Spent(s)' \in Nat
        BY <1>7
      <4>3. CASE Counts(e)
        <5>1. Spent(s) = Spent(s)' + 1
          BY <1>2, <1>7, <3>1, <4>3
        <5> QED BY <2>1, <4>1, <4>2, <5>1
      <4>4. CASE ~Counts(e)
        <5>1. Spent(s)' = Spent(s) /\ Spent(s) < catchUpSessionTotalCap
          BY <1>7, <3>1, <4>4 DEF AnswerTaken
        <5> QED BY <2>1, <4>2, <5>1
      <4> QED BY <4>3, <4>4
    <3>2. CASE s # d
      <4>1. Spent(s)' = Spent(s) /\ reply'[s] = reply[s]
        BY <3>2, <1>2, <1>7, <2>1, <2>2
      <4> QED BY <4>1 DEF BudgetKept
    <3> QED BY <3>1, <3>2
  <2>4. \A s \in Devices : reply'[s].card # NoCard => reply'[s].reason = NoReason
    <3>1. \A s \in Devices : s = d => reply'[s].reason = NoReason
      BY <2>2, Replies
    <3> QED BY <2>2, <3>1 DEF BudgetKept
  <2> QED BY <2>3, <2>4 DEF BudgetKept
<1> QED BY <1>2, <1>8, <1>9, <1>10, <1>11, <1>12

(***************************************************************************)
(* The last of the answers that stand trimmed only words none of whose     *)
(* answers stand, and their rows are gone.                                 *)
(***************************************************************************)
LEMMA PutBackIsNew ==
  ASSUME Books, NEW w, PlainWord(w), NEW e \in Standing, IsLastOne(e),
         NEW x \in e.deleted, WordOf[x] = w, cards[x] = "deleted"
  PROVE  /\ x \in CardsOf(NewCards, w) /\ w # WordOf[e.card]
         /\ StandingOf(w) = {} /\ row[w] = "none"
         /\ \A y \in e.deleted : WordOf[y] = w => x = y
<1>1. e \in Event /\ e.card \in Cards /\ e.at \in Int
  BY CompletedIsStanding, SessionAssumption DEF Books, TypeOK, Event
<1>2. x \in CardsOf(NewCards, w)
  BY <1>1 DEF Event, CardsOf
<1>3. ASSUME NEW s \in StandingOf(w) PROVE FALSE
  <2>1. s \in Standing /\ s.card \in CardsOf(Cards, w) /\ s.at \in Int
    BY CompletedIsStanding, SessionAssumption DEF StandingOf, CardsOf, Books, TypeOK, Event
  <2>2. cards[s.card] = "completed"
    BY <2>1 DEF Books, StandingMeansDone, Done, PlainWord, OneNewCard
  <2>3. s.at <= e.at
    BY <2>1, <2>2 DEF IsLastOne
  <2>4. e.at < s.at
    BY DEF PlainWord, TrimmedBefore
  <2> QED BY <1>1, <2>1, <2>3, <2>4
<1>4. w # WordOf[e.card]
  BY <1>3 DEF StandingOf
<1>5. row[w] = "none"
  BY <1>2, <1>3 DEF PlainWord, RowFollowsAnswers
<1>6. \A y \in e.deleted : WordOf[y] = w => x = y
  BY DEF PlainWord, TrimmedBefore
<1> QED BY <1>2, <1>3, <1>4, <1>5, <1>6

(***************************************************************************)
(* The other words keep their answers; one that gets its trimmed card back *)
(* has no other.                                                           *)
(***************************************************************************)
LEMMA UndoKeepsOthers ==
  ASSUME Books, NEW d \in Devices, NEW e \in Standing, AnswerTaken(d, e),
         NEW w \in Plain', PlainWord(w), w # WordOf[e.card]
  PROVE  PlainWord(w)'
<1> USE DEF PlainWord
<1>1. w \in Words /\ w \notin DealtAgain(e.deleted) /\ Standing' = Standing \ {e} /\ IsLastOne(e)
  BY DEF Plain, AnswerTaken
<1>2. StandingOf(w)' = StandingOf(w) /\ row'[w] = row[w]
  <2>1. row'[w] = row[w]
    BY DEF AnswerTaken, Books, TypeOK
  <2> QED BY <1>1, <2>1 DEF StandingOf
<1>3. CardsOf(NewCards, w) \subseteq CardsOf(Cards, w) /\ CardsOf(ReviewCards, w) \subseteq CardsOf(Cards, w)
  BY DEF CardsOf, Cards
<1>4. ASSUME NEW x \in CardsOf(Cards, w)
      PROVE  \/ cards'[x] = cards[x]
             \/ IsWaiting(cards[x]) /\ cards'[x] = "deleted"
             \/ x \in e.deleted /\ x \in NewCards /\ cards[x] = "deleted" /\ cards'[x] = "pending"
  <2>1. x \in Cards /\ x # e.card /\ (x \in e.deleted => x \in NewCards)
    BY CompletedIsStanding DEF CardsOf, Books, TypeOK, Event
  <2> QED BY <2>1 DEF AnswerTaken, TakenBack
<1>5. ASSUME NEW x \in e.deleted, x \in CardsOf(NewCards, w)
      PROVE  /\ StandingOf(w) = {} /\ row[w] = "none"
             /\ \A y \in e.deleted : WordOf[y] = w => x = y
             /\ \A y \in CardsOf(NewCards, w) : ~IsInPool(cards[y])
  <2>1. WordOf[x] = w /\ cards[x] = "deleted"
    BY <1>5 DEF CardsOf, AnswerTaken
  <2>2. Rivals(x) = {}
    BY <1>1, <2>1 DEF DealtAgain
  <2>3. \A y \in CardsOf(NewCards, w) : ~IsInPool(cards[y])
    BY <2>1, <2>2 DEF Rivals, InPool, IsInPool
  <2> QED BY <1>1, <2>1, <2>3, PutBackIsNew
<1>6. OneNewCard(w)'
  <2>1. \A c \in CardsOf(Cards, w) : cards'[c] # "gone"
    BY <1>4 DEF OneNewCard
  <2>2. ASSUME NEW c \in CardsOf(NewCards, w), IsInPool(cards'[c])
        PROVE  IsInPool(cards[c]) \/ c \in e.deleted
    BY <1>3, <1>4, <2>2 DEF IsInPool
  <2>3. ASSUME NEW c \in CardsOf(NewCards, w), NEW x \in CardsOf(NewCards, w),
               IsInPool(cards'[c]), IsInPool(cards'[x])
        PROVE  c = x
    <3>1. CASE c \in e.deleted
      BY <1>5, <2>2, <2>3, <3>1 DEF CardsOf
    <3>2. CASE x \in e.deleted
      BY <1>5, <2>2, <2>3, <3>2 DEF CardsOf
    <3>3. CASE c \notin e.deleted /\ x \notin e.deleted
      BY <2>2, <2>3, <3>3 DEF OneNewCard
    <3> QED BY <3>1, <3>2, <3>3
  <2>4. ASSUME NEW c \in CardsOf(NewCards, w), IsWaiting(cards'[c])
        PROVE  StandingOf(w) = {}
    <3>1. CASE c \in e.deleted
      BY <1>5, <3>1
    <3>2. CASE c \notin e.deleted
      <4>1. IsWaiting(cards[c])
        BY <1>3, <1>4, <2>4, <3>2 DEF IsWaiting
      <4> QED BY <4>1 DEF OneNewCard
    <3> QED BY <3>1, <3>2
  <2> QED BY <1>2, <2>1, <2>3, <2>4 DEF OneNewCard
<1>7. RowFollowsAnswers(w)'
  <2>1. \A c \in CardsOf(NewCards, w) : cards'[c] # "undealt" => cards[c] # "undealt"
    BY <1>3, <1>4 DEF IsWaiting
  <2> QED BY <1>2, <2>1 DEF RowFollowsAnswers
<1>8. ReviewsFollow(w)'
  <2>1. \A x \in CardsOf(ReviewCards, w) : cards'[x] = cards[x] \/ cards'[x] = "deleted"
    BY <1>3, <1>4, SessionAssumption DEF CardsOf
  <2> QED BY <1>2, <2>1 DEF ReviewsFollow, IsInPool, IsWaiting
<1>9. TrimmedBefore(w)'
  BY <1>1, <1>2 DEF TrimmedBefore
<1> QED BY <1>6, <1>7, <1>8, <1>9

(***************************************************************************)
(* The word of the answer is back where it was: without a row, if its new  *)
(* card is open again.                                                     *)
(***************************************************************************)
LEMMA UndoKeepsItsWord ==
  ASSUME Books, NEW d \in Devices, NEW e \in Standing, AnswerTaken(d, e),
         NEW w \in Plain', PlainWord(w), w = WordOf[e.card]
  PROVE  PlainWord(w)'
<1> USE DEF PlainWord
<1>1. /\ w \in Words /\ Standing' = Standing \ {e} /\ IsLastOne(e)
      /\ StandingOf(w)' = StandingOf(w) \ {e} /\ e \in StandingOf(w)
  BY DEF Plain, AnswerTaken, StandingOf
<1>2. e \in Event /\ e.card \in CardsOf(Cards, w) /\ e.at \in Int
  BY CompletedIsStanding, SessionAssumption DEF CardsOf, Books, TypeOK, Event
<1>3. CardsOf(NewCards, w) \subseteq CardsOf(Cards, w) /\ CardsOf(ReviewCards, w) \subseteq CardsOf(Cards, w)
  BY DEF CardsOf, Cards
<1>4. ASSUME NEW x \in e.deleted PROVE WordOf[x] # w
  BY <1>1, PutBackIsNew DEF AnswerTaken
<1>5. cards'[e.card] = "pending" /\ cards[e.card] = "completed"
  BY <1>1, <1>2 DEF AnswerTaken, TakenBack, IsLastOne, IsWaiting, CardsOf
<1>6. ASSUME NEW x \in CardsOf(Cards, w), x # e.card
      PROVE  \/ cards'[x] = cards[x] /\ x \notin e.created
             \/ x \in e.created /\ IsWaiting(cards[x]) /\ cards'[x] = "deleted"
  BY <1>4, <1>6 DEF CardsOf, AnswerTaken, TakenBack
<1>7. row'[w] = e.prev
  BY <1>1 DEF AnswerTaken, Books, TypeOK
<1>8. \A c \in CardsOf(Cards, w) : cards'[c] # "gone"
  BY <1>5, <1>6 DEF OneNewCard
<1>9. \A c, x \in CardsOf(NewCards, w) : IsInPool(cards'[c]) /\ IsInPool(cards'[x]) => c = x
  <2>1. \A c \in CardsOf(NewCards, w) : IsInPool(cards'[c]) => IsInPool(cards[c])
    BY <1>3, <1>5, <1>6 DEF IsInPool
  <2> QED BY <2>1 DEF OneNewCard
<1>10. TrimmedBefore(w)'
  BY <1>1 DEF TrimmedBefore
<1>11. CASE e.card \in NewCards
  <2>1. StandingOf(w) = {e}
    <3>1. ASSUME NEW s \in StandingOf(w) PROVE s = e
      <4>1. s \in Standing /\ s.card \in CardsOf(Cards, w) /\ s.at \in Int /\ s \in log /\ e \in log
        BY CompletedIsStanding, SessionAssumption DEF StandingOf, CardsOf, Books, TypeOK, Event
      <4>2. cards[s.card] = "completed"
        BY <4>1 DEF Books, StandingMeansDone, Done, OneNewCard
      <4>3. s.at <= e.at
        BY <1>1, <4>1, <4>2 DEF IsLastOne
      <4>4. e.at <= s.at
        BY <1>1, <1>11 DEF ReviewsFollow
      <4> QED BY <1>2, <4>1, <4>3, <4>4 DEF Books, LogIsNumbered
    <3> QED BY <1>1, <3>1
  <2>2. row'[w] = "none" /\ StandingOf(w)' = {}
    BY <1>1, <1>7, <1>11, <2>1 DEF RowFollowsAnswers
  <2>3. \A x \in CardsOf(ReviewCards, w) : ~IsWaiting(cards'[x])
    <3>1. ASSUME NEW x \in CardsOf(ReviewCards, w), IsWaiting(cards'[x]) PROVE FALSE
      <4>1. x # e.card /\ x \in CardsOf(Cards, w)
        BY <1>3, <1>11, SessionAssumption DEF CardsOf
      <4>2. cards'[x] = cards[x] /\ x \notin e.created
        BY <1>6, <3>1, <4>1 DEF IsWaiting
      <4>3. IsInPool(cards[x])
        BY <3>1, <4>2 DEF IsWaiting, IsInPool
      <4> QED BY <1>1, <1>11, <2>1, <4>2, <4>3 DEF ReviewsFollow
    <3> QED BY <3>1
  <2>4. OneNewCard(w)'
    BY <1>8, <1>9, <2>2 DEF OneNewCard
  <2>5. RowFollowsAnswers(w)'
    BY <2>2 DEF RowFollowsAnswers
  <2>6. ReviewsFollow(w)'
    BY <2>2, <2>3 DEF ReviewsFollow
  <2> QED BY <1>10, <2>4, <2>5, <2>6
<1>12. CASE e.card \notin NewCards
  <2>1. row'[w] = row[w] /\ (e.card \in ReviewCards => row[w] = "learning")
    BY <1>1, <1>7, <1>12 DEF RowFollowsAnswers
  <2>2. \A c \in CardsOf(NewCards, w) : cards'[c] = cards[c] \/ IsWaiting(cards[c])
    BY <1>3, <1>6, <1>12 DEF CardsOf
  <2>3. \A c \in CardsOf(NewCards, w) : ~IsWaiting(cards[c])
    BY <1>1 DEF OneNewCard
  <2>4. OneNewCard(w)'
    BY <1>8, <1>9, <2>2, <2>3 DEF OneNewCard
  <2>5. RowFollowsAnswers(w)'
    <3>1. \A c \in CardsOf(NewCards, w) : cards'[c] # "undealt" =>
            row[w] = "none" \/ \E t \in StandingOf(w) \ {e} : t.card \in NewCards
      BY <1>12, <2>2, <2>3 DEF RowFollowsAnswers
    <3> QED BY <1>1, <2>1, <3>1 DEF RowFollowsAnswers
  <2>6. ReviewsFollow(w)'
    <3>1. \A x \in CardsOf(ReviewCards, w) : IsWaiting(cards'[x]) => row[w] = "learning"
      BY <1>3, <1>6, <2>1 DEF ReviewsFollow, CardsOf, IsWaiting
    <3>2. ASSUME NEW x \in CardsOf(ReviewCards, w), NEW t \in StandingOf(w) \ {e},
                 IsInPool(cards'[x]), t.card \in NewCards
          PROVE  \E s \in StandingOf(w) \ {e} : x \in s.created
      <4>1. IsInPool(cards[x]) /\ x \notin e.created
        <5>1. CASE x = e.card
          BY <1>5, <5>1 DEF IsInPool, AnswerTaken, IsWaiting
        <5>2. CASE x # e.card
          BY <1>3, <1>6, <3>2, <5>2 DEF IsInPool
        <5> QED BY <5>1, <5>2
      <4> QED BY <3>2, <4>1 DEF ReviewsFollow
    <3> QED BY <1>1, <2>1, <3>1, <3>2 DEF ReviewsFollow
  <2> QED BY <1>10, <2>4, <2>5, <2>6
<1> QED BY <1>11, <1>12

LEMMA UndoPreserves ==
  ASSUME IInv, NEW d \in Devices, NEW e \in Standing, AnswerTaken(d, e)
  PROVE  IInv'
<1>1. Plain' \subseteq Plain
  BY DEF Plain, AnswerTaken
<1> QED BY <1>1, UndoKeepsBooks, UndoKeepsOthers, UndoKeepsItsWord DEF IInv

---------------------------------------------------------------------------
(* What happens to the cards and the rows between the answers *)

\* A plain word keeps its row and its completed cards.  It gets a new card only if it
\* has no row and no other new card, and a review card only if it is learned, and then
\* not besides a new card that was answered.
MovedWord(w) ==
  /\ row'[w] = row[w]
  /\ \A x \in CardsOf(Cards, w) : cards'[x] = "gone" => cards[x] = "gone"
  /\ \A x \in CardsOf(NewCards, w) :
       /\ cards[x] = "undealt" => cards'[x] = "undealt" \/ IsWaiting(cards'[x])
       /\ IsWaiting(cards'[x]) /\ ~IsWaiting(cards[x]) =>
            /\ row[w] = "none" /\ StandingOf(w) = {}
            /\ \A y \in CardsOf(NewCards, w) : IsInPool(cards'[y]) => y = x
  /\ \A x \in CardsOf(ReviewCards, w) : IsWaiting(cards'[x]) /\ ~IsWaiting(cards[x]) =>
       row[w] = "learning" /\ \A t \in StandingOf(w) : t.card \notin NewCards

Moved ==
  /\ log' = log /\ last' = last
  /\ parted \subseteq parted' /\ parted' \subseteq Words /\ edits' \in 0..MaxEdits
  /\ cards' \in [Cards -> Statuses] /\ row' \in [Words -> RowStatuses]
  /\ \A x \in Cards : cards'[x] \in Done <=> cards[x] \in Done
  /\ \A w \in Plain' : MovedWord(w)

LEMMA MoveKeepsWord ==
  ASSUME Books, Moved, NEW w \in Plain', PlainWord(w)
  PROVE  PlainWord(w)'
<1> USE DEF PlainWord
<1>1. MovedWord(w) /\ row'[w] = row[w] /\ Standing' = Standing /\ StandingOf(w)' = StandingOf(w)
  <2>1. Standing' = Standing
    BY CountsKept DEF Moved
  <2> QED BY <2>1 DEF Moved, MovedWord, StandingOf
<1>2. CardsOf(NewCards, w) \subseteq CardsOf(Cards, w) /\ CardsOf(ReviewCards, w) \subseteq CardsOf(Cards, w)
  BY DEF CardsOf, Cards
<1>3. \A c \in CardsOf(Cards, w) : cards'[c] # "gone"
  BY <1>1 DEF OneNewCard, MovedWord
<1>4. ASSUME NEW c \in CardsOf(Cards, w)
      PROVE  cards'[c] = "completed" <=> cards[c] = "completed"
  BY <1>3 DEF CardsOf, Moved, Done, OneNewCard
<1>5. ASSUME NEW c \in CardsOf(Cards, w), IsInPool(cards'[c])
      PROVE  IsInPool(cards[c]) \/ (IsWaiting(cards'[c]) /\ ~IsWaiting(cards[c]))
  BY <1>4, <1>5 DEF IsInPool, IsWaiting
<1>6. OneNewCard(w)'
  <2>1. ASSUME NEW c \in CardsOf(NewCards, w), NEW x \in CardsOf(NewCards, w),
               IsInPool(cards'[c]), IsInPool(cards'[x])
        PROVE  c = x
    <3>1. CASE IsInPool(cards[c]) /\ IsInPool(cards[x])
      BY <3>1 DEF OneNewCard
    <3>2. CASE IsWaiting(cards'[c]) /\ ~IsWaiting(cards[c])
      BY <1>1, <2>1, <3>2 DEF MovedWord
    <3>3. CASE IsWaiting(cards'[x]) /\ ~IsWaiting(cards[x])
      BY <1>1, <2>1, <3>3 DEF MovedWord
    <3> QED BY <1>2, <1>5, <2>1, <3>1, <3>2, <3>3
  <2>2. \A c \in CardsOf(NewCards, w) : IsWaiting(cards'[c]) => StandingOf(w) = {}
    BY <1>1 DEF OneNewCard, MovedWord
  <2> QED BY <1>1, <1>3, <2>1, <2>2 DEF OneNewCard
<1>7. RowFollowsAnswers(w)'
  <2>1. ASSUME NEW c \in CardsOf(NewCards, w), cards'[c] # "undealt"
        PROVE  row[w] = "none" \/ \E t \in StandingOf(w) : t.card \in NewCards
    <3>1. CASE cards[c] # "undealt"
      BY <3>1 DEF RowFollowsAnswers
    <3>2. CASE cards[c] = "undealt"
      BY <1>1, <2>1, <3>2 DEF MovedWord, IsWaiting
    <3> QED BY <3>1, <3>2
  <2> QED BY <1>1, <2>1 DEF RowFollowsAnswers
<1>8. ReviewsFollow(w)'
  <2>1. \A x \in CardsOf(ReviewCards, w) : IsWaiting(cards'[x]) => row[w] = "learning"
    BY <1>1 DEF ReviewsFollow, MovedWord
  <2>2. ASSUME NEW x \in CardsOf(ReviewCards, w), NEW t \in StandingOf(w), IsInPool(cards'[x]), t.card \in NewCards
        PROVE  \E s \in StandingOf(w) : x \in s.created
    <3>1. IsInPool(cards[x])
      BY <1>1, <1>2, <1>5, <2>2 DEF MovedWord
    <3> QED BY <2>2, <3>1 DEF ReviewsFollow
  <2> QED BY <1>1, <2>1, <2>2 DEF ReviewsFollow
<1>9. TrimmedBefore(w)'
  BY <1>1 DEF TrimmedBefore
<1> QED BY <1>6, <1>7, <1>8, <1>9

LEMMA MovePreserves ==
  ASSUME IInv, Moved,
         reply' \in [Devices -> CardResponse],
         \A d \in Devices : reply'[d].card # NoCard => reply'[d].reason = NoReason,
         \A d \in Sessions : reply'[d].card # NoCard => Spent(d) < catchUpSessionTotalCap
  PROVE  IInv'
<1> USE DEF IInv, Books
<1>1. log' = log /\ last' = last
  BY DEF Moved
<1>2. Standing' = Standing
  BY <1>1, CountsKept
<1>3. ASSUME NEW d PROVE Spent(d)' = Spent(d)
  BY <1>1, CountsKept DEF Spent
<1>4. \A g \in Standing : g.card \in Cards
  BY CompletedIsStanding DEF TypeOK, Event
<1>5. TypeOK'
  BY DEF TypeOK, Moved
<1>6. LogIsNumbered'
  BY <1>1 DEF LogIsNumbered
<1>7. StandingMeansDone'
  <2>1. \A x \in Cards : cards'[x] \in Done <=> cards[x] \in Done
    BY DEF Moved
  <2> QED BY <1>1, <1>2, <1>4, <2>1 DEF StandingMeansDone, Answers
<1>8. KindsMatch'
  BY <1>2 DEF KindsMatch
<1>9. LastStands'
  BY <1>1, <1>2, <1>3 DEF LastStands
<1>10. BudgetKept'
  BY <1>3 DEF BudgetKept
<1>11. \A w \in Plain' : PlainWord(w)'
  <2>1. Plain' \subseteq Plain
    BY DEF Moved, Plain
  <2> QED BY <2>1, MoveKeepsWord
<1> QED BY <1>5, <1>6, <1>7, <1>8, <1>9, <1>10, <1>11

\* Cards that may be dealt to a plain word in a step that leaves its row alone.
MayBeDealt(S) ==
  /\ \A x \in S : x \in Cards /\ cards[x] = "undealt"
  /\ \A x \in S : x \in NewCards =>
       /\ row[WordOf[x]] = "none"
       /\ \A y \in CardsOf(Cards, WordOf[x]) : ~IsInPool(cards[y])
       /\ \A y \in S : y \in NewCards /\ WordOf[y] = WordOf[x] => y = x
  /\ \A x \in S : x \in ReviewCards /\ WordOf[x] \in Plain' =>
       /\ row[WordOf[x]] = "learning"
       /\ \A y \in CardsOf(NewCards, WordOf[x]) : cards[y] # "completed"

(***************************************************************************)
(* The new card of an answer that stands is completed.                     *)
(***************************************************************************)
LEMMA ExposedIsCompleted ==
  ASSUME Books, NEW w, PlainWord(w), NEW t \in StandingOf(w)
  PROVE  t.card \in CardsOf(Cards, w) /\ cards[t.card] = "completed"
<1>1. t.card \in CardsOf(Cards, w) /\ cards[t.card] \in Done
  BY CompletedIsStanding DEF StandingOf, CardsOf, Books, TypeOK, Event, StandingMeansDone
<1> QED BY <1>1 DEF PlainWord, OneNewCard, Done

LEMMA DealMoves ==
  ASSUME IInv, NEW S, cards' = Deal(cards, S), MayBeDealt(S), UNCHANGED <<row, log, last, edits>>,
         parted \subseteq parted', parted' \subseteq Words
  PROVE  Moved
<1> USE DEF IInv, Books
<1>1. cards' = [c \in Cards |-> IF c \in S THEN "pending" ELSE cards[c]]
  BY DEF Deal
<1>2. cards' \in [Cards -> Statuses]
  BY <1>1 DEF TypeOK, Statuses
<1>3. \A x \in S : x \in Cards /\ cards[x] = "undealt"
  BY DEF MayBeDealt
<1>4. \A x \in Cards : cards'[x] \in Done <=> cards[x] \in Done
  BY <1>1, <1>3 DEF Done
<1>5. ASSUME NEW w \in Plain' PROVE MovedWord(w)
  <2>1. PlainWord(w) /\ CardsOf(NewCards, w) \subseteq CardsOf(Cards, w) /\ CardsOf(ReviewCards, w) \subseteq Cards
    BY DEF Plain, CardsOf, Cards
  <2>2. ASSUME NEW x \in CardsOf(Cards, w)
        PROVE  IF x \in S THEN cards'[x] = "pending" /\ cards[x] = "undealt" ELSE cards'[x] = cards[x]
    BY <1>1, <1>3 DEF CardsOf
  <2>3. \A x \in CardsOf(Cards, w) : cards'[x] = "gone" => cards[x] = "gone"
    BY <2>2
  <2>4. ASSUME NEW x \in CardsOf(NewCards, w)
        PROVE  /\ cards[x] = "undealt" => cards'[x] = "undealt" \/ IsWaiting(cards'[x])
               /\ IsWaiting(cards'[x]) /\ ~IsWaiting(cards[x]) =>
                    /\ row[w] = "none" /\ StandingOf(w) = {}
                    /\ \A y \in CardsOf(NewCards, w) : IsInPool(cards'[y]) => y = x
    <3>1. CASE x \in S
      <4>1. x \in NewCards /\ WordOf[x] = w
        BY DEF CardsOf
      <4>2. /\ row[w] = "none" /\ \A y \in CardsOf(Cards, w) : ~IsInPool(cards[y])
            /\ \A y \in S : y \in NewCards /\ WordOf[y] = w => y = x
        BY <3>1, <4>1 DEF MayBeDealt
      <4>3. StandingOf(w) = {}
        BY <2>1, <4>2, NoCardNoAnswer DEF PlainWord
      <4>4. ASSUME NEW y \in CardsOf(NewCards, w), IsInPool(cards'[y]) PROVE y = x
        <5>1. y \in S
          BY <2>1, <2>2, <4>2, <4>4
        <5> QED BY <4>2, <5>1 DEF CardsOf
      <4>5. cards'[x] = "pending"
        BY <2>1, <2>2, <3>1
      <4> QED BY <4>2, <4>3, <4>4, <4>5 DEF IsWaiting
    <3>2. CASE x \notin S
      BY <2>1, <2>2, <3>2
    <3> QED BY <3>1, <3>2
  <2>5. ASSUME NEW x \in CardsOf(ReviewCards, w), IsWaiting(cards'[x]), ~IsWaiting(cards[x])
        PROVE  row[w] = "learning" /\ \A t \in StandingOf(w) : t.card \notin NewCards
    <3>1. x \in S /\ x \in ReviewCards /\ WordOf[x] = w
      BY <1>1, <2>1, <2>5 DEF CardsOf
    <3>2. row[w] = "learning" /\ \A y \in CardsOf(NewCards, w) : cards[y] # "completed"
      BY <3>1 DEF MayBeDealt
    <3>3. ASSUME NEW t \in StandingOf(w) PROVE t.card \notin NewCards
      <4>1. t.card \in CardsOf(Cards, w) /\ cards[t.card] = "completed"
        BY <2>1, ExposedIsCompleted
      <4> QED BY <3>2, <4>1 DEF CardsOf
    <3> QED BY <3>2, <3>3
  <2> QED BY <2>3, <2>4, <2>5 DEF MovedWord
<1> QED BY <1>2, <1>4, <1>5 DEF Moved, TypeOK

(***************************************************************************)
(* A batch of new words may be dealt.                                      *)
(***************************************************************************)
LEMMA BatchMayBeDealt ==
  ASSUME NEW n, NEW S \in NewWords(cards, row, n)
  PROVE  MayBeDealt(S)
<1>1. \A x \in S : /\ x \in NewCards /\ x \in Cards /\ cards[x] = "undealt" /\ row[WordOf[x]] = "none"
                   /\ \A y \in CardsOf(Cards, WordOf[x]) : ~IsInPool(cards[y])
                   /\ \A y \in S : WordOf[y] = WordOf[x] => y = x
  BY BatchIsNew
<1> QED BY <1>1, SessionAssumption DEF MayBeDealt

LEMMA FallDueMoves ==
  ASSUME IInv, NEW c \in Cards, FallDue(c)
  PROVE  Moved
<1> USE DEF IInv, Books
<1>1. /\ cards[c] = "later" /\ cards' = [cards EXCEPT ![c] = "pending"]
      /\ UNCHANGED <<row, log, last, parted, edits>>
  BY DEF FallDue
<1>2. cards' \in [Cards -> Statuses]
  BY <1>1 DEF TypeOK, Statuses
<1>3. \A x \in Cards : cards'[x] # cards[x] => cards[x] = "later" /\ cards'[x] = "pending"
  BY <1>1 DEF TypeOK
<1>4. ASSUME NEW w \in Plain' PROVE MovedWord(w)
  BY <1>1, <1>3 DEF MovedWord, CardsOf, Cards, IsWaiting
<1> QED BY <1>1, <1>2, <1>3, <1>4 DEF Moved, TypeOK, Done

LEMMA DealReviewMoves ==
  ASSUME IInv, NEW c \in Cards, DealReview(c)
  PROVE  Moved
<1>1. /\ c \in Learned(cards, row, ReviewCards) /\ cards' = Deal(cards, {c})
      /\ parted' = parted \cup {WordOf[x] : x \in {y \in CardsOf(NewCards, WordOf[c]) : cards[y] = "completed"}}
      /\ UNCHANGED <<row, log, last, edits>>
  BY DEF DealReview
<1>2. c \in ReviewCards /\ cards[c] = "undealt" /\ row[WordOf[c]] = "learning" /\ c \notin NewCards
  BY <1>1, SessionAssumption DEF Learned, Undealt
<1>3. ASSUME WordOf[c] \in Plain', NEW y \in CardsOf(NewCards, WordOf[c]) PROVE cards[y] # "completed"
  BY <1>1, <1>3 DEF Plain, CardsOf
<1>4. MayBeDealt({c})
  BY <1>2, <1>3 DEF MayBeDealt
<1>5. parted' \subseteq Words
  BY <1>1, SessionAssumption DEF IInv, Books, TypeOK, CardsOf, Cards
<1> QED BY <1>1, <1>4, <1>5, DealMoves

LEMMA AppendMoves ==
  ASSUME IInv, AppendMoreNewWords
  PROVE  Moved
<1>1. PICK S \in NewWords(cards, row, NewLimit) : cards' = Deal(cards, S)
  BY DEF AppendMoreNewWords
<1>2. UNCHANGED <<row, log, last, edits>> /\ parted' = parted
  BY DEF AppendMoreNewWords
<1> QED BY <1>1, <1>2, BatchMayBeDealt, DealMoves DEF IInv, Books, TypeOK

(***************************************************************************)
(* A pool that is created again deals due words, and new ones as a batch.  *)
(* A plain word had no completed card then.                                *)
(***************************************************************************)
LEMMA RebuildMoves ==
  ASSUME IInv, RebuildPool
  PROVE  Moved
<1> USE DEF IInv, Books
<1> DEFINE deck == Removed(Cards)
<1>1. /\ UNCHANGED <<row, log, last>> /\ edits' = edits + 1 /\ edits < MaxEdits
      /\ parted' = parted \cup {WordOf[c] : c \in {x \in Cards : cards[x] = "completed"}}
      /\ cards' \in PoolsFrom(deck, row)
  BY DEF RebuildPool, Edit
<1>2. \A x \in Cards : deck[x] = IF cards[x] = "completed" THEN "gone"
                                 ELSE IF IsWaiting(cards[x]) THEN "deleted" ELSE cards[x]
  BY DEF Removed, InPool, IsWaiting
<1>3. deck \in [Cards -> Statuses]
  BY DEF Removed, TypeOK, Statuses
<1> HIDE DEF deck
<1>4. PICK due \in SUBSET Learned(deck, row, ReviewCards), new \in NewWords(deck, row, PrefetchBatchSize) :
        cards' = Deal(deck, due \cup new)
  <2>1. \A p \in PoolsFrom(deck, row) :
          \E due \in SUBSET Learned(deck, row, ReviewCards) :
            \E new \in NewWords(deck, row, PrefetchBatchSize) : p = Deal(deck, due \cup new)
    BY DEF PoolsFrom
  <2> QED BY <1>1, <2>1
<1>5. \A x \in new : /\ x \in NewCards /\ x \in Cards /\ deck[x] = "undealt" /\ row[WordOf[x]] = "none"
                     /\ \A y \in new : WordOf[y] = WordOf[x] => y = x
  BY BatchIsNew
<1>6. \A x \in due : x \in ReviewCards /\ deck[x] = "undealt" /\ row[WordOf[x]] = "learning"
  BY DEF Learned, Undealt
<1>7. \A x \in Cards : cards'[x] = IF x \in due \cup new THEN "pending" ELSE deck[x]
  BY <1>4 DEF Deal
<1>8. cards' \in [Cards -> Statuses]
  BY <1>3, <1>4 DEF Deal, Statuses
<1>9. \A x \in Cards : cards'[x] \in Done <=> cards[x] \in Done
  BY <1>2, <1>5, <1>6, <1>7 DEF Done, IsWaiting
<1>10. parted' \subseteq Words /\ edits' \in 0..MaxEdits
  BY <1>1, SessionAssumption DEF TypeOK
<1>11. ASSUME NEW w \in Plain' PROVE MovedWord(w)
  <2>1. /\ PlainWord(w) /\ w \in Plain
        /\ CardsOf(NewCards, w) \subseteq Cards /\ CardsOf(ReviewCards, w) \subseteq Cards /\ CardsOf(Cards, w) \subseteq Cards
    BY <1>1 DEF Plain, CardsOf, Cards
  <2>2. \A x \in CardsOf(Cards, w) : cards[x] # "completed"
    BY <1>1 DEF Plain, CardsOf
  <2>3. StandingOf(w) = {}
    BY <2>1, <2>2, ExposedIsCompleted
  <2>4. ASSUME NEW x \in CardsOf(Cards, w)
        PROVE  IF x \in due \cup new THEN cards'[x] = "pending" /\ cards[x] = "undealt"
               ELSE cards'[x] = IF IsWaiting(cards[x]) THEN "deleted" ELSE cards[x]
    <3>1. x \in Cards /\ deck[x] = IF IsWaiting(cards[x]) THEN "deleted" ELSE cards[x]
      BY <1>2, <2>1, <2>2
    <3>2. x \in due \cup new => deck[x] = "undealt"
      BY <1>5, <1>6
    <3> QED BY <1>7, <3>1, <3>2
  <2>5. CardsOf(NewCards, w) \subseteq CardsOf(Cards, w) /\ CardsOf(ReviewCards, w) \subseteq CardsOf(Cards, w)
    BY DEF CardsOf, Cards
  <2>6. \A x \in CardsOf(NewCards, w) : IsInPool(cards'[x]) => x \in new
    <3>1. \A x \in CardsOf(NewCards, w) : x \notin due
      BY <1>6, SessionAssumption DEF CardsOf
    <3>2. \A x \in CardsOf(NewCards, w) : x \notin new => ~IsInPool(cards'[x])
      BY <2>2, <2>4, <2>5, <3>1 DEF IsInPool, IsWaiting
    <3> QED BY <3>2
  <2>7. ASSUME NEW x \in CardsOf(NewCards, w)
        PROVE  /\ cards[x] = "undealt" => cards'[x] = "undealt" \/ IsWaiting(cards'[x])
               /\ IsWaiting(cards'[x]) =>
                    /\ row[w] = "none" /\ \A y \in CardsOf(NewCards, w) : IsInPool(cards'[y]) => y = x
    <3>1. cards[x] = "undealt" => cards'[x] = "undealt" \/ IsWaiting(cards'[x])
      BY <2>4, <2>5 DEF IsWaiting
    <3>2. ASSUME IsWaiting(cards'[x])
          PROVE  row[w] = "none" /\ \A y \in CardsOf(NewCards, w) : IsInPool(cards'[y]) => y = x
      <4>1. x \in new /\ WordOf[x] = w
        BY <2>6, <3>2 DEF IsInPool, IsWaiting, CardsOf
      <4> QED BY <1>5, <2>6, <4>1 DEF CardsOf
    <3> QED BY <3>1, <3>2
  <2>8. ASSUME NEW x \in CardsOf(ReviewCards, w), IsWaiting(cards'[x]), ~IsWaiting(cards[x])
        PROVE  row[w] = "learning"
    <3>1. x \in due \cup new /\ x \notin NewCards /\ WordOf[x] = w
      BY <2>4, <2>5, <2>8, SessionAssumption DEF CardsOf, IsWaiting
    <3> QED BY <1>5, <1>6, <3>1
  <2>9. \A x \in CardsOf(Cards, w) : cards'[x] = "gone" => cards[x] = "gone"
    BY <2>4
  <2> QED BY <1>1, <2>3, <2>7, <2>8, <2>9 DEF MovedWord
<1> QED BY <1>1, <1>8, <1>9, <1>10, <1>11 DEF Moved, TypeOK

(***************************************************************************)
(* A change of the dictionary touches one word, which is parted then.      *)
(***************************************************************************)
LEMMA EditMoves ==
  ASSUME IInv, NEW w \in Words, Edit, UNCHANGED <<log, last>>, parted' = parted \cup {w},
         \A v \in Words \ {w} : row'[v] = row[v], row' \in [Words -> RowStatuses],
         cards' \in [Cards -> Statuses],
         \A x \in Cards : WordOf[x] # w => cards'[x] = cards[x],
         \A x \in Cards : cards'[x] \in Done <=> cards[x] \in Done
  PROVE  Moved
<1> USE DEF IInv, Books
<1>1. ASSUME NEW v \in Plain' PROVE MovedWord(v)
  <2>1. v # w /\ v \in Words
    BY DEF Plain
  <2>2. \A x \in CardsOf(Cards, v) : cards'[x] = cards[x]
    BY <2>1 DEF CardsOf
  <2>3. CardsOf(NewCards, v) \subseteq CardsOf(Cards, v) /\ CardsOf(ReviewCards, v) \subseteq CardsOf(Cards, v)
    BY DEF CardsOf, Cards
  <2>4. row'[v] = row[v]
    BY <2>1
  <2> QED BY <2>2, <2>3, <2>4 DEF MovedWord
<1>2. parted' \subseteq Words /\ edits' \in 0..MaxEdits
  BY SessionAssumption DEF TypeOK, Edit
<1> QED BY <1>1, <1>2 DEF Moved

LEMMA DeleteMoves ==
  ASSUME IInv, NEW w \in Words, DeleteWord(w)
  PROVE  Moved
<1> USE DEF IInv, Books
<1>1. /\ Edit /\ row' = [row EXCEPT ![w] = "none"] /\ cards' = Removed(CardsOf(Cards, w))
      /\ parted' = parted \cup {w} /\ UNCHANGED <<log, last>>
  BY DEF DeleteWord
<1>2. row' \in [Words -> RowStatuses] /\ \A v \in Words \ {w} : row'[v] = row[v]
  BY <1>1 DEF TypeOK, RowStatuses
<1>3. cards' \in [Cards -> Statuses]
  BY <1>1 DEF Removed, TypeOK, Statuses
<1>4. \A x \in Cards : \/ cards'[x] = cards[x]
                       \/ WordOf[x] = w /\ cards[x] = "completed" /\ cards'[x] = "gone"
                       \/ WordOf[x] = w /\ IsWaiting(cards[x]) /\ cards'[x] = "deleted"
  BY <1>1 DEF Removed, InPool, CardsOf, IsWaiting
<1>5. \A x \in Cards : cards'[x] \in Done <=> cards[x] \in Done
  BY <1>4 DEF Done, IsWaiting
<1> QED BY <1>1, <1>2, <1>3, <1>4, <1>5, EditMoves

LEMMA EditWordMoves ==
  ASSUME IInv, NEW w \in Words, EditWord(w)
  PROVE  Moved
<1> USE DEF IInv, Books
<1>1. /\ Edit /\ parted' = parted \cup {w} /\ UNCHANGED <<cards, log, last>>
      /\ \E status \in {"known", "learning"} : row' = [row EXCEPT ![w] = status]
  BY DEF EditWord
<1>2. row' \in [Words -> RowStatuses] /\ \A v \in Words \ {w} : row'[v] = row[v]
  BY <1>1 DEF TypeOK, RowStatuses
<1> QED BY <1>1, <1>2, EditMoves DEF TypeOK

LEMMA ImportMoves ==
  ASSUME IInv, NEW c \in Cards, ConfirmImport(c)
  PROVE  Moved
<1> USE DEF IInv, Books
<1>1. /\ Edit /\ parted' = parted \cup {WordOf[c]} /\ UNCHANGED <<log, last>> /\ cards[c] = "undealt"
      /\ row' = [row EXCEPT ![WordOf[c]] = "learning"] /\ cards' = Deal(cards, {c})
  BY DEF ConfirmImport, Undealt
<1>2. WordOf[c] \in Words
  BY SessionAssumption
<1>3. row' \in [Words -> RowStatuses] /\ \A v \in Words \ {WordOf[c]} : row'[v] = row[v]
  BY <1>1 DEF TypeOK, RowStatuses
<1>4. cards' \in [Cards -> Statuses] /\ \A x \in Cards : cards'[x] = IF x = c THEN "pending" ELSE cards[x]
  BY <1>1 DEF Deal, TypeOK, Statuses
<1>5. \A x \in Cards : cards'[x] \in Done <=> cards[x] \in Done
  BY <1>1, <1>4 DEF Done
<1> QED BY <1>1, <1>2, <1>3, <1>4, <1>5, EditMoves

(***************************************************************************)
(* An undo that stops half-way opens no card of the word it took back, and *)
(* the trimmed cards it has put back are of words without another.         *)
(***************************************************************************)
LEMMA HalfwayMoves ==
  ASSUME IInv, NEW d \in Devices, UndoStopsHalfway(d)
  PROVE  Moved
<1> USE DEF IInv, Books
<1>1. PICK e \in log :
        /\ Undoes(d, e) /\ row' = [row EXCEPT ![WordOf[e.card]] = e.prev]
        /\ UNCHANGED <<log, last, edits>>
        /\ \E clash \in e.deleted : \E back \in SUBSET (e.deleted \ {clash}) :
             /\ \A x \in back : cards[x] = "deleted"
             /\ cards' = TakenBack(e, back)
             /\ parted' = parted \cup DealtAgain(back) \cup {WordOf[e.card]}
  BY DEF UndoStopsHalfway
<1>2. PICK back \in SUBSET e.deleted :
        /\ \A x \in back : cards[x] = "deleted"
        /\ cards' = TakenBack(e, back)
        /\ parted' = parted \cup DealtAgain(back) \cup {WordOf[e.card]}
  BY <1>1
<1>3. e \in Standing /\ IsLastOne(e) /\ \A x \in e.created : IsWaiting(cards[x])
  BY <1>1, UndoneStands
<1>4. e \in Event /\ WordOf[e.card] \in Words /\ \A x \in back : x \in NewCards /\ x \in Cards /\ WordOf[x] \in Words
  BY SessionAssumption DEF TypeOK, Event, Cards
<1>5. cards' \in [Cards -> Statuses]
  BY <1>2 DEF TakenBack, TypeOK, Statuses
<1>6. \A x \in Cards : \/ cards'[x] = cards[x]
                       \/ IsWaiting(cards[x]) /\ cards'[x] = "deleted"
                       \/ x \in back /\ cards[x] = "deleted" /\ cards'[x] = "pending"
  BY <1>2, <1>3 DEF TakenBack
<1>7. \A x \in Cards : cards'[x] \in Done <=> cards[x] \in Done
  BY <1>6 DEF Done, IsWaiting
<1>8. row' \in [Words -> RowStatuses] /\ \A v \in Words \ {WordOf[e.card]} : row'[v] = row[v]
  BY <1>1, <1>4 DEF TypeOK, Event
<1>9. parted \subseteq parted' /\ parted' \subseteq Words
  BY <1>2, <1>4 DEF TypeOK, DealtAgain
<1>10. ASSUME NEW w \in Plain' PROVE MovedWord(w)
  <2>1. w \in Words /\ w # WordOf[e.card] /\ w \notin DealtAgain(back) /\ PlainWord(w)
    BY <1>2 DEF Plain
  <2>2. row'[w] = row[w]
    BY <1>8, <2>1
  <2>3. CardsOf(NewCards, w) \subseteq Cards /\ CardsOf(ReviewCards, w) \subseteq Cards /\ CardsOf(Cards, w) \subseteq Cards
    BY DEF CardsOf, Cards
  <2>4. ASSUME NEW x \in CardsOf(NewCards, w), IsWaiting(cards'[x]), ~IsWaiting(cards[x])
        PROVE  /\ row[w] = "none" /\ StandingOf(w) = {}
               /\ \A y \in CardsOf(NewCards, w) : IsInPool(cards'[y]) => y = x
    <3>1. x \in back /\ cards[x] = "deleted" /\ WordOf[x] = w
      BY <1>6, <2>3, <2>4 DEF CardsOf, IsWaiting
    <3>2. StandingOf(w) = {} /\ row[w] = "none" /\ \A y \in e.deleted : WordOf[y] = w => x = y
      BY <1>2, <1>3, <2>1, <3>1, PutBackIsNew
    <3>3. \A y \in CardsOf(NewCards, w) : ~IsInPool(cards[y])
      <4>1. Rivals(x) = {}
        BY <2>1, <3>1 DEF DealtAgain
      <4> QED BY <3>1, <4>1 DEF Rivals, InPool, IsInPool
    <3>4. ASSUME NEW y \in CardsOf(NewCards, w), IsInPool(cards'[y]) PROVE y = x
      <4>1. y \in back
        BY <1>6, <2>3, <3>3, <3>4 DEF IsInPool
      <4> QED BY <3>2, <4>1 DEF CardsOf
    <3> QED BY <3>2, <3>4
  <2>5. \A x \in CardsOf(NewCards, w) : cards[x] = "undealt" => cards'[x] = "undealt"
    BY <1>6, <2>3 DEF IsWaiting
  <2>6. \A x \in CardsOf(ReviewCards, w) : IsWaiting(cards'[x]) => IsWaiting(cards[x])
    <3>1. \A x \in CardsOf(ReviewCards, w) : x \notin back
      BY <1>4, SessionAssumption DEF CardsOf
    <3> QED BY <1>6, <2>3, <3>1 DEF IsWaiting
  <2>7. \A x \in CardsOf(Cards, w) : cards'[x] = "gone" => cards[x] = "gone"
    BY <1>6, <2>3
  <2> QED BY <2>2, <2>4, <2>5, <2>6, <2>7 DEF MovedWord
<1> QED BY <1>1, <1>5, <1>7, <1>8, <1>9, <1>10 DEF Moved, TypeOK

---------------------------------------------------------------------------
(* A request for the next card *)

\* What a request for the next card can be told when the cards are deck.
Told(deck, d, r) ==
  \/ SessionComplete(d) /\ r = [card |-> NoCard, reason |-> "session_total_cap_reached"]
  \/ ~SessionComplete(d) /\ \E c \in Cards : r = Shown(c)
  \/ /\ ~SessionComplete(d) /\ MainCandidates(deck, d) = {}
     /\ r = Silent \/ r = [card |-> NoCard, reason |-> "no_cards_available"]

LEMMA ReplyIsTold ==
  ASSUME NEW deck, NEW d, NEW practice, NEW r \in NextCardFromView(deck, d, practice)
  PROVE  Told(deck, d, r)
<1> DEFINE main == MainCandidates(deck, d)
           found == IF main # {} THEN main ELSE IF practice THEN Pending(deck, PracticeCards) ELSE {}
<1>1. main \subseteq Cards
  <2>1. Pending(deck, ReviewCards) \subseteq Cards /\ SelectableNew(deck) \subseteq Cards
    BY DEF Pending, SelectableNew, Cards
  <2> QED BY <2>1 DEF MainCandidates
<1>2. found \subseteq Cards
  BY <1>1 DEF Pending, Cards
<1>3. r \in IF SessionComplete(d)
            THEN {[card |-> NoCard, reason |-> "session_total_cap_reached"]}
            ELSE IF found # {}
            THEN {Shown(c) : c \in found}
            ELSE {[card |-> NoCard, reason |-> IF HasSession(d) THEN "no_cards_available" ELSE ""]}
  BY Zenon DEF NextCardFromView, Shown
<1>4. \/ HasSession(d) /\ [card |-> NoCard, reason |-> IF HasSession(d) THEN "no_cards_available" ELSE ""]
                            = [card |-> NoCard, reason |-> "no_cards_available"]
      \/ [card |-> NoCard, reason |-> IF HasSession(d) THEN "no_cards_available" ELSE ""] = Silent
  BY Zenon DEF Silent
<1>5. CASE SessionComplete(d)
  BY Zenon, <1>3, <1>5 DEF Told
<1>6. CASE ~SessionComplete(d) /\ found # {}
  <2>1. r \in {Shown(c) : c \in found}
    BY <1>3, <1>6
  <2> QED BY <1>2, <1>6, <2>1 DEF Told
<1>7. CASE ~SessionComplete(d) /\ found = {}
  <2>1. r \in {[card |-> NoCard, reason |-> IF HasSession(d) THEN "no_cards_available" ELSE ""]}
    BY Zenon, <1>3, <1>7
  <2>2. main = {}
    BY <1>7
  <2>3. r = Silent \/ r = [card |-> NoCard, reason |-> "no_cards_available"]
    BY Zenon, <1>4, <2>1
  <2> QED BY <1>7, <2>2, <2>3 DEF Told
<1> QED BY <1>5, <1>6, <1>7

(***************************************************************************)
(* The consequences of each reply.                                         *)
(***************************************************************************)
LEMMA ToldIsTrue ==
  ASSUME NEW deck, NEW d, NEW r, Told(deck, d, r)
  PROVE  /\ r \in CardResponse
         /\ r.card # NoCard => r.reason = NoReason /\ ~SessionComplete(d)
         /\ r.reason = "session_total_cap_reached" <=> SessionComplete(d)
         /\ r.reason = "no_cards_available" =>
              /\ Pending(deck, ReviewCards) = {}
              /\ Pending(deck, NewCards) = {} \/ DailyNewCompleted >= NewLimit
<1> DEFINE capped == [card |-> NoCard, reason |-> "session_total_cap_reached"]
           none == [card |-> NoCard, reason |-> "no_cards_available"]
<1>1. capped \in CardResponse /\ none \in CardResponse
  BY Zenon DEF CardResponse
<1>2. /\ capped.card = NoCard /\ capped.reason = "session_total_cap_reached"
      /\ none.card = NoCard /\ none.reason = "no_cards_available"
  OBVIOUS
<1>3. MainCandidates(deck, d) = {} =>
        /\ Pending(deck, ReviewCards) = {}
        /\ Pending(deck, NewCards) = {} \/ DailyNewCompleted >= NewLimit
  BY DEF MainCandidates, SelectableNew
<1> HIDE DEF capped, none
<1>4. CASE SessionComplete(d) /\ r = capped
  BY <1>1, <1>2, <1>4
<1>5. CASE ~SessionComplete(d) /\ \E c \in Cards : r = Shown(c)
  BY <1>5, Replies
<1>6. CASE ~SessionComplete(d) /\ MainCandidates(deck, d) = {} /\ r = Silent
  BY <1>6, Replies
<1>7. CASE ~SessionComplete(d) /\ MainCandidates(deck, d) = {} /\ r = none
  BY <1>1, <1>2, <1>3, <1>7
<1> QED BY <1>4, <1>5, <1>6, <1>7 DEF Told, capped, none

(***************************************************************************)
(* A request deals undealt cards, possibly none, and its reply is true of  *)
(* the cards it leaves.                                                    *)
(***************************************************************************)
LEMMA RequestIsTold ==
  ASSUME IInv, NEW d \in Devices, NEW practice \in BOOLEAN, GetNextCard(d, practice)
  PROVE  Moved /\ \E r : Told(cards', d, r) /\ reply' = [reply EXCEPT ![d] = r]
<1>1. PICK first \in NextCardFromView(cards, d, practice) :
        \E S \in Dealings(d, first, practice) :
          /\ cards' = Deal(cards, S)
          /\ \E r \in (IF S = {} THEN {first} ELSE NextCardFromView(cards', d, practice)) :
               reply' = [reply EXCEPT ![d] = r]
  BY Zenon DEF GetNextCard
<1>2. PICK S \in Dealings(d, first, practice) :
        /\ cards' = Deal(cards, S)
        /\ \E r \in (IF S = {} THEN {first} ELSE NextCardFromView(cards', d, practice)) :
             reply' = [reply EXCEPT ![d] = r]
  BY Zenon, <1>1
<1>3. PICK r \in (IF S = {} THEN {first} ELSE NextCardFromView(cards', d, practice)) :
        reply' = [reply EXCEPT ![d] = r]
  BY <1>2
<1>4. UNCHANGED <<row, log, last, edits>> /\ parted' = parted
  BY DEF GetNextCard
<1>5. MayBeDealt(S)
  <2>1. \/ S = {} \/ S \in NewWords(cards, row, PrefetchBatchSize)
        \/ S \subseteq Learned(cards, row, PracticeCards)
    BY DEF Dealings, Replenishments
  <2>2. CASE S = {}
    BY <2>2 DEF MayBeDealt
  <2>3. CASE S \in NewWords(cards, row, PrefetchBatchSize)
    BY <2>3, BatchMayBeDealt
  <2>4. CASE S \subseteq Learned(cards, row, PracticeCards)
    <3>1. \A x \in S : x \in PracticeCards /\ x \in Cards /\ cards[x] = "undealt"
      BY <2>4 DEF Learned, Undealt, Cards
    <3>2. \A x \in S : x \notin NewCards /\ x \notin ReviewCards
      BY <3>1, SessionAssumption
    <3> QED BY <3>1, <3>2 DEF MayBeDealt
  <2> QED BY <2>1, <2>2, <2>3, <2>4
<1>6. Moved
  BY <1>2, <1>4, <1>5, DealMoves DEF IInv, Books, TypeOK
<1>7. r \in NextCardFromView(cards', d, practice)
  <2>1. CASE S = {}
    <3>1. cards' = cards
      BY <1>2, <2>1 DEF Deal, IInv, Books, TypeOK
    <3> QED BY <1>3, <2>1, <3>1
  <2>2. CASE S # {}
    BY <1>3, <2>2
  <2> QED BY <2>1, <2>2
<1>8. Told(cards', d, r)
  BY <1>7, ReplyIsTold
<1> QED BY <1>3, <1>6, <1>8

---------------------------------------------------------------------------
(* The invariant *)

LEMMA InitHasInvariant == Init => IInv
<1> SUFFICES ASSUME Init PROVE IInv
  OBVIOUS
<1> USE DEF Init
<1> DEFINE deck == [c \in Cards |-> "undealt"]
<1>1. Standing = {} /\ Cardinality(log) = 0 /\ IsFiniteSet(log)
  BY FS_EmptySet DEF Standing
<1>2. deck \in [Cards -> Statuses] /\ \A x \in Cards : deck[x] = "undealt"
  BY DEF Statuses
<1>3. PICK due \in SUBSET Learned(deck, row, ReviewCards), new \in NewWords(deck, row, PrefetchBatchSize) :
        cards = Deal(deck, due \cup new)
  BY DEF PoolsFrom
<1> HIDE DEF deck
<1>4. \A x \in new : /\ x \in NewCards /\ row[WordOf[x]] = "none"
                     /\ \A y \in new : WordOf[y] = WordOf[x] => y = x
  BY BatchIsNew
<1>5. \A x \in due : x \in ReviewCards /\ row[WordOf[x]] = "learning"
  BY DEF Learned, Undealt
<1>6. \A x \in Cards : cards[x] = IF x \in due \cup new THEN "pending" ELSE "undealt"
  BY <1>2, <1>3 DEF Deal
<1>7. TypeOK
  <2>1. cards \in [Cards -> Statuses]
    BY <1>2, <1>3 DEF Deal, Statuses
  <2>2. MaxEdits \in Nat
    BY SessionAssumption
  <2> QED BY <2>1, <2>2, Replies DEF TypeOK
<1>8. LogIsNumbered
  BY <1>1 DEF LogIsNumbered
<1>9. \A d : Spent(d) = 0
  <2> TAKE d
  <2>1. Reviews(Standing, d) = {} /\ Learnings(Standing, d) = {}
    BY <1>1 DEF Reviews, Learnings
  <2>2. Cardinality({}) = 0
    BY FS_EmptySet
  <2>3. SessionReviewCompleted(d) = 0 /\ SessionNewCompleted(d) = 0
    BY <2>1, <2>2, SessionCounts
  <2> QED BY <2>3 DEF Spent
<1>10. BudgetKept
  <2>1. \A d \in Devices : reply[d].card = NoCard
    BY Replies
  <2> QED BY <1>9, <2>1, SessionAssumption DEF BudgetKept, Sessions
<1>11. StandingMeansDone /\ KindsMatch /\ LastStands
  BY <1>1, <1>6 DEF StandingMeansDone, KindsMatch, LastStands, Done
<1>12. ASSUME NEW w \in Plain PROVE PlainWord(w)
  <2>1. StandingOf(w) = {}
    BY <1>1 DEF StandingOf
  <2>2. CardsOf(NewCards, w) \subseteq Cards /\ CardsOf(ReviewCards, w) \subseteq Cards /\ CardsOf(Cards, w) \subseteq Cards
    BY DEF CardsOf, Cards
  <2>3. \A c \in CardsOf(NewCards, w) : cards[c] # "undealt" => c \in new /\ WordOf[c] = w
    BY <1>5, <1>6, <2>2, SessionAssumption DEF CardsOf
  <2>4. OneNewCard(w)
    BY <1>4, <1>6, <2>1, <2>2, <2>3 DEF OneNewCard, IsInPool
  <2>5. RowFollowsAnswers(w)
    BY <1>4, <2>1, <2>3 DEF RowFollowsAnswers
  <2>6. \A x \in CardsOf(ReviewCards, w) : IsWaiting(cards[x]) => row[w] = "learning"
    <3>1. ASSUME NEW x \in CardsOf(ReviewCards, w), IsWaiting(cards[x]) PROVE x \in due /\ WordOf[x] = w
      <4>1. x \in due \cup new /\ x \notin NewCards /\ WordOf[x] = w
        BY <1>6, <2>2, <3>1, SessionAssumption DEF CardsOf, IsWaiting
      <4> QED BY <1>4, <4>1
    <3> QED BY <1>5, <3>1
  <2> QED BY <1>1, <2>1, <2>4, <2>5, <2>6 DEF PlainWord, ReviewsFollow, TrimmedBefore
<1> QED BY <1>7, <1>8, <1>10, <1>11, <1>12 DEF IInv, Books

\* A step is an answer, an undo, a request, or a move of the cards and the rows alone.
StepKinds ==
  \/ \E e : AnswerGiven(e)
  \/ \E d \in Devices : \E e \in Standing : AnswerTaken(d, e)
  \/ Moved /\ \E d \in Devices : \E r : Told(cards', d, r) /\ reply' = [reply EXCEPT ![d] = r]
  \/ Moved /\ reply' = reply

LEMMA NextHasAKind ==
  ASSUME NamesEvents = {TRUE}, IInv, [Next]_vars
  PROVE  StepKinds
<1> USE DEF IInv, Books
<1>1. ASSUME NEW d \in Devices, NEW practice \in BOOLEAN, GetNextCard(d, practice)
      PROVE  StepKinds
  BY <1>1, RequestIsTold DEF StepKinds
<1>2. ASSUME NEW d \in Devices, NEW c \in Cards, SubmitReview(d, c)
      PROVE  StepKinds
  BY <1>2, ReviewIsAnswer DEF StepKinds
<1>3. ASSUME NEW d \in Devices, NEW c \in Cards, NEW unknown \in BOOLEAN, SubmitFirstExposure(d, c, unknown)
      PROVE  StepKinds
  BY <1>3, ExposureIsAnswer DEF StepKinds
<1>4. ASSUME NEW d \in Devices, UndoLastAnswer(d)
      PROVE  StepKinds
  BY <1>4, UndoTakesAnswer DEF StepKinds
<1>5. ASSUME NEW d \in Devices, UndoStopsHalfway(d)
      PROVE  StepKinds
  <2>1. reply' = reply
    BY <1>5 DEF UndoStopsHalfway
  <2> QED BY <1>5, <2>1, HalfwayMoves DEF StepKinds
<1>6. ASSUME NEW c \in Cards, FallDue(c)
      PROVE  StepKinds
  <2>1. reply' = reply
    BY <1>6 DEF FallDue
  <2> QED BY <1>6, <2>1, FallDueMoves DEF StepKinds
<1>7. ASSUME NEW c \in Cards, DealReview(c)
      PROVE  StepKinds
  <2>1. reply' = reply
    BY <1>7 DEF DealReview
  <2> QED BY <1>7, <2>1, DealReviewMoves DEF StepKinds
<1>8. ASSUME NEW c \in Cards, ConfirmImport(c)
      PROVE  StepKinds
  <2>1. reply' = reply
    BY <1>8 DEF ConfirmImport
  <2> QED BY <1>8, <2>1, ImportMoves DEF StepKinds
<1>9. CASE AppendMoreNewWords
  <2>1. reply' = reply
    BY <1>9 DEF AppendMoreNewWords
  <2> QED BY <1>9, <2>1, AppendMoves DEF StepKinds
<1>10. CASE RebuildPool
  <2>1. reply' = reply
    BY <1>10 DEF RebuildPool
  <2> QED BY <1>10, <2>1, RebuildMoves DEF StepKinds
<1>11. ASSUME NEW w \in Words, DeleteWord(w)
       PROVE  StepKinds
  <2>1. reply' = reply
    BY <1>11 DEF DeleteWord
  <2> QED BY <1>11, <2>1, DeleteMoves DEF StepKinds
<1>12. ASSUME NEW w \in Words, EditWord(w)
       PROVE  StepKinds
  <2>1. reply' = reply
    BY <1>12 DEF EditWord
  <2> QED BY <1>12, <2>1, EditWordMoves DEF StepKinds
<1>13. CASE UNCHANGED vars
  <2>1. /\ cards' = cards /\ row' = row /\ log' = log /\ reply' = reply /\ last' = last
        /\ parted' = parted /\ edits' = edits
    BY <1>13 DEF vars
  <2>2. \A w \in Plain' : MovedWord(w)
    BY <2>1 DEF MovedWord, CardsOf
  <2>3. Moved
    BY <2>1, <2>2 DEF Moved, TypeOK
  <2> QED BY <2>1, <2>3 DEF StepKinds
<1> QED BY <1>1, <1>2, <1>3, <1>4, <1>5, <1>6, <1>7, <1>8, <1>9, <1>10, <1>11, <1>12, <1>13 DEF Next

LEMMA NextKeepsInvariant ==
  ASSUME NamesEvents = {TRUE}, IInv, [Next]_vars
  PROVE  IInv'
<1>1. ASSUME NEW e, AnswerGiven(e)
      PROVE  IInv'
  BY <1>1, AnswerPreserves
<1>2. ASSUME NEW d \in Devices, NEW e \in Standing, AnswerTaken(d, e)
      PROVE  IInv'
  BY <1>2, UndoPreserves
<1>3. ASSUME Moved, NEW d \in Devices, NEW r, Told(cards', d, r), reply' = [reply EXCEPT ![d] = r]
      PROVE  IInv'
  <2>1. r \in CardResponse /\ (r.card # NoCard => r.reason = NoReason /\ ~SessionComplete(d))
    BY <1>3, ToldIsTrue
  <2>2. /\ reply' \in [Devices -> CardResponse]
        /\ \A s \in Devices : reply'[s] = IF s = d THEN r ELSE reply[s]
    BY <1>3, <2>1 DEF IInv, Books, TypeOK
  <2>3. \A s \in Devices : reply'[s].card # NoCard => reply'[s].reason = NoReason
    BY <2>1, <2>2 DEF IInv, Books, BudgetKept
  <2>4. ASSUME NEW s \in Sessions, reply'[s].card # NoCard
        PROVE  Spent(s) < catchUpSessionTotalCap
    <3>1. s \in Devices /\ HasSession(s)
      BY DEF Sessions, HasSession
    <3>2. Spent(s) \in Nat /\ catchUpSessionTotalCap \in Nat
      BY SessionAssumption, CountsAreNaturals DEF Spent, IInv, Books
    <3>3. CASE s = d
      <4>1. ~SessionComplete(s)
        BY <2>1, <2>2, <2>4, <3>1, <3>3
      <4>2. ~(Spent(s) >= catchUpSessionTotalCap)
        BY <3>1, <4>1 DEF SessionComplete, Spent
      <4> QED BY <3>2, <4>2
    <3>4. CASE s # d
      BY <2>2, <2>4, <3>1, <3>4 DEF IInv, Books, BudgetKept
    <3> QED BY <3>3, <3>4
  <2> QED BY <1>3, <2>2, <2>3, <2>4, MovePreserves
<1>4. ASSUME Moved, reply' = reply
      PROVE  IInv'
  <2>1. reply \in [Devices -> CardResponse] /\ BudgetKept
    BY DEF IInv, Books, TypeOK
  <2> QED BY <1>4, <2>1, MovePreserves DEF BudgetKept
<1> QED BY <1>1, <1>2, <1>3, <1>4, NextHasAKind DEF StepKinds

(***************************************************************************)
(* When clients name their events, every reachable state has the invariant.*)
(***************************************************************************)
THEOREM StudyInvariant == ASSUME NamesEvents = {TRUE} PROVE Spec => []IInv
<1>1. Init => IInv
  BY InitHasInvariant
<1>2. IInv /\ [Next]_vars => IInv'
  BY NextKeepsInvariant
<1> QED BY <1>1, <1>2, PTL DEF Spec

(***************************************************************************)
(* The state of the study loop has its type in every reachable state.      *)
(***************************************************************************)
THEOREM StudyTypeOK == ASSUME NamesEvents = {TRUE} PROVE Spec => []TypeOK
<1>1. IInv => TypeOK
  BY DEF IInv, Books
<1> QED BY <1>1, StudyInvariant, PTL

(***************************************************************************)
(* The events buildSessionProgress counts, which it recognises by client   *)
(* event ids alone, are exactly the latest answers of the cards that are   *)
(* completed, or were when they were removed: no undone answer is counted, *)
(* and no answer that stands is left out, also when an undo stops half-way.*)
(***************************************************************************)
THEOREM EventsCountWhatStands == ASSUME NamesEvents = {TRUE} PROVE Spec => []CountedAnswersStand
<1>1. IInv => CountedAnswersStand
  BY InvariantCounts DEF IInv
<1> QED BY <1>1, StudyInvariant, PTL

(***************************************************************************)
(* The limit of new words is checked against events when a card is         *)
(* selected, and against rows when the buffer is filled and trimmed.  No   *)
(* new card is counted twice, and the two agree on every word but those    *)
(* whose answer was half undone or removed with the pool, that the         *)
(* dictionary or an import changed, or that got a second new card or a     *)
(* review card besides its follow-ups.                                     *)
(***************************************************************************)
THEOREM EventsAndRowsAgree == ASSUME NamesEvents = {TRUE} PROVE Spec => []LimitsAgree
BY InvariantLimits, StudyInvariant, PTL

(***************************************************************************)
(* A device is told "no_cards_available" only when no review is due, and   *)
(* either no new word waits or the limit is taken up: by words that are    *)
(* learned, and by parted words whose answer still counts.                 *)
(***************************************************************************)
THEOREM NothingLeftIsTold == ASSUME NamesEvents = {TRUE} PROVE Spec => NothingLeftIsTrue
<1> DEFINE Step ==
      \A d \in Devices :
        reply'[d] # reply[d] /\ reply'[d].reason = "no_cards_available" =>
          /\ Pending(cards', ReviewCards) = {}
          /\ Pending(cards', NewCards) = {} \/ Cardinality(TakesUpLimit') >= NewLimit
      Counted ==
        /\ IsFiniteSet(CountedNew) /\ CountedNew \subseteq NewCards
        /\ DailyNewCompleted = Cardinality(CountedNew)
<1>1. IInv => Counted
  BY CountedOnce DEF IInv
<1> HIDE DEF Counted
<1>2. ASSUME NamesEvents = {TRUE}, IInv, [Next]_vars
      PROVE  Step
  <2> SUFFICES ASSUME NEW d \in Devices, reply'[d] # reply[d], reply'[d].reason = "no_cards_available"
               PROVE  /\ Pending(cards', ReviewCards) = {}
                      /\ Pending(cards', NewCards) = {} \/ Cardinality(TakesUpLimit') >= NewLimit
    OBVIOUS
  <2>1. reply \in [Devices -> CardResponse]
    BY <1>2 DEF IInv, Books, TypeOK
  <2>2. ~\E e : AnswerGiven(e)
    BY <2>1, Replies DEF AnswerGiven
  <2>3. ASSUME NEW s \in Devices, NEW e \in Standing, AnswerTaken(s, e) PROVE FALSE
    <3>1. reply' = [reply EXCEPT ![s] = Shown(e.card)]
      BY <2>3 DEF AnswerTaken
    <3>2. reply'[d] = reply[d] \/ reply'[d] = Shown(e.card)
      BY <2>1, <3>1
    <3> QED BY <3>2, Replies
  <2>4. Moved /\ \E s \in Devices : \E r : Told(cards', s, r) /\ reply' = [reply EXCEPT ![s] = r]
    BY <1>2, <2>2, <2>3, NextHasAKind DEF StepKinds
  <2>5. PICK s \in Devices : \E r : Told(cards', s, r) /\ reply' = [reply EXCEPT ![s] = r]
    BY <2>4
  <2>6. PICK r : Told(cards', s, r) /\ reply' = [reply EXCEPT ![s] = r]
    BY <2>5
  <2>7. r.reason = "no_cards_available"
    BY <2>1, <2>6
  <2>8. /\ Pending(cards', ReviewCards) = {}
        /\ Pending(cards', NewCards) = {} \/ DailyNewCompleted >= NewLimit
    BY <2>6, <2>7, ToldIsTrue
  <2>9. IInv' /\ DailyNewCompleted' = DailyNewCompleted
    BY <1>2, <2>4, NextKeepsInvariant, CountsKept DEF Moved
  <2>10. /\ IsFiniteSet(CountedNew') /\ CountedNew' \subseteq NewCards
         /\ DailyNewCompleted' = Cardinality(CountedNew')
    <3>1. Counted'
      BY <2>9, <1>1, PTL
    <3> QED BY <3>1 DEF Counted
  <2>11. CountedNew' \subseteq TakesUpLimit' /\ TakesUpLimit' \subseteq Cards
    <3>1. LimitsAgree'
      BY <2>9, InvariantLimits, PTL
    <3> QED BY <2>10, <3>1 DEF LimitsAgree, TakesUpLimit, LearnedNew, Cards
  <2>12. IsFiniteSet(TakesUpLimit')
    BY <2>11, SessionAssumption, FS_Subset
  <2>13. DailyNewCompleted <= Cardinality(TakesUpLimit')
    BY <2>9, <2>10, <2>11, <2>12, FS_Subset
  <2>14. DailyNewCompleted \in Nat /\ Cardinality(TakesUpLimit') \in Nat /\ NewLimit \in Nat
    BY <2>9, <2>10, <2>12, FS_CardinalityType, SessionAssumption
  <2> QED BY <2>8, <2>13, <2>14
<1>3. ASSUME NamesEvents = {TRUE} PROVE IInv /\ [Next]_vars => [Step]_vars
  BY <1>2
<1> QED BY <1>3, StudyInvariant, PTL DEF Spec, NothingLeftIsTrue

---------------------------------------------------------------------------
(* The budget *)

(***************************************************************************)
(* The counts of a session under the mapping, and how an answer, or the    *)
(* undo of one, changes them.                                              *)
(***************************************************************************)
LEMMA MappedInit ==
  ASSUME Init, IInv
  PROVE  Budget!Init
<1>1. ASSUME NEW d \in Sessions
      PROVE  SessionReviewCompleted(d) = 0 /\ SessionNewCompleted(d) = 0
  <2>1. Standing = {}
    BY <1>1 DEF Init, Standing
  <2>2. Reviews(Standing, d) = {} /\ Learnings(Standing, d) = {}
    BY <2>1 DEF Reviews, Learnings
  <2>3. Cardinality({}) = 0
    BY FS_EmptySet
  <2> QED BY <2>2, <2>3, SessionCounts
<1>2. \A d \in Sessions : reply[d].reason # "session_total_cap_reached"
  BY Replies DEF Init, Sessions
<1> QED BY <1>1, <1>2 DEF Budget!Init

LEMMA AnswerSpends ==
  ASSUME IInv, NEW e, AnswerGiven(e)
  PROVE  [Budget!Next]_(Budget!vars)
<1> DEFINE rs == [d \in Sessions |-> SessionReviewCompleted(d)]
           ns == [d \in Sessions |-> SessionNewCompleted(d)]
           ts == {d \in Sessions : reply[d].reason = "session_total_cap_reached"}
<1>1. e \notin Standing /\ Standing' = Standing \cup {e} /\ LogIsNumbered
  BY AnswerKeepsBooks DEF IInv, Books
<1>2. e.session \in Sessions => Spent(e.session) < catchUpSessionTotalCap
  BY AnswerKeepsBooks DEF IInv
<1>3. ASSUME NEW d
      PROVE  /\ SessionReviewCompleted(d) \in Nat /\ SessionNewCompleted(d) \in Nat
             /\ SessionReviewCompleted(d)'
                  = SessionReviewCompleted(d) + IF IsReview(e) /\ e.session = d THEN 1 ELSE 0
             /\ SessionNewCompleted(d)'
                  = SessionNewCompleted(d) + IF IsLearnedNew(e) /\ e.session = d THEN 1 ELSE 0
  BY <1>1, CountsAfterAnswer
<1>4. ts' = ts
  <2>1. /\ e.session \in Devices /\ e.card \in Cards /\ reply[e.session].card = e.card
        /\ reply' = [reply EXCEPT ![e.session] = Silent] /\ reply \in [Devices -> CardResponse]
    BY DEF AnswerGiven, Event, IInv, Books, TypeOK
  <2>2. reply[e.session].reason = NoReason
    BY <2>1, SessionAssumption DEF IInv, Books, BudgetKept
  <2>3. \A d \in Devices : reply'[d].reason = reply[d].reason
    BY <2>1, <2>2, Replies
  <2> QED BY <2>3 DEF Sessions
<1> HIDE DEF ts
<1>5. CASE e.session \in Sessions /\ IsReview(e)
  <2>1. rs' = [rs EXCEPT ![e.session] = @ + 1] /\ ns' = ns
    BY <1>3, <1>5 DEF IsReview, IsLearnedNew
  <2>2. rs[e.session] + ns[e.session] < catchUpSessionTotalCap
    BY <1>2, <1>5 DEF Spent
  <2> QED BY <1>4, <1>5, <2>1, <2>2 DEF Budget!Next, Budget!Review, Budget!Spent, ts
<1>6. CASE e.session \in Sessions /\ IsLearnedNew(e)
  <2>1. ns' = [ns EXCEPT ![e.session] = @ + 1] /\ rs' = rs
    BY <1>3, <1>6 DEF IsReview, IsLearnedNew
  <2>2. rs[e.session] + ns[e.session] < catchUpSessionTotalCap
    BY <1>2, <1>6 DEF Spent
  <2> QED BY <1>4, <1>6, <2>1, <2>2 DEF Budget!Next, Budget!Learn, Budget!Spent, ts
<1>7. CASE e.session \notin Sessions \/ ~Counts(e)
  <2>1. rs' = rs /\ ns' = ns
    BY <1>3, <1>7 DEF Counts
  <2> QED BY <1>4, <2>1 DEF Budget!vars, ts
<1> QED BY <1>5, <1>6, <1>7 DEF Counts

LEMMA UndoGivesBack ==
  ASSUME IInv, NEW d \in Devices, NEW e \in Standing, AnswerTaken(d, e)
  PROVE  [Budget!Next]_(Budget!vars)
<1> DEFINE rs == [s \in Sessions |-> SessionReviewCompleted(s)]
           ns == [s \in Sessions |-> SessionNewCompleted(s)]
           ts == {s \in Sessions : reply[s].reason = "session_total_cap_reached"}
<1>1. Standing' = Standing \ {e} /\ LogIsNumbered /\ e.session = d
  BY DEF AnswerTaken, IInv, Books
<1>2. ASSUME NEW s
      PROVE  /\ SessionReviewCompleted(s)' \in Nat /\ SessionNewCompleted(s)' \in Nat
             /\ SessionReviewCompleted(s)
                  = SessionReviewCompleted(s)' + IF IsReview(e) /\ e.session = s THEN 1 ELSE 0
             /\ SessionNewCompleted(s)
                  = SessionNewCompleted(s)' + IF IsLearnedNew(e) /\ e.session = s THEN 1 ELSE 0
  BY <1>1, CountsAfterUndo
<1>3. ts' = ts \ {d}
  <2>1. reply' = [reply EXCEPT ![d] = Shown(e.card)] /\ reply \in [Devices -> CardResponse]
    BY DEF AnswerTaken, IInv, Books, TypeOK
  <2>2. \A s \in Devices : IF s = d THEN reply'[s].reason = NoReason ELSE reply'[s] = reply[s]
    BY <2>1, Replies
  <2> QED BY <2>2, Replies DEF Sessions
<1> HIDE DEF ts
<1>4. CASE d \in Sessions /\ IsReview(e)
  <2>1. ns' = ns
    BY <1>1, <1>2, <1>4 DEF IsReview, IsLearnedNew
  <2>2. SessionReviewCompleted(d)' = SessionReviewCompleted(d) - 1 /\ SessionReviewCompleted(d) > 0
    BY <1>1, <1>2, <1>4
  <2>3. \A s \in Sessions \ {d} : SessionReviewCompleted(s)' = SessionReviewCompleted(s)
    BY <1>1, <1>2
  <2>4. rs' = [rs EXCEPT ![d] = @ - 1] /\ rs[d] > 0
    BY <2>2, <2>3, <1>4
  <2> QED BY <1>3, <1>4, <2>1, <2>4 DEF Budget!Next, Budget!TakeBackReview, ts
<1>5. CASE d \in Sessions /\ IsLearnedNew(e)
  <2>1. rs' = rs
    BY <1>1, <1>2, <1>5 DEF IsReview, IsLearnedNew
  <2>2. SessionNewCompleted(d)' = SessionNewCompleted(d) - 1 /\ SessionNewCompleted(d) > 0
    BY <1>1, <1>2, <1>5
  <2>3. \A s \in Sessions \ {d} : SessionNewCompleted(s)' = SessionNewCompleted(s)
    BY <1>1, <1>2
  <2>4. ns' = [ns EXCEPT ![d] = @ - 1] /\ ns[d] > 0
    BY <2>2, <2>3, <1>5
  <2> QED BY <1>3, <1>5, <2>1, <2>4 DEF Budget!Next, Budget!TakeBackLearn, ts
<1>6. CASE d \in Sessions /\ ~Counts(e)
  <2>1. rs' = rs /\ ns' = ns
    BY <1>2, <1>6 DEF Counts
  <2> QED BY <1>3, <1>6, <2>1 DEF Budget!Next, Budget!Resume, ts
<1>7. CASE d \notin Sessions
  <2>1. rs' = rs /\ ns' = ns
    BY <1>1, <1>2, <1>7
  <2>2. ts' = ts
    BY <1>3, <1>7 DEF ts
  <2> QED BY <2>1, <2>2 DEF Budget!vars, ts
<1> QED BY <1>4, <1>5, <1>6, <1>7 DEF Counts

LEMMA RequestTells ==
  ASSUME IInv, NEW d \in Devices, NEW r, UNCHANGED log,
         Told(cards', d, r), reply' = [reply EXCEPT ![d] = r]
  PROVE  [Budget!Next]_(Budget!vars)
<1> DEFINE rs == [s \in Sessions |-> SessionReviewCompleted(s)]
           ns == [s \in Sessions |-> SessionNewCompleted(s)]
           ts == {s \in Sessions : reply[s].reason = "session_total_cap_reached"}
<1>1. rs' = rs /\ ns' = ns
  BY CountsKept
<1>2. r.reason = "session_total_cap_reached" <=> SessionComplete(d)
  BY ToldIsTrue
<1>3. \A s \in Devices : reply'[s] = IF s = d THEN r ELSE reply[s]
  BY DEF IInv, Books, TypeOK
<1>4. ts' = IF d \in Sessions /\ SessionComplete(d) THEN ts \cup {d} ELSE ts \ {d}
  BY <1>2, <1>3 DEF Sessions
<1>5. d \notin Sessions => d \notin ts
  OBVIOUS
<1> HIDE DEF ts
<1>6. CASE d \in Sessions /\ SessionComplete(d)
  <2>1. Spent(d) >= catchUpSessionTotalCap /\ Spent(d) <= catchUpSessionTotalCap
    BY <1>6 DEF SessionComplete, Spent, IInv, Books, BudgetKept
  <2>2. Spent(d) \in Nat /\ catchUpSessionTotalCap \in Nat
    BY SessionAssumption, CountsAreNaturals DEF Spent, IInv, Books
  <2>3. Spent(d) = catchUpSessionTotalCap
    BY <2>1, <2>2
  <2>4. rs[d] + ns[d] = catchUpSessionTotalCap
    BY <1>6, <2>3 DEF Spent
  <2> QED BY <1>1, <1>4, <1>6, <2>4 DEF Budget!Next, Budget!Tell, Budget!Spent, ts
<1>7. CASE d \in Sessions /\ ~SessionComplete(d)
  BY <1>1, <1>4, <1>7 DEF Budget!Next, Budget!Resume, ts
<1>8. CASE d \notin Sessions
  <2>1. ts' = ts
    BY <1>4, <1>5, <1>8
  <2> QED BY <1>1, <2>1 DEF Budget!vars, ts
<1> QED BY <1>6, <1>7, <1>8

LEMMA StepIsBudgeted ==
  ASSUME NamesEvents = {TRUE}, IInv, [Next]_vars
  PROVE  [Budget!Next]_(Budget!vars)
<1>1. ASSUME NEW e, AnswerGiven(e)
      PROVE  [Budget!Next]_(Budget!vars)
  BY <1>1, AnswerSpends
<1>2. ASSUME NEW d \in Devices, NEW e \in Standing, AnswerTaken(d, e)
      PROVE  [Budget!Next]_(Budget!vars)
  BY <1>2, UndoGivesBack
<1>3. ASSUME NEW d \in Devices, NEW r, Moved,
             Told(cards', d, r), reply' = [reply EXCEPT ![d] = r]
      PROVE  [Budget!Next]_(Budget!vars)
  BY <1>3, RequestTells DEF Moved
<1>4. ASSUME Moved, reply' = reply
      PROVE  [Budget!Next]_(Budget!vars)
  <2>1. log' = log /\ reply' = reply
    BY <1>4 DEF Moved
  <2>2. \A d : SessionReviewCompleted(d)' = SessionReviewCompleted(d) /\ SessionNewCompleted(d)' = SessionNewCompleted(d)
    BY <2>1, CountsKept
  <2> QED BY <2>1, <2>2 DEF Budget!vars
<1> QED BY <1>1, <1>2, <1>3, <1>4, NextHasAKind DEF StepKinds

(***************************************************************************)
(* The study loop implements the session budget: whatever the devices      *)
(* request, answer and take back, each session spends one answer at a time *)
(* and never more than catchUpSessionTotalCap, an undo gives back one, and *)
(* "session_total_cap_reached" is said exactly when all are spent.         *)
(***************************************************************************)
THEOREM StudyImplementsBudget == ASSUME NamesEvents = {TRUE} PROVE Spec => ImplementsBudget
<1>1. Init => IInv
  BY InitHasInvariant
<1>2. Init /\ IInv => Budget!Init
  BY MappedInit
<1>3. IInv /\ [Next]_vars => [Budget!Next]_(Budget!vars)
  BY StepIsBudgeted
<1> QED BY <1>1, <1>2, <1>3, StudyInvariant, PTL DEF Spec, ImplementsBudget, Budget!Spec
=============================================================================
