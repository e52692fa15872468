---------------------------- MODULE StudySession ----------------------------
(***************************************************************************)
(* The study loop of one user on one day: devices ask for the next card,   *)
(* answer it and take the last answer back, while the dictionary is edited *)
(* and the pool rebuilt.  How far a session has come is stored nowhere:    *)
(* every request counts the day's events anew, and what an undo takes back *)
(* is known by the client's event id alone.  The buffer of new words       *)
(* counts rows of words instead; the two counts agree on every word that   *)
(* was only dealt, answered and taken back (`parted` has the others).      *)
(***************************************************************************)
EXTENDS Naturals, FiniteSets

CONSTANTS
  Words,
  ReviewCards, NewCards, PracticeCards,  \* pool items the day can have, by what they are
  WordOf,        \* the word of each card
  Devices,       \* each with a session of its own ...
  Anonymous,     \* ... but these send no session id
  NamesEvents,   \* whether clients send event ids: a subset of BOOLEAN
  NewLimit,      \* settings.DailyNewWordLimit
  catchUpSessionTotalCap, catchUpSessionReviewRunCap, catchUpSessionNewRunCap,
  MaxEvents,     \* bound on the events of the day
  MaxEdits,      \* bound on the changes to the dictionary and rebuilds of the pool
  NoCard

Cards == ReviewCards \cup NewCards \cup PracticeCards
Sessions == Devices \ Anonymous

ASSUME SessionAssumption ==
  /\ IsFiniteSet(Cards) /\ NoCard \notin Cards /\ WordOf \in [Cards -> Words]
  /\ NewCards \cap (ReviewCards \cup PracticeCards) = {} /\ ReviewCards \cap PracticeCards = {}
  /\ NewLimit \in Nat /\ MaxEvents \in Nat /\ MaxEdits \in Nat /\ NamesEvents \subseteq BOOLEAN
  /\ {catchUpSessionTotalCap, catchUpSessionReviewRunCap, catchUpSessionNewRunCap} \subseteq Nat

VARIABLES
  cards,       \* what has become of each card
  row,         \* the user_word_states row of each word: none, known, or being learned
  log,         \* learning_events of the day
  reply,       \* the last card response of each device
  last,        \* the last card each device has answered
  parted,      \* history: the words whose two counts may part; no action reads it
  edits        \* the changes so far to the dictionary, and rebuilds
vars == <<cards, row, log, reply, last, parted, edits>>

\* A card that is pending and not due yet is "later"; "gone" is a completed card that
\* was removed, whose events stay.  An answer of practice is a review_answer too.
Statuses == {"undealt", "later", "pending", "completed", "deleted", "gone"}
RowStatuses == {"none", "known", "learning"}
Event == [at: 1..MaxEvents, type: {"first_exposure", "review_answer", "answer_undo"}, unknown: BOOLEAN,
          id: 0..MaxEvents, session: Devices, card: Cards, prev: RowStatuses,
          created: SUBSET Cards, deleted: SUBSET NewCards]
CardResponse == [card: Cards \cup {NoCard}, reason: {"", "session_total_cap_reached", "no_cards_available"}]
Silent == [card |-> NoCard, reason |-> ""]

TypeOK ==
  /\ cards \in [Cards -> Statuses]
  /\ row \in [Words -> RowStatuses]
  /\ log \subseteq Event
  /\ reply \in [Devices -> CardResponse]
  /\ last \in [Devices -> Cards \cup {NoCard}]
  /\ parted \subseteq Words /\ edits \in 0..MaxEdits

---------------------------------------------------------------------------
(* Dealing cards; deck and rows are the cards and the rows as the request reads them *)

Pending(deck, S) == {c \in S : deck[c] = "pending"}
Waiting(deck, S) == {c \in S : deck[c] \in {"pending", "later"}}     \* status 'pending'
InPool(deck, S)  == {c \in S : deck[c] \in {"pending", "later", "completed"}}
CardsOf(S, w) == {c \in S : WordOf[c] = w}
Undealt(deck, S) == {c \in S : deck[c] = "undealt"}

Deal(deck, S) == [c \in Cards |-> IF c \in S THEN "pending" ELSE deck[c]]

\* What generateNewWords may give: at most n words without a row and without a card.
NewWords(deck, rows, n) ==
  {S \in SUBSET Undealt(deck, NewCards) :
     /\ Cardinality(S) <= n
     /\ \A c \in S : rows[WordOf[c]] = "none" /\ InPool(deck, CardsOf(Cards, WordOf[c])) = {}
     /\ \A c, x \in S : WordOf[c] = WordOf[x] => c = x}
PrefetchBatchSize == 2 * NewLimit

\* What is due when a pool is opened or practised is a word that is being learned.
Learned(deck, rows, S) == {c \in Undealt(deck, S) : rows[WordOf[c]] = "learning"}

\* CreateDailyPool: the due words and a batch of new ones; practice is dealt later.
PoolsFrom(deck, rows) ==
  UNION {{Deal(deck, due \cup new) : new \in NewWords(deck, rows, PrefetchBatchSize)}
           : due \in SUBSET Learned(deck, rows, ReviewCards)}

\* The pool has been created.
Init ==
  /\ row \in [Words -> RowStatuses]
  /\ cards \in PoolsFrom([c \in Cards |-> "undealt"], row)
  /\ log = {} /\ parted = {} /\ edits = 0
  /\ reply = [d \in Devices |-> Silent]
  /\ last = [d \in Devices |-> NoCard]

---------------------------------------------------------------------------
(* buildSessionProgress *)

\* Mutant of UndoneClientEventIDs: the events of undos are not looked for.
UndoneIgnored == {}
UndoneClientEventIDs == {e.id : e \in {f \in log : f.type = "answer_undo"}} \ {0}

IsReview(e) == e.type = "review_answer"

\* Mutant of IsLearnedNew: a word that was known counts as learned.
IsAnyExposure(e) == e.type = "first_exposure"
IsLearnedNew(e) == e.type = "first_exposure" /\ e.unknown

\* The events that count; an event without a client id can not be recognised as undone.
Completed == {e \in log : (IsReview(e) \/ IsLearnedNew(e)) /\ e.id \notin UndoneClientEventIDs}
DailyNewCompleted == Cardinality({e \in Completed : IsLearnedNew(e)})
SessionReviewCompleted(d) == Cardinality({e \in Completed : e.session = d /\ IsReview(e)})
SessionNewCompleted(d) == Cardinality({e \in Completed : e.session = d /\ IsLearnedNew(e)})

HasSession(d) == d \notin Anonymous

\* Mutant of SessionComplete: one answer more.
SessionCompleteLate(d) ==
  HasSession(d) /\ SessionReviewCompleted(d) + SessionNewCompleted(d) > catchUpSessionTotalCap

SessionComplete(d) ==
  HasSession(d) /\ SessionReviewCompleted(d) + SessionNewCompleted(d) >= catchUpSessionTotalCap

PrefersNew(d) ==
  /\ HasSession(d)
  /\ SessionReviewCompleted(d) >= catchUpSessionReviewRunCap
  /\ SessionNewCompleted(d) < catchUpSessionNewRunCap

---------------------------------------------------------------------------
(* Selecting a card *)

SelectableNew(deck) == IF DailyNewCompleted >= NewLimit THEN {} ELSE Pending(deck, NewCards)

\* Mutant of MainCandidates: the preferred kind or nothing.
MainWithoutFallback(deck, d) ==
  IF PrefersNew(d) THEN SelectableNew(deck) ELSE Pending(deck, ReviewCards)

MainCandidates(deck, d) ==
  LET review == Pending(deck, ReviewCards)
      new == SelectableNew(deck)
  IN IF (PrefersNew(d) /\ new # {}) \/ review = {} THEN new ELSE review

\* findNextCardForSession, findNextPracticeCardForSession: the replies a request can get.
NextCardFromView(deck, d, practice) ==
  LET main == MainCandidates(deck, d)
      found == IF main # {} THEN main ELSE IF practice THEN Pending(deck, PracticeCards) ELSE {}
  IN IF SessionComplete(d)
     THEN {[card |-> NoCard, reason |-> "session_total_cap_reached"]}
     ELSE IF found # {}
     THEN {[card |-> c, reason |-> ""] : c \in found}
     ELSE {[card |-> NoCard, reason |-> IF HasSession(d) THEN "no_cards_available" ELSE ""]}

\* Mutant of PendingNew: pending cards of every type.
PendingOfEveryType(deck) == Waiting(deck, Cards)

\* inspectNewWordBufferState
PendingNew(deck) == Waiting(deck, NewCards)
LearnedNew(deck, rows) == {c \in NewCards : deck[c] = "completed" /\ rows[WordOf[c]] = "learning"}
LearnedNewCount(deck, rows) == Cardinality(LearnedNew(deck, rows))

\* replenishUnknownDailySlots deals new cards only below the limit and when none is waiting.
NewWordsWanted(deck, rows) ==
  NewLimit > 0 /\ LearnedNewCount(deck, rows) < NewLimit /\ PendingNew(deck) = {}
Replenishments(deck, rows) ==
  IF NewWordsWanted(deck, rows) THEN NewWords(deck, rows, PrefetchBatchSize) ELSE {{}}

PracticeWanted(r, practice) ==
  /\ Pending(cards, PracticeCards) = {}
  /\ IF practice THEN r.card = NoCard ELSE r.reason # ""

---------------------------------------------------------------------------
(* Requests *)

\* What a request that got the reply r may deal: new words when a device without a
\* session runs out, or practice cards.
Dealings(d, r, practice) ==
  IF ~practice /\ ~HasSession(d) /\ r.card = NoCard THEN Replenishments(cards, row)
  ELSE IF PracticeWanted(r, practice) THEN SUBSET Learned(cards, row, PracticeCards)
  ELSE {{}}

\* A request that runs out of cards deals what it can get and looks again.
GetNextCard(d, practice) ==
  /\ \E first \in NextCardFromView(cards, d, practice) :
     \E S \in Dealings(d, first, practice) :
       /\ cards' = Deal(cards, S)
       /\ \E r \in (IF S = {} THEN {first} ELSE NextCardFromView(cards', d, practice)) :
            reply' = [reply EXCEPT ![d] = r]
  /\ UNCHANGED <<row, log, last, parted, edits>>

Record(e) ==
  /\ Cardinality(log) < MaxEvents
  /\ log' = log \cup {e}

\* Whether the client names the event; ids are never used twice.
EventAt == Cardinality(log) + 1
Ids == {IF named THEN EventAt ELSE 0 : named \in NamesEvents}

Answered(d, c) ==
  /\ reply' = [reply EXCEPT ![d] = Silent]
  /\ last' = [last EXCEPT ![d] = c]

\* A word that is due again today gets another card, which may be due only later.
FollowUps(w) == {<<>>} \cup (Undealt(cards, CardsOf(ReviewCards, w)) \X {"pending", "later"})
Followed(deck, f) == IF f = <<>> THEN deck ELSE [deck EXCEPT ![f[1]] = f[2]]
Created(f) == IF f = <<>> THEN {} ELSE {f[1]}

\* maintainNewWordBuffer: at the limit, the new cards that wait are trimmed.
Trimmed(deck, rows) ==
  IF NewLimit > 0 /\ LearnedNewCount(deck, rows) >= NewLimit THEN PendingNew(deck) ELSE {}

SubmitFirstExposure(d, c, unknown) ==
  /\ reply[d].card = c /\ c \in NewCards /\ cards[c] = "pending"
  /\ row' = [row EXCEPT ![WordOf[c]] = IF unknown THEN "learning" ELSE "known"]
  /\ \E f \in (IF unknown THEN FollowUps(WordOf[c]) ELSE {<<>>}), id \in Ids :
       LET deck == Followed([cards EXCEPT ![c] = "completed"], f)
           trimmed == Trimmed(deck, row')
       IN \E S \in Replenishments(deck, row') :
            /\ cards' = [x \in Cards |-> IF x \in trimmed THEN "deleted" ELSE Deal(deck, S)[x]]
            /\ Record([at |-> EventAt, type |-> "first_exposure", unknown |-> unknown, id |-> id,
                       session |-> d, card |-> c, prev |-> row[WordOf[c]],
                       created |-> Created(f) \cup S, deleted |-> trimmed])
  /\ Answered(d, c)
  /\ UNCHANGED <<parted, edits>>

\* A review needs the word's row.  The answer of a practice card leaves the schedule alone.
SubmitReview(d, c) ==
  /\ reply[d].card = c /\ c \in ReviewCards \cup PracticeCards /\ cards[c] = "pending"
  /\ row[WordOf[c]] # "none"
  /\ row' = IF c \in ReviewCards THEN [row EXCEPT ![WordOf[c]] = "learning"] ELSE row
  /\ \E f \in (IF c \in ReviewCards THEN FollowUps(WordOf[c]) ELSE {<<>>}), id \in Ids :
       /\ cards' = Followed([cards EXCEPT ![c] = "completed"], f)
       /\ Record([at |-> EventAt, type |-> "review_answer", unknown |-> FALSE, id |-> id,
                  session |-> d, card |-> c, prev |-> row[WordOf[c]],
                  created |-> Created(f), deleted |-> {}])
  /\ Answered(d, c)
  /\ UNCHANGED <<parted, edits>>

---------------------------------------------------------------------------
(* Taking back an answer *)

\* The answers of a card, and the latest.
Answers(c) == {e \in log : e.card = c /\ e.type # "answer_undo"}
Latest(S) == CHOOSE e \in S : \A f \in S : f.at <= e.at
IsLastCompleted(c) ==
  /\ cards[c] = "completed"
  /\ \A b \in Cards : cards[b] = "completed" => Latest(Answers(b)).at <= Latest(Answers(c)).at

\* The last card d has answered is the last one answered, and what its answer e has
\* created still waits.
Undoes(d, e) ==
  /\ last[d] # NoCard /\ IsLastCompleted(last[d])
  /\ e = Latest(Answers(last[d]))
  /\ e.created \subseteq Waiting(cards, Cards)

\* The cards an undo leaves: what the answer created is deleted, back is pending again.
TakenBack(e, back) ==
  [x \in Cards |-> IF x \in e.created THEN "deleted" ELSE IF x \in back THEN "pending" ELSE cards[x]]

\* The new cards of the word of c that are in the pool: c itself, or one dealt since
\* c was trimmed.  Only such a card can hold the position of c.
Rivals(c) == InPool(cards, CardsOf(NewCards, WordOf[c]))
DealtAgain(back) == {WordOf[x] : x \in {y \in back : Rivals(y) # {}}}

\* The answer is taken back; the reply is the card, open again.  A trimmed card that was
\* put back, answered and removed since ("gone") would come back under an id of its
\* own: the model has no card for it, and leaves that undo out.
UndoLastAnswer(d) ==
  \E e \in log :
    /\ Undoes(d, e)
    /\ \A x \in e.deleted : cards[x] = "deleted"
    /\ cards' = TakenBack(e, e.deleted \cup {e.card})
    /\ row' = [row EXCEPT ![WordOf[e.card]] = e.prev]
    /\ Record([at |-> EventAt, type |-> "answer_undo", unknown |-> FALSE, id |-> e.id,
               session |-> d, card |-> e.card, prev |-> row[WordOf[e.card]],
               created |-> {}, deleted |-> {}])
    /\ reply' = [reply EXCEPT ![d] = [card |-> e.card, reason |-> ""]]
    /\ last' = [last EXCEPT ![d] = NoCard]
    /\ parted' = parted \cup DealtAgain(e.deleted)
    /\ UNCHANGED edits

\* A trimmed card can not be put back because a rival has its position: the undo fails
\* with the row restored and some cards put back, but the card stays completed.
UndoStopsHalfway(d) ==
  \E e \in log :
    /\ Undoes(d, e)
    /\ \E clash \in e.deleted : \E back \in SUBSET (e.deleted \ {clash}) :
         /\ Rivals(clash) # {}
         /\ \A x \in back : cards[x] = "deleted"
         /\ cards' = TakenBack(e, back)
         /\ parted' = parted \cup DealtAgain(back) \cup {WordOf[e.card]}
    /\ row' = [row EXCEPT ![WordOf[e.card]] = e.prev]
    /\ UNCHANGED <<log, reply, last, edits>>

---------------------------------------------------------------------------
(* What else happens to the cards and the rows *)

\* A waiting card falls due.
FallDue(c) ==
  /\ cards[c] = "later"
  /\ cards' = [cards EXCEPT ![c] = "pending"]
  /\ UNCHANGED <<row, log, reply, last, parted, edits>>

\* An opening of the pool deals a review card of a word added or relisted, or of one
\* answered today whose follow-up was lost.
DealReview(c) ==
  /\ c \in Learned(cards, row, ReviewCards)
  /\ cards' = Deal(cards, {c})
  /\ parted' = parted \cup {WordOf[x] : x \in {y \in CardsOf(NewCards, WordOf[c]) : cards[y] = "completed"}}
  /\ UNCHANGED <<row, log, reply, last, edits>>

AppendMoreNewWords ==
  /\ \E S \in NewWords(cards, row, NewLimit) : S # {} /\ cards' = Deal(cards, S)
  /\ UNCHANGED <<row, log, reply, last, parted, edits>>

Edit == edits < MaxEdits /\ edits' = edits + 1

\* The events of a completed card stay when the card is removed.
Removed(S) ==
  [c \in Cards |-> IF c \notin InPool(cards, S) THEN cards[c]
                   ELSE IF cards[c] = "completed" THEN "gone" ELSE "deleted"]

\* ForceRebuildTodayPool removes every card and creates the pool again.
RebuildPool ==
  /\ Edit
  /\ cards' \in PoolsFrom(Removed(Cards), row)
  /\ parted' = parted \cup {WordOf[c] : c \in {x \in Cards : cards[x] = "completed"}}
  /\ UNCHANGED <<row, log, reply, last>>

\* The dictionary deletes a word with its cards, ...
DeleteWord(w) ==
  /\ Edit
  /\ row[w] # "none"
  /\ row' = [row EXCEPT ![w] = "none"]
  /\ cards' = Removed(CardsOf(Cards, w))
  /\ parted' = parted \cup {w}
  /\ UNCHANGED <<log, reply, last>>

\* ... adds one that has no row, or moves it between known and learning, ...
EditWord(w) ==
  /\ Edit
  /\ \E status \in {"known", "learning"} \ {row[w]} : row' = [row EXCEPT ![w] = status]
  /\ parted' = parted \cup {w}
  /\ UNCHANGED <<cards, log, reply, last>>

\* ... and an import adds one with a new card.
ConfirmImport(c) ==
  /\ Edit
  /\ c \in Undealt(cards, NewCards) /\ row[WordOf[c]] = "none"
  /\ row' = [row EXCEPT ![WordOf[c]] = "learning"]
  /\ cards' = Deal(cards, {c})
  /\ parted' = parted \cup {WordOf[c]}
  /\ UNCHANGED <<log, reply, last>>

Next ==
  \/ \E d \in Devices :
       \/ \E practice \in BOOLEAN : GetNextCard(d, practice)
       \/ \E c \in Cards :
            SubmitReview(d, c) \/ \E unknown \in BOOLEAN : SubmitFirstExposure(d, c, unknown)
       \/ UndoLastAnswer(d)
       \/ UndoStopsHalfway(d)
  \/ \E c \in Cards : FallDue(c) \/ DealReview(c) \/ ConfirmImport(c)
  \/ AppendMoreNewWords
  \/ RebuildPool
  \/ \E w \in Words : DeleteWord(w) \/ EditWord(w)

Spec == Init /\ [][Next]_vars

---------------------------------------------------------------------------
(* Properties *)

\* The events that count, recognised by client event ids, are the answers that stand:
\* the latest of each card that is completed, or was when it was removed.
CountedAnswersStand ==
  Completed = {e \in log : /\ IsReview(e) \/ IsLearnedNew(e)
                           /\ cards[e.card] \in {"completed", "gone"} /\ e = Latest(Answers(e.card))}

\* The new cards whose answer counts as a new word today.
CountedNew == {e.card : e \in {f \in Completed : IsLearnedNew(f)}}

\* The limit of new words is checked against events when a card is selected, and
\* against rows when the buffer is filled and trimmed.  No card is counted twice, and
\* the counts agree on every word but those the dictionary or an import changed, whose
\* answer was half undone or removed with the pool, that got a second new card, or a
\* review card besides its follow-ups.
LimitsAgree ==
  /\ DailyNewCompleted = Cardinality(CountedNew)
  /\ \A c \in NewCards : WordOf[c] \notin parted => (c \in CountedNew <=> c \in LearnedNew(cards, row))

\* A device is told that nothing is left only when nothing is: no due review, and no
\* new word that the limit lets it learn, where a parted word whose answer still
\* counts takes up the limit like one that is learned.
TakesUpLimit == LearnedNew(cards, row) \cup {c \in CountedNew : WordOf[c] \in parted}
NothingLeftIsTrue ==
  [][\A d \in Devices :
       reply'[d] # reply[d] /\ reply'[d].reason = "no_cards_available" =>
         /\ Pending(cards', ReviewCards) = {}
         /\ Pending(cards', NewCards) = {} \/ Cardinality(TakesUpLimit') >= NewLimit]_vars

\* Each session is a budget of answers that the log of events implements.
Budget == INSTANCE SessionBudget WITH
  Cap <- catchUpSessionTotalCap,
  reviews <- [d \in Sessions |-> SessionReviewCompleted(d)],
  news <- [d \in Sessions |-> SessionNewCompleted(d)],
  told <- {d \in Sessions : reply[d].reason = "session_total_cap_reached"}

ImplementsBudget == Budget!Spec
===========================================================================
