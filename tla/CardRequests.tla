--------------------------- MODULE CardRequests ---------------------------
(***************************************************************************)
(* One day of one user, statement by statement: requests that answer, hint *)
(* at, take back and delete due cards overlap with each other and with the *)
(* scheduler opening the pool, and each may be cut off between any two of  *)
(* its statements.  DailyLearning has the same requests as single steps;   *)
(* here every word is in its learning stages, so that every card is a      *)
(* short_term card, and its row is what overlapping requests can lose.     *)
(***************************************************************************)
EXTENDS Naturals, FiniteSets, FiniteSetsExt

CONSTANTS
  Words,       \* the words with a row
  CardIds,     \* ids a card can get, in this order; never used twice
  Callers,     \* concurrent requests
  Cron,        \* the caller that is the scheduler: it only opens the pool
  Keys,        \* client event ids
  Mixes,       \* the kinds of requests the clients make: one of these sets in each behaviour
  MaxCount,    \* bound on the ratings and hints of a row
  NoRow, Null

Kinds == {"open", "review", "hint", "undo", "delete", "add"}

ASSUME CardRequestsAssumption ==
  /\ Null \notin CardIds \cup Words \cup Keys
  /\ IsFiniteSet(Words) /\ IsFiniteSet(CardIds) /\ CardIds \subseteq Nat
  /\ Cron \in Callers /\ Mixes \subseteq SUBSET Kinds /\ MaxCount \in Nat

VARIABLES
  rows,        \* user_word_states
  pool,        \* whether there is a daily_learning_pools row of today
  count,       \* its due_review_count and short_term_count
  cards,       \* daily_learning_pool_items that are scheduled reviews
  events,      \* learning_events
  req,         \* the local variables of each caller's request
  requests     \* the mix of this behaviour
vars == <<rows, pool, count, cards, events, req, requests>>
db == <<rows, pool, count, cards, events>>

\* A row: the ratings and hints counted in it, and whether it is due today.
Row == [answers: 0..MaxCount, hints: 0..MaxCount, due: BOOLEAN]
\* A card; the stamp orders the completions.
Card == [word: Words, ordinal: Nat, stamp: Nat, status: {"pending", "completed"}]
Absent(status) == [word |-> Null, ordinal |-> 0, stamp |-> 0, status |-> status]
Unborn == Absent("unborn")
Gone == Absent("gone")
Event == [kind: {"review", "hint", "undo"}, key: Keys \cup {Null}, card: CardIds, word: Words,
          prev: Row \cup {NoRow}, created: SUBSET CardIds]
Steps == {"idle", "failed", "readPool", "readDue", "reread", "readNew", "create", "ordinal", "append", "count",
          "getCard", "getEvents", "getRow", "upsert", "complete", "record",
          "checkUndo", "restore", "deleteCreated", "reopen", "recordUndo", "deleteRow", "deleteCards"}
Request == [kind: Kinds, at: Steps, card: CardIds \cup {Null}, word: Words \cup {Null},
            key: Keys \cup {Null}, prev: Row \cup {NoRow}, row: Row \cup {NoRow},
            todo: SUBSET Words, ordinal: Nat, dealt: Nat, created: SUBSET CardIds]
Idle == [kind |-> "open", at |-> "idle", card |-> Null, word |-> Null, key |-> Null, prev |-> NoRow,
         row |-> NoRow, todo |-> {}, ordinal |-> 0, dealt |-> 0, created |-> {}]

TypeOK ==
  /\ rows \in [Words -> Row \cup {NoRow}]
  /\ pool \in BOOLEAN
  /\ count \in Nat
  /\ cards \in [CardIds -> Card \cup {Unborn, Gone}]
  /\ events \subseteq Event
  /\ req \in [Callers -> Request]
  /\ requests \in Mixes

\* The day begins: no pool, and each word is due, not due, or not yet in the dictionary.
Init ==
  /\ rows \in [Words -> [answers: {0}, hints: {0}, due: BOOLEAN] \cup {NoRow}]
  /\ pool = FALSE /\ count = 0
  /\ cards = [i \in CardIds |-> Unborn]
  /\ events = {}
  /\ req = [c \in Callers |-> Idle]
  /\ requests \in Mixes

---------------------------------------------------------------------------
(* Tables *)

Exists(i) == i \in CardIds /\ cards[i].status \in {"pending", "completed"}
Cards == {i \in CardIds : Exists(i)}
Pending(i) == Exists(i) /\ cards[i].status = "pending"
Completed(i) == Exists(i) /\ cards[i].status = "completed"
Fresh(i) == cards[i] = Unborn /\ \A j \in CardIds : j < i => cards[j] # Unborn
HasRow(w) == rows[w] # NoRow
DueWords == {w \in Words : HasRow(w) /\ rows[w].due}
Dealt == {cards[i].word : i \in Cards}
LastOrdinal == Max({0} \cup {cards[i].ordinal : i \in Cards})
LastStamp == Max({0} \cup {cards[i].stamp : i \in Cards})

NewCard(w, ordinal) == [word |-> w, ordinal |-> ordinal, stamp |-> 0, status |-> "pending"]
PositionTaken(w, ordinal) == \E i \in Cards : cards[i].word = w /\ cards[i].ordinal = ordinal

\* Mutant of CountWithout: GREATEST(0, ...) is missing.
CountUnclamped(D) == count - Cardinality(D \cap Cards)

\* What deleting the cards in D does to the counter.
CountWithout(D) ==
  LET n == Cardinality(D \cap Cards) IN IF n > count THEN 0 ELSE count - n
Without(D) == [i \in CardIds |-> IF i \in D \cap Cards THEN Gone ELSE cards[i]]

---------------------------------------------------------------------------
(* The flow of a request *)

At(c, step) == req[c].at = step
Goto(c, step) == req' = [req EXCEPT ![c].at = step]
Return(c) == req' = [req EXCEPT ![c] = Idle]
Fail(c) == req' = [req EXCEPT ![c] = [Idle EXCEPT !.kind = req[c].kind, !.at = "failed"]]

Start(c, request) ==
  /\ req[c].at \in {"idle", "failed"}
  /\ request.kind \in requests /\ c # Cron
  /\ req' = [req EXCEPT ![c] = request]
  /\ UNCHANGED db

\* The process stops, or the statement fails; what is committed stays.
Crash(c) ==
  /\ req[c].at \notin {"idle", "failed"}
  /\ Return(c)
  /\ UNCHANGED db

---------------------------------------------------------------------------
(* GetOrCreateDailyPool *)

BeginOpen(c) ==
  /\ req[c].at \in {"idle", "failed"}
  /\ c = Cron \/ "open" \in requests
  /\ req' = [req EXCEPT ![c] = [Idle EXCEPT !.at = "readPool"]]
  /\ UNCHANGED db

\* Mutant of ReadPool: a pool that is there is taken as it is.
ReadPoolOnly(c) ==
  /\ At(c, "readPool")
  /\ IF pool THEN Return(c) ELSE Goto(c, "reread")
  /\ UNCHANGED db

\* The words that have a card are known from here on.
ReadPool(c) ==
  /\ At(c, "readPool")
  /\ IF pool
     THEN req' = [req EXCEPT ![c].at = "readDue", ![c].todo = Words \ Dealt]
     ELSE Goto(c, "reread")
  /\ UNCHANGED db

ReadDue(c) ==
  LET missing == req[c].todo \cap DueWords
  IN /\ At(c, "readDue")
     /\ IF missing = {}
        THEN Return(c)
        ELSE req' = [req EXCEPT ![c].at = "ordinal", ![c].todo = missing]
     /\ UNCHANGED db

\* After AcquireDailyPoolLock, which locks nothing.
Reread(c) ==
  /\ At(c, "reread")
  /\ IF pool THEN Return(c) ELSE Goto(c, "readNew")
  /\ UNCHANGED db

ReadNewPool(c) ==
  /\ At(c, "readNew")
  /\ req' = [req EXCEPT ![c].at = "create", ![c].todo = DueWords]
  /\ UNCHANGED db

\* Mutant of CreatePoolWithItems: the transaction does not look for a pool again.
CreateUnchecked(c) ==
  /\ At(c, "create")
  /\ IF pool
     THEN Fail(c) /\ UNCHANGED <<pool, count, cards>>
     ELSE /\ pool' = TRUE /\ count' = 0 /\ Return(c) /\ UNCHANGED cards
  /\ UNCHANGED <<rows, events>>

\* One transaction under an advisory lock: it finds a pool, or creates one with all its cards.
CreatePoolWithItems(c) ==
  /\ At(c, "create")
  /\ IF pool
     THEN UNCHANGED <<pool, count, cards>>
     ELSE \E ids \in [req[c].todo -> CardIds], ordinals \in [req[c].todo -> 1..Cardinality(req[c].todo)] :
            /\ \A v, w \in req[c].todo : v # w => ids[v] # ids[w] /\ ordinals[v] # ordinals[w]
            /\ \A w \in req[c].todo : cards[ids[w]] = Unborn
            /\ \A i, j \in CardIds : i < j /\ (\E w \in req[c].todo : ids[w] = j)
                                  => cards[i] # Unborn \/ \E w \in req[c].todo : ids[w] = i
            /\ cards' = [i \in CardIds |->
                           IF \E w \in req[c].todo : ids[w] = i
                           THEN LET w == CHOOSE w \in req[c].todo : ids[w] = i IN NewCard(w, ordinals[w])
                           ELSE cards[i]]
            /\ pool' = TRUE
            /\ count' = Cardinality(req[c].todo)
  /\ Return(c)
  /\ UNCHANGED <<rows, events>>

\* GetLastOrdinal, by the reconciliation and by a same-day follow-up.
GetLastOrdinal(c) ==
  /\ At(c, "ordinal")
  /\ req' = [req EXCEPT ![c].at = "append", ![c].ordinal = LastOrdinal]
  /\ UNCHANGED db

\* Mutant of AppendPoolItem: a card whose position is taken is skipped, but counted.
AppendSkipsTaken(c) ==
  LET r == req[c]
      next == IF r.kind = "open" THEN (IF Cardinality(r.todo) = 1 THEN "count" ELSE "append") ELSE "record"
  IN /\ At(c, "append")
     /\ \E w \in r.todo, i \in CardIds :
          /\ Fresh(i)
          /\ cards' = IF PositionTaken(w, r.ordinal + 1)
                      THEN cards ELSE [cards EXCEPT ![i] = NewCard(w, r.ordinal + 1)]
          /\ req' = [req EXCEPT ![c].at = next, ![c].todo = @ \ {w}, ![c].ordinal = @ + 1, ![c].dealt = @ + 1]
     /\ UNCHANGED <<rows, pool, count, events>>

(***************************************************************************)
(* AppendPoolItem.  A position that is taken fails the reconciliation; the *)
(* failure of a follow-up is only logged.                                  *)
(***************************************************************************)
AppendPoolItem(c) ==
  LET r == req[c]
      next == IF r.kind = "open" THEN (IF Cardinality(r.todo) = 1 THEN "count" ELSE "append") ELSE "record"
  IN /\ At(c, "append")
     /\ \E w \in r.todo :
          IF PositionTaken(w, r.ordinal + 1)
          THEN /\ IF r.kind = "open" THEN Fail(c) ELSE Goto(c, "record")
               /\ UNCHANGED cards
          ELSE \E i \in CardIds :
                 /\ Fresh(i)
                 /\ cards' = [cards EXCEPT ![i] = NewCard(w, r.ordinal + 1)]
                 /\ req' = [req EXCEPT ![c].at = next, ![c].todo = @ \ {w}, ![c].ordinal = @ + 1,
                                       ![c].dealt = @ + 1, ![c].created = @ \cup {i}]
     /\ UNCHANGED <<rows, pool, count, events>>

IncrementScheduledCounts(c) ==
  /\ At(c, "count")
  /\ count' = count + req[c].dealt
  /\ Return(c)
  /\ UNCHANGED <<rows, pool, cards, events>>

OpenStep(c) ==
  \/ ReadPool(c) \/ ReadDue(c) \/ Reread(c) \/ ReadNewPool(c) \/ CreatePoolWithItems(c)
  \/ IncrementScheduledCounts(c)
  \/ req[c].kind = "open" /\ (GetLastOrdinal(c) \/ AppendPoolItem(c))

---------------------------------------------------------------------------
(* SubmitReview, SubmitReveal of a hint *)

BeginReview(c, i, k) ==
  Start(c, [Idle EXCEPT !.kind = "review", !.at = "getCard", !.card = i, !.key = k])
BeginHint(c, i, k) ==
  Start(c, [Idle EXCEPT !.kind = "hint", !.at = "getCard", !.card = i, !.key = k])

GetPoolItem(c) ==
  LET i == req[c].card
      isHint == req[c].kind = "hint"
  IN /\ At(c, "getCard")
     /\ IF Pending(i) \/ (isHint /\ Exists(i))
        THEN req' = [req EXCEPT ![c].at = IF isHint THEN "getEvents" ELSE "getRow", ![c].word = cards[i].word]
        ELSE Fail(c)
     /\ UNCHANGED db

\* hasRecordedHintStep: every hint of the model is the first step.
HasRecordedHintStep(c) ==
  /\ At(c, "getEvents")
  /\ IF \E e \in events : e.kind = "hint" /\ e.card = req[c].card
     THEN Return(c)
     ELSE Goto(c, "getRow")
  /\ UNCHANGED db

AnswerEvent(c) ==
  [kind |-> req[c].kind, key |-> req[c].key, card |-> req[c].card, word |-> req[c].word,
   prev |-> req[c].prev, created |-> req[c].created]

\* Mutant of GetRow: the event is recorded before the answer takes effect.
RecordFirst(c) ==
  LET row == rows[req[c].word]
  IN /\ At(c, "getRow")
     /\ row # NoRow
     /\ events' = events \cup {[AnswerEvent(c) EXCEPT !.prev = row]}
     /\ \E due \in BOOLEAN :
          req' = [req EXCEPT ![c].at = "upsert", ![c].prev = row,
                             ![c].row = [row EXCEPT !.answers = IF @ < MaxCount THEN @ + 1 ELSE @, !.due = due]]
     /\ UNCHANGED <<rows, pool, count, cards>>

(***************************************************************************)
(* The row is read and changed in memory.  A rating may leave the word due *)
(* again today; a hint without a row is only recorded.                     *)
(***************************************************************************)
GetRow(c) ==
  LET row == rows[req[c].word]
      found(new) == req' = [req EXCEPT ![c].at = "upsert", ![c].prev = row, ![c].row = new]
  IN /\ At(c, "getRow")
     /\ CASE row = NoRow -> IF req[c].kind = "hint" THEN Goto(c, "record") ELSE Fail(c)
          [] row # NoRow /\ req[c].kind = "hint" ->
               row.hints < MaxCount /\ found([row EXCEPT !.hints = @ + 1])
          [] OTHER ->
               row.answers < MaxCount /\ \E due \in BOOLEAN : found([row EXCEPT !.answers = @ + 1, !.due = due])
     /\ UNCHANGED db

\* Upsert writes every column as it was read and changed, or inserts the row again.
Upsert(c) ==
  /\ At(c, "upsert")
  /\ rows' = [rows EXCEPT ![req[c].word] = req[c].row]
  /\ Goto(c, IF req[c].kind = "hint" THEN "record" ELSE "complete")
  /\ UNCHANGED <<pool, count, cards, events>>

\* A word due again today goes on to maybeAppendSameDayFollowUp.
MarkPoolItemCompleted(c) ==
  LET i == req[c].card
  IN /\ At(c, "complete")
     /\ cards' = IF Exists(i)
                 THEN [cards EXCEPT ![i].status = "completed", ![i].stamp = LastStamp + 1]
                 ELSE cards
     /\ req' = [req EXCEPT ![c].at = IF req[c].row.due THEN "ordinal" ELSE "record",
                           ![c].todo = IF req[c].row.due THEN {req[c].word} ELSE {}]
     /\ UNCHANGED <<rows, pool, count, events>>

\* The last statement: an event whose client id is there already is refused.
RecordEvent(c) ==
  /\ At(c, "record")
  /\ IF \E e \in events : e.key = req[c].key
     THEN Fail(c) /\ UNCHANGED events
     ELSE /\ events' = events \cup {AnswerEvent(c)}
          /\ Return(c)
  /\ UNCHANGED <<rows, pool, count, cards>>

---------------------------------------------------------------------------
(* UndoLastAnswer *)

BeginUndo(c, i) == Start(c, [Idle EXCEPT !.kind = "undo", !.at = "checkUndo", !.card = i])

\* The recorded answers of a card; the model records one key once, so the latest has the most ratings.
Answers(i) == {e \in events : e.kind = "review" /\ e.card = i}
LatestAnswer(i) == CHOOSE e \in Answers(i) : \A f \in Answers(i) : f.prev.answers <= e.prev.answers

\* The checks: the last completed card, with a recorded answer, whose follow-up is pending.
CheckUndo(c) ==
  LET i == req[c].card
      e == LatestAnswer(i)
  IN /\ At(c, "checkUndo")
     /\ IF /\ Completed(i) /\ cards[i].stamp = LastStamp
           /\ Answers(i) # {} /\ \A j \in e.created : Pending(j)
        THEN req' = [req EXCEPT ![c].at = "restore", ![c].word = cards[i].word,
                                ![c].row = e.prev, ![c].created = e.created]
        ELSE Fail(c)
     /\ UNCHANGED db

RestoreRow(c) ==
  /\ At(c, "restore")
  /\ rows' = [rows EXCEPT ![req[c].word] = req[c].row]
  /\ Goto(c, "deleteCreated")
  /\ UNCHANGED <<pool, count, cards, events>>

DeletePoolItems(c) ==
  /\ At(c, "deleteCreated")
  /\ cards' = Without(req[c].created)
  /\ count' = CountWithout(req[c].created)
  /\ Goto(c, "reopen")
  /\ UNCHANGED <<rows, pool, events>>

ReopenPoolItem(c) ==
  LET i == req[c].card
  IN /\ At(c, "reopen")
     /\ cards' = IF Exists(i)
                 THEN [cards EXCEPT ![i].status = "pending", ![i].stamp = 0] ELSE cards
     /\ Goto(c, "recordUndo")
     /\ UNCHANGED <<rows, pool, count, events>>

RecordUndo(c) ==
  /\ At(c, "recordUndo")
  /\ events' = events \cup {[AnswerEvent(c) EXCEPT !.key = Null]}
  /\ Return(c)
  /\ UNCHANGED <<rows, pool, count, cards>>

---------------------------------------------------------------------------
(* Deleting a dictionary entry *)

BeginDelete(c, w) == Start(c, [Idle EXCEPT !.kind = "delete", !.at = "deleteRow", !.word = w])

DeleteRow(c) ==
  LET w == req[c].word
  IN /\ At(c, "deleteRow")
     /\ rows' = [rows EXCEPT ![w] = NoRow]
     /\ IF HasRow(w) THEN Goto(c, "deleteCards") ELSE Fail(c)
     /\ UNCHANGED <<pool, count, cards, events>>

DeleteItemsForUserWord(c) ==
  LET D == {i \in Cards : cards[i].word = req[c].word}
  IN /\ At(c, "deleteCards")
     /\ cards' = Without(D)
     /\ count' = CountWithout(D)
     /\ Return(c)
     /\ UNCHANGED <<rows, pool, events>>

\* An entry added to the dictionary, by one statement, is due today.
AddWord(w) ==
  /\ "add" \in requests /\ rows[w] = NoRow
  /\ rows' = [rows EXCEPT ![w] = [answers |-> 0, hints |-> 0, due |-> TRUE]]
  /\ UNCHANGED <<pool, count, cards, events, req>>

---------------------------------------------------------------------------

Begin(c) ==
  \/ BeginOpen(c)
  \/ \E i \in Cards, k \in Keys : BeginReview(c, i, k) \/ BeginHint(c, i, k)
  \/ \E i \in Cards : BeginUndo(c, i)
  \/ \E w \in Words : BeginDelete(c, w)

Statement(c) ==
  \/ OpenStep(c)
  \/ GetPoolItem(c) \/ HasRecordedHintStep(c) \/ GetRow(c) \/ Upsert(c) \/ MarkPoolItemCompleted(c)
  \/ req[c].kind = "review" /\ (GetLastOrdinal(c) \/ AppendPoolItem(c))
  \/ RecordEvent(c)
  \/ CheckUndo(c) \/ RestoreRow(c) \/ DeletePoolItems(c) \/ ReopenPoolItem(c) \/ RecordUndo(c)
  \/ DeleteRow(c) \/ DeleteItemsForUserWord(c)

Next ==
  /\ \/ \E c \in Callers : Begin(c) \/ Statement(c) \/ Crash(c)
     \/ \E w \in Words : AddWord(w)
  /\ UNCHANGED requests

Spec == Init /\ [][Next]_vars

(***************************************************************************)
(* The scheduler opens the pool of every active user again and again, each *)
(* minute unless it is set otherwise, and in the end it is not cut off.    *)
(***************************************************************************)
FairSpec ==
  /\ Spec
  /\ WF_vars(BeginOpen(Cron) /\ UNCHANGED requests) /\ WF_vars(OpenStep(Cron) /\ UNCHANGED requests)
  /\ <>[][Crash(Cron) => OpenStep(Cron)]_vars

---------------------------------------------------------------------------
(* Properties *)

\* AcquireDailyPoolLock locks nothing, so any number of requests create the pool
\* at once: whoever comes second gets the pool of the first and never an error.
CreationRaceIsHarmless == [][\A c \in Callers : At(c, "create") => req'[c].at # "failed"]_vars

\* An answer the client has been told is recorded is counted in the row, wherever
\* this and other requests of a client that waits for each reply were cut off.
RecordedAnswersCount ==
  requests \cap {"undo", "add"} = {} =>
    \A w \in Words : HasRow(w) =>
      Cardinality({e \in events : e.kind = "review" /\ e.word = w}) <= rows[w].answers

\* Unless a word is deleted, the counter never promises a card that is not there,
\* whatever is appended or taken back and wherever a request is cut off.
CountIsCovered == "delete" \notin requests => count <= Cardinality(Cards)

\* A due word without a card gets one, also when requests collide or are cut off.
DueWordsAreDealt ==
  \A w \in Words : w \in DueWords /\ w \notin Dealt ~> w \notin DueWords \/ w \in Dealt
===========================================================================
