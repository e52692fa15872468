--------------------------- MODULE DailyLearning ---------------------------
(***************************************************************************)
(* One user's daily learning: the word states, daily pools, pool items and *)
(* answer events of the database, and every request that changes them      *)
(* (PoolService, LearningService, DictionaryService and the confirmation   *)
(* of an import), each as one atomic action.  The database is a record, a  *)
(* repository call or service function maps a database to a database, and  *)
(* one with several outcomes to the set of them.                           *)
(***************************************************************************)
EXTENDS WordSchedule, FiniteSets, Functions, FiniteSetsExt

CONSTANTS
  Words,       \* the words of the shared words table
  DayLen,      \* ticks in a local day
  MaxDay,      \* bound: the clock stops on the last tick of this local day
  MaxId,       \* bound: pool item ids, ordinals and completion stamps
  NewLimit,    \* settings.DailyNewWordLimit
  FollowUpFaults \* whether a same-day follow-up may fail to be appended

ASSUME DailyAssumption ==
  /\ IsFiniteSet(Words)
  /\ DayLen \in Nat \ {0} /\ MaxDay \in Nat /\ MaxId \in Nat
  /\ NewLimit \in Nat /\ FollowUpFaults \in BOOLEAN

VARIABLES
  now,         \* the server's clock
  db           \* the user's rows in the database
vars == <<now, db>>

Days == 0..MaxDay
Day(t) == t \div DayLen
EndOfDay(t) == (Day(t) + 1) * DayLen - 1        \* BoundsForLocalDate

ItemTypes == {"short_term", "review", "weak", "new"}

\* done = 0 is status 'pending'; a positive done orders completed_at.
Item == [id: Nat, day: Days, word: Words, type: ItemTypes, bonus: BOOLEAN,
         due: Nat \cup {Null}, ord: Nat, done: Nat]

\* What an append is given: everything but the identity and the position.
Card == [word: Words, type: ItemTypes, bonus: BOOLEAN, due: Nat \cup {Null}]

Counts == [ItemTypes -> Nat]
NoCounts == [type \in ItemTypes |-> 0]
Pool == [open: BOOLEAN, counts: Counts]
NoPool == [open |-> FALSE, counts |-> NoCounts]

(***************************************************************************)
(* The answer event of a completed item, with its undo snapshot.  post is  *)
(* the row the answer wrote: the code does not store it, no action reads   *)
(* it, and only the property UndoTakesBackItsOwnAnswer is about it.        *)
(***************************************************************************)
Answer == [item: Nat, prev: StateRow, post: StateRow,
           created: SUBSET Nat, deleted: SUBSET Item]

DB == [states: [Words -> StateRow], pools: [Days -> Pool],
       items: SUBSET Item, answers: SUBSET Answer]

EmptyDB == [states |-> [w \in Words |-> NoRow], pools |-> [y \in Days |-> NoPool],
            items |-> {}, answers |-> {}]

Pending(i) == i.done = 0
PoolItems(d, day) == {i \in d.items : i.day = day}
ItemsOf(items, day, type) == {i \in items : i.day = day /\ i.type = type}
HasRow(d, w) == d.states[w].status # "none"

---------------------------------------------------------------------------
(* Repository calls *)

LastId(d) == Max({0} \cup {i.id : i \in d.items} \cup UNION {a.created : a \in d.answers})
\* Mutant of GetLastOrdinal: COUNT(*) in place of MAX(ordinal).
GetLastOrdinalByCount(d, day) == Cardinality(PoolItems(d, day))
GetLastOrdinal(d, day) == Max({0} \cup {i.ord : i \in PoolItems(d, day)})
LastStamp(d, day) == Max({0} \cup {i.done : i \in PoolItems(d, day)})

\* A position 1..n for each of n things.
Numbering(S) == CHOOSE f \in [S -> 1..Cardinality(S)] : IsInjective(f)

UpsertState(d, w, row) == [d EXCEPT !.states[w] = row]
DeleteState(d, w) == UpsertState(d, w, NoRow)

\* Appends a batch of cards after the last ordinal, with fresh ids.
AppendPoolItems(d, day, cards) ==
  LET number == Numbering(cards)
      item(c) == [id |-> LastId(d) + number[c], day |-> day, word |-> c.word,
                  type |-> c.type, bonus |-> c.bonus, due |-> c.due,
                  ord |-> GetLastOrdinal(d, day) + number[c], done |-> 0]
  IN [d EXCEPT !.items = @ \cup {item(c) : c \in cards}]

IncrementCounts(d, day, by) ==
  [d EXCEPT !.pools[day].counts = [type \in ItemTypes |-> @[type] + by[type]]]

CardCounts(cards) ==
  [type \in ItemTypes |-> Cardinality({c \in cards : c.type = type})]

AppendCounted(d, day, cards) ==
  IncrementCounts(AppendPoolItems(d, day, cards), day, CardCounts(cards))

\* Deleting an item sets its events' pool_item_id to NULL.
RemoveItems(d, dead) ==
  [d EXCEPT !.items = @ \ dead,
            !.answers = {a \in @ : \A i \in dead : i.id # a.item}]

\* Mutant of Less: the GREATEST is forgotten.
LessUnclamped(n, k) == n - k
Less(n, k) == IF n > k THEN n - k ELSE 0          \* GREATEST(0, n - k)

\* Mutant of DeletePoolItems: the counters are left alone.
DeletePoolItemsUncounted(d, dead) == RemoveItems(d, dead)

\* DeletePoolItems and DeleteItemsForUserWord lower the pools' counters.
DeletePoolItems(d, dead) ==
  LET counts(day) == [type \in ItemTypes |->
        Less(d.pools[day].counts[type], Cardinality(ItemsOf(dead, day, type)))]
  IN [RemoveItems(d, dead) EXCEPT !.pools =
        [day \in Days |-> [d.pools[day] EXCEPT !.counts = counts(day)]]]

\* DeletePendingItemsBeforeLocalDate leaves the counters alone.
PruneStaleItems(d, t) ==
  RemoveItems(d, {i \in d.items : i.day < Day(t) /\ Pending(i)})

MarkPoolItemCompleted(d, item) ==
  [d EXCEPT !.items = (@ \ {item}) \cup {[item EXCEPT !.done = LastStamp(d, item.day) + 1]}]

RecordAnswer(d, answer) ==
  [d EXCEPT !.answers = {a \in @ : a.item # answer.item} \cup {answer}]

---------------------------------------------------------------------------
(* GetOrCreateDailyPool *)

DueShortTerm(d, t) == {w \in Words : IsShortTermDue(d.states[w], EndOfDay(t))}
DueReview(d, t)    == {w \in Words : IsReviewDue(d.states[w], EndOfDay(t))}

\* buildReviewItems: a card takes its due time from the word's row.
ReviewCards(d, ws, type) ==
  {[word |-> w, type |-> type, bonus |-> FALSE, due |-> d.states[w].due] : w \in ws}
NewCards(ws) ==
  {[word |-> w, type |-> "new", bonus |-> FALSE, due |-> Null] : w \in ws}
BonusCards(ws) ==
  {[word |-> w, type |-> "weak", bonus |-> TRUE, due |-> Null] : w \in ws}

WeakSlots == IF NewLimit > 6 THEN 3 ELSE (NewLimit + 2) \div 3

\* A ranking by scores the model leaves out may pick any min(n, |S|) words.
Picks(S, n) ==
  {T \in SUBSET S : Cardinality(T) = IF Cardinality(S) < n THEN Cardinality(S) ELSE n}

\* Mutant of GenerateNewWords: words the learner already has are not excluded.
GenerateKnownWords(d, day, quota) ==
  {ws \in SUBSET {w \in Words : \A i \in d.items : i.word = w => i.day # day} :
     Cardinality(ws) <= quota}

(***************************************************************************)
(* What generateNewWords may return: at most quota words that have no row, *)
(* no card in the pool and, within the 30-day look-back, no "new" card.    *)
(* The language model may deliver fewer than asked for, or none.           *)
(***************************************************************************)
GenerateNewWords(d, day, quota) ==
  {ws \in SUBSET {w \in Words : /\ ~HasRow(d, w)
                               /\ \A i \in d.items : i.word = w => i.day # day /\ i.type # "new"} :
     Cardinality(ws) <= quota}

PrefetchBatchSize == 2 * NewLimit

(***************************************************************************)
(* The pool's first cards are the due words, weak words that are not due,  *)
(* and a batch of new words.  With nothing to review and no new word       *)
(* generated the request fails and leaves no pool.                         *)
(***************************************************************************)
CreateDailyPool(d, t) ==
  LET day   == Day(t)
      due   == DueShortTerm(d, t) \cup DueReview(d, t)
      weaks == Picks({w \in Words \ due : IsWeakCandidate(d.states[w])}, WeakSlots)
      opened == [d EXCEPT !.pools[day] = [NoPool EXCEPT !.open = TRUE]]
      reviews(weak) == ReviewCards(d, DueShortTerm(d, t), "short_term")
                         \cup ReviewCards(d, DueReview(d, t), "review")
                         \cup ReviewCards(d, weak, "weak")
      results(weak) ==
        {IF reviews(weak) = {} /\ new = {} /\ NewLimit > 0
         THEN [ok |-> FALSE, db |-> d]
         ELSE [ok |-> TRUE, db |-> AppendCounted(opened, day, reviews(weak) \cup NewCards(new))] :
           new \in GenerateNewWords(d, day, PrefetchBatchSize)}
  IN UNION {results(weak) : weak \in weaks}

\* Mutant of ReconcileScheduledPoolItems: any card of a due word counts as its
\* scheduled card, a weak or a new one too.
ReconcileByWordOnly(d, t) ==
  LET has(w) == \E i \in PoolItems(d, Day(t)) : i.word = w
      missing == ReviewCards(d, {w \in DueShortTerm(d, t) : ~has(w)}, "short_term")
                   \cup ReviewCards(d, {w \in DueReview(d, t) : ~has(w)}, "review")
  IN AppendCounted(d, Day(t), missing)

\* A due word is missing unless the pool has a card of that word and type,
\* pending or completed.
ReconcileScheduledPoolItems(d, t) ==
  LET has(w, type) == \E i \in PoolItems(d, Day(t)) : i.word = w /\ i.type = type
      missing == ReviewCards(d, {w \in DueShortTerm(d, t) : ~has(w, "short_term")}, "short_term")
                   \cup ReviewCards(d, {w \in DueReview(d, t) : ~has(w, "review")}, "review")
  IN AppendCounted(d, Day(t), missing)

\* Pending review cards follow their word's row; a bonus card is never timed.
SyncPendingPoolItems(d, t) ==
  LET synced(i) ==
        IF i.day = Day(t) /\ Pending(i) /\ i.type # "new" /\ HasRow(d, i.word)
        THEN [i EXCEPT !.due = IF i.bonus THEN Null ELSE d.states[i.word].due]
        ELSE i
  IN [d EXCEPT !.items = {synced(i) : i \in @}]

GetOrCreateDailyPool(d, t) ==
  LET pruned == PruneStaleItems(d, t)
  IN IF pruned.pools[Day(t)].open
     THEN {[ok |-> TRUE,
            db |-> SyncPendingPoolItems(ReconcileScheduledPoolItems(pruned, t), t)]}
     ELSE CreateDailyPool(pruned, t)

---------------------------------------------------------------------------
(* The buffer of new words *)

PendingNew(d, day) == {i \in ItemsOf(d.items, day, "new") : Pending(i)}
LearnedNewCount(d, day) ==
  Cardinality({i \in ItemsOf(d.items, day, "new") :
                 ~Pending(i) /\ d.states[i.word].status \notin {"none", "known"}})

\* What a maintenance of the buffer did: the database and the undo material.
Maintained(d, created, deleted) == [db |-> d, created |-> created, deleted |-> deleted]
NewIds(before, after) == {i.id : i \in after.items} \ {i.id : i \in before.items}

ReplenishUnknownDailySlots(d, t) ==
  IF LearnedNewCount(d, Day(t)) < NewLimit /\ PendingNew(d, Day(t)) = {}
  THEN {AppendCounted(d, Day(t), NewCards(ws)) :
          ws \in GenerateNewWords(d, Day(t), PrefetchBatchSize) \ {{}}}
  ELSE {}

\* Mutants of ReconcileUnknownDailyBuffer: it trims one word too late, and it
\* does not report what it trimmed.
ReconcileBufferTooLate(d, t) ==
  IF NewLimit > 0 /\ LearnedNewCount(d, Day(t)) > NewLimit
  THEN Maintained(DeletePoolItems(d, PendingNew(d, Day(t))), {}, PendingNew(d, Day(t)))
  ELSE Maintained(d, {}, {})
ReconcileBufferUnreported(d, t) ==
  IF NewLimit > 0 /\ LearnedNewCount(d, Day(t)) >= NewLimit
  THEN Maintained(DeletePoolItems(d, PendingNew(d, Day(t))), {}, {})
  ELSE Maintained(d, {}, {})

ReconcileUnknownDailyBuffer(d, t) ==
  IF NewLimit > 0 /\ LearnedNewCount(d, Day(t)) >= NewLimit
  THEN Maintained(DeletePoolItems(d, PendingNew(d, Day(t))), {}, PendingNew(d, Day(t)))
  ELSE Maintained(d, {}, {})

\* A replenishment that generates nothing is an error its caller only logs.
MaintainNewWordBuffer(d, t) ==
  LET maintain(e) ==
        {ReconcileUnknownDailyBuffer(e, t)}
          \cup {Maintained(f, NewIds(e, f), {}) : f \in ReplenishUnknownDailySlots(e, t)}
  IN UNION {IF r.ok THEN maintain(r.db) ELSE {Maintained(r.db, {}, {})} :
              r \in GetOrCreateDailyPool(d, t)}

---------------------------------------------------------------------------
(* Requests *)

TypeOK ==
  /\ now \in Nat /\ Day(now) \in Days
  /\ db \in DB
  /\ IsFiniteSet(db.items)
  /\ IsFiniteSet(db.answers)

Init == now = 0 /\ db = EmptyDB

\* The bound on what a request may leave in the database.
Fits(d) == \A i \in d.items : i.id <= MaxId /\ i.ord <= MaxId /\ i.done <= MaxId

\* A request ends with the database d.
Commit(d) == db' = d /\ Fits(d) /\ UNCHANGED now

Tick ==
  /\ Day(now + 1) <= MaxDay
  /\ now' = now + 1
  /\ UNCHANGED db

\* GET /me/daily-pool and the cron pre-warm.
OpenDailyPool == \E r \in GetOrCreateDailyPool(db, now) : Commit(r.db)

\* maybeAppendSameDayFollowUp; its errors are logged and swallowed.
FollowUps(d, w, t) ==
  LET row == d.states[w]
      none == Maintained(d, {}, {})
      appended == AppendPoolItems(d, Day(t), ReviewCards(d, {w}, "short_term"))
  IN IF row.due # Null /\ Day(row.due) = Day(t) /\ d.pools[Day(t)].open
     THEN {Maintained(appended, NewIds(d, appended), {})} \cup (IF FollowUpFaults THEN {none} ELSE {})
     ELSE {none}

SubmitFirstExposure(i, known) ==
  /\ Pending(i) /\ i.type = "new"
  /\ LET prev == db.states[i.word]
         post == IF known THEN ApplyFirstExposureKnown ELSE ApplyFirstExposureUnknown(now)
     IN \E f \in FollowUps(MarkPoolItemCompleted(UpsertState(db, i.word, post), i), i.word, now) :
        \E m \in MaintainNewWordBuffer(f.db, now) :
          Commit(RecordAnswer(m.db, [item |-> i.id, prev |-> prev, post |-> post,
                                     created |-> f.created \cup m.created, deleted |-> m.deleted]))

\* A bonus practice answer leaves the schedule as it is and has no follow-up.
SubmitReview(i, hard) ==
  /\ Pending(i) /\ HasRow(db, i.word)
  /\ LET prev == db.states[i.word]
     IN \E post \in IF i.bonus THEN {prev} ELSE ReviewOutcomes(prev, hard, now) :
        LET marked == MarkPoolItemCompleted(UpsertState(db, i.word, post), i)
        IN \E f \in IF i.bonus THEN {Maintained(marked, {}, {})} ELSE FollowUps(marked, i.word, now) :
             Commit(RecordAnswer(f.db, [item |-> i.id, prev |-> prev, post |-> post,
                                        created |-> f.created, deleted |-> {}]))

(***************************************************************************)
(* Re-appends the "new" cards an answer trimmed, with their old ordinals   *)
(* and fresh ids, one by one until one collides with a card the unique     *)
(* constraint (pool, word, type, ordinal) already covers.                  *)
(***************************************************************************)
SamePosition(i, j) == i.day = j.day /\ i.word = j.word /\ i.type = j.type /\ i.ord = j.ord
Collisions(d, trimmed) == {x \in trimmed : \E j \in d.items : SamePosition(x, j)}
Reinsert(d, back) ==
  LET number == Numbering(back)
  IN [d EXCEPT !.items = @ \cup {[x EXCEPT !.id = LastId(d) + number[x]] : x \in back}]

ReopenPoolItem(d, item) ==
  [RemoveItems(d, {item}) EXCEPT !.items = @ \cup {[item EXCEPT !.done = 0]}]

\* Mutant of UndoWrites: the follow-ups of the answer stay in the pool.
UndoKeepsFollowUps(d, a, i) ==
  ReopenPoolItem(Reinsert(UpsertState(d, i.word, a.prev), a.deleted), i)

(***************************************************************************)
(* What undoing answer a of item i writes.  When a trimmed card collides   *)
(* the request fails half-way: the row is restored and the follow-ups are  *)
(* gone, but the item stays completed and the counter is not raised.  The  *)
(* answer of a reopened item is dropped: answering again records a newer   *)
(* one, the only one a later undo reads.                                   *)
(***************************************************************************)
UndoWrites(d, a, i) ==
  LET cleared == DeletePoolItems(UpsertState(d, i.word, a.prev), {j \in d.items : j.id \in a.created})
      clash == Collisions(cleared, a.deleted)
      back  == {x \in a.deleted : \A c \in clash : x.ord < c.ord}
      again == Reinsert(cleared, back)
  IN IF clash = {}
     THEN ReopenPoolItem(IncrementCounts(again, i.day, CardCounts(back)), i)
     ELSE again

\* Mutant of CanUndo: any completed card can be undone, not only the latest.
CanUndoAnyAnswer(d, a, i, t) ==
  /\ a.item = i.id /\ ~Pending(i)
  /\ i.day = Day(t) /\ d.pools[Day(t)].open
  /\ \A c \in a.created : \E j \in d.items : j.id = c /\ Pending(j)

CanUndo(d, a, i, t) ==
  /\ a.item = i.id /\ ~Pending(i)
  /\ i.day = Day(t) /\ d.pools[Day(t)].open
  /\ i.done = LastStamp(d, Day(t))
  /\ \A c \in a.created : \E j \in d.items : j.id = c /\ Pending(j)

UndoLastAnswer(a, i) == CanUndo(db, a, i, now) /\ Commit(UndoWrites(db, a, i))

(***************************************************************************)
(* GET /me/cards/next.  Which card is served changes nothing; running out  *)
(* of cards does.  Without a session, a pool with no due review card and   *)
(* no new card is refilled with new words; asked to practise (or with a    *)
(* session over, whose length the model leaves open), a pool without a     *)
(* practice card gets bonus cards.                                         *)
(***************************************************************************)
Servable(i, t) == Pending(i) /\ (i.due = Null \/ i.due <= t)

NextCardReplenishes ==
  \E r \in GetOrCreateDailyPool(db, now) :
    /\ r.ok
    /\ \A i \in PoolItems(r.db, Day(now)) :
         Servable(i, now) => i.type = "weak"
    /\ \E e \in ReplenishUnknownDailySlots(r.db, now) :
       \E s \in GetOrCreateDailyPool(e, now) : Commit(s.db)

BonusLimit == IF WeakSlots < 1 THEN 1 ELSE WeakSlots

\* Words not practised today come first, then those practised longest ago.
BonusPracticeCandidates(d, day) ==
  LET seen == {i.word : i \in {j \in PoolItems(d, day) : j.bonus}}
      weak == {w \in Words : IsWeakCandidate(d.states[w])}
  IN {fresh \cup again :
        fresh \in Picks(weak \ seen, BonusLimit),
        again \in Picks(weak \cap seen, Less(BonusLimit, Cardinality(weak \ seen)))}

NextCardAddsPractice ==
  \E r \in GetOrCreateDailyPool(db, now) :
    /\ r.ok
    /\ \A i \in PoolItems(r.db, Day(now)) : Servable(i, now) => i.type # "weak"
    /\ \E ws \in BonusPracticeCandidates(r.db, Day(now)) \ {{}} :
       \E s \in GetOrCreateDailyPool(AppendCounted(r.db, Day(now), BonusCards(ws)), now) :
         Commit(s.db)

\* POST /me/daily-pool/more-words
AppendMoreNewWords ==
  /\ NewLimit > 0
  /\ \E r \in GetOrCreateDailyPool(db, now) :
       /\ r.ok
       /\ \E ws \in GenerateNewWords(r.db, Day(now), NewLimit) \ {{}} :
          \E s \in GetOrCreateDailyPool(AppendCounted(r.db, Day(now), NewCards(ws)), now) :
            Commit(s.db)

\* POST /admin/users/{userID}/daily-pool/rebuild; deleting the pool deletes its items.
ForceRebuildTodayPool ==
  LET emptied == RemoveItems(db, PoolItems(db, Day(now)))
  IN \E r \in GetOrCreateDailyPool([emptied EXCEPT !.pools[Day(now)] = NoPool], now) : Commit(r.db)

---------------------------------------------------------------------------
(* The dictionary and the import buffer *)

DictionaryRow(known) == IF known THEN ApplyFirstExposureKnown ELSE ApplyFirstExposureUnknown(now)

CreateDictionaryWord(w, known) ==
  ~HasRow(db, w) /\ Commit(UpsertState(db, w, DictionaryRow(known)))

\* Only a change between known and not known touches the row.
UpdateDictionaryWord(w, known) ==
  /\ HasRow(db, w)
  /\ known # (db.states[w].status = "known")
  /\ Commit(UpsertState(db, w, DictionaryRow(known)))

DeleteDictionaryWord(w) ==
  /\ HasRow(db, w)
  /\ Commit(DeletePoolItems(DeleteState(db, w), {i \in db.items : i.word = w}))

\* Confirm: the word enters the dictionary and, if there is a pool today, gets a new card.
ConfirmImport(w) ==
  /\ ~HasRow(db, w)
  /\ LET d == UpsertState(db, w, DictionaryRow(FALSE))
     IN Commit(IF d.pools[Day(now)].open THEN AppendCounted(d, Day(now), NewCards({w})) ELSE d)

---------------------------------------------------------------------------

AnswerNext ==
  \/ \E i \in db.items, known \in BOOLEAN : SubmitFirstExposure(i, known)
  \/ \E i \in db.items, hard \in BOOLEAN : SubmitReview(i, hard)
  \/ \E a \in db.answers, i \in db.items : UndoLastAnswer(a, i)

PoolNext ==
  \/ OpenDailyPool
  \/ NextCardReplenishes
  \/ NextCardAddsPractice
  \/ AppendMoreNewWords
  \/ ForceRebuildTodayPool

DictionaryNext ==
  \E w \in Words :
    \/ \E known \in BOOLEAN : CreateDictionaryWord(w, known) \/ UpdateDictionaryWord(w, known)
    \/ DeleteDictionaryWord(w)
    \/ ConfirmImport(w)

Next == Tick \/ PoolNext \/ AnswerNext \/ DictionaryNext

Spec == Init /\ [][Next]_vars

\* The planned day: the learner answers the cards the pool plans and asks for no
\* extra words, no extra practice, no rebuild and no change to the dictionary.
PlannedNext == Tick \/ OpenDailyPool \/ NextCardReplenishes \/ AnswerNext

---------------------------------------------------------------------------
(* Properties of every request *)

(***************************************************************************)
(* No sequence of answers, undos and dictionary changes leaves a word in a *)
(* row that neither due query nor "known" accounts for: such a word would  *)
(* silently leave the rotation (ListDueWithinWindow).                      *)
(***************************************************************************)
EveryRowSchedulable == \A w \in Words : Schedulable(db.states[w])

(***************************************************************************)
(* The counters of today's and later pools never promise a card that is    *)
(* not there.  The review and weak counters are exact.  The short_term and *)
(* new counters may only lag: a same-day follow-up is not counted when it  *)
(* is appended but is when it is deleted, and an undo that fails half-way  *)
(* restores cards without counting them.                                   *)
(***************************************************************************)
CountersMatchCards ==
  \A day \in Day(now)..MaxDay, type \in ItemTypes :
    LET counter == db.pools[day].counts[type]
        cards == Cardinality(ItemsOf(db.items, day, type))
    IN IF type \in {"review", "weak"} THEN counter = cards ELSE counter <= cards

(***************************************************************************)
(* No two cards share pool, word, type and ordinal, so the unique          *)
(* constraint never refuses a card whose ordinal GetLastOrdinal gives,     *)
(* among cards deleted and put back.  An undo that would put a card at a   *)
(* position that is taken again is refused (UndoWrites).                   *)
(***************************************************************************)
PositionsAreUnique == \A i, j \in db.items : SamePosition(i, j) => i = j

(***************************************************************************)
(* An answer can be taken back at once, and taking it back restores the    *)
(* schedule of every word, every card of the pool (the one answered and    *)
(* the new cards it trimmed), adds no new card and leaves the new-word     *)
(* counter as it was, unless failed undos had already let it fall behind   *)
(* the pending new cards (UndoLastAnswer against SubmitFirstExposure and   *)
(* SubmitReview).                                                          *)
(***************************************************************************)
Face(i) == [word |-> i.word, type |-> i.type, bonus |-> i.bonus, ord |-> i.ord, done |-> i.done]
Faces(d) == {Face(i) : i \in PoolItems(d, Day(now))}
UndoneWell(a, i) ==
  /\ CanUndo(db', a, i, now)
  /\ LET undone == UndoWrites(db', a, i)
     IN /\ undone.states = db.states
        /\ Faces(db) \subseteq Faces(undone)
        /\ {f \in Faces(undone) : f.type = "new"} \subseteq Faces(db)
        /\ \/ undone.pools[Day(now)].counts["new"] = db.pools[Day(now)].counts["new"]
           \/ db.pools[Day(now)].counts["new"] < Cardinality(PendingNew(db, Day(now)))
UndoInvertsAnswer ==
  [][\A i \in PoolItems(db, Day(now)), a \in db'.answers \ db.answers :
       Pending(i) /\ a.item = i.id => \E j \in db'.items : j.id = i.id /\ UndoneWell(a, j)]_vars

---------------------------------------------------------------------------
(* Properties of the planned day *)

(***************************************************************************)
(* Opening the pool leaves a pending scheduled card for every word due by  *)
(* the end of the local day, overdue ones from earlier days included       *)
(* (CreateDailyPool, reconcileScheduledPoolItems): no due word is lost     *)
(* over midnight, by an undo, an import or a deletion.  A word moved from  *)
(* the known list back to the unknown one can be.                          *)
(***************************************************************************)
Covered(d, t) ==
  \A w \in DueShortTerm(d, t) \cup DueReview(d, t) :
    \E i \in PoolItems(d, Day(t)) : i.word = w /\ Pending(i) /\ i.type \in {"short_term", "review"}
OpenPoolCoversDueWords ==
  \A r \in GetOrCreateDailyPool(db, now) : r.db.pools[Day(now)].open => Covered(r.db, now)

(***************************************************************************)
(* The learner never takes in more new words in a day than the limit,      *)
(* however answers, undos and replenishments are interleaved               *)
(* (maintainNewWordBuffer).                                                *)
(***************************************************************************)
NewWordsWithinLimit == LearnedNewCount(db, Day(now)) <= NewLimit

(***************************************************************************)
(* A card that asks for a review always has a row to review, also after    *)
(* the first exposure that created the row is undone: SubmitReview on any  *)
(* other card fails for ever.                                              *)
(***************************************************************************)
NoOrphanReviewCard ==
  \A i \in db.items : Pending(i) /\ i.type # "new" => HasRow(db, i.word)

(***************************************************************************)
(* A pending new card is the only pending card of a word without a row: a  *)
(* first exposure never overwrites the progress of a word already learned, *)
(* and the cards an undo restores or a replenishment draws are not dealt   *)
(* twice (generateNewWords, maintainNewWordBuffer).                        *)
(***************************************************************************)
NewCardsAreUnseen ==
  \A i \in PoolItems(db, Day(now)) : Pending(i) /\ i.type = "new" =>
    /\ ~HasRow(db, i.word)
    /\ \A j \in PoolItems(db, Day(now)) : Pending(j) /\ j.word = i.word => j = i

(***************************************************************************)
(* An undo takes back the answer it names and nothing later: the row it    *)
(* overwrites with the snapshot is still the one that answer wrote.        *)
(***************************************************************************)
UndoTakesBackItsOwnAnswer ==
  [][\A a \in db.answers, i \in db.items :
       UndoLastAnswer(a, i) => db.states[i.word] = a.post]_vars

(***************************************************************************)
(* An accepted undo leaves the answered card pending again (the tests of   *)
(* UndoLastAnswer).  Not so once more words were asked for in between.     *)
(***************************************************************************)
UndoReopensCard ==
  [][\A a \in db.answers, i \in db.items :
       UndoLastAnswer(a, i) => \E j \in db'.items : j.id = i.id /\ Pending(j)]_vars
===========================================================================
