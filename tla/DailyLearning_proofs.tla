----------------------- MODULE DailyLearning_proofs -----------------------
(***************************************************************************)
(* For every set of words, every choice of durations and limits and every  *)
(* bound, each request of DailyLearning keeps the database well typed,     *)
(* every word schedulable, no position taken twice and the counters of the *)
(* pools true to their cards, and an answer can be taken back at once.     *)
(* The proof follows the code: one lemma per repository call, then per     *)
(* service function, then one step per request.                            *)
(***************************************************************************)
EXTENDS DailyLearning, Integers, Functions, FiniteSetsExt, FiniteSetTheorems, TLAPS

(* Finite sets of naturals *)

(***************************************************************************)
(* Max picks a member of a finite nonempty set of naturals, and no member  *)
(* is greater: a minimal subset without a greatest member has an element,  *)
(* and the rest of it is empty or has a greatest member.                   *)
(***************************************************************************)
LEMMA MaxOfFiniteSet ==
  ASSUME NEW S \in SUBSET Nat, IsFiniteSet(S), S # {}
  PROVE  Max(S) \in S /\ \A s \in S : Max(S) >= s
<1> DEFINE HasTop(X) == \E x \in X : \A y \in X : x >= y
           Bad == {X \in SUBSET S : X # {} /\ ~HasTop(X)}
<1> SUFFICES ASSUME Bad # {} PROVE FALSE
  BY DEF Max
<1>1. Bad \subseteq FiniteSubsetsOf(S)
  BY FS_Subset DEF FiniteSubsetsOf
<1> HIDE DEF Bad
<1>2. PICK X \in Bad : \A Y \in Bad : <<Y, X>> \notin StrictSubsetOrdering(S)
  BY <1>1, FS_StrictSubsetOrderingWellFounded, WFMin
<1> USE DEF Bad
<1>3. PICK x \in X : TRUE
  OBVIOUS
<1>4. X \ {x} \notin Bad
  <2>1. <<X \ {x}, X>> \in StrictSubsetOrdering(S)
    BY <1>3 DEF StrictSubsetOrdering
  <2> QED BY <1>2, <2>1
<1>5. X \ {x} = {} \/ HasTop(X \ {x})
  BY <1>4
<1>6. X \subseteq Nat /\ ~HasTop(X)
  OBVIOUS
<1>7. CASE X \ {x} = {}
  BY <1>3, <1>6, <1>7
<1>8. CASE HasTop(X \ {x})
  <2>1. PICK m \in X \ {x} : \A y \in X \ {x} : m >= y
    BY <1>8
  <2> QED BY <1>3, <1>6, <2>1
<1> QED BY <1>5, <1>7, <1>8

(***************************************************************************)
(* What MAX computes over a column: zero for no row, else the greatest.    *)
(***************************************************************************)
LEMMA MaxWithZero ==
  ASSUME NEW S \in SUBSET Nat, IsFiniteSet(S)
  PROVE  Max({0} \cup S) \in Nat /\ \A s \in S : s <= Max({0} \cup S)
<1>1. IsFiniteSet({0} \cup S)
  BY FS_Union, FS_Singleton
<1>2. {0} \cup S \in SUBSET Nat /\ {0} \cup S # {}
  OBVIOUS
<1>3. Max({0} \cup S) \in {0} \cup S /\ \A s \in {0} \cup S : Max({0} \cup S) >= s
  BY <1>1, <1>2, MaxOfFiniteSet
<1> QED BY <1>2, <1>3

(***************************************************************************)
(* The image of a finite set under a function is finite.                   *)
(***************************************************************************)
LEMMA ImageIsFinite ==
  ASSUME NEW S, IsFiniteSet(S), NEW f
  PROVE  IsFiniteSet({f[x] : x \in S})
<1> DEFINE g == [x \in S |-> f[x]]
<1>1. g \in Surjection(S, {f[x] : x \in S})
  BY DEF Surjection
<1> QED BY <1>1, FS_Surjection

(***************************************************************************)
(* A finite set has a numbering: an injection into 1..n, n its cardinality.*)
(***************************************************************************)
LEMMA NumberingExists ==
  ASSUME NEW S, IsFiniteSet(S)
  PROVE  \E f \in [S -> 1..Cardinality(S)] : IsInjective(f)
<1>1. PICK g \in Bijection(1..Cardinality(S), S) : TRUE
  BY FS_CardinalityType DEF ExistsBijection
<1> DEFINE f == [s \in S |-> CHOOSE k \in 1..Cardinality(S) : g[k] = s]
<1>2. \A s \in S : f[s] \in 1..Cardinality(S) /\ g[f[s]] = s
  BY <1>1 DEF Bijection, Surjection
<1>3. f \in [S -> 1..Cardinality(S)] /\ IsInjective(f)
  BY <1>2 DEF IsInjective
<1> QED BY <1>3

---------------------------------------------------------------------------
(***************************************************************************)
(* What the induction needs of a database.  The rows saved in the answers' *)
(* undo snapshots must be schedulable because an undo writes them back;    *)
(* the id sets must be finite because the next id is above all of them.    *)
(* Positions stay unique because identifiers are, and because the cards an *)
(* answer trimmed were once together in the pool.                          *)
(***************************************************************************)
UniqueIds(S) == \A i, j \in S : i.id = j.id => i = j
UniquePositions(S) == \A i, j \in S : SamePosition(i, j) => i = j

SoundAnswer(a) ==
  /\ IsFiniteSet(a.created)
  /\ IsFiniteSet(a.deleted)
  /\ UniquePositions(a.deleted)
  /\ Schedulable(a.prev)

Sound(d) ==
  /\ d \in DB
  /\ IsFiniteSet(d.items)
  /\ UniqueIds(d.items)
  /\ UniquePositions(d.items)
  /\ IsFiniteSet(d.answers)
  /\ \A a \in d.answers : SoundAnswer(a)
  /\ \A w \in Words : Schedulable(d.states[w])

IInv == now \in Nat /\ Day(now) \in Days /\ Sound(db)

---------------------------------------------------------------------------
(* Repository calls *)

LEMMA DayIsNat ==
  ASSUME NEW t \in Nat
  PROVE  Day(t) \in Nat
BY DailyAssumption DEF Day

LEMMA LastIdIsUpper ==
  ASSUME NEW d, Sound(d)
  PROVE  /\ LastId(d) \in Nat
         /\ \A i \in d.items : i.id <= LastId(d)
         /\ \A a \in d.answers : \A n \in a.created : n <= LastId(d)
<1> DEFINE idOf == [i \in d.items |-> i.id]
           createdBy == [a \in d.answers |-> a.created]
           ids == {i.id : i \in d.items}
           created == {a.created : a \in d.answers}
<1>1. ids \subseteq Nat /\ UNION created \subseteq Nat
  BY DEF Sound, DB, Item, Answer
<1>2. IsFiniteSet(ids)
  <2>1. ids = {idOf[i] : i \in d.items}
    OBVIOUS
  <2> HIDE DEF idOf, ids
  <2> QED BY <2>1, ImageIsFinite DEF Sound
<1>3. IsFiniteSet(UNION created)
  <2>1. created = {createdBy[a] : a \in d.answers}
    OBVIOUS
  <2>2. \A T \in created : IsFiniteSet(T)
    BY DEF Sound, SoundAnswer
  <2> HIDE DEF createdBy, created
  <2>3. IsFiniteSet(created)
    BY <2>1, ImageIsFinite DEF Sound
  <2> QED BY <2>2, <2>3, FS_UNION
<1>4. LastId(d) = Max({0} \cup (ids \cup UNION created))
  BY DEF LastId
<1>5. /\ \A i \in d.items : i.id \in ids
      /\ \A a \in d.answers : \A n \in a.created : n \in UNION created
  OBVIOUS
<1> HIDE DEF ids, created
<1>6. IsFiniteSet(ids \cup UNION created)
  BY <1>2, <1>3, FS_Union
<1>7. LastId(d) \in Nat /\ \A n \in ids \cup UNION created : n <= LastId(d)
  BY <1>1, <1>4, <1>6, MaxWithZero
<1> QED BY <1>5, <1>7

LEMMA LastOrdinalIsUpper ==
  ASSUME NEW d, Sound(d), NEW day
  PROVE  /\ GetLastOrdinal(d, day) \in Nat
         /\ \A i \in d.items : i.day = day => i.ord <= GetLastOrdinal(d, day)
<1> DEFINE items == PoolItems(d, day)
           ordOf == [i \in items |-> i.ord]
           ords == {i.ord : i \in items}
<1>1. IsFiniteSet(items)
  BY FS_Subset DEF Sound, PoolItems
<1>2. ords \subseteq Nat
  BY DEF Sound, DB, Item, PoolItems
<1>3. ords = {ordOf[i] : i \in items} /\ GetLastOrdinal(d, day) = Max({0} \cup ords)
  BY DEF GetLastOrdinal
<1>4. \A i \in d.items : i.day = day => i.ord \in ords
  BY DEF PoolItems
<1> HIDE DEF ords, ordOf, items
<1>5. IsFiniteSet(ords)
  BY <1>1, <1>3, ImageIsFinite
<1>6. Max({0} \cup ords) \in Nat /\ \A n \in ords : n <= Max({0} \cup ords)
  BY <1>2, <1>5, MaxWithZero
<1> QED BY <1>3, <1>4, <1>6

LEMMA LastStampIsUpper ==
  ASSUME NEW d, Sound(d), NEW day
  PROVE  /\ LastStamp(d, day) \in Nat
         /\ \A i \in d.items : i.day = day => i.done <= LastStamp(d, day)
<1> DEFINE items == PoolItems(d, day)
           doneOf == [i \in items |-> i.done]
           stamps == {i.done : i \in items}
<1>1. IsFiniteSet(items)
  BY FS_Subset DEF Sound, PoolItems
<1>2. stamps \subseteq Nat
  BY DEF Sound, DB, Item, PoolItems
<1>3. stamps = {doneOf[i] : i \in items} /\ LastStamp(d, day) = Max({0} \cup stamps)
  BY DEF LastStamp
<1>4. \A i \in d.items : i.day = day => i.done \in stamps
  BY DEF PoolItems
<1> HIDE DEF stamps, doneOf, items
<1>5. IsFiniteSet(stamps)
  BY <1>1, <1>3, ImageIsFinite
<1>6. Max({0} \cup stamps) \in Nat /\ \A n \in stamps : n <= Max({0} \cup stamps)
  BY <1>2, <1>5, MaxWithZero
<1> QED BY <1>3, <1>4, <1>6

LEMMA NumberingNumbers ==
  ASSUME NEW S, IsFiniteSet(S)
  PROVE  /\ Numbering(S) \in [S -> Nat \ {0}]
         /\ \A x, y \in S : Numbering(S)[x] = Numbering(S)[y] => x = y
<1>1. Numbering(S) \in [S -> 1..Cardinality(S)] /\ IsInjective(Numbering(S))
  BY NumberingExists DEF Numbering
<1> QED BY <1>1, FS_CardinalityType DEF IsInjective

LEMMA UpsertStateSound ==
  ASSUME NEW d, Sound(d), NEW w \in Words, NEW row \in StateRow, Schedulable(row)
  PROVE  Sound(UpsertState(d, w, row))
BY DEF Sound, DB, UpsertState

LEMMA NoRowSchedulable == NoRow \in StateRow /\ Schedulable(NoRow)
BY DEF NoRow, StateRow, Statuses, Null, Schedulable

(***************************************************************************)
(* Replacing the items, or the items and some answers, or the pools.       *)
(***************************************************************************)
LEMMA ReplaceItemsSound ==
  ASSUME NEW d, Sound(d), NEW X \in SUBSET Item, IsFiniteSet(X),
         UniqueIds(X), UniquePositions(X)
  PROVE  Sound([d EXCEPT !.items = X])
BY DEF Sound, DB

LEMMA ReplacePoolsSound ==
  ASSUME NEW d, Sound(d), NEW p \in [Days -> Pool]
  PROVE  Sound([d EXCEPT !.pools = p])
BY DEF Sound, DB

(***************************************************************************)
(* Cards with distinct numbers, placed after all ids of the pool, get ids  *)
(* and positions of their own.                                             *)
(***************************************************************************)
LEMMA AppendPoolItemsSound ==
  ASSUME NEW d, Sound(d), NEW day \in Days, NEW cards \in SUBSET Card, IsFiniteSet(cards)
  PROVE  Sound(AppendPoolItems(d, day, cards))
<1> DEFINE number == Numbering(cards)
           lastId == LastId(d)
           lastOrd == GetLastOrdinal(d, day)
           item(c) == [id |-> lastId + number[c], day |-> day, word |-> c.word,
                       type |-> c.type, bonus |-> c.bonus, due |-> c.due,
                       ord |-> lastOrd + number[c], done |-> 0]
           itemOf == [c \in cards |-> item(c)]
           new == {item(c) : c \in cards}
<1>1. number \in [cards -> Nat \ {0}] /\ \A b, c \in cards : number[b] = number[c] => b = c
  BY NumberingNumbers
<1>2. lastId \in Nat /\ \A i \in d.items : i.id \in Nat /\ i.id <= lastId
  BY LastIdIsUpper DEF Sound, DB, Item
<1>3. lastOrd \in Nat /\ \A i \in d.items : i.ord \in Nat /\ (i.day = day => i.ord <= lastOrd)
  BY LastOrdinalIsUpper DEF Sound, DB, Item
<1>4. AppendPoolItems(d, day, cards) = [d EXCEPT !.items = d.items \cup new]
  BY DEF AppendPoolItems, Sound, DB
<1> HIDE DEF number, lastId, lastOrd
<1>5. \A c \in cards : item(c) \in Item
  BY <1>1, <1>2, <1>3 DEF Item, Card
<1>6. d.items \cup new \in SUBSET Item
  BY <1>5 DEF Sound, DB
<1>7. IsFiniteSet(d.items \cup new)
  <2>1. new = {itemOf[c] : c \in cards}
    OBVIOUS
  <2> HIDE DEF new, itemOf
  <2> QED BY <2>1, ImageIsFinite, FS_Union DEF Sound
<1>8. \A i \in new : i.id > lastId /\ i.ord > lastOrd /\ i.day = day
  BY <1>1, <1>2, <1>3
<1>9. \A i, j \in new : i.id = j.id \/ i.ord = j.ord => i = j
  <2> SUFFICES ASSUME NEW b \in cards, NEW c \in cards,
                      item(b).id = item(c).id \/ item(b).ord = item(c).ord
               PROVE  b = c
    OBVIOUS
  <2>1. number[b] = number[c]
    BY <1>1, <1>2, <1>3
  <2> QED BY <1>1, <2>1
<1> HIDE DEF new
<1>10. UniqueIds(d.items \cup new)
  BY <1>2, <1>6, <1>8, <1>9 DEF UniqueIds, Sound, Item
<1>11. UniquePositions(d.items \cup new)
  BY <1>3, <1>6, <1>8, <1>9 DEF UniquePositions, SamePosition, Sound, Item
<1> QED BY <1>4, <1>6, <1>7, <1>10, <1>11, ReplaceItemsSound

LEMMA CardCountsType ==
  ASSUME NEW cards, IsFiniteSet(cards)
  PROVE  CardCounts(cards) \in Counts
<1>1. \A type : Cardinality({c \in cards : c.type = type}) \in Nat
  BY FS_Subset, FS_CardinalityType
<1> QED BY <1>1 DEF CardCounts, Counts

LEMMA IncrementCountsSound ==
  ASSUME NEW d, Sound(d), NEW day, NEW by \in Counts
  PROVE  Sound(IncrementCounts(d, day, by)) /\ IncrementCounts(d, day, by).items = d.items
<1> DEFINE counts == [type \in ItemTypes |-> d.pools[day].counts[type] + by[type]]
           pools == [d.pools EXCEPT ![day].counts = counts]
<1>1. d.pools \in [Days -> Pool]
  BY DEF Sound, DB
<1>2. pools \in [Days -> Pool]
  <2>1. CASE day \in Days
    <3>1. d.pools[day].counts \in Counts
      BY <1>1, <2>1 DEF Pool
    <3>2. counts \in Counts
      BY <3>1 DEF Counts
    <3> HIDE DEF counts
    <3> QED BY <1>1, <3>2 DEF Pool
  <2>2. CASE day \notin Days
    BY <1>1, <2>2
  <2> QED BY <2>1, <2>2
<1>3. IncrementCounts(d, day, by) = [d EXCEPT !.pools = pools]
  BY DEF IncrementCounts, Sound, DB
<1> HIDE DEF pools
<1>4. [d EXCEPT !.pools = pools].items = d.items
  BY DEF Sound, DB
<1> QED BY <1>2, <1>3, <1>4, ReplacePoolsSound

LEMMA AppendCountedSound ==
  ASSUME NEW d, Sound(d), NEW day \in Days, NEW cards \in SUBSET Card, IsFiniteSet(cards)
  PROVE  Sound(AppendCounted(d, day, cards))
BY AppendPoolItemsSound, CardCountsType, IncrementCountsSound DEF AppendCounted

LEMMA RemoveItemsSound ==
  ASSUME NEW d, Sound(d), NEW dead
  PROVE  Sound(RemoveItems(d, dead)) /\ RemoveItems(d, dead).pools = d.pools
<1> DEFINE items == d.items \ dead
           answers == {a \in d.answers : \A i \in dead : i.id # a.item}
<1>1. IsFiniteSet(items) /\ IsFiniteSet(answers)
  BY FS_Subset DEF Sound
<1>2. RemoveItems(d, dead) = [d EXCEPT !.items = items, !.answers = answers]
  BY DEF RemoveItems, Sound, DB
<1>3. items \in SUBSET Item /\ answers \in SUBSET Answer /\ answers \subseteq d.answers
  BY DEF Sound, DB
<1>4. UniqueIds(items) /\ UniquePositions(items)
  BY DEF Sound, UniqueIds, UniquePositions
<1> HIDE DEF items, answers
<1> QED BY <1>1, <1>2, <1>3, <1>4 DEF Sound, DB

LEMMA LessIsNat ==
  ASSUME NEW n \in Nat, NEW k \in Nat
  PROVE  Less(n, k) \in Nat
BY DEF Less

LEMMA DeletePoolItemsSound ==
  ASSUME NEW d, Sound(d), NEW dead, IsFiniteSet(dead)
  PROVE  Sound(DeletePoolItems(d, dead))
<1> DEFINE e == RemoveItems(d, dead)
           counts(day) == [type \in ItemTypes |->
             Less(d.pools[day].counts[type], Cardinality(ItemsOf(dead, day, type)))]
           pools == [day \in Days |-> [d.pools[day] EXCEPT !.counts = counts(day)]]
<1>1. Sound(e)
  BY RemoveItemsSound
<1>2. d.pools \in [Days -> Pool]
  BY DEF Sound, DB
<1>3. \A day \in Days : counts(day) \in Counts
  <2> TAKE day \in Days
  <2>1. \A type \in ItemTypes : Cardinality(ItemsOf(dead, day, type)) \in Nat
    BY FS_Subset, FS_CardinalityType DEF ItemsOf
  <2>2. d.pools[day].counts \in Counts
    BY <1>2 DEF Pool
  <2> QED BY <2>1, <2>2, LessIsNat DEF Counts
<1>4. pools \in [Days -> Pool]
  <2> HIDE DEF counts
  <2> QED BY <1>2, <1>3 DEF Pool
<1>5. DeletePoolItems(d, dead) = [e EXCEPT !.pools = pools]
  BY DEF DeletePoolItems
<1> HIDE DEF pools, e
<1> QED BY <1>1, <1>4, <1>5, ReplacePoolsSound

LEMMA PruneStaleItemsSound ==
  ASSUME NEW d, Sound(d), NEW t
  PROVE  Sound(PruneStaleItems(d, t))
BY RemoveItemsSound DEF PruneStaleItems

LEMMA MarkPoolItemCompletedSound ==
  ASSUME NEW d, Sound(d), NEW item \in d.items
  PROVE  Sound(MarkPoolItemCompleted(d, item))
<1> DEFINE done == [item EXCEPT !.done = LastStamp(d, item.day) + 1]
           items == (d.items \ {item}) \cup {done}
<1>1. done \in Item
  <2>1. LastStamp(d, item.day) + 1 \in Nat
    BY LastStampIsUpper
  <2>2. item \in Item
    BY DEF Sound, DB
  <2> QED BY <2>1, <2>2 DEF Item
<1>2. items \in SUBSET Item
  BY <1>1 DEF Sound, DB
<1>3. IsFiniteSet(items)
  <2> HIDE DEF done
  <2> QED BY FS_RemoveElement, FS_AddElement DEF Sound
<1>4. MarkPoolItemCompleted(d, item) = [d EXCEPT !.items = items]
  BY DEF MarkPoolItemCompleted, Sound, DB
<1>5. done.id = item.id /\ SamePosition(done, item) /\ item \in Item
  BY DEF SamePosition, Sound, DB, Item
<1> HIDE DEF done
<1>6. UniqueIds(items) /\ UniquePositions(items)
  BY <1>5 DEF Sound, UniqueIds, UniquePositions, SamePosition
<1> HIDE DEF items
<1> QED BY <1>2, <1>3, <1>4, <1>6, ReplaceItemsSound

LEMMA RecordAnswerSound ==
  ASSUME NEW d, Sound(d), NEW answer \in Answer, SoundAnswer(answer)
  PROVE  Sound(RecordAnswer(d, answer))
<1> DEFINE kept == {a \in d.answers : a.item # answer.item}
<1>1. IsFiniteSet(kept \cup {answer})
  BY FS_Subset, FS_AddElement DEF Sound
<1>2. RecordAnswer(d, answer) = [d EXCEPT !.answers = kept \cup {answer}]
  BY DEF RecordAnswer, Sound, DB
<1> QED BY <1>1, <1>2 DEF Sound, DB

---------------------------------------------------------------------------
(* GetOrCreateDailyPool *)

LEMMA WordsAreFinite ==
  ASSUME NEW ws \in SUBSET Words
  PROVE  IsFiniteSet(ws)
BY FS_Subset, DailyAssumption

LEMMA ReviewCardsAreCards ==
  ASSUME NEW d, Sound(d), NEW ws \in SUBSET Words, NEW type \in ItemTypes
  PROVE  ReviewCards(d, ws, type) \in SUBSET Card /\ IsFiniteSet(ReviewCards(d, ws, type))
<1> DEFINE cardOf == [w \in ws |-> [word |-> w, type |-> type, bonus |-> FALSE, due |-> d.states[w].due]]
<1>1. \A w \in ws : d.states[w].due \in Nat \cup {Null}
  BY DEF Sound, DB, StateRow
<1>2. ReviewCards(d, ws, type) \in SUBSET Card
  <2>1. \A w \in ws :
          [word |-> w, type |-> type, bonus |-> FALSE, due |-> d.states[w].due] \in Card
    BY <1>1 DEF Card
  <2> QED BY <2>1 DEF ReviewCards
<1>3. ReviewCards(d, ws, type) = {cardOf[w] : w \in ws}
  BY DEF ReviewCards
<1> HIDE DEF cardOf
<1> QED BY <1>2, <1>3, WordsAreFinite, ImageIsFinite

LEMMA NewCardsAreCards ==
  ASSUME NEW ws \in SUBSET Words
  PROVE  NewCards(ws) \in SUBSET Card /\ IsFiniteSet(NewCards(ws))
<1> DEFINE cardOf == [w \in ws |-> [word |-> w, type |-> "new", bonus |-> FALSE, due |-> Null]]
<1>1. NewCards(ws) \in SUBSET Card
  <2>1. \A w \in ws : [word |-> w, type |-> "new", bonus |-> FALSE, due |-> Null] \in Card
    BY DEF Card, ItemTypes
  <2> QED BY <2>1 DEF NewCards
<1>2. NewCards(ws) = {cardOf[w] : w \in ws}
  BY DEF NewCards
<1> HIDE DEF cardOf
<1> QED BY <1>1, <1>2, WordsAreFinite, ImageIsFinite

LEMMA BonusCardsAreCards ==
  ASSUME NEW ws \in SUBSET Words
  PROVE  BonusCards(ws) \in SUBSET Card /\ IsFiniteSet(BonusCards(ws))
<1> DEFINE cardOf == [w \in ws |-> [word |-> w, type |-> "weak", bonus |-> TRUE, due |-> Null]]
<1>1. BonusCards(ws) \in SUBSET Card
  <2>1. \A w \in ws : [word |-> w, type |-> "weak", bonus |-> TRUE, due |-> Null] \in Card
    BY DEF Card, ItemTypes
  <2> QED BY <2>1 DEF BonusCards
<1>2. BonusCards(ws) = {cardOf[w] : w \in ws}
  BY DEF BonusCards
<1> HIDE DEF cardOf
<1> QED BY <1>1, <1>2, WordsAreFinite, ImageIsFinite

LEMMA GeneratedAreWords ==
  ASSUME NEW d, NEW day, NEW quota, NEW ws \in GenerateNewWords(d, day, quota)
  PROVE  ws \in SUBSET Words
BY DEF GenerateNewWords

LEMMA ReconcileSound ==
  ASSUME NEW d, Sound(d), NEW t, Day(t) \in Days
  PROVE  Sound(ReconcileScheduledPoolItems(d, t))
<1> DEFINE has(w, type) == \E i \in PoolItems(d, Day(t)) : i.word = w /\ i.type = type
           short == {w \in DueShortTerm(d, t) : ~has(w, "short_term")}
           review == {w \in DueReview(d, t) : ~has(w, "review")}
           missing == ReviewCards(d, short, "short_term") \cup ReviewCards(d, review, "review")
<1>1. short \in SUBSET Words /\ review \in SUBSET Words
  BY DEF DueShortTerm, DueReview
<1>2. ReconcileScheduledPoolItems(d, t) = AppendCounted(d, Day(t), missing)
  BY DEF ReconcileScheduledPoolItems
<1> HIDE DEF short, review
<1>3. missing \in SUBSET Card /\ IsFiniteSet(missing)
  <2>1. "short_term" \in ItemTypes /\ "review" \in ItemTypes
    BY DEF ItemTypes
  <2> QED BY <1>1, <2>1, ReviewCardsAreCards, FS_Union
<1> HIDE DEF missing
<1> QED BY <1>2, <1>3, AppendCountedSound

LEMMA SyncSound ==
  ASSUME NEW d, Sound(d), NEW t
  PROVE  Sound(SyncPendingPoolItems(d, t))
<1> DEFINE synced(i) ==
             IF i.day = Day(t) /\ Pending(i) /\ i.type # "new" /\ HasRow(d, i.word)
             THEN [i EXCEPT !.due = IF i.bonus THEN Null ELSE d.states[i.word].due]
             ELSE i
           syncedItem == [i \in d.items |-> synced(i)]
           items == {synced(i) : i \in d.items}
<1>1. \A i \in d.items : synced(i) \in Item
  <2> TAKE i \in d.items
  <2>1. i \in Item
    BY DEF Sound, DB
  <2>2. d.states[i.word].due \in Nat \cup {Null}
    BY <2>1 DEF Sound, DB, StateRow, Item
  <2> QED BY <2>1, <2>2 DEF Item
<1>2. items \in SUBSET Item
  BY <1>1
<1>3. IsFiniteSet(items)
  <2>1. items = {syncedItem[i] : i \in d.items}
    OBVIOUS
  <2> HIDE DEF items, syncedItem
  <2> QED BY <2>1, ImageIsFinite DEF Sound
<1>4. SyncPendingPoolItems(d, t) = [d EXCEPT !.items = items]
  BY DEF SyncPendingPoolItems, Sound, DB
<1>5. \A i \in d.items : synced(i).id = i.id /\ SamePosition(synced(i), i)
  BY DEF SamePosition, Sound, DB, Item
<1> HIDE DEF synced
<1>6. UniqueIds(items) /\ UniquePositions(items)
  BY <1>5 DEF Sound, UniqueIds, UniquePositions, SamePosition
<1> HIDE DEF items
<1> QED BY <1>2, <1>3, <1>4, <1>6, ReplaceItemsSound

LEMMA CreateDailyPoolSound ==
  ASSUME NEW d, Sound(d), NEW t, Day(t) \in Days, NEW r \in CreateDailyPool(d, t)
  PROVE  Sound(r.db)
<1> DEFINE day == Day(t)
           due == DueShortTerm(d, t) \cup DueReview(d, t)
           weaks == Picks({w \in Words \ due : IsWeakCandidate(d.states[w])}, WeakSlots)
           opened == [d EXCEPT !.pools[day] = [NoPool EXCEPT !.open = TRUE]]
           reviews(weak) == ReviewCards(d, DueShortTerm(d, t), "short_term")
                              \cup ReviewCards(d, DueReview(d, t), "review")
                              \cup ReviewCards(d, weak, "weak")
           dealt(weak, new) == AppendCounted(opened, day, reviews(weak) \cup NewCards(new))
           results(weak) ==
             {IF reviews(weak) = {} /\ new = {} /\ NewLimit > 0
              THEN [ok |-> FALSE, db |-> d]
              ELSE [ok |-> TRUE, db |-> dealt(weak, new)] :
                new \in GenerateNewWords(d, day, PrefetchBatchSize)}
<1>1. PICK weak \in weaks : r \in results(weak)
  <2>1. CreateDailyPool(d, t) = UNION {results(weak) : weak \in weaks}
    BY DEF CreateDailyPool
  <2> HIDE DEF results, weaks
  <2> QED BY <2>1
<1> HIDE DEF dealt
<1>2. PICK new \in GenerateNewWords(d, day, PrefetchBatchSize) :
        r.db = d \/ r.db = dealt(weak, new)
  BY <1>1
<1> USE DEF dealt
<1>3. Sound(opened)
  <2> DEFINE pools == [d.pools EXCEPT ![day] = [NoPool EXCEPT !.open = TRUE]]
  <2>1. [NoPool EXCEPT !.open = TRUE] \in Pool
    BY DEF NoPool, NoCounts, Pool, Counts
  <2>2. pools \in [Days -> Pool]
    BY <2>1 DEF Sound, DB
  <2>3. opened = [d EXCEPT !.pools = pools]
    BY DEF Sound, DB
  <2> HIDE DEF pools
  <2> QED BY <2>2, <2>3, ReplacePoolsSound
<1>4. weak \in SUBSET Words /\ new \in SUBSET Words
  BY GeneratedAreWords DEF Picks
<1>5. /\ DueShortTerm(d, t) \in SUBSET Words /\ DueReview(d, t) \in SUBSET Words
      /\ {"short_term", "review", "weak"} \subseteq ItemTypes
  BY DEF DueShortTerm, DueReview, ItemTypes
<1> HIDE DEF opened
<1>6. reviews(weak) \cup NewCards(new) \in SUBSET Card
  BY <1>4, <1>5, ReviewCardsAreCards, NewCardsAreCards
<1>7. IsFiniteSet(reviews(weak) \cup NewCards(new))
  BY <1>4, <1>5, ReviewCardsAreCards, NewCardsAreCards, FS_Union
<1> HIDE DEF reviews
<1> QED BY <1>2, <1>3, <1>6, <1>7, AppendCountedSound

LEMMA GetOrCreateSound ==
  ASSUME NEW d, Sound(d), NEW t, Day(t) \in Days, NEW r \in GetOrCreateDailyPool(d, t)
  PROVE  Sound(r.db)
<1> DEFINE pruned == PruneStaleItems(d, t)
<1>1. Sound(pruned)
  BY PruneStaleItemsSound
<1>2. \/ r.db = SyncPendingPoolItems(ReconcileScheduledPoolItems(pruned, t), t)
      \/ r \in CreateDailyPool(pruned, t)
  BY DEF GetOrCreateDailyPool
<1> HIDE DEF pruned
<1> QED BY <1>1, <1>2, ReconcileSound, SyncSound, CreateDailyPoolSound

---------------------------------------------------------------------------
(* The buffer of new words *)

SoundMaintained(m) ==
  /\ Sound(m.db)
  /\ m.created \in SUBSET Nat /\ IsFiniteSet(m.created)
  /\ m.deleted \in SUBSET Item /\ IsFiniteSet(m.deleted) /\ UniquePositions(m.deleted)

LEMMA UnchangedIsMaintained ==
  ASSUME NEW d, Sound(d)
  PROVE  SoundMaintained(Maintained(d, {}, {}))
BY FS_EmptySet DEF SoundMaintained, Maintained, UniquePositions

LEMMA NewIdsAreIds ==
  ASSUME NEW d, NEW e, Sound(e)
  PROVE  NewIds(d, e) \in SUBSET Nat /\ IsFiniteSet(NewIds(d, e))
<1> DEFINE idOf == [i \in e.items |-> i.id]
           ids == {i.id : i \in e.items}
<1>1. ids \subseteq Nat
  BY DEF Sound, DB, Item
<1>2. IsFiniteSet(ids)
  <2>1. ids = {idOf[i] : i \in e.items}
    OBVIOUS
  <2> HIDE DEF ids, idOf
  <2> QED BY <2>1, ImageIsFinite DEF Sound
<1>3. NewIds(d, e) \subseteq ids
  BY DEF NewIds
<1> HIDE DEF ids
<1> QED BY <1>1, <1>2, <1>3, FS_Subset

LEMMA AppendedIsMaintained ==
  ASSUME NEW d, NEW e, Sound(e)
  PROVE  SoundMaintained(Maintained(e, NewIds(d, e), {}))
BY NewIdsAreIds, FS_EmptySet DEF SoundMaintained, Maintained, UniquePositions

LEMMA ReplenishSound ==
  ASSUME NEW d, Sound(d), NEW t, Day(t) \in Days, NEW e \in ReplenishUnknownDailySlots(d, t)
  PROVE  Sound(e)
<1>1. PICK ws \in GenerateNewWords(d, Day(t), PrefetchBatchSize) :
        e = AppendCounted(d, Day(t), NewCards(ws))
  BY DEF ReplenishUnknownDailySlots
<1> QED BY <1>1, GeneratedAreWords, NewCardsAreCards, AppendCountedSound

LEMMA ReconcileBufferSound ==
  ASSUME NEW d, Sound(d), NEW t
  PROVE  SoundMaintained(ReconcileUnknownDailyBuffer(d, t))
<1> DEFINE trimmed == PendingNew(d, Day(t))
<1>1. trimmed \in SUBSET Item /\ IsFiniteSet(trimmed) /\ UniquePositions(trimmed)
  <2>1. trimmed \subseteq d.items
    BY DEF PendingNew, ItemsOf
  <2> HIDE DEF trimmed
  <2> QED BY <2>1, FS_Subset DEF UniquePositions, Sound, DB
<1>2. \/ ReconcileUnknownDailyBuffer(d, t) = Maintained(DeletePoolItems(d, trimmed), {}, trimmed)
      \/ ReconcileUnknownDailyBuffer(d, t) = Maintained(d, {}, {})
  BY DEF ReconcileUnknownDailyBuffer
<1> HIDE DEF trimmed
<1>3. SoundMaintained(Maintained(DeletePoolItems(d, trimmed), {}, trimmed))
  BY <1>1, DeletePoolItemsSound, FS_EmptySet DEF SoundMaintained, Maintained
<1> QED BY <1>2, <1>3, UnchangedIsMaintained

LEMMA MaintainBufferSound ==
  ASSUME NEW d, Sound(d), NEW t, Day(t) \in Days, NEW m \in MaintainNewWordBuffer(d, t)
  PROVE  SoundMaintained(m)
<1>1. PICK r \in GetOrCreateDailyPool(d, t) :
        \/ m = ReconcileUnknownDailyBuffer(r.db, t)
        \/ \E f \in ReplenishUnknownDailySlots(r.db, t) : m = Maintained(f, NewIds(r.db, f), {})
        \/ m = Maintained(r.db, {}, {})
  <2> DEFINE maintain(e) ==
               {ReconcileUnknownDailyBuffer(e, t)}
                 \cup {Maintained(f, NewIds(e, f), {}) : f \in ReplenishUnknownDailySlots(e, t)}
             outcomes(r) == IF r.ok THEN maintain(r.db) ELSE {Maintained(r.db, {}, {})}
  <2>1. MaintainNewWordBuffer(d, t) = UNION {outcomes(r) : r \in GetOrCreateDailyPool(d, t)}
    BY DEF MaintainNewWordBuffer
  <2> HIDE DEF outcomes
  <2>2. PICK r \in GetOrCreateDailyPool(d, t) : m \in outcomes(r)
    BY <2>1
  <2> USE DEF outcomes
  <2> QED BY <2>2
<1>2. Sound(r.db)
  BY GetOrCreateSound
<1> QED BY <1>1, <1>2, ReconcileBufferSound, ReplenishSound, AppendedIsMaintained,
           UnchangedIsMaintained

---------------------------------------------------------------------------
(* Answers and undo *)

LEMMA FirstExposureRows ==
  ASSUME NEW t \in Nat
  PROVE  /\ ApplyFirstExposureUnknown(t) \in StateRow /\ Schedulable(ApplyFirstExposureUnknown(t))
         /\ ApplyFirstExposureKnown \in StateRow /\ Schedulable(ApplyFirstExposureKnown)
<1>1. t + TenMinutes \in Nat
  BY DurationsAssumption
<1> QED BY <1>1 DEF ApplyFirstExposureUnknown, ApplyFirstExposureKnown, LearningRow, KnownRow,
                    StateRow, Statuses, Schedulable

(***************************************************************************)
(* Whatever the stage, the rating and the intervals, a review answer       *)
(* leaves a row that a due query will find.                                *)
(***************************************************************************)
LEMMA ReviewRows ==
  ASSUME NEW row \in StateRow, NEW hard \in BOOLEAN, NEW t \in Nat,
         NEW post \in ReviewOutcomes(row, hard, t)
  PROVE  post \in StateRow /\ Schedulable(post)
<1>1. \A n \in Nat : ReviewRow(n) \in StateRow /\ Schedulable(ReviewRow(n))
  BY DEF ReviewRow, StateRow, Statuses, Schedulable
<1>2. \A stage \in 1..3, n \in Nat :
        LearningRow(stage, n) \in StateRow /\ Schedulable(LearningRow(stage, n))
  BY DEF LearningRow, StateRow, Statuses, Schedulable
<1>3. \A n \in {FiveMinutes, EightHours, OneDay, TwoDays} \cup ReviewGaps : t + n \in Nat
  <2>1. {FiveMinutes, EightHours, OneDay, TwoDays} \subseteq Nat /\ ReviewGaps \subseteq Nat
    BY DurationsAssumption
  <2>2. \A n \in Nat : t + n \in Nat
    OBVIOUS
  <2> QED BY <2>1, <2>2
<1>4. \A gap \in ReviewGaps : ReviewRow(t + gap) \in StateRow /\ Schedulable(ReviewRow(t + gap))
  BY <1>1, <1>3
<1>5. PICK outcome \in ApplyReviewOutcome(row, hard, t) :
        \E r \in ApplyMemoryCauseIntervalBias(outcome, t) :
          post \in ApplyWordConstructionFeedback(r, t)
  BY DEF ReviewOutcomes
<1>6. PICK r \in ApplyMemoryCauseIntervalBias(outcome, t) : post \in ApplyWordConstructionFeedback(r, t)
  BY <1>5
<1>7. outcome \in StateRow /\ Schedulable(outcome)
  <2>1. CASE row.stage = 0
    BY <1>4, <2>1 DEF ApplyReviewOutcome
  <2>2. CASE row.stage \in 1..3
    <3>1. row.stage = 1 \/ row.stage = 2 \/ row.stage = 3
      BY <2>2
    <3>2. outcome = NextConsolidationStep(row.stage, hard, t)
      BY <2>2 DEF ApplyReviewOutcome
    <3>3. \/ \E n \in Nat : outcome = LearningRow(row.stage, n)
          \/ \E n \in Nat : row.stage < 3 /\ outcome = LearningRow(row.stage + 1, n)
          \/ \E n \in Nat : outcome = ReviewRow(n)
      BY <1>3, <3>1, <3>2 DEF NextConsolidationStep
    <3> QED BY <1>1, <1>2, <3>1, <3>3
  <2>3. row.stage \in 0..3
    BY DEF StateRow
  <2> QED BY <2>1, <2>2, <2>3
<1>8. r \in StateRow /\ Schedulable(r)
  BY <1>4, <1>6, <1>7 DEF ApplyMemoryCauseIntervalBias
<1> QED BY <1>4, <1>6, <1>8 DEF ApplyWordConstructionFeedback

LEMMA FollowUpsSound ==
  ASSUME NEW d, Sound(d), NEW w \in Words, NEW t, Day(t) \in Days, NEW f \in FollowUps(d, w, t)
  PROVE  SoundMaintained(f)
<1> DEFINE appended == AppendPoolItems(d, Day(t), ReviewCards(d, {w}, "short_term"))
<1>1. f = Maintained(appended, NewIds(d, appended), {}) \/ f = Maintained(d, {}, {})
  BY DEF FollowUps
<1>2. Sound(appended)
  <2>1. {w} \in SUBSET Words /\ "short_term" \in ItemTypes
    BY DEF ItemTypes
  <2> QED BY <2>1, ReviewCardsAreCards, AppendPoolItemsSound
<1> HIDE DEF appended
<1> QED BY <1>1, <1>2, AppendedIsMaintained, UnchangedIsMaintained

LEMMA ReinsertSound ==
  ASSUME NEW d, Sound(d), NEW back \in SUBSET Item, IsFiniteSet(back), UniquePositions(back),
         \A x \in back, j \in d.items : ~SamePosition(x, j)
  PROVE  Sound(Reinsert(d, back)) /\ d.items \subseteq Reinsert(d, back).items
<1> DEFINE number == Numbering(back)
           lastId == LastId(d)
           renumbered(x) == [x EXCEPT !.id = lastId + number[x]]
           renumberedItem == [x \in back |-> renumbered(x)]
           new == {renumbered(x) : x \in back}
<1>1. number \in [back -> Nat \ {0}] /\ \A x, y \in back : number[x] = number[y] => x = y
  BY NumberingNumbers
<1>2. lastId \in Nat /\ \A i \in d.items : i.id \in Nat /\ i.id <= lastId
  BY LastIdIsUpper DEF Sound, DB, Item
<1>3. Reinsert(d, back) = [d EXCEPT !.items = d.items \cup new]
  BY DEF Reinsert, Sound, DB
<1> HIDE DEF number, lastId
<1>4. \A x \in back : /\ renumbered(x) \in Item
                      /\ renumbered(x).id = lastId + number[x]
                      /\ SamePosition(renumbered(x), x)
  BY <1>1, <1>2 DEF Item, SamePosition
<1>5. d.items \cup new \in SUBSET Item
  BY <1>4 DEF Sound, DB
<1>6. IsFiniteSet(d.items \cup new)
  <2>1. new = {renumberedItem[x] : x \in back}
    OBVIOUS
  <2> HIDE DEF new, renumberedItem
  <2> QED BY <2>1, ImageIsFinite, FS_Union DEF Sound
<1> HIDE DEF renumbered
<1>7. UniqueIds(d.items \cup new)
  <2>1. \A i \in new : i.id > lastId
    BY <1>1, <1>2, <1>4
  <2>2. \A i, j \in new : i.id = j.id => i = j
    BY <1>1, <1>2, <1>4
  <2> HIDE DEF new
  <2> QED BY <1>2, <1>5, <2>1, <2>2 DEF UniqueIds, Sound, Item
<1>8. UniquePositions(d.items \cup new)
  BY <1>4 DEF UniquePositions, SamePosition, Sound
<1>9. Sound(Reinsert(d, back))
  <2> HIDE DEF new
  <2> QED BY <1>3, <1>5, <1>6, <1>7, <1>8, ReplaceItemsSound
<1> QED BY <1>3, <1>9 DEF Sound, DB

LEMMA ReopenSound ==
  ASSUME NEW d, Sound(d), NEW item \in d.items
  PROVE  Sound(ReopenPoolItem(d, item))
<1> DEFINE e == RemoveItems(d, {item})
           reopened == [item EXCEPT !.done = 0]
           items == e.items \cup {reopened}
<1>1. Sound(e)
  BY RemoveItemsSound
<1>2. e.items = d.items \ {item} /\ item \in Item
  BY DEF RemoveItems, Sound, DB
<1> HIDE DEF e
<1>3. reopened \in Item /\ reopened.id = item.id /\ SamePosition(reopened, item)
  BY <1>2 DEF Item, SamePosition
<1>4. items \in SUBSET Item /\ IsFiniteSet(items)
  <2> HIDE DEF reopened
  <2> QED BY <1>1, <1>3, FS_AddElement DEF Sound, DB
<1>5. ReopenPoolItem(d, item) = [e EXCEPT !.items = items]
  BY <1>1 DEF ReopenPoolItem, Sound, DB, e
<1> HIDE DEF reopened
<1>6. UniqueIds(items) /\ UniquePositions(items)
  BY <1>2, <1>3 DEF Sound, UniqueIds, UniquePositions, SamePosition
<1> HIDE DEF items
<1> QED BY <1>1, <1>4, <1>5, <1>6, ReplaceItemsSound

(***************************************************************************)
(* The cards put back collide neither with each other, having been in one  *)
(* pool, nor with a card of the pool, being below the first collision; and *)
(* the card reopened is not among the follow-ups deleted, being completed. *)
(***************************************************************************)
LEMMA UndoSound ==
  ASSUME NEW d, Sound(d), NEW a \in d.answers, NEW i \in d.items, NEW t, CanUndo(d, a, i, t)
  PROVE  Sound(UndoWrites(d, a, i))
<1> DEFINE restored == UpsertState(d, i.word, a.prev)
           dead == {j \in d.items : j.id \in a.created}
           cleared == DeletePoolItems(restored, dead)
           clash == Collisions(cleared, a.deleted)
           back == {x \in a.deleted : \A c \in clash : x.ord < c.ord}
           again == Reinsert(cleared, back)
           counted == IncrementCounts(again, i.day, CardCounts(back))
<1>1. i \in Item /\ i.word \in Words /\ a.prev \in StateRow /\ a.deleted \in SUBSET Item
  BY DEF Sound, DB, Item, Answer
<1>2. Schedulable(a.prev) /\ IsFiniteSet(a.deleted) /\ UniquePositions(a.deleted)
  BY DEF Sound, SoundAnswer
<1>3. Sound(restored) /\ restored.items = d.items
  BY <1>1, <1>2, UpsertStateSound DEF UpsertState, Sound, DB
<1>4. IsFiniteSet(dead)
  BY FS_Subset DEF Sound
<1>5. i \notin dead
  BY DEF CanUndo, Pending, UniqueIds, Sound
<1> HIDE DEF restored, dead
<1>6. Sound(cleared) /\ cleared.items = d.items \ dead
  <2>1. cleared.items = restored.items \ dead
    BY <1>3 DEF DeletePoolItems, RemoveItems, Sound, DB
  <2> QED BY <1>3, <1>4, <2>1, DeletePoolItemsSound
<1>7. back \in SUBSET Item /\ back \subseteq a.deleted
  BY <1>1
<1> HIDE DEF cleared
<1>8. \A x \in back, j \in cleared.items : ~SamePosition(x, j)
  <2> SUFFICES ASSUME NEW x \in back, NEW j \in cleared.items, SamePosition(x, j) PROVE FALSE
    OBVIOUS
  <2>1. x \in clash /\ x.ord \in Nat
    BY <1>7 DEF Collisions, Item
  <2> QED BY <2>1
<1> HIDE DEF clash, back
<1>9. IsFiniteSet(back) /\ UniquePositions(back)
  BY <1>2, <1>7, FS_Subset DEF UniquePositions
<1>10. Sound(again) /\ i \in again.items
  BY <1>5, <1>6, <1>7, <1>8, <1>9, ReinsertSound
<1> HIDE DEF again
<1>11. Sound(counted) /\ i \in counted.items
  <2>1. CardCounts(back) \in Counts
    BY <1>9, CardCountsType
  <2> QED BY <1>10, <2>1, IncrementCountsSound
<1>12. UndoWrites(d, a, i) = ReopenPoolItem(counted, i) \/ UndoWrites(d, a, i) = again
  BY DEF UndoWrites, again, back, clash, cleared, dead, restored
<1> HIDE DEF counted
<1> QED BY <1>10, <1>11, <1>12, ReopenSound

---------------------------------------------------------------------------
(* Requests *)

LEMMA InitSound == Init => IInv
<1> SUFFICES ASSUME Init PROVE IInv
  OBVIOUS
<1>1. 0 \div DayLen = 0 /\ 0 \in Days
  BY DailyAssumption DEF Days
<1>2. EmptyDB \in DB
  <2>1. NoPool \in Pool
    BY DEF NoPool, NoCounts, Pool, Counts
  <2> QED BY <2>1, NoRowSchedulable DEF EmptyDB, DB
<1>3. Sound(EmptyDB)
  BY <1>2, NoRowSchedulable, FS_EmptySet DEF Sound, EmptyDB, UniqueIds, UniquePositions
<1> QED BY <1>1, <1>3 DEF Init, IInv, Day

(***************************************************************************)
(* A request that ends with a sound database keeps the invariant.          *)
(***************************************************************************)
LEMMA CommitSound ==
  ASSUME IInv, NEW d, Sound(d), Commit(d)
  PROVE  IInv'
<1>1. now' = now /\ db' = d
  BY DEF Commit
<1>2. Sound(db)' 
  BY <1>1 DEF Sound, SoundAnswer, UniqueIds, UniquePositions, SamePosition
<1> QED BY <1>1, <1>2 DEF IInv, Day, Days

LEMMA TickSound == IInv /\ Tick => IInv'
<1> SUFFICES ASSUME IInv, Tick PROVE IInv'
  OBVIOUS
<1>1. now' \in Nat /\ Day(now') \in Nat
  BY DayIsNat DEF IInv, Tick
<1>2. Day(now') \in Days
  BY <1>1, DailyAssumption DEF Tick, Days
<1> QED BY <1>1, <1>2 DEF IInv, Tick, Sound, SoundAnswer, UniqueIds, UniquePositions, SamePosition,
                        Day, Days

LEMMA SubmitFirstExposureSound ==
  ASSUME IInv, NEW i \in db.items, NEW known \in BOOLEAN, SubmitFirstExposure(i, known)
  PROVE  IInv'
<1> DEFINE prev == db.states[i.word]
           post == IF known THEN ApplyFirstExposureKnown ELSE ApplyFirstExposureUnknown(now)
           marked == MarkPoolItemCompleted(UpsertState(db, i.word, post), i)
           answer(f, m) == [item |-> i.id, prev |-> prev, post |-> post,
                            created |-> f.created \cup m.created, deleted |-> m.deleted]
<1>1. PICK f \in FollowUps(marked, i.word, now) :
        \E m \in MaintainNewWordBuffer(f.db, now) : Commit(RecordAnswer(m.db, answer(f, m)))
  BY DEF SubmitFirstExposure
<1>2. PICK m \in MaintainNewWordBuffer(f.db, now) : Commit(RecordAnswer(m.db, answer(f, m)))
  BY <1>1
<1>3. i \in Item /\ i.id \in Nat /\ i.word \in Words
  BY DEF IInv, Sound, DB, Item
<1>4. post \in StateRow /\ Schedulable(post) /\ prev \in StateRow /\ Schedulable(prev)
  BY <1>3, FirstExposureRows DEF IInv, Sound, DB
<1> HIDE DEF prev, post
<1>5. Sound(marked)
  <2> DEFINE d == UpsertState(db, i.word, post)
  <2>1. Sound(d) /\ i \in d.items
    BY <1>3, <1>4, UpsertStateSound DEF IInv, UpsertState, Sound, DB
  <2> HIDE DEF d
  <2> QED BY <2>1, MarkPoolItemCompletedSound DEF d
<1> HIDE DEF marked
<1>6. SoundMaintained(f) /\ SoundMaintained(m)
  BY <1>3, <1>5, FollowUpsSound, MaintainBufferSound DEF IInv, SoundMaintained
<1>7. answer(f, m) \in Answer /\ SoundAnswer(answer(f, m))
  <2>1. IsFiniteSet(f.created \cup m.created)
    BY <1>6, FS_Union DEF SoundMaintained
  <2> QED BY <1>3, <1>4, <1>6, <2>1 DEF Answer, SoundAnswer, SoundMaintained
<1> HIDE DEF answer
<1>8. Sound(RecordAnswer(m.db, answer(f, m)))
  BY <1>6, <1>7, RecordAnswerSound DEF SoundMaintained
<1> QED BY <1>2, <1>8, CommitSound

LEMMA SubmitReviewSound ==
  ASSUME IInv, NEW i \in db.items, NEW hard \in BOOLEAN, SubmitReview(i, hard)
  PROVE  IInv'
<1> DEFINE prev == db.states[i.word]
           posts == IF i.bonus THEN {prev} ELSE ReviewOutcomes(prev, hard, now)
           marked(post) == MarkPoolItemCompleted(UpsertState(db, i.word, post), i)
           followed(post) == IF i.bonus THEN {Maintained(marked(post), {}, {})}
                             ELSE FollowUps(marked(post), i.word, now)
           answer(post, f) == [item |-> i.id, prev |-> prev, post |-> post,
                               created |-> f.created, deleted |-> {}]
<1>1. PICK post \in posts :
        \E f \in followed(post) : Commit(RecordAnswer(f.db, answer(post, f)))
  BY DEF SubmitReview
<1>2. PICK f \in followed(post) : Commit(RecordAnswer(f.db, answer(post, f)))
  BY <1>1
<1>3. i \in Item /\ i.id \in Nat /\ i.word \in Words
  BY DEF IInv, Sound, DB, Item
<1>4. prev \in StateRow /\ Schedulable(prev)
  BY <1>3 DEF IInv, Sound, DB
<1> HIDE DEF prev
<1>5. post \in StateRow /\ Schedulable(post)
  BY <1>4, ReviewRows DEF IInv
<1>6. Sound(marked(post))
  <2> DEFINE d == UpsertState(db, i.word, post)
  <2>1. Sound(d) /\ i \in d.items
    BY <1>3, <1>5, UpsertStateSound DEF IInv, UpsertState, Sound, DB
  <2> HIDE DEF d
  <2> QED BY <2>1, MarkPoolItemCompletedSound DEF d
<1> HIDE DEF marked
<1>7. SoundMaintained(f)
  BY <1>3, <1>6, FollowUpsSound, UnchangedIsMaintained DEF IInv
<1>8. answer(post, f) \in Answer /\ SoundAnswer(answer(post, f))
  BY <1>3, <1>4, <1>5, <1>7, FS_EmptySet DEF Answer, SoundAnswer, SoundMaintained, UniquePositions
<1> HIDE DEF answer
<1>9. Sound(RecordAnswer(f.db, answer(post, f)))
  BY <1>7, <1>8, RecordAnswerSound DEF SoundMaintained
<1> QED BY <1>2, <1>9, CommitSound

LEMMA AnswerNextSound == IInv /\ AnswerNext => IInv'
<1> SUFFICES ASSUME IInv, AnswerNext PROVE IInv'
  OBVIOUS
<1>1. CASE \E i \in db.items, known \in BOOLEAN : SubmitFirstExposure(i, known)
  BY <1>1, SubmitFirstExposureSound
<1>2. CASE \E i \in db.items, hard \in BOOLEAN : SubmitReview(i, hard)
  BY <1>2, SubmitReviewSound
<1>3. CASE \E a \in db.answers, i \in db.items : UndoLastAnswer(a, i)
  BY <1>3, UndoSound, CommitSound DEF UndoLastAnswer, IInv
<1> QED BY <1>1, <1>2, <1>3 DEF AnswerNext

LEMMA OpenDailyPoolSound == IInv /\ OpenDailyPool => IInv'
BY GetOrCreateSound, CommitSound DEF OpenDailyPool, IInv

LEMMA NextCardReplenishesSound == IInv /\ NextCardReplenishes => IInv'
<1> SUFFICES ASSUME IInv, NextCardReplenishes PROVE IInv'
  OBVIOUS
<1>1. PICK r \in GetOrCreateDailyPool(db, now) :
        \E e \in ReplenishUnknownDailySlots(r.db, now) :
          \E s \in GetOrCreateDailyPool(e, now) : Commit(s.db)
  BY DEF NextCardReplenishes
<1>2. PICK e \in ReplenishUnknownDailySlots(r.db, now) :
        \E s \in GetOrCreateDailyPool(e, now) : Commit(s.db)
  BY <1>1
<1>3. Sound(r.db) /\ Day(now) \in Days
  BY GetOrCreateSound DEF IInv
<1>4. Sound(e)
  BY <1>3, ReplenishSound
<1> QED BY <1>2, <1>3, <1>4, GetOrCreateSound, CommitSound

LEMMA CandidatesAreWords ==
  ASSUME NEW d, NEW day, NEW ws \in BonusPracticeCandidates(d, day)
  PROVE  ws \in SUBSET Words
<1> DEFINE seen == {i.word : i \in {j \in PoolItems(d, day) : j.bonus}}
           weak == {w \in Words : IsWeakCandidate(d.states[w])}
           firsts == Picks(weak \ seen, BonusLimit)
           seconds == Picks(weak \cap seen, Less(BonusLimit, Cardinality(weak \ seen)))
<1>1. \A T \in firsts \cup seconds : T \subseteq weak
  BY DEF Picks
<1>2. BonusPracticeCandidates(d, day) = {fresh \cup again : fresh \in firsts, again \in seconds}
  BY DEF BonusPracticeCandidates
<1>3. weak \subseteq Words
  OBVIOUS
<1> HIDE DEF firsts, seconds, weak
<1>4. PICK fresh \in firsts, again \in seconds : ws = fresh \cup again
  BY <1>2
<1> QED BY <1>1, <1>3, <1>4

LEMMA NextCardAddsPracticeSound == IInv /\ NextCardAddsPractice => IInv'
<1> SUFFICES ASSUME IInv, NextCardAddsPractice PROVE IInv'
  OBVIOUS
<1>1. PICK r \in GetOrCreateDailyPool(db, now) :
        \E ws \in BonusPracticeCandidates(r.db, Day(now)) :
          \E s \in GetOrCreateDailyPool(AppendCounted(r.db, Day(now), BonusCards(ws)), now) :
            Commit(s.db)
  BY DEF NextCardAddsPractice
<1>2. PICK ws \in BonusPracticeCandidates(r.db, Day(now)) :
        \E s \in GetOrCreateDailyPool(AppendCounted(r.db, Day(now), BonusCards(ws)), now) :
          Commit(s.db)
  BY <1>1
<1>3. Sound(r.db) /\ Day(now) \in Days
  BY GetOrCreateSound DEF IInv
<1>4. ws \in SUBSET Words
  BY CandidatesAreWords
<1>5. Sound(AppendCounted(r.db, Day(now), BonusCards(ws)))
  BY <1>3, <1>4, BonusCardsAreCards, AppendCountedSound
<1> QED BY <1>2, <1>3, <1>5, GetOrCreateSound, CommitSound

LEMMA AppendMoreNewWordsSound == IInv /\ AppendMoreNewWords => IInv'
<1> SUFFICES ASSUME IInv, AppendMoreNewWords PROVE IInv'
  OBVIOUS
<1>1. PICK r \in GetOrCreateDailyPool(db, now) :
        \E ws \in GenerateNewWords(r.db, Day(now), NewLimit) :
          \E s \in GetOrCreateDailyPool(AppendCounted(r.db, Day(now), NewCards(ws)), now) :
            Commit(s.db)
  BY DEF AppendMoreNewWords
<1>2. PICK ws \in GenerateNewWords(r.db, Day(now), NewLimit) :
        \E s \in GetOrCreateDailyPool(AppendCounted(r.db, Day(now), NewCards(ws)), now) :
          Commit(s.db)
  BY <1>1
<1>3. Sound(r.db) /\ Day(now) \in Days
  BY GetOrCreateSound DEF IInv
<1>4. Sound(AppendCounted(r.db, Day(now), NewCards(ws)))
  BY <1>3, GeneratedAreWords, NewCardsAreCards, AppendCountedSound
<1> QED BY <1>2, <1>3, <1>4, GetOrCreateSound, CommitSound

LEMMA ForceRebuildSound == IInv /\ ForceRebuildTodayPool => IInv'
<1> SUFFICES ASSUME IInv, ForceRebuildTodayPool PROVE IInv'
  OBVIOUS
<1> DEFINE emptied == RemoveItems(db, PoolItems(db, Day(now)))
           pools == [emptied.pools EXCEPT ![Day(now)] = NoPool]
           rebuilt == [emptied EXCEPT !.pools = pools]
<1>1. Sound(emptied)
  BY RemoveItemsSound DEF IInv
<1>2. pools \in [Days -> Pool]
  <2>1. NoPool \in Pool
    BY DEF NoPool, NoCounts, Pool, Counts
  <2> HIDE DEF emptied
  <2> QED BY <1>1, <2>1 DEF Sound, DB
<1>3. [emptied EXCEPT !.pools[Day(now)] = NoPool] = rebuilt
  <2> HIDE DEF emptied
  <2> QED BY <1>1 DEF Sound, DB
<1>4. PICK r \in GetOrCreateDailyPool(rebuilt, now) : Commit(r.db)
  BY <1>3 DEF ForceRebuildTodayPool
<1> HIDE DEF emptied, pools
<1>5. Sound(rebuilt)
  BY <1>1, <1>2, ReplacePoolsSound
<1> HIDE DEF rebuilt
<1> QED BY <1>4, <1>5, GetOrCreateSound, CommitSound DEF IInv

LEMMA DictionaryNextSound == IInv /\ DictionaryNext => IInv'
<1> SUFFICES ASSUME IInv, NEW w \in Words, NEW known \in BOOLEAN,
                    \/ CreateDictionaryWord(w, known)
                    \/ UpdateDictionaryWord(w, known)
                    \/ DeleteDictionaryWord(w)
                    \/ ConfirmImport(w)
             PROVE  IInv'
  BY DEF DictionaryNext
<1>1. /\ DictionaryRow(known) \in StateRow /\ Schedulable(DictionaryRow(known))
      /\ DictionaryRow(FALSE) \in StateRow /\ Schedulable(DictionaryRow(FALSE))
  BY FirstExposureRows DEF DictionaryRow, IInv
<1>2. CASE CreateDictionaryWord(w, known) \/ UpdateDictionaryWord(w, known)
  <2>1. Sound(UpsertState(db, w, DictionaryRow(known)))
    BY <1>1, UpsertStateSound DEF IInv
  <2> QED BY <1>2, <2>1, CommitSound DEF CreateDictionaryWord, UpdateDictionaryWord
<1>3. CASE DeleteDictionaryWord(w)
  <2>1. Sound(DeleteState(db, w))
    BY NoRowSchedulable, UpsertStateSound DEF IInv, DeleteState
  <2>2. IsFiniteSet({i \in db.items : i.word = w})
    BY FS_Subset DEF IInv, Sound
  <2>3. Sound(DeletePoolItems(DeleteState(db, w), {i \in db.items : i.word = w}))
    BY <2>1, <2>2, DeletePoolItemsSound
  <2> QED BY <1>3, <2>3, CommitSound DEF DeleteDictionaryWord
<1>4. CASE ConfirmImport(w)
  <2> DEFINE d == UpsertState(db, w, DictionaryRow(FALSE))
             dealt == AppendCounted(d, Day(now), NewCards({w}))
  <2>1. Commit(dealt) \/ Commit(d)
    BY <1>4 DEF ConfirmImport
  <2>2. Sound(d)
    BY <1>1, UpsertStateSound DEF IInv
  <2> HIDE DEF d
  <2>3. Sound(dealt)
    BY <2>2, NewCardsAreCards, AppendCountedSound DEF IInv
  <2> HIDE DEF dealt
  <2> QED BY <2>1, <2>2, <2>3, CommitSound
<1> QED BY <1>2, <1>3, <1>4

LEMMA NextSound == IInv /\ [Next]_vars => IInv'
<1> SUFFICES ASSUME IInv, [Next]_vars PROVE IInv'
  OBVIOUS
<1>1. CASE Tick
  BY <1>1, TickSound
<1>2. CASE PoolNext
  BY <1>2, OpenDailyPoolSound, NextCardReplenishesSound, NextCardAddsPracticeSound,
     AppendMoreNewWordsSound, ForceRebuildSound DEF PoolNext
<1>3. CASE AnswerNext
  BY <1>3, AnswerNextSound
<1>4. CASE DictionaryNext
  BY <1>4, DictionaryNextSound
<1>5. CASE UNCHANGED vars
  BY <1>5 DEF vars, IInv, Sound, SoundAnswer, UniqueIds, UniquePositions, SamePosition,
              Day, Days
<1> QED BY <1>1, <1>2, <1>3, <1>4, <1>5 DEF Next

(***************************************************************************)
(* The database stays sound: typed, finite, without duplicate identifiers  *)
(* or positions, and with a schedulable row for every word, in the table   *)
(* and in every undo snapshot.                                             *)
(***************************************************************************)
THEOREM DatabaseStaysSound == Spec => []IInv
BY InitSound, NextSound, PTL DEF Spec

(***************************************************************************)
(* Every request keeps the tables well typed: counters are never negative, *)
(* cards, rows and answers are of the shapes the code writes.              *)
(***************************************************************************)
THEOREM TypeCorrect == Spec => []TypeOK
<1>1. IInv => TypeOK
  BY DEF IInv, Sound, TypeOK
<1> QED BY <1>1, DatabaseStaysSound, PTL

(***************************************************************************)
(* No sequence of answers, undos, pool requests and dictionary changes     *)
(* leaves a word that neither due query would ever find and that is not    *)
(* known (ApplyReviewOutcome and UndoLastAnswer against                    *)
(* ListDueWithinWindow).                                                   *)
(***************************************************************************)
THEOREM RowsStaySchedulable == Spec => []EveryRowSchedulable
<1>1. IInv => EveryRowSchedulable
  BY DEF IInv, Sound, EveryRowSchedulable
<1> QED BY <1>1, DatabaseStaysSound, PTL

(***************************************************************************)
(* No two cards ever hold the same position: an ordinal that               *)
(* GetLastOrdinal gives is free, and an undo that meets a taken position   *)
(* stops before it (AppendPoolItem, GetLastOrdinal, UndoLastAnswer).       *)
(***************************************************************************)
THEOREM PositionsStayUnique == Spec => []PositionsAreUnique
<1>1. IInv => PositionsAreUnique
  BY DEF IInv, Sound, UniquePositions, PositionsAreUnique
<1> QED BY <1>1, DatabaseStaysSound, PTL

---------------------------------------------------------------------------
(* The counters of the pools *)

(***************************************************************************)
(* What keeps the counters: an append goes to an open pool, since opening  *)
(* a pool resets its counters, and an undo counts the cards it brings back *)
(* on the day of the card it reopens, so these must be new cards of that   *)
(* day.  An answer is no older than its card, and the undo of a card of    *)
(* today no older than the answer: the cards it trimmed are of today.      *)
(***************************************************************************)
Matches(counter, type, n) ==
  IF type \in {"review", "weak"} THEN counter = n ELSE counter <= n

Counted(d, today) ==
  \A day \in today..MaxDay, type \in ItemTypes :
    Matches(d.pools[day].counts[type], type, Cardinality(ItemsOf(d.items, day, type)))

NoFutureCards(d, today) == \A i \in d.items : i.day <= today

ClosedPoolsAreEmpty(d) == \A day \in Days : ~d.pools[day].open => PoolItems(d, day) = {}

Remembers(a, i, today) ==
  i.id = a.item /\ \A x \in a.deleted : x.type = "new" /\ i.day <= x.day /\ x.day <= today

SnapshotsRemember(d, today) == \A a \in d.answers : \E i \in d.items : Remembers(a, i, today)

Coherent(d, today) ==
  /\ Sound(d)
  /\ Counted(d, today)
  /\ NoFutureCards(d, today)
  /\ ClosedPoolsAreEmpty(d)
  /\ SnapshotsRemember(d, today)

CountersInv == now \in Nat /\ Day(now) \in Days /\ Coherent(db, Day(now))

(***************************************************************************)
(* Counting cards by day and type.                                         *)
(***************************************************************************)
LEMMA CardsAreCounted ==
  ASSUME NEW S, IsFiniteSet(S), NEW day, NEW type
  PROVE  IsFiniteSet(ItemsOf(S, day, type)) /\ Cardinality(ItemsOf(S, day, type)) \in Nat
BY FS_Subset, FS_CardinalityType DEF ItemsOf

LEMMA CardsAdd ==
  ASSUME NEW S, IsFiniteSet(S), NEW T, IsFiniteSet(T), S \cap T = {}, NEW day, NEW type
  PROVE  Cardinality(ItemsOf(S \cup T, day, type)) =
           Cardinality(ItemsOf(S, day, type)) + Cardinality(ItemsOf(T, day, type))
<1> DEFINE A == ItemsOf(S, day, type)
           B == ItemsOf(T, day, type)
<1>1. ItemsOf(S \cup T, day, type) = A \cup B /\ A \cap B = {}
  BY DEF ItemsOf
<1>2. /\ IsFiniteSet(A) /\ Cardinality(A) \in Nat
      /\ IsFiniteSet(B) /\ Cardinality(B) \in Nat
  BY CardsAreCounted
<1> HIDE DEF A, B
<1>3. Cardinality(A \cap B) = 0
  BY <1>1, FS_EmptySet
<1>4. Cardinality(A \cup B) = Cardinality(A) + Cardinality(B) - Cardinality(A \cap B)
  BY <1>2, FS_Union
<1>5. Cardinality(A \cup B) = Cardinality(A) + Cardinality(B)
  BY <1>2, <1>3, <1>4
<1> QED BY <1>1, <1>5 DEF A, B

(***************************************************************************)
(* Cards that are replaced one by one by cards of the same day and type    *)
(* are as many.                                                            *)
(***************************************************************************)
LEMMA CardsReplaced ==
  ASSUME NEW S, IsFiniteSet(S), NEW X, NEW f \in [S -> X],
         \A j \in X : \E i \in S : f[i] = j,
         \A i, j \in S : f[i] = f[j] => i = j,
         \A i \in S : f[i].day = i.day /\ f[i].type = i.type,
         NEW day, NEW type
  PROVE  Cardinality(ItemsOf(X, day, type)) = Cardinality(ItemsOf(S, day, type))
<1> DEFINE A == ItemsOf(S, day, type)
           B == ItemsOf(X, day, type)
           g == [i \in A |-> f[i]]
<1>1. g \in [A -> B] /\ \A i, j \in A : g[i] = g[j] => i = j
  BY DEF ItemsOf
<1>2. \A j \in B : \E i \in A : g[i] = j
  BY DEF ItemsOf
<1>3. IsFiniteSet(A)
  BY CardsAreCounted
<1> HIDE DEF A, B, g
<1>4. g \in Bijection(A, B)
  BY <1>1, <1>2 DEF Bijection, Injection, Surjection, IsInjective
<1>5. Cardinality(A) = Cardinality(B)
  BY <1>3, <1>4, FS_Bijection DEF ExistsBijection
<1> QED BY <1>5 DEF A, B

(***************************************************************************)
(* Counters and cards grow and shrink together.                            *)
(***************************************************************************)
LEMMA MatchesGrow ==
  ASSUME NEW counter \in Nat, NEW n \in Nat, NEW by \in Nat, NEW k \in Nat, NEW type,
         Matches(counter, type, n), Matches(by, type, k)
  PROVE  Matches(counter + by, type, n + k)
BY DEF Matches

LEMMA MatchesShrink ==
  ASSUME NEW counter \in Nat, NEW n \in Nat, NEW k \in Nat, NEW type,
         Matches(counter, type, n + k)
  PROVE  Matches(Less(counter, k), type, n)
BY DEF Matches, Less

(***************************************************************************)
(* A database whose cards have been replaced one by one by cards of the    *)
(* same identity, day and type.                                            *)
(***************************************************************************)
LEMMA ReplacedCoherent ==
  ASSUME NEW today \in Days, NEW d, Coherent(d, today), NEW X, NEW f \in [d.items -> X],
         \A j \in X : \E i \in d.items : f[i] = j,
         \A i \in d.items : f[i].id = i.id /\ f[i].day = i.day /\ f[i].type = i.type,
         NEW e, Sound(e), e.items = X, e.pools = d.pools, e.answers \subseteq d.answers
  PROVE  Coherent(e, today)
<1>1. Sound(d) /\ IsFiniteSet(d.items)
  BY DEF Coherent, Sound
<1>2. \A i, j \in d.items : f[i] = f[j] => i = j
  BY <1>1 DEF Sound, UniqueIds
<1>3. Counted(e, today)
  <2>1. \A day, type : Cardinality(ItemsOf(e.items, day, type)) = Cardinality(ItemsOf(d.items, day, type))
    BY <1>1, <1>2, CardsReplaced
  <2> QED BY <2>1 DEF Coherent, Counted
<1>4. NoFutureCards(e, today)
  BY DEF Coherent, NoFutureCards
<1>5. ClosedPoolsAreEmpty(e)
  BY DEF Coherent, ClosedPoolsAreEmpty, PoolItems
<1>6. SnapshotsRemember(e, today)
  BY DEF Coherent, SnapshotsRemember, Remembers
<1> QED BY <1>3, <1>4, <1>5, <1>6 DEF Coherent

(***************************************************************************)
(* Cards that are added to open pools, with as much added to the counters. *)
(***************************************************************************)
LEMMA CountersAreNat ==
  ASSUME NEW d, Sound(d), NEW day \in Days, NEW type \in ItemTypes
  PROVE  d.pools[day].counts[type] \in Nat
BY DEF Sound, DB, Pool, Counts

LEMMA AddedCoherent ==
  ASSUME NEW today \in Days, NEW d, Coherent(d, today),
         NEW new \in SUBSET Item, IsFiniteSet(new), new \cap d.items = {},
         \A i \in new : i.day <= today /\ d.pools[i.day].open,
         NEW e, Sound(e), e.items = d.items \cup new, e.answers = d.answers,
         \A day \in Days : e.pools[day].open = d.pools[day].open,
         \A day \in Days, type \in ItemTypes : \E by \in Nat :
           /\ e.pools[day].counts[type] = d.pools[day].counts[type] + by
           /\ Matches(by, type, Cardinality(ItemsOf(new, day, type)))
  PROVE  Coherent(e, today)
<1>1. Sound(d) /\ IsFiniteSet(d.items) /\ today..MaxDay \subseteq Days
  BY DailyAssumption DEF Coherent, Sound, Days
<1>2. Counted(e, today)
  <2> SUFFICES ASSUME NEW day \in today..MaxDay, NEW type \in ItemTypes
               PROVE  Matches(e.pools[day].counts[type], type, Cardinality(ItemsOf(e.items, day, type)))
    BY DEF Counted
  <2>1. day \in Days
    BY <1>1
  <2>2. PICK by \in Nat : /\ e.pools[day].counts[type] = d.pools[day].counts[type] + by
                          /\ Matches(by, type, Cardinality(ItemsOf(new, day, type)))
    BY <2>1
  <2>3. Matches(d.pools[day].counts[type], type, Cardinality(ItemsOf(d.items, day, type)))
    BY DEF Coherent, Counted
  <2>4. Cardinality(ItemsOf(e.items, day, type)) =
          Cardinality(ItemsOf(d.items, day, type)) + Cardinality(ItemsOf(new, day, type))
    BY <1>1, CardsAdd
  <2>5. /\ Cardinality(ItemsOf(d.items, day, type)) \in Nat /\ Cardinality(ItemsOf(new, day, type)) \in Nat
        /\ d.pools[day].counts[type] \in Nat
    BY <1>1, <2>1, CardsAreCounted, CountersAreNat
  <2>6. Matches(d.pools[day].counts[type] + by, type,
                Cardinality(ItemsOf(d.items, day, type)) + Cardinality(ItemsOf(new, day, type)))
    BY <2>2, <2>3, <2>5, MatchesGrow
  <2> QED BY <2>2, <2>4, <2>6
<1>3. NoFutureCards(e, today)
  BY DEF Coherent, NoFutureCards
<1>4. ClosedPoolsAreEmpty(e)
  BY DEF Coherent, ClosedPoolsAreEmpty, PoolItems
<1>5. SnapshotsRemember(e, today)
  BY DEF Coherent, SnapshotsRemember
<1> QED BY <1>2, <1>3, <1>4, <1>5 DEF Coherent

(***************************************************************************)
(* Cards that are removed with the answers that name them: everything but  *)
(* the counters stays as it should be, and the cards are as many fewer.    *)
(***************************************************************************)
LEMMA RemovedKeeps ==
  ASSUME NEW today, NEW d, Coherent(d, today), NEW dead \in SUBSET d.items,
         NEW e, e = RemoveItems(d, dead)
  PROVE  /\ Sound(e) /\ e.pools = d.pools /\ e.items = d.items \ dead
         /\ NoFutureCards(e, today) /\ ClosedPoolsAreEmpty(e) /\ SnapshotsRemember(e, today)
         /\ \A day, type :
              /\ Cardinality(ItemsOf(e.items, day, type)) \in Nat
              /\ Cardinality(ItemsOf(dead, day, type)) \in Nat
              /\ Cardinality(ItemsOf(d.items, day, type)) =
                   Cardinality(ItemsOf(e.items, day, type)) + Cardinality(ItemsOf(dead, day, type))
<1>1. Sound(d) /\ IsFiniteSet(d.items) /\ d \in DB
  BY DEF Coherent, Sound
<1>2. Sound(e) /\ e.pools = d.pools
  BY <1>1, RemoveItemsSound
<1>3. e.items = d.items \ dead /\ e.answers = {a \in d.answers : \A i \in dead : i.id # a.item}
  BY <1>1 DEF RemoveItems, DB
<1>4. NoFutureCards(e, today)
  BY <1>3 DEF Coherent, NoFutureCards
<1>5. ClosedPoolsAreEmpty(e)
  BY <1>2, <1>3 DEF Coherent, ClosedPoolsAreEmpty, PoolItems
<1>6. SnapshotsRemember(e, today)
  <2> SUFFICES ASSUME NEW a \in e.answers PROVE \E i \in e.items : Remembers(a, i, today)
    BY DEF SnapshotsRemember
  <2>1. PICK i \in d.items : Remembers(a, i, today)
    BY <1>3 DEF Coherent, SnapshotsRemember
  <2>2. i \notin dead
    BY <1>3, <2>1 DEF Remembers
  <2> QED BY <1>3, <2>1, <2>2
<1>7. ASSUME NEW day, NEW type
      PROVE  /\ Cardinality(ItemsOf(e.items, day, type)) \in Nat
             /\ Cardinality(ItemsOf(dead, day, type)) \in Nat
             /\ Cardinality(ItemsOf(d.items, day, type)) =
                  Cardinality(ItemsOf(e.items, day, type)) + Cardinality(ItemsOf(dead, day, type))
  <2>1. IsFiniteSet(dead) /\ IsFiniteSet(e.items)
    BY <1>1, <1>2, FS_Subset DEF Sound
  <2>2. d.items = e.items \cup dead /\ e.items \cap dead = {}
    BY <1>3
  <2> QED BY <2>1, <2>2, CardsAdd, CardsAreCounted
<1> QED BY <1>2, <1>3, <1>4, <1>5, <1>6, <1>7

(***************************************************************************)
(* What a request does to the pools and the completed cards: an open pool  *)
(* stays open, and a completed card stays.                                 *)
(***************************************************************************)
Answered(d, id, day) == \E j \in d.items : j.id = id /\ j.day = day /\ ~Pending(j)

Continues(d, e) ==
  /\ \A day \in Days : d.pools[day].open => e.pools[day].open
  /\ \A id, day : Answered(d, id, day) => Answered(e, id, day)

LEMMA DeleteCoherent ==
  ASSUME NEW today \in Days, NEW d, Coherent(d, today), NEW dead \in SUBSET d.items
  PROVE  /\ Coherent(DeletePoolItems(d, dead), today)
         /\ DeletePoolItems(d, dead).items = d.items \ dead
         /\ \A day \in Days : DeletePoolItems(d, dead).pools[day].open = d.pools[day].open
<1> DEFINE e == RemoveItems(d, dead)
           counts(day) == [type \in ItemTypes |->
             Less(d.pools[day].counts[type], Cardinality(ItemsOf(dead, day, type)))]
           pools == [day \in Days |-> [d.pools[day] EXCEPT !.counts = counts(day)]]
           g == [e EXCEPT !.pools = pools]
<1>1. Sound(d) /\ today..MaxDay \subseteq Days
  BY DailyAssumption DEF Coherent, Days
<1>2. DeletePoolItems(d, dead) = g
  BY DEF DeletePoolItems
<1>3. Sound(g)
  <2>1. IsFiniteSet(dead)
    BY <1>1, FS_Subset DEF Sound
  <2> HIDE DEF g
  <2> QED BY <1>1, <1>2, <2>1, DeletePoolItemsSound
<1>4. /\ Sound(e) /\ e.pools = d.pools /\ e.items = d.items \ dead
      /\ NoFutureCards(e, today) /\ ClosedPoolsAreEmpty(e) /\ SnapshotsRemember(e, today)
      /\ \A day, type :
           /\ Cardinality(ItemsOf(e.items, day, type)) \in Nat
           /\ Cardinality(ItemsOf(dead, day, type)) \in Nat
           /\ Cardinality(ItemsOf(d.items, day, type)) =
                Cardinality(ItemsOf(e.items, day, type)) + Cardinality(ItemsOf(dead, day, type))
  BY RemovedKeeps
<1>5. /\ \A day \in Days : pools[day].open = d.pools[day].open
      /\ \A day \in Days, type \in ItemTypes :
           pools[day].counts[type] = Less(d.pools[day].counts[type], Cardinality(ItemsOf(dead, day, type)))
  <2>1. d.pools \in [Days -> Pool]
    BY <1>1 DEF Sound, DB
  <2>2. \A day \in Days : d.pools[day] \in Pool /\ pools[day] = [d.pools[day] EXCEPT !.counts = counts(day)]
    BY <2>1
  <2>3. \A day \in Days : pools[day].open = d.pools[day].open /\ pools[day].counts = counts(day)
    <3> HIDE DEF pools, counts
    <3> QED BY <2>2 DEF Pool
  <2>4. \A day \in Days, type \in ItemTypes :
          counts(day)[type] = Less(d.pools[day].counts[type], Cardinality(ItemsOf(dead, day, type)))
    OBVIOUS
  <2> HIDE DEF pools, counts
  <2> QED BY <2>3, <2>4
<1> HIDE DEF pools, e
<1>6. g.items = e.items /\ g.answers = e.answers /\ g.pools = pools
  BY <1>4 DEF Sound, DB
<1> HIDE DEF g
<1>7. Counted(g, today)
  <2> SUFFICES ASSUME NEW day \in today..MaxDay, NEW type \in ItemTypes
               PROVE  Matches(g.pools[day].counts[type], type, Cardinality(ItemsOf(g.items, day, type)))
    BY DEF Counted
  <2>1. day \in Days /\ d.pools[day].counts[type] \in Nat
    BY <1>1, CountersAreNat
  <2>2. Matches(d.pools[day].counts[type], type, Cardinality(ItemsOf(d.items, day, type)))
    BY DEF Coherent, Counted
  <2>3. Matches(d.pools[day].counts[type], type,
                Cardinality(ItemsOf(e.items, day, type)) + Cardinality(ItemsOf(dead, day, type)))
    BY <1>4, <2>2
  <2>4. Matches(Less(d.pools[day].counts[type], Cardinality(ItemsOf(dead, day, type))), type,
                Cardinality(ItemsOf(e.items, day, type)))
    BY <1>4, <2>1, <2>3, MatchesShrink
  <2> QED BY <1>5, <1>6, <2>1, <2>4
<1>8. NoFutureCards(g, today) /\ ClosedPoolsAreEmpty(g) /\ SnapshotsRemember(g, today)
  BY <1>4, <1>5, <1>6 DEF NoFutureCards, ClosedPoolsAreEmpty, PoolItems, SnapshotsRemember
<1> QED BY <1>2, <1>3, <1>4, <1>5, <1>6, <1>7, <1>8 DEF Coherent

LEMMA IncrementedCounts ==
  ASSUME NEW d, Sound(d), NEW day \in Days, NEW by \in Counts, NEW e, e = IncrementCounts(d, day, by)
  PROVE  /\ Sound(e) /\ e.items = d.items /\ e.answers = d.answers
         /\ \A y \in Days : e.pools[y].open = d.pools[y].open
         /\ \A y \in Days, type \in ItemTypes :
              e.pools[y].counts[type] = d.pools[y].counts[type] + (IF y = day THEN by[type] ELSE 0)
<1> DEFINE counts == [type \in ItemTypes |-> d.pools[day].counts[type] + by[type]]
           pools == [d.pools EXCEPT ![day].counts = counts]
<1>1. Sound(e) /\ e.items = d.items
  BY IncrementCountsSound
<1>2. e = [d EXCEPT !.pools = pools] /\ d.pools \in [Days -> Pool]
  BY DEF IncrementCounts, Sound, DB
<1>3. e.answers = d.answers /\ e.pools = pools
  <2> HIDE DEF pools
  <2> QED BY <1>2 DEF Sound, DB
<1>4. \A type \in ItemTypes : counts[type] = d.pools[day].counts[type] + by[type]
  OBVIOUS
<1> HIDE DEF counts
<1>5. \A y \in Days : /\ pools[y].open = d.pools[y].open
                      /\ pools[y].counts = IF y = day THEN counts ELSE d.pools[y].counts
  BY <1>2 DEF Pool
<1> HIDE DEF pools
<1>6. \A y \in Days, type \in ItemTypes : d.pools[y].counts[type] + 0 = d.pools[y].counts[type]
  <2>1. \A n \in Nat : n + 0 = n
    OBVIOUS
  <2> QED BY <2>1, CountersAreNat
<1> QED BY <1>1, <1>3, <1>4, <1>5, <1>6

(***************************************************************************)
(* An append adds a card of its own for each card it is given.             *)
(***************************************************************************)
LEMMA AppendedCards ==
  ASSUME NEW d, Sound(d), NEW day \in Days, NEW cards \in SUBSET Card, IsFiniteSet(cards)
  PROVE  \E new \in SUBSET Item :
           /\ IsFiniteSet(new) /\ new \cap d.items = {} /\ \A i \in new : i.day = day
           /\ AppendPoolItems(d, day, cards) = [d EXCEPT !.items = d.items \cup new]
           /\ \A type \in ItemTypes : Cardinality(ItemsOf(new, day, type)) = CardCounts(cards)[type]
<1> DEFINE number == Numbering(cards)
           lastId == LastId(d)
           lastOrd == GetLastOrdinal(d, day)
           item(c) == [id |-> lastId + number[c], day |-> day, word |-> c.word,
                       type |-> c.type, bonus |-> c.bonus, due |-> c.due,
                       ord |-> lastOrd + number[c], done |-> 0]
           itemOf == [c \in cards |-> item(c)]
           new == {item(c) : c \in cards}
<1>1. number \in [cards -> Nat \ {0}] /\ \A b, c \in cards : number[b] = number[c] => b = c
  BY NumberingNumbers
<1>2. lastId \in Nat /\ \A i \in d.items : i.id \in Nat /\ i.id <= lastId
  BY LastIdIsUpper DEF Sound, DB, Item
<1>3. lastOrd \in Nat
  BY LastOrdinalIsUpper
<1>4. AppendPoolItems(d, day, cards) = [d EXCEPT !.items = d.items \cup new]
  BY DEF AppendPoolItems, Sound, DB
<1> HIDE DEF number, lastId, lastOrd
<1>5. \A c \in cards : item(c) \in Item /\ item(c).day = day /\ item(c).type = c.type /\ item(c).id > lastId
  BY <1>1, <1>2, <1>3 DEF Item, Card
<1>6. \A b, c \in cards : item(b) = item(c) => b = c
  <2> SUFFICES ASSUME NEW b \in cards, NEW c \in cards, item(b).id = item(c).id PROVE b = c
    OBVIOUS
  <2>1. number[b] = number[c]
    BY <1>1, <1>2
  <2> QED BY <1>1, <2>1
<1>7. IsFiniteSet(new)
  <2>1. new = {itemOf[c] : c \in cards}
    OBVIOUS
  <2> HIDE DEF new, itemOf
  <2> QED BY <2>1, ImageIsFinite
<1>8. new \in SUBSET Item /\ \A i \in new : i.day = day
  BY <1>5
<1>9. new \cap d.items = {}
  BY <1>2, <1>5
<1>10. ASSUME NEW type \in ItemTypes
       PROVE  Cardinality(ItemsOf(new, day, type)) = CardCounts(cards)[type]
  <2> DEFINE A == {c \in cards : c.type = type}
             B == ItemsOf(new, day, type)
             g == [c \in A |-> item(c)]
  <2> HIDE DEF item
  <2>1. g \in [A -> B] /\ \A b, c \in A : g[b] = g[c] => b = c
    BY <1>5, <1>6 DEF ItemsOf
  <2>2. \A i \in B : \E c \in A : g[c] = i
    BY <1>5 DEF ItemsOf
  <2>3. IsFiniteSet(A)
    BY FS_Subset
  <2> HIDE DEF A, B, g
  <2>4. g \in Bijection(A, B)
    BY <2>1, <2>2 DEF Bijection, Injection, Surjection, IsInjective
  <2>5. Cardinality(A) = Cardinality(B)
    BY <2>3, <2>4, FS_Bijection DEF ExistsBijection
  <2> QED BY <2>5 DEF A, B, CardCounts
<1> HIDE DEF new
<1> QED BY <1>4, <1>7, <1>8, <1>9, <1>10

LEMMA NoCardsOfOtherDays ==
  ASSUME NEW S, NEW day, \A i \in S : i.day = day, NEW y, y # day, NEW type
  PROVE  Cardinality(ItemsOf(S, y, type)) = 0
<1>1. ItemsOf(S, y, type) = {}
  BY DEF ItemsOf
<1> QED BY <1>1, FS_EmptySet

LEMMA AppendCountedCoherent ==
  ASSUME NEW today \in Days, NEW d, Coherent(d, today), d.pools[today].open,
         NEW cards \in SUBSET Card, IsFiniteSet(cards),
         NEW e, e = AppendCounted(d, today, cards)
  PROVE  Coherent(e, today) /\ Continues(d, e)
<1>1. Sound(d) /\ today \in Nat
  BY DEF Coherent, Days
<1>2. PICK new \in SUBSET Item :
        /\ IsFiniteSet(new) /\ new \cap d.items = {} /\ \A i \in new : i.day = today
        /\ AppendPoolItems(d, today, cards) = [d EXCEPT !.items = d.items \cup new]
        /\ \A type \in ItemTypes : Cardinality(ItemsOf(new, today, type)) = CardCounts(cards)[type]
  BY <1>1, AppendedCards
<1> DEFINE f == AppendPoolItems(d, today, cards)
           by == CardCounts(cards)
<1>3. /\ f.items = d.items \cup new /\ f.pools = d.pools /\ f.answers = d.answers
      /\ Sound(f)
  BY <1>1, <1>2, AppendPoolItemsSound DEF Sound, DB
<1>4. by \in Counts /\ e = IncrementCounts(f, today, by)
  BY CardCountsType DEF AppendCounted
<1> HIDE DEF f, by
<1>5. /\ Sound(e) /\ e.items = d.items \cup new /\ e.answers = d.answers
      /\ \A y \in Days : e.pools[y].open = d.pools[y].open
      /\ \A y \in Days, type \in ItemTypes :
           e.pools[y].counts[type] = d.pools[y].counts[type] + (IF y = today THEN by[type] ELSE 0)
  BY <1>3, <1>4, IncrementedCounts
<1>6. ASSUME NEW y \in Days, NEW type \in ItemTypes
      PROVE  \E k \in Nat : /\ e.pools[y].counts[type] = d.pools[y].counts[type] + k
                            /\ Matches(k, type, Cardinality(ItemsOf(new, y, type)))
  <2>1. PICK k \in Nat : k = IF y = today THEN by[type] ELSE 0
    BY <1>4 DEF Counts
  <2>2. Cardinality(ItemsOf(new, y, type)) = k
    BY <1>2, <2>1, NoCardsOfOtherDays DEF by
  <2>3. Matches(k, type, k)
    BY DEF Matches
  <2> QED BY <1>5, <2>1, <2>2, <2>3
<1>7. \A i \in new : i.day <= today /\ d.pools[i.day].open
  BY <1>1, <1>2
<1>8. Coherent(e, today)
  BY <1>2, <1>5, <1>6, <1>7, AddedCoherent
<1> QED BY <1>5, <1>8 DEF Continues, Answered

\* A same-day follow-up is not counted.
LEMMA AppendUncountedCoherent ==
  ASSUME NEW today \in Days, NEW d, Coherent(d, today), d.pools[today].open,
         NEW cards \in SUBSET Card, IsFiniteSet(cards), \A c \in cards : c.type = "short_term",
         NEW e, e = AppendPoolItems(d, today, cards)
  PROVE  Coherent(e, today) /\ Continues(d, e)
<1>1. Sound(d) /\ today \in Nat
  BY DEF Coherent, Days
<1>2. PICK new \in SUBSET Item :
        /\ IsFiniteSet(new) /\ new \cap d.items = {} /\ \A i \in new : i.day = today
        /\ AppendPoolItems(d, today, cards) = [d EXCEPT !.items = d.items \cup new]
        /\ \A type \in ItemTypes : Cardinality(ItemsOf(new, today, type)) = CardCounts(cards)[type]
  BY <1>1, AppendedCards
<1>3. Sound(e) /\ e.items = d.items \cup new /\ e.pools = d.pools /\ e.answers = d.answers
  BY <1>1, <1>2, AppendPoolItemsSound DEF Sound, DB
<1>4. ASSUME NEW y \in Days, NEW type \in ItemTypes
      PROVE  Matches(0, type, Cardinality(ItemsOf(new, y, type)))
  <2>1. Cardinality(ItemsOf(new, y, type)) \in Nat
    BY <1>2, CardsAreCounted
  <2>2. CASE y # today
    <3>1. \A i \in new : i.day = today
      BY <1>2
    <3>2. Cardinality(ItemsOf(new, y, type)) = 0
      BY <2>2, <3>1, NoCardsOfOtherDays, Zenon
    <3> QED BY <3>2 DEF Matches
  <2>3. CASE y = today /\ type # "short_term"
    <3>1. {c \in cards : c.type = type} = {}
      BY <2>3
    <3>2. CardCounts(cards)[type] = 0
      BY <3>1, FS_EmptySet DEF CardCounts
    <3> QED BY <1>2, <2>3, <3>2 DEF Matches
  <2>4. CASE type = "short_term"
    BY <2>1, <2>4 DEF Matches
  <2> QED BY <2>2, <2>3, <2>4
<1>5. ASSUME NEW y \in Days, NEW type \in ItemTypes
      PROVE  \E k \in Nat : /\ e.pools[y].counts[type] = d.pools[y].counts[type] + k
                            /\ Matches(k, type, Cardinality(ItemsOf(new, y, type)))
  <2>1. d.pools[y].counts[type] = d.pools[y].counts[type] + 0
    <3>1. \A n \in Nat : n = n + 0
      OBVIOUS
    <3> QED BY <1>1, <3>1, CountersAreNat
  <2> QED BY <1>3, <1>4, <2>1
<1>6. \A i \in new : i.day <= today /\ d.pools[i.day].open
  BY <1>1, <1>2
<1>7. Sound(e) /\ e.items = d.items \cup new /\ e.answers = d.answers
      /\ \A y \in Days : e.pools[y].open = d.pools[y].open
  BY <1>3
<1>8. IsFiniteSet(new) /\ new \cap d.items = {}
  BY <1>2
<1>9. Coherent(e, today)
  BY <1>5, <1>6, <1>7, <1>8, AddedCoherent
<1> QED BY <1>7, <1>9 DEF Continues, Answered

LEMMA ContinuesItself == ASSUME NEW d PROVE Continues(d, d)
BY DEF Continues

LEMMA ContinuesThrough ==
  ASSUME NEW d, NEW e, NEW f, Continues(d, e), Continues(e, f)
  PROVE  Continues(d, f)
BY DEF Continues

LEMMA UpsertCoherent ==
  ASSUME NEW today \in Days, NEW d, Coherent(d, today),
         NEW w \in Words, NEW row \in StateRow, Schedulable(row),
         NEW e, e = UpsertState(d, w, row)
  PROVE  Coherent(e, today) /\ Continues(d, e) /\ e.items = d.items /\ e.pools = d.pools
           /\ e.answers = d.answers
<1>1. Sound(e) /\ e.items = d.items /\ e.pools = d.pools /\ e.answers = d.answers
  BY UpsertStateSound DEF Coherent, UpsertState, Sound, DB
<1> QED BY <1>1 DEF Coherent, Counted, NoFutureCards, ClosedPoolsAreEmpty, PoolItems,
                    SnapshotsRemember, Continues, Answered

(***************************************************************************)
(* Completing a card, and reading the rows into the pending ones, replace  *)
(* cards by cards of the same identity, day and type.                      *)
(***************************************************************************)
LEMMA MarkCoherent ==
  ASSUME NEW today \in Days, NEW d, Coherent(d, today), NEW item \in d.items,
         NEW e, e = MarkPoolItemCompleted(d, item)
  PROVE  Coherent(e, today) /\ Continues(d, e) /\ Answered(e, item.id, item.day)
<1> DEFINE done == [item EXCEPT !.done = LastStamp(d, item.day) + 1]
           f == [i \in d.items |-> IF i = item THEN done ELSE i]
<1>1. Sound(d) /\ item \in Item
  BY DEF Coherent, Sound, DB
<1>2. LastStamp(d, item.day) + 1 \in Nat /\ LastStamp(d, item.day) + 1 # 0
  BY <1>1, LastStampIsUpper
<1>3. done.id = item.id /\ done.day = item.day /\ done.type = item.type /\ ~Pending(done)
  BY <1>1, <1>2 DEF Item, Pending
<1>4. /\ Sound(e) /\ e.items = (d.items \ {item}) \cup {done}
      /\ e.pools = d.pools /\ e.answers = d.answers
  BY <1>1, MarkPoolItemCompletedSound DEF MarkPoolItemCompleted, Sound, DB
<1> HIDE DEF done
<1>5. /\ f \in [d.items -> e.items]
      /\ \A j \in e.items : \E i \in d.items : f[i] = j
      /\ \A i \in d.items : f[i].id = i.id /\ f[i].day = i.day /\ f[i].type = i.type
  BY <1>3, <1>4
<1> HIDE DEF f
<1>6. Coherent(e, today)
  BY <1>4, <1>5, ReplacedCoherent
<1>7. done \in e.items /\ \A i \in d.items : i # item => i \in e.items
  BY <1>4
<1>8. Continues(d, e)
  BY <1>3, <1>4, <1>7 DEF Continues, Answered
<1> QED BY <1>3, <1>6, <1>7, <1>8 DEF Answered

LEMMA SyncCoherent ==
  ASSUME NEW today \in Days, NEW d, Coherent(d, today), NEW t,
         NEW e, e = SyncPendingPoolItems(d, t)
  PROVE  Coherent(e, today) /\ Continues(d, e)
<1> DEFINE synced(i) ==
             IF i.day = Day(t) /\ Pending(i) /\ i.type # "new" /\ HasRow(d, i.word)
             THEN [i EXCEPT !.due = IF i.bonus THEN Null ELSE d.states[i.word].due]
             ELSE i
           f == [i \in d.items |-> synced(i)]
<1>1. Sound(d) /\ Sound(e)
  BY SyncSound DEF Coherent
<1>2. e.items = {synced(i) : i \in d.items} /\ e.pools = d.pools /\ e.answers = d.answers
  BY <1>1 DEF SyncPendingPoolItems, Sound, DB
<1>3. \A i \in d.items : /\ synced(i).id = i.id /\ synced(i).day = i.day /\ synced(i).type = i.type
                         /\ synced(i).done = i.done
  BY <1>1 DEF Sound, DB, Item
<1> HIDE DEF synced
<1>4. /\ f \in [d.items -> e.items]
      /\ \A j \in e.items : \E i \in d.items : f[i] = j
      /\ \A i \in d.items : f[i].id = i.id /\ f[i].day = i.day /\ f[i].type = i.type
  BY <1>2, <1>3
<1>5. \A i \in d.items : synced(i) \in e.items
  BY <1>2
<1> HIDE DEF f
<1>6. Coherent(e, today)
  BY <1>1, <1>2, <1>4, ReplacedCoherent
<1>7. \A id, day : Answered(d, id, day) => Answered(e, id, day)
  BY <1>3, <1>5 DEF Answered, Pending
<1> QED BY <1>2, <1>6, <1>7 DEF Continues

LEMMA RecordAnswerCoherent ==
  ASSUME NEW today \in Days, NEW d, Coherent(d, today), NEW answer \in Answer, SoundAnswer(answer),
         NEW i \in d.items, Remembers(answer, i, today),
         NEW e, e = RecordAnswer(d, answer)
  PROVE  Coherent(e, today)
<1>1. /\ Sound(e) /\ e.items = d.items /\ e.pools = d.pools
      /\ e.answers = {a \in d.answers : a.item # answer.item} \cup {answer}
  BY RecordAnswerSound DEF Coherent, RecordAnswer, Sound, DB
<1>2. SnapshotsRemember(e, today)
  BY <1>1 DEF Coherent, SnapshotsRemember
<1> QED BY <1>1, <1>2 DEF Coherent, Counted, NoFutureCards, ClosedPoolsAreEmpty, PoolItems

(***************************************************************************)
(* The counters of past days, whose pending cards are pruned, are of no    *)
(* interest.                                                               *)
(***************************************************************************)
LEMMA PruneCoherent ==
  ASSUME NEW t \in Nat, Day(t) \in Days, NEW d, Coherent(d, Day(t)),
         NEW e, e = PruneStaleItems(d, t)
  PROVE  Coherent(e, Day(t)) /\ Continues(d, e) /\ e.pools = d.pools
<1> DEFINE dead == {i \in d.items : i.day < Day(t) /\ Pending(i)}
<1>1. dead \in SUBSET d.items /\ e = RemoveItems(d, dead)
  BY DEF PruneStaleItems
<1>2. \A i \in dead : i.day < Day(t) /\ Pending(i)
  OBVIOUS
<1> HIDE DEF dead
<1>3. /\ Sound(e) /\ e.pools = d.pools /\ e.items = d.items \ dead
      /\ NoFutureCards(e, Day(t)) /\ ClosedPoolsAreEmpty(e) /\ SnapshotsRemember(e, Day(t))
  BY <1>1, RemovedKeeps
<1>4. \A day \in Day(t)..MaxDay : \A type : ItemsOf(e.items, day, type) = ItemsOf(d.items, day, type)
  <2>1. \A day \in Day(t)..MaxDay : ~(day < Day(t))
    BY DayIsNat
  <2> QED BY <1>2, <1>3, <2>1 DEF ItemsOf
<1>5. Counted(e, Day(t))
  BY <1>3, <1>4 DEF Coherent, Counted
<1>6. Continues(d, e)
  BY <1>2, <1>3 DEF Continues, Answered
<1> QED BY <1>3, <1>5, <1>6 DEF Coherent

LEMMA ReconcileCoherent ==
  ASSUME NEW t \in Nat, Day(t) \in Days, NEW d, Coherent(d, Day(t)), d.pools[Day(t)].open,
         NEW e, e = ReconcileScheduledPoolItems(d, t)
  PROVE  Coherent(e, Day(t)) /\ Continues(d, e)
<1> DEFINE has(w, type) == \E i \in PoolItems(d, Day(t)) : i.word = w /\ i.type = type
           short == {w \in DueShortTerm(d, t) : ~has(w, "short_term")}
           review == {w \in DueReview(d, t) : ~has(w, "review")}
           missing == ReviewCards(d, short, "short_term") \cup ReviewCards(d, review, "review")
<1>1. short \in SUBSET Words /\ review \in SUBSET Words
  BY DEF DueShortTerm, DueReview
<1>2. e = AppendCounted(d, Day(t), missing)
  BY DEF ReconcileScheduledPoolItems
<1> HIDE DEF short, review
<1>3. missing \in SUBSET Card /\ IsFiniteSet(missing)
  <2>1. "short_term" \in ItemTypes /\ "review" \in ItemTypes
    BY DEF ItemTypes
  <2> QED BY <1>1, <2>1, ReviewCardsAreCards, FS_Union DEF Coherent
<1> HIDE DEF missing
<1> QED BY <1>2, <1>3, AppendCountedCoherent

(***************************************************************************)
(* A pool that is opened has no cards yet, and starts counting at zero.    *)
(***************************************************************************)
LEMMA OpenedCoherent ==
  ASSUME NEW today \in Days, NEW d, Coherent(d, today), ~d.pools[today].open,
         NEW e, e = [d EXCEPT !.pools[today] = [NoPool EXCEPT !.open = TRUE]]
  PROVE  Coherent(e, today) /\ Continues(d, e) /\ e.pools[today].open
<1> DEFINE opened == [NoPool EXCEPT !.open = TRUE]
           pools == [d.pools EXCEPT ![today] = opened]
<1>1. Sound(d) /\ d.pools \in [Days -> Pool] /\ today..MaxDay \subseteq Days
  BY DailyAssumption DEF Coherent, Sound, DB, Days
<1>2. opened \in Pool /\ opened.open /\ \A type \in ItemTypes : opened.counts[type] = 0
  BY DEF NoPool, NoCounts, Pool, Counts
<1> HIDE DEF opened
<1>3. pools \in [Days -> Pool] /\ \A y \in Days : pools[y] = IF y = today THEN opened ELSE d.pools[y]
  BY <1>1, <1>2
<1>4. e = [d EXCEPT !.pools = pools]
  BY <1>1 DEF Sound, DB, opened
<1> HIDE DEF pools
<1>5. Sound(e) /\ e.items = d.items /\ e.pools = pools /\ e.answers = d.answers
  BY <1>1, <1>3, <1>4, ReplacePoolsSound DEF Sound, DB
<1>6. Counted(e, today)
  <2> SUFFICES ASSUME NEW y \in today..MaxDay, NEW type \in ItemTypes
               PROVE  Matches(e.pools[y].counts[type], type, Cardinality(ItemsOf(e.items, y, type)))
    BY DEF Counted
  <2>1. CASE y = today
    <3>1. ItemsOf(e.items, y, type) = {}
      BY <1>5, <2>1 DEF Coherent, ClosedPoolsAreEmpty, PoolItems, ItemsOf
    <3>2. Cardinality(ItemsOf(e.items, y, type)) = 0 /\ e.pools[y].counts[type] = 0
      BY <1>1, <1>2, <1>3, <1>5, <2>1, <3>1, FS_EmptySet
    <3> QED BY <3>2 DEF Matches
  <2>2. CASE y # today
    BY <1>1, <1>3, <1>5, <2>2 DEF Coherent, Counted
  <2> QED BY <2>1, <2>2
<1>7. ClosedPoolsAreEmpty(e)
  BY <1>2, <1>3, <1>5 DEF Coherent, ClosedPoolsAreEmpty, PoolItems
<1>8. NoFutureCards(e, today) /\ SnapshotsRemember(e, today)
  BY <1>5 DEF Coherent, NoFutureCards, SnapshotsRemember
<1> QED BY <1>2, <1>3, <1>5, <1>6, <1>7, <1>8 DEF Coherent, Continues, Answered

LEMMA CreateDailyPoolCoherent ==
  ASSUME NEW t \in Nat, Day(t) \in Days, NEW d, Coherent(d, Day(t)), ~d.pools[Day(t)].open,
         NEW r \in CreateDailyPool(d, t)
  PROVE  Coherent(r.db, Day(t)) /\ Continues(d, r.db) /\ (r.ok => r.db.pools[Day(t)].open)
<1> DEFINE day == Day(t)
           due == DueShortTerm(d, t) \cup DueReview(d, t)
           weaks == Picks({w \in Words \ due : IsWeakCandidate(d.states[w])}, WeakSlots)
           opened == [d EXCEPT !.pools[day] = [NoPool EXCEPT !.open = TRUE]]
           reviews(weak) == ReviewCards(d, DueShortTerm(d, t), "short_term")
                              \cup ReviewCards(d, DueReview(d, t), "review")
                              \cup ReviewCards(d, weak, "weak")
           dealt(weak, new) == AppendCounted(opened, day, reviews(weak) \cup NewCards(new))
           results(weak) ==
             {IF reviews(weak) = {} /\ new = {} /\ NewLimit > 0
              THEN [ok |-> FALSE, db |-> d]
              ELSE [ok |-> TRUE, db |-> dealt(weak, new)] :
                new \in GenerateNewWords(d, day, PrefetchBatchSize)}
<1>1. PICK weak \in weaks : r \in results(weak)
  <2>1. CreateDailyPool(d, t) = UNION {results(weak) : weak \in weaks}
    BY DEF CreateDailyPool
  <2> HIDE DEF results, weaks
  <2> QED BY <2>1
<1> HIDE DEF dealt
<1>2. PICK new \in GenerateNewWords(d, day, PrefetchBatchSize) :
        (r.db = d /\ ~r.ok) \/ r.db = dealt(weak, new)
  BY <1>1
<1> USE DEF dealt
<1>3. weak \in SUBSET Words /\ new \in SUBSET Words /\ Sound(d)
  BY GeneratedAreWords DEF Picks, Coherent
<1>4. /\ DueShortTerm(d, t) \in SUBSET Words /\ DueReview(d, t) \in SUBSET Words
      /\ {"short_term", "review", "weak"} \subseteq ItemTypes
  BY DEF DueShortTerm, DueReview, ItemTypes
<1>5. reviews(weak) \cup NewCards(new) \in SUBSET Card
  BY <1>3, <1>4, ReviewCardsAreCards, NewCardsAreCards
<1>6. IsFiniteSet(reviews(weak) \cup NewCards(new))
  BY <1>3, <1>4, ReviewCardsAreCards, NewCardsAreCards, FS_Union
<1>7. Coherent(opened, day) /\ Continues(d, opened) /\ opened.pools[day].open
  BY OpenedCoherent
<1> HIDE DEF reviews, opened
<1>8. Coherent(dealt(weak, new), day) /\ Continues(opened, dealt(weak, new))
  BY <1>5, <1>6, <1>7, AppendCountedCoherent
<1>9. dealt(weak, new).pools[day].open /\ Continues(d, dealt(weak, new))
  <2> HIDE DEF dealt
  <2> QED BY <1>7, <1>8, ContinuesThrough DEF Continues
<1> HIDE DEF dealt
<1> QED BY <1>2, <1>8, <1>9, ContinuesItself

LEMMA GetOrCreateCoherent ==
  ASSUME NEW t \in Nat, Day(t) \in Days, NEW d, Coherent(d, Day(t)),
         NEW r \in GetOrCreateDailyPool(d, t)
  PROVE  Coherent(r.db, Day(t)) /\ Continues(d, r.db) /\ (r.ok => r.db.pools[Day(t)].open)
<1> DEFINE pruned == PruneStaleItems(d, t)
           reconciled == ReconcileScheduledPoolItems(pruned, t)
           synced == SyncPendingPoolItems(reconciled, t)
<1>1. Coherent(pruned, Day(t)) /\ Continues(d, pruned)
  BY PruneCoherent
<1>2. \/ pruned.pools[Day(t)].open /\ r.db = synced
      \/ ~pruned.pools[Day(t)].open /\ r \in CreateDailyPool(pruned, t)
  BY DEF GetOrCreateDailyPool
<1> HIDE DEF pruned
<1>3. CASE pruned.pools[Day(t)].open /\ r.db = synced
  <2>1. Coherent(reconciled, Day(t)) /\ Continues(pruned, reconciled)
    BY <1>1, <1>3, ReconcileCoherent
  <2> HIDE DEF reconciled
  <2>2. Coherent(synced, Day(t)) /\ Continues(reconciled, synced)
    BY <2>1, SyncCoherent
  <2> HIDE DEF synced
  <2>3. Continues(d, synced) /\ Continues(pruned, synced)
    BY <1>1, <2>1, <2>2, ContinuesThrough
  <2> QED BY <1>3, <2>2, <2>3 DEF Continues
<1>4. CASE ~pruned.pools[Day(t)].open /\ r \in CreateDailyPool(pruned, t)
  <2>1. Coherent(r.db, Day(t)) /\ Continues(pruned, r.db) /\ (r.ok => r.db.pools[Day(t)].open)
    BY <1>1, <1>4, CreateDailyPoolCoherent
  <2> QED BY <1>1, <2>1, ContinuesThrough
<1> QED BY <1>2, <1>3, <1>4

(***************************************************************************)
(* The maintenance of the buffer, which trims new cards of today.          *)
(***************************************************************************)
CoherentMaintained(d, m, today) ==
  /\ Coherent(m.db, today)
  /\ Continues(d, m.db)
  /\ \A x \in m.deleted : x.type = "new" /\ x.day = today

LEMMA ReplenishCoherent ==
  ASSUME NEW t \in Nat, Day(t) \in Days, NEW d, Coherent(d, Day(t)), d.pools[Day(t)].open,
         NEW e \in ReplenishUnknownDailySlots(d, t)
  PROVE  Coherent(e, Day(t)) /\ Continues(d, e)
<1>1. PICK ws \in GenerateNewWords(d, Day(t), PrefetchBatchSize) :
        e = AppendCounted(d, Day(t), NewCards(ws))
  BY DEF ReplenishUnknownDailySlots
<1> QED BY <1>1, GeneratedAreWords, NewCardsAreCards, AppendCountedCoherent

LEMMA ReconcileBufferCoherent ==
  ASSUME NEW t \in Nat, Day(t) \in Days, NEW d, Coherent(d, Day(t)),
         NEW m, m = ReconcileUnknownDailyBuffer(d, t)
  PROVE  CoherentMaintained(d, m, Day(t))
<1> DEFINE trimmed == PendingNew(d, Day(t))
           e == DeletePoolItems(d, trimmed)
<1>1. /\ trimmed \in SUBSET d.items
      /\ \A x \in trimmed : x.type = "new" /\ x.day = Day(t) /\ Pending(x)
  BY DEF PendingNew, ItemsOf
<1>2. m = Maintained(e, {}, trimmed) \/ m = Maintained(d, {}, {})
  BY DEF ReconcileUnknownDailyBuffer
<1> HIDE DEF trimmed
<1>3. /\ Coherent(e, Day(t)) /\ e.items = d.items \ trimmed
      /\ \A day \in Days : e.pools[day].open = d.pools[day].open
  BY <1>1, DeleteCoherent
<1> HIDE DEF e
<1>4. Continues(d, e)
  BY <1>1, <1>3 DEF Continues, Answered
<1> QED BY <1>1, <1>2, <1>3, <1>4, ContinuesItself DEF CoherentMaintained, Maintained

LEMMA MaintainBufferCoherent ==
  ASSUME NEW t \in Nat, Day(t) \in Days, NEW d, Coherent(d, Day(t)),
         NEW m \in MaintainNewWordBuffer(d, t)
  PROVE  CoherentMaintained(d, m, Day(t))
<1>1. PICK r \in GetOrCreateDailyPool(d, t) :
        \/ m = ReconcileUnknownDailyBuffer(r.db, t)
        \/ r.ok /\ \E f \in ReplenishUnknownDailySlots(r.db, t) : m = Maintained(f, NewIds(r.db, f), {})
        \/ m = Maintained(r.db, {}, {})
  <2> DEFINE maintain(e) ==
               {ReconcileUnknownDailyBuffer(e, t)}
                 \cup {Maintained(f, NewIds(e, f), {}) : f \in ReplenishUnknownDailySlots(e, t)}
             outcomes(r) == IF r.ok THEN maintain(r.db) ELSE {Maintained(r.db, {}, {})}
  <2>1. MaintainNewWordBuffer(d, t) = UNION {outcomes(r) : r \in GetOrCreateDailyPool(d, t)}
    BY DEF MaintainNewWordBuffer
  <2> HIDE DEF outcomes
  <2>2. PICK r \in GetOrCreateDailyPool(d, t) : m \in outcomes(r)
    BY <2>1
  <2> USE DEF outcomes
  <2> QED BY <2>2
<1>2. Coherent(r.db, Day(t)) /\ Continues(d, r.db) /\ (r.ok => r.db.pools[Day(t)].open)
  BY GetOrCreateCoherent
<1>3. CASE m = ReconcileUnknownDailyBuffer(r.db, t)
  <2>1. CoherentMaintained(r.db, m, Day(t))
    BY <1>2, <1>3, ReconcileBufferCoherent
  <2> QED BY <1>2, <2>1, ContinuesThrough DEF CoherentMaintained
<1>4. CASE r.ok /\ \E f \in ReplenishUnknownDailySlots(r.db, t) : m = Maintained(f, NewIds(r.db, f), {})
  <2>1. PICK f \in ReplenishUnknownDailySlots(r.db, t) : m = Maintained(f, NewIds(r.db, f), {})
    BY <1>4
  <2>2. Coherent(f, Day(t)) /\ Continues(r.db, f)
    BY <1>2, <1>4, ReplenishCoherent
  <2> QED BY <1>2, <2>1, <2>2, ContinuesThrough DEF CoherentMaintained, Maintained
<1>5. CASE m = Maintained(r.db, {}, {})
  BY <1>2, <1>5 DEF CoherentMaintained, Maintained
<1> QED BY <1>1, <1>3, <1>4, <1>5

LEMMA FollowUpsCoherent ==
  ASSUME NEW t \in Nat, Day(t) \in Days, NEW d, Coherent(d, Day(t)),
         NEW w \in Words, NEW f \in FollowUps(d, w, t)
  PROVE  CoherentMaintained(d, f, Day(t))
<1> DEFINE cards == ReviewCards(d, {w}, "short_term")
           appended == AppendPoolItems(d, Day(t), cards)
<1>1. \/ d.pools[Day(t)].open /\ f = Maintained(appended, NewIds(d, appended), {})
      \/ f = Maintained(d, {}, {})
  BY DEF FollowUps
<1>2. cards \in SUBSET Card /\ IsFiniteSet(cards) /\ \A c \in cards : c.type = "short_term"
  <2>1. {w} \in SUBSET Words /\ "short_term" \in ItemTypes /\ Sound(d)
    BY DEF ItemTypes, Coherent
  <2>2. \A c \in cards : c.type = "short_term"
    BY DEF ReviewCards
  <2> QED BY <2>1, <2>2, ReviewCardsAreCards
<1> HIDE DEF cards
<1>3. d.pools[Day(t)].open => Coherent(appended, Day(t)) /\ Continues(d, appended)
  BY <1>2, AppendUncountedCoherent
<1> HIDE DEF appended
<1> QED BY <1>1, <1>3, ContinuesItself DEF CoherentMaintained, Maintained

---------------------------------------------------------------------------
(* Undo and the counters *)

(***************************************************************************)
(* The trimmed cards come back as cards of today, one for one.             *)
(***************************************************************************)
LEMMA ReinsertedCards ==
  ASSUME NEW d, Sound(d), NEW back \in SUBSET Item, IsFiniteSet(back), UniquePositions(back),
         \A x \in back, j \in d.items : ~SamePosition(x, j),
         NEW today \in Days, \A x \in back : x.type = "new" /\ x.day = today
  PROVE  \E new \in SUBSET Item :
           /\ IsFiniteSet(new) /\ new \cap d.items = {} /\ \A i \in new : i.type = "new" /\ i.day = today
           /\ Reinsert(d, back) = [d EXCEPT !.items = d.items \cup new]
           /\ \A type \in ItemTypes : Cardinality(ItemsOf(new, today, type)) = CardCounts(back)[type]
<1> DEFINE number == Numbering(back)
           lastId == LastId(d)
           renumbered(x) == [x EXCEPT !.id = lastId + number[x]]
           f == [x \in back |-> renumbered(x)]
           new == {renumbered(x) : x \in back}
<1>1. number \in [back -> Nat \ {0}] /\ \A x, y \in back : number[x] = number[y] => x = y
  BY NumberingNumbers
<1>2. lastId \in Nat /\ \A i \in d.items : i.id \in Nat /\ i.id <= lastId
  BY LastIdIsUpper DEF Sound, DB, Item
<1>3. Reinsert(d, back) = [d EXCEPT !.items = d.items \cup new]
  BY DEF Reinsert, Sound, DB
<1> HIDE DEF number, lastId
<1>4. \A x \in back : /\ renumbered(x) \in Item /\ renumbered(x).id = lastId + number[x]
                      /\ renumbered(x).day = x.day /\ renumbered(x).type = x.type
                      /\ renumbered(x).id > lastId
  BY <1>1, <1>2 DEF Item
<1>5. \A x, y \in back : renumbered(x) = renumbered(y) => x = y
  <2> SUFFICES ASSUME NEW x \in back, NEW y \in back, renumbered(x).id = renumbered(y).id PROVE x = y
    OBVIOUS
  <2>1. number[x] = number[y]
    <3> HIDE DEF renumbered
    <3> QED BY <1>1, <1>2, <1>4
  <2> QED BY <1>1, <2>1
<1> HIDE DEF renumbered
<1>6. new \in SUBSET Item /\ new \cap d.items = {} /\ \A i \in new : i.type = "new" /\ i.day = today
  BY <1>2, <1>4
<1>7. f \in [back -> new] /\ (\A j \in new : \E i \in back : f[i] = j) /\ new = {f[x] : x \in back}
  OBVIOUS
<1>8. (\A i, j \in back : f[i] = f[j] => i = j) /\ \A i \in back : f[i].day = i.day /\ f[i].type = i.type
  BY <1>4, <1>5
<1> HIDE DEF f, new
<1>9. IsFiniteSet(new)
  BY <1>7, ImageIsFinite
<1>10. ASSUME NEW type \in ItemTypes
       PROVE  Cardinality(ItemsOf(new, today, type)) = CardCounts(back)[type]
  <2>1. Cardinality(ItemsOf(new, today, type)) = Cardinality(ItemsOf(back, today, type))
    BY <1>7, <1>8, CardsReplaced
  <2>2. ItemsOf(back, today, type) = {c \in back : c.type = type}
    BY DEF ItemsOf
  <2> QED BY <2>1, <2>2 DEF CardCounts
<1> QED BY <1>3, <1>6, <1>9, <1>10

LEMMA ReopenCoherent ==
  ASSUME NEW today \in Days, NEW d, Coherent(d, today), NEW item \in d.items
  PROVE  Coherent(ReopenPoolItem(d, item), today)
<1> DEFINE e == ReopenPoolItem(d, item)
           reopened == [item EXCEPT !.done = 0]
           f == [i \in d.items |-> IF i = item THEN reopened ELSE i]
<1>1. Sound(d) /\ Sound(e) /\ item \in Item
  BY ReopenSound DEF Coherent, Sound, DB
<1>2. /\ e.items = (d.items \ {item}) \cup {reopened} /\ e.pools = d.pools
      /\ e.answers \subseteq d.answers
  BY <1>1 DEF ReopenPoolItem, RemoveItems, Sound, DB
<1>3. reopened.id = item.id /\ reopened.day = item.day /\ reopened.type = item.type
  BY <1>1 DEF Item
<1> HIDE DEF reopened, e
<1>4. /\ f \in [d.items -> e.items]
      /\ \A j \in e.items : \E i \in d.items : f[i] = j
      /\ \A i \in d.items : f[i].id = i.id /\ f[i].day = i.day /\ f[i].type = i.type
  BY <1>2, <1>3
<1> HIDE DEF f
<1>5. Coherent(e, today)
  BY <1>1, <1>2, <1>4, ReplacedCoherent
<1> QED BY <1>5 DEF e

(***************************************************************************)
(* What an undo brings back was trimmed today, since the card it reopens   *)
(* is of today; an undo that stops at a collision counts nothing, and the  *)
(* new counter lags behind the cards.                                      *)
(***************************************************************************)
LEMMA UndoCoherent ==
  ASSUME NEW t \in Nat, Day(t) \in Days, NEW d, Coherent(d, Day(t)),
         NEW a \in d.answers, NEW i \in d.items, CanUndo(d, a, i, t)
  PROVE  Coherent(UndoWrites(d, a, i), Day(t))
<1> DEFINE today == Day(t)
           restored == UpsertState(d, i.word, a.prev)
           dead == {j \in d.items : j.id \in a.created}
           cleared == DeletePoolItems(restored, dead)
           clash == Collisions(cleared, a.deleted)
           back == {x \in a.deleted : \A c \in clash : x.ord < c.ord}
           again == Reinsert(cleared, back)
           counted == IncrementCounts(again, i.day, CardCounts(back))
<1>1. /\ Sound(d) /\ i \in Item /\ i.word \in Words /\ a.prev \in StateRow /\ a.deleted \in SUBSET Item
      /\ today \in Nat
  BY DayIsNat DEF Coherent, Sound, DB, Item, Answer
<1>2. Schedulable(a.prev) /\ IsFiniteSet(a.deleted) /\ UniquePositions(a.deleted)
  BY <1>1 DEF Sound, SoundAnswer
<1>3. a.item = i.id /\ i.day = today /\ d.pools[today].open /\ ~Pending(i)
      /\ \A c \in a.created : \E j \in d.items : j.id = c /\ Pending(j)
  BY DEF CanUndo
<1>4. \A x \in a.deleted : x.type = "new" /\ x.day = today
  <2>1. PICK j \in d.items : Remembers(a, j, today)
    BY DEF Coherent, SnapshotsRemember
  <2>2. j = i
    BY <1>1, <1>3, <2>1 DEF Remembers, Sound, UniqueIds
  <2>3. \A x \in a.deleted : x.type = "new" /\ today <= x.day /\ x.day <= today
    BY <1>3, <2>1, <2>2 DEF Remembers
  <2>4. \A x \in a.deleted : x.day \in Nat
    BY <1>1 DEF Item, Days
  <2> QED BY <1>1, <2>3, <2>4
<1>5. /\ Coherent(restored, today) /\ restored.items = d.items /\ restored.pools = d.pools
  BY <1>1, <1>2, UpsertCoherent
<1>6. i \notin dead /\ dead \in SUBSET d.items
  BY <1>1, <1>3 DEF UniqueIds, Sound
<1> HIDE DEF restored, dead
<1>7. /\ Coherent(cleared, today) /\ cleared.items = d.items \ dead /\ cleared.pools[today].open
  <2>1. dead \in SUBSET restored.items
    BY <1>5, <1>6
  <2> QED BY <1>3, <1>5, <2>1, DeleteCoherent
<1> HIDE DEF cleared
<1>8. back \in SUBSET Item /\ back \subseteq a.deleted
  BY <1>1
<1>9. \A x \in back, j \in cleared.items : ~SamePosition(x, j)
  <2> SUFFICES ASSUME NEW x \in back, NEW j \in cleared.items, SamePosition(x, j) PROVE FALSE
    OBVIOUS
  <2>1. x \in clash /\ x.ord \in Nat
    BY <1>8 DEF Collisions, Item
  <2> QED BY <2>1
<1> HIDE DEF clash, back
<1>10. IsFiniteSet(back) /\ UniquePositions(back) /\ \A x \in back : x.type = "new" /\ x.day = today
  BY <1>2, <1>4, <1>8, FS_Subset DEF UniquePositions
<1>11. PICK new \in SUBSET Item :
         /\ IsFiniteSet(new) /\ new \cap cleared.items = {} /\ \A j \in new : j.type = "new" /\ j.day = today
         /\ again = [cleared EXCEPT !.items = cleared.items \cup new]
         /\ \A type \in ItemTypes : Cardinality(ItemsOf(new, today, type)) = CardCounts(back)[type]
  BY <1>7, <1>8, <1>9, <1>10, ReinsertedCards DEF Coherent
<1>12. /\ Sound(again) /\ again.items = cleared.items \cup new /\ again.answers = cleared.answers
       /\ again.pools = cleared.pools
  BY <1>7, <1>8, <1>9, <1>10, <1>11, ReinsertSound DEF Coherent, Sound, DB
<1>13. IsFiniteSet(new) /\ new \cap cleared.items = {}
       /\ \A j \in new : j.type = "new" /\ j.day = today /\ j.day <= today /\ cleared.pools[j.day].open
  BY <1>1, <1>7, <1>11
<1>14. i \in again.items
  BY <1>6, <1>7, <1>12
<1>15. \A type \in ItemTypes : Cardinality(ItemsOf(new, today, type)) = CardCounts(back)[type]
  BY <1>11
<1>16. PICK counts \in Counts : counts = CardCounts(back)
  BY <1>10, CardCountsType
<1> HIDE DEF again, today
<1>17. Coherent(again, today)
  <2>1. ASSUME NEW y \in Days, NEW type \in ItemTypes
        PROVE  \E by \in Nat : /\ again.pools[y].counts[type] = cleared.pools[y].counts[type] + by
                               /\ Matches(by, type, Cardinality(ItemsOf(new, y, type)))
    <3>1. cleared.pools[y].counts[type] \in Nat
      BY <1>7, CountersAreNat DEF Coherent
    <3>2. again.pools[y].counts[type] = cleared.pools[y].counts[type] + 0
      BY <1>12, <3>1
    <3>3. Cardinality(ItemsOf(new, y, type)) \in Nat
      BY <1>13, CardsAreCounted
    <3>4. type \in {"review", "weak"} => ItemsOf(new, y, type) = {}
      BY <1>13 DEF ItemsOf
    <3>5. type \in {"review", "weak"} => Cardinality(ItemsOf(new, y, type)) = 0
      BY <3>4, FS_EmptySet
    <3>6. Matches(0, type, Cardinality(ItemsOf(new, y, type)))
      BY <3>3, <3>5 DEF Matches
    <3> QED BY <3>2, <3>6
  <2>2. \A y \in Days : again.pools[y].open = cleared.pools[y].open
    BY <1>12
  <2>3. today \in Days
    BY DEF today
  <2> QED BY <1>7, <1>12, <1>13, <2>1, <2>2, <2>3, AddedCoherent
<1>18. Coherent(counted, today) /\ i \in counted.items
  <2>1. today \in Days /\ counted = IncrementCounts(again, today, counts) /\ Sound(again)
    BY <1>3, <1>12, <1>16 DEF today
  <2> HIDE DEF counted
  <2>2. /\ Sound(counted) /\ counted.items = again.items /\ counted.answers = again.answers
        /\ \A y \in Days : counted.pools[y].open = again.pools[y].open
        /\ \A y \in Days, type \in ItemTypes :
             counted.pools[y].counts[type] =
               again.pools[y].counts[type] + (IF y = today THEN counts[type] ELSE 0)
    BY <2>1, IncrementedCounts
  <2>3. /\ counted.items = cleared.items \cup new /\ counted.answers = cleared.answers
        /\ \A y \in Days : counted.pools[y].open = cleared.pools[y].open
    BY <1>12, <2>2
  <2>4. ASSUME NEW y \in Days, NEW type \in ItemTypes
        PROVE  \E by \in Nat : /\ counted.pools[y].counts[type] = cleared.pools[y].counts[type] + by
                               /\ Matches(by, type, Cardinality(ItemsOf(new, y, type)))
    <3>1. PICK by \in Nat : by = IF y = today THEN counts[type] ELSE 0
      BY DEF Counts
    <3>2. \A j \in new : j.day = today
      BY <1>13
    <3>3. y # today => Cardinality(ItemsOf(new, y, type)) = 0
      BY <3>2, NoCardsOfOtherDays, Zenon
    <3>4. Cardinality(ItemsOf(new, y, type)) = by
      BY <1>15, <1>16, <3>1, <3>3
    <3>5. Matches(by, type, Cardinality(ItemsOf(new, y, type)))
      BY <3>4 DEF Matches
    <3> QED BY <1>12, <2>2, <3>1, <3>5
  <2>5. /\ today \in Days /\ Coherent(cleared, today) /\ Sound(counted)
        /\ IsFiniteSet(new) /\ new \cap cleared.items = {}
        /\ \A j \in new : j.day <= today /\ cleared.pools[j.day].open
    BY <1>7, <1>13, <2>1, <2>2
  <2>6. Coherent(counted, today)
    BY <2>3, <2>4, <2>5, AddedCoherent
  <2> QED BY <1>14, <2>2, <2>6
<1>19. UndoWrites(d, a, i) = ReopenPoolItem(counted, i) \/ UndoWrites(d, a, i) = again
  BY DEF UndoWrites, again, back, clash, cleared, dead, restored
<1> HIDE DEF counted
<1>20. Coherent(ReopenPoolItem(counted, i), today)
  BY <1>18, ReopenCoherent DEF today
<1> QED BY <1>17, <1>19, <1>20 DEF today

---------------------------------------------------------------------------
(* Requests and the counters *)

LEMMA DaysPass ==
  ASSUME NEW t \in Nat
  PROVE  Day(t) <= Day(t + 1)
<1>1. DayLen \in Nat /\ DayLen > 0
  BY DailyAssumption
<1>2. PICK a \in Nat : a = t \div DayLen /\ DayLen * a <= t /\ t < DayLen * (a + 1)
  BY <1>1
<1>3. PICK b \in Nat : b = (t + 1) \div DayLen /\ DayLen * b <= t + 1 /\ t + 1 < DayLen * (b + 1)
  BY <1>1
<1>4. ASSUME b < a PROVE FALSE
  <2>1. PICK k \in Nat : a = b + 1 + k
    <3>1. a - b - 1 \in Nat /\ a = b + 1 + (a - b - 1)
      BY <1>4
    <3> QED BY <3>1
  <2>2. DayLen * a = DayLen * (b + 1) + DayLen * k
    BY <1>1, <2>1
  <2>3. DayLen * k \in Nat /\ DayLen * (b + 1) \in Nat
    BY <1>1
  <2> QED BY <1>2, <1>3, <2>2, <2>3
<1>5. a <= b
  BY <1>4
<1> QED BY <1>2, <1>3, <1>5 DEF Day

LEMMA CoherentLater ==
  ASSUME NEW today \in Days, NEW later \in Days, today <= later, NEW d, Coherent(d, today)
  PROVE  Coherent(d, later)
<1>1. today \in Nat /\ later \in Nat /\ Sound(d) /\ MaxDay \in Nat
  BY DailyAssumption DEF Days, Coherent
<1>2. Counted(d, later)
  <2>1. later..MaxDay \subseteq today..MaxDay
    BY <1>1
  <2> QED BY <2>1 DEF Coherent, Counted
<1>3. NoFutureCards(d, later)
  <2>1. \A i \in d.items : i.day \in Nat
    BY <1>1 DEF Sound, DB, Item, Days
  <2> QED BY <1>1, <2>1 DEF Coherent, NoFutureCards
<1>4. SnapshotsRemember(d, later)
  <2> SUFFICES ASSUME NEW a \in d.answers PROVE \E i \in d.items : Remembers(a, i, later)
    BY DEF SnapshotsRemember
  <2>1. PICK i \in d.items : Remembers(a, i, today)
    BY DEF Coherent, SnapshotsRemember
  <2>2. \A x \in a.deleted : x.day \in Nat
    BY <1>1 DEF Sound, DB, Answer, Item, Days
  <2>3. Remembers(a, i, later)
    BY <1>1, <2>1, <2>2 DEF Remembers
  <2> QED BY <2>3
<1> QED BY <1>2, <1>3, <1>4 DEF Coherent

LEMMA CountersInit == Init => CountersInv
<1> SUFFICES ASSUME Init PROVE CountersInv
  OBVIOUS
<1>1. now \in Nat /\ Day(now) \in Days /\ Sound(db) /\ db = EmptyDB
  BY InitSound DEF IInv, Init
<1>2. ASSUME NEW day \in Day(now)..MaxDay, NEW type \in ItemTypes
      PROVE  Matches(db.pools[day].counts[type], type, Cardinality(ItemsOf(db.items, day, type)))
  <2>1. day \in Days
    BY <1>1, DailyAssumption DEF Days
  <2>2. db.pools[day].counts[type] = 0 /\ ItemsOf(db.items, day, type) = {}
    BY <1>1, <2>1 DEF EmptyDB, NoPool, NoCounts, ItemsOf
  <2> QED BY <2>2, FS_EmptySet DEF Matches
<1>3. Counted(db, Day(now))
  BY <1>2 DEF Counted
<1>4. NoFutureCards(db, Day(now)) /\ ClosedPoolsAreEmpty(db) /\ SnapshotsRemember(db, Day(now))
  BY <1>1 DEF EmptyDB, NoFutureCards, ClosedPoolsAreEmpty, PoolItems, SnapshotsRemember
<1> QED BY <1>1, <1>3, <1>4 DEF CountersInv, Coherent

LEMMA CommitCoherent ==
  ASSUME CountersInv, NEW d, Coherent(d, Day(now)), Commit(d)
  PROVE  CountersInv'
<1>1. now' = now /\ db' = d
  BY DEF Commit
<1>2. now' \in Nat /\ Day(now') = Day(now) /\ Day(now') \in Days
  BY <1>1 DEF CountersInv
<1>3. Coherent(db', Day(now'))
  BY <1>1, <1>2
<1> QED BY <1>2, <1>3 DEF CountersInv, Coherent, Sound, SoundAnswer, UniqueIds, UniquePositions,
             SamePosition, Counted, NoFutureCards, ClosedPoolsAreEmpty, PoolItems, ItemsOf,
             SnapshotsRemember, Remembers, Day, Days

LEMMA TickCoherent == CountersInv /\ Tick => CountersInv'
<1> SUFFICES ASSUME CountersInv, Tick PROVE CountersInv'
  OBVIOUS
<1>1. now \in Nat /\ now' = now + 1 /\ db' = db /\ Day(now') <= MaxDay
  BY DEF CountersInv, Tick
<1>2. now' \in Nat /\ Day(now') \in Days /\ Day(now) <= Day(now')
  BY <1>1, DayIsNat, DaysPass, DailyAssumption DEF Days
<1>3. Coherent(db', Day(now'))
  BY <1>1, <1>2, CoherentLater DEF CountersInv
<1> QED BY <1>2, <1>3 DEF CountersInv, Coherent, Sound, SoundAnswer, UniqueIds, UniquePositions,
             SamePosition, Counted, NoFutureCards, ClosedPoolsAreEmpty, PoolItems, ItemsOf,
             SnapshotsRemember, Remembers, Day, Days

(***************************************************************************)
(* An answer: the card is completed, the row written, a follow-up dealt,   *)
(* for a new word the buffer maintained, and the event recorded last.      *)
(***************************************************************************)
LEMMA AnsweredCoherent ==
  ASSUME NEW today \in Days, NEW d, Coherent(d, today), NEW i \in d.items,
         NEW row \in StateRow, Schedulable(row),
         NEW e, e = MarkPoolItemCompleted(UpsertState(d, i.word, row), i)
  PROVE  Coherent(e, today) /\ Answered(e, i.id, i.day)
<1> DEFINE u == UpsertState(d, i.word, row)
<1>1. i.word \in Words
  BY DEF Coherent, Sound, DB, Item
<1>2. Coherent(u, today) /\ i \in u.items
  BY <1>1, UpsertCoherent
<1> HIDE DEF u
<1> QED BY <1>2, MarkCoherent DEF u

LEMMA EventCoherent ==
  ASSUME NEW today \in Days, NEW d, Coherent(d, today), NEW answer \in Answer, SoundAnswer(answer),
         NEW day, day <= today, Answered(d, answer.item, day),
         \A x \in answer.deleted : x.type = "new" /\ x.day = today
  PROVE  Coherent(RecordAnswer(d, answer), today)
<1>1. PICK j \in d.items : j.id = answer.item /\ j.day = day
  BY DEF Answered
<1>2. today <= today
  BY DEF Days
<1>3. Remembers(answer, j, today)
  BY <1>1, <1>2 DEF Remembers
<1> QED BY <1>3, RecordAnswerCoherent

LEMMA SubmitFirstExposureCoherent ==
  ASSUME CountersInv, NEW i \in db.items, NEW known \in BOOLEAN, SubmitFirstExposure(i, known)
  PROVE  CountersInv'
<1> DEFINE prev == db.states[i.word]
           post == IF known THEN ApplyFirstExposureKnown ELSE ApplyFirstExposureUnknown(now)
           marked == MarkPoolItemCompleted(UpsertState(db, i.word, post), i)
           answer(f, m) == [item |-> i.id, prev |-> prev, post |-> post,
                            created |-> f.created \cup m.created, deleted |-> m.deleted]
<1>1. PICK f \in FollowUps(marked, i.word, now) :
        \E m \in MaintainNewWordBuffer(f.db, now) : Commit(RecordAnswer(m.db, answer(f, m)))
  BY DEF SubmitFirstExposure
<1>2. PICK m \in MaintainNewWordBuffer(f.db, now) : Commit(RecordAnswer(m.db, answer(f, m)))
  BY <1>1
<1>3. /\ i \in Item /\ i.id \in Nat /\ i.word \in Words /\ i.day <= Day(now)
      /\ now \in Nat /\ Day(now) \in Days /\ Coherent(db, Day(now))
  BY DEF CountersInv, Coherent, Sound, DB, Item, NoFutureCards
<1>4. post \in StateRow /\ Schedulable(post) /\ prev \in StateRow /\ Schedulable(prev)
  BY <1>3, FirstExposureRows DEF Coherent, Sound, DB
<1> HIDE DEF prev, post
<1>5. Coherent(marked, Day(now)) /\ Answered(marked, i.id, i.day)
  BY <1>3, <1>4, AnsweredCoherent
<1> HIDE DEF marked
<1>6. CoherentMaintained(marked, f, Day(now))
  BY <1>3, <1>5, FollowUpsCoherent
<1>7. CoherentMaintained(f.db, m, Day(now))
  BY <1>3, <1>6, MaintainBufferCoherent DEF CoherentMaintained
<1>8. answer(f, m) \in Answer /\ SoundAnswer(answer(f, m)) /\ answer(f, m).item = i.id
      /\ answer(f, m).deleted = m.deleted
  <2>1. SoundMaintained(f) /\ SoundMaintained(m)
    BY <1>3, <1>5, FollowUpsSound, MaintainBufferSound DEF SoundMaintained, Coherent
  <2>2. IsFiniteSet(f.created \cup m.created)
    BY <2>1, FS_Union DEF SoundMaintained
  <2> QED BY <1>3, <1>4, <2>1, <2>2 DEF Answer, SoundAnswer, SoundMaintained
<1> HIDE DEF answer
<1>9. Answered(m.db, i.id, i.day)
  BY <1>5, <1>6, <1>7 DEF CoherentMaintained, Continues
<1>10. Coherent(RecordAnswer(m.db, answer(f, m)), Day(now))
  BY <1>3, <1>7, <1>8, <1>9, EventCoherent DEF CoherentMaintained
<1> QED BY <1>2, <1>10, CommitCoherent

LEMMA SubmitReviewCoherent ==
  ASSUME CountersInv, NEW i \in db.items, NEW hard \in BOOLEAN, SubmitReview(i, hard)
  PROVE  CountersInv'
<1> DEFINE prev == db.states[i.word]
           posts == IF i.bonus THEN {prev} ELSE ReviewOutcomes(prev, hard, now)
           marked(post) == MarkPoolItemCompleted(UpsertState(db, i.word, post), i)
           followed(post) == IF i.bonus THEN {Maintained(marked(post), {}, {})}
                             ELSE FollowUps(marked(post), i.word, now)
           answer(post, f) == [item |-> i.id, prev |-> prev, post |-> post,
                               created |-> f.created, deleted |-> {}]
<1>1. PICK post \in posts :
        \E f \in followed(post) : Commit(RecordAnswer(f.db, answer(post, f)))
  BY DEF SubmitReview
<1>2. PICK f \in followed(post) : Commit(RecordAnswer(f.db, answer(post, f)))
  BY <1>1
<1>3. /\ i \in Item /\ i.id \in Nat /\ i.word \in Words /\ i.day <= Day(now)
      /\ now \in Nat /\ Day(now) \in Days /\ Coherent(db, Day(now))
  BY DEF CountersInv, Coherent, Sound, DB, Item, NoFutureCards
<1>4. prev \in StateRow /\ Schedulable(prev)
  BY <1>3 DEF Coherent, Sound, DB
<1> HIDE DEF prev
<1>5. post \in StateRow /\ Schedulable(post)
  BY <1>3, <1>4, ReviewRows
<1>6. Coherent(marked(post), Day(now)) /\ Answered(marked(post), i.id, i.day)
  BY <1>3, <1>5, AnsweredCoherent
<1> HIDE DEF marked
<1>7. CoherentMaintained(marked(post), f, Day(now)) /\ SoundMaintained(f)
  <2>1. CASE i.bonus
    BY <1>6, <2>1, ContinuesItself, UnchangedIsMaintained DEF CoherentMaintained, Maintained, Coherent
  <2>2. CASE ~i.bonus
    BY <1>3, <1>6, <2>2, FollowUpsCoherent, FollowUpsSound DEF Coherent
  <2> QED BY <2>1, <2>2
<1>8. answer(post, f) \in Answer /\ SoundAnswer(answer(post, f)) /\ answer(post, f).item = i.id
      /\ answer(post, f).deleted = {}
  BY <1>3, <1>4, <1>5, <1>7, FS_EmptySet DEF Answer, SoundAnswer, SoundMaintained, UniquePositions
<1> HIDE DEF answer
<1>9. Answered(f.db, i.id, i.day)
  BY <1>6, <1>7 DEF CoherentMaintained, Continues
<1>10. Coherent(RecordAnswer(f.db, answer(post, f)), Day(now))
  BY <1>3, <1>7, <1>8, <1>9, EventCoherent DEF CoherentMaintained
<1> QED BY <1>2, <1>10, CommitCoherent

LEMMA NextCardReplenishesCoherent == CountersInv /\ NextCardReplenishes => CountersInv'
<1> SUFFICES ASSUME CountersInv, NextCardReplenishes PROVE CountersInv'
  OBVIOUS
<1>1. PICK r \in GetOrCreateDailyPool(db, now) :
        /\ r.ok
        /\ \E e \in ReplenishUnknownDailySlots(r.db, now) :
             \E s \in GetOrCreateDailyPool(e, now) : Commit(s.db)
  BY DEF NextCardReplenishes
<1>2. PICK e \in ReplenishUnknownDailySlots(r.db, now) :
        \E s \in GetOrCreateDailyPool(e, now) : Commit(s.db)
  BY <1>1
<1>3. /\ Coherent(r.db, Day(now)) /\ r.db.pools[Day(now)].open
      /\ now \in Nat /\ Day(now) \in Days
  BY <1>1, GetOrCreateCoherent DEF CountersInv
<1>4. Coherent(e, Day(now))
  BY <1>3, ReplenishCoherent
<1> QED BY <1>2, <1>3, <1>4, GetOrCreateCoherent, CommitCoherent

LEMMA NextCardAddsPracticeCoherent == CountersInv /\ NextCardAddsPractice => CountersInv'
<1> SUFFICES ASSUME CountersInv, NextCardAddsPractice PROVE CountersInv'
  OBVIOUS
<1>1. PICK r \in GetOrCreateDailyPool(db, now) :
        /\ r.ok
        /\ \E ws \in BonusPracticeCandidates(r.db, Day(now)) :
             \E s \in GetOrCreateDailyPool(AppendCounted(r.db, Day(now), BonusCards(ws)), now) :
               Commit(s.db)
  BY DEF NextCardAddsPractice
<1>2. PICK ws \in BonusPracticeCandidates(r.db, Day(now)) :
        \E s \in GetOrCreateDailyPool(AppendCounted(r.db, Day(now), BonusCards(ws)), now) :
          Commit(s.db)
  BY <1>1
<1>3. /\ Coherent(r.db, Day(now)) /\ r.db.pools[Day(now)].open
      /\ now \in Nat /\ Day(now) \in Days
  BY <1>1, GetOrCreateCoherent DEF CountersInv
<1>4. Coherent(AppendCounted(r.db, Day(now), BonusCards(ws)), Day(now))
  BY <1>3, CandidatesAreWords, BonusCardsAreCards, AppendCountedCoherent
<1> QED BY <1>2, <1>3, <1>4, GetOrCreateCoherent, CommitCoherent

LEMMA AppendMoreNewWordsCoherent == CountersInv /\ AppendMoreNewWords => CountersInv'
<1> SUFFICES ASSUME CountersInv, AppendMoreNewWords PROVE CountersInv'
  OBVIOUS
<1>1. PICK r \in GetOrCreateDailyPool(db, now) :
        /\ r.ok
        /\ \E ws \in GenerateNewWords(r.db, Day(now), NewLimit) :
             \E s \in GetOrCreateDailyPool(AppendCounted(r.db, Day(now), NewCards(ws)), now) :
               Commit(s.db)
  BY DEF AppendMoreNewWords
<1>2. PICK ws \in GenerateNewWords(r.db, Day(now), NewLimit) :
        \E s \in GetOrCreateDailyPool(AppendCounted(r.db, Day(now), NewCards(ws)), now) :
          Commit(s.db)
  BY <1>1
<1>3. /\ Coherent(r.db, Day(now)) /\ r.db.pools[Day(now)].open
      /\ now \in Nat /\ Day(now) \in Days
  BY <1>1, GetOrCreateCoherent DEF CountersInv
<1>4. Coherent(AppendCounted(r.db, Day(now), NewCards(ws)), Day(now))
  BY <1>3, GeneratedAreWords, NewCardsAreCards, AppendCountedCoherent
<1> QED BY <1>2, <1>3, <1>4, GetOrCreateCoherent, CommitCoherent

(***************************************************************************)
(* Rebuilding deletes the pool of today with its cards and its counters.   *)
(***************************************************************************)
LEMMA ForceRebuildCoherent == CountersInv /\ ForceRebuildTodayPool => CountersInv'
<1> SUFFICES ASSUME CountersInv, ForceRebuildTodayPool PROVE CountersInv'
  OBVIOUS
<1> DEFINE today == Day(now)
           dead == PoolItems(db, today)
           emptied == RemoveItems(db, dead)
           pools == [emptied.pools EXCEPT ![today] = NoPool]
           rebuilt == [emptied EXCEPT !.pools = pools]
<1>1. now \in Nat /\ today \in Days /\ Coherent(db, today) /\ today..MaxDay \subseteq Days
  BY DailyAssumption DEF CountersInv, Days
<1>2. dead \in SUBSET db.items
  BY DEF PoolItems
<1>3. /\ Sound(emptied) /\ emptied.pools = db.pools /\ emptied.items = db.items \ dead
      /\ NoFutureCards(emptied, today) /\ ClosedPoolsAreEmpty(emptied) /\ SnapshotsRemember(emptied, today)
  BY <1>1, <1>2, RemovedKeeps
<1>4. /\ \A type : ItemsOf(emptied.items, today, type) = {}
      /\ \A y, type : y # today => ItemsOf(emptied.items, y, type) = ItemsOf(db.items, y, type)
  BY <1>3 DEF ItemsOf, PoolItems
<1> HIDE DEF dead, emptied
<1>5. emptied.pools \in [Days -> Pool] /\ NoPool \in Pool
  BY <1>3 DEF Sound, DB, NoPool, NoCounts, Pool, Counts
<1>6. pools \in [Days -> Pool] /\ \A y \in Days : pools[y] = IF y = today THEN NoPool ELSE emptied.pools[y]
  BY <1>5
<1>7. [emptied EXCEPT !.pools[Day(now)] = NoPool] = rebuilt
  BY <1>3 DEF Sound, DB
<1>8. PICK r \in GetOrCreateDailyPool(rebuilt, now) : Commit(r.db)
  BY <1>7 DEF ForceRebuildTodayPool, emptied, dead
<1> HIDE DEF pools
<1>9. /\ Sound(rebuilt) /\ rebuilt.items = emptied.items /\ rebuilt.pools = pools
      /\ rebuilt.answers = emptied.answers
  BY <1>3, <1>6, ReplacePoolsSound DEF Sound, DB
<1> HIDE DEF rebuilt
<1>10. Counted(rebuilt, today)
  <2> SUFFICES ASSUME NEW y \in today..MaxDay, NEW type \in ItemTypes
               PROVE  Matches(rebuilt.pools[y].counts[type], type, Cardinality(ItemsOf(rebuilt.items, y, type)))
    BY DEF Counted
  <2>1. CASE y = today
    <3>1. rebuilt.pools[y].counts[type] = 0
      BY <1>1, <1>6, <1>9, <2>1 DEF NoPool, NoCounts
    <3>2. Cardinality(ItemsOf(rebuilt.items, y, type)) = 0
      BY <1>4, <1>9, <2>1, FS_EmptySet
    <3> QED BY <3>1, <3>2 DEF Matches
  <2>2. CASE y # today
    <3>1. /\ ItemsOf(rebuilt.items, y, type) = ItemsOf(db.items, y, type)
          /\ rebuilt.pools[y] = db.pools[y]
      BY <1>1, <1>3, <1>4, <1>6, <1>9, <2>2
    <3> QED BY <1>1, <3>1 DEF Coherent, Counted
  <2> QED BY <2>1, <2>2
<1>11. ClosedPoolsAreEmpty(rebuilt)
  <2> SUFFICES ASSUME NEW y \in Days, ~rebuilt.pools[y].open PROVE PoolItems(rebuilt, y) = {}
    BY DEF ClosedPoolsAreEmpty
  <2>1. CASE y = today
    BY <1>3, <1>9, <2>1 DEF PoolItems, dead
  <2>2. CASE y # today
    BY <1>3, <1>6, <1>9, <2>2 DEF ClosedPoolsAreEmpty, PoolItems
  <2> QED BY <2>1, <2>2
<1>12. Coherent(rebuilt, today)
  BY <1>3, <1>9, <1>10, <1>11 DEF Coherent, NoFutureCards, SnapshotsRemember
<1> QED BY <1>1, <1>8, <1>12, GetOrCreateCoherent, CommitCoherent

LEMMA DictionaryNextCoherent == CountersInv /\ DictionaryNext => CountersInv'
<1> SUFFICES ASSUME CountersInv, NEW w \in Words, NEW known \in BOOLEAN,
                    \/ CreateDictionaryWord(w, known)
                    \/ UpdateDictionaryWord(w, known)
                    \/ DeleteDictionaryWord(w)
                    \/ ConfirmImport(w)
             PROVE  CountersInv'
  BY DEF DictionaryNext
<1>1. now \in Nat /\ Day(now) \in Days /\ Coherent(db, Day(now))
  BY DEF CountersInv
<1>2. /\ DictionaryRow(known) \in StateRow /\ Schedulable(DictionaryRow(known))
      /\ DictionaryRow(FALSE) \in StateRow /\ Schedulable(DictionaryRow(FALSE))
  BY <1>1, FirstExposureRows DEF DictionaryRow
<1>3. CASE CreateDictionaryWord(w, known) \/ UpdateDictionaryWord(w, known)
  <2>1. Coherent(UpsertState(db, w, DictionaryRow(known)), Day(now))
    BY <1>1, <1>2, UpsertCoherent
  <2> QED BY <1>3, <2>1, CommitCoherent DEF CreateDictionaryWord, UpdateDictionaryWord
<1>4. CASE DeleteDictionaryWord(w)
  <2> DEFINE d == DeleteState(db, w)
             dead == {i \in db.items : i.word = w}
  <2>1. Coherent(d, Day(now)) /\ d.items = db.items
    BY <1>1, NoRowSchedulable, UpsertCoherent DEF DeleteState
  <2>2. dead \in SUBSET d.items
    BY <2>1
  <2>3. Commit(DeletePoolItems(d, dead))
    BY <1>4 DEF DeleteDictionaryWord
  <2> HIDE DEF d, dead
  <2>4. Coherent(DeletePoolItems(d, dead), Day(now))
    BY <1>1, <2>1, <2>2, DeleteCoherent
  <2> QED BY <2>3, <2>4, CommitCoherent
<1>5. CASE ConfirmImport(w)
  <2> DEFINE d == UpsertState(db, w, DictionaryRow(FALSE))
             dealt == AppendCounted(d, Day(now), NewCards({w}))
  <2>1. (d.pools[Day(now)].open /\ Commit(dealt)) \/ Commit(d)
    BY <1>5 DEF ConfirmImport
  <2>2. Coherent(d, Day(now))
    BY <1>1, <1>2, UpsertCoherent
  <2> HIDE DEF d
  <2>3. d.pools[Day(now)].open => Coherent(dealt, Day(now))
    BY <1>1, <2>2, NewCardsAreCards, AppendCountedCoherent
  <2> HIDE DEF dealt
  <2> QED BY <2>1, <2>2, <2>3, CommitCoherent
<1> QED BY <1>3, <1>4, <1>5

LEMMA CountersNext == CountersInv /\ [Next]_vars => CountersInv'
<1> SUFFICES ASSUME CountersInv, [Next]_vars PROVE CountersInv'
  OBVIOUS
<1>1. CASE Tick
  BY <1>1, TickCoherent
<1>2. CASE PoolNext
  <2>1. CASE OpenDailyPool
    BY <2>1, GetOrCreateCoherent, CommitCoherent DEF OpenDailyPool, CountersInv
  <2> QED BY <1>2, <2>1, NextCardReplenishesCoherent, NextCardAddsPracticeCoherent,
             AppendMoreNewWordsCoherent, ForceRebuildCoherent DEF PoolNext
<1>3. CASE AnswerNext
  <2>1. CASE \E i \in db.items, known \in BOOLEAN : SubmitFirstExposure(i, known)
    BY <2>1, SubmitFirstExposureCoherent
  <2>2. CASE \E i \in db.items, hard \in BOOLEAN : SubmitReview(i, hard)
    BY <2>2, SubmitReviewCoherent
  <2>3. CASE \E a \in db.answers, i \in db.items : UndoLastAnswer(a, i)
    BY <2>3, UndoCoherent, CommitCoherent DEF UndoLastAnswer, CountersInv
  <2> QED BY <1>3, <2>1, <2>2, <2>3 DEF AnswerNext
<1>4. CASE DictionaryNext
  BY <1>4, DictionaryNextCoherent
<1>5. CASE UNCHANGED vars
  <2>1. now' = now /\ db' = db
    BY <1>5 DEF vars
  <2> QED BY <2>1 DEF CountersInv, Coherent, Sound, SoundAnswer, UniqueIds, UniquePositions,
             SamePosition, Counted, NoFutureCards, ClosedPoolsAreEmpty, PoolItems, ItemsOf,
             SnapshotsRemember, Remembers, Day, Days
<1> QED BY <1>1, <1>2, <1>3, <1>4, <1>5 DEF Next

(***************************************************************************)
(* Whatever the requests, the counters of today's and later pools count no *)
(* card that is not there, and those of review and weak cards are exact:   *)
(* not a deletion that clamps them at zero, an undo that stops half-way, a *)
(* pool opened anew nor an uncounted follow-up makes them promise more     *)
(* (IncrementScheduledCounts, DeletePoolItems, UndoLastAnswer).            *)
(***************************************************************************)
THEOREM CountersNeverPromise == Spec => []CountersMatchCards
<1>1. CountersInv => CountersMatchCards
  BY DEF CountersInv, Coherent, Counted, Matches, CountersMatchCards
<1> QED BY <1>1, CountersInit, CountersNext, PTL DEF Spec

---------------------------------------------------------------------------
(* What an append, a deletion and a reopening leave *)

(***************************************************************************)
(* An append makes one card of each it is given.                           *)
(***************************************************************************)
DealtAs(d, day, c, i) ==
  /\ i.day = day /\ i.word = c.word /\ i.type = c.type /\ i.bonus = c.bonus
  /\ Pending(i) /\ i.id > LastId(d)

LEMMA DealtCards ==
  ASSUME NEW d, Sound(d), NEW day \in Days, NEW cards \in SUBSET Card, IsFiniteSet(cards)
  PROVE  \E f \in [cards -> Item] :
           /\ AppendPoolItems(d, day, cards) = [d EXCEPT !.items = d.items \cup {f[c] : c \in cards}]
           /\ \A c \in cards : DealtAs(d, day, c, f[c])
           /\ \A b, c \in cards : f[b].id = f[c].id => b = c
<1> DEFINE number == Numbering(cards)
           lastId == LastId(d)
           lastOrd == GetLastOrdinal(d, day)
           item(c) == [id |-> lastId + number[c], day |-> day, word |-> c.word,
                       type |-> c.type, bonus |-> c.bonus, due |-> c.due,
                       ord |-> lastOrd + number[c], done |-> 0]
           f == [c \in cards |-> item(c)]
<1>1. number \in [cards -> Nat \ {0}] /\ \A b, c \in cards : number[b] = number[c] => b = c
  BY NumberingNumbers
<1>2. lastId \in Nat /\ lastOrd \in Nat
  BY LastIdIsUpper, LastOrdinalIsUpper
<1>3. AppendPoolItems(d, day, cards) = [d EXCEPT !.items = d.items \cup {item(c) : c \in cards}]
  BY DEF AppendPoolItems, Sound, DB
<1>4. {item(c) : c \in cards} = {f[c] : c \in cards}
  OBVIOUS
<1>5. lastId = LastId(d)
  OBVIOUS
<1> HIDE DEF number, lastId, lastOrd
<1>6. \A c \in cards : f[c] \in Item
  BY <1>1, <1>2 DEF Item, Card
<1>7. \A c \in cards : DealtAs(d, day, c, f[c])
  BY <1>1, <1>2, <1>5 DEF DealtAs, Pending
<1>8. \A b, c \in cards : f[b].id = f[c].id => b = c
  <2> SUFFICES ASSUME NEW b \in cards, NEW c \in cards, f[b].id = f[c].id PROVE b = c
    OBVIOUS
  <2>1. number[b] = number[c]
    BY <1>1, <1>2
  <2> QED BY <1>1, <2>1
<1>9. f \in [cards -> Item]
  BY <1>6
<1> HIDE DEF f, item
<1> QED BY <1>3, <1>4, <1>7, <1>8, <1>9

LEMMA DealtCounted ==
  ASSUME NEW d, Sound(d), NEW day \in Days, NEW cards \in SUBSET Card, IsFiniteSet(cards),
         NEW e, e = AppendCounted(d, day, cards)
  PROVE  /\ e.items = AppendPoolItems(d, day, cards).items
         /\ e.states = d.states /\ e.answers = d.answers
<1>1. Sound(AppendPoolItems(d, day, cards))
  BY AppendPoolItemsSound
<1>2. /\ AppendPoolItems(d, day, cards).states = d.states
      /\ AppendPoolItems(d, day, cards).answers = d.answers
  BY DEF AppendPoolItems, Sound, DB
<1> QED BY <1>1, <1>2 DEF AppendCounted, IncrementCounts, Sound, DB

LEMMA CountedRows ==
  ASSUME NEW d, Sound(d), NEW day \in Days, NEW by \in Counts, NEW e, e = IncrementCounts(d, day, by)
  PROVE  Sound(e) /\ e.items = d.items /\ e.states = d.states /\ e.answers = d.answers
<1> DEFINE counts == [type \in ItemTypes |-> d.pools[day].counts[type] + by[type]]
           pools == [d.pools EXCEPT ![day].counts = counts]
<1>1. Sound(e) /\ e.items = d.items /\ e.answers = d.answers
  BY IncrementedCounts
<1>2. e = [d EXCEPT !.pools = pools] /\ d.pools \in [Days -> Pool]
  BY DEF IncrementCounts, Sound, DB
<1> HIDE DEF pools
<1>3. e.states = d.states
  BY <1>2 DEF Sound, DB
<1> QED BY <1>1, <1>3

LEMMA ReopenedRows ==
  ASSUME NEW d, Sound(d), NEW i \in d.items, NEW e, e = ReopenPoolItem(d, i)
  PROVE  /\ e.items = (d.items \ {i}) \cup {[i EXCEPT !.done = 0]}
         /\ e.states = d.states /\ e.answers = {b \in d.answers : b.item # i.id}
<1>1. /\ e.items = (d.items \ {i}) \cup {[i EXCEPT !.done = 0]} /\ e.states = d.states
      /\ e.answers = {b \in d.answers : \A j \in {i} : j.id # b.item}
  BY DEF ReopenPoolItem, RemoveItems, Sound, DB
<1>2. {b \in d.answers : \A j \in {i} : j.id # b.item} = {b \in d.answers : b.item # i.id}
  OBVIOUS
<1> QED BY <1>1, <1>2

LEMMA DeletedRows ==
  ASSUME NEW d, Sound(d), NEW dead, IsFiniteSet(dead), NEW e, e = DeletePoolItems(d, dead)
  PROVE  /\ Sound(e) /\ e.items = d.items \ dead /\ e.states = d.states
         /\ e.answers = {b \in d.answers : \A j \in dead : j.id # b.item}
<1>1. Sound(e)
  BY DeletePoolItemsSound
<1> DEFINE g == RemoveItems(d, dead)
           counts(day) == [type \in ItemTypes |->
             Less(d.pools[day].counts[type], Cardinality(ItemsOf(dead, day, type)))]
           pools == [day \in Days |-> [d.pools[day] EXCEPT !.counts = counts(day)]]
<1>2. e = [g EXCEPT !.pools = pools]
  BY DEF DeletePoolItems
<1>3. g \in DB /\ g.items = d.items \ dead /\ g.states = d.states
      /\ g.answers = {b \in d.answers : \A j \in dead : j.id # b.item}
  BY DEF RemoveItems, Sound, DB
<1> HIDE DEF g, pools
<1>4. e.items = g.items /\ e.states = g.states /\ e.answers = g.answers
  BY <1>2, <1>3 DEF DB
<1> QED BY <1>1, <1>3, <1>4

Rewritten(S, w, row) == [S EXCEPT ![w] = row]

\* What an answer writes before its follow-up.
Marked(d, i, post) == MarkPoolItemCompleted(UpsertState(d, i.word, post), i)

---------------------------------------------------------------------------
(* Undo inverts an answer *)

(***************************************************************************)
(* The service functions an answer calls after it completed its card keep  *)
(* every card of today, down to its due time, add no new card, complete    *)
(* none, and leave the new-word counter alone.                             *)
(***************************************************************************)
SameCard(k, j) == j.id = k.id /\ j.day = k.day /\ Face(j) = Face(k)

Carries(d, e, day) ==
  /\ e.states = d.states
  /\ e.pools[day].open
  /\ e.pools[day].counts["new"] = d.pools[day].counts["new"]
  /\ \A k \in d.items : k.day = day => \E j \in e.items : SameCard(k, j)
  /\ \A k \in d.items : k.day = day /\ ~Pending(k) => k \in e.items
  /\ \A j \in e.items : j.day = day /\ j.type = "new" => j \in d.items
  /\ \A j \in e.items : j.day = day /\ ~Pending(j) => j \in d.items

LEMMA CarriesThrough ==
  ASSUME NEW d, NEW e, NEW f, NEW day, Carries(d, e, day), Carries(e, f, day)
  PROVE  Carries(d, f, day)
<1>1. \A k \in d.items : k.day = day => \E j \in f.items : SameCard(k, j)
  <2> SUFFICES ASSUME NEW k \in d.items, k.day = day PROVE \E j \in f.items : SameCard(k, j)
    OBVIOUS
  <2>1. PICK l \in e.items : SameCard(k, l)
    BY DEF Carries
  <2>2. PICK j \in f.items : SameCard(l, j)
    BY <2>1 DEF Carries, SameCard
  <2> QED BY <2>1, <2>2 DEF SameCard
<1> QED BY <1>1 DEF Carries

LEMMA CarriesItself ==
  ASSUME NEW d, NEW day, d.pools[day].open
  PROVE  Carries(d, d, day)
BY DEF Carries, SameCard

LEMMA PruneCarries ==
  ASSUME NEW t \in Nat, Day(t) \in Days, NEW d, Coherent(d, Day(t)), d.pools[Day(t)].open,
         NEW e, e = PruneStaleItems(d, t)
  PROVE  Carries(d, e, Day(t))
<1>1. /\ e.states = d.states /\ e.pools = d.pools
      /\ e.items = d.items \ {i \in d.items : i.day < Day(t) /\ Pending(i)}
  BY DEF PruneStaleItems, RemoveItems, Coherent, Sound, DB
<1>2. ~(Day(t) < Day(t))
  BY DayIsNat
<1> QED BY <1>1, <1>2 DEF Carries, SameCard

LEMMA AppendCarries ==
  ASSUME NEW d, Sound(d), NEW day \in Days, d.pools[day].open,
         NEW cards \in SUBSET Card, IsFiniteSet(cards), \A c \in cards : c.type # "new",
         NEW e, e = AppendPoolItems(d, day, cards)
  PROVE  Carries(d, e, day)
<1>1. PICK f \in [cards -> Item] :
        /\ AppendPoolItems(d, day, cards) = [d EXCEPT !.items = d.items \cup {f[c] : c \in cards}]
        /\ \A c \in cards : DealtAs(d, day, c, f[c])
  BY DealtCards
<1> DEFINE dealt == {f[c] : c \in cards}
<1>2. \A j \in dealt : j.type # "new" /\ Pending(j)
  BY <1>1 DEF DealtAs
<1>3. e = [d EXCEPT !.items = d.items \cup dealt]
  BY <1>1
<1> HIDE DEF dealt
<1>4. e.states = d.states /\ e.pools = d.pools /\ e.items = d.items \cup dealt
  BY <1>3 DEF Sound, DB
<1> QED BY <1>2, <1>4 DEF Carries, SameCard

LEMMA AppendCountedCarries ==
  ASSUME NEW d, Sound(d), NEW day \in Days, d.pools[day].open,
         NEW cards \in SUBSET Card, IsFiniteSet(cards), \A c \in cards : c.type # "new",
         NEW e, e = AppendCounted(d, day, cards)
  PROVE  Carries(d, e, day)
<1> DEFINE g == AppendPoolItems(d, day, cards)
<1>1. Carries(d, g, day) /\ Sound(g)
  BY AppendCarries, AppendPoolItemsSound
<1>2. CardCounts(cards) \in Counts /\ CardCounts(cards)["new"] = 0 /\ "new" \in ItemTypes
  <2>1. {c \in cards : c.type = "new"} = {}
    OBVIOUS
  <2> QED BY <2>1, CardCountsType, FS_EmptySet DEF CardCounts, ItemTypes
<1>3. e = IncrementCounts(g, day, CardCounts(cards))
  BY DEF AppendCounted
<1> HIDE DEF g
<1>4. /\ e.items = g.items /\ e.states = g.states
      /\ e.pools[day].open = g.pools[day].open
      /\ e.pools[day].counts["new"] = g.pools[day].counts["new"] + CardCounts(cards)["new"]
  BY <1>1, <1>2, <1>3, IncrementedCounts, CountedRows
<1>5. g.pools[day].counts["new"] \in Nat
  BY <1>1, <1>2, CountersAreNat
<1>6. e.pools[day].counts["new"] = g.pools[day].counts["new"]
  BY <1>2, <1>4, <1>5
<1> QED BY <1>1, <1>4, <1>6 DEF Carries

LEMMA ReconcileCarries ==
  ASSUME NEW t \in Nat, Day(t) \in Days, NEW d, Coherent(d, Day(t)), d.pools[Day(t)].open,
         NEW e, e = ReconcileScheduledPoolItems(d, t)
  PROVE  Carries(d, e, Day(t))
<1> DEFINE has(w, type) == \E i \in PoolItems(d, Day(t)) : i.word = w /\ i.type = type
           short == {w \in DueShortTerm(d, t) : ~has(w, "short_term")}
           review == {w \in DueReview(d, t) : ~has(w, "review")}
           missing == ReviewCards(d, short, "short_term") \cup ReviewCards(d, review, "review")
<1>1. short \in SUBSET Words /\ review \in SUBSET Words
  BY DEF DueShortTerm, DueReview
<1>2. e = AppendCounted(d, Day(t), missing)
  BY DEF ReconcileScheduledPoolItems
<1> HIDE DEF short, review
<1>3. missing \in SUBSET Card /\ IsFiniteSet(missing)
  <2>1. "short_term" \in ItemTypes /\ "review" \in ItemTypes
    BY DEF ItemTypes
  <2> QED BY <1>1, <2>1, ReviewCardsAreCards, FS_Union DEF Coherent
<1>4. \A c \in missing : c.type # "new"
  BY DEF ReviewCards
<1> HIDE DEF missing
<1>5. Sound(d)
  BY DEF Coherent
<1> QED BY <1>2, <1>3, <1>4, <1>5, AppendCountedCarries

LEMMA SyncCarries ==
  ASSUME NEW t \in Nat, NEW d, Sound(d), d.pools[Day(t)].open,
         NEW e, e = SyncPendingPoolItems(d, t)
  PROVE  Carries(d, e, Day(t))
<1> DEFINE synced(i) ==
             IF i.day = Day(t) /\ Pending(i) /\ i.type # "new" /\ HasRow(d, i.word)
             THEN [i EXCEPT !.due = IF i.bonus THEN Null ELSE d.states[i.word].due]
             ELSE i
<1>1. e.items = {synced(i) : i \in d.items} /\ e.pools = d.pools /\ e.states = d.states
  BY DEF SyncPendingPoolItems, Sound, DB
<1>2. \A i \in d.items : /\ SameCard(i, synced(i))
                         /\ ~Pending(i) \/ i.type = "new" => synced(i) = i
                         /\ synced(i).type = i.type /\ (Pending(synced(i)) <=> Pending(i))
  BY DEF Sound, DB, Item, SameCard, Face, Pending
<1>3. /\ \A i \in d.items : synced(i) \in e.items
      /\ \A j \in e.items : \E i \in d.items : j = synced(i)
  BY <1>1
<1> HIDE DEF synced
<1>4. \A k \in d.items : ~Pending(k) => k \in e.items
  BY <1>2, <1>3
<1>5. \A j \in e.items : j.type = "new" \/ ~Pending(j) => j \in d.items
  <2> SUFFICES ASSUME NEW j \in e.items, j.type = "new" \/ ~Pending(j) PROVE j \in d.items
    OBVIOUS
  <2>1. PICK i \in d.items : j = synced(i)
    BY <1>3
  <2> QED BY <1>2, <2>1
<1> QED BY <1>1, <1>2, <1>3, <1>4, <1>5 DEF Carries

LEMMA GetOrCreateCarries ==
  ASSUME NEW t \in Nat, Day(t) \in Days, NEW d, Coherent(d, Day(t)), d.pools[Day(t)].open,
         NEW r \in GetOrCreateDailyPool(d, t)
  PROVE  Carries(d, r.db, Day(t)) /\ r.ok
<1> DEFINE pruned == PruneStaleItems(d, t)
           reconciled == ReconcileScheduledPoolItems(pruned, t)
           synced == SyncPendingPoolItems(reconciled, t)
<1>1. Coherent(pruned, Day(t)) /\ pruned.pools = d.pools /\ Carries(d, pruned, Day(t))
  BY PruneCoherent, PruneCarries
<1>2. r.db = synced /\ r.ok
  BY <1>1 DEF GetOrCreateDailyPool
<1> HIDE DEF pruned
<1>3. Coherent(reconciled, Day(t)) /\ Carries(pruned, reconciled, Day(t))
  BY <1>1, ReconcileCoherent, ReconcileCarries
<1> HIDE DEF reconciled
<1>4. Carries(reconciled, synced, Day(t))
  <2>1. Sound(reconciled) /\ reconciled.pools[Day(t)].open
    BY <1>3 DEF Coherent, Carries
  <2> QED BY <2>1, SyncCarries
<1> HIDE DEF synced
<1>5. Carries(d, reconciled, Day(t))
  BY <1>1, <1>3, CarriesThrough
<1> QED BY <1>2, <1>4, <1>5, CarriesThrough

(***************************************************************************)
(* A follow-up is a pending card with an id of its own, and is reported.   *)
(***************************************************************************)
CreatedIn(d, e, ids, day) ==
  /\ \A c \in ids : \E j \in e.items : j.id = c /\ j.day = day /\ Pending(j) /\ j.type # "new"
  /\ \A k \in d.items : k.id \notin ids

LEMMA FollowUpsCarry ==
  ASSUME NEW t \in Nat, Day(t) \in Days, NEW d, Coherent(d, Day(t)), d.pools[Day(t)].open,
         NEW w \in Words, NEW f \in FollowUps(d, w, t)
  PROVE  Carries(d, f.db, Day(t)) /\ CreatedIn(d, f.db, f.created, Day(t))
<1> DEFINE cards == ReviewCards(d, {w}, "short_term")
           appended == AppendPoolItems(d, Day(t), cards)
<1>1. f = Maintained(appended, NewIds(d, appended), {}) \/ f = Maintained(d, {}, {})
  BY DEF FollowUps
<1>2. cards \in SUBSET Card /\ IsFiniteSet(cards) /\ \A c \in cards : c.type # "new"
  <2>1. {w} \in SUBSET Words /\ "short_term" \in ItemTypes /\ Sound(d)
    BY DEF ItemTypes, Coherent
  <2>2. \A c \in cards : c.type # "new"
    BY DEF ReviewCards
  <2> QED BY <2>1, <2>2, ReviewCardsAreCards
<1> HIDE DEF cards
<1>3. Sound(d)
  BY DEF Coherent
<1>4. Carries(d, appended, Day(t))
  BY <1>2, <1>3, AppendCarries
<1>5. CreatedIn(d, appended, NewIds(d, appended), Day(t))
  <2>1. PICK g \in [cards -> Item] :
          /\ AppendPoolItems(d, Day(t), cards) = [d EXCEPT !.items = d.items \cup {g[c] : c \in cards}]
          /\ \A c \in cards : DealtAs(d, Day(t), c, g[c])
    BY <1>2, <1>3, DealtCards
  <2>2. appended.items = d.items \cup {g[c] : c \in cards}
    BY <1>3, <2>1 DEF Sound, DB
  <2>3. \A j \in appended.items \ d.items : Pending(j) /\ j.type # "new" /\ j.day = Day(t)
    BY <1>2, <2>1, <2>2 DEF DealtAs
  <2> HIDE DEF appended
  <2> QED BY <2>3 DEF CreatedIn, NewIds
<1>6. CASE f = Maintained(appended, NewIds(d, appended), {})
  <2> HIDE DEF appended
  <2> QED BY <1>4, <1>5, <1>6 DEF Maintained
<1>7. CASE f = Maintained(d, {}, {})
  BY <1>7, CarriesItself DEF Maintained, CreatedIn
<1> QED BY <1>1, <1>6, <1>7

(***************************************************************************)
(* The maintenance of the buffer trims pending new cards or deals fresh    *)
(* ones, and says which.                                                   *)
(***************************************************************************)
Maintains(e, m, N, day) ==
  /\ N \in SUBSET Item /\ IsFiniteSet(N)
  /\ m.deleted \subseteq PendingNew(e, day)
  /\ m.deleted = {} \/ N = {}
  /\ m.created = {j.id : j \in N}
  /\ \A j \in N : /\ j.day = day /\ j.type = "new" /\ Pending(j)
                  /\ \A k \in e.items : j.id # k.id
  /\ m.db.items = (e.items \ m.deleted) \cup N
  /\ m.db.states = e.states
  /\ m.db.pools[day].open
  /\ m.db.pools[day].counts["new"] =
       Less(e.pools[day].counts["new"], Cardinality(m.deleted)) + Cardinality(N)

LEMMA NothingIsMaintained ==
  ASSUME NEW day \in Days, NEW e, Sound(e), e.pools[day].open
  PROVE  Maintains(e, Maintained(e, {}, {}), {}, day)
<1>1. /\ IsFiniteSet({}) /\ Cardinality({}) = 0 /\ e.pools[day].counts["new"] \in Nat
  BY FS_EmptySet, CountersAreNat DEF ItemTypes
<1>2. Less(e.pools[day].counts["new"], 0) + 0 = e.pools[day].counts["new"]
  BY <1>1 DEF Less
<1> QED BY <1>1, <1>2 DEF Maintains, Maintained

LEMMA DeletedCounts ==
  ASSUME NEW d, Sound(d), NEW dead, IsFiniteSet(dead), NEW day \in Days,
         NEW e, e = DeletePoolItems(d, dead)
  PROVE  /\ e.pools[day].open = d.pools[day].open
         /\ e.pools[day].counts["new"] =
              Less(d.pools[day].counts["new"], Cardinality(ItemsOf(dead, day, "new")))
<1> DEFINE g == RemoveItems(d, dead)
           counts(y) == [type \in ItemTypes |->
             Less(d.pools[y].counts[type], Cardinality(ItemsOf(dead, y, type)))]
           pools == [y \in Days |-> [d.pools[y] EXCEPT !.counts = counts(y)]]
<1>1. e = [g EXCEPT !.pools = pools]
  BY DEF DeletePoolItems
<1>2. g \in DB /\ d.pools[day] \in Pool
  BY DEF RemoveItems, Sound, DB
<1>3. counts(day)["new"] = Less(d.pools[day].counts["new"], Cardinality(ItemsOf(dead, day, "new")))
  BY DEF ItemTypes
<1>4. pools[day] = [d.pools[day] EXCEPT !.counts = counts(day)]
  OBVIOUS
<1> HIDE DEF g, pools, counts
<1>5. e.pools = pools
  BY <1>1, <1>2 DEF DB
<1>6. pools[day].open = d.pools[day].open /\ pools[day].counts = counts(day)
  BY <1>2, <1>4 DEF Pool
<1> QED BY <1>3, <1>5, <1>6

LEMMA TrimMaintains ==
  ASSUME NEW day \in Days, NEW e, Sound(e), e.pools[day].open
  PROVE  LET trimmed == PendingNew(e, day)
         IN Maintains(e, Maintained(DeletePoolItems(e, trimmed), {}, trimmed), {}, day)
<1> DEFINE trimmed == PendingNew(e, day)
           g == DeletePoolItems(e, trimmed)
<1>1. /\ IsFiniteSet({}) /\ Cardinality({}) = 0 /\ IsFiniteSet(trimmed)
      /\ e.pools[day].counts["new"] \in Nat
  BY FS_EmptySet, FS_Subset, CountersAreNat DEF ItemTypes, PendingNew, ItemsOf, Sound
<1>2. ItemsOf(trimmed, day, "new") = trimmed
  BY DEF PendingNew, ItemsOf
<1> HIDE DEF trimmed
<1>3. /\ g.items = e.items \ trimmed /\ g.states = e.states
      /\ g.pools[day].open = e.pools[day].open
      /\ g.pools[day].counts["new"] = Less(e.pools[day].counts["new"], Cardinality(trimmed))
  <2>1. g = DeletePoolItems(e, trimmed)
    OBVIOUS
  <2> HIDE DEF g
  <2>2. g.items = e.items \ trimmed /\ g.states = e.states
    BY <1>1, <2>1, DeletedRows
  <2>3. /\ g.pools[day].open = e.pools[day].open
        /\ g.pools[day].counts["new"] =
             Less(e.pools[day].counts["new"], Cardinality(ItemsOf(trimmed, day, "new")))
    BY <1>1, <2>1, DeletedCounts, Zenon
  <2> QED BY <1>2, <2>2, <2>3
<1>4. Less(e.pools[day].counts["new"], Cardinality(trimmed)) + 0 =
        Less(e.pools[day].counts["new"], Cardinality(trimmed))
  <2>1. Cardinality(trimmed) \in Nat
    BY <1>1, FS_CardinalityType
  <2>2. Less(e.pools[day].counts["new"], Cardinality(trimmed)) \in Nat
    BY <1>1, <2>1, LessIsNat, Zenon
  <2>3. \A n \in Nat : n + 0 = n
    OBVIOUS
  <2> QED BY <2>2, <2>3, Zenon
<1> HIDE DEF g
<1>5. Maintains(e, Maintained(g, {}, trimmed), {}, day)
  BY <1>1, <1>3, <1>4 DEF Maintains, Maintained, trimmed
<1> QED BY <1>5 DEF g, trimmed

LEMMA ReplenishMaintains ==
  ASSUME NEW t \in Nat, Day(t) \in Days, NEW e, Sound(e), e.pools[Day(t)].open,
         NEW g \in ReplenishUnknownDailySlots(e, t)
  PROVE  \E N : Maintains(e, Maintained(g, NewIds(e, g), {}), N, Day(t))
<1> DEFINE day == Day(t)
           N == g.items \ e.items
<1>1. PICK ws \in GenerateNewWords(e, day, PrefetchBatchSize) : g = AppendCounted(e, day, NewCards(ws))
  BY DEF ReplenishUnknownDailySlots
<1> DEFINE cards == NewCards(ws)
           h == AppendPoolItems(e, day, cards)
<1>2. /\ cards \in SUBSET Card /\ IsFiniteSet(cards) /\ \A c \in cards : c.type = "new"
  <2>1. \A c \in cards : c.type = "new"
    BY DEF NewCards
  <2> QED BY <1>1, <2>1, GeneratedAreWords, NewCardsAreCards
<1>3. g = AppendCounted(e, day, cards)
  BY <1>1
<1> HIDE DEF cards, day
<1>4. day \in Days /\ e.pools[day].open
  BY DEF day
<1>5. PICK f \in [cards -> Item] :
        /\ AppendPoolItems(e, day, cards) = [e EXCEPT !.items = e.items \cup {f[c] : c \in cards}]
        /\ \A c \in cards : DealtAs(e, day, c, f[c])
  BY <1>2, <1>4, DealtCards
<1>6. PICK new \in SUBSET Item :
        /\ IsFiniteSet(new) /\ new \cap e.items = {} /\ \A j \in new : j.day = day
        /\ AppendPoolItems(e, day, cards) = [e EXCEPT !.items = e.items \cup new]
        /\ \A type \in ItemTypes : Cardinality(ItemsOf(new, day, type)) = CardCounts(cards)[type]
  BY <1>2, <1>4, AppendedCards
<1>7. /\ h.items = e.items \cup new /\ h.items = e.items \cup {f[c] : c \in cards}
      /\ h.states = e.states /\ h.pools = e.pools
  BY <1>5, <1>6 DEF Sound, DB
<1>8. Sound(h) /\ CardCounts(cards) \in Counts /\ g = IncrementCounts(h, day, CardCounts(cards))
  BY <1>2, <1>3, <1>4, AppendPoolItemsSound, CardCountsType DEF AppendCounted
<1> HIDE DEF h
<1>9. /\ g.items = h.items /\ g.states = h.states /\ g.pools[day].open
      /\ g.pools[day].counts["new"] = e.pools[day].counts["new"] + CardCounts(cards)["new"]
  <2>1. "new" \in ItemTypes
    BY DEF ItemTypes
  <2> QED BY <1>4, <1>7, <1>8, <2>1, IncrementedCounts, CountedRows
<1>10. N = new /\ N \subseteq {f[c] : c \in cards}
  BY <1>6, <1>7, <1>9
<1>11. \A j \in N : j.type = "new" /\ Pending(j) /\ j.id > LastId(e) /\ j.day = day
  BY <1>2, <1>5, <1>10 DEF DealtAs
<1>12. \A j \in N, k \in e.items : j.id # k.id
  <2>1. LastId(e) \in Nat /\ \A k \in e.items : k.id \in Nat /\ k.id <= LastId(e)
    BY LastIdIsUpper DEF Sound, DB, Item
  <2>2. \A j \in N : j.id \in Nat
    BY <1>10 DEF Item
  <2> HIDE DEF N
  <2> QED BY <1>11, <2>1, <2>2
<1>13. Cardinality(N) = CardCounts(cards)["new"]
  <2>1. ItemsOf(new, day, "new") = N
    BY <1>10, <1>11 DEF ItemsOf
  <2> QED BY <1>6, <2>1 DEF ItemTypes
<1>14. Less(e.pools[day].counts["new"], 0) = e.pools[day].counts["new"]
  <2>1. e.pools[day].counts["new"] \in Nat
    BY <1>4, CountersAreNat DEF ItemTypes
  <2> QED BY <2>1 DEF Less
<1>15. NewIds(e, g) = {j.id : j \in N}
  <2>1. g.items = e.items \cup N
    BY <1>7, <1>9, <1>10
  <2> HIDE DEF N
  <2> QED BY <1>12, <2>1 DEF NewIds
<1>16. Cardinality({}) = 0
  BY FS_EmptySet
<1>17. g.items = (e.items \ {}) \cup N
  BY <1>7, <1>9, <1>10
<1>18. N \in SUBSET Item /\ IsFiniteSet(N)
  BY <1>6, <1>10
<1> HIDE DEF N
<1>19. Maintains(e, Maintained(g, NewIds(e, g), {}), N, day)
  BY <1>7, <1>9, <1>11, <1>12, <1>13, <1>14, <1>15, <1>16, <1>17, <1>18 DEF Maintains, Maintained
<1> QED BY <1>19 DEF day

LEMMA MaintainBufferMaintains ==
  ASSUME NEW t \in Nat, Day(t) \in Days, NEW d, Coherent(d, Day(t)), d.pools[Day(t)].open,
         NEW m \in MaintainNewWordBuffer(d, t)
  PROVE  \E e : \E N : /\ Sound(e) /\ Carries(d, e, Day(t)) /\ Maintains(e, m, N, Day(t))
<1>1. PICK r \in GetOrCreateDailyPool(d, t) :
        \/ m = ReconcileUnknownDailyBuffer(r.db, t)
        \/ \E f \in ReplenishUnknownDailySlots(r.db, t) : m = Maintained(f, NewIds(r.db, f), {})
        \/ m = Maintained(r.db, {}, {})
  <2> DEFINE maintain(e) ==
               {ReconcileUnknownDailyBuffer(e, t)}
                 \cup {Maintained(f, NewIds(e, f), {}) : f \in ReplenishUnknownDailySlots(e, t)}
             outcomes(r) == IF r.ok THEN maintain(r.db) ELSE {Maintained(r.db, {}, {})}
  <2>1. MaintainNewWordBuffer(d, t) = UNION {outcomes(r) : r \in GetOrCreateDailyPool(d, t)}
    BY DEF MaintainNewWordBuffer
  <2> HIDE DEF outcomes
  <2>2. PICK r \in GetOrCreateDailyPool(d, t) : m \in outcomes(r)
    BY <2>1
  <2> USE DEF outcomes
  <2> QED BY <2>2
<1> DEFINE e == r.db
<1>2. Sound(e) /\ Carries(d, e, Day(t))
  BY GetOrCreateCoherent, GetOrCreateCarries DEF Coherent
<1>3. e.pools[Day(t)].open
  BY <1>2 DEF Carries
<1> SUFFICES \E N : Maintains(e, m, N, Day(t))
  BY <1>2
<1>4. CASE m = Maintained(e, {}, {})
  BY <1>2, <1>3, <1>4, NothingIsMaintained
<1>5. CASE m = ReconcileUnknownDailyBuffer(e, t)
  <2>1. \/ m = Maintained(e, {}, {})
        \/ m = Maintained(DeletePoolItems(e, PendingNew(e, Day(t))), {}, PendingNew(e, Day(t)))
    BY <1>5 DEF ReconcileUnknownDailyBuffer
  <2> HIDE DEF e
  <2> QED BY <1>2, <1>3, <1>4, <2>1, TrimMaintains
<1>6. CASE \E f \in ReplenishUnknownDailySlots(e, t) : m = Maintained(f, NewIds(e, f), {})
  BY <1>2, <1>3, <1>6, ReplenishMaintains
<1> QED BY <1>1, <1>4, <1>5, <1>6

(***************************************************************************)
(* What an undo leaves when no trimmed card finds its place taken: the     *)
(* cards the answer created are gone, those it trimmed are back, and the   *)
(* answered one is pending.                                                *)
(***************************************************************************)
LooksLike(j, x) == j.day = x.day /\ Face(j) = Face(x)

LEMMA ReinsertedFaces ==
  ASSUME NEW d, Sound(d), NEW back \in SUBSET Item, IsFiniteSet(back), NEW e, e = Reinsert(d, back)
  PROVE  /\ e.states = d.states /\ e.pools = d.pools /\ d.items \subseteq e.items
         /\ \A x \in back : \E j \in e.items : LooksLike(j, x) /\ j \notin d.items
         /\ \A j \in e.items : j \in d.items \/ \E x \in back : LooksLike(j, x)
<1> DEFINE number == Numbering(back)
           renumbered(x) == [x EXCEPT !.id = LastId(d) + number[x]]
           new == {renumbered(x) : x \in back}
<1>1. e.items = d.items \cup new /\ e.states = d.states /\ e.pools = d.pools
  BY DEF Reinsert, Sound, DB
<1>2. ASSUME NEW x \in back PROVE LooksLike(renumbered(x), x) /\ renumbered(x) \notin d.items
  <2>1. x \in Item /\ number[x] \in Nat /\ number[x] > 0 /\ LastId(d) \in Nat
    BY NumberingNumbers, LastIdIsUpper
  <2> HIDE DEF number
  <2>2. renumbered(x).id = LastId(d) + number[x] /\ LooksLike(renumbered(x), x)
    BY <2>1 DEF Item, LooksLike, Face
  <2>3. renumbered(x).id \in Nat /\ renumbered(x).id > LastId(d)
    BY <2>1, <2>2
  <2> HIDE DEF renumbered
  <2>4. \A k \in d.items : k.id \in Nat /\ k.id <= LastId(d)
    BY LastIdIsUpper DEF Sound, DB, Item
  <2> QED BY <2>1, <2>2, <2>3, <2>4
<1>3. \A x \in back : renumbered(x) \in new
  OBVIOUS
<1>4. \A j \in new : \E x \in back : j = renumbered(x)
  OBVIOUS
<1> HIDE DEF renumbered, new
<1> QED BY <1>1, <1>2, <1>3, <1>4

LEMMA ClearedCards ==
  ASSUME NEW d, Sound(d), NEW dead, IsFiniteSet(dead), NEW day \in Days,
         NEW r, Sound(r), r.items = d.items, r.pools = d.pools,
         NEW e, e = DeletePoolItems(r, dead)
  PROVE  /\ Sound(e) /\ e.items = d.items \ dead /\ e.states = r.states
         /\ e.pools[day].counts["new"] =
              Less(d.pools[day].counts["new"], Cardinality(ItemsOf(dead, day, "new")))
<1>1. Sound(e) /\ e.items = r.items \ dead /\ e.states = r.states
  BY DeletedRows
<1>2. e.pools[day].counts["new"] =
        Less(r.pools[day].counts["new"], Cardinality(ItemsOf(dead, day, "new")))
  BY DeletedCounts
<1> QED BY <1>1, <1>2

LEMMA UndoLeaves ==
  ASSUME NEW t \in Nat, Day(t) \in Days, NEW d, Coherent(d, Day(t)),
         NEW a \in d.answers, NEW i \in d.items, CanUndo(d, a, i, t),
         \A x \in a.deleted, j \in d.items : ~SamePosition(x, j),
         NEW dead, \A j : j \in dead <=> j \in d.items /\ j.id \in a.created,
         NEW e, e = UndoWrites(d, a, i)
  PROVE  /\ e.states = Rewritten(d.states, i.word, a.prev)
         /\ [i EXCEPT !.done = 0] \in e.items
         /\ \A j \in d.items : j \notin dead /\ j # i => j \in e.items
         /\ \A x \in a.deleted : \E j \in e.items : LooksLike(j, x)
         /\ \A j \in e.items : \/ j = [i EXCEPT !.done = 0]
                               \/ j \in d.items /\ j \notin dead /\ j # i
                               \/ \E x \in a.deleted : LooksLike(j, x)
         /\ e.pools[Day(t)].counts["new"] =
              Less(d.pools[Day(t)].counts["new"], Cardinality(ItemsOf(dead, Day(t), "new")))
                + Cardinality(a.deleted)
<1> DEFINE day == Day(t)
           k == [i EXCEPT !.done = 0]
           restored == UpsertState(d, i.word, a.prev)
           cleared == DeletePoolItems(restored, dead)
           again == Reinsert(cleared, a.deleted)
           counted == IncrementCounts(again, day, CardCounts(a.deleted))
           reopened == ReopenPoolItem(counted, i)
<1>1. /\ Sound(d) /\ i \in Item /\ i.word \in Words /\ a.prev \in StateRow /\ a.deleted \in SUBSET Item
      /\ Schedulable(a.prev) /\ IsFiniteSet(a.deleted) /\ UniquePositions(a.deleted)
  BY DEF Coherent, Sound, DB, Item, Answer, SoundAnswer
<1>2. /\ a.item = i.id /\ ~Pending(i) /\ i.day = day
      /\ \A c \in a.created : \E j \in d.items : j.id = c /\ Pending(j)
  BY DEF CanUndo
<1>3. \A x \in a.deleted : x.type = "new"
  BY DEF Coherent, SnapshotsRemember, Remembers
<1>4. /\ Sound(restored) /\ restored.items = d.items /\ restored.pools = d.pools
      /\ restored.states = Rewritten(d.states, i.word, a.prev)
  BY <1>1, UpsertStateSound DEF UpsertState, Sound, DB, Rewritten
<1>5. i \notin dead /\ IsFiniteSet(dead)
  BY <1>1, <1>2, FS_Subset DEF UniqueIds, Sound
<1>6. /\ Sound(cleared) /\ cleared.items = d.items \ dead
      /\ cleared.states = Rewritten(d.states, i.word, a.prev)
      /\ cleared.pools[day].counts["new"] =
           Less(d.pools[day].counts["new"], Cardinality(ItemsOf(dead, day, "new")))
  <2>1. day \in Days /\ cleared = DeletePoolItems(restored, dead)
    OBVIOUS
  <2> HIDE DEF cleared, restored, day
  <2> QED BY <1>1, <1>4, <1>5, <2>1, ClearedCards DEF Rewritten
<1>7. UndoWrites(d, a, i) = reopened
  <2> DEFINE clash == Collisions(cleared, a.deleted)
             back == {x \in a.deleted : \A c \in clash : x.ord < c.ord}
             left == Reinsert(cleared, back)
  <2>1. UndoWrites(d, a, i) = IF clash = {} THEN ReopenPoolItem(IncrementCounts(left, i.day, CardCounts(back)), i)
                              ELSE left
    <3>1. dead = {j \in d.items : j.id \in a.created}
      OBVIOUS
    <3> QED BY <3>1 DEF UndoWrites
  <2>2. cleared.items \subseteq d.items
    BY <1>6
  <2> HIDE DEF cleared
  <2>3. clash = {}
    BY <2>2 DEF Collisions
  <2>4. back = a.deleted
    BY <2>3
  <2> HIDE DEF clash, back, day
  <2> QED BY <1>2, <2>1, <2>3, <2>4
<1> HIDE DEF restored, k, day
<1> HIDE DEF cleared
<1>8. /\ Sound(again) /\ again.states = cleared.states /\ again.pools = cleared.pools
      /\ cleared.items \subseteq again.items
      /\ \A x \in a.deleted : \E j \in again.items : LooksLike(j, x) /\ j \notin cleared.items
      /\ \A j \in again.items : j \in cleared.items \/ \E x \in a.deleted : LooksLike(j, x)
  <2>1. \A x \in a.deleted, j \in cleared.items : ~SamePosition(x, j)
    BY <1>6
  <2>2. Sound(again)
    BY <1>1, <1>6, <2>1, ReinsertSound
  <2> DEFINE g == again
  <2>3. g = Reinsert(cleared, a.deleted)
    OBVIOUS
  <2> HIDE DEF again
  <2> QED BY <1>1, <1>6, <2>2, <2>3, ReinsertedFaces DEF again
<1> HIDE DEF again
<1>9. /\ Sound(counted) /\ counted.items = again.items /\ counted.states = again.states
      /\ counted.pools[day].counts["new"] = again.pools[day].counts["new"] + Cardinality(a.deleted)
  <2>1. day \in Days /\ "new" \in ItemTypes /\ CardCounts(a.deleted) \in Counts
    BY <1>1, CardCountsType DEF day, ItemTypes
  <2>2. CardCounts(a.deleted)["new"] = Cardinality(a.deleted)
    <3>1. {c \in a.deleted : c.type = "new"} = a.deleted
      BY <1>3
    <3> QED BY <2>1, <3>1 DEF CardCounts
  <2> QED BY <1>8, <2>1, <2>2, IncrementedCounts, CountedRows
<1> HIDE DEF counted
<1>10. i \in counted.items
  BY <1>5, <1>6, <1>8, <1>9
<1>11. /\ reopened.items = (counted.items \ {i}) \cup {k} /\ reopened.states = counted.states
       /\ reopened.pools = counted.pools
  <2>1. reopened.pools = counted.pools
    BY <1>9 DEF ReopenPoolItem, RemoveItems, Sound, DB
  <2> QED BY <1>9, <1>10, <2>1, ReopenedRows DEF k
<1> HIDE DEF reopened
<1>12. e.states = Rewritten(d.states, i.word, a.prev) /\ k \in e.items
  BY <1>7, <1>6, <1>8, <1>9, <1>11
<1>13. \A j \in d.items : j \notin dead /\ j # i => j \in e.items
  BY <1>7, <1>6, <1>8, <1>9, <1>11
<1>14. \A x \in a.deleted : \E j \in e.items : LooksLike(j, x)
  <2> SUFFICES ASSUME NEW x \in a.deleted PROVE \E j \in e.items : LooksLike(j, x)
    OBVIOUS
  <2>1. PICK j \in again.items : LooksLike(j, x) /\ j \notin cleared.items
    BY <1>8
  <2>2. j # i
    BY <1>5, <1>6, <2>1
  <2> QED BY <1>7, <1>9, <1>11, <2>1, <2>2
<1>15. \A j \in e.items : \/ j = k
                          \/ j \in d.items /\ j \notin dead /\ j # i
                          \/ \E x \in a.deleted : LooksLike(j, x)
  BY <1>7, <1>6, <1>8, <1>9, <1>11
<1>16. e.pools[day].counts["new"] =
         Less(d.pools[day].counts["new"], Cardinality(ItemsOf(dead, day, "new"))) + Cardinality(a.deleted)
  BY <1>7, <1>6, <1>8, <1>9, <1>11
<1> QED BY <1>12, <1>13, <1>14, <1>15, <1>16 DEF k, day

LEMMA LastStampIsReached ==
  ASSUME NEW d, Sound(d), NEW i \in d.items,
         \A j \in d.items : j.day = i.day => j.done <= i.done
  PROVE  i.done = LastStamp(d, i.day)
<1> DEFINE items == PoolItems(d, i.day)
           doneOf == [j \in items |-> j.done]
           stamps == {j.done : j \in items}
<1>1. IsFiniteSet(items)
  BY FS_Subset DEF Sound, PoolItems
<1>2. stamps \subseteq Nat /\ i.done \in stamps /\ \A n \in stamps : n <= i.done
  BY DEF Sound, DB, Item, PoolItems
<1>3. stamps = {doneOf[j] : j \in items} /\ LastStamp(d, i.day) = Max({0} \cup stamps)
  BY DEF LastStamp
<1> HIDE DEF stamps, doneOf, items
<1>4. IsFiniteSet({0} \cup stamps)
  <2>1. IsFiniteSet(stamps)
    BY <1>1, <1>3, ImageIsFinite
  <2> QED BY <2>1, FS_EmptySet, FS_AddElement, FS_Union, FS_Singleton
<1>5. Max({0} \cup stamps) \in {0} \cup stamps /\ \A n \in {0} \cup stamps : Max({0} \cup stamps) >= n
  <2>1. {0} \cup stamps \in SUBSET Nat /\ {0} \cup stamps # {}
    BY <1>2, 0 \in Nat
  <2> QED BY <1>4, <2>1, MaxOfFiniteSet
<1>6. i.done \in Nat /\ Max({0} \cup stamps) \in Nat
  <2>1. {0} \cup stamps \in SUBSET Nat
    BY <1>2, 0 \in Nat
  <2> QED BY <1>2, <1>5, <2>1, Zenon
<1>7. Max({0} \cup stamps) <= i.done /\ i.done <= Max({0} \cup stamps)
  BY <1>2, <1>5, <1>6
<1> QED BY <1>3, <1>6, <1>7

---------------------------------------------------------------------------
(* An answer, taken back at once *)

(***************************************************************************)
(* The database e of an answer to card i, now n, before the buffer is      *)
(* maintained: the row is rewritten, the cards of ids are follow-ups, and  *)
(* every other card of today is there.                                     *)
(***************************************************************************)
Written(d, i, n, post, e, ids, day) ==
  /\ e.states = Rewritten(d.states, i.word, post)
  /\ e.pools[day].open
  /\ e.pools[day].counts["new"] = d.pools[day].counts["new"]
  /\ n \in e.items
  /\ \A j \in e.items : j.day = day => j.done <= n.done
  /\ \A k \in d.items : k.day = day /\ k # i =>
       k.id \notin ids /\ \E j \in e.items : SameCard(k, j)
  /\ \A j \in e.items : j.day = day /\ j.type = "new" => j = n \/ (j \in d.items /\ j # i)
  /\ \A c \in ids : \E j \in e.items : j.id = c /\ Pending(j) /\ j.type # "new"

JustCompleted(i, n) ==
  /\ n \in Item /\ ~Pending(n) /\ SamePosition(n, i) /\ n.id = i.id /\ [n EXCEPT !.done = 0] = i

LEMMA MarkedCard ==
  ASSUME NEW d, Sound(d), NEW i \in d.items, Pending(i), NEW post \in StateRow, Schedulable(post),
         NEW e, e = Marked(d, i, post)
  PROVE  \E n \in Item :
           /\ JustCompleted(i, n) /\ \A j \in d.items : j.day = i.day => j.done <= n.done
           /\ Sound(e) /\ e.items = (d.items \ {i}) \cup {n} /\ e.pools = d.pools
           /\ e.states = Rewritten(d.states, i.word, post)
<1> DEFINE u == UpsertState(d, i.word, post)
           s == LastStamp(u, i.day) + 1
           n == [i EXCEPT !.done = s]
<1>1. i \in Item /\ i.word \in Words /\ i.done = 0
  BY DEF Sound, DB, Item, Pending
<1>2. /\ Sound(u) /\ u.items = d.items /\ u.pools = d.pools
      /\ u.states = Rewritten(d.states, i.word, post)
  BY <1>1, UpsertStateSound DEF UpsertState, Sound, DB, Rewritten
<1> HIDE DEF u
<1>3. s \in Nat /\ s # 0 /\ \A j \in d.items : j.day = i.day => j.done <= s
  <2>1. LastStamp(u, i.day) \in Nat /\ \A j \in d.items : j.day = i.day => j.done <= LastStamp(u, i.day)
    BY <1>2, LastStampIsUpper
  <2>2. \A j \in d.items : j.done \in Nat
    BY DEF Sound, DB, Item
  <2> QED BY <2>1, <2>2
<1>4. e = MarkPoolItemCompleted(u, i)
  BY DEF Marked, u
<1>5. Sound(e) /\ e = [u EXCEPT !.items = (u.items \ {i}) \cup {n}]
  <2>1. Sound(e)
    BY <1>2, <1>4, MarkPoolItemCompletedSound
  <2>2. e = [u EXCEPT !.items = (u.items \ {i}) \cup {[i EXCEPT !.done = s]}]
    BY <1>2, <1>4 DEF MarkPoolItemCompleted, Sound, DB
  <2> QED BY <2>1, <2>2
<1> HIDE DEF s
<1>6. n \in Item /\ JustCompleted(i, n) /\ n.done = s
  BY <1>1, <1>3 DEF JustCompleted, Item, Pending, SamePosition
<1> HIDE DEF n
<1>7. e.items = (d.items \ {i}) \cup {n} /\ e.pools = d.pools /\ e.states = u.states
  BY <1>2, <1>5 DEF Sound, DB
<1> QED BY <1>2, <1>3, <1>5, <1>6, <1>7

LEMMA AnswerWritten ==
  ASSUME NEW day \in Days, NEW d, Coherent(d, day),
         NEW i \in d.items, i.day = day, NEW post,
         NEW n \in Item, JustCompleted(i, n), \A j \in d.items : j.day = i.day => j.done <= n.done,
         NEW g, g.items = (d.items \ {i}) \cup {n}, g.pools = d.pools,
         g.states = Rewritten(d.states, i.word, post),
         NEW f, Carries(g, f, day), NEW ids, CreatedIn(g, f, ids, day),
         NEW e, Sound(e), Carries(f, e, day)
  PROVE  Written(d, i, n, post, e, ids, day)
<1>1. Carries(g, e, day)
  BY CarriesThrough
<1>2. n \in g.items /\ n.day = day /\ ~Pending(n)
  BY DEF JustCompleted, SamePosition
<1>3. n \in e.items
  BY <1>1, <1>2 DEF Carries
<1>4. \A j \in e.items : j.day = day => j.done <= n.done
  <2> SUFFICES ASSUME NEW j \in e.items, j.day = day PROVE j.done <= n.done
    OBVIOUS
  <2>1. n.done \in Nat
    BY DEF Item
  <2>2. CASE Pending(j)
    BY <2>1, <2>2 DEF Pending
  <2>3. CASE ~Pending(j)
    <3>1. j \in g.items
      BY <1>1, <2>3 DEF Carries
    <3> QED BY <2>1, <3>1
  <2> QED BY <2>2, <2>3
<1>5. ASSUME NEW k \in d.items, k.day = day, k # i
      PROVE  k.id \notin ids /\ \E j \in e.items : SameCard(k, j)
  <2>1. k \in g.items
    BY <1>5
  <2> QED BY <1>1, <1>5, <2>1 DEF Carries, CreatedIn
<1>6. ASSUME NEW j \in e.items, j.day = day, j.type = "new"
      PROVE  j = n \/ (j \in d.items /\ j # i)
  <2>1. j \in g.items
    BY <1>1, <1>6 DEF Carries
  <2> QED BY <2>1
<1>7. ASSUME NEW c \in ids
      PROVE  \E j \in e.items : j.id = c /\ Pending(j) /\ j.type # "new"
  <2>1. PICK k \in f.items : k.id = c /\ k.day = day /\ Pending(k) /\ k.type # "new"
    BY DEF CreatedIn
  <2>2. PICK j \in e.items : SameCard(k, j)
    BY <2>1 DEF Carries
  <2> QED BY <2>1, <2>2 DEF SameCard, Face, Pending
<1>8. /\ e.states = Rewritten(d.states, i.word, post) /\ e.pools[day].open
      /\ e.pools[day].counts["new"] = d.pools[day].counts["new"]
  BY <1>1 DEF Carries
<1> QED BY <1>3, <1>4, <1>5, <1>6, <1>7, <1>8 DEF Written

FacesOf(d, day) == {Face(i) : i \in PoolItems(d, day)}

Restores(d, u, day) ==
  /\ u.states = d.states
  /\ FacesOf(d, day) \subseteq FacesOf(u, day)
  /\ {f \in FacesOf(u, day) : f.type = "new"} \subseteq FacesOf(d, day)
  /\ \/ u.pools[day].counts["new"] = d.pools[day].counts["new"]
     \/ d.pools[day].counts["new"] < Cardinality(PendingNew(d, day))

\* The answer a, recorded in g.
Answers(d, i, n, post, e, ids, m, N, a, g, day) ==
  /\ Written(d, i, n, post, e, ids, day) /\ Maintains(e, m, N, day)
  /\ g.items = m.db.items /\ g.states = m.db.states /\ g.pools = m.db.pools
  /\ a \in g.answers /\ a.item = i.id /\ a.prev = d.states[i.word]
  /\ a.created = ids \cup m.created /\ a.deleted = m.deleted

\* The answer a to the card n can be taken back from g, and clashes with nothing.
Undoable(e, ids, N, a, g, n, t) ==
  /\ n \in g.items /\ CanUndo(g, a, n, t)
  /\ \A x \in a.deleted, j \in g.items : ~SamePosition(x, j)
  /\ \A j \in g.items : j.id \in a.created /\ j.day = Day(t) /\ j.type = "new" <=> j \in N
  /\ \A j \in e.items : j \notin a.deleted => j \in g.items /\ (j.id \in a.created <=> j.id \in ids)

LEMMA AnswerCanBeUndone ==
  ASSUME NEW t \in Nat, Day(t) \in Days, NEW d, Sound(d),
         NEW i \in d.items, i.day = Day(t), NEW n \in Item, JustCompleted(i, n),
         NEW post, NEW e, Sound(e), NEW ids, NEW m, NEW N, NEW a, NEW g, Sound(g),
         Answers(d, i, n, post, e, ids, m, N, a, g, Day(t))
  PROVE  Undoable(e, ids, N, a, g, n, t)
<1> DEFINE day == Day(t)
<1>1. /\ Written(d, i, n, post, e, ids, day) /\ Maintains(e, m, N, day)
      /\ g.items = (e.items \ a.deleted) \cup N
      /\ a.created = ids \cup {j.id : j \in N} /\ a.deleted \subseteq PendingNew(e, day)
      /\ a.deleted = {} \/ N = {}
      /\ a.item = i.id /\ g.pools[day].open
  BY DEF Answers, Maintains
<1>2. n.day = day /\ n.id = i.id /\ ~Pending(n)
  BY DEF JustCompleted, SamePosition
<1> HIDE DEF day
<1>3. \A j \in N : j.day = day /\ j.type = "new" /\ Pending(j) /\ \A k \in e.items : j.id # k.id
  BY <1>1 DEF Maintains
<1>4. \A x \in a.deleted : x \in e.items /\ Pending(x) /\ x.type = "new" /\ x.day = day
  BY <1>1 DEF PendingNew, ItemsOf
<1>5. n \in e.items /\ n \in g.items
  BY <1>1, <1>2, <1>4 DEF Written
<1>6. \A j \in e.items : j \notin a.deleted => j \in g.items /\ (j.id \in a.created <=> j.id \in ids)
  BY <1>1, <1>3
<1>7. \A c \in ids : \E j \in g.items : j.id = c /\ Pending(j) /\ j.type # "new" /\ j \in e.items
  BY <1>1, <1>4 DEF Written
<1>8. \A c \in a.created : \E j \in g.items : j.id = c /\ Pending(j)
  BY <1>1, <1>3, <1>7
<1>9. \A j, k \in g.items : j.id = k.id => j = k
  BY DEF Sound, UniqueIds
<1>10. \A j \in g.items : j.id \in a.created /\ j.day = day /\ j.type = "new" <=> j \in N
  <2> SUFFICES ASSUME NEW j \in g.items
               PROVE  j.id \in a.created /\ j.day = day /\ j.type = "new" <=> j \in N
    OBVIOUS
  <2>1. CASE j \in N
    BY <1>1, <1>3, <2>1
  <2>2. CASE j \notin N
    <3>1. j \in e.items /\ j \notin a.deleted
      BY <1>1, <2>2
    <3>2. j.id \in ids => j.type # "new"
      BY <1>7, <1>9
    <3> QED BY <1>6, <2>2, <3>1, <3>2
  <2> QED BY <2>1, <2>2
<1>11. \A x \in a.deleted, j \in g.items : ~SamePosition(x, j)
  <2> SUFFICES ASSUME NEW x \in a.deleted, NEW j \in g.items, SamePosition(x, j) PROVE FALSE
    OBVIOUS
  <2>1. N = {} /\ j \in e.items /\ j \notin a.deleted
    BY <1>1
  <2>2. x = j
    BY <1>4, <2>1 DEF Sound, UniquePositions
  <2> QED BY <2>1, <2>2
<1>12. n.done = LastStamp(g, day)
  <2>1. \A j \in g.items : j.day = n.day => j.done <= n.done
    <3>1. \A j \in e.items : j.day = day => j.done <= n.done
      BY <1>1 DEF Written
    <3>2. n.done \in Nat /\ \A j \in N : j.done = 0
      BY <1>3 DEF Item, Pending
    <3>3. \A j \in N : j.done <= n.done
      BY <3>2
    <3> QED BY <1>1, <1>2, <3>1, <3>3
  <2> QED BY <1>2, <1>5, <2>1, LastStampIsReached
<1>13. CanUndo(g, a, n, t)
  BY <1>1, <1>2, <1>5, <1>8, <1>12 DEF CanUndo, day
<1> QED BY <1>5, <1>6, <1>10, <1>11, <1>13 DEF Undoable, day

LEMMA UndoRestores ==
  ASSUME NEW t \in Nat, Day(t) \in Days, NEW d, Coherent(d, Day(t)),
         NEW i \in d.items, Pending(i), i.day = Day(t), NEW n \in Item, JustCompleted(i, n),
         NEW post, NEW e, Sound(e), NEW ids, NEW m, NEW N, NEW a, NEW g, Coherent(g, Day(t)),
         Answers(d, i, n, post, e, ids, m, N, a, g, Day(t)),
         NEW u, u = UndoWrites(g, a, n)
  PROVE  Restores(d, u, Day(t))
<1> DEFINE day == Day(t)
           dead == {j \in g.items : j.id \in a.created}
           c == d.pools[day].counts["new"]
<1>1. Sound(d) /\ Sound(g) /\ day \in Days
  BY DEF Coherent
<1>2. /\ n \in g.items /\ CanUndo(g, a, n, t)
      /\ \A x \in a.deleted, j \in g.items : ~SamePosition(x, j)
      /\ \A j \in g.items : j.id \in a.created /\ j.day = Day(t) /\ j.type = "new" <=> j \in N
      /\ \A j \in e.items : j \notin a.deleted => j \in g.items /\ (j.id \in a.created <=> j.id \in ids)
  <2> HIDE DEF dead
  <2>1. Sound(d) /\ Sound(g)
    BY <1>1
  <2>2. Undoable(e, ids, N, a, g, n, t)
    BY <2>1, AnswerCanBeUndone
  <2> QED BY <2>2 DEF Undoable
<1>3. a \in g.answers
  BY DEF Answers
<1>4. n.word = i.word /\ n.day = day /\ n.id = i.id /\ [n EXCEPT !.done = 0] = i
  BY DEF JustCompleted, SamePosition
<1>5. \A j : j \in dead <=> j \in g.items /\ j.id \in a.created
  OBVIOUS
<1>6. ItemsOf(dead, day, "new") = N
  <2>1. N \subseteq g.items
    BY DEF Answers, Maintains
  <2> QED BY <1>2, <2>1 DEF ItemsOf
<1> HIDE DEF dead, day
<1>7. /\ u.states = Rewritten(g.states, n.word, a.prev)
      /\ [n EXCEPT !.done = 0] \in u.items
      /\ \A j \in g.items : j \notin dead /\ j # n => j \in u.items
      /\ \A x \in a.deleted : \E j \in u.items : LooksLike(j, x)
      /\ \A j \in u.items : \/ j = [n EXCEPT !.done = 0]
                            \/ j \in g.items /\ j \notin dead /\ j # n
                            \/ \E x \in a.deleted : LooksLike(j, x)
      /\ u.pools[day].counts["new"] =
           Less(g.pools[day].counts["new"], Cardinality(ItemsOf(dead, day, "new"))) + Cardinality(a.deleted)
  BY <1>2, <1>3, <1>5, UndoLeaves DEF day
<1>8. /\ Written(d, i, n, post, e, ids, day) /\ Maintains(e, m, N, day)
      /\ g.items = (e.items \ a.deleted) \cup N /\ a.deleted \subseteq PendingNew(e, day)
      /\ g.states = e.states /\ a.prev = d.states[i.word]
      /\ g.pools[day].counts["new"] =
           Less(e.pools[day].counts["new"], Cardinality(a.deleted)) + Cardinality(N)
  BY DEF Answers, Maintains, day
<1>9. u.states = d.states
  <2>1. d.states \in [Words -> StateRow] /\ i.word \in Words
    BY <1>1 DEF Sound, DB, Item
  <2>2. u.states = Rewritten(Rewritten(d.states, i.word, post), i.word, d.states[i.word])
    BY <1>4, <1>7, <1>8 DEF Written
  <2> QED BY <2>1, <2>2 DEF Rewritten
<1>10. \A k \in d.items : k.day = day => \E j \in u.items : LooksLike(j, k)
  <2> SUFFICES ASSUME NEW k \in d.items, k.day = day PROVE \E j \in u.items : LooksLike(j, k)
    OBVIOUS
  <2>1. CASE k = i
    BY <1>4, <1>7, <2>1 DEF LooksLike
  <2>2. CASE k # i
    <3>1. PICK j \in e.items : SameCard(k, j)
      BY <1>8, <2>2 DEF Written
    <3>2. k.id \notin ids
      BY <1>8, <2>2 DEF Written
    <3>3. CASE j \in a.deleted
      <4>1. PICK l \in u.items : LooksLike(l, j)
        BY <1>7, <3>3
      <4> QED BY <3>1, <4>1 DEF LooksLike, SameCard
    <3>4. CASE j \notin a.deleted
      <4>1. j \in g.items /\ j.id \notin a.created
        BY <1>2, <3>1, <3>2, <3>4 DEF SameCard
      <4>2. j # n
        BY <1>1, <1>4, <2>2, <3>1 DEF SameCard, Sound, UniqueIds
      <4>3. j \in u.items
        BY <1>5, <1>7, <4>1, <4>2
      <4> QED BY <3>1, <4>3 DEF LooksLike, SameCard
    <3> QED BY <3>3, <3>4
  <2> QED BY <2>1, <2>2
<1>11. \A j \in u.items : j.day = day /\ j.type = "new" => \E k \in d.items : LooksLike(k, j)
  <2> SUFFICES ASSUME NEW j \in u.items, j.day = day, j.type = "new"
               PROVE  \E k \in d.items : LooksLike(k, j)
    OBVIOUS
  <2>1. CASE j = i
    BY <2>1 DEF LooksLike
  <2>2. CASE j \in g.items /\ j \notin dead /\ j # n
    <3>1. j \in e.items
      BY <1>2, <1>5, <1>8, <2>2
    <3> QED BY <1>8, <2>2, <3>1 DEF Written, LooksLike
  <2>3. CASE \E x \in a.deleted : LooksLike(j, x)
    <3>1. PICK x \in a.deleted : LooksLike(j, x)
      BY <2>3
    <3>2. x \in e.items /\ x.day = day /\ x.type = "new" /\ Pending(x)
      BY <1>8 DEF PendingNew, ItemsOf
    <3>3. x # n
      BY <3>2 DEF JustCompleted
    <3>4. x \in d.items
      BY <1>8, <3>2, <3>3 DEF Written
    <3> QED BY <3>1, <3>4 DEF LooksLike
  <2> QED BY <1>4, <1>7, <2>1, <2>2, <2>3
<1>12. FacesOf(d, day) \subseteq FacesOf(u, day)
  BY <1>10 DEF FacesOf, PoolItems, LooksLike
<1>13. {f \in FacesOf(u, day) : f.type = "new"} \subseteq FacesOf(d, day)
  <2> SUFFICES ASSUME NEW j \in u.items, j.day = day, Face(j).type = "new"
               PROVE  Face(j) \in FacesOf(d, day)
    BY DEF FacesOf, PoolItems
  <2>1. j.type = "new"
    BY DEF Face
  <2>2. PICK k \in d.items : LooksLike(k, j)
    BY <1>11, <2>1
  <2> QED BY <2>2 DEF LooksLike, FacesOf, PoolItems
<1>14. IsFiniteSet(PendingNew(d, day)) /\ a.deleted \subseteq PendingNew(d, day)
  <2>1. IsFiniteSet(PendingNew(d, day))
    BY <1>1, FS_Subset DEF PendingNew, ItemsOf, Sound
  <2>2. \A x \in a.deleted : x \in e.items /\ x.day = day /\ x.type = "new" /\ Pending(x)
    BY <1>8 DEF PendingNew, ItemsOf
  <2>3. \A x \in a.deleted : x # n
    BY <2>2 DEF JustCompleted
  <2>4. \A x \in a.deleted : x \in d.items
    BY <1>8, <2>2, <2>3 DEF Written
  <2> QED BY <2>1, <2>2, <2>4 DEF PendingNew, ItemsOf
<1>15. /\ Cardinality(PendingNew(d, day)) \in Nat /\ Cardinality(a.deleted) \in Nat
       /\ Cardinality(a.deleted) <= Cardinality(PendingNew(d, day))
       /\ Cardinality(N) \in Nat /\ c \in Nat
  <2>1. IsFiniteSet(N)
    BY <1>8 DEF Maintains
  <2>2. c \in Nat
    BY <1>1, CountersAreNat DEF ItemTypes
  <2> QED BY <1>14, <2>1, <2>2, FS_Subset, FS_CardinalityType
<1>16. u.pools[day].counts["new"] =
         Less(Less(c, Cardinality(a.deleted)) + Cardinality(N), Cardinality(N)) + Cardinality(a.deleted)
  BY <1>6, <1>7, <1>8 DEF Written
<1> HIDE DEF c
<1>17. u.pools[day].counts["new"] = c \/ c < Cardinality(PendingNew(d, day))
  <2>1. \A p, q, r, s \in Nat : q <= s => Less(Less(p, q) + r, r) + q = p \/ p < s
    BY DEF Less
  <2> HIDE DEF day
  <2> QED BY <1>15, <1>16, <2>1
<1>18. Restores(d, u, day)
  BY <1>9, <1>12, <1>13, <1>17 DEF Restores, c
<1> QED BY <1>18 DEF day

(***************************************************************************)
(* Only an answer records an event.                                        *)
(***************************************************************************)
Forgets(d, e) == e.answers \subseteq d.answers

LEMMA RemoveForgets ==
  ASSUME NEW d, Sound(d), NEW dead
  PROVE  Forgets(d, RemoveItems(d, dead))
BY DEF Forgets, RemoveItems, Sound, DB

LEMMA UpsertForgets ==
  ASSUME NEW d, Sound(d), NEW w, NEW row
  PROVE  Forgets(d, UpsertState(d, w, row))
BY DEF Forgets, UpsertState, Sound, DB

LEMMA DeleteForgets ==
  ASSUME NEW d, Sound(d), NEW dead, IsFiniteSet(dead)
  PROVE  Forgets(d, DeletePoolItems(d, dead))
<1> DEFINE e == DeletePoolItems(d, dead)
<1>1. e = DeletePoolItems(d, dead)
  OBVIOUS
<1> HIDE DEF e
<1>2. e.answers = {b \in d.answers : \A j \in dead : j.id # b.item}
  BY <1>1, DeletedRows
<1>3. Forgets(d, e)
  BY <1>2 DEF Forgets
<1> QED BY <1>1, <1>3

LEMMA AppendForgets ==
  ASSUME NEW d, Sound(d), NEW day, NEW cards
  PROVE  Forgets(d, AppendPoolItems(d, day, cards))
<1> DEFINE number == Numbering(cards)
           item(c) == [id |-> LastId(d) + number[c], day |-> day, word |-> c.word,
                       type |-> c.type, bonus |-> c.bonus, due |-> c.due,
                       ord |-> GetLastOrdinal(d, day) + number[c], done |-> 0]
           items == d.items \cup {item(c) : c \in cards}
<1>1. AppendPoolItems(d, day, cards) = [d EXCEPT !.items = items]
  BY DEF AppendPoolItems, Sound, DB
<1> HIDE DEF items
<1> QED BY <1>1 DEF Forgets, Sound, DB

LEMMA AppendCountedForgets ==
  ASSUME NEW d, Sound(d), NEW day \in Days, NEW cards \in SUBSET Card, IsFiniteSet(cards)
  PROVE  Forgets(d, AppendCounted(d, day, cards))
<1>1. AppendCounted(d, day, cards).answers = d.answers
  BY DealtCounted
<1> QED BY <1>1 DEF Forgets

LEMMA ForgetsThrough ==
  ASSUME NEW d, NEW e, NEW f, Forgets(d, e), Forgets(e, f)
  PROVE  Forgets(d, f)
BY DEF Forgets

LEMMA CreateDailyPoolForgets ==
  ASSUME NEW d, Sound(d), NEW t, Day(t) \in Days, NEW r \in CreateDailyPool(d, t)
  PROVE  Forgets(d, r.db)
<1> DEFINE day == Day(t)
           weaks == Picks({w \in Words \ (DueShortTerm(d, t) \cup DueReview(d, t)) :
                             IsWeakCandidate(d.states[w])}, WeakSlots)
           opened == [d EXCEPT !.pools[day] = [NoPool EXCEPT !.open = TRUE]]
           reviews(weak) == ReviewCards(d, DueShortTerm(d, t), "short_term")
                              \cup ReviewCards(d, DueReview(d, t), "review")
                              \cup ReviewCards(d, weak, "weak")
           dealt(weak, new) == AppendCounted(opened, day, reviews(weak) \cup NewCards(new))
           results(weak) ==
             {IF reviews(weak) = {} /\ new = {} /\ NewLimit > 0
              THEN [ok |-> FALSE, db |-> d]
              ELSE [ok |-> TRUE, db |-> dealt(weak, new)] :
                new \in GenerateNewWords(d, day, PrefetchBatchSize)}
<1>1. PICK weak \in weaks : r \in results(weak)
  <2>1. CreateDailyPool(d, t) = UNION {results(weak) : weak \in weaks}
    BY DEF CreateDailyPool
  <2> HIDE DEF results, weaks
  <2> QED BY <2>1
<1> HIDE DEF dealt
<1>2. PICK new \in GenerateNewWords(d, day, PrefetchBatchSize) :
        r.db = d \/ r.db = dealt(weak, new)
  BY <1>1
<1> USE DEF dealt
<1>3. Sound(opened) /\ opened.answers = d.answers
  <2> DEFINE pools == [d.pools EXCEPT ![day] = [NoPool EXCEPT !.open = TRUE]]
  <2>1. [NoPool EXCEPT !.open = TRUE] \in Pool
    BY DEF NoPool, NoCounts, Pool, Counts
  <2>2. pools \in [Days -> Pool]
    BY <2>1 DEF Sound, DB
  <2>3. opened = [d EXCEPT !.pools = pools]
    BY DEF Sound, DB
  <2> HIDE DEF pools
  <2>4. Sound([d EXCEPT !.pools = pools]) /\ [d EXCEPT !.pools = pools].answers = d.answers
    BY <2>2, ReplacePoolsSound DEF Sound, DB
  <2> QED BY <2>3, <2>4
<1>4. weak \in SUBSET Words /\ new \in SUBSET Words
  BY GeneratedAreWords DEF Picks
<1>5. /\ DueShortTerm(d, t) \in SUBSET Words /\ DueReview(d, t) \in SUBSET Words
      /\ {"short_term", "review", "weak"} \subseteq ItemTypes
  BY DEF DueShortTerm, DueReview, ItemTypes
<1> HIDE DEF opened
<1>6. reviews(weak) \cup NewCards(new) \in SUBSET Card
  BY <1>4, <1>5, ReviewCardsAreCards, NewCardsAreCards
<1>7. IsFiniteSet(reviews(weak) \cup NewCards(new))
  BY <1>4, <1>5, ReviewCardsAreCards, NewCardsAreCards, FS_Union
<1> HIDE DEF reviews
<1>8. Forgets(opened, dealt(weak, new))
  BY <1>3, <1>6, <1>7, AppendCountedForgets
<1> QED BY <1>2, <1>3, <1>8 DEF Forgets

LEMMA GetOrCreateForgets ==
  ASSUME NEW d, Sound(d), NEW t, Day(t) \in Days, NEW r \in GetOrCreateDailyPool(d, t)
  PROVE  Forgets(d, r.db)
<1> DEFINE pruned == PruneStaleItems(d, t)
           has(w, type) == \E i \in PoolItems(pruned, Day(t)) : i.word = w /\ i.type = type
           short == {w \in DueShortTerm(pruned, t) : ~has(w, "short_term")}
           review == {w \in DueReview(pruned, t) : ~has(w, "review")}
           missing == ReviewCards(pruned, short, "short_term") \cup ReviewCards(pruned, review, "review")
           reconciled == ReconcileScheduledPoolItems(pruned, t)
<1>1. Sound(pruned) /\ Forgets(d, pruned)
  BY PruneStaleItemsSound, RemoveForgets DEF PruneStaleItems
<1>2. \/ r.db = SyncPendingPoolItems(reconciled, t)
      \/ r \in CreateDailyPool(pruned, t)
  BY DEF GetOrCreateDailyPool
<1>3. reconciled = AppendCounted(pruned, Day(t), missing)
  BY DEF ReconcileScheduledPoolItems
<1>4. short \in SUBSET Words /\ review \in SUBSET Words
  BY DEF DueShortTerm, DueReview
<1> HIDE DEF pruned, short, review
<1>5. missing \in SUBSET Card /\ IsFiniteSet(missing)
  <2>1. "short_term" \in ItemTypes /\ "review" \in ItemTypes
    BY DEF ItemTypes
  <2> QED BY <1>1, <1>4, <2>1, ReviewCardsAreCards, FS_Union
<1> HIDE DEF missing
<1>6. Sound(reconciled) /\ Forgets(pruned, reconciled)
  BY <1>1, <1>3, <1>5, AppendCountedSound, AppendCountedForgets
<1> HIDE DEF reconciled
<1>7. Forgets(reconciled, SyncPendingPoolItems(reconciled, t))
  BY <1>6 DEF SyncPendingPoolItems, Forgets, Sound, DB
<1>8. CASE r.db = SyncPendingPoolItems(reconciled, t)
  BY <1>1, <1>6, <1>7, <1>8 DEF Forgets
<1>9. CASE r \in CreateDailyPool(pruned, t)
  <2>1. Forgets(pruned, r.db)
    BY <1>1, <1>9, CreateDailyPoolForgets
  <2> QED BY <1>1, <2>1 DEF Forgets
<1> QED BY <1>2, <1>8, <1>9

LEMMA ReplenishForgets ==
  ASSUME NEW d, Sound(d), NEW t, Day(t) \in Days, NEW e \in ReplenishUnknownDailySlots(d, t)
  PROVE  Forgets(d, e)
<1>1. PICK ws \in GenerateNewWords(d, Day(t), PrefetchBatchSize) :
        e = AppendCounted(d, Day(t), NewCards(ws))
  BY DEF ReplenishUnknownDailySlots
<1> QED BY <1>1, GeneratedAreWords, NewCardsAreCards, AppendCountedForgets

LEMMA MaintainBufferForgets ==
  ASSUME NEW d, Sound(d), NEW t, Day(t) \in Days, NEW m \in MaintainNewWordBuffer(d, t)
  PROVE  Forgets(d, m.db)
<1>1. PICK r \in GetOrCreateDailyPool(d, t) :
        \/ m = ReconcileUnknownDailyBuffer(r.db, t)
        \/ \E f \in ReplenishUnknownDailySlots(r.db, t) : m = Maintained(f, NewIds(r.db, f), {})
        \/ m = Maintained(r.db, {}, {})
  <2> DEFINE maintain(e) ==
               {ReconcileUnknownDailyBuffer(e, t)}
                 \cup {Maintained(f, NewIds(e, f), {}) : f \in ReplenishUnknownDailySlots(e, t)}
             outcomes(r) == IF r.ok THEN maintain(r.db) ELSE {Maintained(r.db, {}, {})}
  <2>1. MaintainNewWordBuffer(d, t) = UNION {outcomes(r) : r \in GetOrCreateDailyPool(d, t)}
    BY DEF MaintainNewWordBuffer
  <2> HIDE DEF outcomes
  <2>2. PICK r \in GetOrCreateDailyPool(d, t) : m \in outcomes(r)
    BY <2>1
  <2> USE DEF outcomes
  <2> QED BY <2>2
<1> DEFINE e == r.db
           trimmed == PendingNew(e, Day(t))
<1>2. Sound(e) /\ Forgets(d, e)
  BY GetOrCreateSound, GetOrCreateForgets
<1> HIDE DEF e
<1>3. m.db = e \/ m.db = DeletePoolItems(e, trimmed) \/ m.db \in ReplenishUnknownDailySlots(e, t)
  BY <1>1 DEF Maintained, ReconcileUnknownDailyBuffer, e
<1>4. Forgets(e, DeletePoolItems(e, trimmed))
  <2>1. IsFiniteSet(trimmed)
    BY <1>2, FS_Subset DEF PendingNew, ItemsOf, Sound
  <2> QED BY <1>2, <2>1, DeleteForgets
<1>5. m.db \in ReplenishUnknownDailySlots(e, t) => Forgets(e, m.db)
  BY <1>2, ReplenishForgets
<1> QED BY <1>2, <1>3, <1>4, <1>5 DEF Forgets

LEMMA FollowUpsForget ==
  ASSUME NEW d, Sound(d), NEW w, NEW t, NEW f \in FollowUps(d, w, t)
  PROVE  Forgets(d, f.db)
<1> DEFINE appended == AppendPoolItems(d, Day(t), ReviewCards(d, {w}, "short_term"))
<1>1. f = Maintained(appended, NewIds(d, appended), {}) \/ f = Maintained(d, {}, {})
  BY DEF FollowUps
<1>2. Forgets(d, appended)
  BY AppendForgets
<1> HIDE DEF appended
<1> QED BY <1>1, <1>2 DEF Maintained, Forgets

LEMMA MarkedForgets ==
  ASSUME NEW d, Sound(d), NEW i, NEW post
  PROVE  Forgets(d, Marked(d, i, post))
BY DEF Forgets, Marked, MarkPoolItemCompleted, UpsertState, Sound, DB

LEMMA UndoForgets ==
  ASSUME NEW d, Sound(d), NEW a \in d.answers, NEW i \in d.items, NEW t, CanUndo(d, a, i, t)
  PROVE  Forgets(d, UndoWrites(d, a, i))
<1> DEFINE restored == UpsertState(d, i.word, a.prev)
           dead == {j \in d.items : j.id \in a.created}
           cleared == DeletePoolItems(restored, dead)
           clash == Collisions(cleared, a.deleted)
           back == {x \in a.deleted : \A c \in clash : x.ord < c.ord}
           again == Reinsert(cleared, back)
           counted == IncrementCounts(again, i.day, CardCounts(back))
<1>1. i.word \in Words /\ a.prev \in StateRow /\ Schedulable(a.prev) /\ IsFiniteSet(dead)
  BY FS_Subset DEF Sound, DB, Item, Answer, SoundAnswer
<1>2. UndoWrites(d, a, i) = ReopenPoolItem(counted, i) \/ UndoWrites(d, a, i) = again
  BY DEF UndoWrites
<1> HIDE DEF counted, back, clash, dead
<1>3. Sound(restored) /\ Forgets(d, restored)
  BY <1>1, UpsertStateSound, UpsertForgets
<1> HIDE DEF restored
<1>4. cleared \in DB /\ Forgets(restored, cleared)
  BY <1>1, <1>3, DeletePoolItemsSound, DeleteForgets DEF Sound
<1> HIDE DEF cleared
<1>5. again.answers = cleared.answers /\ DOMAIN again = DOMAIN cleared
  BY <1>4 DEF Reinsert, DB
<1>6. counted.answers = again.answers /\ DOMAIN counted = DOMAIN again
  BY <1>4, <1>5 DEF counted, IncrementCounts, DB
<1>7. Forgets(counted, ReopenPoolItem(counted, i))
  BY <1>4, <1>5, <1>6 DEF Forgets, ReopenPoolItem, RemoveItems, DB
<1> QED BY <1>2, <1>3, <1>4, <1>5, <1>6, <1>7 DEF Forgets

(***************************************************************************)
(* Taking back an answer that has just been recorded.                      *)
(***************************************************************************)
TakenBack(d, i, a, g, n, t) ==
  n.id = i.id /\ CanUndo(g, a, n, t) /\ Restores(d, UndoWrites(g, a, n), Day(t))

LEMMA RecordedAnswerInverts ==
  ASSUME NEW t \in Nat, Day(t) \in Days, NEW d, Coherent(d, Day(t)),
         NEW i \in d.items, Pending(i), i.day = Day(t), NEW post \in StateRow, Schedulable(post),
         NEW h, Carries(Marked(d, i, post), h, Day(t)),
         NEW ids, CreatedIn(Marked(d, i, post), h, ids, Day(t)),
         NEW e, Sound(e), Carries(h, e, Day(t)), NEW m, NEW N, Maintains(e, m, N, Day(t)),
         NEW a, a.item = i.id, a.prev = d.states[i.word], a.created = ids \cup m.created, a.deleted = m.deleted,
         NEW g, Coherent(g, Day(t)), a \in g.answers,
         g.items = m.db.items, g.states = m.db.states, g.pools = m.db.pools
  PROVE  \E n \in g.items : TakenBack(d, i, a, g, n, t)
<1>1. Sound(d) /\ Sound(g)
  BY DEF Coherent
<1> DEFINE marked == Marked(d, i, post)
<1>2. PICK n \in Item :
        /\ JustCompleted(i, n) /\ \A j \in d.items : j.day = i.day => j.done <= n.done
        /\ marked.items = (d.items \ {i}) \cup {n} /\ marked.pools = d.pools
        /\ marked.states = Rewritten(d.states, i.word, post)
  <2> HIDE DEF marked
  <2>1. marked = Marked(d, i, post)
    BY DEF marked
  <2> QED BY <1>1, <2>1, MarkedCard
<1> HIDE DEF marked
<1>3. Written(d, i, n, post, e, ids, Day(t))
  BY <1>2, AnswerWritten DEF marked
<1>4. Answers(d, i, n, post, e, ids, m, N, a, g, Day(t))
  BY <1>3 DEF Answers
<1>5. Undoable(e, ids, N, a, g, n, t)
  BY <1>1, <1>2, <1>4, AnswerCanBeUndone
<1>6. Restores(d, UndoWrites(g, a, n), Day(t))
  BY <1>2, <1>4, UndoRestores
<1> QED BY <1>2, <1>5, <1>6 DEF TakenBack, Undoable, JustCompleted

LEMMA NewlyRecorded ==
  ASSUME NEW d, NEW e, Sound(e), Forgets(d, e), NEW answer, NEW g, g = RecordAnswer(e, answer),
         NEW a \in g.answers, a \notin d.answers
  PROVE  a = answer /\ g.items = e.items /\ g.states = e.states /\ g.pools = e.pools
BY DEF RecordAnswer, Forgets, Sound, DB

(***************************************************************************)
(* The card answered belongs to an open pool.                              *)
(***************************************************************************)
LEMMA PoolIsOpen ==
  ASSUME NEW day \in Days, NEW d, Coherent(d, day), NEW i \in d.items, i.day = day
  PROVE  d.pools[day].open
BY DEF Coherent, ClosedPoolsAreEmpty, PoolItems

LEMMA FirstExposureInverts ==
  ASSUME CountersInv, NEW i \in db.items, NEW known \in BOOLEAN,
         SubmitFirstExposure(i, known), NEW a \in db'.answers, a \notin db.answers
  PROVE  /\ a.item = i.id
         /\ i.day = Day(now) => \E n \in db'.items : TakenBack(db, i, a, db', n, now)
<1> DEFINE prev == db.states[i.word]
           post == IF known THEN ApplyFirstExposureKnown ELSE ApplyFirstExposureUnknown(now)
           marked == Marked(db, i, post)
           answer(f, m) == [item |-> i.id, prev |-> prev, post |-> post,
                            created |-> f.created \cup m.created, deleted |-> m.deleted]
<1>1. PICK f \in FollowUps(marked, i.word, now) :
        \E m \in MaintainNewWordBuffer(f.db, now) : Commit(RecordAnswer(m.db, answer(f, m)))
  BY DEF SubmitFirstExposure, Marked
<1>2. PICK m \in MaintainNewWordBuffer(f.db, now) : Commit(RecordAnswer(m.db, answer(f, m)))
  BY <1>1
<1>3. /\ i \in Item /\ i.word \in Words /\ Pending(i)
      /\ now \in Nat /\ Day(now) \in Days /\ Coherent(db, Day(now))
  BY DEF CountersInv, Coherent, Sound, DB, Item, SubmitFirstExposure
<1>4. post \in StateRow /\ Schedulable(post)
  BY <1>3, FirstExposureRows
<1>5. db' = RecordAnswer(m.db, answer(f, m)) /\ Coherent(db', Day(now))
  <2>1. db' = RecordAnswer(m.db, answer(f, m)) /\ now' = now
    BY <1>2 DEF Commit
  <2>2. CountersInv'
    BY SubmitFirstExposureCoherent
  <2> QED BY <2>1, <2>2 DEF CountersInv
<1> HIDE DEF prev, post
<1>6. /\ Coherent(marked, Day(now)) /\ Answered(marked, i.id, i.day)
      /\ Forgets(db, marked)
  BY <1>3, <1>4, AnsweredCoherent, MarkedForgets DEF Marked, Coherent
<1> HIDE DEF marked
<1>7. Coherent(f.db, Day(now)) /\ Forgets(marked, f.db)
  BY <1>3, <1>6, FollowUpsCoherent, FollowUpsForget DEF CoherentMaintained, Coherent
<1>8. Sound(m.db) /\ Forgets(f.db, m.db)
  BY <1>3, <1>7, MaintainBufferCoherent, MaintainBufferForgets DEF CoherentMaintained, Coherent
<1>9. /\ a = answer(f, m) /\ db'.items = m.db.items
      /\ db'.states = m.db.states /\ db'.pools = m.db.pools
  <2> HIDE DEF answer
  <2>1. Forgets(db, m.db)
    BY <1>6, <1>7, <1>8 DEF Forgets
  <2> QED BY <1>5, <1>8, <2>1, NewlyRecorded
<1>10. a.item = i.id /\ a.prev = prev /\ a.created = f.created \cup m.created /\ a.deleted = m.deleted
  BY <1>9
<1> HIDE DEF answer
<1>11. ASSUME i.day = Day(now)
       PROVE  \E n \in db'.items : TakenBack(db, i, a, db', n, now)
  <2>1. marked.pools[Day(now)].open
    BY <1>3, <1>6, <1>11, PoolIsOpen DEF Answered
  <2>2. Carries(marked, f.db, Day(now)) /\ CreatedIn(marked, f.db, f.created, Day(now))
    BY <1>3, <1>6, <2>1, FollowUpsCarry
  <2>3. PICK e : \E N : Sound(e) /\ Carries(f.db, e, Day(now)) /\ Maintains(e, m, N, Day(now))
    <3>1. f.db.pools[Day(now)].open
      BY <2>2 DEF Carries
    <3> QED BY <1>3, <1>7, <3>1, MaintainBufferMaintains
  <2>4. PICK N : Sound(e) /\ Carries(f.db, e, Day(now)) /\ Maintains(e, m, N, Day(now))
    BY <2>3
  <2> QED BY <1>3, <1>4, <1>5, <1>9, <1>10, <1>11, <2>2, <2>4, RecordedAnswerInverts DEF prev, marked
<1> QED BY <1>10, <1>11

LEMMA ReviewInverts ==
  ASSUME CountersInv, NEW i \in db.items, NEW hard \in BOOLEAN,
         SubmitReview(i, hard), NEW a \in db'.answers, a \notin db.answers
  PROVE  /\ a.item = i.id
         /\ i.day = Day(now) => \E n \in db'.items : TakenBack(db, i, a, db', n, now)
<1> DEFINE prev == db.states[i.word]
           posts == IF i.bonus THEN {prev} ELSE ReviewOutcomes(prev, hard, now)
           marked(post) == Marked(db, i, post)
           followed(post) == IF i.bonus THEN {Maintained(marked(post), {}, {})}
                             ELSE FollowUps(marked(post), i.word, now)
           answer(post, f) == [item |-> i.id, prev |-> prev, post |-> post,
                               created |-> f.created, deleted |-> {}]
<1>1. PICK post \in posts :
        \E f \in followed(post) : Commit(RecordAnswer(f.db, answer(post, f)))
  BY DEF SubmitReview, Marked
<1>2. PICK f \in followed(post) : Commit(RecordAnswer(f.db, answer(post, f)))
  BY <1>1
<1>3. /\ i \in Item /\ i.word \in Words /\ Pending(i)
      /\ now \in Nat /\ Day(now) \in Days /\ Coherent(db, Day(now))
  BY DEF CountersInv, Coherent, Sound, DB, Item, SubmitReview
<1>4. post \in StateRow /\ Schedulable(post)
  <2>1. prev \in StateRow /\ Schedulable(prev)
    BY <1>3 DEF Coherent, Sound, DB
  <2> HIDE DEF prev
  <2> QED BY <1>3, <2>1, ReviewRows
<1>5. db' = RecordAnswer(f.db, answer(post, f)) /\ Coherent(db', Day(now))
  <2>1. db' = RecordAnswer(f.db, answer(post, f)) /\ now' = now
    BY <1>2 DEF Commit
  <2>2. CountersInv'
    BY SubmitReviewCoherent
  <2> QED BY <2>1, <2>2 DEF CountersInv
<1> HIDE DEF prev
<1>6. /\ Coherent(marked(post), Day(now)) /\ Answered(marked(post), i.id, i.day)
      /\ Forgets(db, marked(post))
  BY <1>3, <1>4, AnsweredCoherent, MarkedForgets DEF Marked, Coherent
<1> HIDE DEF marked
<1>7. Sound(f.db) /\ Forgets(marked(post), f.db)
  <2>1. CASE i.bonus
    BY <1>6, <2>1 DEF Maintained, Forgets, Coherent
  <2>2. CASE ~i.bonus
    BY <1>3, <1>6, <2>2, FollowUpsCoherent, FollowUpsForget DEF CoherentMaintained, Coherent
  <2> QED BY <2>1, <2>2
<1>8. /\ a = answer(post, f) /\ db'.items = f.db.items
      /\ db'.states = f.db.states /\ db'.pools = f.db.pools
  <2> HIDE DEF answer
  <2>1. Forgets(db, f.db)
    BY <1>6, <1>7 DEF Forgets
  <2> QED BY <1>5, <1>7, <2>1, NewlyRecorded
<1>9. a.item = i.id /\ a.prev = prev /\ a.created = f.created /\ a.deleted = {}
  BY <1>8
<1> HIDE DEF answer
<1>10. ASSUME i.day = Day(now)
       PROVE  \E n \in db'.items : TakenBack(db, i, a, db', n, now)
  <2> DEFINE m == Maintained(f.db, {}, {})
  <2>1. marked(post).pools[Day(now)].open
    BY <1>3, <1>6, <1>10, PoolIsOpen DEF Answered
  <2>2. Carries(marked(post), f.db, Day(now)) /\ CreatedIn(marked(post), f.db, f.created, Day(now))
    <3>1. CASE i.bonus
      <4>1. f.db = marked(post) /\ f.created = {}
        BY <3>1 DEF Maintained
      <4> QED BY <2>1, <4>1, CarriesItself DEF CreatedIn
    <3>2. CASE ~i.bonus
      BY <1>3, <1>6, <2>1, <3>2, FollowUpsCarry
    <3> QED BY <3>1, <3>2
  <2>3. /\ Carries(f.db, f.db, Day(now)) /\ Maintains(f.db, m, {}, Day(now))
        /\ m.db = f.db /\ m.created = {} /\ m.deleted = {}
    <3>1. f.db.pools[Day(now)].open
      BY <2>2 DEF Carries
    <3> QED BY <1>3, <1>7, <3>1, CarriesItself, NothingIsMaintained DEF Maintained
  <2> HIDE DEF m
  <2>4. a.created = f.created \cup m.created /\ a.deleted = m.deleted
    BY <1>9, <2>3
  <2> QED BY <1>3, <1>4, <1>5, <1>7, <1>8, <1>9, <1>10, <2>2, <2>3, <2>4,
             RecordedAnswerInverts DEF prev, marked
<1> QED BY <1>9, <1>10

---------------------------------------------------------------------------
(* Requests that record no answer *)

LEMMA CommitForgets ==
  ASSUME NEW d, Forgets(db, d), Commit(d)
  PROVE  Forgets(db, db')
BY DEF Commit

LEMMA NextCardReplenishesForgets ==
  ASSUME CountersInv, NextCardReplenishes
  PROVE  Forgets(db, db')
<1>1. PICK r \in GetOrCreateDailyPool(db, now) :
        \E e \in ReplenishUnknownDailySlots(r.db, now) :
          \E s \in GetOrCreateDailyPool(e, now) : Commit(s.db)
  BY DEF NextCardReplenishes
<1>2. PICK e \in ReplenishUnknownDailySlots(r.db, now) :
        \E s \in GetOrCreateDailyPool(e, now) : Commit(s.db)
  BY <1>1
<1>3. PICK s \in GetOrCreateDailyPool(e, now) : Commit(s.db)
  BY <1>2
<1>4. Sound(db) /\ Day(now) \in Days
  BY DEF CountersInv, Coherent
<1>5. Sound(r.db) /\ Forgets(db, r.db)
  BY <1>4, GetOrCreateSound, GetOrCreateForgets
<1>6. Sound(e) /\ Forgets(r.db, e)
  BY <1>4, <1>5, ReplenishSound, ReplenishForgets
<1>7. Forgets(e, s.db)
  BY <1>4, <1>6, GetOrCreateForgets
<1>8. Forgets(db, s.db)
  BY <1>5, <1>6, <1>7 DEF Forgets
<1> QED BY <1>3, <1>8, CommitForgets

LEMMA DealtAndReopenedForgets ==
  ASSUME NEW d, Sound(d), NEW t, Day(t) \in Days, NEW cards \in SUBSET Card, IsFiniteSet(cards),
         NEW s \in GetOrCreateDailyPool(AppendCounted(d, Day(t), cards), t)
  PROVE  Forgets(d, s.db)
<1> DEFINE e == AppendCounted(d, Day(t), cards)
<1>1. Sound(e) /\ Forgets(d, e)
  BY AppendCountedSound, AppendCountedForgets
<1> HIDE DEF e
<1>2. Forgets(e, s.db)
  BY <1>1, GetOrCreateForgets DEF e
<1> QED BY <1>1, <1>2 DEF Forgets

LEMMA NextCardAddsPracticeForgets ==
  ASSUME CountersInv, NextCardAddsPractice
  PROVE  Forgets(db, db')
<1>1. PICK r \in GetOrCreateDailyPool(db, now) :
        \E ws \in BonusPracticeCandidates(r.db, Day(now)) :
          \E s \in GetOrCreateDailyPool(AppendCounted(r.db, Day(now), BonusCards(ws)), now) :
            Commit(s.db)
  BY DEF NextCardAddsPractice
<1>2. PICK ws \in BonusPracticeCandidates(r.db, Day(now)) :
        \E s \in GetOrCreateDailyPool(AppendCounted(r.db, Day(now), BonusCards(ws)), now) :
          Commit(s.db)
  BY <1>1
<1>3. PICK s \in GetOrCreateDailyPool(AppendCounted(r.db, Day(now), BonusCards(ws)), now) :
        Commit(s.db)
  BY <1>2
<1>4. Sound(db) /\ Day(now) \in Days
  BY DEF CountersInv, Coherent
<1>5. Sound(r.db) /\ Forgets(db, r.db)
  BY <1>4, GetOrCreateSound, GetOrCreateForgets
<1>6. BonusCards(ws) \in SUBSET Card /\ IsFiniteSet(BonusCards(ws))
  BY CandidatesAreWords, BonusCardsAreCards
<1>7. Forgets(r.db, s.db)
  BY <1>4, <1>5, <1>6, DealtAndReopenedForgets
<1>8. Forgets(db, s.db)
  BY <1>5, <1>7 DEF Forgets
<1> QED BY <1>3, <1>8, CommitForgets

LEMMA AppendMoreNewWordsForgets ==
  ASSUME CountersInv, AppendMoreNewWords
  PROVE  Forgets(db, db')
<1>1. PICK r \in GetOrCreateDailyPool(db, now) :
        \E ws \in GenerateNewWords(r.db, Day(now), NewLimit) :
          \E s \in GetOrCreateDailyPool(AppendCounted(r.db, Day(now), NewCards(ws)), now) :
            Commit(s.db)
  BY DEF AppendMoreNewWords
<1>2. PICK ws \in GenerateNewWords(r.db, Day(now), NewLimit) :
        \E s \in GetOrCreateDailyPool(AppendCounted(r.db, Day(now), NewCards(ws)), now) :
          Commit(s.db)
  BY <1>1
<1>3. PICK s \in GetOrCreateDailyPool(AppendCounted(r.db, Day(now), NewCards(ws)), now) :
        Commit(s.db)
  BY <1>2
<1>4. Sound(db) /\ Day(now) \in Days
  BY DEF CountersInv, Coherent
<1>5. Sound(r.db) /\ Forgets(db, r.db)
  BY <1>4, GetOrCreateSound, GetOrCreateForgets
<1>6. NewCards(ws) \in SUBSET Card /\ IsFiniteSet(NewCards(ws))
  BY GeneratedAreWords, NewCardsAreCards
<1>7. Forgets(r.db, s.db)
  BY <1>4, <1>5, <1>6, DealtAndReopenedForgets
<1>8. Forgets(db, s.db)
  BY <1>5, <1>7 DEF Forgets
<1> QED BY <1>3, <1>8, CommitForgets

LEMMA ForceRebuildForgets ==
  ASSUME CountersInv, ForceRebuildTodayPool
  PROVE  Forgets(db, db')
<1> DEFINE emptied == RemoveItems(db, PoolItems(db, Day(now)))
           pools == [emptied.pools EXCEPT ![Day(now)] = NoPool]
           rebuilt == [emptied EXCEPT !.pools = pools]
<1>1. Sound(db) /\ Day(now) \in Days
  BY DEF CountersInv, Coherent
<1>2. PICK r \in GetOrCreateDailyPool([emptied EXCEPT !.pools[Day(now)] = NoPool], now) : Commit(r.db)
  BY DEF ForceRebuildTodayPool
<1>3. Sound(emptied) /\ Forgets(db, emptied)
  BY <1>1, RemoveItemsSound, RemoveForgets
<1> HIDE DEF emptied
<1>4. pools \in [Days -> Pool] /\ [emptied EXCEPT !.pools[Day(now)] = NoPool] = rebuilt
  BY <1>3 DEF Sound, DB, NoPool, NoCounts, Pool, Counts
<1> HIDE DEF pools
<1>5. Sound(rebuilt) /\ rebuilt.answers = emptied.answers
  BY <1>3, <1>4, ReplacePoolsSound DEF Sound, DB
<1> HIDE DEF rebuilt
<1>6. Forgets(rebuilt, r.db)
  BY <1>1, <1>2, <1>4, <1>5, GetOrCreateForgets
<1>7. Forgets(db, r.db)
  BY <1>3, <1>5, <1>6 DEF Forgets
<1> QED BY <1>2, <1>7, CommitForgets

LEMMA DictionaryNextForgets ==
  ASSUME CountersInv, DictionaryNext
  PROVE  Forgets(db, db')
<1> SUFFICES ASSUME NEW w \in Words, NEW known \in BOOLEAN,
                    \/ CreateDictionaryWord(w, known)
                    \/ UpdateDictionaryWord(w, known)
                    \/ DeleteDictionaryWord(w)
                    \/ ConfirmImport(w)
             PROVE  Forgets(db, db')
  BY DEF DictionaryNext
<1>1. Sound(db) /\ Day(now) \in Days /\ now \in Nat
  BY DEF CountersInv, Coherent
<1>2. CASE CreateDictionaryWord(w, known) \/ UpdateDictionaryWord(w, known)
  BY <1>1, <1>2, UpsertForgets, CommitForgets DEF CreateDictionaryWord, UpdateDictionaryWord
<1>3. CASE DeleteDictionaryWord(w)
  <2> DEFINE d == DeleteState(db, w)
             dead == {i \in db.items : i.word = w}
  <2>1. Commit(DeletePoolItems(d, dead)) /\ IsFiniteSet(dead)
    BY <1>1, <1>3, FS_Subset DEF DeleteDictionaryWord, Sound
  <2>2. Sound(d) /\ Forgets(db, d)
    BY <1>1, NoRowSchedulable, UpsertStateSound, UpsertForgets DEF DeleteState
  <2> HIDE DEF d, dead
  <2>3. Forgets(db, DeletePoolItems(d, dead))
    <3>1. Forgets(d, DeletePoolItems(d, dead))
      BY <2>1, <2>2, DeleteForgets
    <3> QED BY <2>2, <3>1, ForgetsThrough
  <2> QED BY <2>1, <2>3, CommitForgets
<1>4. CASE ConfirmImport(w)
  <2> DEFINE d == UpsertState(db, w, DictionaryRow(FALSE))
             dealt == AppendCounted(d, Day(now), NewCards({w}))
  <2>1. Commit(dealt) \/ Commit(d)
    BY <1>4 DEF ConfirmImport
  <2>2. Sound(d) /\ Forgets(db, d)
    BY <1>1, FirstExposureRows, UpsertStateSound, UpsertForgets DEF DictionaryRow
  <2> HIDE DEF d
  <2>3. Forgets(d, dealt)
    BY <1>1, <2>2, NewCardsAreCards, AppendCountedForgets
  <2> HIDE DEF dealt
  <2>4. Forgets(db, dealt)
    BY <2>2, <2>3 DEF Forgets
  <2> QED BY <2>1, <2>2, <2>4, CommitForgets
<1> QED BY <1>2, <1>3, <1>4

---------------------------------------------------------------------------

(***************************************************************************)
(* Every step: only an answer records an event, for the card it answered.  *)
(***************************************************************************)
AnswersInvert ==
  \A i \in PoolItems(db, Day(now)), a \in db'.answers \ db.answers :
    a.item = i.id => \E n \in db'.items : TakenBack(db, i, a, db', n, now)

LEMMA ForgottenInverts ==
  ASSUME Forgets(db, db')
  PROVE  AnswersInvert
BY DEF Forgets, AnswersInvert

LEMMA StepInverts ==
  ASSUME CountersInv, [Next]_vars
  PROVE  AnswersInvert
<1>0. /\ Sound(db) /\ now \in Nat /\ Day(now) \in Days
      /\ \A x, y \in db.items : x.id = y.id => x = y
  BY DEF CountersInv, Coherent, Sound, UniqueIds
<1>1. CASE Tick
  BY <1>1, ForgottenInverts DEF Tick, Forgets
<1>2. CASE PoolNext
  <2>1. CASE OpenDailyPool
    <3>1. PICK r \in GetOrCreateDailyPool(db, now) : Commit(r.db)
      BY <2>1 DEF OpenDailyPool
    <3>2. Forgets(db, r.db)
      BY <1>0, GetOrCreateForgets
    <3> QED BY <3>1, <3>2, CommitForgets, ForgottenInverts
  <2> QED BY <1>2, <2>1, NextCardReplenishesForgets, NextCardAddsPracticeForgets,
             AppendMoreNewWordsForgets, ForceRebuildForgets, ForgottenInverts DEF PoolNext
<1>3. CASE \E i \in db.items, known \in BOOLEAN : SubmitFirstExposure(i, known)
  <2>1. PICK k \in db.items : \E known \in BOOLEAN : SubmitFirstExposure(k, known)
    BY <1>3
  <2>2. PICK known \in BOOLEAN : SubmitFirstExposure(k, known)
    BY <2>1
  <2> SUFFICES ASSUME NEW i \in PoolItems(db, Day(now)), NEW a \in db'.answers,
                      a \notin db.answers, a.item = i.id
               PROVE  \E n \in db'.items : TakenBack(db, i, a, db', n, now)
    BY DEF AnswersInvert
  <2>3. i \in db.items /\ i.day = Day(now)
    BY DEF PoolItems
  <2>4. /\ a.item = k.id
        /\ k.day = Day(now) => \E n \in db'.items : TakenBack(db, k, a, db', n, now)
    BY <2>2, FirstExposureInverts
  <2>5. k = i
    BY <1>0, <2>3, <2>4
  <2> QED BY <2>3, <2>4, <2>5
<1>4. CASE \E i \in db.items, hard \in BOOLEAN : SubmitReview(i, hard)
  <2>1. PICK k \in db.items : \E hard \in BOOLEAN : SubmitReview(k, hard)
    BY <1>4
  <2>2. PICK hard \in BOOLEAN : SubmitReview(k, hard)
    BY <2>1
  <2> SUFFICES ASSUME NEW i \in PoolItems(db, Day(now)), NEW a \in db'.answers,
                      a \notin db.answers, a.item = i.id
               PROVE  \E n \in db'.items : TakenBack(db, i, a, db', n, now)
    BY DEF AnswersInvert
  <2>3. i \in db.items /\ i.day = Day(now)
    BY DEF PoolItems
  <2>4. /\ a.item = k.id
        /\ k.day = Day(now) => \E n \in db'.items : TakenBack(db, k, a, db', n, now)
    BY <2>2, ReviewInverts
  <2>5. k = i
    BY <1>0, <2>3, <2>4
  <2> QED BY <2>3, <2>4, <2>5
<1>5. CASE \E a \in db.answers, i \in db.items : UndoLastAnswer(a, i)
  <2>1. PICK a \in db.answers, i \in db.items : UndoLastAnswer(a, i)
    BY <1>5
  <2>2. CanUndo(db, a, i, now) /\ Commit(UndoWrites(db, a, i))
    BY <2>1 DEF UndoLastAnswer
  <2>3. Forgets(db, UndoWrites(db, a, i))
    BY <1>0, <2>2, UndoForgets
  <2> QED BY <2>2, <2>3, CommitForgets, ForgottenInverts
<1>6. CASE DictionaryNext
  BY <1>6, DictionaryNextForgets, ForgottenInverts
<1>7. CASE UNCHANGED vars
  BY <1>7, ForgottenInverts DEF vars, Forgets
<1> QED BY <1>1, <1>2, <1>3, <1>4, <1>5, <1>6, <1>7 DEF Next, AnswerNext

(***************************************************************************)
(* An answer of today's pool can be taken back at once, whatever the       *)
(* requests before it.  The undo puts the row, the answered card and every *)
(* trimmed new card back where they were, adds no new card, and leaves the *)
(* new-word counter alone unless it had already fallen behind the cards    *)
(* (SubmitFirstExposure, SubmitReview, UndoLastAnswer).                    *)
(***************************************************************************)
THEOREM AnswersCanBeTakenBack == Spec => UndoInvertsAnswer
<1> DEFINE Inverts == \A i \in PoolItems(db, Day(now)), a \in db'.answers \ db.answers :
             Pending(i) /\ a.item = i.id => \E j \in db'.items : j.id = i.id /\ UndoneWell(a, j)
<1>1. CountersInv /\ [Next]_vars => Inverts
  <2> SUFFICES ASSUME CountersInv, [Next]_vars,
                      NEW i \in PoolItems(db, Day(now)), NEW a \in db'.answers \ db.answers,
                      a.item = i.id
               PROVE  \E j \in db'.items : j.id = i.id /\ UndoneWell(a, j)
    OBVIOUS
  <2>1. PICK n \in db'.items : TakenBack(db, i, a, db', n, now)
    BY StepInverts DEF AnswersInvert
  <2> DEFINE u == UndoWrites(db', a, n)
  <2>2. Restores(db, u, Day(now)) /\ CanUndo(db', a, n, now) /\ n.id = i.id
    BY <2>1 DEF TakenBack
  <2>3. Faces(db) = FacesOf(db, Day(now)) /\ Faces(u) = FacesOf(u, Day(now))
    BY DEF Faces, FacesOf
  <2>4. UndoneWell(a, n) <=>
          /\ CanUndo(db', a, n, now) /\ u.states = db.states
          /\ Faces(db) \subseteq Faces(u) /\ {f \in Faces(u) : f.type = "new"} \subseteq Faces(db)
          /\ \/ u.pools[Day(now)].counts["new"] = db.pools[Day(now)].counts["new"]
             \/ db.pools[Day(now)].counts["new"] < Cardinality(PendingNew(db, Day(now)))
    BY DEF UndoneWell
  <2> HIDE DEF u
  <2> QED BY <2>2, <2>3, <2>4 DEF Restores
<1>2. CountersInv /\ [Next]_vars => [Inverts]_vars
  BY <1>1
<1> HIDE DEF Inverts
<1>3. UndoInvertsAnswer <=> [][Inverts]_vars
  BY PTL DEF UndoInvertsAnswer, Inverts
<1> QED BY <1>2, <1>3, CountersInit, CountersNext, PTL DEF Spec
=============================================================================
