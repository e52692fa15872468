------------------------- MODULE PlannedDay_proofs -------------------------
(***************************************************************************)
(* The planned day of DailyLearning: its limit of new words, its review    *)
(* cards and its new cards; then the row an undo restores and the due      *)
(* words an open pool holds, which rest on the history of its answers.     *)
(***************************************************************************)
EXTENDS DailyLearning_proofs

(***************************************************************************)
(* The planned day.  The learner answers the cards the pool plans, undoes, *)
(* and opens the pool; a follow-up is always appended and a local day is   *)
(* no longer than the step of the third consolidation stage.               *)
(***************************************************************************)
PlannedSpec == Init /\ [][PlannedNext]_vars

PlannedAssumption == FollowUpFaults = FALSE /\ DayLen <= OneDay

(***************************************************************************)
(* What holds on a planned day, of the cards X, the rows S and the answers *)
(* A.  A word has at most one new card, and a row once that is answered; a *)
(* review card is of a word that is being learned.                         *)
(***************************************************************************)
Learnt(row) == row.status \notin {"none", "known"}

Typed(X, S, A) ==
  /\ X \in SUBSET Item /\ IsFiniteSet(X) /\ UniqueIds(X)
  /\ S \in [Words -> StateRow]
  /\ A \in SUBSET Answer

OneNewCard(X) == \A i, j \in X : i.type = "new" /\ j.type = "new" /\ i.word = j.word => i = j

NewUntilAnswered(X, S) == \A i \in X : i.type = "new" => (Pending(i) <=> S[i.word].status = "none")

ReviewsAreLearnt(X, S) == \A i \in X : i.type # "new" => Learnt(S[i.word]) /\ ~i.bonus

StampsAreUnique(X) ==
  \A i, j \in X : ~Pending(i) /\ i.day = j.day /\ i.done = j.done => i = j

AnswersMatch(X, A) ==
  /\ \A a, b \in A : a.item = b.item => a = b
  /\ \A a \in A : \E i \in X : i.id = a.item
  /\ \A a \in A, i \in X : i.id = a.item =>
       /\ ~Pending(i)
       /\ IF i.type = "new" THEN a.prev = NoRow ELSE Learnt(a.prev)
       /\ \A j \in X : j.id \in a.created => j.type = "new" \/ j.word = i.word

(***************************************************************************)
(* The limit held when each new card of the day was answered, and holds    *)
(* while new cards are left; once cards have been trimmed it is reached,   *)
(* and the trimmed words are still new.                                    *)
(***************************************************************************)
LearntCards(X, S, day) == {i \in ItemsOf(X, day, "new") : ~Pending(i) /\ Learnt(S[i.word])}
LearntBefore(X, S, i) == {j \in LearntCards(X, S, i.day) : j.done < i.done}

AnsweredWithinLimit(X, S, day) ==
  \A i \in ItemsOf(X, day, "new") : ~Pending(i) => Cardinality(LearntBefore(X, S, i)) < NewLimit

RoomForTheBuffer(X, S, day) ==
  \A i \in ItemsOf(X, day, "new") : Pending(i) => Cardinality(LearntCards(X, S, day)) < NewLimit

TrimmedAtLimit(X, S, a, i) ==
  a.deleted # {} =>
    /\ i.type = "new"
    /\ Cardinality(LearntCards(X, S, i.day)) >= NewLimit
    /\ \A j \in ItemsOf(X, i.day, "new") : ~Pending(j) => j.done <= i.done

TrimmedAreNew(X, S, a) ==
  /\ \A x, y \in a.deleted : x.word = y.word => x = y
  /\ \A x \in a.deleted :
       /\ x.type = "new" /\ Pending(x) /\ S[x.word].status = "none"
       /\ \A j \in X : j.type = "new" => j.word # x.word

TrimmedAway(X, S, A, day) ==
  \A a \in A, i \in X : i.id = a.item /\ i.day = day =>
    TrimmedAtLimit(X, S, a, i) /\ TrimmedAreNew(X, S, a)

(***************************************************************************)
(* The cards C of a word that is new today, its row and the answers B of   *)
(* its cards: each card but the first was appended by the answer of the    *)
(* one completed last before it.  An undo, which takes back the last       *)
(* answer only, therefore deletes or reopens the card it ends with.        *)
(***************************************************************************)
CardsOf(X, w) == {i \in X : i.word = w}
AnswersFor(A, C) == {b \in A : \E k \in C : b.item = k.id}

FollowsUp(C, B, j) ==
  \E k \in C, b \in B :
    /\ b.item = k.id /\ j.id \in b.created
    /\ ~Pending(k) /\ (~Pending(j) => k.done < j.done)
    /\ \A c \in C : ~Pending(c) /\ c # j => c.done <= k.done \/ (~Pending(j) /\ j.done < c.done)

SmallStep(row) == row.status = "learning" /\ row.stage \in {1, 2}

ChainedFollowUps(C, row, B, day) ==
  \A i \in C : i.type = "new" /\ i.day = day /\ ~Pending(i) =>
    /\ row.status \in {"learning", "known"}
    /\ \A j \in C : j # i =>
         /\ j.type = "short_term" /\ j.day = day
         /\ FollowsUp(C, B, j)
         /\ IF Pending(j) THEN SmallStep(row) ELSE i.done < j.done
    /\ \A b \in B, k \in C : b.item = k.id =>
         /\ k # i => SmallStep(b.prev)
         /\ \A j, l \in C : j.id \in b.created /\ l.id \in b.created => j = l
    /\ row.due # Null /\ Day(row.due) <= day => \E j \in C : j.type = "short_term"

Chained(X, S, A, day) ==
  \A w \in Words : ChainedFollowUps(CardsOf(X, w), S[w], AnswersFor(A, CardsOf(X, w)), day)

\* Between the answer and the maintenance of the buffer, there may be too many new cards.
Core(X, S, A, day) ==
  /\ Typed(X, S, A)
  /\ OneNewCard(X)
  /\ NewUntilAnswered(X, S)
  /\ ReviewsAreLearnt(X, S)
  /\ StampsAreUnique(X)
  /\ AnswersMatch(X, A)
  /\ AnsweredWithinLimit(X, S, day)
  /\ TrimmedAway(X, S, A, day)
  /\ Chained(X, S, A, day)

Planned(d, day) ==
  /\ Core(d.items, d.states, d.answers, day)
  /\ RoomForTheBuffer(d.items, d.states, day)

PlannedInv == CountersInv /\ Planned(db, Day(now))

---------------------------------------------------------------------------
(* Cards that go, come and are read anew *)

LEMMA LearntCardsAreFinite ==
  ASSUME NEW X, IsFiniteSet(X), NEW S, NEW day
  PROVE  /\ IsFiniteSet(LearntCards(X, S, day)) /\ Cardinality(LearntCards(X, S, day)) \in Nat
         /\ \A i : Cardinality(LearntBefore(X, S, i)) \in Nat
<1>1. \A y : IsFiniteSet(LearntCards(X, S, y))
  BY FS_Subset DEF LearntCards, ItemsOf
<1>2. \A i : IsFiniteSet(LearntBefore(X, S, i))
  BY <1>1, FS_Subset DEF LearntBefore
<1> QED BY <1>1, <1>2, FS_CardinalityType

(***************************************************************************)
(* Pending cards that are new, or of a past day, can be removed.           *)
(***************************************************************************)
LEMMA RemovedChained ==
  ASSUME NEW day, NEW C, NEW row, NEW B, ChainedFollowUps(C, row, B, day),
         NEW dead, \A i \in dead : Pending(i) /\ (i.type = "new" \/ i.day # day)
  PROVE  ChainedFollowUps(C \ dead, row, B, day)
<1> SUFFICES ASSUME NEW i \in C \ dead, i.type = "new" /\ i.day = day /\ ~Pending(i)
             PROVE  /\ row.status \in {"learning", "known"}
                    /\ \A j \in C \ dead : j # i =>
                         /\ j.type = "short_term" /\ j.day = day
                         /\ FollowsUp(C \ dead, B, j)
                         /\ IF Pending(j) THEN SmallStep(row) ELSE i.done < j.done
                    /\ \A b \in B, k \in C \ dead : b.item = k.id =>
                         /\ k # i => SmallStep(b.prev)
                         /\ \A j, l \in C \ dead : j.id \in b.created /\ l.id \in b.created => j = l
                    /\ row.due # Null /\ Day(row.due) <= day => \E j \in C \ dead : j.type = "short_term"
  BY DEF ChainedFollowUps
<1>1. /\ row.status \in {"learning", "known"}
      /\ \A j \in C : j # i =>
           /\ j.type = "short_term" /\ j.day = day
           /\ FollowsUp(C, B, j)
           /\ IF Pending(j) THEN SmallStep(row) ELSE i.done < j.done
      /\ \A b \in B, k \in C : b.item = k.id =>
           /\ k # i => SmallStep(b.prev)
           /\ \A j, l \in C : j.id \in b.created /\ l.id \in b.created => j = l
      /\ row.due # Null /\ Day(row.due) <= day => \E j \in C : j.type = "short_term"
  BY DEF ChainedFollowUps
<1>2. \A j \in C : FollowsUp(C, B, j) => FollowsUp(C \ dead, B, j)
  BY DEF FollowsUp
<1>3. \A j \in C : j.type = "short_term" => j \notin dead
  <2> SUFFICES ASSUME NEW j \in C, j.type = "short_term", j \in dead PROVE FALSE
    OBVIOUS
  <2>1. j # i
    OBVIOUS
  <2> QED BY <1>1, <2>1
<1> QED BY <1>1, <1>2, <1>3

LEMMA RemovedCore ==
  ASSUME NEW day, NEW X, NEW S, NEW A, Core(X, S, A, day),
         NEW dead \in SUBSET X, \A i \in dead : Pending(i) /\ (i.type = "new" \/ i.day # day)
  PROVE  /\ Core(X \ dead, S, A, day)
         /\ LearntCards(X \ dead, S, day) = LearntCards(X, S, day)
<1>1. \A i \in X : ~Pending(i) => i \in X \ dead
  OBVIOUS
<1>2. \A y : LearntCards(X \ dead, S, y) = LearntCards(X, S, y)
  BY DEF LearntCards, ItemsOf
<1>3. \A i : LearntBefore(X \ dead, S, i) = LearntBefore(X, S, i)
  BY <1>2 DEF LearntBefore
<1>4. Typed(X \ dead, S, A)
  BY FS_Subset DEF Core, Typed, UniqueIds
<1>5. OneNewCard(X \ dead) /\ NewUntilAnswered(X \ dead, S) /\ ReviewsAreLearnt(X \ dead, S)
  BY DEF Core, OneNewCard, NewUntilAnswered, ReviewsAreLearnt
<1>6. StampsAreUnique(X \ dead)
  BY DEF Core, StampsAreUnique
<1>7. AnswersMatch(X \ dead, A)
  BY <1>1 DEF Core, AnswersMatch
<1>8. AnsweredWithinLimit(X \ dead, S, day)
  BY <1>3 DEF Core, AnsweredWithinLimit, ItemsOf
<1>9. TrimmedAway(X \ dead, S, A, day)
  BY <1>2 DEF Core, TrimmedAway, TrimmedAtLimit, TrimmedAreNew, ItemsOf
<1>10. Chained(X \ dead, S, A, day)
  <2> SUFFICES ASSUME NEW w \in Words
               PROVE  ChainedFollowUps(CardsOf(X \ dead, w), S[w], AnswersFor(A, CardsOf(X \ dead, w)), day)
    BY DEF Chained
  <2>1. CardsOf(X \ dead, w) = CardsOf(X, w) \ dead
    BY DEF CardsOf
  <2>2. AnswersFor(A, CardsOf(X, w) \ dead) = AnswersFor(A, CardsOf(X, w))
    BY DEF AnswersFor, CardsOf, Core, AnswersMatch
  <2>3. ChainedFollowUps(CardsOf(X, w), S[w], AnswersFor(A, CardsOf(X, w)), day)
    BY DEF Core, Chained
  <2> QED BY <2>1, <2>2, <2>3, RemovedChained
<1> QED BY <1>2, <1>4, <1>5, <1>6, <1>7, <1>8, <1>9, <1>10 DEF Core

(***************************************************************************)
(* New cards of words without a row or a new card, while the limit leaves  *)
(* room, and review cards of words that are learnt, but not since today,   *)
(* can be added.                                                           *)
(***************************************************************************)
StandsToday(X, w, day) == \E i \in X : i.word = w /\ i.type = "new" /\ i.day = day /\ ~Pending(i)

Addable(X, S, A, day, i) ==
  /\ Pending(i) /\ i.day = day
  /\ \A j \in X : j.id # i.id
  /\ \A a \in A : i.id \notin a.created
  /\ IF i.type = "new"
     THEN /\ S[i.word].status = "none"
          /\ \A j \in X : j.type = "new" => j.word # i.word
          /\ Cardinality(LearntCards(X, S, day)) < NewLimit
     ELSE Learnt(S[i.word]) /\ ~i.bonus /\ ~StandsToday(X, i.word, day)

LEMMA AddedCore ==
  ASSUME NEW day, NEW X, NEW S, NEW A, Core(X, S, A, day),
         NEW new \in SUBSET Item, IsFiniteSet(new), UniqueIds(new), OneNewCard(new),
         \A i \in new : Addable(X, S, A, day, i)
  PROVE  /\ Core(X \cup new, S, A, day)
         /\ LearntCards(X \cup new, S, day) = LearntCards(X, S, day)
<1>0. \A i \in new : Pending(i) /\ i.day = day /\ \A j \in X : j.id # i.id
  BY DEF Addable
<1>1. \A i \in X \cup new : ~Pending(i) => i \in X
  BY <1>0
<1>2. \A y : LearntCards(X \cup new, S, y) = LearntCards(X, S, y)
  BY <1>1 DEF LearntCards, ItemsOf
<1>3. \A i : LearntBefore(X \cup new, S, i) = LearntBefore(X, S, i)
  BY <1>2 DEF LearntBefore
<1>4. Typed(X \cup new, S, A)
  <2>1. UniqueIds(X \cup new)
    BY <1>0 DEF Core, Typed, UniqueIds
  <2> QED BY <2>1, FS_Union DEF Core, Typed
<1>5. OneNewCard(X \cup new)
  BY DEF Core, OneNewCard, Addable
<1>6. NewUntilAnswered(X \cup new, S) /\ ReviewsAreLearnt(X \cup new, S)
  BY DEF Core, NewUntilAnswered, ReviewsAreLearnt, Addable
<1>7. StampsAreUnique(X \cup new)
  <2> SUFFICES ASSUME NEW i \in X \cup new, NEW j \in X \cup new,
                      ~Pending(i), i.day = j.day, i.done = j.done
               PROVE  i = j
    BY DEF StampsAreUnique
  <2>1. i \in X /\ j \in X
    BY <1>1 DEF Pending
  <2> QED BY <2>1 DEF Core, StampsAreUnique
<1>8. AnswersMatch(X \cup new, A)
  <2>1. \A a \in A, i \in X \cup new : i.id = a.item => i \in X
    BY <1>0 DEF Core, AnswersMatch
  <2>2. \A a \in A, i \in X \cup new : i.id \in a.created => i \in X
    BY DEF Addable
  <2> QED BY <2>1, <2>2 DEF Core, AnswersMatch
<1>9. AnsweredWithinLimit(X \cup new, S, day)
  BY <1>1, <1>3 DEF Core, AnsweredWithinLimit, ItemsOf
<1>10. TrimmedAway(X \cup new, S, A, day)
  <2> SUFFICES ASSUME NEW a \in A, NEW i \in X \cup new, i.id = a.item, i.day = day
               PROVE  TrimmedAtLimit(X \cup new, S, a, i) /\ TrimmedAreNew(X \cup new, S, a)
    BY DEF TrimmedAway
  <2>1. i \in X
    BY <1>0 DEF Core, AnswersMatch
  <2>2. TrimmedAtLimit(X, S, a, i) /\ TrimmedAreNew(X, S, a)
    BY <2>1 DEF Core, TrimmedAway
  <2>3. TrimmedAtLimit(X \cup new, S, a, i)
    BY <1>1, <1>2, <2>2 DEF TrimmedAtLimit, ItemsOf
  <2>4. a.deleted # {} => \A j \in new : j.type # "new"
    <3> SUFFICES ASSUME a.deleted # {}, NEW j \in new, j.type = "new" PROVE FALSE
      OBVIOUS
    <3>1. Cardinality(LearntCards(X, S, day)) < NewLimit
      BY DEF Addable
    <3>2. Cardinality(LearntCards(X, S, day)) >= NewLimit
      BY <2>2 DEF TrimmedAtLimit
    <3>3. Cardinality(LearntCards(X, S, day)) \in Nat /\ NewLimit \in Nat
      BY LearntCardsAreFinite, DailyAssumption DEF Core, Typed
    <3> QED BY <3>1, <3>2, <3>3
  <2>5. TrimmedAreNew(X \cup new, S, a)
    BY <2>2, <2>4 DEF TrimmedAreNew
  <2> QED BY <2>3, <2>5
<1>11. Chained(X \cup new, S, A, day)
  <2> SUFFICES ASSUME NEW w \in Words
               PROVE  ChainedFollowUps(CardsOf(X \cup new, w), S[w], AnswersFor(A, CardsOf(X \cup new, w)), day)
    BY DEF Chained
  <2>1. CASE StandsToday(X, w, day)
    <3>1. \A i \in new : i.word # w
      BY <2>1 DEF Addable, StandsToday
    <3>2. CardsOf(X \cup new, w) = CardsOf(X, w)
      BY <3>1 DEF CardsOf
    <3> QED BY <3>2 DEF Core, Chained
  <2>2. CASE ~StandsToday(X, w, day)
    BY <1>1, <2>2 DEF StandsToday, ChainedFollowUps, CardsOf
  <2> QED BY <2>1, <2>2
<1> QED BY <1>2, <1>4, <1>5, <1>6, <1>7, <1>8, <1>9, <1>10, <1>11 DEF Core

(***************************************************************************)
(* Review cards can be given other due times.                              *)
(***************************************************************************)
SameButDue(i, j) ==
  /\ i.id = j.id /\ i.day = j.day /\ i.word = j.word /\ i.type = j.type /\ i.bonus = j.bonus
  /\ i.done = j.done
  /\ i.type = "new" => i = j

LEMMA RereadCore ==
  ASSUME NEW day, NEW X, NEW S, NEW A, Core(X, S, A, day),
         NEW f \in [X -> Item], \A i \in X : SameButDue(f[i], i),
         NEW Y, Y = {f[i] : i \in X}
  PROVE  /\ Core(Y, S, A, day)
         /\ \A y, type : type = "new" => ItemsOf(Y, y, type) = ItemsOf(X, y, type)
         /\ LearntCards(Y, S, day) = LearntCards(X, S, day)
<1>1. /\ \A i \in X : f[i] \in Y /\ SameButDue(f[i], i)
      /\ \A j \in Y : \E i \in X : j = f[i]
  OBVIOUS
<1>2. \A i \in X, j \in X : f[i] # f[j] => i # j
  OBVIOUS
<1>3. \A y, type : type = "new" => ItemsOf(Y, y, type) = ItemsOf(X, y, type)
  BY <1>1 DEF ItemsOf, SameButDue
<1>4. \A y : LearntCards(Y, S, y) = LearntCards(X, S, y)
  BY <1>3 DEF LearntCards
<1>5. \A i : LearntBefore(Y, S, i) = LearntBefore(X, S, i)
  BY <1>4 DEF LearntBefore
<1>6. Typed(Y, S, A)
  <2>1. IsFiniteSet(Y)
    BY ImageIsFinite DEF Core, Typed
  <2>2. UniqueIds(Y)
    BY <1>1 DEF Core, Typed, UniqueIds, SameButDue
  <2> QED BY <2>1, <2>2 DEF Core, Typed
<1>7. OneNewCard(Y) /\ NewUntilAnswered(Y, S) /\ ReviewsAreLearnt(Y, S)
  BY <1>1 DEF Core, OneNewCard, NewUntilAnswered, ReviewsAreLearnt, SameButDue, Pending
<1>8. StampsAreUnique(Y)
  BY <1>1 DEF Core, StampsAreUnique, SameButDue, Pending
<1>9. AnswersMatch(Y, A)
  <2>1. \A a \in A : \E i \in Y : i.id = a.item
    BY <1>1 DEF Core, AnswersMatch, SameButDue
  <2>2. ASSUME NEW a \in A, NEW i \in Y, i.id = a.item
        PROVE  /\ ~Pending(i)
               /\ IF i.type = "new" THEN a.prev = NoRow ELSE Learnt(a.prev)
               /\ \A j \in Y : j.id \in a.created => j.type = "new" \/ j.word = i.word
    <3>1. PICK k \in X : i = f[k]
      BY <1>1
    <3>2. k.id = a.item /\ i.type = k.type /\ i.word = k.word /\ i.done = k.done
      BY <1>1, <2>2, <3>1 DEF SameButDue
    <3>3. /\ ~Pending(k)
          /\ IF k.type = "new" THEN a.prev = NoRow ELSE Learnt(a.prev)
          /\ \A j \in X : j.id \in a.created => j.type = "new" \/ j.word = k.word
      BY <3>2 DEF Core, AnswersMatch
    <3>4. \A j \in Y : j.id \in a.created => j.type = "new" \/ j.word = i.word
      BY <1>1, <3>2, <3>3 DEF SameButDue
    <3> QED BY <3>2, <3>3, <3>4 DEF Pending
  <2> QED BY <2>1, <2>2 DEF Core, AnswersMatch
<1>10. AnsweredWithinLimit(Y, S, day)
  BY <1>3, <1>5 DEF Core, AnsweredWithinLimit
<1>11. TrimmedAway(Y, S, A, day)
  <2> SUFFICES ASSUME NEW a \in A, NEW i \in Y, i.id = a.item, i.day = day
               PROVE  TrimmedAtLimit(Y, S, a, i) /\ TrimmedAreNew(Y, S, a)
    BY DEF TrimmedAway
  <2>1. PICK k \in X : i = f[k]
    BY <1>1
  <2>2. k.id = a.item /\ k.day = day /\ k.type = i.type /\ k.done = i.done
    BY <1>1, <2>1 DEF SameButDue
  <2>3. TrimmedAtLimit(X, S, a, k) /\ TrimmedAreNew(X, S, a)
    BY <2>2 DEF Core, TrimmedAway
  <2>4. TrimmedAtLimit(Y, S, a, i)
    BY <1>3, <1>4, <2>2, <2>3 DEF TrimmedAtLimit
  <2>5. \A j \in Y : j.type = "new" => j \in X
    BY <1>1 DEF SameButDue
  <2>6. TrimmedAreNew(Y, S, a)
    BY <2>3, <2>5 DEF TrimmedAreNew
  <2> QED BY <2>4, <2>6
<1>12. Chained(Y, S, A, day)
  <2> SUFFICES ASSUME NEW w \in Words
               PROVE  ChainedFollowUps(CardsOf(Y, w), S[w], AnswersFor(A, CardsOf(Y, w)), day)
    BY DEF Chained
  <2> DEFINE C == CardsOf(X, w)
             D == CardsOf(Y, w)
             B == AnswersFor(A, C)
  <2>1. /\ \A i \in C : f[i] \in D /\ SameButDue(f[i], i)
        /\ \A j \in D : \E i \in C : j = f[i]
    BY <1>1 DEF CardsOf, SameButDue
  <2>2. AnswersFor(A, D) = B
    <3> HIDE DEF C, D
    <3> QED BY <2>1 DEF AnswersFor, SameButDue
  <2>3. ChainedFollowUps(C, S[w], B, day)
    BY DEF Core, Chained
  <2> HIDE DEF C, D, B
  <2>4. ASSUME NEW j \in C, FollowsUp(C, B, j) PROVE FollowsUp(D, B, f[j])
    <3>1. PICK k \in C, b \in B :
            /\ b.item = k.id /\ j.id \in b.created
            /\ ~Pending(k) /\ (~Pending(j) => k.done < j.done)
            /\ \A c \in C : ~Pending(c) /\ c # j => c.done <= k.done \/ (~Pending(j) /\ j.done < c.done)
      BY <2>4 DEF FollowsUp
    <3>2. /\ b.item = f[k].id /\ f[j].id \in b.created
          /\ ~Pending(f[k]) /\ (~Pending(f[j]) => f[k].done < f[j].done)
      BY <2>1, <3>1 DEF SameButDue, Pending
    <3>3. \A c \in D : ~Pending(c) /\ c # f[j] => c.done <= f[k].done \/ (~Pending(f[j]) /\ f[j].done < c.done)
      BY <2>1, <3>1 DEF SameButDue, Pending
    <3> QED BY <2>1, <3>2, <3>3 DEF FollowsUp
  <2>5. ChainedFollowUps(D, S[w], B, day)
    <3> SUFFICES ASSUME NEW e \in C, f[e].type = "new" /\ f[e].day = day /\ ~Pending(f[e])
                 PROVE  /\ S[w].status \in {"learning", "known"}
                        /\ \A j \in D : j # f[e] =>
                             /\ j.type = "short_term" /\ j.day = day
                             /\ FollowsUp(D, B, j)
                             /\ IF Pending(j) THEN SmallStep(S[w]) ELSE f[e].done < j.done
                        /\ \A b \in B, k \in D : b.item = k.id =>
                             /\ k # f[e] => SmallStep(b.prev)
                             /\ \A j, l \in D : j.id \in b.created /\ l.id \in b.created => j = l
                        /\ S[w].due # Null /\ Day(S[w].due) <= day => \E j \in D : j.type = "short_term"
      BY <2>1 DEF ChainedFollowUps
    <3>1. e.type = "new" /\ e.day = day /\ ~Pending(e)
      BY <2>1 DEF SameButDue, Pending
    <3>2. /\ S[w].status \in {"learning", "known"}
          /\ \A j \in C : j # e =>
               /\ j.type = "short_term" /\ j.day = day
               /\ FollowsUp(C, B, j)
               /\ IF Pending(j) THEN SmallStep(S[w]) ELSE e.done < j.done
          /\ \A b \in B, k \in C : b.item = k.id =>
               /\ k # e => SmallStep(b.prev)
               /\ \A j, l \in C : j.id \in b.created /\ l.id \in b.created => j = l
          /\ S[w].due # Null /\ Day(S[w].due) <= day => \E j \in C : j.type = "short_term"
      BY <2>3, <3>1 DEF ChainedFollowUps
    <3>3. ASSUME NEW j \in D, j # f[e]
          PROVE  /\ j.type = "short_term" /\ j.day = day
                 /\ FollowsUp(D, B, j)
                 /\ IF Pending(j) THEN SmallStep(S[w]) ELSE f[e].done < j.done
      <4>1. PICK i \in C : j = f[i]
        BY <2>1
      <4>2. i # e
        BY <3>3, <4>1
      <4> QED BY <2>1, <2>4, <3>2, <4>1, <4>2 DEF SameButDue, Pending
    <3>4. ASSUME NEW b \in B, NEW k \in D, b.item = k.id
          PROVE  /\ k # f[e] => SmallStep(b.prev)
                 /\ \A j, l \in D : j.id \in b.created /\ l.id \in b.created => j = l
      <4>1. PICK i \in C : k = f[i]
        BY <2>1
      <4>2. b.item = i.id
        BY <2>1, <3>4, <4>1 DEF SameButDue
      <4>3. (i # e => SmallStep(b.prev)) /\ \A j, l \in C : j.id \in b.created /\ l.id \in b.created => j = l
        BY <3>2, <4>2
      <4>4. \A j, l \in D : j.id \in b.created /\ l.id \in b.created => j = l
        BY <2>1, <4>3 DEF SameButDue
      <4> QED BY <4>1, <4>3, <4>4
    <3>5. (\E j \in C : j.type = "short_term") => \E j \in D : j.type = "short_term"
      BY <2>1 DEF SameButDue
    <3> QED BY <3>2, <3>3, <3>4, <3>5
  <2> QED BY <2>2, <2>5 DEF D
<1> QED BY <1>3, <1>4, <1>6, <1>7, <1>8, <1>9, <1>10, <1>11, <1>12 DEF Core

---------------------------------------------------------------------------
(* Local days *)

LEMMA DayBounds ==
  ASSUME NEW t \in Nat
  PROVE  /\ Day(t) \in Nat
         /\ Day(t) * DayLen <= t
         /\ t < (Day(t) + 1) * DayLen
BY DailyAssumption DEF Day

LEMMA DayIsMonotonic ==
  ASSUME NEW t \in Nat, NEW u \in Nat, t <= u
  PROVE  Day(t) <= Day(u)
BY DailyAssumption DEF Day

LEMMA DayOfEarlier ==
  ASSUME NEW t \in Nat, NEW n \in Nat, n <= EndOfDay(t)
  PROVE  Day(n) <= Day(t)
BY DailyAssumption DEF Day, EndOfDay

LEMMA DayLater ==
  ASSUME NEW t \in Nat, NEW n \in Nat, DayLen <= n
  PROVE  Day(t + n) > Day(t)
BY DailyAssumption DEF Day

---------------------------------------------------------------------------
(* The pool is opened *)

(***************************************************************************)
(* The answers A that count while a request is under way: those recorded,  *)
(* and the one to be, which so far has created cards of the pool.          *)
(***************************************************************************)
Known(d, A, day) ==
  /\ d.answers \subseteq A
  /\ \A a \in A : \/ a \in d.answers
                  \/ \A n \in a.created : \E i \in d.items : i.id = n /\ i.day = day /\ i.type # "new"

LEMMA IdsAreKnown ==
  ASSUME NEW d, Sound(d), NEW A, NEW day, Known(d, A, day)
  PROVE  /\ LastId(d) \in Nat
         /\ \A i \in d.items : i.id \in Nat /\ i.id <= LastId(d)
         /\ \A a \in A : \A n \in a.created : n <= LastId(d)
BY LastIdIsUpper DEF Known, Sound, DB, Item

(***************************************************************************)
(* A request goes on: the rows and the answered new cards stay, and what   *)
(* holds of a planned day still does.                                      *)
(***************************************************************************)
AnsweredNew(X) == {i \in X : i.type = "new" /\ ~Pending(i)}

Goes(d, e, A, day) ==
  /\ Core(e.items, e.states, A, day)
  /\ Known(e, A, day)
  /\ e.states = d.states /\ e.answers = d.answers
  /\ AnsweredNew(e.items) = AnsweredNew(d.items)
  /\ LearntCards(e.items, e.states, day) = LearntCards(d.items, d.states, day)

AddableAs(d, day, c) ==
  IF c.type = "new"
  THEN /\ d.states[c.word].status = "none"
       /\ \A j \in d.items : j.type = "new" => j.word # c.word
       /\ Cardinality(LearntCards(d.items, d.states, day)) < NewLimit
  ELSE Learnt(d.states[c.word]) /\ ~c.bonus /\ ~StandsToday(d.items, c.word, day)

LEMMA DealtPlanned ==
  ASSUME NEW d, Sound(d), NEW day \in Days, NEW A,
         Core(d.items, d.states, A, day), Known(d, A, day),
         NEW cards \in SUBSET Card, IsFiniteSet(cards),
         \A c \in cards : AddableAs(d, day, c),
         \A b, c \in cards : b.type = "new" /\ c.type = "new" /\ b.word = c.word => b = c,
         NEW e, e = AppendCounted(d, day, cards)
  PROVE  /\ Goes(d, e, A, day)
         /\ (\A c \in cards : c.type # "new") =>
              ItemsOf(e.items, day, "new") = ItemsOf(d.items, day, "new")
         /\ \A i \in e.items : i \in d.items \/ \E c \in cards : DealtAs(d, day, c, i)
<1>1. PICK f \in [cards -> Item] :
        /\ AppendPoolItems(d, day, cards) = [d EXCEPT !.items = d.items \cup {f[c] : c \in cards}]
        /\ \A c \in cards : DealtAs(d, day, c, f[c])
        /\ \A b, c \in cards : f[b].id = f[c].id => b = c
  BY DealtCards
<1> DEFINE new == {f[c] : c \in cards}
<1>2. e.items = d.items \cup new /\ e.states = d.states /\ e.answers = d.answers
  <2>1. AppendPoolItems(d, day, cards).items = d.items \cup new
    BY <1>1 DEF Sound, DB
  <2> QED BY <2>1, DealtCounted
<1>3. /\ new \in SUBSET Item /\ \A c \in cards : f[c] \in new
      /\ \A i \in new : \E c \in cards : i = f[c]
  OBVIOUS
<1>4. IsFiniteSet(new)
  BY ImageIsFinite
<1> HIDE DEF new
<1>5. UniqueIds(new)
  BY <1>1, <1>3 DEF UniqueIds
<1>6. OneNewCard(new)
  BY <1>1, <1>3 DEF OneNewCard, DealtAs
<1>7. /\ LastId(d) \in Nat
      /\ \A i \in d.items : i.id \in Nat /\ i.id <= LastId(d)
      /\ \A a \in A : \A n \in a.created : n <= LastId(d)
  BY IdsAreKnown
<1>8. \A i \in new : Addable(d.items, d.states, A, day, i)
  <2> SUFFICES ASSUME NEW c \in cards PROVE Addable(d.items, d.states, A, day, f[c])
    BY <1>3
  <2>1. DealtAs(d, day, c, f[c]) /\ f[c].id \in Nat /\ ~(f[c].id <= LastId(d))
    <3>1. f[c].id \in Nat /\ DealtAs(d, day, c, f[c])
      BY <1>1 DEF Item
    <3> QED BY <1>7, <3>1 DEF DealtAs
  <2>2. (\A j \in d.items : j.id # f[c].id) /\ \A a \in A : f[c].id \notin a.created
    BY <1>7, <2>1
  <2> QED BY <2>1, <2>2 DEF AddableAs, DealtAs, Addable
<1>9. /\ Core(d.items \cup new, d.states, A, day)
      /\ LearntCards(d.items \cup new, d.states, day) = LearntCards(d.items, d.states, day)
  BY <1>3, <1>4, <1>5, <1>6, <1>8, AddedCore
<1>10. Known(e, A, day)
  BY <1>2 DEF Known
<1>11. (\A c \in cards : c.type # "new") =>
          ItemsOf(e.items, day, "new") = ItemsOf(d.items, day, "new")
  BY <1>1, <1>2, <1>3 DEF ItemsOf, DealtAs
<1>12. \A i \in e.items : i \in d.items \/ \E c \in cards : DealtAs(d, day, c, i)
  BY <1>1, <1>2, <1>3
<1>13. AnsweredNew(e.items) = AnsweredNew(d.items)
  BY <1>2, <1>12 DEF AnsweredNew, DealtAs
<1> QED BY <1>2, <1>9, <1>10, <1>11, <1>12, <1>13 DEF Goes

LEMMA GoesThrough ==
  ASSUME NEW d, NEW e, NEW g, NEW A, NEW day, Goes(d, e, A, day), Goes(e, g, A, day)
  PROVE  Goes(d, g, A, day)
BY DEF Goes

LEMMA PrunePlanned ==
  ASSUME NEW d, Sound(d), NEW t \in Nat, NEW A,
         Core(d.items, d.states, A, Day(t)), Known(d, A, Day(t)),
         NEW e, e = PruneStaleItems(d, t)
  PROVE  /\ Goes(d, e, A, Day(t))
         /\ ItemsOf(e.items, Day(t), "new") = ItemsOf(d.items, Day(t), "new")
<1> DEFINE dead == {i \in d.items : i.day < Day(t) /\ Pending(i)}
<1>1. /\ e.items = d.items \ dead /\ e.states = d.states
      /\ e.answers = {a \in d.answers : \A i \in dead : i.id # a.item}
  BY DEF PruneStaleItems, RemoveItems, Sound, DB
<1>2. \A i \in dead : i.day # Day(t) /\ Pending(i) /\ i \in d.items
  BY DayIsNat
<1> HIDE DEF dead
<1>3. /\ Core(d.items \ dead, d.states, A, Day(t))
      /\ LearntCards(d.items \ dead, d.states, Day(t)) = LearntCards(d.items, d.states, Day(t))
  BY <1>2, RemovedCore
<1>4. e.answers = d.answers
  <2>1. \A a \in d.answers, i \in dead : i.id # a.item
    BY <1>2 DEF Known, Core, AnswersMatch
  <2> QED BY <1>1, <2>1
<1>4a. Known(e, A, Day(t))
  <2> SUFFICES ASSUME NEW a \in A
               PROVE  \/ a \in e.answers
                      \/ \A n \in a.created :
                           \E i \in e.items : i.id = n /\ i.day = Day(t) /\ i.type # "new"
    BY <1>4 DEF Known
  <2>1. CASE a \in d.answers
    BY <1>4, <2>1
  <2>2. CASE a \notin d.answers
    <3>1. \A n \in a.created : \E i \in d.items : i.id = n /\ i.day = Day(t) /\ i.type # "new"
      BY <2>2 DEF Known
    <3> QED BY <1>1, <1>2, <3>1
  <2> QED BY <2>1, <2>2
<1>5. ItemsOf(e.items, Day(t), "new") = ItemsOf(d.items, Day(t), "new")
  BY <1>1, <1>2 DEF ItemsOf
<1>6. AnsweredNew(e.items) = AnsweredNew(d.items)
  BY <1>1, <1>2 DEF AnsweredNew
<1> QED BY <1>1, <1>3, <1>4, <1>4a, <1>5, <1>6 DEF Goes

(***************************************************************************)
(* A word that is new today has its cards already when it is due.          *)
(***************************************************************************)
LEMMA StandingIsCovered ==
  ASSUME NEW t \in Nat, NEW d, Sound(d), NEW A, Core(d.items, d.states, A, Day(t)),
         NEW w \in Words, StandsToday(d.items, w, Day(t))
  PROVE  /\ w \notin DueReview(d, t)
         /\ w \in DueShortTerm(d, t) =>
              \E j \in PoolItems(d, Day(t)) : j.word = w /\ j.type = "short_term"
<1> DEFINE C == CardsOf(d.items, w)
           row == d.states[w]
<1>1. PICK i \in C : i.type = "new" /\ i.day = Day(t) /\ ~Pending(i)
  BY DEF StandsToday, CardsOf
<1>2. ChainedFollowUps(C, row, AnswersFor(A, C), Day(t))
  BY DEF Core, Chained
<1>3. /\ row.status \in {"learning", "known"}
      /\ \A j \in C : j # i => j.day = Day(t)
      /\ row.due # Null /\ Day(row.due) <= Day(t) => \E j \in C : j.type = "short_term"
  BY <1>1, <1>2 DEF ChainedFollowUps
<1>4. w \notin DueReview(d, t)
  BY <1>3 DEF DueReview, IsReviewDue
<1>5. ASSUME w \in DueShortTerm(d, t)
      PROVE  \E j \in PoolItems(d, Day(t)) : j.word = w /\ j.type = "short_term"
  <2>1. row.due # Null /\ row.due <= EndOfDay(t) /\ row.due \in Nat
    BY <1>5 DEF DueShortTerm, IsShortTermDue, Sound, DB, StateRow
  <2>2. Day(row.due) <= Day(t)
    BY <2>1, DayOfEarlier
  <2>3. PICK j \in C : j.type = "short_term"
    BY <1>3, <2>1, <2>2
  <2>4. j \in d.items /\ j.word = w /\ j.day = Day(t)
    BY <1>1, <1>3, <2>3 DEF CardsOf
  <2> QED BY <2>3, <2>4 DEF PoolItems
<1> QED BY <1>4, <1>5

LEMMA ReconcilePlanned ==
  ASSUME NEW t \in Nat, Day(t) \in Days, NEW d, Sound(d), NEW A,
         Core(d.items, d.states, A, Day(t)), Known(d, A, Day(t)),
         NEW e, e = ReconcileScheduledPoolItems(d, t)
  PROVE  /\ Goes(d, e, A, Day(t))
         /\ ItemsOf(e.items, Day(t), "new") = ItemsOf(d.items, Day(t), "new")
<1> DEFINE has(w, type) == \E i \in PoolItems(d, Day(t)) : i.word = w /\ i.type = type
           short == {w \in DueShortTerm(d, t) : ~has(w, "short_term")}
           review == {w \in DueReview(d, t) : ~has(w, "review")}
           missing == ReviewCards(d, short, "short_term") \cup ReviewCards(d, review, "review")
<1>1. short \in SUBSET Words /\ review \in SUBSET Words
  BY DEF DueShortTerm, DueReview
<1>2. e = AppendCounted(d, Day(t), missing)
  BY DEF ReconcileScheduledPoolItems
<1>3. \A w \in short \cup review : Learnt(d.states[w]) /\ ~StandsToday(d.items, w, Day(t))
  <2>1. \A w \in short \cup review : Learnt(d.states[w])
    BY DEF DueShortTerm, IsShortTermDue, DueReview, IsReviewDue, Learnt
  <2>2. \A w \in short \cup review : ~StandsToday(d.items, w, Day(t))
    BY <1>1, StandingIsCovered
  <2> QED BY <2>1, <2>2
<1> HIDE DEF short, review
<1>4. missing \in SUBSET Card /\ IsFiniteSet(missing)
  <2>1. "short_term" \in ItemTypes /\ "review" \in ItemTypes
    BY DEF ItemTypes
  <2> QED BY <1>1, <2>1, ReviewCardsAreCards, FS_Union
<1>5. \A c \in missing : c.type # "new" /\ ~c.bonus /\ c.word \in short \cup review
  BY DEF ReviewCards
<1> HIDE DEF missing
<1>6. \A c \in missing : AddableAs(d, Day(t), c)
  BY <1>3, <1>5 DEF AddableAs
<1>7. \A b, c \in missing : b.type = "new" /\ c.type = "new" /\ b.word = c.word => b = c
  BY <1>5
<1> QED BY <1>2, <1>4, <1>5, <1>6, <1>7, DealtPlanned

LEMMA SyncPlanned ==
  ASSUME NEW t, NEW d, Sound(d), NEW A, NEW day,
         Core(d.items, d.states, A, day), Known(d, A, day),
         NEW e, e = SyncPendingPoolItems(d, t)
  PROVE  /\ Goes(d, e, A, day)
         /\ ItemsOf(e.items, day, "new") = ItemsOf(d.items, day, "new")
<1> DEFINE synced(i) ==
             IF i.day = Day(t) /\ Pending(i) /\ i.type # "new" /\ HasRow(d, i.word)
             THEN [i EXCEPT !.due = IF i.bonus THEN Null ELSE d.states[i.word].due]
             ELSE i
           f == [i \in d.items |-> synced(i)]
<1>1. e.items = {synced(i) : i \in d.items} /\ e.states = d.states /\ e.answers = d.answers
  BY DEF SyncPendingPoolItems, Sound, DB
<1>2. \A i \in d.items : synced(i) \in Item /\ SameButDue(synced(i), i)
  <2> TAKE i \in d.items
  <2>1. i \in Item
    BY DEF Sound, DB
  <2>2. d.states[i.word].due \in Nat \cup {Null}
    BY <2>1 DEF Sound, DB, StateRow, Item
  <2> QED BY <2>1, <2>2 DEF Item, SameButDue
<1> HIDE DEF synced
<1>3. f \in [d.items -> Item] /\ (\A i \in d.items : SameButDue(f[i], i)) /\ e.items = {f[i] : i \in d.items}
  BY <1>1, <1>2
<1>4. \A i \in d.items : f[i] \in e.items
  BY <1>1
<1> HIDE DEF f
<1>5. /\ Core(e.items, d.states, A, day)
      /\ \A y, type : type = "new" => ItemsOf(e.items, y, type) = ItemsOf(d.items, y, type)
      /\ LearntCards(e.items, d.states, day) = LearntCards(d.items, d.states, day)
  BY <1>3, RereadCore
<1>6. Known(e, A, day)
  BY <1>1, <1>3, <1>4 DEF Known, SameButDue
<1>7. AnsweredNew(e.items) = AnsweredNew(d.items)
  BY <1>3, <1>4 DEF AnsweredNew, SameButDue, Pending
<1> QED BY <1>1, <1>5, <1>6, <1>7 DEF Goes

Room(d, day) == RoomForTheBuffer(d.items, d.states, day)

LEMMA SameRoom ==
  ASSUME NEW d, NEW e, NEW A, NEW day, Goes(d, e, A, day), Room(d, day),
         ItemsOf(e.items, day, "new") = ItemsOf(d.items, day, "new")
  PROVE  Room(e, day)
BY DEF Goes, Room, RoomForTheBuffer

LEMMA DealtRoom ==
  ASSUME NEW d, NEW e, NEW A, NEW day, Goes(d, e, A, day),
         NEW c, c.type = "new", AddableAs(d, day, c)
  PROVE  Room(e, day)
BY DEF Goes, Room, RoomForTheBuffer, AddableAs

LEMMA GeneratedAreAddable ==
  ASSUME NEW d, NEW day, NEW quota, NEW ws \in GenerateNewWords(d, day, quota),
         Cardinality(LearntCards(d.items, d.states, day)) < NewLimit,
         NEW c \in NewCards(ws)
  PROVE  AddableAs(d, day, c) /\ c.type = "new"
BY DEF GenerateNewWords, NewCards, AddableAs, HasRow

LEMMA NewCardsAreOfWords ==
  ASSUME NEW ws, NEW b \in NewCards(ws), NEW c \in NewCards(ws), b.word = c.word
  PROVE  b = c
<1>1. PICK v \in ws : b = [word |-> v, type |-> "new", bonus |-> FALSE, due |-> Null]
  BY DEF NewCards
<1>2. PICK w \in ws : c = [word |-> w, type |-> "new", bonus |-> FALSE, due |-> Null]
  BY DEF NewCards
<1> QED BY <1>1, <1>2

LEMMA SomeWordMeansALimit ==
  ASSUME NEW d, NEW day, NEW ws \in GenerateNewWords(d, day, PrefetchBatchSize), ws # {}
  PROVE  0 < NewLimit
<1>1. IsFiniteSet(ws) /\ Cardinality(ws) <= 2 * NewLimit
  BY GeneratedAreWords, WordsAreFinite DEF GenerateNewWords, PrefetchBatchSize
<1>2. Cardinality(ws) \in Nat /\ Cardinality(ws) # 0
  BY <1>1, FS_CardinalityType, FS_EmptySet
<1> QED BY <1>1, <1>2, DailyAssumption

LEMMA CreateDailyPoolPlanned ==
  ASSUME NEW t \in Nat, Day(t) \in Days, NEW d, Sound(d), NEW A,
         Core(d.items, d.states, A, Day(t)), Known(d, A, Day(t)),
         PoolItems(d, Day(t)) = {},
         NEW r \in CreateDailyPool(d, t)
  PROVE  Goes(d, r.db, A, Day(t)) /\ Room(r.db, Day(t))
<1> DEFINE day == Day(t)
           due == DueShortTerm(d, t) \cup DueReview(d, t)
           weaks == Picks({w \in Words \ due : IsWeakCandidate(d.states[w])}, WeakSlots)
           opened == [d EXCEPT !.pools[day] = [NoPool EXCEPT !.open = TRUE]]
           reviews(weak) == ReviewCards(d, DueShortTerm(d, t), "short_term")
                              \cup ReviewCards(d, DueReview(d, t), "review")
                              \cup ReviewCards(d, weak, "weak")
           dealt(weak, new) == AppendCounted(opened, day, reviews(weak) \cup NewCards(new))
           results(weak) ==
             {IF reviews(weak) = {} /\ new = {} /\ NewLimit > 0
              THEN [ok |-> FALSE, db |-> d]
              ELSE [ok |-> TRUE, db |-> dealt(weak, new)] :
                new \in GenerateNewWords(d, day, PrefetchBatchSize)}
<1>1. PICK weak \in weaks : r \in results(weak)
  <2>1. CreateDailyPool(d, t) = UNION {results(weak) : weak \in weaks}
    BY DEF CreateDailyPool
  <2> HIDE DEF results, weaks
  <2> QED BY <2>1
<1> HIDE DEF dealt
<1>2. PICK new \in GenerateNewWords(d, day, PrefetchBatchSize) :
        r.db = d \/ r.db = dealt(weak, new)
  BY <1>1
<1> USE DEF dealt
<1>3. weak \in SUBSET Words /\ new \in SUBSET Words /\ \A w \in weak : IsWeakCandidate(d.states[w])
  BY GeneratedAreWords DEF Picks
<1>4. /\ DueShortTerm(d, t) \in SUBSET Words /\ DueReview(d, t) \in SUBSET Words
      /\ {"short_term", "review", "weak"} \subseteq ItemTypes
  BY DEF DueShortTerm, DueReview, ItemTypes
<1>5. reviews(weak) \cup NewCards(new) \in SUBSET Card
  BY <1>3, <1>4, ReviewCardsAreCards, NewCardsAreCards
<1>6. IsFiniteSet(reviews(weak) \cup NewCards(new))
  BY <1>3, <1>4, ReviewCardsAreCards, NewCardsAreCards, FS_Union
<1>7. /\ Sound(opened) /\ opened.items = d.items /\ opened.states = d.states
      /\ opened.answers = d.answers
  <2> DEFINE pools == [d.pools EXCEPT ![day] = [NoPool EXCEPT !.open = TRUE]]
  <2>1. [NoPool EXCEPT !.open = TRUE] \in Pool
    BY DEF NoPool, NoCounts, Pool, Counts
  <2>2. pools \in [Days -> Pool]
    BY <2>1 DEF Sound, DB
  <2>3. opened = [d EXCEPT !.pools = pools]
    BY DEF Sound, DB
  <2> HIDE DEF pools
  <2>4. Sound(opened)
    BY <2>2, <2>3, ReplacePoolsSound
  <2> QED BY <2>3, <2>4 DEF Sound, DB
<1> HIDE DEF opened
<1>8. LearntCards(d.items, d.states, day) = {} /\ ItemsOf(d.items, day, "new") = {}
  BY DEF LearntCards, ItemsOf, PoolItems
<1>9. Cardinality(LearntCards(d.items, d.states, day)) = 0
  BY <1>8, FS_EmptySet
<1>10. \A c \in reviews(weak) : c.type # "new" /\ AddableAs(opened, day, c)
  <2>1. \A c \in reviews(weak) :
          /\ c.type # "new" /\ ~c.bonus
          /\ c.word \in DueShortTerm(d, t) \cup DueReview(d, t) \cup weak
    BY DEF ReviewCards
  <2>2. \A w \in DueShortTerm(d, t) \cup DueReview(d, t) \cup weak : Learnt(d.states[w])
    BY <1>3 DEF DueShortTerm, IsShortTermDue, DueReview, IsReviewDue, IsWeakCandidate, Learnt
  <2>3. \A w : ~StandsToday(d.items, w, day)
    BY DEF StandsToday, PoolItems
  <2> HIDE DEF reviews
  <2> QED BY <1>7, <2>1, <2>2, <2>3 DEF AddableAs
<1>11. \A c \in NewCards(new) : c.type = "new" /\ AddableAs(opened, day, c)
  <2> SUFFICES ASSUME NEW c \in NewCards(new) PROVE c.type = "new" /\ AddableAs(opened, day, c)
    OBVIOUS
  <2>1. new # {}
    BY DEF NewCards
  <2>2. Cardinality(LearntCards(d.items, d.states, day)) < NewLimit
    BY <1>9, <2>1, SomeWordMeansALimit
  <2>3. AddableAs(d, day, c) /\ c.type = "new"
    BY <2>2, GeneratedAreAddable
  <2> QED BY <1>7, <2>3 DEF AddableAs
<1>12. \A b, c \in reviews(weak) \cup NewCards(new) :
         b.type = "new" /\ c.type = "new" /\ b.word = c.word => b = c
  BY <1>10, NewCardsAreOfWords
<1>13. \A c \in reviews(weak) \cup NewCards(new) : AddableAs(opened, day, c)
  BY <1>10, <1>11
<1>14. Core(opened.items, opened.states, A, day) /\ Known(opened, A, day)
  BY <1>7 DEF Known
<1> HIDE DEF reviews
<1>15. /\ Goes(opened, dealt(weak, new), A, day)
       /\ (\A c \in reviews(weak) \cup NewCards(new) : c.type # "new") =>
            ItemsOf(dealt(weak, new).items, day, "new") = ItemsOf(opened.items, day, "new")
  BY <1>5, <1>6, <1>7, <1>12, <1>13, <1>14, DealtPlanned
<1>16. Room(opened, day) /\ Room(d, day)
  BY <1>7, <1>8 DEF Room, RoomForTheBuffer
<1>17. Room(dealt(weak, new), day)
  <2> HIDE DEF dealt
  <2>1. CASE \A c \in reviews(weak) \cup NewCards(new) : c.type # "new"
    BY <1>15, <1>16, <2>1, SameRoom
  <2>2. CASE \E c \in reviews(weak) \cup NewCards(new) : c.type = "new"
    <3>1. PICK c \in reviews(weak) \cup NewCards(new) : c.type = "new"
      BY <2>2
    <3>2. AddableAs(opened, day, c)
      BY <1>13
    <3> QED BY <1>15, <3>1, <3>2, DealtRoom
  <2> QED BY <2>1, <2>2
<1>18. Goes(d, dealt(weak, new), A, day)
  <2> HIDE DEF dealt
  <2> QED BY <1>7, <1>15 DEF Goes
<1>19. Goes(d, d, A, day)
  BY DEF Goes
<1> HIDE DEF dealt
<1> QED BY <1>2, <1>16, <1>17, <1>18, <1>19

(***************************************************************************)
(* Opening the pool keeps what is planned; the buffer keeps its room, and  *)
(* if the pool is open, its new cards.                                     *)
(***************************************************************************)
LEMMA GetOrCreatePlanned ==
  ASSUME NEW t \in Nat, Day(t) \in Days, NEW d, Coherent(d, Day(t)), NEW A,
         Core(d.items, d.states, A, Day(t)), Known(d, A, Day(t)),
         NEW r \in GetOrCreateDailyPool(d, t)
  PROVE  Goes(d, r.db, A, Day(t)) /\ (Room(d, Day(t)) \/ ~r.ok => Room(r.db, Day(t)))
<1> DEFINE pruned == PruneStaleItems(d, t)
           reconciled == ReconcileScheduledPoolItems(pruned, t)
           synced == SyncPendingPoolItems(reconciled, t)
<1>1. Coherent(pruned, Day(t)) /\ pruned.pools = d.pools
  BY PruneCoherent
<1>2. Sound(d) /\ Sound(pruned)
  BY <1>1 DEF Coherent
<1>3. /\ Goes(d, pruned, A, Day(t))
      /\ ItemsOf(pruned.items, Day(t), "new") = ItemsOf(d.items, Day(t), "new")
  BY <1>2, PrunePlanned
<1>4. \/ pruned.pools[Day(t)].open /\ r.db = synced /\ r.ok
      \/ ~pruned.pools[Day(t)].open /\ r \in CreateDailyPool(pruned, t)
  BY DEF GetOrCreateDailyPool
<1> HIDE DEF pruned
<1>5. Core(pruned.items, pruned.states, A, Day(t)) /\ Known(pruned, A, Day(t))
  BY <1>3 DEF Goes
<1>6. CASE pruned.pools[Day(t)].open /\ r.db = synced /\ r.ok
  <2>1. Coherent(reconciled, Day(t))
    BY <1>1, <1>6, ReconcileCoherent
  <2>2. /\ Goes(pruned, reconciled, A, Day(t))
        /\ ItemsOf(reconciled.items, Day(t), "new") = ItemsOf(pruned.items, Day(t), "new")
    BY <1>2, <1>5, ReconcilePlanned
  <2> HIDE DEF reconciled
  <2>3. Sound(reconciled) /\ Core(reconciled.items, reconciled.states, A, Day(t)) /\ Known(reconciled, A, Day(t))
    BY <2>1, <2>2 DEF Coherent, Goes
  <2>4. /\ Goes(reconciled, synced, A, Day(t))
        /\ ItemsOf(synced.items, Day(t), "new") = ItemsOf(reconciled.items, Day(t), "new")
    BY <2>3, SyncPlanned
  <2> HIDE DEF synced
  <2>5. Goes(d, synced, A, Day(t))
    BY <1>3, <2>2, <2>4, GoesThrough
  <2>6. Room(d, Day(t)) => Room(synced, Day(t))
    BY <1>3, <2>2, <2>4, <2>5, SameRoom
  <2> QED BY <1>6, <2>5, <2>6
<1>7. CASE ~pruned.pools[Day(t)].open /\ r \in CreateDailyPool(pruned, t)
  <2>1. PoolItems(pruned, Day(t)) = {}
    BY <1>1, <1>7 DEF Coherent, ClosedPoolsAreEmpty
  <2>2. Goes(pruned, r.db, A, Day(t)) /\ Room(r.db, Day(t))
    BY <1>2, <1>5, <1>7, <2>1, CreateDailyPoolPlanned
  <2> QED BY <1>3, <2>2, GoesThrough
<1> QED BY <1>4, <1>6, <1>7

---------------------------------------------------------------------------
(* The buffer is maintained *)

LEMMA LearnedIsLearnt ==
  ASSUME NEW d, NEW day
  PROVE  LearnedNewCount(d, day) = Cardinality(LearntCards(d.items, d.states, day))
<1>1. {i \in ItemsOf(d.items, day, "new") :
         ~Pending(i) /\ d.states[i.word].status \notin {"none", "known"}}
        = LearntCards(d.items, d.states, day)
  BY DEF LearntCards, Learnt
<1> QED BY <1>1 DEF LearnedNewCount

LEMMA ReplenishPlanned ==
  ASSUME NEW t \in Nat, Day(t) \in Days, NEW d, Sound(d), NEW A,
         Core(d.items, d.states, A, Day(t)), Known(d, A, Day(t)),
         NEW e \in ReplenishUnknownDailySlots(d, t)
  PROVE  /\ Goes(d, e, A, Day(t)) /\ Room(e, Day(t))
         /\ \A n \in NewIds(d, e) : \E i \in e.items : i.id = n /\ i.type = "new" /\ Pending(i)
<1>1. PICK ws \in GenerateNewWords(d, Day(t), PrefetchBatchSize) :
        /\ e = AppendCounted(d, Day(t), NewCards(ws)) /\ ws # {}
        /\ LearnedNewCount(d, Day(t)) < NewLimit
  BY DEF ReplenishUnknownDailySlots
<1>2. NewCards(ws) \in SUBSET Card /\ IsFiniteSet(NewCards(ws))
  BY <1>1, GeneratedAreWords, NewCardsAreCards
<1>3. Cardinality(LearntCards(d.items, d.states, Day(t))) < NewLimit
  BY <1>1, LearnedIsLearnt
<1>4. \A c \in NewCards(ws) : AddableAs(d, Day(t), c) /\ c.type = "new"
  BY <1>3, GeneratedAreAddable
<1>5. \A b, c \in NewCards(ws) : b.type = "new" /\ c.type = "new" /\ b.word = c.word => b = c
  BY NewCardsAreOfWords
<1>6. /\ Goes(d, e, A, Day(t))
      /\ \A i \in e.items : i \in d.items \/ \E c \in NewCards(ws) : DealtAs(d, Day(t), c, i)
  BY <1>1, <1>2, <1>4, <1>5, DealtPlanned
<1>7. PICK c \in NewCards(ws) : TRUE
  BY <1>1 DEF NewCards
<1>8. Room(e, Day(t))
  BY <1>4, <1>6, <1>7, DealtRoom
<1>9. ASSUME NEW n \in NewIds(d, e)
      PROVE  \E i \in e.items : i.id = n /\ i.type = "new" /\ Pending(i)
  <2>1. PICK i \in e.items : i.id = n
    BY DEF NewIds
  <2>2. i \notin d.items
    BY <2>1 DEF NewIds
  <2>3. PICK b \in NewCards(ws) : DealtAs(d, Day(t), b, i)
    BY <1>6, <2>2
  <2> QED BY <1>4, <2>1, <2>3 DEF DealtAs
<1> QED BY <1>6, <1>8, <1>9

(***************************************************************************)
(* What the maintenance leaves for the answer to record: it created cards  *)
(* that are new and pending, and trimmed cards of words that stay new.     *)
(***************************************************************************)
WellMaintained(d, m, A, day) ==
  /\ Core(m.db.items, m.db.states, A, day)
  /\ Room(m.db, day)
  /\ m.db.states = d.states /\ m.db.answers = d.answers
  /\ AnsweredNew(m.db.items) = AnsweredNew(d.items)
  /\ \A n \in m.created : \E i \in m.db.items : i.id = n /\ i.type = "new" /\ Pending(i)
  /\ TrimmedAreNew(m.db.items, m.db.states, m)
  /\ m.deleted # {} => Cardinality(LearntCards(m.db.items, m.db.states, day)) >= NewLimit

LEMMA NothingMaintained ==
  ASSUME NEW d, NEW e, NEW A, NEW day, Goes(d, e, A, day), Room(e, day)
  PROVE  WellMaintained(d, Maintained(e, {}, {}), A, day)
BY DEF WellMaintained, Maintained, Goes, TrimmedAreNew

LEMMA ReconcileBufferPlanned ==
  ASSUME NEW t \in Nat, Day(t) \in Days, NEW d, Sound(d), NEW A,
         Core(d.items, d.states, A, Day(t)), Known(d, A, Day(t)),
         Room(d, Day(t)) \/ NewLimit > 0,
         NEW m, m = ReconcileUnknownDailyBuffer(d, t)
  PROVE  WellMaintained(d, m, A, Day(t))
<1> DEFINE trimmed == PendingNew(d, Day(t))
           e == DeletePoolItems(d, trimmed)
<1>1. LearnedNewCount(d, Day(t)) = Cardinality(LearntCards(d.items, d.states, Day(t)))
  BY LearnedIsLearnt
<1>2. Cardinality(LearntCards(d.items, d.states, Day(t))) \in Nat /\ NewLimit \in Nat
  BY LearntCardsAreFinite, DailyAssumption DEF Core, Typed
<1>3. CASE NewLimit > 0 /\ LearnedNewCount(d, Day(t)) >= NewLimit
  <2>1. m = Maintained(e, {}, trimmed)
    BY <1>3 DEF ReconcileUnknownDailyBuffer
  <2>2. /\ trimmed \in SUBSET d.items
        /\ \A i \in d.items : i \in trimmed <=> i.type = "new" /\ i.day = Day(t) /\ Pending(i)
    BY DEF PendingNew, ItemsOf
  <2>3. e.items = d.items \ trimmed /\ e.states = d.states
    BY DEF DeletePoolItems, RemoveItems, Sound, DB
  <2> HIDE DEF e, trimmed
  <2>4. /\ Core(e.items, e.states, A, Day(t))
        /\ LearntCards(e.items, e.states, Day(t)) = LearntCards(d.items, d.states, Day(t))
    <3>1. \A i \in trimmed : Pending(i) /\ i.type = "new"
      BY <2>2
    <3> QED BY <2>2, <2>3, <3>1, RemovedCore
  <2>5. AnsweredNew(e.items) = AnsweredNew(d.items)
    BY <2>2, <2>3 DEF AnsweredNew
  <2>6. Room(e, Day(t))
    BY <2>2, <2>3 DEF Room, RoomForTheBuffer, ItemsOf
  <2>7. /\ \A x, y \in trimmed : x.word = y.word => x = y
        /\ \A x \in trimmed :
             /\ x.type = "new" /\ Pending(x) /\ e.states[x.word].status = "none"
             /\ \A j \in e.items : j.type = "new" => j.word # x.word
    BY <2>2, <2>3 DEF Core, OneNewCard, NewUntilAnswered
  <2>8. m.db = e /\ m.created = {} /\ m.deleted = trimmed
    BY <2>1 DEF Maintained
  <2>8a. e.answers = d.answers
    <3>1. \A a \in d.answers, i \in trimmed : i.id # a.item
      BY <2>2 DEF Known, Core, AnswersMatch
    <3>2. e.answers = {a \in d.answers : \A i \in trimmed : i.id # a.item}
      BY DEF DeletePoolItems, RemoveItems, Sound, DB, e
    <3> QED BY <3>1, <3>2
  <2>9. TrimmedAreNew(m.db.items, m.db.states, m)
    BY <2>7, <2>8 DEF TrimmedAreNew
  <2> QED BY <1>1, <1>3, <2>3, <2>4, <2>5, <2>6, <2>8, <2>8a, <2>9 DEF WellMaintained
<1>4. CASE ~(NewLimit > 0 /\ LearnedNewCount(d, Day(t)) >= NewLimit)
  <2>1. m = Maintained(d, {}, {})
    BY <1>4 DEF ReconcileUnknownDailyBuffer
  <2>2. Room(d, Day(t))
    BY <1>1, <1>2, <1>4 DEF Room, RoomForTheBuffer
  <2>3. Goes(d, d, A, Day(t))
    BY DEF Goes
  <2> QED BY <2>1, <2>2, <2>3, NothingMaintained
<1> QED BY <1>3, <1>4

LEMMA MaintainBufferPlanned ==
  ASSUME NEW t \in Nat, Day(t) \in Days, NEW d, Coherent(d, Day(t)), NEW A,
         Core(d.items, d.states, A, Day(t)), Known(d, A, Day(t)),
         Room(d, Day(t)) \/ NewLimit > 0,
         NEW m \in MaintainNewWordBuffer(d, t)
  PROVE  WellMaintained(d, m, A, Day(t))
<1>1. PICK r \in GetOrCreateDailyPool(d, t) :
        \/ m = ReconcileUnknownDailyBuffer(r.db, t)
        \/ \E f \in ReplenishUnknownDailySlots(r.db, t) : m = Maintained(f, NewIds(r.db, f), {})
        \/ ~r.ok /\ m = Maintained(r.db, {}, {})
  <2> DEFINE maintain(e) ==
               {ReconcileUnknownDailyBuffer(e, t)}
                 \cup {Maintained(f, NewIds(e, f), {}) : f \in ReplenishUnknownDailySlots(e, t)}
             outcomes(r) == IF r.ok THEN maintain(r.db) ELSE {Maintained(r.db, {}, {})}
  <2>1. MaintainNewWordBuffer(d, t) = UNION {outcomes(r) : r \in GetOrCreateDailyPool(d, t)}
    BY DEF MaintainNewWordBuffer
  <2> HIDE DEF outcomes
  <2>2. PICK r \in GetOrCreateDailyPool(d, t) : m \in outcomes(r)
    BY <2>1
  <2> USE DEF outcomes
  <2> QED BY <2>2
<1>2. Goes(d, r.db, A, Day(t)) /\ (Room(d, Day(t)) \/ ~r.ok => Room(r.db, Day(t)))
  BY GetOrCreatePlanned
<1>3. /\ Sound(r.db)
      /\ Core(r.db.items, r.db.states, A, Day(t)) /\ Known(r.db, A, Day(t))
  BY <1>2, GetOrCreateCoherent DEF Coherent, Goes
<1>4. CASE m = ReconcileUnknownDailyBuffer(r.db, t)
  <2>1. WellMaintained(r.db, m, A, Day(t))
    BY <1>2, <1>3, <1>4, ReconcileBufferPlanned
  <2> QED BY <1>2, <2>1 DEF WellMaintained, Goes
<1>5. CASE \E f \in ReplenishUnknownDailySlots(r.db, t) : m = Maintained(f, NewIds(r.db, f), {})
  <2>1. PICK f \in ReplenishUnknownDailySlots(r.db, t) : m = Maintained(f, NewIds(r.db, f), {})
    BY <1>5
  <2>2. /\ Goes(r.db, f, A, Day(t)) /\ Room(f, Day(t))
        /\ \A n \in NewIds(r.db, f) : \E i \in f.items : i.id = n /\ i.type = "new" /\ Pending(i)
    BY <1>3, ReplenishPlanned
  <2>3. WellMaintained(r.db, m, A, Day(t))
    BY <2>1, <2>2 DEF WellMaintained, Maintained, Goes, TrimmedAreNew
  <2> QED BY <1>2, <2>3 DEF WellMaintained, Goes
<1>6. CASE ~r.ok /\ m = Maintained(r.db, {}, {})
  BY <1>2, <1>6, NothingMaintained
<1> QED BY <1>1, <1>4, <1>5, <1>6

---------------------------------------------------------------------------
(* A card is answered *)

(***************************************************************************)
(* A pending card i is completed with the stamp n, its word gets the row   *)
(* post, at most one follow-up (G) is dealt, and a is the answer so far.   *)
(***************************************************************************)
Completes(X, S, A, day, i, n, post, G, a) ==
  /\ i \in X /\ Pending(i)
  /\ n \in Nat /\ n # 0 /\ \A j \in X : j.day = i.day => j.done < n
  /\ post \in StateRow
  /\ G \in SUBSET Item /\ IsFiniteSet(G) /\ \A g, h \in G : g = h
  /\ \A g \in G :
       /\ Pending(g) /\ g.day = day /\ g.word = i.word /\ g.type = "short_term" /\ ~g.bonus
       /\ \A j \in X : j.id # g.id
       /\ \A b \in A : g.id \notin b.created
  /\ a \in Answer /\ a.item = i.id /\ a.prev = S[i.word]
  /\ a.created = {g.id : g \in G} /\ a.deleted = {}
  /\ IF i.type = "new"
     THEN /\ a.prev = NoRow /\ post.status \in {"learning", "known"}
          /\ G # {} => SmallStep(post)
          /\ i.day = day => /\ Cardinality(LearntCards(X, S, day)) < NewLimit
                            /\ post.due # Null /\ Day(post.due) <= day => G # {}
     ELSE /\ Learnt(post)
          /\ StandsToday(X, i.word, day) => post.status = "learning" /\ (G # {} => SmallStep(post))

(***************************************************************************)
(* Among the cards of a word that is new today there is one at most to     *)
(* answer: both of two would follow the last answered card.                *)
(***************************************************************************)
LEMMA OneCardIsPending ==
  ASSUME NEW day, NEW X, NEW S, NEW A, Core(X, S, A, day),
         NEW w \in Words, NEW e \in CardsOf(X, w), e.type = "new" /\ e.day = day /\ ~Pending(e),
         NEW i \in CardsOf(X, w), NEW j \in CardsOf(X, w), Pending(i), Pending(j)
  PROVE  i = j
<1> DEFINE C == CardsOf(X, w)
           B == AnswersFor(A, C)
<1>1. ChainedFollowUps(C, S[w], B, day)
  BY DEF Core, Chained
<1>2. C \subseteq X /\ B \subseteq A
  BY DEF CardsOf, AnswersFor
<1>3. /\ \A c \in X : c.done \in Nat
      /\ \A a, b \in A : a.item = b.item => a = b
      /\ \A c, k \in X : ~Pending(c) /\ c.day = k.day /\ c.done = k.done => c = k
  BY DEF Core, Typed, Item, AnswersMatch, StampsAreUnique
<1> HIDE DEF C, B
<1>4. e \in C /\ i \in C /\ j \in C /\ i # e /\ j # e
  BY DEF C
<1>5. /\ \A c \in C : c.day = day
      /\ FollowsUp(C, B, i) /\ FollowsUp(C, B, j)
      /\ \A b \in B, k \in C : b.item = k.id =>
           \A l, m \in C : l.id \in b.created /\ m.id \in b.created => l = m
  BY <1>1, <1>4 DEF ChainedFollowUps
<1>6. PICK k \in C, a \in B :
        /\ a.item = k.id /\ i.id \in a.created /\ ~Pending(k)
        /\ \A c \in C : ~Pending(c) => c.done <= k.done
  BY <1>5 DEF FollowsUp
<1>7. PICK l \in C, b \in B :
        /\ b.item = l.id /\ j.id \in b.created /\ ~Pending(l)
        /\ \A c \in C : ~Pending(c) => c.done <= l.done
  BY <1>5 DEF FollowsUp
<1>8. k.done <= l.done /\ l.done <= k.done /\ k.done \in Nat /\ l.done \in Nat
  BY <1>2, <1>3, <1>6, <1>7
<1>9. k.done = l.done
  BY <1>8
<1>10. k = l
  BY <1>2, <1>3, <1>5, <1>6, <1>9
<1>11. a = b
  BY <1>2, <1>3, <1>6, <1>7, <1>10
<1> QED BY <1>4, <1>5, <1>6, <1>7, <1>11

Stamped(i, n, k) ==
  /\ k \in Item
  /\ k.id = i.id /\ k.day = i.day /\ k.word = i.word /\ k.type = i.type /\ k.bonus = i.bonus
  /\ k.done = n

\* The cards and the row of the word, and the answers of its cards, afterwards.
LEMMA CompletedChained ==
  ASSUME NEW day, NEW X, NEW S, NEW A, Core(X, S, A, day),
         NEW i, NEW n, NEW post, NEW G, NEW a, Completes(X, S, A, day, i, n, post, G, a),
         NEW C, C = CardsOf(X, i.word), NEW B, B = AnswersFor(A, C),
         NEW k, Stamped(i, n, k)
  PROVE  ChainedFollowUps((C \ {i}) \cup {k} \cup G, post, B \cup {a}, day)
<1> DEFINE w == i.word
           D == (C \ {i}) \cup {k} \cup G
           E == B \cup {a}
<1>1. /\ i \in X /\ i \in Item /\ w \in Words /\ Pending(i) /\ C \subseteq X /\ i \in C /\ B \subseteq A
      /\ \A c \in X : c \in C <=> c.word = w
      /\ \A b \in B : b.item # i.id
  BY DEF Completes, Core, Typed, AnswersMatch, Item, CardsOf, AnswersFor
<1>2. /\ n \in Nat /\ n # 0 /\ \A j \in X : j.day = i.day => j.done < n
      /\ a.item = i.id /\ a.prev = S[w]
      /\ \A g, h \in G : g = h
      /\ \A g \in G :
           /\ Pending(g) /\ g.day = day /\ g.word = w /\ g.type = "short_term"
           /\ g.id \in a.created
           /\ \A j \in X : j.id # g.id
           /\ \A b \in A : g.id \notin b.created
      /\ \A j \in a.created : \E g \in G : j = g.id
  BY DEF Completes
<1>3. /\ k.id = i.id /\ k.day = i.day /\ k.word = i.word /\ k.type = i.type /\ k.done = n /\ ~Pending(k)
  BY <1>2 DEF Stamped, Pending
<1>4. \A b \in X, c \in X : b.id = c.id => b = c
  BY DEF Core, Typed, UniqueIds
<1>5. CASE i.type = "new"
  <2>1. \A c \in C : c = i
    <3> SUFFICES ASSUME NEW c \in C PROVE c = i
      OBVIOUS
    <3>1. S[w].status = "none"
      BY <1>1, <1>5 DEF Core, NewUntilAnswered
    <3>2. c.word = w /\ c \in X
      BY <1>1
    <3>3. c.type = "new"
      BY <3>1, <3>2 DEF Core, ReviewsAreLearnt, Learnt
    <3> QED BY <1>1, <1>5, <3>2, <3>3 DEF Core, OneNewCard
  <2>2. D = {k} \cup G /\ E = {a}
    <3>1. B = {}
      BY <1>1, <2>1 DEF AnswersFor
    <3> QED BY <1>1, <2>1, <3>1
  <2>3. /\ post.status \in {"learning", "known"}
        /\ G # {} => SmallStep(post)
        /\ i.day = day => (post.due # Null /\ Day(post.due) <= day => G # {})
    BY <1>5 DEF Completes
  <2>4. \A g \in G : g.id # k.id
    BY <1>1, <1>2, <1>3
  <2> HIDE DEF D, E
  <2>5. \A g \in G : FollowsUp(D, E, g)
    <3> SUFFICES ASSUME NEW g \in G PROVE FollowsUp(D, E, g)
      OBVIOUS
    <3>1. k \in D /\ a \in E /\ a.item = k.id /\ g.id \in a.created /\ ~Pending(k) /\ Pending(g)
      BY <1>2, <1>3, <2>2
    <3>2. \A c \in D : ~Pending(c) => c = k
      BY <1>2, <2>2
    <3>3. k.done <= k.done
      BY <1>2, <1>3
    <3> QED BY <3>1, <3>2, <3>3 DEF FollowsUp
  <2>6. \A j \in D : j.type = "new" => j = k
    BY <1>2, <2>2
  <2> SUFFICES ASSUME k.day = day PROVE ChainedFollowUps(D, post, E, day)
    BY <2>6 DEF ChainedFollowUps, D, E
  <2>7. \A j \in D : j # k => /\ j.type = "short_term" /\ j.day = day
                              /\ FollowsUp(D, E, j) /\ Pending(j) /\ SmallStep(post)
    BY <1>2, <2>2, <2>3, <2>5
  <2>8. \A b \in E, c \in D : b.item = c.id => c = k
    BY <1>2, <1>3, <2>2, <2>4
  <2>9. \A b \in E, j, l \in D : j.id \in b.created /\ l.id \in b.created => j = l
    <3> SUFFICES ASSUME NEW j \in D, NEW l \in D, j.id \in a.created, l.id \in a.created PROVE j = l
      BY <2>2
    <3>1. k.id \notin a.created
      BY <1>2, <2>4
    <3>2. j \in G /\ l \in G
      BY <2>2, <3>1
    <3> QED BY <1>2, <3>2
  <2>10. post.due # Null /\ Day(post.due) <= day => \E j \in D : j.type = "short_term"
    BY <1>2, <1>3, <2>2, <2>3
  <2>11. \A j \in D : j.type = "new" /\ j.day = day /\ ~Pending(j) => j = k
    BY <2>6
  <2> QED BY <2>3, <2>7, <2>8, <2>9, <2>10, <2>11 DEF ChainedFollowUps
<1>6. CASE i.type # "new"
  <2>0. \A j \in D : j.type = "new" => j \in C
    BY <1>2, <1>3, <1>6
  <2> SUFFICES ASSUME NEW e \in D, e.type = "new" /\ e.day = day /\ ~Pending(e)
               PROVE  /\ post.status \in {"learning", "known"}
                      /\ \A j \in D : j # e =>
                           /\ j.type = "short_term" /\ j.day = day
                           /\ FollowsUp(D, E, j)
                           /\ IF Pending(j) THEN SmallStep(post) ELSE e.done < j.done
                      /\ \A b \in E, c \in D : b.item = c.id =>
                           /\ c # e => SmallStep(b.prev)
                           /\ \A j, l \in D : j.id \in b.created /\ l.id \in b.created => j = l
                      /\ post.due # Null /\ Day(post.due) <= day => \E j \in D : j.type = "short_term"
    BY DEF ChainedFollowUps
  <2>1. e \in C /\ e # i
    BY <1>6, <2>0
  <2>2. /\ \A j \in C : j # e =>
             /\ j.type = "short_term" /\ j.day = day
             /\ FollowsUp(C, B, j)
             /\ IF Pending(j) THEN SmallStep(S[w]) ELSE e.done < j.done
        /\ \A b \in B, c \in C : b.item = c.id =>
             /\ c # e => SmallStep(b.prev)
             /\ \A j, l \in C : j.id \in b.created /\ l.id \in b.created => j = l
    <3>1. ChainedFollowUps(C, S[w], B, day)
      BY <1>1 DEF Core, Chained
    <3> QED BY <2>1, <3>1 DEF ChainedFollowUps
  <2>3. /\ i.type = "short_term" /\ i.day = day /\ FollowsUp(C, B, i) /\ SmallStep(S[w])
        /\ \A c \in C : c.day = day /\ c.done < n
    BY <1>1, <1>2, <2>1, <2>2
  <2>4. post.status = "learning" /\ (G # {} => SmallStep(post))
    <3>1. StandsToday(X, w, day)
      BY <1>1, <2>1 DEF StandsToday
    <3> QED BY <1>6, <3>1 DEF Completes
  <2>5. \A j \in C : j # i => ~Pending(j)
    <3>1. e \in CardsOf(X, w) /\ i \in CardsOf(X, w)
      BY <1>1, <2>1
    <3> QED BY <1>1, <3>1, OneCardIsPending
  <2>6. /\ k \in D /\ a \in E /\ (\A c \in C : c # i => c \in D) /\ B \subseteq E
        /\ \A j \in D : \/ j \in C /\ j # i
                        \/ j = k
                        \/ j \in G
        /\ \A b \in E : b \in B \/ b = a
    OBVIOUS
  <2> HIDE DEF D, E
  <2>7. ASSUME NEW j \in C, j # i, j # e PROVE FollowsUp(D, E, j)
    <3>1. PICK c \in C, b \in B :
            /\ b.item = c.id /\ j.id \in b.created
            /\ ~Pending(c) /\ (~Pending(j) => c.done < j.done)
            /\ \A l \in C : ~Pending(l) /\ l # j => l.done <= c.done \/ (~Pending(j) /\ j.done < l.done)
      BY <2>2, <2>7 DEF FollowsUp
    <3>2. c \in D /\ b \in E
      BY <1>1, <2>6, <3>1
    <3>3. \A l \in D : ~Pending(l) /\ l # j => l.done <= c.done \/ (~Pending(j) /\ j.done < l.done)
      BY <1>2, <1>3, <2>3, <2>5, <2>6, <2>7, <3>1
    <3> QED BY <3>1, <3>2, <3>3 DEF FollowsUp
  <2>8. FollowsUp(D, E, k)
    <3>1. PICK c \in C, b \in B :
            /\ b.item = c.id /\ i.id \in b.created /\ ~Pending(c)
            /\ \A l \in C : ~Pending(l) /\ l # i => l.done <= c.done
      BY <1>1, <2>3 DEF FollowsUp
    <3>2. c \in D /\ b \in E /\ c.done < k.done
      BY <1>1, <1>3, <2>3, <2>6, <3>1
    <3>3. \A l \in D : ~Pending(l) /\ l # k => l.done <= c.done
      BY <1>2, <2>6, <3>1
    <3>4. b.item = c.id /\ k.id \in b.created /\ ~Pending(c)
      BY <1>3, <3>1
    <3> QED BY <3>2, <3>3, <3>4 DEF FollowsUp
  <2>9. ASSUME NEW g \in G PROVE FollowsUp(D, E, g)
    <3>1. a.item = k.id /\ g.id \in a.created /\ ~Pending(k) /\ Pending(g)
      BY <1>2, <1>3
    <3>2. \A c \in D : ~Pending(c) => c.done <= k.done
      <4> SUFFICES ASSUME NEW c \in D, ~Pending(c) PROVE c.done <= k.done
        OBVIOUS
      <4>1. CASE c \in C /\ c # i
        <5>1. c.done < n /\ c.done \in Nat
          BY <1>1, <2>3, <4>1 DEF Core, Typed, Item
        <5> QED BY <1>2, <1>3, <5>1
      <4>2. CASE c = k
        BY <1>2, <1>3, <4>2
      <4> QED BY <1>2, <2>6, <4>1, <4>2
    <3> QED BY <2>6, <3>1, <3>2 DEF FollowsUp
  <2>10. ASSUME NEW j \in D, j # e
         PROVE  /\ j.type = "short_term" /\ j.day = day
                /\ FollowsUp(D, E, j)
                /\ IF Pending(j) THEN SmallStep(post) ELSE e.done < j.done
    <3>1. CASE j \in C /\ j # i
      BY <2>2, <2>5, <2>7, <2>10, <3>1
    <3>2. CASE j = k
      BY <1>3, <2>1, <2>3, <2>8, <3>2
    <3>3. CASE j \in G
      BY <1>2, <2>4, <2>9, <3>3
    <3> QED BY <2>6, <3>1, <3>2, <3>3
  <2>11. ASSUME NEW b \in B, NEW c \in D, b.item = c.id
         PROVE  /\ c # e => SmallStep(b.prev)
                /\ \A j, l \in D : j.id \in b.created /\ l.id \in b.created => j = l
    <3>0. PICK m \in C : b.item = m.id
      BY DEF AnswersFor
    <3>1. c = m
      <4>1. c # k
        BY <1>1, <1>3, <2>11
      <4>2. c.id = m.id /\ m \in X
        BY <1>1, <2>11, <3>0
      <4>3. c \notin G
        BY <1>2, <4>2
      <4>4. c \in C
        BY <2>6, <4>1, <4>3
      <4>5. c \in X
        BY <1>1, <4>4
      <4> QED BY <1>4, <4>2, <4>5
    <3>2. (c # e => SmallStep(b.prev)) /\ \A j, l \in C : j.id \in b.created /\ l.id \in b.created => j = l
      BY <2>2, <3>0, <3>1
    <3>3. \A j \in D : j.id \in b.created => (j = k /\ i.id \in b.created) \/ (j \in C /\ j # i)
      BY <1>1, <1>2, <1>3, <2>6
    <3>4. ASSUME NEW j \in D, NEW l \in D, j.id \in b.created, l.id \in b.created PROVE j = l
      BY <1>1, <3>2, <3>3, <3>4
    <3> QED BY <3>2, <3>4
  <2>12. ASSUME NEW c \in D, a.item = c.id
         PROVE  /\ SmallStep(a.prev)
                /\ \A j, l \in D : j.id \in a.created /\ l.id \in a.created => j = l
    <3>1. \A j \in D : j.id \in a.created => j \in G
      <4> SUFFICES ASSUME NEW j \in D, j.id \in a.created PROVE j \in G
        OBVIOUS
      <4>1. PICK g \in G : j.id = g.id
        BY <1>2
      <4>2. j \notin C
        BY <1>1, <1>2, <4>1
      <4>3. j # k
        BY <1>1, <1>2, <1>3, <4>1
      <4> QED BY <2>6, <4>2, <4>3
    <3> QED BY <1>2, <2>3, <3>1
  <2>13. \E j \in D : j.type = "short_term"
    BY <1>3, <2>3, <2>6
  <2> QED BY <2>4, <2>6, <2>10, <2>11, <2>12, <2>13
<1> QED BY <1>5, <1>6

Completed(X, i, k, G) == (X \ {i}) \cup {k} \cup G

LEMMA CompletedCore ==
  ASSUME NEW day, NEW X, NEW S, NEW A, Core(X, S, A, day),
         NEW i, NEW n, NEW post, NEW G, NEW a, Completes(X, S, A, day, i, n, post, G, a),
         NEW k, Stamped(i, n, k)
  PROVE  /\ Core(Completed(X, i, k, G), Rewritten(S, i.word, post), A \cup {a}, day)
         /\ (i.type # "new" \/ i.day # day) /\ RoomForTheBuffer(X, S, day) =>
              RoomForTheBuffer(Completed(X, i, k, G), Rewritten(S, i.word, post), day)
<1> DEFINE w == i.word
           E == A \cup {a}
           Y == Completed(X, i, k, G)
           T == Rewritten(S, w, post)
<1>0. Y = (X \ {i}) \cup {k} \cup G /\ T = [S EXCEPT ![w] = post]
  BY DEF Completed, Rewritten
<1> HIDE DEF Y, T
<1>1. /\ X \in SUBSET Item /\ IsFiniteSet(X) /\ S \in [Words -> StateRow] /\ A \in SUBSET Answer
      /\ \A b \in X, c \in X : b.id = c.id => b = c
      /\ \A b \in X, c \in X : b.type = "new" /\ c.type = "new" /\ b.word = c.word => b = c
      /\ \A b \in X : b.type = "new" => (Pending(b) <=> S[b.word].status = "none")
      /\ \A b \in X : b.type # "new" => Learnt(S[b.word]) /\ ~b.bonus
  BY DEF Core, Typed, UniqueIds, OneNewCard, NewUntilAnswered, ReviewsAreLearnt
<1>2. /\ i \in X /\ Pending(i) /\ i.word \in Words
      /\ n \in Nat /\ n # 0 /\ \A j \in X : j.day = i.day => j.done < n
      /\ post \in StateRow /\ a \in Answer
  BY <1>1 DEF Completes, Item
<1>3. /\ G \in SUBSET Item /\ IsFiniteSet(G) /\ \A g, h \in G : g = h
      /\ \A g \in G :
           /\ Pending(g) /\ g.day = day /\ g.word = w /\ g.type = "short_term" /\ ~g.bonus
           /\ g.id \in a.created
           /\ \A j \in X : j.id # g.id
           /\ \A b \in A : g.id \notin b.created
      /\ \A j \in a.created : \E g \in G : j = g.id
  BY DEF Completes
<1>4. a.item = i.id /\ a.prev = S[w] /\ a.deleted = {}
  BY DEF Completes
<1>5. /\ k \in Item /\ k.id = i.id /\ k.day = i.day /\ k.word = w /\ k.type = i.type /\ k.bonus = i.bonus
      /\ k.done = n /\ ~Pending(k)
  BY <1>2 DEF Stamped, Pending
<1>6. /\ \A j \in Y : (j \in X /\ j # i) \/ j = k \/ j \in G
      /\ k \in Y /\ \A j \in X : j # i => j \in Y
  BY <1>0
<1>7. /\ T \in [Words -> StateRow] /\ T[w] = post
      /\ \A v \in Words : v # w => T[v] = S[v]
  BY <1>0, <1>1, <1>2
<1>8. /\ Learnt(S[w]) => Learnt(T[w])
      /\ post.status # "none" /\ (G # {} => Learnt(post))
      /\ S[w].status = "none" <=> i.type = "new"
  BY <1>1, <1>2, <1>7 DEF Completes, Learnt, SmallStep
<1>9. /\ \A j \in X : j.word \in Words
      /\ \A b \in A, j \in X : b.item = j.id => ~Pending(j)
      /\ \A b \in A : b.item # i.id
  BY <1>1, <1>2 DEF Item, Core, AnswersMatch
<1>10. Typed(Y, T, E)
  <2>1. Y \in SUBSET Item
    BY <1>0, <1>1, <1>3, <1>5
  <2>2. IsFiniteSet(Y)
    <3>1. IsFiniteSet(X \ {i}) /\ IsFiniteSet({k})
      BY <1>1, FS_Subset, FS_Singleton
    <3> QED BY <1>0, <1>3, <3>1, FS_Union
  <2>3. UniqueIds(Y)
    <3> SUFFICES ASSUME NEW b \in Y, NEW c \in Y, b.id = c.id PROVE b = c
      BY DEF UniqueIds
    <3>1. b \in G => c \in G
      BY <1>2, <1>3, <1>5, <1>6
    <3>2. c \in G => b \in G
      BY <1>2, <1>3, <1>5, <1>6
    <3>3. CASE b \in G
      BY <1>3, <3>1, <3>3
    <3>4. CASE b \notin G
      BY <1>1, <1>2, <1>5, <1>6, <3>2, <3>4
    <3> QED BY <3>3, <3>4
  <2>4. E \in SUBSET Answer
    BY <1>1, <1>2
  <2> QED BY <1>7, <2>1, <2>2, <2>3, <2>4 DEF Typed
<1> HIDE DEF E
<1>11. OneNewCard(Y)
  <2>1. \A j \in Y : j.type = "new" => (j \in X /\ j # i) \/ (j = k /\ i.type = "new")
    BY <1>3, <1>5, <1>6
  <2> QED BY <1>1, <1>2, <1>5, <2>1 DEF OneNewCard
<1>12. NewUntilAnswered(Y, T)
  <2> SUFFICES ASSUME NEW j \in Y, j.type = "new"
               PROVE  Pending(j) <=> T[j.word].status = "none"
    BY DEF NewUntilAnswered
  <2>1. CASE j = k
    BY <1>5, <1>7, <1>8, <2>1
  <2>2. CASE j \in X /\ j # i /\ j.word # w
    BY <1>1, <1>7, <1>9, <2>2
  <2>3. CASE j \in X /\ j # i /\ j.word = w
    <3>1. i.type # "new"
      BY <1>1, <1>2, <2>3
    <3> QED BY <1>1, <1>7, <1>8, <2>3, <3>1
  <2> QED BY <1>3, <1>6, <2>1, <2>2, <2>3
<1>13. ReviewsAreLearnt(Y, T)
  <2> SUFFICES ASSUME NEW j \in Y, j.type # "new"
               PROVE  Learnt(T[j.word]) /\ ~j.bonus
    BY DEF ReviewsAreLearnt
  <2>1. CASE j = k
    BY <1>1, <1>2, <1>5, <1>8, <2>1
  <2>2. CASE j \in G
    BY <1>3, <1>7, <1>8, <2>2
  <2>3. CASE j \in X /\ j # i
    BY <1>1, <1>7, <1>8, <1>9, <2>3
  <2> QED BY <1>6, <2>1, <2>2, <2>3
<1>14. StampsAreUnique(Y)
  <2> SUFFICES ASSUME NEW b \in Y, NEW c \in Y, ~Pending(b), b.day = c.day, b.done = c.done
               PROVE  b = c
    BY DEF StampsAreUnique
  <2>1. ~Pending(c) /\ b \notin G /\ c \notin G
    BY <1>3 DEF Pending
  <2>2. \A j \in X : j.day = i.day => j.done # n
    BY <1>1, <1>2 DEF Item
  <2> QED BY <1>5, <1>6, <2>1, <2>2 DEF Core, StampsAreUnique
<1>15. AnswersMatch(Y, E)
  <2>1. \A b, c \in E : b.item = c.item => b = c
    BY <1>4, <1>9 DEF E, Core, AnswersMatch
  <2>2. \A b \in E : \E j \in Y : j.id = b.item
    <3> SUFFICES ASSUME NEW b \in E PROVE \E j \in Y : j.id = b.item
      OBVIOUS
    <3>1. CASE b = a
      BY <1>4, <1>5, <1>6, <3>1
    <3>2. CASE b \in A
      <4>1. PICK j \in X : j.id = b.item
        BY <3>2 DEF Core, AnswersMatch
      <4> QED BY <1>6, <1>9, <3>2, <4>1
    <3> QED BY <3>1, <3>2 DEF E
  <2>3. ASSUME NEW b \in E, NEW j \in Y, j.id = b.item
        PROVE  /\ ~Pending(j)
               /\ IF j.type = "new" THEN b.prev = NoRow ELSE Learnt(b.prev)
               /\ \A c \in Y : c.id \in b.created => c.type = "new" \/ c.word = j.word
    <3>1. CASE b = a
      <4>1. j = k
        BY <1>1, <1>2, <1>3, <1>4, <1>5, <1>6, <2>3, <3>1
      <4>2. IF i.type = "new" THEN a.prev = NoRow ELSE Learnt(a.prev)
        BY <1>1, <1>2, <1>4 DEF Completes
      <4>3. ASSUME NEW c \in Y, c.id \in a.created PROVE c.word = w
        <5>1. PICK g \in G : c.id = g.id
          BY <1>3, <4>3
        <5> QED BY <1>3, <1>5, <1>6, <5>1
      <4> QED BY <1>5, <3>1, <4>1, <4>2, <4>3
    <3>2. CASE b \in A
      <4>0. PICK l \in X : l.id = b.item
        BY <3>2 DEF Core, AnswersMatch
      <4>1. j # k
        BY <1>5, <1>9, <2>3, <3>2
      <4>2. j \notin G
        BY <1>3, <2>3, <4>0
      <4>3. j \in X
        BY <1>6, <4>1, <4>2
      <4>4. /\ ~Pending(j)
            /\ IF j.type = "new" THEN b.prev = NoRow ELSE Learnt(b.prev)
            /\ \A c \in X : c.id \in b.created => c.type = "new" \/ c.word = j.word
        BY <2>3, <3>2, <4>3 DEF Core, AnswersMatch
      <4>5. ASSUME NEW c \in Y, c.id \in b.created PROVE c.type = "new" \/ c.word = j.word
        <5>1. c \notin G
          BY <1>3, <3>2, <4>5
        <5>2. CASE c = k
          <6>1. i.id \in b.created
            BY <1>5, <4>5, <5>2
          <6> QED BY <1>2, <1>5, <4>4, <5>2, <6>1
        <5>3. CASE c \in X
          BY <4>4, <4>5, <5>3
        <5> QED BY <1>6, <5>1, <5>2, <5>3
      <4> QED BY <4>4, <4>5
    <3> QED BY <3>1, <3>2 DEF E
  <2> QED BY <2>1, <2>2, <2>3 DEF AnswersMatch
<1>16. \A y : /\ \A j \in LearntCards(Y, T, y) : (j = k /\ i.type = "new" /\ i.day = y) \/ j \in LearntCards(X, S, y)
              /\ \A j \in LearntCards(X, S, y) : j \in LearntCards(Y, T, y)
  <2>1. ASSUME NEW y, NEW j \in LearntCards(Y, T, y)
        PROVE  (j = k /\ i.type = "new" /\ i.day = y) \/ j \in LearntCards(X, S, y)
    <3>1. j \in Y /\ j.day = y /\ j.type = "new" /\ ~Pending(j) /\ Learnt(T[j.word])
      BY DEF LearntCards, ItemsOf
    <3>2. CASE j = k
      BY <1>5, <3>1, <3>2
    <3>3. CASE j \in X /\ j # i
      <4>1. Learnt(S[j.word])
        <5>1. CASE j.word # w
          BY <1>7, <1>9, <3>1, <3>3, <5>1
        <5>2. CASE j.word = w
          BY <1>1, <1>2, <3>1, <3>3, <5>2
        <5> QED BY <5>1, <5>2
      <4> QED BY <3>1, <3>3, <4>1 DEF LearntCards, ItemsOf
    <3> QED BY <1>3, <1>6, <3>1, <3>2, <3>3
  <2>2. ASSUME NEW y, NEW j \in LearntCards(X, S, y) PROVE j \in LearntCards(Y, T, y)
    <3>1. j \in X /\ j.day = y /\ j.type = "new" /\ ~Pending(j) /\ Learnt(S[j.word])
      BY DEF LearntCards, ItemsOf
    <3>2. j \in Y /\ j.word \in Words
      BY <1>2, <1>6, <1>9, <3>1
    <3>3. Learnt(T[j.word])
      BY <1>7, <1>8, <3>1, <3>2
    <3> QED BY <3>1, <3>2, <3>3 DEF LearntCards, ItemsOf
  <2> QED BY <2>1, <2>2
<1>17. \A y : ~(i.type = "new" /\ i.day = y) => LearntCards(Y, T, y) = LearntCards(X, S, y)
  <2> SUFFICES ASSUME NEW y, ~(i.type = "new" /\ i.day = y)
               PROVE  LearntCards(Y, T, y) = LearntCards(X, S, y)
    OBVIOUS
  <2>1. \A j : j \in LearntCards(Y, T, y) <=> j \in LearntCards(X, S, y)
    BY <1>16
  <2> QED BY <2>1
<1>18. i.type = "new" /\ i.day = day => Cardinality(LearntCards(X, S, day)) < NewLimit
  BY DEF Completes
<1>19. Cardinality(LearntCards(X, S, day)) \in Nat /\ NewLimit \in Nat
  BY <1>1, LearntCardsAreFinite, DailyAssumption
<1>20. \A j \in Y : j.type = "new" /\ j.day = day => (j \in X /\ j # i) \/ (j = k /\ i.type = "new" /\ i.day = day)
  BY <1>3, <1>5, <1>6
<1>21. AnsweredWithinLimit(Y, T, day)
  <2> SUFFICES ASSUME NEW j \in Y, j.type = "new", j.day = day, ~Pending(j)
               PROVE  Cardinality(LearntBefore(Y, T, j)) < NewLimit
    BY DEF AnsweredWithinLimit, ItemsOf
  <2>1. CASE j \in X /\ j # i
    <3>1. Cardinality(LearntBefore(X, S, j)) < NewLimit
      BY <2>1 DEF Core, AnsweredWithinLimit, ItemsOf
    <3>2. i.day = day => ~(k.done < j.done)
      BY <1>1, <1>2, <1>5, <2>1 DEF Item
    <3>3. LearntBefore(Y, T, j) = LearntBefore(X, S, j)
      BY <1>16, <3>2 DEF LearntBefore
    <3> QED BY <3>1, <3>3
  <2>2. CASE j = k /\ i.type = "new" /\ i.day = day
    <3>1. LearntBefore(Y, T, j) \subseteq LearntCards(X, S, day)
      <4>1. ~(k.done < k.done)
        BY <1>2, <1>5
      <4> QED BY <1>5, <1>16, <2>2, <4>1 DEF LearntBefore
    <3>2. Cardinality(LearntBefore(Y, T, j)) <= Cardinality(LearntCards(X, S, day))
      BY <1>1, <3>1, LearntCardsAreFinite, FS_Subset
    <3>3. Cardinality(LearntBefore(Y, T, j)) \in Nat
      BY <1>10, LearntCardsAreFinite DEF Typed
    <3> QED BY <1>18, <1>19, <2>2, <3>2, <3>3
  <2> QED BY <1>20, <2>1, <2>2
<1>22. TrimmedAway(Y, T, E, day)
  <2> SUFFICES ASSUME NEW b \in E, NEW j \in Y, j.id = b.item, j.day = day
               PROVE  TrimmedAtLimit(Y, T, b, j) /\ TrimmedAreNew(Y, T, b)
    BY DEF TrimmedAway
  <2>1. CASE b = a
    BY <1>4, <2>1 DEF TrimmedAtLimit, TrimmedAreNew
  <2>2. CASE b \in A
    <3>0. PICK l \in X : l.id = b.item
      BY <2>2 DEF Core, AnswersMatch
    <3>1. j # k
      BY <1>5, <1>9, <2>2
    <3>2. j \notin G
      BY <1>3, <3>0
    <3>3. j \in X
      BY <1>6, <3>1, <3>2
    <3>4. TrimmedAtLimit(X, S, b, j) /\ TrimmedAreNew(X, S, b)
      BY <2>2, <3>3 DEF Core, TrimmedAway
    <3>5. CASE b.deleted = {}
      BY <3>5 DEF TrimmedAtLimit, TrimmedAreNew
    <3>6. CASE b.deleted # {}
      <4>1. Cardinality(LearntCards(X, S, day)) >= NewLimit
        BY <3>4, <3>6 DEF TrimmedAtLimit
      <4>2. ~(i.type = "new" /\ i.day = day)
        BY <1>18, <1>19, <4>1
      <4>3. LearntCards(Y, T, day) = LearntCards(X, S, day)
        BY <1>17, <4>2
      <4>4. \A c \in ItemsOf(Y, day, "new") : c \in ItemsOf(X, day, "new")
        BY <1>20, <4>2 DEF ItemsOf
      <4>5. TrimmedAtLimit(Y, T, b, j)
        BY <3>4, <4>3, <4>4 DEF TrimmedAtLimit
      <4>6. \A c \in Y : c.type = "new" => \E l2 \in X : l2.type = "new" /\ l2.word = c.word
        BY <1>2, <1>3, <1>5, <1>6
      <4>7. \A x \in b.deleted : x.word \in Words /\ x.word # w
        <5> SUFFICES ASSUME NEW x \in b.deleted PROVE x.word \in Words /\ x.word # w
          OBVIOUS
        <5>1. x \in Item
          BY <1>1, <2>2 DEF Answer
        <5>2. S[x.word].status = "none" /\ \A c \in X : c.type = "new" => c.word # x.word
          BY <3>4 DEF TrimmedAreNew
        <5> QED BY <1>2, <1>8, <5>1, <5>2 DEF Item
      <4>8. TrimmedAreNew(Y, T, b)
        BY <1>7, <3>4, <4>6, <4>7 DEF TrimmedAreNew
      <4> QED BY <4>5, <4>8
    <3> QED BY <3>5, <3>6
  <2> QED BY <2>1, <2>2 DEF E
<1>23. Chained(Y, T, E, day)
  <2> SUFFICES ASSUME NEW v \in Words
               PROVE  ChainedFollowUps(CardsOf(Y, v), T[v], AnswersFor(E, CardsOf(Y, v)), day)
    BY DEF Chained
  <2>1. CASE v # w
    <3>1. CardsOf(Y, v) = CardsOf(X, v)
      BY <1>2, <1>3, <1>5, <1>6, <2>1 DEF CardsOf
    <3>2. AnswersFor(E, CardsOf(X, v)) = AnswersFor(A, CardsOf(X, v))
      <4>1. \A c \in CardsOf(X, v) : a.item # c.id
        BY <1>1, <1>2, <1>4, <2>1 DEF CardsOf
      <4> QED BY <4>1 DEF AnswersFor, E
    <3> QED BY <1>7, <2>1, <3>1, <3>2 DEF Core, Chained
  <2>2. CASE v = w
    <3> DEFINE C == CardsOf(X, w)
               B == AnswersFor(A, C)
               D == (C \ {i}) \cup {k} \cup G
    <3>1. ChainedFollowUps(D, post, B \cup {a}, day)
      BY CompletedChained
    <3>2. CardsOf(Y, w) = D
      BY <1>0, <1>2, <1>3, <1>5 DEF CardsOf
    <3>3. AnswersFor(E, D) = B \cup {a}
      <4>1. a \in AnswersFor(E, D)
        BY <1>4, <1>5 DEF AnswersFor, E
      <4>2. ASSUME NEW b \in A, b \in AnswersFor(E, D) PROVE b \in B
        <5>1. PICK c \in D : b.item = c.id
          BY <4>2 DEF AnswersFor
        <5>2. c # k
          BY <1>5, <1>9, <5>1
        <5>3. PICK l \in X : l.id = b.item
          BY DEF Core, AnswersMatch
        <5>4. c \notin G
          BY <1>3, <5>1, <5>3
        <5> QED BY <5>1, <5>2, <5>4 DEF AnswersFor
      <4>3. ASSUME NEW b \in B PROVE b \in AnswersFor(E, D)
        <5>1. PICK c \in C : b.item = c.id /\ b \in A
          BY DEF AnswersFor
        <5>2. c # i
          BY <1>9, <5>1
        <5> QED BY <5>1, <5>2 DEF AnswersFor, E
      <4>4. AnswersFor(E, D) \subseteq A \cup {a}
        BY DEF AnswersFor, E
      <4> HIDE DEF B, D
      <4> QED BY <4>1, <4>2, <4>3, <4>4
    <3> QED BY <1>7, <2>2, <3>1, <3>2, <3>3
  <2> QED BY <2>1, <2>2
<1>24. (i.type # "new" \/ i.day # day) /\ RoomForTheBuffer(X, S, day) => RoomForTheBuffer(Y, T, day)
  BY <1>17, <1>20 DEF RoomForTheBuffer, ItemsOf
<1> QED BY <1>10, <1>11, <1>12, <1>13, <1>14, <1>15, <1>21, <1>22, <1>23, <1>24 DEF Core, E, Y, T

(***************************************************************************)
(* The answer p is recorded with what the maintenance of the buffer adds.  *)
(***************************************************************************)
LEMMA RecordedCore ==
  ASSUME NEW day, NEW X, NEW S, NEW A, Core(X, S, A, day),
         NEW p \in A, NEW a \in Answer, a.item = p.item, a.prev = p.prev,
         \A n \in p.created : n \in a.created,
         \A n \in a.created : n \in p.created \/ \E j \in X : j.id = n /\ j.type = "new" /\ Pending(j),
         TrimmedAreNew(X, S, a),
         NEW i \in X, i.id = p.item,
         i.day = day => TrimmedAtLimit(X, S, a, i)
  PROVE  Core(X, S, (A \ {p}) \cup {a}, day)
<1> DEFINE E == (A \ {p}) \cup {a}
<1>1. /\ X \in SUBSET Item /\ A \in SUBSET Answer
      /\ \A b \in X, c \in X : b.id = c.id => b = c
      /\ \A b, c \in A : b.item = c.item => b = c
  BY DEF Core, Typed, UniqueIds, AnswersMatch
<1>2. /\ a \in E /\ \A b \in A : b # p => b \in E
      /\ \A b \in E : (b \in A /\ b # p) \/ b = a
  OBVIOUS
<1>3. \A j \in X : j.id \in a.created => j.id \in p.created \/ (j.type = "new" /\ Pending(j))
  BY <1>1
<1>4. Typed(X, S, E)
  BY <1>1 DEF Core, Typed
<1> HIDE DEF E
<1>5. AnswersMatch(X, E)
  <2>1. \A b, c \in E : b.item = c.item => b = c
    BY <1>1, <1>2
  <2>2. \A b \in E : \E j \in X : j.id = b.item
    BY <1>2 DEF Core, AnswersMatch
  <2>3. ASSUME NEW b \in E, NEW j \in X, j.id = b.item
        PROVE  /\ ~Pending(j)
               /\ IF j.type = "new" THEN b.prev = NoRow ELSE Learnt(b.prev)
               /\ \A c \in X : c.id \in b.created => c.type = "new" \/ c.word = j.word
    <3>1. CASE b \in A
      BY <2>3, <3>1 DEF Core, AnswersMatch
    <3>2. CASE b = a
      <4>1. j.id = p.item
        BY <2>3, <3>2
      <4>2. /\ ~Pending(j)
            /\ IF j.type = "new" THEN p.prev = NoRow ELSE Learnt(p.prev)
            /\ \A c \in X : c.id \in p.created => c.type = "new" \/ c.word = j.word
        BY <4>1 DEF Core, AnswersMatch
      <4> QED BY <1>3, <3>2, <4>2
    <3> QED BY <1>2, <3>1, <3>2
  <2> QED BY <2>1, <2>2, <2>3 DEF AnswersMatch
<1>6. TrimmedAway(X, S, E, day)
  <2> SUFFICES ASSUME NEW b \in E, NEW j \in X, j.id = b.item, j.day = day
               PROVE  TrimmedAtLimit(X, S, b, j) /\ TrimmedAreNew(X, S, b)
    BY DEF TrimmedAway
  <2>1. CASE b \in A
    BY <2>1 DEF Core, TrimmedAway
  <2>2. CASE b = a
    <3>1. j = i
      BY <1>1, <2>2
    <3> QED BY <2>2, <3>1
  <2> QED BY <1>2, <2>1, <2>2
<1>7. Chained(X, S, E, day)
  <2> SUFFICES ASSUME NEW w \in Words
               PROVE  ChainedFollowUps(CardsOf(X, w), S[w], AnswersFor(E, CardsOf(X, w)), day)
    BY DEF Chained
  <2> DEFINE C == CardsOf(X, w)
             B == AnswersFor(A, C)
             F == AnswersFor(E, C)
  <2>1. ChainedFollowUps(C, S[w], B, day)
    BY DEF Core, Chained
  <2>2. C \subseteq X /\ \A b, c \in C : b.type = "new" /\ c.type = "new" => b = c
    BY DEF CardsOf, Core, OneNewCard
  <2>3. /\ \A b \in B : b # p => b \in F
        /\ \A b \in F : (b \in B /\ b # p) \/ b = a
        /\ p \in B <=> a \in F
    BY <1>2 DEF AnswersFor
  <2> HIDE DEF C, B, F
  <2>4. ASSUME NEW j \in C, FollowsUp(C, B, j) PROVE FollowsUp(C, F, j)
    <3>1. PICK k \in C, b \in B :
            /\ b.item = k.id /\ j.id \in b.created
            /\ ~Pending(k) /\ (~Pending(j) => k.done < j.done)
            /\ \A c \in C : ~Pending(c) /\ c # j => c.done <= k.done \/ (~Pending(j) /\ j.done < c.done)
      BY <2>4 DEF FollowsUp
    <3>2. CASE b # p
      <4>1. b \in F
        BY <2>3, <3>2
      <4> QED BY <3>1, <4>1 DEF FollowsUp
    <3>3. CASE b = p
      <4>1. a \in F /\ a.item = k.id /\ j.id \in a.created
        BY <2>3, <3>1, <3>3
      <4> QED BY <3>1, <4>1 DEF FollowsUp
    <3> QED BY <3>2, <3>3
  <2>5. ChainedFollowUps(C, S[w], F, day)
    <3> SUFFICES ASSUME NEW e \in C, e.type = "new" /\ e.day = day /\ ~Pending(e)
                 PROVE  /\ S[w].status \in {"learning", "known"}
                        /\ \A j \in C : j # e =>
                             /\ j.type = "short_term" /\ j.day = day
                             /\ FollowsUp(C, F, j)
                             /\ IF Pending(j) THEN SmallStep(S[w]) ELSE e.done < j.done
                        /\ \A b \in F, k \in C : b.item = k.id =>
                             /\ k # e => SmallStep(b.prev)
                             /\ \A j, l \in C : j.id \in b.created /\ l.id \in b.created => j = l
                        /\ S[w].due # Null /\ Day(S[w].due) <= day => \E j \in C : j.type = "short_term"
      BY DEF ChainedFollowUps
    <3>1. /\ S[w].status \in {"learning", "known"}
          /\ \A j \in C : j # e =>
               /\ j.type = "short_term" /\ j.day = day
               /\ FollowsUp(C, B, j)
               /\ IF Pending(j) THEN SmallStep(S[w]) ELSE e.done < j.done
          /\ \A b \in B, k \in C : b.item = k.id =>
               /\ k # e => SmallStep(b.prev)
               /\ \A j, l \in C : j.id \in b.created /\ l.id \in b.created => j = l
          /\ S[w].due # Null /\ Day(S[w].due) <= day => \E j \in C : j.type = "short_term"
      BY <2>1 DEF ChainedFollowUps
    <3>2. ASSUME NEW b \in F, NEW k \in C, b.item = k.id
          PROVE  /\ k # e => SmallStep(b.prev)
                 /\ \A j, l \in C : j.id \in b.created /\ l.id \in b.created => j = l
      <4>1. CASE b \in B
        BY <3>1, <3>2, <4>1
      <4>2. CASE b = a
        <5>1. p \in B /\ p.item = k.id
          BY <2>3, <3>2, <4>2
        <5>2. (k # e => SmallStep(p.prev)) /\ \A j, l \in C : j.id \in p.created /\ l.id \in p.created => j = l
          BY <3>1, <5>1
        <5>3. \A j \in C : j.id \in a.created => j.id \in p.created
          <6> SUFFICES ASSUME NEW j \in C, j.id \in a.created, j.type = "new" /\ Pending(j) PROVE FALSE
            BY <1>3, <2>2
          <6> QED BY <2>2
        <5> QED BY <4>2, <5>2, <5>3
      <4> QED BY <2>3, <4>1, <4>2
    <3>3. \A j \in C : j # e => FollowsUp(C, F, j)
      BY <2>4, <3>1
    <3> QED BY <3>1, <3>2, <3>3
  <2> QED BY <2>5 DEF C, F
<1> QED BY <1>4, <1>5, <1>6, <1>7 DEF Core, E

---------------------------------------------------------------------------
(* Follow-ups *)

\* The cards G are the follow-up f that is dealt at time t to the word w.
FollowedUp(d, w, t, f, G) ==
  /\ G \in SUBSET Item
  /\ f.db.items = d.items \cup G /\ f.db.states = d.states /\ f.db.answers = d.answers
  /\ f.created = {g.id : g \in G}
  /\ IsFiniteSet(G) /\ \A g, h \in G : g = h
  /\ \A g \in G :
       /\ Pending(g) /\ g.day = Day(t) /\ g.word = w /\ g.type = "short_term" /\ ~g.bonus
       /\ \A j \in d.items : j.id # g.id
       /\ \A b \in d.answers : g.id \notin b.created
  /\ G # {} => d.states[w].due # Null /\ Day(d.states[w].due) = Day(t)
  /\ d.states[w].due # Null /\ Day(d.states[w].due) = Day(t) /\ d.pools[Day(t)].open => G # {}

LEMMA FollowUpsPlanned ==
  ASSUME FollowUpFaults = FALSE,
         NEW t \in Nat, Day(t) \in Days, NEW d, Sound(d), NEW w \in Words, NEW f \in FollowUps(d, w, t)
  PROVE  \E G : FollowedUp(d, w, t, f, G)
<1> DEFINE row == d.states[w]
           due == row.due # Null /\ Day(row.due) = Day(t) /\ d.pools[Day(t)].open
           card == [word |-> w, type |-> "short_term", bonus |-> FALSE, due |-> row.due]
           appended == AppendPoolItems(d, Day(t), ReviewCards(d, {w}, "short_term"))
<1>1. f = IF due THEN Maintained(appended, NewIds(d, appended), {}) ELSE Maintained(d, {}, {})
  BY DEF FollowUps
<1>2. CASE ~due
  <2>1. f = Maintained(d, {}, {})
    BY <1>1, <1>2
  <2>2. d.items = d.items \cup {} /\ {} = {g.id : g \in {}}
    OBVIOUS
  <2> WITNESS {}
  <2> QED BY <1>2, <2>1, <2>2, FS_EmptySet DEF Maintained, FollowedUp
<1>3. CASE due
  <2> DEFINE cards == ReviewCards(d, {w}, "short_term")
  <2>1. cards = {card}
    BY DEF ReviewCards
  <2>2. cards \in SUBSET Card /\ IsFiniteSet(cards)
    <3>1. {w} \in SUBSET Words /\ "short_term" \in ItemTypes
      BY DEF ItemTypes
    <3> QED BY <3>1, ReviewCardsAreCards
  <2> HIDE DEF cards, card
  <2>3. PICK h \in [cards -> Item] :
          /\ AppendPoolItems(d, Day(t), cards) = [d EXCEPT !.items = d.items \cup {h[c] : c \in cards}]
          /\ \A c \in cards : DealtAs(d, Day(t), c, h[c])
    BY <2>2, DealtCards
  <2> DEFINE g == h[card]
  <2>4. g \in Item /\ DealtAs(d, Day(t), card, g) /\ {h[c] : c \in cards} = {g}
    BY <2>1, <2>3
  <2>5. appended = [d EXCEPT !.items = d.items \cup {g}]
    BY <2>3, <2>4 DEF cards
  <2> HIDE DEF g, appended
  <2>6. /\ appended.items = d.items \cup {g} /\ appended.states = d.states
        /\ appended.answers = d.answers
    BY <2>5 DEF Sound, DB
  <2>7. /\ Pending(g) /\ g.day = Day(t) /\ g.word = w /\ g.type = "short_term" /\ ~g.bonus
        /\ g.id > LastId(d)
    BY <2>4 DEF DealtAs, card
  <2>8. /\ LastId(d) \in Nat
        /\ \A i \in d.items : i.id \in Nat /\ i.id <= LastId(d)
        /\ \A a \in d.answers : \A n \in a.created : n \in Nat /\ n <= LastId(d)
    BY LastIdIsUpper DEF Sound, DB, Item, Answer
  <2>9. (\A j \in d.items : j.id # g.id) /\ \A b \in d.answers : g.id \notin b.created
    BY <2>7, <2>8
  <2>10. NewIds(d, appended) = {g.id}
    <3>1. \A n : n \in NewIds(d, appended) <=>
                   (\E j \in appended.items : j.id = n) /\ ~\E j \in d.items : j.id = n
      BY DEF NewIds
    <3>2. \A n : n \in NewIds(d, appended) <=> n = g.id
      BY <2>6, <2>9, <3>1
    <3> QED BY <3>2
  <2>11. f = Maintained(appended, {g.id}, {})
    BY <1>1, <1>3, <2>10
  <2>12. {g.id} = {j.id : j \in {g}}
    OBVIOUS
  <2>13. {g} \in SUBSET Item /\ IsFiniteSet({g})
    BY <2>4, FS_Singleton
  <2> WITNESS {g}
  <2> QED BY <1>3, <2>6, <2>7, <2>9, <2>11, <2>12, <2>13 DEF Maintained, FollowedUp
<1> QED BY <1>2, <1>3

(***************************************************************************)
(* A review answer leaves a word being learned; after a step of less than  *)
(* a day it is still in consolidation, and due today only after another.   *)
(***************************************************************************)
LEMMA ReviewSteps ==
  ASSUME DayLen <= OneDay,
         NEW row \in StateRow, Schedulable(row), Learnt(row), NEW hard \in BOOLEAN, NEW t \in Nat,
         NEW post \in ReviewOutcomes(row, hard, t)
  PROVE  /\ Learnt(post)
         /\ SmallStep(row) => post.status = "learning" /\ (Day(post.due) = Day(t) => SmallStep(post))
<1>1. PICK outcome \in ApplyReviewOutcome(row, hard, t) :
        \E r \in ApplyMemoryCauseIntervalBias(outcome, t) :
          post \in ApplyWordConstructionFeedback(r, t)
  BY DEF ReviewOutcomes
<1>2. PICK r \in ApplyMemoryCauseIntervalBias(outcome, t) : post \in ApplyWordConstructionFeedback(r, t)
  BY <1>1
<1>3. \A u : ReviewRow(u).status = "review"
  BY DEF ReviewRow
<1>4. (post = outcome \/ post.status = "review") /\ (post = outcome \/ outcome.status = "review")
  BY <1>2, <1>3 DEF ApplyMemoryCauseIntervalBias, ApplyWordConstructionFeedback
<1>5. \A stage, u : LearningRow(stage, u) = [status |-> "learning", stage |-> stage, due |-> u]
  BY DEF LearningRow
<1>6. CASE row.stage = 0
  <2>1. outcome.status = "review"
    BY <1>3, <1>6 DEF ApplyReviewOutcome
  <2> QED BY <1>4, <1>6, <2>1 DEF Learnt, SmallStep
<1>7. CASE row.stage = 1 \/ row.stage = 2
  <2>1. outcome = NextConsolidationStep(row.stage, hard, t)
    BY <1>7 DEF ApplyReviewOutcome
  <2>2. \/ \E u : outcome = LearningRow(1, u)
        \/ \E u : outcome = LearningRow(2, u)
        \/ outcome = LearningRow(3, t + OneDay)
    BY <1>7, <2>1 DEF NextConsolidationStep
  <2>3. outcome.status = "learning" /\ (outcome.stage \in {1, 2} \/ outcome.due = t + OneDay)
    BY <1>5, <2>2
  <2>4. post = outcome
    BY <1>4, <2>3
  <2>5. Day(t + OneDay) # Day(t)
    <3>1. Day(t + OneDay) > Day(t) /\ Day(t) \in Nat
      BY DayLater, DayIsNat, DurationsAssumption
    <3> QED BY <3>1
  <2> QED BY <2>3, <2>4, <2>5 DEF Learnt, SmallStep
<1>8. CASE row.stage = 3
  <2>1. outcome = NextConsolidationStep(3, hard, t)
    BY <1>8 DEF ApplyReviewOutcome
  <2>2. outcome.status \in {"learning", "review"}
    BY <1>3, <1>5, <2>1 DEF NextConsolidationStep
  <2> QED BY <1>4, <1>8, <2>2 DEF Learnt, SmallStep
<1> QED BY <1>6, <1>7, <1>8 DEF StateRow

---------------------------------------------------------------------------
(* Answers of the planned day *)

(***************************************************************************)
(* What the event of an answer would record before its follow-up, when the *)
(* answer keeps to the plan, and what it leaves.                           *)
(***************************************************************************)
AnswerSoFar(d, i, post, f) ==
  [item |-> i.id, prev |-> d.states[i.word], post |-> post, created |-> f.created, deleted |-> {}]

KeepsToThePlan(d, i, post, day) ==
  IF i.type = "new"
  THEN /\ post.status \in {"learning", "known"}
       /\ post.due # Null => SmallStep(post) /\ Day(post.due) >= day
       /\ i.day = day => /\ d.pools[day].open
                         /\ Cardinality(LearntCards(d.items, d.states, day)) < NewLimit
  ELSE /\ Learnt(post)
       /\ StandsToday(d.items, i.word, day) =>
            post.status = "learning" /\ (Day(post.due) = day => SmallStep(post))

AnsweredLast(e, i) ==
  \E k \in e.items :
    /\ k.id = i.id /\ k.day = i.day /\ k.type = i.type /\ ~Pending(k)
    /\ \A j \in e.items : j.day = i.day => j.done <= k.done

LEMMA AnswerPlanned ==
  ASSUME FollowUpFaults = FALSE,
         NEW t \in Nat, Day(t) \in Days, NEW d, Sound(d), Core(d.items, d.states, d.answers, Day(t)),
         NEW i \in d.items, Pending(i), NEW post \in StateRow, Schedulable(post),
         KeepsToThePlan(d, i, post, Day(t)),
         NEW f \in FollowUps(Marked(d, i, post), i.word, t)
  PROVE  /\ Core(f.db.items, f.db.states, d.answers \cup {AnswerSoFar(d, i, post, f)}, Day(t))
         /\ Known(f.db, d.answers \cup {AnswerSoFar(d, i, post, f)}, Day(t))
         /\ f.db.answers = d.answers /\ AnswerSoFar(d, i, post, f) \in Answer
         /\ (i.type # "new" \/ i.day # Day(t)) /\ Room(d, Day(t)) => Room(f.db, Day(t))
         /\ AnsweredLast(f.db, i)
<1> DEFINE w == i.word
           day == Day(t)
           X == d.items
           u == UpsertState(d, w, post)
           n == LastStamp(u, i.day) + 1
           k == [i EXCEPT !.done = n]
           T == [d.states EXCEPT ![w] = post]
           e == Marked(d, i, post)
           p == AnswerSoFar(d, i, post, f)
<1>1. /\ i \in Item /\ w \in Words /\ i.id \in Nat /\ i.day \in Days
      /\ day \in Nat /\ d.states \in [Words -> StateRow]
      /\ d.answers \in SUBSET Answer
      /\ \A j \in X : j.done \in Nat
  BY DayIsNat DEF Sound, DB, Item
<1>2. /\ Sound(u) /\ u.items = X /\ u.states = T /\ u.answers = d.answers /\ u.pools = d.pools
  BY <1>1, UpsertStateSound DEF UpsertState, Sound, DB
<1>3. n \in Nat /\ n # 0 /\ \A j \in X : j.day = i.day => j.done < n
  <2>1. LastStamp(u, i.day) \in Nat /\ \A j \in X : j.day = i.day => j.done <= LastStamp(u, i.day)
    BY <1>2, LastStampIsUpper
  <2> HIDE DEF u, X
  <2> QED BY <1>1, <2>1
<1>4. /\ Sound(e) /\ e.items = (X \ {i}) \cup {k} /\ e.states = T
      /\ e.answers = d.answers /\ e.pools = d.pools
  <2>1. e = MarkPoolItemCompleted(u, i)
    BY DEF Marked
  <2>2. Sound(e)
    BY <1>2, <2>1, MarkPoolItemCompletedSound
  <2> HIDE DEF u, e
  <2> QED BY <1>2, <2>1, <2>2 DEF MarkPoolItemCompleted, Sound, DB, u
<1> HIDE DEF u, n
<1>5. Stamped(i, n, k)
  BY <1>1, <1>3 DEF Stamped, Item
<1> HIDE DEF k
<1>6. T[w] = post
  BY <1>1
<1> HIDE DEF T
<1>6a. f \in FollowUps(e, w, t)
  OBVIOUS
<1> HIDE DEF e
<1>7. PICK G : FollowedUp(e, w, t, f, G)
  BY <1>1, <1>4, <1>6a, FollowUpsPlanned
<1>7a. /\ G \in SUBSET Item
       /\ f.db.items = e.items \cup G /\ f.db.states = e.states /\ f.db.answers = e.answers
       /\ f.created = {g.id : g \in G}
       /\ IsFiniteSet(G) /\ \A g, h \in G : g = h
       /\ \A g \in G :
            /\ Pending(g) /\ g.day = day /\ g.word = w /\ g.type = "short_term" /\ ~g.bonus
            /\ \A j \in e.items : j.id # g.id
            /\ \A b \in e.answers : g.id \notin b.created
  BY <1>7 DEF FollowedUp
<1>8. /\ G # {} => post.due # Null /\ Day(post.due) = day
      /\ post.due # Null /\ Day(post.due) = day /\ d.pools[day].open => G # {}
  BY <1>4, <1>6, <1>7 DEF FollowedUp
<1>9. \A j \in X, g \in G : j.id # g.id
  <2>1. \A j \in X : j # i => j \in e.items
    BY <1>4
  <2>2. k \in e.items /\ k.id = i.id
    BY <1>4, <1>5 DEF Stamped
  <2> HIDE DEF X
  <2> QED BY <1>7a, <2>1, <2>2
<1>10. \A g \in G : \A b \in d.answers : g.id \notin b.created
  BY <1>4, <1>7a
<1>11. p \in Answer /\ p.item = i.id /\ p.prev = d.states[w] /\ p.created = {g.id : g \in G} /\ p.deleted = {}
  <2>1. {g.id : g \in G} \in SUBSET Nat
    BY <1>7a DEF Item
  <2>2. d.states[w] \in StateRow
    BY <1>1
  <2>3. p.item = i.id /\ p.prev = d.states[w] /\ p.created = {g.id : g \in G} /\ p.deleted = {}
    BY <1>7a DEF AnswerSoFar
  <2>4. p.post = post
    BY DEF AnswerSoFar
  <2>5. p = [item |-> p.item, prev |-> p.prev, post |-> p.post, created |-> p.created, deleted |-> p.deleted]
    BY DEF AnswerSoFar
  <2> HIDE DEF p
  <2> QED BY <1>1, <2>1, <2>2, <2>3, <2>4, <2>5 DEF Answer
<1> HIDE DEF p
<1>12. IF i.type = "new"
       THEN /\ p.prev = NoRow /\ post.status \in {"learning", "known"}
            /\ G # {} => SmallStep(post)
            /\ i.day = day => /\ Cardinality(LearntCards(X, d.states, day)) < NewLimit
                              /\ post.due # Null /\ Day(post.due) <= day => G # {}
       ELSE /\ Learnt(post)
            /\ StandsToday(X, w, day) => post.status = "learning" /\ (G # {} => SmallStep(post))
  <2>1. CASE i.type = "new"
    <3>1. d.states[w].status = "none"
      BY <2>1 DEF Core, NewUntilAnswered
    <3>2. Schedulable(d.states[w])
      BY <1>1 DEF Sound
    <3>3. d.states[w] = NoRow
      BY <3>1, <3>2 DEF Schedulable, KnownRow
    <3>4. post.due # Null => Day(post.due) \in Nat
      BY DayIsNat DEF StateRow
    <3>5. post.due # Null /\ Day(post.due) <= day /\ i.day = day => G # {}
      BY <1>1, <1>8, <2>1, <3>4 DEF KeepsToThePlan
    <3> QED BY <1>8, <1>11, <2>1, <3>3, <3>5 DEF KeepsToThePlan
  <2>2. CASE i.type # "new"
    BY <1>8, <2>2 DEF KeepsToThePlan
  <2> QED BY <2>1, <2>2
<1>13. Completes(X, d.states, d.answers, day, i, n, post, G, p)
  BY <1>3, <1>7a, <1>9, <1>10, <1>11, <1>12 DEF Completes
<1>14. f.db.items = (X \ {i}) \cup {k} \cup G /\ f.db.states = T /\ f.db.answers = d.answers
  BY <1>4, <1>7a
<1>15. /\ Core(f.db.items, f.db.states, d.answers \cup {p}, day)
       /\ (i.type # "new" \/ i.day # day) /\ RoomForTheBuffer(X, d.states, day) =>
            RoomForTheBuffer(f.db.items, f.db.states, day)
  <2>1. /\ Core(Completed(X, i, k, G), Rewritten(d.states, i.word, post), d.answers \cup {p}, day)
        /\ (i.type # "new" \/ i.day # day) /\ RoomForTheBuffer(X, d.states, day) =>
             RoomForTheBuffer(Completed(X, i, k, G), Rewritten(d.states, i.word, post), day)
    BY <1>5, <1>13, CompletedCore
  <2>2. f.db.items = Completed(X, i, k, G) /\ f.db.states = Rewritten(d.states, i.word, post)
    BY <1>14 DEF Completed, Rewritten, T
  <2> QED BY <2>1, <2>2
<1>16. Known(f.db, d.answers \cup {p}, day)
  <2>1. \A m \in p.created : \E j \in f.db.items : j.id = m /\ j.day = day /\ j.type # "new"
    BY <1>7a, <1>11
  <2> QED BY <1>14, <2>1 DEF Known
<1>17. \E c \in f.db.items :
         /\ c.id = i.id /\ c.day = i.day /\ c.type = i.type /\ ~Pending(c)
         /\ \A j \in f.db.items : j.day = i.day => j.done <= c.done
  <2>1. k.id = i.id /\ k.day = i.day /\ k.type = i.type /\ k.done = n /\ ~Pending(k)
    BY <1>3, <1>5 DEF Stamped, Pending
  <2>2. \A j \in f.db.items : j.day = i.day => j.done <= k.done
    <3> SUFFICES ASSUME NEW j \in f.db.items, j.day = i.day PROVE j.done <= k.done
      OBVIOUS
    <3>1. CASE j \in X
      BY <1>1, <1>3, <2>1, <3>1
    <3>2. CASE j = k
      BY <1>3, <2>1, <3>2
    <3>3. CASE j \in G
      BY <1>3, <1>7a, <2>1, <3>3 DEF Pending
    <3> QED BY <1>14, <3>1, <3>2, <3>3
  <2> QED BY <1>14, <2>1, <2>2
<1> QED BY <1>11, <1>14, <1>15, <1>16, <1>17 DEF Room, AnsweredLast, p

LEMMA CommitPlanned ==
  ASSUME PlannedInv, CountersInv', NEW d, Planned(d, Day(now)), Commit(d)
  PROVE  PlannedInv'
<1>1. now' = now /\ db' = d
  BY DEF Commit
<1>2. Planned(db', Day(now'))
  BY <1>1
<1> QED BY <1>2 DEF PlannedInv, Planned

(***************************************************************************)
(* The event replaces none: a pending card has no answer.                  *)
(***************************************************************************)
LEMMA EventPlanned ==
  ASSUME NEW d, Sound(d), NEW day, NEW a, \A b \in d.answers : b.item # a.item,
         Core(d.items, d.states, d.answers \cup {a}, day), Room(d, day)
  PROVE  Planned(RecordAnswer(d, a), day)
<1> DEFINE e == RecordAnswer(d, a)
<1>1. e.items = d.items /\ e.states = d.states /\ e.answers = {b \in d.answers : b.item # a.item} \cup {a}
  BY DEF RecordAnswer, Sound, DB
<1>2. {b \in d.answers : b.item # a.item} = d.answers
  OBVIOUS
<1> HIDE DEF e
<1>3. Planned(e, day)
  BY <1>1, <1>2 DEF Planned, Room
<1> QED BY <1>3 DEF e

FirstPost(known, t) == IF known THEN ApplyFirstExposureKnown ELSE ApplyFirstExposureUnknown(t)

FirstAnswer(d, i, post, f, m) ==
  [item |-> i.id, prev |-> d.states[i.word], post |-> post,
   created |-> f.created \cup m.created, deleted |-> m.deleted]

LEMMA FirstExposureWritten ==
  ASSUME PlannedAssumption, PlannedInv,
         NEW i \in db.items, NEW known \in BOOLEAN, Pending(i), i.type = "new",
         NEW f \in FollowUps(Marked(db, i, FirstPost(known, now)), i.word, now),
         NEW m \in MaintainNewWordBuffer(f.db, now)
  PROVE  /\ m.db.answers = db.answers
         /\ Planned(RecordAnswer(m.db, FirstAnswer(db, i, FirstPost(known, now), f, m)), Day(now))
<1> DEFINE day == Day(now)
           prev == db.states[i.word]
           post == FirstPost(known, now)
           marked == Marked(db, i, post)
           a == FirstAnswer(db, i, post, f, m)
<1>2. f \in FollowUps(marked, i.word, now) /\ f \in FollowUps(Marked(db, i, post), i.word, now)
  OBVIOUS
<1>3. Pending(i) /\ i.type = "new" /\ CountersInv
  BY DEF PlannedInv
<1>4. /\ i \in Item /\ i.id \in Nat /\ i.word \in Words
      /\ now \in Nat /\ day \in Days /\ Coherent(db, day) /\ Sound(db)
      /\ Core(db.items, db.states, db.answers, day) /\ Room(db, day)
  BY <1>3 DEF CountersInv, Coherent, Sound, DB, Item, PlannedInv, Planned, Room
<1>5. post \in StateRow /\ Schedulable(post) /\ prev \in StateRow /\ Schedulable(prev)
  BY <1>4, FirstExposureRows DEF Sound, DB, FirstPost
<1>6. /\ post.status \in {"learning", "known"}
      /\ post.due # Null => SmallStep(post) /\ Day(post.due) >= day
  <2>1. CASE known
    BY <2>1 DEF FirstPost, ApplyFirstExposureKnown, KnownRow
  <2>2. CASE ~known
    <3>1. post = [status |-> "learning", stage |-> 1, due |-> now + TenMinutes]
      BY <2>2 DEF FirstPost, ApplyFirstExposureUnknown, LearningRow
    <3>2. Day(now) <= Day(now + TenMinutes) /\ Day(now) \in Nat /\ Day(now + TenMinutes) \in Nat
      <4>1. now + TenMinutes \in Nat /\ now <= now + TenMinutes
        BY <1>4, DurationsAssumption
      <4> QED BY <1>4, <4>1, DayIsMonotonic, DayIsNat
    <3> QED BY <3>1, <3>2 DEF SmallStep
  <2> QED BY <2>1, <2>2
<1>7a. i.day = day => db.pools[day].open /\ Cardinality(LearntCards(db.items, db.states, day)) < NewLimit
  <2> SUFFICES ASSUME i.day = day
               PROVE  db.pools[day].open /\ Cardinality(LearntCards(db.items, db.states, day)) < NewLimit
    OBVIOUS
  <2>1. i \in PoolItems(db, day) /\ i \in ItemsOf(db.items, day, "new")
    BY <1>3 DEF PoolItems, ItemsOf
  <2>2. db.pools[day].open
    BY <1>4, <2>1 DEF Coherent, ClosedPoolsAreEmpty
  <2> QED BY <1>3, <1>4, <2>1, <2>2 DEF Room, RoomForTheBuffer
<1>7. KeepsToThePlan(db, i, post, day)
  <2> HIDE DEF post
  <2> QED BY <1>3, <1>6, <1>7a DEF KeepsToThePlan
<1> HIDE DEF post
<1>8. Coherent(f.db, day)
  <2>1. Coherent(marked, day)
    BY <1>4, <1>5, AnsweredCoherent DEF Marked
  <2> HIDE DEF marked
  <2> QED BY <1>2, <1>4, <2>1, FollowUpsCoherent DEF CoherentMaintained
<1> DEFINE p == AnswerSoFar(db, i, post, f)
           A == db.answers \cup {p}
<1>9. /\ Core(f.db.items, f.db.states, A, day) /\ Known(f.db, A, day)
      /\ f.db.answers = db.answers /\ p \in Answer
      /\ (i.type # "new" \/ i.day # Day(now)) /\ Room(db, Day(now)) => Room(f.db, Day(now))
      /\ AnsweredLast(f.db, i)
  <2>1. FollowUpFaults = FALSE
    BY DEF PlannedAssumption
  <2>2. Core(db.items, db.states, db.answers, Day(now)) /\ Sound(db) /\ KeepsToThePlan(db, i, post, Day(now))
    BY <1>4, <1>7
  <2>3. f \in FollowUps(Marked(db, i, post), i.word, now)
    BY <1>2
  <2>4. now \in Nat /\ Day(now) \in Days /\ i \in db.items /\ Pending(i) /\ post \in StateRow /\ Schedulable(post)
    BY <1>3, <1>4, <1>5
  <2> HIDE DEF marked, prev, day
  <2>5. /\ Core(f.db.items, f.db.states, db.answers \cup {AnswerSoFar(db, i, post, f)}, Day(now))
        /\ Known(f.db, db.answers \cup {AnswerSoFar(db, i, post, f)}, Day(now))
        /\ f.db.answers = db.answers /\ AnswerSoFar(db, i, post, f) \in Answer
        /\ (i.type # "new" \/ i.day # Day(now)) /\ Room(db, Day(now)) => Room(f.db, Day(now))
        /\ AnsweredLast(f.db, i)
    BY <2>1, <2>2, <2>3, <2>4, AnswerPlanned, Zenon
  <2> QED BY <2>5 DEF day
<1>10. /\ Core(f.db.items, f.db.states, A, day) /\ Known(f.db, A, day)
       /\ f.db.answers = db.answers /\ p \in Answer
       /\ i.day # day => Room(f.db, day)
       /\ AnsweredLast(f.db, i)
  BY <1>4, <1>9
<1>11. PICK k \in f.db.items :
         /\ k.id = i.id /\ k.day = i.day /\ k.type = i.type /\ ~Pending(k)
         /\ \A j \in f.db.items : j.day = i.day => j.done <= k.done
  BY <1>10 DEF AnsweredLast
<1> HIDE DEF marked, p
<1>12. Room(f.db, day) \/ NewLimit > 0
  <2>1. CASE i.day = day
    <3>1. Cardinality(LearntCards(db.items, db.states, day)) \in Nat /\ NewLimit \in Nat
      BY <1>4, LearntCardsAreFinite, DailyAssumption DEF Sound
    <3> QED BY <1>7a, <2>1, <3>1
  <2> QED BY <1>10, <2>1
<1>13. WellMaintained(f.db, m, A, day)
  BY <1>4, <1>8, <1>10, <1>12, MaintainBufferPlanned
<1>14. /\ Core(m.db.items, m.db.states, A, day) /\ Room(m.db, day)
       /\ m.db.answers = db.answers
       /\ AnsweredNew(m.db.items) = AnsweredNew(f.db.items)
       /\ \A n \in m.created : \E j \in m.db.items : j.id = n /\ j.type = "new" /\ Pending(j)
       /\ TrimmedAreNew(m.db.items, m.db.states, m)
       /\ m.deleted # {} => Cardinality(LearntCards(m.db.items, m.db.states, day)) >= NewLimit
  BY <1>10, <1>13 DEF WellMaintained
<1>15. /\ a \in Answer /\ a.item = i.id /\ a.prev = prev /\ a.deleted = m.deleted
       /\ a.created = f.created \cup m.created
  <2>1. SoundMaintained(f) /\ SoundMaintained(m)
    <3>1. Sound(marked)
      BY <1>4, <1>5, AnsweredCoherent DEF marked, Marked, Coherent
    <3>2. SoundMaintained(f)
      BY <1>2, <1>4, <3>1, FollowUpsSound
    <3> QED BY <1>4, <3>2, MaintainBufferSound DEF SoundMaintained
  <2> QED BY <1>4, <1>5, <2>1 DEF Answer, SoundMaintained, FirstAnswer
<1>16. p.item = i.id /\ p.prev = prev /\ p.created = f.created
  BY DEF p, AnswerSoFar
<1> HIDE DEF a
<1>17. k \in m.db.items
  <2>1. k \in AnsweredNew(f.db.items)
    BY <1>3, <1>11 DEF AnsweredNew
  <2> QED BY <1>14, <2>1 DEF AnsweredNew
<1>18. TrimmedAreNew(m.db.items, m.db.states, a)
  BY <1>14, <1>15 DEF TrimmedAreNew
<1>19. k.day = day => TrimmedAtLimit(m.db.items, m.db.states, a, k)
  <2>1. \A j \in m.db.items : j.type = "new" /\ ~Pending(j) => j \in f.db.items
    BY <1>14 DEF AnsweredNew
  <2> QED BY <1>3, <1>11, <1>14, <1>15, <2>1 DEF TrimmedAtLimit, ItemsOf
<1>20. Core(m.db.items, m.db.states, (A \ {p}) \cup {a}, day)
  <2> HIDE DEF a
  <2>1. p \in A
    OBVIOUS
  <2> HIDE DEF A
  <2>2. /\ \A n \in p.created : n \in a.created
        /\ \A n \in a.created :
             n \in p.created \/ \E j \in m.db.items : j.id = n /\ j.type = "new" /\ Pending(j)
    BY <1>14, <1>15, <1>16
  <2> QED BY <1>11, <1>14, <1>15, <1>16, <1>17, <1>18, <1>19, <2>1, <2>2, RecordedCore
<1>21. \A b \in db.answers : b.item # p.item
  BY <1>3, <1>4, <1>16 DEF Core, AnswersMatch
<1>22. Sound(m.db)
  BY <1>4, <1>8, MaintainBufferCoherent DEF CoherentMaintained, Coherent
<1>23. Planned(RecordAnswer(m.db, a), day)
  <2> HIDE DEF a
  <2>1. (A \ {p}) \cup {a} = m.db.answers \cup {a}
    BY <1>14, <1>21
  <2>2. \A b \in m.db.answers : b.item # a.item
    BY <1>14, <1>15, <1>16, <1>21
  <2>3. Core(m.db.items, m.db.states, m.db.answers \cup {a}, day)
    BY <1>20, <2>1
  <2> QED BY <1>14, <1>22, <2>2, <2>3, EventPlanned
<1> QED BY <1>14, <1>23 DEF a, post

LEMMA FirstExposurePlanned ==
  ASSUME PlannedAssumption, PlannedInv,
         NEW i \in db.items, NEW known \in BOOLEAN, SubmitFirstExposure(i, known)
  PROVE  PlannedInv'
<1> DEFINE post == FirstPost(known, now)
<1>1. PICK f \in FollowUps(Marked(db, i, post), i.word, now) :
        \E m \in MaintainNewWordBuffer(f.db, now) : Commit(RecordAnswer(m.db, FirstAnswer(db, i, post, f, m)))
  BY DEF SubmitFirstExposure, Marked, FirstPost, FirstAnswer
<1>2. PICK m \in MaintainNewWordBuffer(f.db, now) : Commit(RecordAnswer(m.db, FirstAnswer(db, i, post, f, m)))
  BY <1>1
<1>3. Pending(i) /\ i.type = "new" /\ CountersInv
  BY DEF SubmitFirstExposure, PlannedInv
<1>4. Planned(RecordAnswer(m.db, FirstAnswer(db, i, post, f, m)), Day(now))
  BY <1>3, FirstExposureWritten
<1>5. CountersInv'
  BY <1>3, SubmitFirstExposureCoherent
<1> HIDE DEF post
<1> QED BY <1>2, <1>4, <1>5, CommitPlanned

LEMMA SubmitReviewPlanned ==
  ASSUME PlannedAssumption, PlannedInv,
         NEW i \in db.items, NEW hard \in BOOLEAN, SubmitReview(i, hard)
  PROVE  PlannedInv'
<1> DEFINE day == Day(now)
           prev == db.states[i.word]
           answer(post, f) == [item |-> i.id, prev |-> prev, post |-> post,
                               created |-> f.created, deleted |-> {}]
<1>1. CountersInv /\ Core(db.items, db.states, db.answers, day) /\ Room(db, day)
  BY DEF PlannedInv, Planned, Room
<1>2. /\ i \in Item /\ i.id \in Nat /\ i.word \in Words /\ Pending(i) /\ HasRow(db, i.word)
      /\ now \in Nat /\ day \in Days /\ Coherent(db, day) /\ Sound(db)
      /\ prev \in StateRow /\ Schedulable(prev)
  BY <1>1 DEF CountersInv, Coherent, Sound, DB, Item, SubmitReview
<1>3. i.type # "new" /\ ~i.bonus /\ Learnt(prev)
  <2>1. i.type # "new"
    BY <1>1, <1>2 DEF Core, NewUntilAnswered, HasRow
  <2> QED BY <1>1, <2>1 DEF Core, ReviewsAreLearnt
<1>4. PICK post \in ReviewOutcomes(prev, hard, now) :
        \E f \in FollowUps(Marked(db, i, post), i.word, now) : Commit(RecordAnswer(f.db, answer(post, f)))
  BY <1>3 DEF SubmitReview, Marked
<1>5. PICK f \in FollowUps(Marked(db, i, post), i.word, now) : Commit(RecordAnswer(f.db, answer(post, f)))
  BY <1>4
<1>6. post \in StateRow /\ Schedulable(post)
  BY <1>2, ReviewRows
<1>7. /\ Learnt(post)
      /\ SmallStep(prev) => post.status = "learning" /\ (Day(post.due) = day => SmallStep(post))
  <2>1. DayLen <= OneDay
    BY DEF PlannedAssumption
  <2> HIDE DEF prev
  <2> QED BY <1>2, <1>3, <2>1, ReviewSteps
<1>8. StandsToday(db.items, i.word, day) => SmallStep(prev)
  <2> SUFFICES ASSUME NEW e \in db.items, e.word = i.word, e.type = "new", e.day = day, ~Pending(e)
               PROVE  SmallStep(prev)
    BY DEF StandsToday
  <2>1. ChainedFollowUps(CardsOf(db.items, i.word), prev, AnswersFor(db.answers, CardsOf(db.items, i.word)), day)
    BY <1>1, <1>2 DEF Core, Chained
  <2>2. e \in CardsOf(db.items, i.word) /\ i \in CardsOf(db.items, i.word) /\ i # e
    BY <1>3 DEF CardsOf
  <2> HIDE DEF prev
  <2> QED BY <1>2, <2>1, <2>2 DEF ChainedFollowUps
<1>9. KeepsToThePlan(db, i, post, day)
  BY <1>3, <1>7, <1>8 DEF KeepsToThePlan
<1>10. /\ Core(f.db.items, f.db.states, db.answers \cup {AnswerSoFar(db, i, post, f)}, day)
       /\ f.db.answers = db.answers
       /\ (i.type # "new" \/ i.day # day) /\ Room(db, day) => Room(f.db, day)
  <2>1. FollowUpFaults = FALSE
    BY DEF PlannedAssumption
  <2> HIDE DEF day, prev, answer
  <2>2. now \in Nat /\ Day(now) \in Days /\ Core(db.items, db.states, db.answers, Day(now))
        /\ KeepsToThePlan(db, i, post, Day(now))
    BY <1>1, <1>2, <1>9 DEF day
  <2>3. /\ Core(f.db.items, f.db.states, db.answers \cup {AnswerSoFar(db, i, post, f)}, Day(now))
        /\ Known(f.db, db.answers \cup {AnswerSoFar(db, i, post, f)}, Day(now))
        /\ f.db.answers = db.answers /\ AnswerSoFar(db, i, post, f) \in Answer
        /\ (i.type # "new" \/ i.day # Day(now)) /\ Room(db, Day(now)) => Room(f.db, Day(now))
        /\ AnsweredLast(f.db, i)
    BY <1>2, <1>6, <2>1, <2>2, AnswerPlanned, Zenon
  <2> QED BY <2>3 DEF day
<1>11. answer(post, f) = AnswerSoFar(db, i, post, f) /\ answer(post, f).item = i.id
  BY DEF AnswerSoFar
<1>12. Sound(f.db)
  <2>1. Sound(Marked(db, i, post))
    BY <1>2, <1>6, AnsweredCoherent DEF Marked, Coherent
  <2> HIDE DEF day, prev
  <2>2. SoundMaintained(f)
    BY <1>2, <2>1, FollowUpsSound DEF day
  <2> QED BY <2>2 DEF SoundMaintained
<1>13. \A b \in db.answers : b.item # i.id
  BY <1>1, <1>2 DEF Core, AnswersMatch
<1>14. Planned(RecordAnswer(f.db, answer(post, f)), day)
  <2> HIDE DEF day, prev, answer
  <2>1. \A b \in f.db.answers : b.item # answer(post, f).item
    BY <1>10, <1>11, <1>13
  <2>2. Core(f.db.items, f.db.states, f.db.answers \cup {answer(post, f)}, day) /\ Room(f.db, day)
    BY <1>1, <1>3, <1>10, <1>11
  <2> QED BY <1>12, <2>1, <2>2, EventPlanned
<1>15. CountersInv'
  BY <1>1, SubmitReviewCoherent
<1> HIDE DEF answer
<1> QED BY <1>5, <1>14, <1>15, CommitPlanned
---------------------------------------------------------------------------
(* The other steps of the planned day *)

(***************************************************************************)
(* A new day starts without cards, and so without anything to keep.        *)
(***************************************************************************)
LEMMA NewDayCore ==
  ASSUME NEW day, NEW X, NEW S, NEW A, Core(X, S, A, day),
         NEW later, \A i \in X : i.day # later
  PROVE  Core(X, S, A, later) /\ RoomForTheBuffer(X, S, later)
<1>1. ItemsOf(X, later, "new") = {}
  BY DEF ItemsOf
<1>2. AnsweredWithinLimit(X, S, later) /\ RoomForTheBuffer(X, S, later)
  BY <1>1 DEF AnsweredWithinLimit, RoomForTheBuffer
<1>3. TrimmedAway(X, S, A, later)
  BY DEF TrimmedAway
<1>4. Chained(X, S, A, later)
  BY DEF Chained, ChainedFollowUps, CardsOf
<1> QED BY <1>2, <1>3, <1>4 DEF Core

LEMMA TickPlanned == PlannedInv /\ Tick => PlannedInv'
<1> SUFFICES ASSUME PlannedInv, Tick PROVE PlannedInv'
  OBVIOUS
<1>1. CountersInv /\ Planned(db, Day(now))
  BY DEF PlannedInv
<1>2. now' = now + 1 /\ db' = db /\ now \in Nat
  BY <1>1 DEF Tick, CountersInv
<1>3. Day(now) \in Nat /\ Day(now + 1) \in Nat /\ Day(now) <= Day(now + 1)
  BY <1>2, DayIsNat, DayIsMonotonic
<1>4. Planned(db, Day(now + 1))
  <2>1. CASE Day(now + 1) = Day(now)
    BY <1>1, <2>1
  <2>2. CASE Day(now + 1) # Day(now)
    <3>1. \A i \in db.items : i.day \in Nat /\ i.day <= Day(now)
      BY <1>1 DEF CountersInv, Coherent, NoFutureCards, Sound, DB, Item, Days
    <3>2. \A i \in db.items : i.day # Day(now + 1)
      BY <1>3, <2>2, <3>1
    <3> QED BY <1>1, <3>2, NewDayCore DEF Planned
  <2> QED BY <2>1, <2>2
<1>5. Planned(db', Day(now'))
  BY <1>2, <1>4
<1>6. CountersInv'
  BY <1>1, TickCoherent
<1> QED BY <1>5, <1>6 DEF PlannedInv, Planned

LEMMA PlannedFacts ==
  ASSUME PlannedInv
  PROVE  /\ CountersInv /\ now \in Nat /\ Day(now) \in Days /\ Coherent(db, Day(now))
         /\ Core(db.items, db.states, db.answers, Day(now)) /\ Room(db, Day(now))
         /\ Known(db, db.answers, Day(now))
BY DEF PlannedInv, Planned, Room, CountersInv, Known

\* A step that only adds cards, removes them or reads them anew ends in a planned day.
LEMMA GonePlanned ==
  ASSUME NEW d, NEW e, NEW day, Goes(d, e, d.answers, day), Room(e, day)
  PROVE  Planned(e, day)
BY DEF Goes, Planned, Room

LEMMA OpenDailyPoolPlanned == PlannedInv /\ OpenDailyPool => PlannedInv'
<1> SUFFICES ASSUME PlannedInv, OpenDailyPool PROVE PlannedInv'
  OBVIOUS
<1>1. PICK r \in GetOrCreateDailyPool(db, now) : Commit(r.db)
  BY DEF OpenDailyPool
<1>2. Goes(db, r.db, db.answers, Day(now)) /\ Room(r.db, Day(now))
  BY PlannedFacts, GetOrCreatePlanned
<1>3. Planned(r.db, Day(now))
  BY <1>2, GonePlanned
<1>4. CountersInv'
  BY PlannedFacts, CountersNext DEF Next, PoolNext
<1> QED BY <1>1, <1>3, <1>4, CommitPlanned

LEMMA NextCardReplenishesPlanned == PlannedInv /\ NextCardReplenishes => PlannedInv'
<1> SUFFICES ASSUME PlannedInv, NextCardReplenishes PROVE PlannedInv'
  OBVIOUS
<1>0. PICK r \in GetOrCreateDailyPool(db, now) :
        /\ r.ok
        /\ \E e \in ReplenishUnknownDailySlots(r.db, now) :
             \E s \in GetOrCreateDailyPool(e, now) : Commit(s.db)
  BY DEF NextCardReplenishes
<1>0a. PICK e \in ReplenishUnknownDailySlots(r.db, now) :
         \E s \in GetOrCreateDailyPool(e, now) : Commit(s.db)
  BY <1>0
<1>1. PICK s \in GetOrCreateDailyPool(e, now) : Commit(s.db)
  BY <1>0a
<1>2. Coherent(r.db, Day(now)) /\ Sound(r.db) /\ r.db.pools[Day(now)].open
  BY <1>0, PlannedFacts, GetOrCreateCoherent DEF Coherent
<1>3. Coherent(e, Day(now))
  BY <1>2, PlannedFacts, ReplenishCoherent
<1>4. Goes(db, r.db, db.answers, Day(now))
  BY PlannedFacts, GetOrCreatePlanned
<1>5. Core(r.db.items, r.db.states, db.answers, Day(now)) /\ Known(r.db, db.answers, Day(now))
  BY <1>4 DEF Goes
<1>6. Goes(r.db, e, db.answers, Day(now)) /\ Room(e, Day(now))
  BY <1>2, <1>5, PlannedFacts, ReplenishPlanned
<1>7. Core(e.items, e.states, db.answers, Day(now)) /\ Known(e, db.answers, Day(now))
  BY <1>6 DEF Goes
<1>8. Goes(e, s.db, db.answers, Day(now)) /\ Room(s.db, Day(now))
  BY <1>3, <1>6, <1>7, PlannedFacts, GetOrCreatePlanned
<1>9. Goes(db, s.db, db.answers, Day(now))
  BY <1>4, <1>6, <1>8, GoesThrough
<1>10. Planned(s.db, Day(now))
  BY <1>8, <1>9, GonePlanned
<1>11. CountersInv'
  BY PlannedFacts, CountersNext DEF Next, PoolNext
<1> QED BY <1>1, <1>10, <1>11, CommitPlanned

LEMMA PlannedInit == Init => PlannedInv
<1> SUFFICES ASSUME Init PROVE PlannedInv
  OBVIOUS
<1>1. db = EmptyDB /\ CountersInv
  BY CountersInit DEF Init
<1>2. db.items = {} /\ db.answers = {} /\ db.states \in [Words -> StateRow]
  BY <1>1 DEF EmptyDB, CountersInv, Coherent, Sound, DB
<1>3. Typed(db.items, db.states, db.answers)
  BY <1>2, FS_EmptySet DEF Typed, UniqueIds
<1>4. Core(db.items, db.states, db.answers, Day(now))
  BY <1>2, <1>3 DEF Core, OneNewCard, NewUntilAnswered, ReviewsAreLearnt, StampsAreUnique, AnswersMatch,
                    AnsweredWithinLimit, TrimmedAway, Chained, ChainedFollowUps, CardsOf, ItemsOf
<1>5. RoomForTheBuffer(db.items, db.states, Day(now))
  BY <1>2 DEF RoomForTheBuffer, ItemsOf
<1> QED BY <1>1, <1>4, <1>5 DEF PlannedInv, Planned
---------------------------------------------------------------------------
(* The last answer is undone *)

(***************************************************************************)
(* The answer a of the card i is the last of the day, and the cards D that *)
(* it appended to those of its word are pending still.                     *)
(***************************************************************************)
Undoes(X, A, day, i, a, D) ==
  /\ a \in A /\ i \in X /\ a.item = i.id /\ ~Pending(i) /\ i.day = day
  /\ \A j \in X : j.day = day => j.done <= i.done
  /\ D \in SUBSET X /\ \A j \in X : j \in D <=> j.id \in a.created
  /\ \A j \in D : Pending(j) /\ j.type # "new" /\ j.word = i.word

Undone(X, i, k, D) == ((X \ D) \ {i}) \cup {k}

(***************************************************************************)
(* The pending card of a word that is new today goes with the last answer. *)
(***************************************************************************)
LEMMA PendingIsUndone ==
  ASSUME NEW day, NEW X, NEW S, NEW A, Core(X, S, A, day),
         NEW i, NEW a, NEW D, Undoes(X, A, day, i, a, D),
         NEW e \in CardsOf(X, i.word), e.type = "new" /\ e.day = day /\ ~Pending(e),
         NEW j \in CardsOf(X, i.word), Pending(j)
  PROVE  j \in D
<1> DEFINE C == CardsOf(X, i.word)
           B == AnswersFor(A, C)
<1>1. /\ a \in A /\ i \in X /\ a.item = i.id /\ ~Pending(i) /\ i.day = day
      /\ \A c \in X : c.day = day => c.done <= i.done
      /\ \A c \in X : c \in D <=> c.id \in a.created
  BY DEF Undoes
<1>2. i.word \in Words /\ i \in C /\ C \subseteq X /\ B \subseteq A
  BY <1>1 DEF Core, Typed, Item, CardsOf, AnswersFor
<1>3. ChainedFollowUps(C, S[i.word], B, day)
  BY <1>2 DEF Core, Chained
<1>4. /\ \A c \in X : c.done \in Nat
      /\ \A b, c \in A : b.item = c.item => b = c
      /\ \A c, k \in X : ~Pending(c) /\ c.day = k.day /\ c.done = k.done => c = k
  BY DEF Core, Typed, Item, AnswersMatch, StampsAreUnique
<1>5. e \in C /\ j \in C /\ j # e
  OBVIOUS
<1> HIDE DEF C, B
<1>6. (\A c \in C : c.day = day) /\ FollowsUp(C, B, j)
  BY <1>3, <1>5 DEF ChainedFollowUps
<1>7. PICK k \in C, b \in B :
        /\ b.item = k.id /\ j.id \in b.created /\ ~Pending(k)
        /\ \A c \in C : ~Pending(c) => c.done <= k.done
  BY <1>6 DEF FollowsUp
<1>8. i.done <= k.done /\ k.done <= i.done /\ k.done \in Nat /\ i.done \in Nat
  BY <1>1, <1>2, <1>4, <1>6, <1>7
<1>9. k = i
  BY <1>1, <1>2, <1>4, <1>6, <1>7, <1>8
<1>10. b = a
  BY <1>1, <1>2, <1>4, <1>7, <1>9
<1> QED BY <1>1, <1>2, <1>5, <1>7, <1>10

(***************************************************************************)
(* When a new card was answered last, all cards of its word go but itself. *)
(***************************************************************************)
LEMMA NewCardIsAlone ==
  ASSUME NEW day, NEW X, NEW S, NEW A, Core(X, S, A, day),
         NEW i, NEW a, NEW D, Undoes(X, A, day, i, a, D), i.type = "new",
         NEW j \in X, j.word = i.word, j # i
  PROVE  j \in D
<1>1. i \in X /\ ~Pending(i) /\ i.day = day /\ \A c \in X : c.day = day => c.done <= i.done
  BY DEF Undoes
<1>2. i \in CardsOf(X, i.word) /\ j \in CardsOf(X, i.word) /\ i.word \in Words
      /\ i.done \in Nat /\ j.done \in Nat
  BY <1>1 DEF CardsOf, Core, Typed, Item
<1>3. ChainedFollowUps(CardsOf(X, i.word), S[i.word], AnswersFor(A, CardsOf(X, i.word)), day)
  BY <1>2 DEF Core, Chained
<1>4. j.day = day /\ (~Pending(j) => i.done < j.done)
  BY <1>1, <1>2, <1>3 DEF ChainedFollowUps
<1>5. Pending(j)
  BY <1>1, <1>2, <1>4
<1> QED BY <1>1, <1>2, <1>5, PendingIsUndone
(***************************************************************************)
(* The cards of a reviewed word, its row and the answers of its cards once *)
(* the last answer is undone.                                              *)
(***************************************************************************)
LEMMA UndoneChained ==
  ASSUME NEW day, NEW X, NEW S, NEW A, Core(X, S, A, day),
         NEW i, NEW a, NEW D, Undoes(X, A, day, i, a, D), i.type # "new",
         NEW k, Stamped(i, 0, k),
         NEW C, C = CardsOf(X, i.word), NEW B, B = AnswersFor(A, C)
  PROVE  ChainedFollowUps(Undone(C, i, k, D), a.prev, B \ {a}, day)
<1> DEFINE Y == Undone(C, i, k, D)
           E == B \ {a}
<1>1. /\ a \in A /\ i \in X /\ a.item = i.id /\ ~Pending(i) /\ i.day = day
      /\ \A j \in X : j.day = day => j.done <= i.done
      /\ \A j \in X : j \in D <=> j.id \in a.created
      /\ \A j \in D : Pending(j)
  BY DEF Undoes
<1>2. /\ i.word \in Words /\ i \in C /\ C \subseteq X /\ B \subseteq A
      /\ \A b \in A : (\E c \in C : b.item = c.id) => b \in B
  BY <1>1 DEF Core, Typed, Item, CardsOf, AnswersFor
<1>3. a \in B
  BY <1>1, <1>2
<1>4. ChainedFollowUps(C, S[i.word], B, day)
  BY <1>2 DEF Core, Chained
<1>5. /\ \A c \in X : c.done \in Nat
      /\ \A b, c \in X : b.id = c.id => b = c
      /\ \A b, c \in A : b.item = c.item => b = c
      /\ \A c, l \in X : ~Pending(c) /\ c.day = l.day /\ c.done = l.done => c = l
  BY DEF Core, Typed, UniqueIds, Item, AnswersMatch, StampsAreUnique
<1>6. /\ k.id = i.id /\ k.day = i.day /\ k.type = i.type /\ Pending(k)
  BY DEF Stamped, Pending
<1>7. /\ \A c \in Y : c = k \/ (c \in C /\ c # i /\ c \notin D)
      /\ k \in Y /\ \A c \in C : c # i /\ c \notin D => c \in Y
      /\ \A b \in E : b \in B /\ b # a
      /\ \A b \in B : b # a => b \in E
  BY DEF Undone
<1> SUFFICES ASSUME NEW e \in Y, e.type = "new" /\ e.day = day /\ ~Pending(e)
             PROVE  /\ a.prev.status \in {"learning", "known"}
                    /\ \A j \in Y : j # e =>
                         /\ j.type = "short_term" /\ j.day = day
                         /\ FollowsUp(Y, E, j)
                         /\ IF Pending(j) THEN SmallStep(a.prev) ELSE e.done < j.done
                    /\ \A b \in E, c \in Y : b.item = c.id =>
                         /\ c # e => SmallStep(b.prev)
                         /\ \A j, l \in Y : j.id \in b.created /\ l.id \in b.created => j = l
                    /\ a.prev.due # Null /\ Day(a.prev.due) <= day => \E j \in Y : j.type = "short_term"
  BY DEF ChainedFollowUps
<1> HIDE DEF Y, E
<1>8. e \in C /\ e # i /\ e # k
  BY <1>6, <1>7
<1>9. /\ \A j \in C : j # e =>
           /\ j.type = "short_term" /\ j.day = day
           /\ FollowsUp(C, B, j)
           /\ ~Pending(j) => e.done < j.done
      /\ \A b \in B, c \in C : b.item = c.id =>
           /\ c # e => SmallStep(b.prev)
           /\ \A j, l \in C : j.id \in b.created /\ l.id \in b.created => j = l
  BY <1>4, <1>8 DEF ChainedFollowUps
<1>10. SmallStep(a.prev)
  BY <1>1, <1>2, <1>3, <1>8, <1>9
<1>11. \A j \in C : Pending(j) => j \in D
  <2>1. e \in CardsOf(X, i.word)
    BY <1>8
  <2> QED BY <2>1, PendingIsUndone
<1>12. i.type = "short_term" /\ \A c \in C : c.day = day /\ c.done <= i.done
  BY <1>1, <1>2, <1>8, <1>9
<1>13. FollowsUp(Y, E, k)
  <2>1. PICK l \in C, b \in B :
          /\ b.item = l.id /\ i.id \in b.created
          /\ ~Pending(l) /\ l.done < i.done
          /\ \A c \in C : ~Pending(c) /\ c # i => c.done <= l.done \/ i.done < c.done
    BY <1>1, <1>2, <1>8, <1>9 DEF FollowsUp
  <2>2. l # i /\ b # a /\ l \notin D
    BY <1>1, <1>2, <1>5, <2>1
  <2>3. l \in Y /\ b \in E
    BY <1>7, <2>2
  <2>4. \A c \in Y : ~Pending(c) /\ c # k => c.done <= l.done
    <3> SUFFICES ASSUME NEW c \in Y, ~Pending(c), c # k PROVE c.done <= l.done
      OBVIOUS
    <3>1. c \in C /\ c # i
      BY <1>7
    <3>2. c.done <= i.done /\ c.done \in Nat /\ i.done \in Nat
      BY <1>2, <1>5, <1>12, <3>1
    <3> QED BY <2>1, <3>1, <3>2
  <2> QED BY <1>6, <2>1, <2>3, <2>4 DEF FollowsUp
<1>14. ASSUME NEW j \in Y, j # e, j # k
       PROVE  j.type = "short_term" /\ j.day = day /\ FollowsUp(Y, E, j) /\ ~Pending(j) /\ e.done < j.done
  <2>1. j \in C /\ j # i /\ j \notin D
    BY <1>7, <1>14
  <2>2. ~Pending(j)
    BY <1>11, <2>1
  <2>3. PICK l \in C, b \in B :
          /\ b.item = l.id /\ j.id \in b.created
          /\ ~Pending(l) /\ l.done < j.done
          /\ \A c \in C : ~Pending(c) /\ c # j => c.done <= l.done \/ j.done < c.done
    BY <1>9, <1>14, <2>1, <2>2 DEF FollowsUp
  <2>4. l # i
    <3>1. j.done <= i.done /\ j.done \in Nat /\ l.done \in Nat
      BY <1>2, <1>5, <1>12, <2>1
    <3> QED BY <2>3, <3>1
  <2>5. b # a /\ l \notin D
    BY <1>1, <1>2, <1>5, <2>3, <2>4
  <2>6. l \in Y /\ b \in E
    BY <1>7, <2>4, <2>5
  <2>7. \A c \in Y : ~Pending(c) => c \in C
    BY <1>6, <1>7
  <2>8. FollowsUp(Y, E, j)
    BY <2>2, <2>3, <2>6, <2>7 DEF FollowsUp
  <2> QED BY <1>9, <1>14, <2>1, <2>2, <2>8
<1>15. \A j \in Y : j # e =>
         /\ j.type = "short_term" /\ j.day = day
         /\ FollowsUp(Y, E, j)
         /\ IF Pending(j) THEN SmallStep(a.prev) ELSE e.done < j.done
  BY <1>1, <1>6, <1>10, <1>12, <1>13, <1>14
<1>16. ASSUME NEW b \in E, NEW c \in Y, b.item = c.id
       PROVE  /\ c # e => SmallStep(b.prev)
              /\ \A j, l \in Y : j.id \in b.created /\ l.id \in b.created => j = l
  <2>1. b \in B /\ b # a
    BY <1>7
  <2>2. c \in C
    BY <1>1, <1>2, <1>3, <1>5, <1>6, <1>7, <1>16, <2>1
  <2>3. \A j \in Y : \E g \in C : g.id = j.id /\ (IF j = k THEN g = i ELSE g = j /\ g # i)
    BY <1>2, <1>6, <1>7
  <2>4. \A j, l \in Y : j.id \in b.created /\ l.id \in b.created => j = l
    BY <1>9, <1>16, <2>1, <2>2, <2>3
  <2> QED BY <1>9, <1>16, <2>1, <2>2, <2>4
<1>17. a.prev.status \in {"learning", "known"}
  BY <1>10 DEF SmallStep
<1>18. k \in Y /\ k.type = "short_term"
  BY <1>6, <1>7, <1>12
<1> QED BY <1>15, <1>16, <1>17, <1>18
LEMMA UndoneCore ==
  ASSUME NEW day, NEW X, NEW S, NEW A, Core(X, S, A, day), RoomForTheBuffer(X, S, day),
         NEW i, NEW a, NEW D, Undoes(X, A, day, i, a, D),
         NEW k, Stamped(i, 0, k)
  PROVE  /\ Core(Undone(X, i, k, D), Rewritten(S, i.word, a.prev), A \ {a}, day)
         /\ RoomForTheBuffer(Undone(X, i, k, D), Rewritten(S, i.word, a.prev), day)
         /\ i.type = "new" =>
              Cardinality(LearntCards(Undone(X, i, k, D), Rewritten(S, i.word, a.prev), day)) < NewLimit
<1> DEFINE w == i.word
           E == A \ {a}
           Y == Undone(X, i, k, D)
           T == Rewritten(S, w, a.prev)
<1>1. /\ a \in A /\ i \in X /\ a.item = i.id /\ ~Pending(i) /\ i.day = day
      /\ \A j \in X : j.day = day => j.done <= i.done
      /\ D \in SUBSET X
      /\ \A j \in D : Pending(j) /\ j.type # "new"
  BY DEF Undoes
<1>2. /\ X \in SUBSET Item /\ IsFiniteSet(X) /\ S \in [Words -> StateRow] /\ A \in SUBSET Answer
      /\ \A b \in X, c \in X : b.id = c.id => b = c
      /\ \A b, c \in A : b.item = c.item => b = c
      /\ \A c, l \in X : ~Pending(c) /\ c.day = l.day /\ c.done = l.done => c = l
      /\ \A b, c \in X : b.type = "new" /\ c.type = "new" /\ b.word = c.word => b = c
  BY DEF Core, Typed, UniqueIds, AnswersMatch, StampsAreUnique, OneNewCard
<1>3. w \in Words /\ a.prev \in StateRow /\ \A j \in X : j.word \in Words /\ j.done \in Nat
  BY <1>1, <1>2 DEF Item, Answer
<1>4. T \in [Words -> StateRow] /\ T[w] = a.prev /\ \A x \in Words : x # w => T[x] = S[x]
  BY <1>2, <1>3 DEF Rewritten
<1>5. /\ k \in Item /\ k.id = i.id /\ k.day = i.day /\ k.type = i.type /\ k.word = w /\ k.bonus = i.bonus
      /\ Pending(k)
  BY DEF Stamped, Pending
<1>6. /\ \A c \in Y : c = k \/ (c \in X /\ c # i /\ c \notin D)
      /\ k \in Y /\ \A c \in X : c # i /\ c \notin D => c \in Y
  BY DEF Undone
<1>7. \A j \in X : j.type = "new" /\ j # i => j \in Y /\ (i.type = "new" => j.word # w)
  BY <1>1, <1>2, <1>6
<1>8. IF i.type = "new" THEN a.prev = NoRow ELSE Learnt(a.prev) /\ Learnt(S[w]) /\ ~i.bonus
  BY <1>1 DEF Core, AnswersMatch, ReviewsAreLearnt
<1>9. IsFiniteSet(Y)
  <2>1. IsFiniteSet((X \ D) \ {i})
    BY <1>2, FS_Subset
  <2> QED BY <2>1, FS_AddElement DEF Undone
<1>10. /\ \A b \in E : b \in A /\ b # a /\ b.item # i.id
       /\ \A b \in A : b # a => b \in E
  BY <1>1, <1>2
<1> HIDE DEF Y, T, E
<1>11. Typed(Y, T, E)
  <2>1. Y \in SUBSET Item /\ E \in SUBSET Answer
    BY <1>2, <1>5, <1>6, <1>10
  <2>2. UniqueIds(Y)
    BY <1>1, <1>2, <1>5, <1>6 DEF UniqueIds
  <2> QED BY <1>4, <1>9, <2>1, <2>2 DEF Typed
<1>12. OneNewCard(Y)
  BY <1>1, <1>2, <1>5, <1>6 DEF OneNewCard
<1>13. NewUntilAnswered(Y, T)
  <2> SUFFICES ASSUME NEW j \in Y, j.type = "new" PROVE Pending(j) <=> T[j.word].status = "none"
    BY DEF NewUntilAnswered
  <2>1. CASE j = k
    BY <1>4, <1>5, <1>8, <2>1 DEF NoRow
  <2>2. CASE j # k
    <3>1. j \in X /\ j # i
      BY <1>6, <2>2
    <3>2. Pending(j) <=> S[j.word].status = "none"
      BY <3>1 DEF Core, NewUntilAnswered
    <3>3. CASE j.word = w
      BY <1>4, <1>7, <1>8, <3>1, <3>2, <3>3 DEF Learnt
    <3>4. CASE j.word # w
      BY <1>3, <1>4, <3>1, <3>2, <3>4
    <3> QED BY <3>3, <3>4
  <2> QED BY <2>1, <2>2
<1>14. ReviewsAreLearnt(Y, T)
  <2> SUFFICES ASSUME NEW j \in Y, j.type # "new" PROVE Learnt(T[j.word]) /\ ~j.bonus
    BY DEF ReviewsAreLearnt
  <2>1. CASE j = k
    BY <1>4, <1>5, <1>8, <2>1
  <2>2. CASE j # k
    <3>1. j \in X /\ j # i /\ j \notin D
      BY <1>6, <2>2
    <3>2. Learnt(S[j.word]) /\ ~j.bonus
      BY <3>1 DEF Core, ReviewsAreLearnt
    <3>3. CASE j.word = w
      <4>1. i.type # "new"
        BY <3>1, <3>3, NewCardIsAlone
      <4> QED BY <1>4, <1>8, <3>2, <3>3, <4>1
    <3>4. CASE j.word # w
      BY <1>3, <1>4, <3>1, <3>2, <3>4
    <3> QED BY <3>3, <3>4
  <2> QED BY <2>1, <2>2
<1>15. StampsAreUnique(Y)
  <2> SUFFICES ASSUME NEW j \in Y, NEW l \in Y, ~Pending(j), j.day = l.day, j.done = l.done PROVE j = l
    BY DEF StampsAreUnique
  <2>1. ~Pending(l)
    BY DEF Pending
  <2>2. j \in X /\ l \in X
    BY <1>5, <1>6, <2>1
  <2> QED BY <1>2, <2>2
<1>16. AnswersMatch(Y, E)
  <2>1. \A b, c \in E : b.item = c.item => b = c
    BY <1>2, <1>10
  <2>2. ASSUME NEW b \in E PROVE \E j \in Y : j.id = b.item
    <3>1. PICK j \in X : j.id = b.item /\ ~Pending(j)
      BY <1>10 DEF Core, AnswersMatch
    <3>2. j # i /\ j \notin D
      BY <1>1, <1>10, <3>1
    <3> QED BY <1>6, <3>1, <3>2
  <2>3. ASSUME NEW b \in E, NEW j \in Y, j.id = b.item
        PROVE  /\ ~Pending(j)
               /\ IF j.type = "new" THEN b.prev = NoRow ELSE Learnt(b.prev)
               /\ \A c \in Y : c.id \in b.created => c.type = "new" \/ c.word = j.word
    <3>1. b \in A /\ j \in X
      BY <1>5, <1>6, <1>10, <2>3
    <3>2. /\ ~Pending(j)
          /\ IF j.type = "new" THEN b.prev = NoRow ELSE Learnt(b.prev)
          /\ \A c \in X : c.id \in b.created => c.type = "new" \/ c.word = j.word
      BY <2>3, <3>1 DEF Core, AnswersMatch
    <3>3. \A c \in Y : \E g \in X : g.id = c.id /\ g.type = c.type /\ g.word = c.word
      BY <1>1, <1>5, <1>6
    <3> QED BY <3>2, <3>3
  <2> QED BY <2>1, <2>2, <2>3 DEF AnswersMatch
<1>17. LearntCards(Y, T, day) = LearntCards(X, S, day) \ {i}
  <2>1. ASSUME NEW j PROVE j \in LearntCards(Y, T, day) <=> j \in LearntCards(X, S, day) \ {i}
    <3>1. ASSUME j \in Y, ~Pending(j), j.type = "new" PROVE j \in X /\ j # i
      BY <1>5, <1>6, <3>1
    <3>2. ASSUME j \in X, j.type = "new", j # i
          PROVE  j \in Y /\ (Learnt(T[j.word]) <=> Learnt(S[j.word]))
      BY <1>3, <1>4, <1>7, <1>8, <3>2
    <3> QED BY <3>1, <3>2 DEF LearntCards, ItemsOf
  <2> QED BY <2>1
<1>18. i.type # "new" => LearntCards(Y, T, day) = LearntCards(X, S, day)
  BY <1>17 DEF LearntCards, ItemsOf
<1>19. AnsweredWithinLimit(Y, T, day)
  <2> SUFFICES ASSUME NEW j \in Y, j.type = "new", j.day = day, ~Pending(j)
               PROVE  Cardinality(LearntBefore(Y, T, j)) < NewLimit
    BY DEF AnsweredWithinLimit, ItemsOf
  <2>1. j \in X /\ j.done <= i.done /\ j.done \in Nat /\ i.done \in Nat
    BY <1>1, <1>3, <1>5, <1>6
  <2>2. LearntBefore(Y, T, j) = LearntBefore(X, S, j)
    BY <1>17, <2>1 DEF LearntBefore
  <2>3. Cardinality(LearntBefore(X, S, j)) < NewLimit
    BY <2>1 DEF Core, AnsweredWithinLimit, ItemsOf
  <2> QED BY <2>2, <2>3
<1>20. TrimmedAway(Y, T, E, day)
  <2> SUFFICES ASSUME NEW b \in E, NEW j \in Y, j.id = b.item, j.day = day
               PROVE  TrimmedAtLimit(Y, T, b, j) /\ TrimmedAreNew(Y, T, b)
    BY DEF TrimmedAway
  <2>1. b \in A /\ j \in X /\ j # i
    BY <1>5, <1>6, <1>10
  <2>2. TrimmedAtLimit(X, S, b, j) /\ TrimmedAreNew(X, S, b)
    BY <2>1 DEF Core, TrimmedAway
  <2>3. CASE b.deleted = {}
    BY <2>3 DEF TrimmedAtLimit, TrimmedAreNew
  <2>4. CASE b.deleted # {}
    <3>1. /\ j.type = "new" /\ Cardinality(LearntCards(X, S, day)) >= NewLimit
          /\ \A l \in X : l.day = day /\ l.type = "new" /\ ~Pending(l) => l.done <= j.done
      BY <2>2, <2>4 DEF TrimmedAtLimit, ItemsOf
    <3>2. i.type # "new"
      <4> SUFFICES ASSUME i.type = "new" PROVE FALSE
        OBVIOUS
      <4>1. i.done <= j.done /\ j.done <= i.done /\ i.done \in Nat /\ j.done \in Nat
        BY <1>1, <1>3, <2>1, <3>1
      <4> QED BY <1>1, <1>2, <2>1, <4>1
    <3>3. \A l \in Y : l.type = "new" => l \in X
      BY <1>5, <1>6, <3>2
    <3>4. TrimmedAtLimit(Y, T, b, j)
      BY <1>18, <3>1, <3>2, <3>3 DEF TrimmedAtLimit, ItemsOf
    <3>5. \A x \in b.deleted : x.word \in Words
      BY <1>2, <2>1 DEF Answer, Item
    <3>6. \A x \in b.deleted : S[x.word].status = "none" => T[x.word].status = "none"
      BY <1>4, <1>8, <3>2, <3>5 DEF Learnt
    <3>7. TrimmedAreNew(Y, T, b)
      BY <2>2, <3>3, <3>6 DEF TrimmedAreNew
    <3> QED BY <3>4, <3>7
  <2> QED BY <2>3, <2>4
<1>21. Chained(Y, T, E, day)
  <2> SUFFICES ASSUME NEW x \in Words
               PROVE  ChainedFollowUps(CardsOf(Y, x), T[x], AnswersFor(E, CardsOf(Y, x)), day)
    BY DEF Chained
  <2>1. CASE x # w
    <3>1. \A j \in D : j.word = w
      BY DEF Undoes
    <3>2. \A j : j \in CardsOf(Y, x) <=> j \in CardsOf(X, x)
      BY <1>5, <1>6, <2>1, <3>1 DEF CardsOf
    <3>3. CardsOf(Y, x) = CardsOf(X, x)
      BY <3>2
    <3>4. \A b : b \in AnswersFor(E, CardsOf(X, x)) <=> b \in AnswersFor(A, CardsOf(X, x))
      BY <1>1, <1>2, <1>10, <2>1 DEF AnswersFor, CardsOf
    <3>5. AnswersFor(E, CardsOf(X, x)) = AnswersFor(A, CardsOf(X, x))
      BY <3>4
    <3>6. ChainedFollowUps(CardsOf(X, x), S[x], AnswersFor(A, CardsOf(X, x)), day)
      BY DEF Core, Chained
    <3> QED BY <1>4, <2>1, <3>3, <3>5, <3>6
  <2>2. CASE x = w /\ i.type = "new"
    <3>1. \A j \in CardsOf(Y, x) : Pending(j)
      BY <1>5, <1>6, <2>2, NewCardIsAlone DEF CardsOf
    <3> QED BY <3>1 DEF ChainedFollowUps
  <2>3. CASE x = w /\ i.type # "new"
    <3> DEFINE C == CardsOf(X, w)
               B == AnswersFor(A, C)
    <3>1. ChainedFollowUps(Undone(C, i, k, D), a.prev, B \ {a}, day)
      BY <2>3, UndoneChained
    <3>2. \A j : j \in CardsOf(Y, w) <=> j \in Undone(C, i, k, D)
      BY <1>5, <1>6 DEF CardsOf, Undone
    <3>3. CardsOf(Y, w) = Undone(C, i, k, D)
      BY <3>2
    <3>4. \A b \in E : (\E c \in CardsOf(Y, w) : b.item = c.id) <=> \E c \in C : b.item = c.id
      <4> SUFFICES ASSUME NEW b \in E
                   PROVE  (\E c \in CardsOf(Y, w) : b.item = c.id) <=> \E c \in C : b.item = c.id
        OBVIOUS
      <4>1. ASSUME NEW c \in CardsOf(Y, w), b.item = c.id PROVE \E g \in C : b.item = g.id
        BY <1>1, <1>5, <1>6, <4>1 DEF CardsOf
      <4>2. ASSUME NEW c \in C, b.item = c.id PROVE \E g \in CardsOf(Y, w) : b.item = g.id
        <5>1. c \in X /\ c.word = w /\ ~Pending(c) /\ c # i
          BY <1>10, <4>2 DEF CardsOf, Core, AnswersMatch
        <5>2. c \in CardsOf(Y, w)
          BY <1>1, <1>6, <5>1 DEF CardsOf
        <5> QED BY <4>2, <5>2
      <4> QED BY <4>1, <4>2
    <3>5. \A b : b \in AnswersFor(E, CardsOf(Y, w)) <=> b \in B \ {a}
      BY <1>10, <3>4 DEF AnswersFor
    <3>6. AnswersFor(E, CardsOf(Y, w)) = B \ {a}
      BY <3>5
    <3> QED BY <1>4, <2>3, <3>1, <3>3, <3>6
  <2> QED BY <2>1, <2>2, <2>3
<1>22. Core(Y, T, E, day)
  BY <1>11, <1>12, <1>13, <1>14, <1>15, <1>16, <1>19, <1>20, <1>21 DEF Core
<1>23. i.type = "new" => Cardinality(LearntCards(Y, T, day)) < NewLimit
  <2> SUFFICES ASSUME i.type = "new" PROVE Cardinality(LearntCards(Y, T, day)) < NewLimit
    OBVIOUS
  <2>1. ASSUME NEW j \in LearntCards(X, S, day) PROVE j # i <=> j.done < i.done
    <3>1. j \in X /\ j.day = day /\ ~Pending(j) /\ j.done \in Nat /\ i.done \in Nat /\ j.done <= i.done
      BY <1>1, <1>3 DEF LearntCards, ItemsOf
    <3> QED BY <1>1, <1>2, <3>1
  <2>2. \A j : j \in LearntCards(Y, T, day) <=> j \in LearntBefore(X, S, i)
    BY <1>1, <1>17, <2>1 DEF LearntBefore
  <2>3. LearntCards(Y, T, day) = LearntBefore(X, S, i)
    BY <2>2 DEF LearntCards, LearntBefore
  <2>4. Cardinality(LearntBefore(X, S, i)) < NewLimit
    BY <1>1 DEF Core, AnsweredWithinLimit, ItemsOf
  <2> QED BY <2>3, <2>4
<1>24. RoomForTheBuffer(Y, T, day)
  <2> SUFFICES ASSUME i.type # "new", NEW j \in Y, j.type = "new", j.day = day, Pending(j)
               PROVE  Cardinality(LearntCards(Y, T, day)) < NewLimit
    BY <1>23 DEF RoomForTheBuffer, ItemsOf
  <2>1. j \in X
    BY <1>5, <1>6
  <2> QED BY <1>18, <2>1 DEF RoomForTheBuffer, ItemsOf
<1> QED BY <1>22, <1>23, <1>24 DEF Y, T, E

\* A trimmed card is dealt again in its old place, with a new identity.
BackAs(d, x, j) ==
  /\ j.day = x.day /\ j.word = x.word /\ j.type = x.type /\ j.done = x.done
  /\ j.id > LastId(d)

BringsBack(d, back, f) ==
  /\ Reinsert(d, back) = [d EXCEPT !.items = d.items \cup {f[x] : x \in back}]
  /\ \A x \in back : BackAs(d, x, f[x])
  /\ \A x, y \in back : f[x].id = f[y].id => x = y

LEMMA BroughtBack ==
  ASSUME NEW d, Sound(d), NEW back \in SUBSET Item, IsFiniteSet(back)
  PROVE  \E f \in [back -> Item] : BringsBack(d, back, f)
<1> DEFINE number == Numbering(back)
           lastId == LastId(d)
           renumbered(x) == [x EXCEPT !.id = lastId + number[x]]
           f == [x \in back |-> renumbered(x)]
<1>1. number \in [back -> Nat \ {0}] /\ \A x, y \in back : number[x] = number[y] => x = y
  BY NumberingNumbers
<1>2. lastId \in Nat
  BY LastIdIsUpper
<1>3. Reinsert(d, back) = [d EXCEPT !.items = d.items \cup {renumbered(x) : x \in back}]
  BY DEF Reinsert, Sound, DB
<1>4. {renumbered(x) : x \in back} = {f[x] : x \in back}
  OBVIOUS
<1> HIDE DEF number
<1>5. \A x \in back : /\ f[x] \in Item /\ f[x].id = lastId + number[x] /\ BackAs(d, x, f[x])
  <2> SUFFICES ASSUME NEW x \in back
               PROVE  f[x] \in Item /\ f[x].id = lastId + number[x] /\ BackAs(d, x, f[x])
    OBVIOUS
  <2>1. f[x] = renumbered(x) /\ x \in Item
    OBVIOUS
  <2>2. number[x] \in Nat \ {0} /\ lastId + number[x] \in Nat /\ lastId + number[x] > lastId
    BY <1>1, <1>2
  <2> HIDE DEF f
  <2> QED BY <2>1, <2>2 DEF Item, BackAs
<1>6. \A x, y \in back : f[x].id = f[y].id => x = y
  <2> SUFFICES ASSUME NEW x \in back, NEW y \in back, f[x].id = f[y].id PROVE x = y
    OBVIOUS
  <2>1. f[x].id = lastId + number[x] /\ f[y].id = lastId + number[y]
        /\ number[x] \in Nat /\ number[y] \in Nat
    BY <1>1, <1>5
  <2>2. lastId + number[x] = lastId + number[y]
    BY <2>1
  <2> HIDE DEF lastId, f
  <2>3. number[x] = number[y]
    BY <1>2, <2>1, <2>2
  <2> QED BY <1>1, <2>3
<1>7. f \in [back -> Item]
  BY <1>5
<1> HIDE DEF renumbered, f
<1>8. BringsBack(d, back, f)
  BY <1>3, <1>4, <1>5, <1>6 DEF BringsBack
<1> QED BY <1>7, <1>8

(***************************************************************************)
(* The cards the answer appended are not of today's chain alone: the new   *)
(* ones of other words go first, then those of its own word.               *)
(***************************************************************************)
LEMMA UndoneCards ==
  ASSUME NEW t \in Nat, NEW d, Sound(d),
         Core(d.items, d.states, d.answers, Day(t)), Room(d, Day(t)),
         NEW a \in d.answers, NEW i \in d.items, CanUndo(d, a, i, t),
         NEW dead, dead = {j \in d.items : j.id \in a.created},
         NEW k, Stamped(i, 0, k),
         NEW Y, Y = ((d.items \ dead) \ {i}) \cup {k}
  PROVE  /\ Core(Y, Rewritten(d.states, i.word, a.prev), d.answers \ {a}, Day(t))
         /\ RoomForTheBuffer(Y, Rewritten(d.states, i.word, a.prev), Day(t))
         /\ i.type = "new" =>
              Cardinality(LearntCards(Y, Rewritten(d.states, i.word, a.prev), Day(t))) < NewLimit
         /\ \A j \in dead : Pending(j)
<1> DEFINE X == d.items
           S == d.states
           A == d.answers
           day == Day(t)
           fresh == {j \in dead : j.type = "new"}
           own == dead \ fresh
           Z == X \ fresh
<1>1. /\ a.item = i.id /\ ~Pending(i) /\ i.day = day /\ i.done = LastStamp(d, day)
      /\ \A c \in a.created : \E j \in X : j.id = c /\ Pending(j)
  BY DEF CanUndo
<1>2. /\ \A b, c \in X : b.id = c.id => b = c
      /\ dead \in SUBSET X /\ \A j \in X : j \in dead <=> j.id \in a.created
  BY DEF Sound, UniqueIds
<1>3. \A j \in dead : Pending(j)
  BY <1>1, <1>2
<1>4. \A j \in X : j.day = day => j.done <= i.done
  BY <1>1, LastStampIsUpper
<1>5. \A j \in dead : j.type = "new" \/ j.word = i.word
  BY <1>1, <1>2 DEF Core, AnswersMatch
<1>6. /\ fresh \in SUBSET X /\ \A j \in fresh : Pending(j) /\ j.type = "new"
      /\ own \in SUBSET Z /\ \A j \in own : Pending(j) /\ j.type # "new" /\ j.word = i.word
      /\ \A j \in Z : j \in own <=> j.id \in a.created
      /\ i \in Z /\ Z \subseteq X
  BY <1>1, <1>2, <1>3, <1>5
<1>7. ((X \ dead) \ {i}) \cup {k} = ((Z \ own) \ {i}) \cup {k}
  BY <1>2
<1> HIDE DEF X, S, A, day, fresh, own, Z
<1>8. Core(X, S, A, day) /\ RoomForTheBuffer(X, S, day) /\ a \in A
  BY DEF X, S, A, day, Room
<1>9. Core(Z, S, A, day) /\ LearntCards(Z, S, day) = LearntCards(X, S, day)
  <2>1. \A j \in fresh : Pending(j) /\ (j.type = "new" \/ j.day # day)
    BY <1>6
  <2> QED BY <1>6, <1>8, <2>1, RemovedCore DEF Z
<1>10. RoomForTheBuffer(Z, S, day)
  BY <1>6, <1>8, <1>9 DEF RoomForTheBuffer, ItemsOf
<1>11. Undoes(Z, A, day, i, a, own)
  BY <1>1, <1>4, <1>6, <1>8 DEF Undoes
<1>12. Y = Undone(Z, i, k, own)
  BY <1>7 DEF Undone, X
<1>13. /\ Core(Undone(Z, i, k, own), Rewritten(S, i.word, a.prev), A \ {a}, day)
       /\ RoomForTheBuffer(Undone(Z, i, k, own), Rewritten(S, i.word, a.prev), day)
       /\ i.type = "new" =>
            Cardinality(LearntCards(Undone(Z, i, k, own), Rewritten(S, i.word, a.prev), day)) < NewLimit
  BY <1>9, <1>10, <1>11, UndoneCore
<1> QED BY <1>3, <1>12, <1>13 DEF S, A, day

(***************************************************************************)
(* An undo on a planned day never finds a trimmed card's place taken.      *)
(***************************************************************************)
LeftBy(d, a, i, k) == ((d.items \ {j \in d.items : j.id \in a.created}) \ {i}) \cup {k}

Restored(d, a, x, j) ==
  /\ j.day = x.day /\ j.word = x.word /\ j.type = x.type /\ j.done = x.done
  /\ j.id \in Nat /\ \A c \in d.items : c.id \notin a.created => j.id # c.id
  /\ \A b \in d.answers : j.id \notin b.created

UndoneAs(d, a, i, e, f, k) ==
  /\ Stamped(i, 0, k)
  /\ e.items = LeftBy(d, a, i, k) \cup {f[x] : x \in a.deleted}
  /\ e.states = Rewritten(d.states, i.word, a.prev) /\ e.answers = d.answers \ {a}
  /\ \A y \in Days : e.pools[y].open = d.pools[y].open
  /\ \A x \in a.deleted : Restored(d, a, x, f[x]) /\ x.type = "new" /\ x.day = i.day
  /\ \A x, y \in a.deleted : f[x].id = f[y].id => x = y

LEMMA UndoWritten ==
  ASSUME NEW t \in Nat, Day(t) \in Days, NEW d, Coherent(d, Day(t)),
         Core(d.items, d.states, d.answers, Day(t)), Room(d, Day(t)),
         NEW a \in d.answers, NEW i \in d.items, CanUndo(d, a, i, t)
  PROVE  \E f \in [a.deleted -> Item] : UndoneAs(d, a, i, UndoWrites(d, a, i), f, [i EXCEPT !.done = 0])
<1> DEFINE day == Day(t)
           X == d.items
           w == i.word
           T == Rewritten(d.states, w, a.prev)
           E == d.answers \ {a}
           k == [i EXCEPT !.done = 0]
           restored == UpsertState(d, w, a.prev)
           dead == {j \in X : j.id \in a.created}
           cleared == DeletePoolItems(restored, dead)
           clash == Collisions(cleared, a.deleted)
           back == {x \in a.deleted : \A c \in clash : x.ord < c.ord}
           again == Reinsert(cleared, back)
           counted == IncrementCounts(again, i.day, CardCounts(back))
           e == ReopenPoolItem(counted, i)
<1>1. /\ Sound(d) /\ i \in Item /\ w \in Words /\ a.prev \in StateRow /\ a.deleted \in SUBSET Item
      /\ d.states \in [Words -> StateRow] /\ IsFiniteSet(X) /\ day \in Days
  BY DEF Coherent, Sound, DB, Item, Answer
<1>2. Schedulable(a.prev) /\ IsFiniteSet(a.deleted) /\ UniquePositions(a.deleted)
  BY <1>1 DEF Sound, SoundAnswer
<1>3. /\ a.item = i.id /\ ~Pending(i) /\ i.day = day
  BY DEF CanUndo
<1>4. Stamped(i, 0, k)
  BY <1>1 DEF Stamped, Item
<1> HIDE DEF k
<1>5. /\ \A j \in dead : Pending(j)
  BY <1>1, <1>4, UndoneCards
<1>6. \A x \in a.deleted : x.type = "new" /\ x.day = day
  <2>1. PICK j \in X : Remembers(a, j, day)
    BY DEF Coherent, SnapshotsRemember
  <2>2. j = i
    BY <1>1, <1>3, <2>1 DEF Remembers, Sound, UniqueIds
  <2>3. \A x \in a.deleted : x.type = "new" /\ day <= x.day /\ x.day <= day
    BY <1>3, <2>1, <2>2 DEF Remembers
  <2>4. day \in Nat /\ \A x \in a.deleted : x.day \in Nat
    BY <1>1 DEF Item, Days
  <2> HIDE DEF day
  <2> QED BY <2>3, <2>4
<1>7. /\ Sound(restored) /\ restored.items = X /\ restored.states = T /\ restored.answers = d.answers
      /\ restored.pools = d.pools
  BY <1>1, <1>2, UpsertStateSound DEF UpsertState, Sound, DB, Rewritten
<1>8. \A b \in d.answers, j \in dead : j.id # b.item
  BY <1>5 DEF Core, AnswersMatch
<1>9. IsFiniteSet(dead) /\ dead \subseteq X /\ i \in X \ dead
  BY <1>1, <1>3, <1>5, FS_Subset
<1> HIDE DEF restored, dead, X, day
<1>10. /\ Sound(cleared) /\ cleared.items = X \ dead /\ cleared.states = T /\ cleared.answers = d.answers
       /\ \A y \in Days : cleared.pools[y].open = d.pools[y].open
  <2>1. /\ Sound(cleared) /\ cleared.items = restored.items \ dead /\ cleared.states = restored.states
        /\ cleared.answers = {b \in restored.answers : \A j \in dead : j.id # b.item}
    BY <1>7, <1>9, DeletedRows
  <2>2. {b \in d.answers : \A j \in dead : j.id # b.item} = d.answers
    BY <1>8
  <2>3. \A y \in Days : cleared.pools[y].open = restored.pools[y].open
    <3> DEFINE counts(y) == [type \in ItemTypes |->
                 Less(restored.pools[y].counts[type], Cardinality(ItemsOf(dead, y, type)))]
               pools == [y \in Days |-> [restored.pools[y] EXCEPT !.counts = counts(y)]]
    <3>1. cleared = [RemoveItems(restored, dead) EXCEPT !.pools = pools]
      BY DEF DeletePoolItems
    <3>2. RemoveItems(restored, dead) \in [states: [Words -> StateRow], pools: [Days -> Pool],
                                           items: SUBSET Item, answers: SUBSET Answer]
      BY <1>7 DEF RemoveItems, Sound, DB
    <3>3. \A y \in Days : pools[y].open = restored.pools[y].open
      BY <1>7 DEF Sound, DB, Pool
    <3> HIDE DEF pools, cleared
    <3>4. cleared.pools = pools
      BY <3>1, <3>2
    <3> QED BY <3>3, <3>4
  <2> HIDE DEF cleared
  <2> QED BY <1>7, <2>1, <2>2, <2>3
<1> HIDE DEF cleared
<1>11. TrimmedAtLimit(X, d.states, a, i) /\ TrimmedAreNew(X, d.states, a)
  BY <1>3 DEF Core, TrimmedAway, X, day
<1>12. clash = {}
  <2> SUFFICES ASSUME NEW x \in a.deleted, NEW j \in cleared.items, SamePosition(x, j) PROVE FALSE
    BY DEF Collisions
  <2>1. j \in X /\ j.type = "new" /\ j.word = x.word
    BY <1>6, <1>10 DEF SamePosition
  <2> QED BY <1>11, <2>1 DEF TrimmedAreNew
<1>13. back = a.deleted /\ UndoWrites(d, a, i) = e
  <2>1. back = a.deleted
    BY <1>12
  <2>2. UndoWrites(d, a, i) = IF clash = {} THEN e ELSE again
    BY DEF UndoWrites, cleared, dead, restored, X
  <2> QED BY <1>12, <2>1, <2>2
<1>14. Sound(again) /\ \A x \in a.deleted, j \in cleared.items : ~SamePosition(x, j)
  <2>1. \A x \in a.deleted, j \in cleared.items : ~SamePosition(x, j)
    BY <1>12 DEF Collisions
  <2> QED BY <1>1, <1>2, <1>10, <1>13, <2>1, ReinsertSound
<1> HIDE DEF clash, back
<1>15. PICK f \in [a.deleted -> Item] :
         /\ again = [cleared EXCEPT !.items = cleared.items \cup {f[x] : x \in a.deleted}]
         /\ \A x \in a.deleted : BackAs(cleared, x, f[x])
         /\ \A x, y \in a.deleted : f[x].id = f[y].id => x = y
  <2>1. again = Reinsert(cleared, a.deleted)
    BY <1>13
  <2> HIDE DEF again
  <2>2. \E f \in [a.deleted -> Item] : BringsBack(cleared, a.deleted, f)
    BY <1>1, <1>2, <1>10, BroughtBack
  <2> QED BY <2>1, <2>2 DEF BringsBack
<1> DEFINE R == {f[x] : x \in a.deleted}
<1>16. \A j \in R : \E x \in a.deleted : j = f[x]
  OBVIOUS
<1> HIDE DEF R
<1>18. /\ again.items = cleared.items \cup R /\ again.states = cleared.states
       /\ again.answers = cleared.answers /\ again.pools = cleared.pools
  BY <1>10, <1>15 DEF Sound, DB, R
<1> HIDE DEF again
<1>19. CardCounts(back) \in Counts
  BY <1>2, <1>13, CardCountsType
<1>20. /\ Sound(counted) /\ counted.items = (X \ dead) \cup R /\ counted.states = T
       /\ counted.answers = d.answers
       /\ \A y \in Days : counted.pools[y].open = d.pools[y].open
  <2>1. i.day \in Days
    BY <1>1, <1>3
  <2>2. counted = IncrementCounts(again, i.day, CardCounts(back))
    OBVIOUS
  <2> HIDE DEF counted
  <2>3. /\ Sound(counted) /\ counted.items = again.items /\ counted.states = again.states
        /\ counted.answers = again.answers
    BY <1>14, <1>19, <2>1, <2>2, CountedRows
  <2>4. \A y \in Days : counted.pools[y].open = again.pools[y].open
    BY <1>14, <1>19, <2>1, <2>2, IncrementedCounts
  <2> QED BY <1>10, <1>18, <2>3, <2>4
<1> HIDE DEF counted
<1>21. /\ LastId(cleared) \in Nat
       /\ \A j \in X \ dead : j.id <= LastId(cleared)
       /\ \A b \in d.answers : \A n \in b.created : n <= LastId(cleared)
  BY <1>10, LastIdIsUpper
<1>22. \A x \in a.deleted : /\ f[x].id \in Nat /\ f[x] # i
                            /\ \A c \in X \ dead : f[x].id # c.id
                            /\ \A b \in d.answers : f[x].id \notin b.created
  <2> SUFFICES ASSUME NEW x \in a.deleted
               PROVE  /\ f[x].id \in Nat /\ f[x] # i
                      /\ \A c \in X \ dead : f[x].id # c.id
                      /\ \A b \in d.answers : f[x].id \notin b.created
    OBVIOUS
  <2>1. f[x].id \in Nat /\ f[x].id > LastId(cleared)
    BY <1>15 DEF BackAs, Item
  <2>2. \A n : n <= LastId(cleared) => f[x].id # n
    BY <1>21, <2>1
  <2> QED BY <1>9, <1>21, <2>1, <2>2
<1>23. /\ e.items = (((X \ dead) \ {i}) \cup {k}) \cup R /\ e.states = T /\ e.answers = E
       /\ e.pools = counted.pools
  <2>1. i \in counted.items
    BY <1>9, <1>20
  <2>2. /\ e.items = (counted.items \ {i}) \cup {k} /\ e.states = counted.states
        /\ e.answers = {b \in counted.answers : b.item # i.id}
    BY <1>20, <2>1, ReopenedRows DEF k
  <2>3. i \notin R
    BY <1>16, <1>22
  <2>4. {b \in d.answers : b.item # i.id} = E
    BY <1>3 DEF Core, AnswersMatch
  <2>5. e.pools = counted.pools
    BY <1>20 DEF ReopenPoolItem, RemoveItems, Sound, DB
  <2> HIDE DEF e
  <2> QED BY <1>20, <2>2, <2>3, <2>4, <2>5
<1> HIDE DEF e
<1>24. e.items = LeftBy(d, a, i, k) \cup {f[x] : x \in a.deleted}
  BY <1>23 DEF LeftBy, R, dead, X
<1>25. \A x \in a.deleted : Restored(d, a, x, f[x]) /\ x.type = "new" /\ x.day = i.day
  BY <1>3, <1>6, <1>15, <1>22 DEF Restored, BackAs, dead, X
<1>26. UndoneAs(d, a, i, e, f, k)
  BY <1>4, <1>15, <1>20, <1>23, <1>24, <1>25 DEF UndoneAs
<1> QED BY <1>13, <1>26 DEF k

LEMMA UndoPlanned ==
  ASSUME NEW t \in Nat, Day(t) \in Days, NEW d, Coherent(d, Day(t)),
         Core(d.items, d.states, d.answers, Day(t)), Room(d, Day(t)),
         NEW a \in d.answers, NEW i \in d.items, CanUndo(d, a, i, t)
  PROVE  Planned(UndoWrites(d, a, i), Day(t))
<1> DEFINE day == Day(t)
           X == d.items
           w == i.word
           T == Rewritten(d.states, w, a.prev)
           E == d.answers \ {a}
           k == [i EXCEPT !.done = 0]
           dead == {j \in X : j.id \in a.created}
           Y == ((X \ dead) \ {i}) \cup {k}
           e == UndoWrites(d, a, i)
<1>1. /\ Sound(d) /\ i \in Item /\ w \in Words /\ a.deleted \in SUBSET Item
      /\ d.states \in [Words -> StateRow] /\ IsFiniteSet(X) /\ IsFiniteSet(a.deleted)
  BY DEF Coherent, Sound, SoundAnswer, DB, Item, Answer
<1>2. /\ a.item = i.id /\ ~Pending(i) /\ i.day = day
  BY DEF CanUndo
<1>3. PICK f \in [a.deleted -> Item] : UndoneAs(d, a, i, e, f, k)
  BY UndoWritten
<1> DEFINE R == {f[x] : x \in a.deleted}
<1>4. /\ Stamped(i, 0, k)
      /\ e.items = Y \cup R /\ e.states = T /\ e.answers = E
      /\ \A x \in a.deleted : Restored(d, a, x, f[x]) /\ x.type = "new" /\ x.day = day
      /\ \A x, y \in a.deleted : f[x].id = f[y].id => x = y
  BY <1>2, <1>3 DEF UndoneAs, LeftBy
<1> HIDE DEF k
<1>5. /\ Core(Y, T, E, day) /\ RoomForTheBuffer(Y, T, day)
      /\ i.type = "new" => Cardinality(LearntCards(Y, T, day)) < NewLimit
      /\ \A j \in dead : Pending(j)
  <2>1. dead = {j \in d.items : j.id \in a.created} /\ Y = ((d.items \ dead) \ {i}) \cup {k}
    OBVIOUS
  <2>2. Sound(d) /\ Stamped(i, 0, k)
    BY <1>1, <1>4
  <2> HIDE DEF dead, Y
  <2>3. /\ Core(Y, Rewritten(d.states, i.word, a.prev), d.answers \ {a}, Day(t))
        /\ RoomForTheBuffer(Y, Rewritten(d.states, i.word, a.prev), Day(t))
        /\ i.type = "new" =>
             Cardinality(LearntCards(Y, Rewritten(d.states, i.word, a.prev), Day(t))) < NewLimit
        /\ \A j \in dead : Pending(j)
    BY <2>1, <2>2, UndoneCards
  <2> QED BY <2>3
<1>6. i \in X /\ i \notin dead
  BY <1>2, <1>5
<1> HIDE DEF X, dead, day
<1>7. TrimmedAtLimit(X, d.states, a, i) /\ TrimmedAreNew(X, d.states, a)
  BY <1>2 DEF Core, TrimmedAway, X, day
<1>8. a.deleted # {} => i.type = "new"
  BY <1>7 DEF TrimmedAtLimit
<1>9. \A j \in R : \E x \in a.deleted : j = f[x]
  OBVIOUS
<1>10. R \in SUBSET Item /\ IsFiniteSet(R)
  <2>1. R \in SUBSET Item
    OBVIOUS
  <2>2. IsFiniteSet(R)
    BY <1>1, ImageIsFinite
  <2> QED BY <2>1, <2>2
<1>11. k.id = i.id /\ k.word = i.word
  BY <1>4 DEF Stamped
<1> HIDE DEF R, e, T, E
<1>12. \A x \in a.deleted : /\ \A c \in X \ dead : f[x].id # c.id
                            /\ \A b \in d.answers : f[x].id \notin b.created
  BY <1>4 DEF Restored, X, dead
<1>13. \A j \in R : Addable(Y, T, E, day, j)
  <2> SUFFICES ASSUME NEW j \in R PROVE Addable(Y, T, E, day, j)
    OBVIOUS
  <2>1. PICK x \in a.deleted : j = f[x]
    BY <1>9
  <2>2. /\ j.day = day /\ j.word = x.word /\ j.type = "new" /\ j.done = x.done
    BY <1>4, <2>1 DEF Restored
  <2>3. /\ Pending(x) /\ d.states[x.word].status = "none" /\ x.word \in Words
        /\ \A c \in X : c.type = "new" => c.word # x.word
    BY <1>1, <1>7 DEF TrimmedAreNew, Item
  <2>4. i.type = "new" /\ x.word # w
    BY <1>6, <1>8, <2>3
  <2>5. Pending(j) /\ T[j.word].status = "none"
    BY <1>1, <2>2, <2>3, <2>4 DEF Pending, T, Rewritten
  <2>6. \A c \in Y : c.id # j.id /\ (c.type = "new" => c.word # j.word)
    <3>1. \A c \in X \ dead : c.id # j.id
      BY <1>12, <2>1
    <3>2. k.id # j.id
      BY <1>6, <1>11, <3>1
    <3> QED BY <1>11, <2>2, <2>3, <2>4, <3>1, <3>2
  <2>7. \A b \in E : j.id \notin b.created
    BY <1>12, <2>1 DEF E
  <2> HIDE DEF Y
  <2> QED BY <1>5, <2>2, <2>4, <2>5, <2>6, <2>7 DEF Addable
<1>14. UniqueIds(R) /\ OneNewCard(R)
  <2>1. ASSUME NEW j \in R, NEW l \in R, j.id = l.id PROVE j = l
    BY <1>4, <1>9, <2>1
  <2>2. ASSUME NEW j \in R, NEW l \in R, j.word = l.word PROVE j = l
    <3>1. PICK x \in a.deleted, y \in a.deleted : j = f[x] /\ l = f[y]
      BY <1>9
    <3>2. x.word = y.word
      BY <1>4, <2>2, <3>1 DEF Restored
    <3>3. x = y
      BY <1>7, <3>2 DEF TrimmedAreNew
    <3> QED BY <3>1, <3>3
  <2> QED BY <2>1, <2>2 DEF UniqueIds, OneNewCard
<1> HIDE DEF Y
<1>15. Core(Y \cup R, T, E, day) /\ LearntCards(Y \cup R, T, day) = LearntCards(Y, T, day)
  BY <1>5, <1>10, <1>13, <1>14, AddedCore
<1>16. RoomForTheBuffer(Y \cup R, T, day)
  <2>1. R # {} => Cardinality(LearntCards(Y, T, day)) < NewLimit
    BY <1>5, <1>8, <1>9
  <2> QED BY <1>5, <1>15, <2>1 DEF RoomForTheBuffer, ItemsOf
<1>17. Planned(e, day)
  BY <1>4, <1>15, <1>16 DEF Planned
<1> QED BY <1>17 DEF e, day

LEMMA UndoLastAnswerPlanned ==
  ASSUME PlannedInv, NEW a \in db.answers, NEW i \in db.items, UndoLastAnswer(a, i)
  PROVE  PlannedInv'
<1>1. CanUndo(db, a, i, now) /\ Commit(UndoWrites(db, a, i))
  BY DEF UndoLastAnswer
<1>2. Planned(UndoWrites(db, a, i), Day(now))
  BY <1>1, PlannedFacts, UndoPlanned
<1>3. CountersInv'
  BY PlannedFacts, CountersNext DEF Next, AnswerNext
<1> QED BY <1>1, <1>2, <1>3, CommitPlanned

LEMMA PlannedStep ==
  ASSUME PlannedAssumption
  PROVE  PlannedInv /\ [PlannedNext]_vars => PlannedInv'
<1> SUFFICES ASSUME PlannedInv, [PlannedNext]_vars PROVE PlannedInv'
  OBVIOUS
<1>1. CASE Tick
  BY <1>1, TickPlanned
<1>2. CASE OpenDailyPool
  BY <1>2, OpenDailyPoolPlanned
<1>3. CASE NextCardReplenishes
  BY <1>3, NextCardReplenishesPlanned
<1>4. CASE AnswerNext
  <2>1. CASE \E i \in db.items, known \in BOOLEAN : SubmitFirstExposure(i, known)
    BY <2>1, FirstExposurePlanned
  <2>2. CASE \E i \in db.items, hard \in BOOLEAN : SubmitReview(i, hard)
    BY <2>2, SubmitReviewPlanned
  <2>3. CASE \E a \in db.answers, i \in db.items : UndoLastAnswer(a, i)
    BY <2>3, UndoLastAnswerPlanned
  <2> QED BY <1>4, <2>1, <2>2, <2>3 DEF AnswerNext
<1>5. CASE UNCHANGED vars
  <2>1. now' = now /\ db' = db
    BY <1>5 DEF vars
  <2>2. CountersInv'
    BY <1>5, PlannedFacts, CountersNext
  <2>3. Planned(db, Day(now))
    BY DEF PlannedInv
  <2>4. Planned(db', Day(now'))
    BY <2>1, <2>3
  <2> QED BY <2>2, <2>4 DEF PlannedInv, Planned
<1> QED BY <1>1, <1>2, <1>3, <1>4, <1>5 DEF PlannedNext

---------------------------------------------------------------------------
(* What the plan keeps *)

(***************************************************************************)
(* The last of the words learnt today was answered within the limit, and   *)
(* all others before it.                                                   *)
(***************************************************************************)
LEMMA LimitIsKept == PlannedInv => NewWordsWithinLimit
<1> SUFFICES ASSUME PlannedInv PROVE NewWordsWithinLimit
  OBVIOUS
<1> DEFINE learnt == LearntCards(db.items, db.states, Day(now))
           stamps == {j.done : j \in learnt}
<1>1. Core(db.items, db.states, db.answers, Day(now))
  BY PlannedFacts
<1>2. IsFiniteSet(learnt) /\ Cardinality(learnt) \in Nat
  BY <1>1, LearntCardsAreFinite DEF Core, Typed
<1>3. LearnedNewCount(db, Day(now)) = Cardinality(learnt)
  BY LearnedIsLearnt
<1>4. /\ \A j \in learnt : j \in db.items /\ j.day = Day(now) /\ j.type = "new" /\ ~Pending(j)
      /\ \A j \in learnt : j.done \in Nat
  BY <1>1 DEF LearntCards, ItemsOf, Core, Typed, Item
<1>5. CASE learnt = {}
  BY <1>3, <1>5, FS_EmptySet, DailyAssumption DEF NewWordsWithinLimit
<1>6. CASE learnt # {}
  <2>1. \E i \in learnt : \A j \in learnt : j.done <= i.done
    <3> DEFINE doneOf == [j \in learnt |-> j.done]
    <3>1. stamps = {doneOf[j] : j \in learnt}
      OBVIOUS
    <3>2. IsFiniteSet(stamps)
      <4> HIDE DEF learnt, stamps, doneOf
      <4> QED BY <1>2, <3>1, ImageIsFinite
    <3>3. stamps \in SUBSET Nat /\ stamps # {}
      BY <1>4, <1>6
    <3>4. Max(stamps) \in stamps /\ \A s \in stamps : Max(stamps) >= s
      <4> HIDE DEF stamps
      <4> QED BY <3>2, <3>3, MaxOfFiniteSet
    <3>5. PICK i \in learnt : i.done = Max(stamps)
      BY <3>4
    <3>6. \A j \in learnt : Max(stamps) >= j.done
      BY <3>4
    <3> HIDE DEF stamps
    <3>7. \A j \in learnt : j.done <= i.done
      BY <1>4, <3>5, <3>6
    <3> QED BY <3>7
  <2>2. PICK i \in learnt : \A j \in learnt : j.done <= i.done
    BY <2>1
  <2>3. \A j \in learnt : j.done < i.done <=> j # i
    <3> SUFFICES ASSUME NEW j \in learnt PROVE j.done < i.done <=> j # i
      OBVIOUS
    <3>1. j.done = i.done => j = i
      BY <1>1, <1>4, <2>2 DEF Core, StampsAreUnique
    <3>2. j.done <= i.done /\ j.done \in Nat /\ i.done \in Nat
      BY <1>4, <2>2
    <3> QED BY <3>1, <3>2
  <2>4. LearntBefore(db.items, db.states, i) = learnt \ {i}
    BY <1>4, <2>2, <2>3 DEF LearntBefore
  <2>5. Cardinality(LearntBefore(db.items, db.states, i)) < NewLimit
    BY <1>1, <1>4, <2>2 DEF Core, AnsweredWithinLimit, ItemsOf
  <2>6. Cardinality(learnt \ {i}) = Cardinality(learnt) - 1
    BY <1>2, <2>2, FS_RemoveElement
  <2> QED BY <1>2, <1>3, <2>4, <2>5, <2>6, DailyAssumption DEF NewWordsWithinLimit
<1> QED BY <1>5, <1>6

LEMMA ReviewsHaveRows == PlannedInv => NoOrphanReviewCard
BY PlannedFacts DEF NoOrphanReviewCard, Core, ReviewsAreLearnt, Learnt, HasRow

LEMMA NewCardsStandAlone == PlannedInv => NewCardsAreUnseen
<1> SUFFICES ASSUME PlannedInv,
                    NEW i \in db.items, i.day = Day(now), Pending(i), i.type = "new"
             PROVE  /\ ~HasRow(db, i.word)
                    /\ \A j \in db.items : Pending(j) /\ j.word = i.word => j = i
  BY DEF NewCardsAreUnseen, PoolItems
<1>1. db.states[i.word].status = "none"
  BY PlannedFacts DEF Core, NewUntilAnswered
<1>2. \A j \in db.items : j.word = i.word => j.type = "new"
  BY <1>1, PlannedFacts DEF Core, ReviewsAreLearnt, Learnt
<1>3. \A j \in db.items : j.word = i.word => j = i
  BY <1>2, PlannedFacts DEF Core, OneNewCard
<1> QED BY <1>1, <1>3 DEF HasRow

(***************************************************************************)
(* A learner who keeps to the plan never takes in more new words in a day  *)
(* than the limit, whatever is answered, taken back and dealt anew in      *)
(* between (maintainNewWordBuffer, UndoLastAnswer).                        *)
(***************************************************************************)
THEOREM NewWordsStayWithinLimit == ASSUME PlannedAssumption PROVE PlannedSpec => []NewWordsWithinLimit
<1>1. PlannedInv /\ [PlannedNext]_vars => PlannedInv'
  BY PlannedStep
<1> QED BY <1>1, PlannedInit, LimitIsKept, PTL DEF PlannedSpec

(***************************************************************************)
(* A card that asks for a review always has a row to review: an undo of a  *)
(* first exposure takes the follow-ups of the word with it (CanUndo,       *)
(* UndoLastAnswer).                                                        *)
(***************************************************************************)
THEOREM ReviewCardsStayWithRows == ASSUME PlannedAssumption PROVE PlannedSpec => []NoOrphanReviewCard
<1>1. PlannedInv /\ [PlannedNext]_vars => PlannedInv'
  BY PlannedStep
<1> QED BY <1>1, PlannedInit, ReviewsHaveRows, PTL DEF PlannedSpec

(***************************************************************************)
(* A new card is the only pending card of a word without a row, also after *)
(* an undo has dealt trimmed cards again (generateNewWords, UndoLastAnswer).*)
(***************************************************************************)
THEOREM NewCardsStayUnseen == ASSUME PlannedAssumption PROVE PlannedSpec => []NewCardsAreUnseen
<1>1. PlannedInv /\ [PlannedNext]_vars => PlannedInv'
  BY PlannedStep
<1> QED BY <1>1, PlannedInit, NewCardsStandAlone, PTL DEF PlannedSpec

---------------------------------------------------------------------------
(* The rows an undo finds *)

AnsweredCards(X) == {i \in X : ~Pending(i)}
AnsweredToday(X, w, day) == {i \in X : i.word = w /\ i.day = day /\ ~Pending(i)}

(***************************************************************************)
(* Of the cards C of a word answered today: i is the last, k the one       *)
(* answered next after i.                                                  *)
(***************************************************************************)
LastOf(C, i) == \A j \in C : j.done <= i.done
NextOf(C, i, k) == i.done < k.done /\ \A j \in C : j.done <= i.done \/ k.done <= j.done

(***************************************************************************)
(* The row an answer of today wrote is the word's row still, or the one    *)
(* the next answer of the word remembers.                                  *)
(***************************************************************************)
RowsFollowAnswers(X, S, A, day) ==
  \A a \in A, i \in AnsweredCards(X) : a.item = i.id /\ i.day = day =>
    \/ LastOf(AnsweredToday(X, i.word, day), i) /\ S[i.word] = a.post
    \/ \E k \in AnsweredToday(X, i.word, day) : \E b \in A :
         NextOf(AnsweredToday(X, i.word, day), i, k) /\ b.item = k.id /\ b.prev = a.post

(***************************************************************************)
(* A word that has a card today and is due has a pending scheduled card,   *)
(* and had one apart from the card answered when the answer of a weak card *)
(* found the word due: taking that answer back leaves it.                  *)
(***************************************************************************)
IsDue(row, day) == row.due # Null /\ Day(row.due) <= day
Scheduled(i) == i.type \in {"short_term", "review"}
Waits(j, w, day) == j.day = day /\ j.word = w /\ Pending(j) /\ Scheduled(j)

DueIsCovered(X, S, day) ==
  \A i \in X : i.day = day /\ IsDue(S[i.word], day) => \E j \in X : Waits(j, i.word, day)

WaitedBefore(X, A, day, i, m) ==
  /\ m.day = day /\ m.word = i.word /\ Scheduled(m)
  /\ Pending(m) \/ i.done < m.done
  /\ \A b \in A, k \in AnsweredCards(X) :
       b.item = k.id /\ k.day = day /\ i.done <= k.done => m.id \notin b.created

StillCovered(X, A, day) ==
  \A a \in A, i \in AnsweredCards(X) :
    a.item = i.id /\ i.day = day /\ i.type = "weak" /\ IsDue(a.prev, day) =>
      \E m \in X : WaitedBefore(X, A, day, i, m)

History(X, S, A, day) ==
  RowsFollowAnswers(X, S, A, day) /\ DueIsCovered(X, S, day) /\ StillCovered(X, A, day)

(***************************************************************************)
(* A card i is answered, as k, and a is the answer: what that leaves (Y)   *)
(* of the cards of today and adds to them.                                 *)
(***************************************************************************)
LeavesAnswered(X, S, day, i, k, a, Y) ==
  /\ i \in X /\ Pending(i)
  /\ k.id = i.id /\ k.day = i.day /\ k.word = i.word /\ k.type = i.type /\ ~Pending(k)
  /\ k.done \in Nat /\ \A j \in X : j.day = i.day => j.done < k.done
  /\ a.item = i.id /\ a.prev = S[i.word]
  /\ \A j \in X : j.day = day /\ j.type # "new" => j.id \notin a.created
  /\ AnsweredCards(Y) = AnsweredCards(X) \cup {k}
  /\ \A j \in X : j # i /\ j.day = day /\ j.type # "new" => \E l \in Y : SameButDue(j, l)
  /\ \A j \in Y : j.day = day =>
       \/ \E c \in X : c.day = day /\ c.word = j.word
       \/ ~IsDue(Rewritten(S, i.word, a.post)[j.word], day)
       \/ \E l \in Y : Waits(l, j.word, day)
  /\ i.day = day /\ IsDue(a.post, day) => \E j \in Y : Waits(j, i.word, day)
  /\ i.day # day => \A j \in X : j.day # day

LEMMA AnsweredHistory ==
  ASSUME NEW day, NEW X, NEW S, NEW A, Core(X, S, A, day), History(X, S, A, day),
         NEW i, NEW k, NEW a, NEW Y, LeavesAnswered(X, S, day, i, k, a, Y)
  PROVE  History(Y, Rewritten(S, i.word, a.post), A \cup {a}, day)
<1> DEFINE w == i.word
           E == A \cup {a}
           T == Rewritten(S, w, a.post)
<1>1. /\ X \in SUBSET Item /\ S \in [Words -> StateRow] /\ w \in Words
      /\ \A b \in X, c \in X : b.id = c.id => b = c
      /\ \A j \in X : j.done \in Nat
  BY DEF Core, Typed, UniqueIds, LeavesAnswered, Item
<1>2. /\ i \in X /\ Pending(i)
      /\ k.id = i.id /\ k.day = i.day /\ k.word = w /\ k.type = i.type /\ ~Pending(k)
      /\ k.done \in Nat /\ \A j \in X : j.day = i.day => j.done < k.done
      /\ a.item = i.id /\ a.prev = S[w]
      /\ \A j \in X : j.day = day /\ j.type # "new" => j.id \notin a.created
      /\ \A j : j \in AnsweredCards(Y) <=> j \in AnsweredCards(X) \/ j = k
      /\ \A j \in X : j # i /\ j.day = day /\ j.type # "new" => \E l \in Y : SameButDue(j, l)
      /\ i.day = day /\ IsDue(a.post, day) => \E j \in Y : Waits(j, w, day)
      /\ i.day # day => \A j \in X : j.day # day
  BY DEF LeavesAnswered
<1>3. \A j \in Y : j.day = day =>
        \/ \E c \in X : c.day = day /\ c.word = j.word
        \/ ~IsDue(T[j.word], day)
        \/ \E l \in Y : Waits(l, j.word, day)
  BY DEF LeavesAnswered
<1>4. T[w] = a.post /\ \A v \in Words : v # w => T[v] = S[v]
  BY <1>1 DEF Rewritten
<1>5. \A b \in A : b.item # i.id
  BY <1>2 DEF Core, AnswersMatch
<1>6. (\A j : j \in AnsweredCards(X) <=> j \in X /\ ~Pending(j))
      /\ (\A j : j \in AnsweredCards(Y) <=> j \in Y /\ ~Pending(j))
      /\ k \in Y
  BY <1>2 DEF AnsweredCards
<1> HIDE DEF T, w
<1>7. \A b \in E, c \in AnsweredCards(Y) : b.item = c.id =>
        \/ b = a /\ c = k
        \/ b \in A /\ c \in AnsweredCards(X) /\ c.id # k.id
  BY <1>1, <1>2, <1>5, <1>6
<1>8. i.day = day => \A j \in X : j.day = day => j.done < k.done
  BY <1>2
<1>9. CASE i.day # day
  <2>1. \A c \in AnsweredCards(Y) : c.day # day
    BY <1>2, <1>6, <1>9
  <2>2. RowsFollowAnswers(Y, T, E, day) /\ StillCovered(Y, E, day)
    BY <2>1 DEF RowsFollowAnswers, StillCovered
  <2>3. DueIsCovered(Y, T, day)
    BY <1>2, <1>3, <1>9 DEF DueIsCovered
  <2> QED BY <2>2, <2>3 DEF History, T, w
<1>10. CASE i.day = day
  <2>1. /\ RowsFollowAnswers(X, S, A, day) /\ DueIsCovered(X, S, day) /\ StillCovered(X, A, day)
    BY DEF History
  <2>2. \A v : v # w => AnsweredToday(Y, v, day) = AnsweredToday(X, v, day)
    BY <1>2, <1>6 DEF AnsweredToday
  <2>3. AnsweredToday(Y, w, day) = AnsweredToday(X, w, day) \cup {k}
    <3>1. \A j : j \in AnsweredToday(Y, w, day) <=> j \in AnsweredCards(Y) /\ j.word = w /\ j.day = day
      BY <1>6 DEF AnsweredToday
    <3>2. \A j : j \in AnsweredToday(X, w, day) <=> j \in AnsweredCards(X) /\ j.word = w /\ j.day = day
      BY <1>6 DEF AnsweredToday
    <3> QED BY <1>2, <1>10, <3>1, <3>2
  <2>4. \A v : \A j \in AnsweredToday(X, v, day) : j \in X /\ j.day = day /\ j.done < k.done /\ j.done \in Nat
    BY <1>1, <1>8, <1>10 DEF AnsweredToday
  <2>5. RowsFollowAnswers(Y, T, E, day)
    <3> SUFFICES ASSUME NEW b \in E, NEW c \in AnsweredCards(Y), b.item = c.id, c.day = day
                 PROVE  \/ LastOf(AnsweredToday(Y, c.word, day), c) /\ T[c.word] = b.post
                        \/ \E l \in AnsweredToday(Y, c.word, day) : \E e \in E :
                             NextOf(AnsweredToday(Y, c.word, day), c, l) /\ e.item = l.id /\ e.prev = b.post
      BY DEF RowsFollowAnswers
    <3>1. CASE b = a /\ c = k
      <4>1. LastOf(AnsweredToday(Y, w, day), k)
        BY <1>2, <2>3, <2>4 DEF LastOf
      <4> QED BY <1>2, <1>4, <3>1, <4>1
    <3>2. CASE b \in A /\ c \in AnsweredCards(X)
      <4>0. c \in X /\ c.word \in Words /\ c.done \in Nat
        BY <1>1, <1>6, <3>2 DEF Item
      <4>1. \/ LastOf(AnsweredToday(X, c.word, day), c) /\ S[c.word] = b.post
            \/ \E l \in AnsweredToday(X, c.word, day) : \E e \in A :
                 NextOf(AnsweredToday(X, c.word, day), c, l) /\ e.item = l.id /\ e.prev = b.post
        BY <2>1, <3>2 DEF RowsFollowAnswers
      <4>2. CASE c.word # w
        BY <1>4, <2>2, <4>0, <4>1, <4>2
      <4>3. CASE c.word = w
        <5>1. CASE LastOf(AnsweredToday(X, w, day), c) /\ S[w] = b.post
          <6>1. NextOf(AnsweredToday(Y, w, day), c, k)
            <7>1. c.done < k.done
              BY <1>8, <1>10, <4>0
            <7>2. \A j \in AnsweredToday(Y, w, day) : j.done <= c.done \/ k.done <= j.done
              BY <1>2, <2>3, <5>1 DEF LastOf
            <7> QED BY <7>1, <7>2 DEF NextOf
          <6>2. k \in AnsweredToday(Y, w, day) /\ a \in E
            BY <2>3
          <6> QED BY <1>2, <4>3, <5>1, <6>1, <6>2
        <5>2. CASE \E l \in AnsweredToday(X, w, day) : \E e \in A :
                     NextOf(AnsweredToday(X, w, day), c, l) /\ e.item = l.id /\ e.prev = b.post
          <6>1. PICK l \in AnsweredToday(X, w, day) : \E e \in A :
                     NextOf(AnsweredToday(X, w, day), c, l) /\ e.item = l.id /\ e.prev = b.post
            BY <5>2
          <6>2. l.done < k.done /\ l.done \in Nat
            BY <2>4
          <6>3. NextOf(AnsweredToday(Y, w, day), c, l)
            BY <1>2, <2>3, <6>1, <6>2 DEF NextOf
          <6>4. l \in AnsweredToday(Y, w, day)
            BY <2>3
          <6> QED BY <4>3, <6>1, <6>3, <6>4
        <5> QED BY <4>1, <4>3, <5>1, <5>2
      <4> QED BY <4>2, <4>3
    <3> QED BY <1>7, <3>1, <3>2
  <2>6. \A m \in X : m # i /\ m.day = day /\ Scheduled(m) => \E l \in Y : SameButDue(m, l)
    BY <1>2 DEF Scheduled
  <2>7. DueIsCovered(Y, T, day)
    <3> SUFFICES ASSUME NEW j \in Y, j.day = day, IsDue(T[j.word], day)
                 PROVE  \E l \in Y : Waits(l, j.word, day)
      BY DEF DueIsCovered
    <3>1. CASE j.word = w
      BY <1>2, <1>4, <1>10, <3>1
    <3>2. CASE \E l \in Y : Waits(l, j.word, day)
      BY <3>2
    <3>3. CASE j.word # w /\ \E c \in X : c.day = day /\ c.word = j.word
      <4>1. PICK c \in X : c.day = day /\ c.word = j.word
        BY <3>3
      <4>2. IsDue(S[c.word], day)
        BY <1>1, <1>4, <3>3, <4>1 DEF Item
      <4>3. PICK m \in X : Waits(m, j.word, day)
        BY <2>1, <4>1, <4>2 DEF DueIsCovered
      <4>4. m # i
        BY <3>3, <4>3 DEF Waits, w
      <4>5. PICK l \in Y : SameButDue(m, l)
        BY <2>6, <4>3, <4>4 DEF Waits
      <4>6. Waits(l, j.word, day)
        BY <4>3, <4>5 DEF Waits, SameButDue, Scheduled, Pending
      <4> QED BY <4>6
    <3> QED BY <1>3, <3>1, <3>2, <3>3
  <2>8. \A b \in E, c \in AnsweredCards(Y), m \in X :
          b.item = c.id /\ c.day = day /\ m.day = day /\ Scheduled(m) =>
            (b = a /\ m.id \notin b.created) \/ (b \in A /\ c \in AnsweredCards(X))
    <3>1. \A m \in X : m.day = day /\ Scheduled(m) => m.id \notin a.created
      BY <1>2 DEF Scheduled
    <3> QED BY <1>7, <3>1
  <2>9. StillCovered(Y, E, day)
    <3> SUFFICES ASSUME NEW b \in E, NEW c \in AnsweredCards(Y),
                        b.item = c.id, c.day = day, c.type = "weak", IsDue(b.prev, day)
                 PROVE  \E m \in Y : WaitedBefore(Y, E, day, c, m)
      BY DEF StillCovered
    <3>1. CASE b = a /\ c = k
      <4>1. PICK m \in X : Waits(m, w, day)
        BY <1>2, <1>10, <2>1, <3>1 DEF DueIsCovered, w
      <4>2. m # i
        BY <1>2, <3>1, <4>1 DEF Waits, Scheduled
      <4>3. PICK l \in Y : SameButDue(m, l)
        BY <2>6, <4>1, <4>2 DEF Waits
      <4>4. \A e \in E, j \in AnsweredCards(Y) :
              e.item = j.id /\ j.day = day /\ k.done <= j.done => m.id \notin e.created
        <5> SUFFICES ASSUME NEW e \in E, NEW j \in AnsweredCards(Y),
                            e.item = j.id, j.day = day, k.done <= j.done
                     PROVE  m.id \notin e.created
          OBVIOUS
        <5>1. CASE e \in A /\ j \in AnsweredCards(X)
          BY <1>1, <1>2, <1>6, <1>8, <1>10, <5>1
        <5> QED BY <2>8, <4>1, <5>1 DEF Waits
      <4>5. WaitedBefore(Y, E, day, k, l)
        BY <1>2, <4>1, <4>3, <4>4 DEF WaitedBefore, Waits, SameButDue, Scheduled, Pending
      <4> QED BY <3>1, <4>5
    <3>2. CASE b \in A /\ c \in AnsweredCards(X)
      <4>1. PICK m \in X : WaitedBefore(X, A, day, c, m)
        BY <2>1, <3>2 DEF StillCovered
      <4>2. PICK l \in Y : /\ l.id = m.id /\ l.day = m.day /\ l.word = m.word /\ l.type = m.type
                           /\ Pending(l) \/ c.done < l.done
        <5>1. CASE m = i
          BY <1>2, <1>6, <1>8, <1>10, <3>2, <5>1 DEF w
        <5>2. CASE m # i
          BY <2>6, <4>1, <5>2 DEF WaitedBefore, SameButDue, Pending
        <5> QED BY <5>1, <5>2
      <4>3. \A e \in E, j \in AnsweredCards(Y) :
              e.item = j.id /\ j.day = day /\ c.done <= j.done => m.id \notin e.created
        <5>1. \A e \in A, j \in AnsweredCards(X) :
                e.item = j.id /\ j.day = day /\ c.done <= j.done => m.id \notin e.created
          BY <4>1 DEF WaitedBefore
        <5>2. m.day = day /\ Scheduled(m)
          BY <4>1 DEF WaitedBefore
        <5> QED BY <2>8, <5>1, <5>2
      <4>4. WaitedBefore(Y, E, day, c, l)
        BY <4>1, <4>2, <4>3 DEF WaitedBefore, Scheduled
      <4> QED BY <4>4
    <3> QED BY <1>7, <3>1, <3>2
  <2> QED BY <2>5, <2>7, <2>9 DEF History, T, w
<1> QED BY <1>9, <1>10

(***************************************************************************)
(* The last answer of today, a of the card i, is taken back: the card is   *)
(* pending as k, and what that leaves (Y) of the cards of today.           *)
(***************************************************************************)
LeavesUndone(X, S, A, day, i, k, a, Y) ==
  /\ a \in A /\ i \in X /\ a.item = i.id /\ ~Pending(i) /\ i.day = day
  /\ \A j \in X : j.day = day => j.done <= i.done
  /\ k \in Y /\ k.id = i.id /\ k.day = day /\ k.word = i.word /\ k.type = i.type /\ Pending(k)
  /\ AnsweredCards(Y) = AnsweredCards(X) \ {i}
  /\ \A j \in X : j # i /\ j.day = day /\ j.id \notin a.created => j \in Y
  /\ \A j \in Y : j.day = day =>
       \/ \E c \in X : c.day = day /\ c.word = j.word
       \/ ~IsDue(Rewritten(S, i.word, a.prev)[j.word], day)

LEMMA UndoneHistory ==
  ASSUME NEW day, NEW X, NEW S, NEW A, Core(X, S, A, day), History(X, S, A, day),
         NEW i, NEW k, NEW a, NEW Y, LeavesUndone(X, S, A, day, i, k, a, Y)
  PROVE  History(Y, Rewritten(S, i.word, a.prev), A \ {a}, day)
<1> DEFINE w == i.word
           E == A \ {a}
           T == Rewritten(S, w, a.prev)
<1>1. /\ X \in SUBSET Item /\ S \in [Words -> StateRow] /\ w \in Words /\ i \in Item
      /\ \A b \in X, c \in X : b.id = c.id => b = c
      /\ \A j \in X : j.done \in Nat
  BY DEF Core, Typed, UniqueIds, LeavesUndone, Item
<1>2. /\ a \in A /\ i \in X /\ a.item = i.id /\ ~Pending(i) /\ i.day = day
      /\ \A j \in X : j.day = day => j.done <= i.done
      /\ k \in Y /\ k.id = i.id /\ k.day = day /\ k.word = w /\ k.type = i.type /\ Pending(k)
      /\ \A j : j \in AnsweredCards(Y) <=> j \in AnsweredCards(X) /\ j # i
      /\ \A j \in X : j # i /\ j.day = day /\ j.id \notin a.created => j \in Y
  BY DEF LeavesUndone
<1>3. \A j \in Y : j.day = day =>
        \/ \E c \in X : c.day = day /\ c.word = j.word
        \/ ~IsDue(T[j.word], day)
  BY DEF LeavesUndone
<1>4. T[w] = a.prev /\ \A v \in Words : v # w => T[v] = S[v]
  BY <1>1 DEF Rewritten
<1>5. /\ \A b, c \in A : b.item = c.item => b = c
      /\ i.type = "new" => a.prev = NoRow
      /\ \A j \in X : j.id \in a.created => j.type = "new" \/ j.word = w
  BY <1>2 DEF Core, AnswersMatch
<1>6. /\ \A j : j \in AnsweredCards(X) <=> j \in X /\ ~Pending(j)
      /\ \A j : j \in AnsweredCards(Y) <=> j \in Y /\ ~Pending(j)
  BY DEF AnsweredCards
<1>7. /\ RowsFollowAnswers(X, S, A, day) /\ DueIsCovered(X, S, day) /\ StillCovered(X, A, day)
  BY DEF History
<1>8. \A j \in X : j.day = day /\ i.done <= j.done /\ ~Pending(j) => j = i
  <2>1. \A j \in X : j.day = day /\ i.done <= j.done => j.done = i.done
    BY <1>1, <1>2
  <2> QED BY <1>2, <2>1 DEF Core, StampsAreUnique
<1> HIDE DEF T, w
<1>9. RowsFollowAnswers(Y, T, E, day)
  <2>1. \A v, j : j \in AnsweredToday(Y, v, day) <=> j \in AnsweredToday(X, v, day) /\ j # i
    <3>1. \A v, j : j \in AnsweredToday(Y, v, day) <=> j \in AnsweredCards(Y) /\ j.word = v /\ j.day = day
      BY <1>6 DEF AnsweredToday
    <3>2. \A v, j : j \in AnsweredToday(X, v, day) <=> j \in AnsweredCards(X) /\ j.word = v /\ j.day = day
      BY <1>6 DEF AnsweredToday
    <3> QED BY <1>2, <3>1, <3>2
  <2>2. \A v : \A j \in AnsweredToday(X, v, day) : j \in X /\ j.day = day /\ j.word = v /\ ~Pending(j)
    BY DEF AnsweredToday
  <2> SUFFICES ASSUME NEW b \in E, NEW c \in AnsweredCards(Y), b.item = c.id, c.day = day
               PROVE  \/ LastOf(AnsweredToday(Y, c.word, day), c) /\ T[c.word] = b.post
                      \/ \E l \in AnsweredToday(Y, c.word, day) : \E e \in E :
                           NextOf(AnsweredToday(Y, c.word, day), c, l) /\ e.item = l.id /\ e.prev = b.post
    BY DEF RowsFollowAnswers
  <2>3. c \in X /\ c.word \in Words /\ ~Pending(c) /\ c # i /\ b \in A /\ c \in AnsweredCards(X)
    BY <1>1, <1>2, <1>6 DEF Item
  <2> HIDE DEF E
  <2>4. \/ LastOf(AnsweredToday(X, c.word, day), c) /\ S[c.word] = b.post
        \/ \E l \in AnsweredToday(X, c.word, day) : \E e \in A :
             NextOf(AnsweredToday(X, c.word, day), c, l) /\ e.item = l.id /\ e.prev = b.post
    BY <1>7, <2>3 DEF RowsFollowAnswers
  <2>5. CASE LastOf(AnsweredToday(X, c.word, day), c) /\ S[c.word] = b.post
    <3>1. c.word # w
      <4> SUFFICES ASSUME c.word = w PROVE FALSE
        OBVIOUS
      <4>1. i \in AnsweredToday(X, c.word, day)
        BY <1>2 DEF AnsweredToday, w
      <4>2. i.done <= c.done
        BY <2>5, <4>1 DEF LastOf
      <4> QED BY <1>8, <2>3, <4>2
    <3>2. LastOf(AnsweredToday(Y, c.word, day), c)
      BY <2>1, <2>5 DEF LastOf
    <3> QED BY <1>4, <2>3, <2>5, <3>1, <3>2
  <2>6. CASE \E l \in AnsweredToday(X, c.word, day) : \E e \in A :
               NextOf(AnsweredToday(X, c.word, day), c, l) /\ e.item = l.id /\ e.prev = b.post
    <3>1. PICK l \in AnsweredToday(X, c.word, day) : \E e \in A :
            NextOf(AnsweredToday(X, c.word, day), c, l) /\ e.item = l.id /\ e.prev = b.post
      BY <2>6
    <3>2. PICK e \in A : NextOf(AnsweredToday(X, c.word, day), c, l) /\ e.item = l.id /\ e.prev = b.post
      BY <3>1
    <3>3. CASE l = i
      <4>1. e = a /\ c.word = w
        BY <1>2, <1>5, <2>2, <3>2, <3>3 DEF w
      <4>2. \A j \in AnsweredToday(Y, c.word, day) : j.done <= c.done
        <5> SUFFICES ASSUME NEW j \in AnsweredToday(Y, c.word, day) PROVE j.done <= c.done
          OBVIOUS
        <5>1. j \in AnsweredToday(X, c.word, day) /\ j # i
          BY <2>1
        <5>2. j.done <= c.done \/ i.done <= j.done
          BY <3>2, <3>3, <5>1 DEF NextOf
        <5> QED BY <1>8, <2>2, <5>1, <5>2
      <4> QED BY <1>4, <3>2, <4>1, <4>2 DEF LastOf
    <3>4. CASE l # i
      <4>1. l \in AnsweredToday(Y, c.word, day)
        BY <2>1, <3>4
      <4>2. NextOf(AnsweredToday(Y, c.word, day), c, l)
        BY <2>1, <3>2 DEF NextOf
      <4>3. e # a
        BY <1>1, <1>2, <2>2, <3>2, <3>4
      <4> QED BY <3>2, <4>1, <4>2, <4>3 DEF E
    <3> QED BY <3>3, <3>4
  <2> QED BY <2>4, <2>5, <2>6
<1>10. DueIsCovered(Y, T, day)
  <2> SUFFICES ASSUME NEW j \in Y, j.day = day, IsDue(T[j.word], day)
               PROVE  \E l \in Y : Waits(l, j.word, day)
    BY DEF DueIsCovered
  <2>1. CASE j.word = w
    <3>1. IsDue(a.prev, day)
      BY <1>4, <2>1
    <3>2. i.type # "new"
      BY <1>5, <3>1 DEF IsDue, NoRow, Null
    <3>3. CASE i.type = "weak"
      <4>1. PICK m \in X : WaitedBefore(X, A, day, i, m)
        BY <1>2, <1>6, <1>7, <3>1, <3>3 DEF StillCovered
      <4>2. m.id \notin a.created
        BY <1>1, <1>2, <1>6, <4>1 DEF WaitedBefore
      <4>3. Pending(m) /\ m # i
        BY <1>1, <1>2, <3>3, <4>1 DEF WaitedBefore, Scheduled
      <4>4. m \in Y
        BY <1>2, <4>1, <4>2, <4>3 DEF WaitedBefore
      <4>5. Waits(m, j.word, day)
        BY <2>1, <4>1, <4>3 DEF WaitedBefore, Waits, w
      <4> QED BY <4>4, <4>5
    <3>4. CASE i.type # "weak"
      <4>1. Scheduled(k)
        BY <1>1, <1>2, <3>2, <3>4 DEF Item, ItemTypes, Scheduled
      <4> QED BY <1>2, <2>1, <4>1 DEF Waits
    <3> QED BY <3>3, <3>4
  <2>2. CASE j.word # w
    <3>1. PICK c \in X : c.day = day /\ c.word = j.word
      BY <1>3
    <3>2. IsDue(S[c.word], day)
      BY <1>1, <1>4, <2>2, <3>1 DEF Item
    <3>3. PICK m \in X : Waits(m, j.word, day)
      BY <1>7, <3>1, <3>2 DEF DueIsCovered
    <3>4. m # i /\ m.id \notin a.created
      BY <1>5, <2>2, <3>3 DEF Waits, Scheduled, w
    <3>5. m \in Y
      BY <1>2, <3>3, <3>4 DEF Waits
    <3> QED BY <3>3, <3>5
  <2> QED BY <2>1, <2>2
<1>11. StillCovered(Y, E, day)
  <2> SUFFICES ASSUME NEW b \in E, NEW c \in AnsweredCards(Y),
                      b.item = c.id, c.day = day, c.type = "weak", IsDue(b.prev, day)
               PROVE  \E m \in Y : WaitedBefore(Y, E, day, c, m)
    BY DEF StillCovered
  <2>1. b \in A /\ c \in AnsweredCards(X) /\ c \in X
    BY <1>2, <1>6
  <2>2. PICK m \in X : WaitedBefore(X, A, day, c, m)
    BY <1>7, <2>1 DEF StillCovered
  <2>3. \A e \in E, j \in AnsweredCards(Y) :
          e.item = j.id /\ j.day = day /\ c.done <= j.done => m.id \notin e.created
    BY <1>2, <2>2 DEF WaitedBefore
  <2>4. m.id \notin a.created
    <3>1. c.done <= i.done
      BY <1>2, <2>1
    <3> QED BY <1>2, <1>6, <2>2, <3>1 DEF WaitedBefore
  <2>5. CASE m = i
    <3>1. WaitedBefore(Y, E, day, c, k)
      BY <1>2, <2>2, <2>3, <2>5 DEF WaitedBefore, Scheduled, w
    <3> QED BY <1>2, <3>1
  <2>6. CASE m # i
    <3>1. m \in Y
      BY <1>2, <2>2, <2>4, <2>6 DEF WaitedBefore
    <3>2. WaitedBefore(Y, E, day, c, m)
      BY <2>2, <2>3 DEF WaitedBefore
    <3> QED BY <3>1, <3>2
  <2> QED BY <2>5, <2>6
<1> QED BY <1>9, <1>10, <1>11 DEF History, T, w

---------------------------------------------------------------------------
(* What the pool's own operations leave of the records *)

OnlyToday(d, day) == \A i \in d.items : Pending(i) => i.day = day

(***************************************************************************)
(* A request goes on: the rows, the answered cards and today's scheduled   *)
(* cards stay, and a due word that gets its first card of today gets a     *)
(* scheduled one.                                                          *)
(***************************************************************************)
Settled(d, e, day) ==
  /\ e.states = d.states
  /\ AnsweredCards(e.items) = AnsweredCards(d.items)
  /\ \A i \in d.items : i.day = day /\ i.type # "new" => \E j \in e.items : SameButDue(i, j)
  /\ \A j \in e.items : j.day = day =>
       \/ \E c \in d.items : c.day = day /\ c.word = j.word
       \/ ~IsDue(d.states[j.word], day)
       \/ \E l \in e.items : Waits(l, j.word, day)
  /\ OnlyToday(d, day) => OnlyToday(e, day)
  /\ \A y \in Days : y # day => e.pools[y].open = d.pools[y].open

LEMMA SettledThrough ==
  ASSUME NEW d, NEW e, NEW g, NEW day, Settled(d, e, day), Settled(e, g, day)
  PROVE  Settled(d, g, day)
<1>1. \A i \in d.items : i.day = day /\ i.type # "new" => \E j \in g.items : SameButDue(i, j)
  BY DEF Settled, SameButDue
<1>2. \A w : (\E l \in e.items : Waits(l, w, day)) => \E l \in g.items : Waits(l, w, day)
  <2> SUFFICES ASSUME NEW w, NEW l \in e.items, Waits(l, w, day) PROVE \E m \in g.items : Waits(m, w, day)
    OBVIOUS
  <2>1. PICK m \in g.items : SameButDue(l, m)
    BY DEF Settled, Waits, Scheduled
  <2>2. Waits(m, w, day)
    BY <2>1 DEF Waits, SameButDue, Scheduled, Pending
  <2> QED BY <2>2
<1>3. \A j \in g.items : j.day = day =>
        \/ \E c \in d.items : c.day = day /\ c.word = j.word
        \/ ~IsDue(d.states[j.word], day)
        \/ \E l \in g.items : Waits(l, j.word, day)
  <2> SUFFICES ASSUME NEW j \in g.items, j.day = day, IsDue(d.states[j.word], day)
               PROVE  \/ \E c \in d.items : c.day = day /\ c.word = j.word
                      \/ \E l \in g.items : Waits(l, j.word, day)
    OBVIOUS
  <2>1. (\E c \in e.items : c.day = day /\ c.word = j.word) \/ \E l \in g.items : Waits(l, j.word, day)
    BY DEF Settled
  <2>2. ASSUME NEW c \in e.items, c.day = day, c.word = j.word
        PROVE  \/ \E b \in d.items : b.day = day /\ b.word = j.word
               \/ \E l \in e.items : Waits(l, j.word, day)
    BY <2>2 DEF Settled
  <2> QED BY <1>2, <2>1, <2>2
<1> QED BY <1>1, <1>3 DEF Settled

LEMMA SettledHistory ==
  ASSUME NEW d, NEW e, NEW A, NEW day, Settled(d, e, day), History(d.items, d.states, A, day)
  PROVE  History(e.items, e.states, A, day)
<1> DEFINE X == d.items
           Y == e.items
           S == d.states
<1>1. /\ e.states = S
      /\ AnsweredCards(Y) = AnsweredCards(X)
      /\ \A i \in X : i.day = day /\ i.type # "new" => \E j \in Y : SameButDue(i, j)
      /\ \A j \in Y : j.day = day =>
           \/ \E c \in X : c.day = day /\ c.word = j.word
           \/ ~IsDue(S[j.word], day)
           \/ \E l \in Y : Waits(l, j.word, day)
  BY DEF Settled
<1>2. RowsFollowAnswers(X, S, A, day) /\ DueIsCovered(X, S, day) /\ StillCovered(X, A, day)
  BY DEF History
<1> HIDE DEF X, Y, S
<1>3. \A w : AnsweredToday(Y, w, day) = AnsweredToday(X, w, day)
  <2>1. \A Z, w, j : j \in AnsweredToday(Z, w, day) <=> j \in AnsweredCards(Z) /\ j.word = w /\ j.day = day
    BY DEF AnsweredToday, AnsweredCards
  <2> QED BY <1>1, <2>1
<1>4. RowsFollowAnswers(Y, S, A, day)
  BY <1>1, <1>2, <1>3 DEF RowsFollowAnswers
<1>5. DueIsCovered(Y, S, day)
  <2> SUFFICES ASSUME NEW j \in Y, j.day = day, IsDue(S[j.word], day)
               PROVE  \E l \in Y : Waits(l, j.word, day)
    BY DEF DueIsCovered
  <2>1. CASE \E c \in X : c.day = day /\ c.word = j.word
    <3>1. PICK m \in X : Waits(m, j.word, day)
      BY <1>2, <2>1 DEF DueIsCovered
    <3>2. PICK l \in Y : SameButDue(m, l)
      BY <1>1, <3>1 DEF Waits, Scheduled
    <3>3. Waits(l, j.word, day)
      BY <3>1, <3>2 DEF Waits, SameButDue, Scheduled, Pending
    <3> QED BY <3>3
  <2> QED BY <1>1, <2>1
<1>6. StillCovered(Y, A, day)
  <2> SUFFICES ASSUME NEW a \in A, NEW i \in AnsweredCards(Y),
                      a.item = i.id, i.day = day, i.type = "weak", IsDue(a.prev, day)
               PROVE  \E m \in Y : WaitedBefore(Y, A, day, i, m)
    BY DEF StillCovered
  <2>1. PICK m \in X : WaitedBefore(X, A, day, i, m)
    BY <1>1, <1>2 DEF StillCovered
  <2>2. PICK l \in Y : SameButDue(m, l)
    BY <1>1, <2>1 DEF WaitedBefore, Scheduled
  <2>3. WaitedBefore(Y, A, day, i, l)
    BY <1>1, <2>1, <2>2 DEF WaitedBefore, SameButDue, Scheduled, Pending
  <2> QED BY <2>3
<1>7. History(Y, S, A, day)
  BY <1>4, <1>5, <1>6 DEF History
<1> QED BY <1>1, <1>7 DEF Y

LEMMA DealtSettled ==
  ASSUME NEW d, Sound(d), NEW day \in Days, NEW cards \in SUBSET Card, IsFiniteSet(cards),
         \A c \in cards : IsDue(d.states[c.word], day) => Scheduled(c),
         NEW e, e = AppendCounted(d, day, cards)
  PROVE  /\ Settled(d, e, day) /\ d.items \subseteq e.items
         /\ \A i \in e.items : i \in d.items \/ \E c \in cards : DealtAs(d, day, c, i)
         /\ \A c \in cards : \E i \in e.items : DealtAs(d, day, c, i)
         /\ e.pools[day].open = d.pools[day].open
<1> DEFINE g == AppendPoolItems(d, day, cards)
<1>1. PICK f \in [cards -> Item] :
        /\ g = [d EXCEPT !.items = d.items \cup {f[c] : c \in cards}]
        /\ \A c \in cards : DealtAs(d, day, c, f[c])
  BY DealtCards
<1> DEFINE new == {f[c] : c \in cards}
<1>2. \A i \in new : \E c \in cards : DealtAs(d, day, c, i)
  BY <1>1
<1>2a. \A c \in cards : \E i \in new : DealtAs(d, day, c, i)
  BY <1>1
<1>3. e.items = g.items /\ e.states = d.states
  BY DealtCounted
<1>4. \A y \in Days : e.pools[y].open = g.pools[y].open
  <2>1. Sound(g)
    BY AppendPoolItemsSound
  <2>2. CardCounts(cards) \in Counts
    BY CardCountsType
  <2>3. e = IncrementCounts(g, day, CardCounts(cards))
    BY DEF AppendCounted
  <2> HIDE DEF g
  <2> QED BY <2>1, <2>2, <2>3, IncrementedCounts
<1> HIDE DEF new
<1>5. g.items = d.items \cup new /\ g.pools = d.pools
  BY <1>1 DEF new, Sound, DB
<1> HIDE DEF g
<1>6. e.items = d.items \cup new
  BY <1>3, <1>5
<1>7. \A i \in new : i.day = day /\ Pending(i)
  BY <1>2 DEF DealtAs
<1>8. AnsweredCards(e.items) = AnsweredCards(d.items)
  BY <1>6, <1>7 DEF AnsweredCards
<1>9. \A j \in e.items : j.day = day =>
        \/ \E c \in d.items : c.day = day /\ c.word = j.word
        \/ ~IsDue(d.states[j.word], day)
        \/ \E l \in e.items : Waits(l, j.word, day)
  <2> SUFFICES ASSUME NEW j \in e.items, j \notin d.items, IsDue(d.states[j.word], day)
               PROVE  Waits(j, j.word, day)
    OBVIOUS
  <2>1. PICK c \in cards : DealtAs(d, day, c, j)
    BY <1>2, <1>6
  <2> QED BY <2>1 DEF DealtAs, Waits, Scheduled
<1>10. \A i \in d.items : i.day = day /\ i.type # "new" => \E j \in e.items : SameButDue(i, j)
  BY <1>6 DEF SameButDue
<1>11. OnlyToday(d, day) => OnlyToday(e, day)
  BY <1>6, <1>7 DEF OnlyToday
<1>12. Settled(d, e, day)
  BY <1>3, <1>4, <1>5, <1>8, <1>9, <1>10, <1>11 DEF Settled
<1> QED BY <1>2, <1>2a, <1>4, <1>5, <1>6, <1>12

LEMMA PruneSettled ==
  ASSUME NEW t \in Nat, NEW d, Coherent(d, Day(t)), NEW e, e = PruneStaleItems(d, t)
  PROVE  Settled(d, e, Day(t)) /\ OnlyToday(e, Day(t))
<1> DEFINE dead == {i \in d.items : i.day < Day(t) /\ Pending(i)}
<1>1. /\ Sound(d) /\ \A i \in d.items : i.day \in Nat /\ i.day <= Day(t)
  BY DEF Coherent, Sound, DB, Item, Days, NoFutureCards
<1>2. e.items = d.items \ dead /\ e.states = d.states /\ e.pools = d.pools
  BY <1>1 DEF PruneStaleItems, RemoveItems, Sound, DB
<1>3. /\ \A i \in dead : Pending(i) /\ i.day # Day(t)
      /\ \A i \in d.items : i \notin dead /\ Pending(i) => i.day = Day(t)
  BY <1>1, DayIsNat
<1> HIDE DEF dead
<1>4. AnsweredCards(e.items) = AnsweredCards(d.items)
  BY <1>2, <1>3 DEF AnsweredCards
<1>5. OnlyToday(e, Day(t))
  BY <1>2, <1>3 DEF OnlyToday
<1>6. \A i \in d.items : i.day = Day(t) => \E j \in e.items : SameButDue(i, j)
  BY <1>2, <1>3 DEF SameButDue
<1> QED BY <1>2, <1>4, <1>5, <1>6 DEF Settled

(***************************************************************************)
(* A row that is due by the end of the day is found by one of the queries. *)
(***************************************************************************)
LEMMA DueIsQueried ==
  ASSUME NEW t \in Nat, NEW d, Sound(d), NEW w \in Words
  PROVE  IsDue(d.states[w], Day(t)) <=> w \in DueShortTerm(d, t) \cup DueReview(d, t)
<1> DEFINE row == d.states[w]
<1>1. row \in StateRow /\ Schedulable(row)
  BY DEF Sound, DB
<1>2. \A n \in Nat : n <= EndOfDay(t) <=> Day(n) <= Day(t)
  <2> SUFFICES ASSUME NEW n \in Nat PROVE n <= EndOfDay(t) <=> Day(n) <= Day(t)
    OBVIOUS
  <2>1. n <= EndOfDay(t) => Day(n) <= Day(t)
    BY DayOfEarlier
  <2>2. CASE Day(n) <= Day(t)
    <3>1. /\ Day(n) \in Nat /\ Day(t) \in Nat /\ n < (Day(n) + 1) * DayLen
          /\ DayLen \in Nat \ {0}
      BY DayBounds, DailyAssumption
    <3>2. (Day(n) + 1) * DayLen <= (Day(t) + 1) * DayLen
      BY <2>2, <3>1
    <3>3. (Day(t) + 1) * DayLen \in Nat /\ (Day(n) + 1) * DayLen \in Nat
      BY <3>1
    <3>4. EndOfDay(t) = (Day(t) + 1) * DayLen - 1
      BY DEF EndOfDay
    <3> HIDE DEF EndOfDay
    <3> QED BY <3>1, <3>2, <3>3, <3>4
  <2> QED BY <2>1, <2>2
<1>3. row.due # Null => row.due \in Nat
  BY <1>1 DEF StateRow
<1> HIDE DEF row
<1>4. IsDue(row, Day(t)) <=> row.due # Null /\ row.due <= EndOfDay(t)
  BY <1>2, <1>3 DEF IsDue
<1>5. IsDue(row, Day(t)) <=> IsShortTermDue(row, EndOfDay(t)) \/ IsReviewDue(row, EndOfDay(t))
  BY <1>1, <1>4 DEF Schedulable, IsShortTermDue, IsReviewDue, NoRow, KnownRow, Null
<1> QED BY <1>5 DEF row, DueShortTerm, DueReview

LEMMA ReviewCardsServe ==
  ASSUME NEW d, NEW ws, NEW type
  PROVE  /\ \A c \in ReviewCards(d, ws, type) : c.type = type /\ c.word \in ws
         /\ \A w \in ws : \E c \in ReviewCards(d, ws, type) : c.word = w
<1>1. \A c \in ReviewCards(d, ws, type) : c.type = type /\ c.word \in ws
  BY DEF ReviewCards
<1>2. ASSUME NEW w \in ws PROVE \E c \in ReviewCards(d, ws, type) : c.word = w
  <2> DEFINE card == [word |-> w, type |-> type, bonus |-> FALSE, due |-> d.states[w].due]
  <2>1. card \in ReviewCards(d, ws, type) /\ card.word = w
    BY DEF ReviewCards
  <2> QED BY <2>1
<1> QED BY <1>1, <1>2

LEMMA ReconcileSettled ==
  ASSUME NEW t \in Nat, Day(t) \in Days, NEW d, Sound(d),
         NEW e, e = ReconcileScheduledPoolItems(d, t)
  PROVE  /\ Settled(d, e, Day(t))
         /\ \A w \in DueShortTerm(d, t) \cup DueReview(d, t) :
              \E j \in e.items : j.day = Day(t) /\ j.word = w
         /\ e.pools[Day(t)].open = d.pools[Day(t)].open
<1> DEFINE has(w, type) == \E i \in PoolItems(d, Day(t)) : i.word = w /\ i.type = type
           short == {w \in DueShortTerm(d, t) : ~has(w, "short_term")}
           review == {w \in DueReview(d, t) : ~has(w, "review")}
           missing == ReviewCards(d, short, "short_term") \cup ReviewCards(d, review, "review")
<1>1. short \in SUBSET Words /\ review \in SUBSET Words
  BY DEF DueShortTerm, DueReview
<1>2. e = AppendCounted(d, Day(t), missing)
  BY DEF ReconcileScheduledPoolItems
<1>3. \A w \in DueShortTerm(d, t) \cup DueReview(d, t) :
        w \in short \cup review \/ \E j \in d.items : j.day = Day(t) /\ j.word = w
  BY DEF PoolItems
<1> HIDE DEF short, review
<1>4. missing \in SUBSET Card /\ IsFiniteSet(missing)
  <2>1. "short_term" \in ItemTypes /\ "review" \in ItemTypes
    BY DEF ItemTypes
  <2> QED BY <1>1, <2>1, ReviewCardsAreCards, FS_Union
<1>5. /\ \A c \in missing : Scheduled(c)
      /\ \A w \in short \cup review : \E c \in missing : c.word = w
  <2>1. "short_term" \in {"short_term", "review"} /\ "review" \in {"short_term", "review"}
    OBVIOUS
  <2> QED BY <2>1, ReviewCardsServe DEF Scheduled
<1> HIDE DEF missing
<1>6. /\ Settled(d, e, Day(t)) /\ d.items \subseteq e.items
      /\ \A c \in missing : \E i \in e.items : DealtAs(d, Day(t), c, i)
      /\ e.pools[Day(t)].open = d.pools[Day(t)].open
  BY <1>2, <1>4, <1>5, DealtSettled
<1>7. \A w \in short \cup review : \E j \in e.items : j.day = Day(t) /\ j.word = w
  BY <1>5, <1>6 DEF DealtAs
<1> QED BY <1>3, <1>6, <1>7

LEMMA SyncSettled ==
  ASSUME NEW t, NEW d, Sound(d), NEW day, NEW e, e = SyncPendingPoolItems(d, t)
  PROVE  /\ Settled(d, e, day)
         /\ \A i \in d.items : \E j \in e.items : SameButDue(i, j)
         /\ e.pools = d.pools
<1> DEFINE synced(i) ==
             IF i.day = Day(t) /\ Pending(i) /\ i.type # "new" /\ HasRow(d, i.word)
             THEN [i EXCEPT !.due = IF i.bonus THEN Null ELSE d.states[i.word].due]
             ELSE i
<1>1. e.items = {synced(i) : i \in d.items} /\ e.states = d.states /\ e.pools = d.pools
  BY DEF SyncPendingPoolItems, Sound, DB
<1>2. \A i \in d.items : SameButDue(synced(i), i) /\ SameButDue(i, synced(i)) /\ (~Pending(i) => synced(i) = i)
  <2> TAKE i \in d.items
  <2>1. i \in Item
    BY DEF Sound, DB
  <2> QED BY <2>1 DEF Item, SameButDue
<1> HIDE DEF synced
<1>3. /\ \A i \in d.items : \E j \in e.items : SameButDue(i, j)
      /\ \A j \in e.items : \E i \in d.items : SameButDue(j, i) /\ (~Pending(i) => j = i)
      /\ \A i \in d.items : ~Pending(i) => i \in e.items
  BY <1>1, <1>2
<1>4. AnsweredCards(e.items) = AnsweredCards(d.items)
  BY <1>3 DEF AnsweredCards, SameButDue, Pending
<1>5. OnlyToday(d, day) => OnlyToday(e, day)
  BY <1>3 DEF OnlyToday, SameButDue, Pending
<1>6. \A j \in e.items : \E c \in d.items : c.day = j.day /\ c.word = j.word
  BY <1>3 DEF SameButDue
<1>7. Settled(d, e, day)
  BY <1>1, <1>3, <1>4, <1>5, <1>6 DEF Settled
<1> QED BY <1>1, <1>3, <1>7

\* Every word that is due at time t has a card of that day.
DueHaveCards(d, t, e) ==
  \A w \in DueShortTerm(d, t) \cup DueReview(d, t) : \E j \in e.items : j.day = Day(t) /\ j.word = w

LEMMA NewCardsAreNotDue ==
  ASSUME NEW t \in Nat, NEW d, Sound(d), NEW day, NEW quota, NEW ws \in GenerateNewWords(d, day, quota),
         NEW c \in NewCards(ws)
  PROVE  ~IsDue(d.states[c.word], Day(t))
<1>1. c.word \in Words /\ d.states[c.word].status = "none"
  BY DEF GenerateNewWords, NewCards, HasRow
<1>2. c.word \notin DueShortTerm(d, t) \cup DueReview(d, t)
  BY <1>1 DEF DueShortTerm, DueReview, IsShortTermDue, IsReviewDue
<1> QED BY <1>1, <1>2, DueIsQueried

LEMMA CreateDailyPoolSettled ==
  ASSUME NEW t \in Nat, Day(t) \in Days, NEW d, Sound(d), ~d.pools[Day(t)].open,
         NEW r \in CreateDailyPool(d, t)
  PROVE  /\ Settled(d, r.db, Day(t))
         /\ r.db.pools[Day(t)].open => DueHaveCards(d, t, r.db)
<1> DEFINE day == Day(t)
           due == DueShortTerm(d, t) \cup DueReview(d, t)
           weaks == Picks({w \in Words \ due : IsWeakCandidate(d.states[w])}, WeakSlots)
           opened == [d EXCEPT !.pools[day] = [NoPool EXCEPT !.open = TRUE]]
           reviews(weak) == ReviewCards(d, DueShortTerm(d, t), "short_term")
                              \cup ReviewCards(d, DueReview(d, t), "review")
                              \cup ReviewCards(d, weak, "weak")
           dealt(weak, new) == AppendCounted(opened, day, reviews(weak) \cup NewCards(new))
           results(weak) ==
             {IF reviews(weak) = {} /\ new = {} /\ NewLimit > 0
              THEN [ok |-> FALSE, db |-> d]
              ELSE [ok |-> TRUE, db |-> dealt(weak, new)] :
                new \in GenerateNewWords(d, day, PrefetchBatchSize)}
<1>1. PICK weak \in weaks : r \in results(weak)
  <2>1. CreateDailyPool(d, t) = UNION {results(weak) : weak \in weaks}
    BY DEF CreateDailyPool
  <2> HIDE DEF results, weaks
  <2> QED BY <2>1
<1> HIDE DEF dealt
<1>2. PICK new \in GenerateNewWords(d, day, PrefetchBatchSize) :
        r.db = d \/ r.db = dealt(weak, new)
  BY <1>1
<1> USE DEF dealt
<1>3. weak \in SUBSET (Words \ due) /\ new \in SUBSET Words
  BY GeneratedAreWords DEF Picks
<1>4. /\ DueShortTerm(d, t) \in SUBSET Words /\ DueReview(d, t) \in SUBSET Words
      /\ {"short_term", "review", "weak"} \subseteq ItemTypes
      /\ weak \in SUBSET Words
  BY <1>3 DEF DueShortTerm, DueReview, ItemTypes
<1> DEFINE cards == reviews(weak) \cup NewCards(new)
<1>5. cards \in SUBSET Card
  BY <1>3, <1>4, ReviewCardsAreCards, NewCardsAreCards
<1>6. IsFiniteSet(cards)
  BY <1>3, <1>4, ReviewCardsAreCards, NewCardsAreCards, FS_Union
<1>7. /\ Sound(opened) /\ opened.items = d.items /\ opened.states = d.states
      /\ \A y \in Days : y # day => opened.pools[y].open = d.pools[y].open
  <2> DEFINE pools == [d.pools EXCEPT ![day] = [NoPool EXCEPT !.open = TRUE]]
  <2>1. [NoPool EXCEPT !.open = TRUE] \in Pool
    BY DEF NoPool, NoCounts, Pool, Counts
  <2>2. pools \in [Days -> Pool] /\ \A y \in Days : y # day => pools[y] = d.pools[y]
    BY <2>1 DEF Sound, DB
  <2>3. opened = [d EXCEPT !.pools = pools]
    BY DEF Sound, DB
  <2> HIDE DEF pools
  <2>4. Sound(opened)
    BY <2>2, <2>3, ReplacePoolsSound
  <2> QED BY <2>2, <2>3, <2>4 DEF Sound, DB
<1> HIDE DEF opened
<1>8. Settled(d, opened, day)
  BY <1>7 DEF Settled, SameButDue, OnlyToday
<1>9. \A c \in cards : IsDue(opened.states[c.word], day) => Scheduled(c)
  <2>1. ASSUME NEW c \in ReviewCards(d, DueShortTerm(d, t), "short_term")
                            \cup ReviewCards(d, DueReview(d, t), "review")
        PROVE  Scheduled(c)
    BY ReviewCardsServe DEF Scheduled
  <2>2. ASSUME NEW c \in ReviewCards(d, weak, "weak") PROVE ~IsDue(d.states[c.word], day)
    <3>1. c.word \in Words /\ c.word \notin due
      BY <1>3, ReviewCardsServe
    <3> QED BY <3>1, DueIsQueried
  <2>3. ASSUME NEW c \in NewCards(new) PROVE ~IsDue(d.states[c.word], day)
    BY NewCardsAreNotDue
  <2> QED BY <1>7, <2>1, <2>2, <2>3
<1>10. \A w \in due : \E c \in cards : c.word = w
  BY ReviewCardsServe
<1> HIDE DEF cards, reviews
<1>11. /\ Settled(opened, dealt(weak, new), day)
       /\ \A c \in cards : \E i \in dealt(weak, new).items : DealtAs(opened, day, c, i)
  <2>1. dealt(weak, new) = AppendCounted(opened, day, cards)
    BY DEF cards
  <2> HIDE DEF dealt
  <2> QED BY <1>5, <1>6, <1>7, <1>9, <2>1, DealtSettled
<1> HIDE DEF dealt
<1>12. Settled(d, dealt(weak, new), day) /\ DueHaveCards(d, t, dealt(weak, new))
  BY <1>8, <1>10, <1>11, SettledThrough DEF DueHaveCards, DealtAs
<1>13. Settled(d, d, day)
  BY DEF Settled, SameButDue
<1> QED BY <1>2, <1>12, <1>13

LEMMA GetOrCreateSettled ==
  ASSUME NEW t \in Nat, Day(t) \in Days, NEW d, Coherent(d, Day(t)),
         NEW r \in GetOrCreateDailyPool(d, t)
  PROVE  /\ Settled(d, r.db, Day(t)) /\ OnlyToday(r.db, Day(t))
         /\ r.db.pools[Day(t)].open => DueHaveCards(d, t, r.db)
<1> DEFINE pruned == PruneStaleItems(d, t)
           reconciled == ReconcileScheduledPoolItems(pruned, t)
           synced == SyncPendingPoolItems(reconciled, t)
<1>1. Coherent(pruned, Day(t)) /\ Settled(d, pruned, Day(t)) /\ OnlyToday(pruned, Day(t))
  BY PruneCoherent, PruneSettled
<1>2. \/ pruned.pools[Day(t)].open /\ r.db = synced
      \/ ~pruned.pools[Day(t)].open /\ r \in CreateDailyPool(pruned, t)
  BY DEF GetOrCreateDailyPool
<1> HIDE DEF pruned
<1>3. Sound(pruned) /\ pruned.states = d.states
  BY <1>1 DEF Coherent, Settled
<1>4. \A e : DueHaveCards(pruned, t, e) <=> DueHaveCards(d, t, e)
  BY <1>3 DEF DueHaveCards, DueShortTerm, DueReview
<1>5. CASE pruned.pools[Day(t)].open /\ r.db = synced
  <2>1. Coherent(reconciled, Day(t))
    BY <1>1, <1>5, ReconcileCoherent
  <2>2. Settled(pruned, reconciled, Day(t)) /\ DueHaveCards(pruned, t, reconciled)
    BY <1>3, ReconcileSettled DEF DueHaveCards
  <2> HIDE DEF reconciled
  <2>3. /\ Settled(reconciled, synced, Day(t))
        /\ \A i \in reconciled.items : \E j \in synced.items : SameButDue(i, j)
    BY <2>1, SyncSettled DEF Coherent
  <2> HIDE DEF synced
  <2>4. Settled(d, synced, Day(t)) /\ OnlyToday(synced, Day(t))
    <3>1. Settled(pruned, synced, Day(t))
      BY <2>2, <2>3, SettledThrough
    <3>2. Settled(d, synced, Day(t))
      BY <1>1, <3>1, SettledThrough
    <3>3. OnlyToday(synced, Day(t))
      BY <1>1, <3>1 DEF Settled
    <3> QED BY <3>2, <3>3
  <2>5. DueHaveCards(d, t, synced)
    <3> SUFFICES ASSUME NEW w \in DueShortTerm(d, t) \cup DueReview(d, t)
                 PROVE  \E l \in synced.items : l.day = Day(t) /\ l.word = w
      BY DEF DueHaveCards
    <3>1. DueHaveCards(d, t, reconciled)
      BY <1>4, <2>2
    <3>2. PICK j \in reconciled.items : j.day = Day(t) /\ j.word = w
      BY <3>1 DEF DueHaveCards
    <3>3. PICK l \in synced.items : SameButDue(j, l)
      BY <2>3
    <3> QED BY <3>2, <3>3 DEF SameButDue
  <2> QED BY <1>5, <2>4, <2>5
<1>6. CASE ~pruned.pools[Day(t)].open /\ r \in CreateDailyPool(pruned, t)
  <2>1. /\ Settled(pruned, r.db, Day(t))
        /\ r.db.pools[Day(t)].open => DueHaveCards(pruned, t, r.db)
    BY <1>3, <1>6, CreateDailyPoolSettled
  <2>2. Settled(d, r.db, Day(t))
    BY <1>1, <2>1, SettledThrough
  <2>3. OnlyToday(r.db, Day(t))
    BY <1>1, <2>1 DEF Settled
  <2> QED BY <1>4, <2>1, <2>2, <2>3
<1> QED BY <1>2, <1>5, <1>6

\* The identities in ids are of no review card that today's pool already has.
Fresh(d, ids, day) == \A j \in d.items : j.day = day /\ j.type # "new" => j.id \notin ids

LEMMA ReplenishSettled ==
  ASSUME NEW t \in Nat, Day(t) \in Days, NEW d, Sound(d), NEW e \in ReplenishUnknownDailySlots(d, t)
  PROVE  Settled(d, e, Day(t)) /\ e.pools[Day(t)].open = d.pools[Day(t)].open
<1>1. PICK ws \in GenerateNewWords(d, Day(t), PrefetchBatchSize) :
        e = AppendCounted(d, Day(t), NewCards(ws))
  BY DEF ReplenishUnknownDailySlots
<1>2. NewCards(ws) \in SUBSET Card /\ IsFiniteSet(NewCards(ws))
  BY GeneratedAreWords, NewCardsAreCards
<1>3. \A c \in NewCards(ws) : ~IsDue(d.states[c.word], Day(t))
  BY NewCardsAreNotDue
<1> QED BY <1>1, <1>2, <1>3, DealtSettled

LEMMA ReconcileBufferSettled ==
  ASSUME NEW t \in Nat, Day(t) \in Days, NEW d, Coherent(d, Day(t)),
         NEW m, m = ReconcileUnknownDailyBuffer(d, t)
  PROVE  Settled(d, m.db, Day(t)) /\ m.created = {}
<1> DEFINE trimmed == PendingNew(d, Day(t))
           e == DeletePoolItems(d, trimmed)
<1>1. /\ trimmed \in SUBSET d.items
      /\ \A x \in trimmed : x.type = "new" /\ Pending(x)
  BY DEF PendingNew, ItemsOf
<1>2. m = Maintained(e, {}, trimmed) \/ m = Maintained(d, {}, {})
  BY DEF ReconcileUnknownDailyBuffer
<1> HIDE DEF trimmed
<1>3. /\ Sound(d) /\ e.items = d.items \ trimmed
      /\ \A day \in Days : e.pools[day].open = d.pools[day].open
  BY <1>1, DeleteCoherent DEF Coherent
<1>4. e.states = d.states
  BY <1>3 DEF DeletePoolItems, RemoveItems, Sound, DB
<1> HIDE DEF e
<1>5. AnsweredCards(e.items) = AnsweredCards(d.items)
  BY <1>1, <1>3 DEF AnsweredCards
<1>6. \A j \in d.items : j.type # "new" => j \in e.items
  BY <1>1, <1>3
<1>7. Settled(d, e, Day(t))
  BY <1>3, <1>4, <1>5, <1>6 DEF Settled, SameButDue, OnlyToday
<1>8. Settled(d, d, Day(t))
  BY DEF Settled, SameButDue
<1> QED BY <1>2, <1>7, <1>8 DEF Maintained

LEMMA MaintainBufferSettled ==
  ASSUME NEW t \in Nat, Day(t) \in Days, NEW d, Coherent(d, Day(t)),
         NEW m \in MaintainNewWordBuffer(d, t)
  PROVE  Settled(d, m.db, Day(t)) /\ OnlyToday(m.db, Day(t)) /\ Fresh(d, m.created, Day(t))
<1>1. PICK r \in GetOrCreateDailyPool(d, t) :
        \/ m = ReconcileUnknownDailyBuffer(r.db, t)
        \/ \E f \in ReplenishUnknownDailySlots(r.db, t) : m = Maintained(f, NewIds(r.db, f), {})
        \/ m = Maintained(r.db, {}, {})
  <2> DEFINE maintain(e) ==
               {ReconcileUnknownDailyBuffer(e, t)}
                 \cup {Maintained(f, NewIds(e, f), {}) : f \in ReplenishUnknownDailySlots(e, t)}
             outcomes(r) == IF r.ok THEN maintain(r.db) ELSE {Maintained(r.db, {}, {})}
  <2>1. MaintainNewWordBuffer(d, t) = UNION {outcomes(r) : r \in GetOrCreateDailyPool(d, t)}
    BY DEF MaintainNewWordBuffer
  <2> HIDE DEF outcomes
  <2>2. PICK r \in GetOrCreateDailyPool(d, t) : m \in outcomes(r)
    BY <2>1
  <2> USE DEF outcomes
  <2> QED BY <2>2
<1>2. Coherent(r.db, Day(t)) /\ Settled(d, r.db, Day(t)) /\ OnlyToday(r.db, Day(t))
  BY GetOrCreateCoherent, GetOrCreateSettled
<1>3. \A e : Settled(r.db, e, Day(t)) => Settled(d, e, Day(t)) /\ OnlyToday(e, Day(t))
  <2> SUFFICES ASSUME NEW e, Settled(r.db, e, Day(t)) PROVE Settled(d, e, Day(t)) /\ OnlyToday(e, Day(t))
    OBVIOUS
  <2>1. OnlyToday(e, Day(t))
    BY <1>2 DEF Settled
  <2> QED BY <1>2, <2>1, SettledThrough
<1>4. CASE m = ReconcileUnknownDailyBuffer(r.db, t)
  <2>1. Settled(r.db, m.db, Day(t)) /\ m.created = {}
    BY <1>2, <1>4, ReconcileBufferSettled
  <2> QED BY <1>3, <2>1 DEF Fresh
<1>5. CASE \E f \in ReplenishUnknownDailySlots(r.db, t) : m = Maintained(f, NewIds(r.db, f), {})
  <2>1. PICK f \in ReplenishUnknownDailySlots(r.db, t) : m = Maintained(f, NewIds(r.db, f), {})
    BY <1>5
  <2>2. Settled(r.db, f, Day(t))
    BY <1>2, ReplenishSettled DEF Coherent
  <2>3. Fresh(d, NewIds(r.db, f), Day(t))
    <3>1. \A j \in d.items : j.day = Day(t) /\ j.type # "new" => \E i \in r.db.items : i.id = j.id
      BY <1>2 DEF Settled, SameButDue
    <3> QED BY <3>1 DEF Fresh, NewIds
  <2> QED BY <1>3, <2>1, <2>2, <2>3 DEF Maintained
<1>6. CASE m = Maintained(r.db, {}, {})
  BY <1>2, <1>6 DEF Maintained, Fresh
<1> QED BY <1>1, <1>4, <1>5, <1>6

---------------------------------------------------------------------------
(* Answers and their records *)

NoFuturePools(d, day) == \A y \in Days : y > day => ~d.pools[y].open
NoOldCards(d, day) == d.pools[day].open => OnlyToday(d, day)

(***************************************************************************)
(* What the undo and the due queries rely on, beyond what is planned: the  *)
(* history of today's answers, and that no card outlives its day unseen.   *)
(***************************************************************************)
Recorded(d, day) ==
  /\ History(d.items, d.states, d.answers, day)
  /\ NoFuturePools(d, day) /\ NoOldCards(d, day)

\* The card that an answer completes, and the cards of the pool then.
MarkedAs(d, i, post, e, k) ==
  /\ Sound(e) /\ e.items = (d.items \ {i}) \cup {k}
  /\ e.states = Rewritten(d.states, i.word, post)
  /\ e.answers = d.answers /\ e.pools = d.pools
  /\ Stamped(i, k.done, k) /\ k.done # 0 /\ \A j \in d.items : j.day = i.day => j.done < k.done

LEMMA MarkedCards ==
  ASSUME NEW d, Sound(d), NEW i \in d.items, Pending(i), NEW post \in StateRow, Schedulable(post)
  PROVE  \E k \in Item : MarkedAs(d, i, post, Marked(d, i, post), k)
<1> DEFINE w == i.word
           u == UpsertState(d, w, post)
           n == LastStamp(u, i.day) + 1
           k == [i EXCEPT !.done = n]
           e == Marked(d, i, post)
<1>1. /\ i \in Item /\ w \in Words /\ i.day \in Days
      /\ \A j \in d.items : j.done \in Nat
  BY DEF Sound, DB, Item
<1>2. /\ Sound(u) /\ u.items = d.items /\ u.states = Rewritten(d.states, w, post)
      /\ u.answers = d.answers /\ u.pools = d.pools
  BY <1>1, UpsertStateSound DEF UpsertState, Sound, DB, Rewritten
<1>3. n \in Nat /\ n # 0 /\ \A j \in d.items : j.day = i.day => j.done < n
  <2>1. LastStamp(u, i.day) \in Nat /\ \A j \in d.items : j.day = i.day => j.done <= LastStamp(u, i.day)
    BY <1>2, LastStampIsUpper
  <2> HIDE DEF u
  <2> QED BY <1>1, <2>1
<1>4. /\ Sound(e) /\ e.items = (d.items \ {i}) \cup {k} /\ e.states = u.states
      /\ e.answers = d.answers /\ e.pools = d.pools
  <2>1. e = MarkPoolItemCompleted(u, i)
    BY DEF Marked
  <2>2. Sound(e)
    BY <1>2, <2>1, MarkPoolItemCompletedSound
  <2> HIDE DEF u, e
  <2> QED BY <1>2, <2>1, <2>2 DEF MarkPoolItemCompleted, Sound, DB, u
<1> HIDE DEF u, n, e
<1>5. k \in Item /\ k.done = n /\ Stamped(i, n, k)
  BY <1>1, <1>3 DEF Stamped, Item
<1> HIDE DEF k
<1>6. MarkedAs(d, i, post, e, k)
  BY <1>2, <1>3, <1>4, <1>5 DEF MarkedAs
<1> QED BY <1>5, <1>6 DEF e

LEMMA FollowUpsSettled ==
  ASSUME FollowUpFaults = FALSE,
         NEW t \in Nat, Day(t) \in Days, NEW e, Sound(e), NEW w \in Words, NEW f \in FollowUps(e, w, t)
  PROVE  /\ Settled(e, f.db, Day(t)) /\ f.db.answers = e.answers /\ f.db.pools = e.pools
         /\ Fresh(e, f.created, Day(t))
         /\ e.pools[Day(t)].open /\ e.states[w].due # Null /\ Day(e.states[w].due) = Day(t) =>
              \E g \in f.db.items : Waits(g, w, Day(t))
<1> DEFINE appended == AppendPoolItems(e, Day(t), ReviewCards(e, {w}, "short_term"))
<1>1. PICK G : FollowedUp(e, w, t, f, G)
  BY FollowUpsPlanned
<1>2. /\ f.db.items = e.items \cup G /\ f.db.states = e.states /\ f.db.answers = e.answers
      /\ f.created = {g.id : g \in G}
      /\ \A g \in G :
           /\ Pending(g) /\ g.day = Day(t) /\ g.word = w /\ g.type = "short_term"
           /\ \A j \in e.items : j.id # g.id
      /\ e.states[w].due # Null /\ Day(e.states[w].due) = Day(t) /\ e.pools[Day(t)].open => G # {}
  BY <1>1 DEF FollowedUp
<1>3. f.db.pools = e.pools
  <2>1. f.db = appended \/ f.db = e
    BY DEF FollowUps, Maintained
  <2>2. appended.pools = e.pools
    BY DEF AppendPoolItems, Sound, DB
  <2> HIDE DEF appended
  <2> QED BY <2>1, <2>2
<1>4. \A g \in G : Waits(g, w, Day(t))
  BY <1>2 DEF Waits, Scheduled
<1>5. AnsweredCards(f.db.items) = AnsweredCards(e.items)
  BY <1>2 DEF AnsweredCards
<1>6. OnlyToday(e, Day(t)) => OnlyToday(f.db, Day(t))
  BY <1>2 DEF OnlyToday
<1>7. \A j \in f.db.items : j.day = Day(t) =>
        \/ \E c \in e.items : c.day = Day(t) /\ c.word = j.word
        \/ \E l \in f.db.items : Waits(l, j.word, Day(t))
  BY <1>2, <1>4
<1>8. Settled(e, f.db, Day(t))
  BY <1>2, <1>3, <1>5, <1>6, <1>7 DEF Settled, SameButDue
<1>9. Fresh(e, f.created, Day(t))
  BY <1>2 DEF Fresh
<1> QED BY <1>2, <1>3, <1>4, <1>8, <1>9

(***************************************************************************)
(* A card i is answered, its follow-up f is dealt, and the request goes on *)
(* to e; the answer a names the follow-up and cards (ids) that are fresh.  *)
(***************************************************************************)
AnswersWith(t, d, i, post, f, e, a, ids) ==
  /\ i \in d.items /\ Pending(i) /\ post \in StateRow /\ Schedulable(post)
  /\ post.due # Null => Day(post.due) >= Day(t)
  /\ f \in FollowUps(Marked(d, i, post), i.word, t)
  /\ Settled(f.db, e, Day(t))
  /\ a.item = i.id /\ a.prev = d.states[i.word] /\ a.post = post
  /\ Fresh(f.db, ids, Day(t)) /\ a.created = f.created \cup ids

AnswerLeaves(t, d, f, e, a) ==
  /\ History(e.items, e.states, d.answers \cup {a}, Day(t))
  /\ NoFuturePools(e, Day(t)) /\ (OnlyToday(d, Day(t)) => OnlyToday(e, Day(t)))
  /\ f.db.pools = d.pools

LEMMA AnswerRecorded ==
  ASSUME FollowUpFaults = FALSE,
         NEW t \in Nat, Day(t) \in Days, NEW d, Coherent(d, Day(t)),
         Core(d.items, d.states, d.answers, Day(t)), Recorded(d, Day(t)),
         NEW i, NEW post, NEW f, NEW e, NEW a, NEW ids, AnswersWith(t, d, i, post, f, e, a, ids)
  PROVE  AnswerLeaves(t, d, f, e, a)
<1>0. /\ i \in d.items /\ Pending(i) /\ post \in StateRow /\ Schedulable(post)
      /\ post.due # Null => Day(post.due) >= Day(t)
      /\ f \in FollowUps(Marked(d, i, post), i.word, t)
      /\ Settled(f.db, e, Day(t))
      /\ a.item = i.id /\ a.prev = d.states[i.word] /\ a.post = post
      /\ Fresh(f.db, ids, Day(t)) /\ a.created = f.created \cup ids
  BY DEF AnswersWith
<1> USE <1>0
<1> DEFINE day == Day(t)
           X == d.items
           S == d.states
           Y == e.items
           w == i.word
           g == Marked(d, i, post)
<1>1. /\ Sound(d) /\ X \in SUBSET Item /\ i \in Item /\ w \in Words /\ day \in Nat
      /\ S \in [Words -> StateRow] /\ \A j \in X : j.done \in Nat
  BY DayIsNat DEF Coherent, Sound, DB, Item
<1>2. PICK k \in Item : MarkedAs(d, i, post, g, k)
  BY <1>1, MarkedCards
<1>3. /\ Sound(g) /\ g.items = (X \ {i}) \cup {k} /\ g.states = Rewritten(S, w, post)
      /\ g.pools = d.pools
      /\ k.id = i.id /\ k.day = i.day /\ k.word = w /\ k.type = i.type /\ ~Pending(k)
      /\ k.done \in Nat /\ \A j \in X : j.day = i.day => j.done < k.done
  BY <1>2 DEF MarkedAs, Stamped, Pending, Item
<1>4. g.states[w] = post
  BY <1>1, <1>3 DEF Rewritten
<1>4a. f \in FollowUps(g, w, t)
  OBVIOUS
<1> HIDE DEF g
<1>5. /\ Settled(g, f.db, day) /\ f.db.pools = g.pools /\ Fresh(g, f.created, day)
      /\ g.pools[day].open /\ post.due # Null /\ Day(post.due) = day =>
           \E l \in f.db.items : Waits(l, w, day)
  <2>1. Sound(g) /\ w \in Words
    BY <1>1, <1>3
  <2> HIDE DEF day, w
  <2>2. /\ Settled(g, f.db, Day(t)) /\ f.db.answers = g.answers /\ f.db.pools = g.pools
        /\ Fresh(g, f.created, Day(t))
        /\ g.pools[Day(t)].open /\ g.states[w].due # Null /\ Day(g.states[w].due) = Day(t) =>
             \E l \in f.db.items : Waits(l, w, Day(t))
    BY <1>4a, <2>1, FollowUpsSettled, Zenon
  <2> QED BY <1>4, <2>2 DEF day
<1>6. Settled(g, e, day)
  BY <1>5, SettledThrough
<1>8. NoFuturePools(e, day)
  <2>1. \A y \in Days : y > day => y # day
    BY <1>1 DEF Days
  <2>2. \A y \in Days : y # day => e.pools[y].open = d.pools[y].open
    BY <1>3, <1>6 DEF Settled
  <2> QED BY <2>1, <2>2 DEF Recorded, NoFuturePools
<1>9. OnlyToday(d, day) => OnlyToday(e, day)
  <2>1. OnlyToday(d, day) => OnlyToday(g, day)
    BY <1>3 DEF OnlyToday
  <2> QED BY <1>6, <2>1 DEF Settled
<1>10. i.day # day => \A j \in X : j.day # day
  <2> SUFFICES ASSUME i.day # day PROVE \A j \in X : j.day # day
    OBVIOUS
  <2>1. ~d.pools[day].open
    BY DEF Recorded, NoOldCards, OnlyToday
  <2> QED BY <2>1 DEF Coherent, ClosedPoolsAreEmpty, PoolItems
<1>11. i.day = day => d.pools[day].open
  BY DEF Coherent, ClosedPoolsAreEmpty, PoolItems
<1>12. i.day = day /\ IsDue(post, day) => \E j \in Y : Waits(j, w, day)
  <2> SUFFICES ASSUME i.day = day, IsDue(post, day) PROVE \E j \in Y : Waits(j, w, day)
    OBVIOUS
  <2>1. post.due # Null /\ Day(post.due) = day
    <3>1. post.due # Null /\ post.due \in Nat /\ Day(post.due) <= day
      BY DEF IsDue, StateRow
    <3>2. Day(post.due) >= day /\ Day(post.due) \in Nat
      BY <3>1, DayIsNat
    <3> HIDE DEF day
    <3> QED BY <1>1, <3>1, <3>2
  <2>2. PICK l \in f.db.items : Waits(l, w, day)
    BY <1>3, <1>5, <1>11, <2>1
  <2>3. PICK j \in Y : SameButDue(l, j)
    BY <2>2 DEF Settled, Waits, Scheduled
  <2>4. Waits(j, w, day)
    BY <2>2, <2>3 DEF Waits, SameButDue, Scheduled, Pending
  <2> QED BY <2>4
<1>13. AnsweredCards(Y) = AnsweredCards(X) \cup {k}
  <2>1. AnsweredCards(Y) = AnsweredCards(g.items)
    BY <1>6 DEF Settled
  <2> QED BY <1>3, <2>1 DEF AnsweredCards
<1>14. \A j \in X : j # i /\ j.day = day /\ j.type # "new" => \E l \in Y : SameButDue(j, l)
  BY <1>3, <1>6 DEF Settled
<1>15. \A j \in Y : j.day = day =>
         \/ \E c \in X : c.day = day /\ c.word = j.word
         \/ ~IsDue(Rewritten(S, w, a.post)[j.word], day)
         \/ \E l \in Y : Waits(l, j.word, day)
  <2>1. \A c \in g.items : \E b \in X : b.day = c.day /\ b.word = c.word
    BY <1>3
  <2>2. g.states = Rewritten(S, w, a.post)
    BY <1>3
  <2> QED BY <1>6, <2>1, <2>2 DEF Settled
<1>16. \A j \in X : j.day = day /\ j.type # "new" => j.id \notin a.created
  <2> SUFFICES ASSUME NEW j \in X, j.day = day, j.type # "new" PROVE j.id \notin a.created
    OBVIOUS
  <2>1. PICK c \in g.items : c.id = j.id /\ c.day = day /\ c.type # "new"
    BY <1>3
  <2>2. PICK l \in f.db.items : SameButDue(c, l)
    BY <1>5, <2>1 DEF Settled
  <2>3. c.id \notin f.created /\ l.id \notin ids
    BY <1>5, <2>1, <2>2 DEF Fresh, SameButDue
  <2> QED BY <2>1, <2>2, <2>3 DEF SameButDue
<1>17. LeavesAnswered(X, S, day, i, k, a, Y)
  BY <1>3, <1>10, <1>12, <1>13, <1>14, <1>15, <1>16 DEF LeavesAnswered
<1>18. History(Y, Rewritten(S, w, a.post), d.answers \cup {a}, day)
  BY <1>17, AnsweredHistory DEF Recorded
<1>19. e.states = Rewritten(S, w, a.post)
  BY <1>3, <1>6 DEF Settled
<1> QED BY <1>3, <1>5, <1>8, <1>9, <1>18, <1>19 DEF AnswerLeaves

---------------------------------------------------------------------------
(* Undos and the records *)

LEMMA RowlessIsNotDue ==
  ASSUME NEW t \in Nat, NEW d, Sound(d), NEW w \in Words, d.states[w].status = "none"
  PROVE  ~IsDue(d.states[w], Day(t))
<1>1. w \notin DueShortTerm(d, t) \cup DueReview(d, t)
  BY DEF DueShortTerm, DueReview, IsShortTermDue, IsReviewDue
<1> QED BY <1>1, DueIsQueried

LEMMA UndoRecorded ==
  ASSUME NEW t \in Nat, Day(t) \in Days, NEW d, Coherent(d, Day(t)),
         Core(d.items, d.states, d.answers, Day(t)), Room(d, Day(t)), Recorded(d, Day(t)),
         NEW a \in d.answers, NEW i \in d.items, CanUndo(d, a, i, t)
  PROVE  Recorded(UndoWrites(d, a, i), Day(t))
<1> DEFINE day == Day(t)
           X == d.items
           S == d.states
           w == i.word
           k == [i EXCEPT !.done = 0]
           e == UndoWrites(d, a, i)
<1>1. PICK f \in [a.deleted -> Item] : UndoneAs(d, a, i, e, f, k)
  BY UndoWritten
<1> HIDE DEF k, e
<1> DEFINE R == {f[x] : x \in a.deleted}
<1>2. /\ Sound(d) /\ i \in Item /\ w \in Words /\ S \in [Words -> StateRow] /\ day \in Nat
      /\ \A j \in X, l \in X : j.id = l.id => j = l
  BY DayIsNat DEF Coherent, Sound, DB, Item, UniqueIds
<1>3. /\ a.item = i.id /\ ~Pending(i) /\ i.day = day /\ i.done = LastStamp(d, day)
      /\ \A c \in a.created : \E j \in X : j.id = c /\ Pending(j)
  BY DEF CanUndo
<1>4. \A j \in X : j.day = day => j.done <= i.done
  BY <1>2, <1>3, LastStampIsUpper
<1>5. /\ k.id = i.id /\ k.day = day /\ k.word = w /\ k.type = i.type /\ Pending(k)
  BY <1>1, <1>3 DEF UndoneAs, Stamped, Pending
<1>6. /\ e.items = LeftBy(d, a, i, k) \cup R
      /\ e.states = Rewritten(S, w, a.prev) /\ e.answers = d.answers \ {a}
      /\ \A y \in Days : e.pools[y].open = d.pools[y].open
      /\ \A x \in a.deleted : Restored(d, a, x, f[x]) /\ x.type = "new" /\ x.day = day
  BY <1>1, <1>3 DEF UndoneAs
<1>7. /\ \A j \in X : j.id \in a.created => Pending(j)
  BY <1>2, <1>3
<1>8. \A j \in R : /\ Pending(j) /\ j.day = day
                   /\ ~IsDue(Rewritten(S, w, a.prev)[j.word], day)
  <2> SUFFICES ASSUME NEW x \in a.deleted
               PROVE  /\ Pending(f[x]) /\ f[x].day = day
                      /\ ~IsDue(Rewritten(S, w, a.prev)[f[x].word], day)
    OBVIOUS
  <2>1. TrimmedAtLimit(X, S, a, i) /\ TrimmedAreNew(X, S, a)
    BY <1>3 DEF Core, TrimmedAway
  <2>2. x \in Item /\ Pending(x) /\ S[x.word].status = "none" /\ x.word # w
    <3>1. a.deleted \in SUBSET Item
      BY <1>2 DEF Sound, SoundAnswer, DB, Answer
    <3>2. i.type = "new"
      BY <2>1 DEF TrimmedAtLimit
    <3> QED BY <2>1, <3>1, <3>2 DEF TrimmedAreNew
  <2>3. f[x].day = day /\ f[x].word = x.word /\ f[x].done = x.done
    BY <1>6 DEF Restored
  <2>4. x.word \in Words
    BY <2>2 DEF Item
  <2>5. Rewritten(S, w, a.prev)[x.word] = S[x.word]
    BY <1>2, <2>2, <2>4 DEF Rewritten
  <2>6. ~IsDue(S[x.word], day)
    BY <1>2, <2>2, <2>4, RowlessIsNotDue
  <2> QED BY <2>2, <2>3, <2>5, <2>6 DEF Pending
<1> HIDE DEF R
<1>9. \A j : j \in e.items <=> \/ j \in X /\ j.id \notin a.created /\ j # i
                               \/ j = k
                               \/ j \in R
  BY <1>6 DEF LeftBy
<1> HIDE DEF X, S, w
<1>10. AnsweredCards(e.items) = AnsweredCards(X) \ {i}
  <2>1. \A j : j \in AnsweredCards(e.items) <=> j \in e.items /\ ~Pending(j)
    BY DEF AnsweredCards
  <2>2. \A j : j \in AnsweredCards(X) <=> j \in X /\ ~Pending(j)
    BY DEF AnsweredCards
  <2> QED BY <1>5, <1>7, <1>8, <1>9, <2>1, <2>2
<1>11. \A j \in e.items : j.day = day =>
         \/ \E c \in X : c.day = day /\ c.word = j.word
         \/ ~IsDue(Rewritten(S, w, a.prev)[j.word], day)
  <2>1. i \in X /\ i.day = day /\ i.word = w
    BY <1>3 DEF X, w
  <2> QED BY <1>5, <1>8, <1>9, <2>1
<1>12. LeavesUndone(X, S, d.answers, day, i, k, a, e.items)
  BY <1>3, <1>4, <1>5, <1>9, <1>10, <1>11 DEF LeavesUndone, X, w
<1>13. History(e.items, e.states, e.answers, day)
  <2>1. Core(X, S, d.answers, day) /\ History(X, S, d.answers, day)
    BY DEF Recorded, X, S
  <2> HIDE DEF day
  <2>2. History(e.items, Rewritten(S, i.word, a.prev), d.answers \ {a}, day)
    BY <1>12, <2>1, UndoneHistory, Zenon
  <2> QED BY <1>6, <2>2 DEF w
<1>14. NoFuturePools(e, day)
  BY <1>6 DEF Recorded, NoFuturePools
<1>15. NoOldCards(e, day)
  <2>1. OnlyToday(d, day) => OnlyToday(e, day)
    BY <1>5, <1>8, <1>9 DEF OnlyToday, X
  <2> QED BY <1>6, <2>1 DEF Recorded, NoOldCards
<1> QED BY <1>13, <1>14, <1>15 DEF Recorded, e

---------------------------------------------------------------------------
(* Every step of the planned day keeps the records *)

\* No answer makes a word due in the past.
LEMMA OutcomesAreLater ==
  ASSUME NEW row \in StateRow, NEW hard \in BOOLEAN, NEW t \in Nat,
         NEW post \in ReviewOutcomes(row, hard, t), post.due # Null
  PROVE  Day(post.due) >= Day(t)
<1>1. \A n : ReviewRow(n).due = n /\ \A stage : LearningRow(stage, n).due = n
  BY DEF ReviewRow, LearningRow
<1>2. \A n \in {FiveMinutes, EightHours, OneDay, TwoDays} \cup ReviewGaps : t + n \in Nat /\ t + n >= t
  <2>1. {FiveMinutes, EightHours, OneDay, TwoDays} \subseteq Nat /\ ReviewGaps \subseteq Nat
    BY DurationsAssumption
  <2>2. \A n \in Nat : t + n \in Nat /\ t + n >= t
    OBVIOUS
  <2> QED BY <2>1, <2>2
<1>3. PICK outcome \in ApplyReviewOutcome(row, hard, t) :
        \E r \in ApplyMemoryCauseIntervalBias(outcome, t) :
          post \in ApplyWordConstructionFeedback(r, t)
  BY DEF ReviewOutcomes
<1>4. PICK r \in ApplyMemoryCauseIntervalBias(outcome, t) : post \in ApplyWordConstructionFeedback(r, t)
  BY <1>3
<1>5. \A gap \in ReviewGaps : ReviewRow(t + gap).due \in Nat /\ ReviewRow(t + gap).due >= t
  BY <1>1, <1>2
<1>6. outcome.due \in Nat /\ outcome.due >= t
  <2>1. CASE row.stage = 0
    BY <1>5, <2>1 DEF ApplyReviewOutcome
  <2>2. CASE row.stage \in 1..3
    <3>1. row.stage = 1 \/ row.stage = 2 \/ row.stage = 3
      BY <2>2
    <3>2. outcome = NextConsolidationStep(row.stage, hard, t)
      BY <2>2 DEF ApplyReviewOutcome
    <3>3. \E n \in {FiveMinutes, EightHours, OneDay, TwoDays} : outcome.due = t + n
      BY <1>1, <3>1, <3>2 DEF NextConsolidationStep
    <3> QED BY <1>2, <3>3
  <2>3. row.stage \in 0..3
    BY DEF StateRow
  <2> QED BY <2>1, <2>2, <2>3
<1>7. r.due \in Nat /\ r.due >= t
  BY <1>4, <1>5, <1>6 DEF ApplyMemoryCauseIntervalBias
<1>8. post.due \in Nat /\ post.due >= t
  BY <1>4, <1>5, <1>7 DEF ApplyWordConstructionFeedback
<1>9. Day(t) <= Day(post.due) /\ Day(t) \in Nat /\ Day(post.due) \in Nat
  BY <1>8, DayIsMonotonic, DayIsNat
<1> QED BY <1>9

LEMMA FirstExposureIsLater ==
  ASSUME NEW t \in Nat, NEW known \in BOOLEAN, FirstPost(known, t).due # Null
  PROVE  Day(FirstPost(known, t).due) >= Day(t)
<1>1. FirstPost(known, t).due = t + TenMinutes
  BY DEF FirstPost, ApplyFirstExposureKnown, ApplyFirstExposureUnknown, KnownRow, LearningRow
<1>2. t + TenMinutes \in Nat /\ t <= t + TenMinutes
  BY DurationsAssumption
<1>3. Day(t) <= Day(t + TenMinutes) /\ Day(t) \in Nat /\ Day(t + TenMinutes) \in Nat
  BY <1>2, DayIsMonotonic, DayIsNat
<1> QED BY <1>1, <1>3

LEMMA FollowedCoherent ==
  ASSUME FollowUpFaults = FALSE,
         NEW t \in Nat, Day(t) \in Days, NEW d, Coherent(d, Day(t)),
         NEW i \in d.items, Pending(i), NEW post \in StateRow, Schedulable(post),
         NEW f \in FollowUps(Marked(d, i, post), i.word, t)
  PROVE  /\ Coherent(f.db, Day(t)) /\ f.db.answers = d.answers
         /\ (OnlyToday(d, Day(t)) => OnlyToday(f.db, Day(t)))
<1> DEFINE e == Marked(d, i, post)
<1>1. Coherent(e, Day(t)) /\ f \in FollowUps(e, i.word, t) /\ i.word \in Words
  BY AnsweredCoherent DEF Marked, Coherent, Sound, DB, Item
<1>2. Sound(d)
  BY DEF Coherent
<1>3. PICK k \in Item : MarkedAs(d, i, post, e, k)
  BY <1>2, MarkedCards
<1> HIDE DEF e
<1>4. e.answers = d.answers /\ (OnlyToday(d, Day(t)) => OnlyToday(e, Day(t)))
  BY <1>3 DEF MarkedAs, Stamped, Pending, OnlyToday
<1>5. Sound(e)
  BY <1>1 DEF Coherent
<1>6. Settled(e, f.db, Day(t)) /\ f.db.answers = e.answers
  BY <1>1, <1>5, FollowUpsSettled
<1>7. Coherent(f.db, Day(t))
  BY <1>1, FollowUpsCoherent DEF CoherentMaintained
<1> QED BY <1>4, <1>6, <1>7 DEF Settled

\* The event replaces none, and a card is of today if today's pool is open.
LEMMA EventRecorded ==
  ASSUME NEW d, Sound(d), NEW day, NEW a, \A b \in d.answers : b.item # a.item,
         History(d.items, d.states, d.answers \cup {a}, day),
         NoFuturePools(d, day), NoOldCards(d, day)
  PROVE  Recorded(RecordAnswer(d, a), day)
<1> DEFINE e == RecordAnswer(d, a)
<1>1. /\ e.items = d.items /\ e.states = d.states /\ e.pools = d.pools
      /\ e.answers = {b \in d.answers : b.item # a.item} \cup {a}
  BY DEF RecordAnswer, Sound, DB
<1>2. {b \in d.answers : b.item # a.item} = d.answers
  OBVIOUS
<1> HIDE DEF e
<1>3. Recorded(e, day)
  BY <1>1, <1>2 DEF Recorded, NoFuturePools, NoOldCards, OnlyToday
<1> QED BY <1>3 DEF e

RecordedInv == PlannedInv /\ Recorded(db, Day(now))

LEMMA CommitRecorded ==
  ASSUME PlannedInv', NEW d, Recorded(d, Day(now)), Commit(d)
  PROVE  RecordedInv'
<1>1. now' = now /\ db' = d
  BY DEF Commit
<1>2. Recorded(db', Day(now'))
  BY <1>1
<1> QED BY <1>2 DEF RecordedInv, Recorded

LEMMA FirstExposureRecorded ==
  ASSUME PlannedAssumption, RecordedInv,
         NEW i \in db.items, NEW known \in BOOLEAN, SubmitFirstExposure(i, known)
  PROVE  RecordedInv'
<1> DEFINE post == FirstPost(known, now)
<1>1. PICK f \in FollowUps(Marked(db, i, post), i.word, now) :
        \E m \in MaintainNewWordBuffer(f.db, now) : Commit(RecordAnswer(m.db, FirstAnswer(db, i, post, f, m)))
  BY DEF SubmitFirstExposure, Marked, FirstPost, FirstAnswer
<1>2. PICK m \in MaintainNewWordBuffer(f.db, now) : Commit(RecordAnswer(m.db, FirstAnswer(db, i, post, f, m)))
  BY <1>1
<1> DEFINE a == FirstAnswer(db, i, post, f, m)
<1>3. Pending(i) /\ i.type = "new" /\ PlannedInv /\ Recorded(db, Day(now)) /\ FollowUpFaults = FALSE
  BY DEF SubmitFirstExposure, RecordedInv, PlannedAssumption
<1>4. /\ now \in Nat /\ Day(now) \in Days /\ Coherent(db, Day(now))
      /\ Core(db.items, db.states, db.answers, Day(now))
  BY <1>3, PlannedFacts
<1>5. m.db.answers = db.answers
  BY <1>3, FirstExposureWritten
<1>6. post \in StateRow /\ Schedulable(post) /\ (post.due # Null => Day(post.due) >= Day(now))
  BY <1>4, FirstExposureRows, FirstExposureIsLater DEF FirstPost
<1>7. a.item = i.id /\ a.prev = db.states[i.word] /\ a.post = post /\ a.created = f.created \cup m.created
  BY DEF FirstAnswer
<1>8. f \in FollowUps(Marked(db, i, post), i.word, now)
  OBVIOUS
<1> HIDE DEF a, post
<1>9. Coherent(f.db, Day(now))
  BY <1>3, <1>4, <1>6, <1>8, FollowedCoherent
<1>10. /\ Settled(f.db, m.db, Day(now)) /\ OnlyToday(m.db, Day(now)) /\ Fresh(f.db, m.created, Day(now))
       /\ Sound(m.db)
  BY <1>4, <1>9, MaintainBufferSettled, MaintainBufferCoherent DEF CoherentMaintained, Coherent
<1>11. /\ History(m.db.items, m.db.states, db.answers \cup {a}, Day(now))
       /\ NoFuturePools(m.db, Day(now))
  <2>1. AnswersWith(now, db, i, post, f, m.db, a, m.created)
    BY <1>3, <1>6, <1>7, <1>8, <1>10 DEF AnswersWith
  <2>2. AnswerLeaves(now, db, f, m.db, a)
    BY <1>3, <1>4, <2>1, AnswerRecorded
  <2> QED BY <2>2 DEF AnswerLeaves
<1>12. \A b \in m.db.answers : b.item # a.item
  BY <1>3, <1>4, <1>5, <1>7 DEF Core, AnswersMatch
<1>13. Recorded(RecordAnswer(m.db, a), Day(now))
  BY <1>5, <1>10, <1>11, <1>12, EventRecorded DEF NoOldCards
<1>14. PlannedInv'
  BY <1>3, FirstExposurePlanned
<1> QED BY <1>2, <1>13, <1>14, CommitRecorded DEF a

LEMMA SubmitReviewRecorded ==
  ASSUME PlannedAssumption, RecordedInv,
         NEW i \in db.items, NEW hard \in BOOLEAN, SubmitReview(i, hard)
  PROVE  RecordedInv'
<1> DEFINE prev == db.states[i.word]
           answer(post, f) == [item |-> i.id, prev |-> prev, post |-> post,
                               created |-> f.created, deleted |-> {}]
<1>1. PlannedInv /\ Recorded(db, Day(now)) /\ FollowUpFaults = FALSE
  BY DEF RecordedInv, PlannedAssumption
<1>2. /\ now \in Nat /\ Day(now) \in Days /\ Coherent(db, Day(now))
      /\ Core(db.items, db.states, db.answers, Day(now))
  BY <1>1, PlannedFacts
<1>3. Pending(i) /\ HasRow(db, i.word) /\ prev \in StateRow
  BY <1>2 DEF SubmitReview, Coherent, Sound, DB, Item
<1>4. ~i.bonus
  BY <1>2, <1>3 DEF Core, NewUntilAnswered, HasRow, ReviewsAreLearnt
<1>5. PICK post \in ReviewOutcomes(prev, hard, now) :
        \E f \in FollowUps(Marked(db, i, post), i.word, now) : Commit(RecordAnswer(f.db, answer(post, f)))
  BY <1>4 DEF SubmitReview, Marked
<1>6. PICK f \in FollowUps(Marked(db, i, post), i.word, now) : Commit(RecordAnswer(f.db, answer(post, f)))
  BY <1>5
<1> DEFINE a == answer(post, f)
<1>7. post \in StateRow /\ Schedulable(post) /\ (post.due # Null => Day(post.due) >= Day(now))
  <2> HIDE DEF prev
  <2> QED BY <1>2, <1>3, ReviewRows, OutcomesAreLater
<1>8. a.item = i.id /\ a.prev = db.states[i.word] /\ a.post = post /\ a.created = f.created \cup {}
  OBVIOUS
<1> HIDE DEF answer, prev
<1>9. /\ Coherent(f.db, Day(now)) /\ f.db.answers = db.answers
  BY <1>1, <1>2, <1>3, <1>7, FollowedCoherent
<1>10. /\ Settled(f.db, f.db, Day(now)) /\ Fresh(f.db, {}, Day(now))
  BY DEF Settled, SameButDue, Fresh
<1> HIDE DEF a
<1>11. /\ History(f.db.items, f.db.states, db.answers \cup {a}, Day(now))
       /\ NoFuturePools(f.db, Day(now)) /\ (OnlyToday(db, Day(now)) => OnlyToday(f.db, Day(now)))
       /\ f.db.pools = db.pools
  <2>1. AnswersWith(now, db, i, post, f, f.db, a, {})
    BY <1>3, <1>7, <1>8, <1>10 DEF AnswersWith
  <2>2. AnswerLeaves(now, db, f, f.db, a)
    BY <1>1, <1>2, <2>1, AnswerRecorded
  <2> QED BY <2>2 DEF AnswerLeaves
<1>12. \A b \in f.db.answers : b.item # a.item
  BY <1>2, <1>3, <1>8, <1>9 DEF Core, AnswersMatch
<1>13. NoOldCards(f.db, Day(now)) /\ Sound(f.db)
  BY <1>1, <1>9, <1>11 DEF Recorded, NoOldCards, Coherent
<1>14. Recorded(RecordAnswer(f.db, a), Day(now))
  BY <1>9, <1>11, <1>12, <1>13, EventRecorded
<1>15. PlannedInv'
  BY <1>1, SubmitReviewPlanned
<1> QED BY <1>6, <1>14, <1>15, CommitRecorded DEF a

\* A request that goes on and ends with none but today's cards pending.
LEMMA GoneRecorded ==
  ASSUME NEW day \in Nat, NEW d, NEW e, Recorded(d, day), Settled(d, e, day),
         e.answers = d.answers, OnlyToday(e, day)
  PROVE  Recorded(e, day)
<1>1. History(e.items, e.states, e.answers, day)
  BY SettledHistory DEF Recorded
<1>2. NoFuturePools(e, day)
  <2>1. \A y \in Days : y > day => y # day
    BY DEF Days
  <2> QED BY <2>1 DEF Recorded, Settled, NoFuturePools
<1> QED BY <1>1, <1>2 DEF Recorded, NoOldCards

LEMMA RecordedFacts ==
  ASSUME RecordedInv
  PROVE  /\ PlannedInv /\ Recorded(db, Day(now)) /\ Day(now) \in Nat
         /\ now \in Nat /\ Day(now) \in Days /\ Coherent(db, Day(now)) /\ Sound(db)
         /\ Core(db.items, db.states, db.answers, Day(now)) /\ Room(db, Day(now))
         /\ Known(db, db.answers, Day(now))
BY PlannedFacts, DayIsNat DEF RecordedInv, Coherent

LEMMA UndoLastAnswerRecorded ==
  ASSUME RecordedInv, NEW a \in db.answers, NEW i \in db.items, UndoLastAnswer(a, i)
  PROVE  RecordedInv'
<1>1. CanUndo(db, a, i, now) /\ Commit(UndoWrites(db, a, i))
  BY DEF UndoLastAnswer
<1>2. Recorded(UndoWrites(db, a, i), Day(now))
  BY <1>1, RecordedFacts, UndoRecorded
<1>3. PlannedInv'
  BY RecordedFacts, UndoLastAnswerPlanned
<1> QED BY <1>1, <1>2, <1>3, CommitRecorded

LEMMA OpenDailyPoolRecorded == RecordedInv /\ OpenDailyPool => RecordedInv'
<1> SUFFICES ASSUME RecordedInv, OpenDailyPool PROVE RecordedInv'
  OBVIOUS
<1>1. PICK r \in GetOrCreateDailyPool(db, now) : Commit(r.db)
  BY DEF OpenDailyPool
<1>2. Goes(db, r.db, db.answers, Day(now))
  BY RecordedFacts, GetOrCreatePlanned
<1>3. Settled(db, r.db, Day(now)) /\ OnlyToday(r.db, Day(now))
  BY RecordedFacts, GetOrCreateSettled
<1>4. Recorded(r.db, Day(now))
  BY <1>2, <1>3, RecordedFacts, GoneRecorded DEF Goes
<1>5. PlannedInv'
  BY RecordedFacts, OpenDailyPoolPlanned
<1> QED BY <1>1, <1>4, <1>5, CommitRecorded

LEMMA NextCardReplenishesRecorded == RecordedInv /\ NextCardReplenishes => RecordedInv'
<1> SUFFICES ASSUME RecordedInv, NextCardReplenishes PROVE RecordedInv'
  OBVIOUS
<1>1. PICK r \in GetOrCreateDailyPool(db, now) :
        /\ r.ok
        /\ \E e \in ReplenishUnknownDailySlots(r.db, now) :
             \E s \in GetOrCreateDailyPool(e, now) : Commit(s.db)
  BY DEF NextCardReplenishes
<1>2. PICK e \in ReplenishUnknownDailySlots(r.db, now) :
        \E s \in GetOrCreateDailyPool(e, now) : Commit(s.db)
  BY <1>1
<1>3. PICK s \in GetOrCreateDailyPool(e, now) : Commit(s.db)
  BY <1>2
<1>4. Coherent(r.db, Day(now)) /\ Sound(r.db) /\ r.db.pools[Day(now)].open
  BY <1>1, RecordedFacts, GetOrCreateCoherent DEF Coherent
<1>5. Coherent(e, Day(now))
  BY <1>4, RecordedFacts, ReplenishCoherent
<1>6. Goes(db, r.db, db.answers, Day(now))
  BY RecordedFacts, GetOrCreatePlanned
<1>7. Core(r.db.items, r.db.states, db.answers, Day(now)) /\ Known(r.db, db.answers, Day(now))
  BY <1>6 DEF Goes
<1>8. Goes(r.db, e, db.answers, Day(now)) /\ Room(e, Day(now))
  BY <1>4, <1>7, RecordedFacts, ReplenishPlanned
<1>9. Core(e.items, e.states, db.answers, Day(now)) /\ Known(e, db.answers, Day(now))
  BY <1>8 DEF Goes
<1>10. Goes(e, s.db, db.answers, Day(now))
  BY <1>5, <1>8, <1>9, RecordedFacts, GetOrCreatePlanned
<1>11. s.db.answers = db.answers
  BY <1>6, <1>8, <1>10 DEF Goes
<1>12. Settled(db, r.db, Day(now))
  BY RecordedFacts, GetOrCreateSettled
<1>13. Settled(r.db, e, Day(now))
  BY <1>4, RecordedFacts, ReplenishSettled
<1>14. Settled(e, s.db, Day(now)) /\ OnlyToday(s.db, Day(now))
  BY <1>5, RecordedFacts, GetOrCreateSettled
<1>15. Settled(db, s.db, Day(now))
  BY <1>12, <1>13, <1>14, SettledThrough
<1>16. Recorded(s.db, Day(now))
  BY <1>11, <1>14, <1>15, RecordedFacts, GoneRecorded
<1>17. PlannedInv'
  BY RecordedFacts, NextCardReplenishesPlanned
<1> QED BY <1>3, <1>16, <1>17, CommitRecorded

\* A new day has neither cards nor a pool.
LEMMA TickRecorded == RecordedInv /\ Tick => RecordedInv'
<1> SUFFICES ASSUME RecordedInv, Tick PROVE RecordedInv'
  OBVIOUS
<1> DEFINE later == Day(now + 1)
<1>1. now' = now + 1 /\ db' = db /\ later <= MaxDay
  BY DEF Tick
<1>2. Day(now) \in Nat /\ later \in Nat /\ Day(now) <= later /\ later \in Days
  <2>1. now + 1 \in Nat /\ now <= now + 1
    BY RecordedFacts
  <2>2. Day(now) \in Nat /\ later \in Nat /\ Day(now) <= later
    BY <2>1, RecordedFacts, DayIsNat, DayIsMonotonic
  <2> HIDE DEF later
  <2> QED BY <1>1, <2>2, DailyAssumption DEF Days
<1>3. Recorded(db, later)
  <2>1. CASE later = Day(now)
    BY <2>1, RecordedFacts
  <2>2. CASE later # Day(now)
    <3>1. \A i \in db.items : i.day # later
      <4>1. \A i \in db.items : i.day \in Nat /\ i.day <= Day(now)
        BY RecordedFacts DEF Coherent, NoFutureCards, Sound, DB, Item, Days
      <4> HIDE DEF later
      <4> QED BY <1>2, <2>2, <4>1
    <3>2. History(db.items, db.states, db.answers, later)
      <4> HIDE DEF later
      <4> QED BY <3>1 DEF History, RowsFollowAnswers, DueIsCovered, StillCovered, AnsweredCards
    <3>3. later > Day(now) /\ \A y \in Days : y > later => y > Day(now)
      <4> HIDE DEF later
      <4> QED BY <1>2, <2>2 DEF Days
    <3> HIDE DEF later
    <3> QED BY <1>2, <3>2, <3>3, RecordedFacts DEF Recorded, NoFuturePools, NoOldCards
  <2> QED BY <2>1, <2>2
<1>4. Recorded(db', Day(now'))
  BY <1>1, <1>3
<1>5. PlannedInv'
  BY RecordedFacts, TickPlanned
<1> QED BY <1>4, <1>5 DEF RecordedInv, Recorded

LEMMA RecordedInit == Init => RecordedInv
<1> SUFFICES ASSUME Init PROVE RecordedInv
  OBVIOUS
<1>1. db = EmptyDB /\ PlannedInv
  BY PlannedInit DEF Init
<1>2. db.items = {} /\ \A y \in Days : ~db.pools[y].open
  BY <1>1 DEF EmptyDB, NoPool
<1>3. History(db.items, db.states, db.answers, Day(now))
  BY <1>2 DEF History, RowsFollowAnswers, DueIsCovered, StillCovered, AnsweredCards
<1>4. Recorded(db, Day(now))
  BY <1>2, <1>3 DEF Recorded, NoFuturePools, NoOldCards, OnlyToday
<1> QED BY <1>1, <1>4 DEF RecordedInv

LEMMA RecordedStep ==
  ASSUME PlannedAssumption
  PROVE  RecordedInv /\ [PlannedNext]_vars => RecordedInv'
<1> SUFFICES ASSUME RecordedInv, [PlannedNext]_vars PROVE RecordedInv'
  OBVIOUS
<1>1. CASE Tick
  BY <1>1, TickRecorded
<1>2. CASE OpenDailyPool
  BY <1>2, OpenDailyPoolRecorded
<1>3. CASE NextCardReplenishes
  BY <1>3, NextCardReplenishesRecorded
<1>4. CASE AnswerNext
  <2>1. CASE \E i \in db.items, known \in BOOLEAN : SubmitFirstExposure(i, known)
    BY <2>1, FirstExposureRecorded
  <2>2. CASE \E i \in db.items, hard \in BOOLEAN : SubmitReview(i, hard)
    BY <2>2, SubmitReviewRecorded
  <2>3. CASE \E a \in db.answers, i \in db.items : UndoLastAnswer(a, i)
    BY <2>3, UndoLastAnswerRecorded
  <2> QED BY <1>4, <2>1, <2>2, <2>3 DEF AnswerNext
<1>5. CASE UNCHANGED vars
  <2>1. now' = now /\ db' = db
    BY <1>5 DEF vars
  <2>2. Recorded(db', Day(now'))
    BY <2>1, RecordedFacts
  <2>3. PlannedInv'
    BY <1>5, RecordedFacts, PlannedStep
  <2> QED BY <2>2, <2>3 DEF RecordedInv, Recorded
<1> QED BY <1>1, <1>2, <1>3, <1>4, <1>5 DEF PlannedNext

---------------------------------------------------------------------------
(* What the records say *)

\* The answer taken back is the last of today, so of its word.
LEMMA UndoneRowIsItsOwn ==
  ASSUME RecordedInv, NEW a \in db.answers, NEW i \in db.items, UndoLastAnswer(a, i)
  PROVE  db.states[i.word] = a.post
<1>1. a.item = i.id /\ ~Pending(i) /\ i.day = Day(now) /\ i.done = LastStamp(db, Day(now))
  BY DEF UndoLastAnswer, CanUndo
<1>2. \A j \in db.items : j.done \in Nat /\ (j.day = Day(now) => j.done <= i.done)
  <2>1. \A j \in db.items : j.done \in Nat
    BY RecordedFacts DEF Sound, DB, Item
  <2>2. \A j \in db.items : j.day = Day(now) => j.done <= i.done
    BY <1>1, RecordedFacts, LastStampIsUpper
  <2> QED BY <2>1, <2>2
<1>3. \A k \in AnsweredToday(db.items, i.word, Day(now)) : ~(i.done < k.done)
  BY <1>2 DEF AnsweredToday
<1>4. i \in AnsweredCards(db.items)
  BY <1>1 DEF AnsweredCards
<1>5. RowsFollowAnswers(db.items, db.states, db.answers, Day(now))
  BY RecordedFacts DEF Recorded, History
<1> QED BY <1>1, <1>3, <1>4, <1>5 DEF RowsFollowAnswers, NextOf

LEMMA OpenPoolIsCovered == RecordedInv => OpenPoolCoversDueWords
<1> SUFFICES ASSUME RecordedInv,
                    NEW r \in GetOrCreateDailyPool(db, now), r.db.pools[Day(now)].open,
                    NEW w \in DueShortTerm(r.db, now) \cup DueReview(r.db, now)
             PROVE  \E i \in PoolItems(r.db, Day(now)) :
                      i.word = w /\ Pending(i) /\ i.type \in {"short_term", "review"}
  BY DEF OpenPoolCoversDueWords, Covered
<1>1. /\ Settled(db, r.db, Day(now)) /\ DueHaveCards(db, now, r.db)
  BY RecordedFacts, GetOrCreateSettled
<1>2. DueIsCovered(r.db.items, r.db.states, Day(now))
  <2>1. History(db.items, db.states, db.answers, Day(now))
    BY RecordedFacts DEF Recorded
  <2>2. History(r.db.items, r.db.states, db.answers, Day(now))
    BY <1>1, <2>1, SettledHistory
  <2> QED BY <2>2 DEF History
<1>3. r.db.states = db.states /\ w \in Words
  BY <1>1 DEF Settled, DueShortTerm, DueReview
<1>4. w \in DueShortTerm(db, now) \cup DueReview(db, now)
  BY <1>3 DEF DueShortTerm, DueReview
<1>5. IsDue(r.db.states[w], Day(now))
  BY <1>3, <1>4, RecordedFacts, DueIsQueried
<1>6. PICK c \in r.db.items : c.day = Day(now) /\ c.word = w
  BY <1>1, <1>4 DEF DueHaveCards
<1>7. PICK i \in r.db.items : Waits(i, w, Day(now))
  BY <1>2, <1>5, <1>6 DEF DueIsCovered
<1> QED BY <1>7 DEF Waits, Scheduled, PoolItems

(***************************************************************************)
(* An accepted undo restores the row its own answer replaced: no other     *)
(* answer of the word comes between, also when midnight and the pruning of *)
(* the old pool do (UndoLastAnswer, getLastAnswer).                        *)
(***************************************************************************)
THEOREM UndoRestoresItsOwnRow == ASSUME PlannedAssumption PROVE PlannedSpec => UndoTakesBackItsOwnAnswer
<1>1. RecordedInv /\ [PlannedNext]_vars => RecordedInv'
  BY RecordedStep
<1>2. RecordedInv /\ [PlannedNext]_vars =>
        [\A a \in db.answers, i \in db.items : UndoLastAnswer(a, i) => db.states[i.word] = a.post]_vars
  BY UndoneRowIsItsOwn
<1> QED BY <1>1, <1>2, RecordedInit, PTL DEF PlannedSpec, UndoTakesBackItsOwnAnswer

(***************************************************************************)
(* Whoever opens the pool of a planned day finds in it every word whose    *)
(* review is due by midnight, whatever was answered and taken back before  *)
(* (GetOrCreateDailyPool, reconcileScheduledPoolItems).                    *)
(***************************************************************************)
THEOREM DueWordsStayCovered == ASSUME PlannedAssumption PROVE PlannedSpec => []OpenPoolCoversDueWords
<1>1. RecordedInv /\ [PlannedNext]_vars => RecordedInv'
  BY RecordedStep
<1> QED BY <1>1, RecordedInit, OpenPoolIsCovered, PTL DEF PlannedSpec

\* The row of the card an undo reopens is among the cards it leaves behind.
LEMMA UndoneCardReopens ==
  ASSUME PlannedInv, NEW a \in db.answers, NEW i \in db.items, UndoLastAnswer(a, i)
  PROVE  \E j \in db'.items : j.id = i.id /\ Pending(j)
<1> DEFINE e == UndoWrites(db, a, i)
           k == [i EXCEPT !.done = 0]
<1>1. CanUndo(db, a, i, now) /\ Commit(e)
  BY DEF UndoLastAnswer
<1>2. PICK f \in [a.deleted -> Item] : UndoneAs(db, a, i, e, f, k)
  BY <1>1, PlannedFacts, UndoWritten
<1>3. db' = e
  BY <1>1 DEF Commit
<1> HIDE DEF e, k
<1>4. k \in e.items
  BY <1>2 DEF UndoneAs, LeftBy
<1>5. k.id = i.id /\ Pending(k)
  BY <1>2 DEF UndoneAs, Stamped, Pending
<1> QED BY <1>3, <1>4, <1>5

(***************************************************************************)
(* On a planned day an accepted undo leaves the answered card pending      *)
(* again: what undo_after_more_words shows failing needs the extra words   *)
(* asked for in between (UndoLastAnswer, TrimPendingNewPoolItems).         *)
(***************************************************************************)
THEOREM UndosAlwaysReopen == ASSUME PlannedAssumption PROVE PlannedSpec => UndoReopensCard
<1>1. PlannedInv /\ [PlannedNext]_vars => PlannedInv'
  BY PlannedStep
<1>2. PlannedInv /\ [PlannedNext]_vars =>
        [\A a \in db.answers, i \in db.items :
           UndoLastAnswer(a, i) => \E j \in db'.items : j.id = i.id /\ Pending(j)]_vars
  BY UndoneCardReopens
<1> QED BY <1>1, <1>2, PlannedInit, PTL DEF PlannedSpec, UndoReopensCard
=============================================================================
