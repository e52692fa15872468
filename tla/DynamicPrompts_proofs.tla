------------------------ MODULE DynamicPrompts_proofs ------------------------
(***************************************************************************)
(* For all learners and any number of cards: a card is shown in a mode its *)
(* set has enabled and its word allows, and in a set that keeps its modes  *)
(* listening stays within the daily limit and no word is shown four times  *)
(* in a row in the hardest mode.                                           *)
(*                                                                         *)
(* For all numbers of callers and sizes of a chunk: no prompt is prepared  *)
(* more often than there are callers, and none that a caller has left out  *)
(* as resting or prepared by another is missing.  What is proved of the    *)
(* modes of cards holds while prompts are being prepared, too.             *)
(***************************************************************************)
EXTENDS DynamicPrompts, Integers, Functions, FiniteSetsExt, FiniteSetTheorems, TLAPS

(* Finite sets of naturals *)

(***************************************************************************)
(* Max picks a member of a finite nonempty set of naturals, and no member  *)
(* is greater: a minimal subset without a greatest member has an element,  *)
(* and the rest of it is empty or has a greatest member.                   *)
(***************************************************************************)
LEMMA MaxOfFiniteSet ==
  ASSUME NEW S \in SUBSET Nat, IsFiniteSet(S), S # {}
  PROVE  Max(S) \in S /\ \A s \in S : Max(S) >= s
<1> DEFINE HasTop(X) == \E x \in X : \A y \in X : x >= y
           Bad == {X \in SUBSET S : X # {} /\ ~HasTop(X)}
<1> SUFFICES ASSUME Bad # {} PROVE FALSE
  BY DEF Max
<1>1. Bad \subseteq FiniteSubsetsOf(S)
  BY FS_Subset DEF FiniteSubsetsOf
<1> HIDE DEF Bad
<1>2. PICK X \in Bad : \A Y \in Bad : <<Y, X>> \notin StrictSubsetOrdering(S)
  BY <1>1, FS_StrictSubsetOrderingWellFounded, WFMin
<1> USE DEF Bad
<1>3. PICK x \in X : TRUE
  OBVIOUS
<1>4. X \ {x} \notin Bad
  <2>1. <<X \ {x}, X>> \in StrictSubsetOrdering(S)
    BY <1>3 DEF StrictSubsetOrdering
  <2> QED BY <1>2, <2>1
<1>5. X \ {x} = {} \/ HasTop(X \ {x})
  BY <1>4
<1>6. X \subseteq Nat /\ ~HasTop(X)
  OBVIOUS
<1>7. CASE X \ {x} = {}
  BY <1>3, <1>6, <1>7
<1>8. CASE HasTop(X \ {x})
  <2>1. PICK m \in X \ {x} : \A y \in X \ {x} : m >= y
    BY <1>8
  <2> QED BY <1>3, <1>6, <2>1
<1> QED BY <1>5, <1>7, <1>8

(***************************************************************************)
(* Min picks a member of a nonempty set of naturals, and none is smaller.  *)
(***************************************************************************)
LEMMA MinOfSet ==
  ASSUME NEW S \in SUBSET Nat, S # {}
  PROVE  Min(S) \in S /\ \A s \in S : Min(S) <= s
<1>1. S # {} /\ S \subseteq Nat
  OBVIOUS
<1>2. PICK n \in S : \A m \in S : ~(<<m, n>> \in OpToRel(<, Nat))
  BY <1>1, WFMin, NatLessThanWellFounded
<1>3. \A m \in S : n <= m
  <2> TAKE m \in S
  <2>1. ~(m < n)
    BY <1>2 DEF OpToRel
  <2> QED BY <1>1, <2>1
<1>4. \E x \in S : \A y \in S : x <= y
  BY <1>3
<1> QED BY <1>4 DEF Min

---------------------------------------------------------------------------
Modes == {1, 2, 3, 4, 5, 6}

---------------------------------------------------------------------------
(* Choosing a mode *)

LEMMA ModeNumbers == AllReviewModes = Modes /\ Modes \subseteq Nat /\ IsFiniteSet(AllReviewModes)
<1>1. AllReviewModes = Modes
  BY DEF AllReviewModes, Modes
<1>2. IsFiniteSet(AllReviewModes)
  <2>1. 1 \in Int /\ 6 \in Int
    OBVIOUS
  <2> QED BY <2>1, FS_Interval, Zenon DEF AllReviewModes
<1> QED BY <1>1, <1>2 DEF Modes

LEMMA LearnersAreSound ==
  ASSUME learner \in Learners
  PROVE  /\ IsFiniteSet(Words) /\ learner.profiles \subseteq Profile
         /\ \A modes \in learner.enabled : Reveal \in modes /\ modes \in SUBSET AllReviewModes
         /\ MaxCards \in Nat /\ Cardinality(Words) <= MaxCards
BY ModesAssumption DEF Learner, Words, MaxCards

LEMMA CompatibleModes ==
  ASSUME NEW modes \in SUBSET AllReviewModes, Reveal \in modes, NEW w
  PROVE  /\ Compatible(modes, w) \in SUBSET AllReviewModes /\ Reveal \in Compatible(modes, w)
         /\ Harder(modes, w) \in SUBSET AllReviewModes /\ IsFiniteSet(Harder(modes, w))
         /\ Harder(modes, w) \subseteq Compatible(modes, w) /\ Reveal \notin Harder(modes, w)
<1>1. /\ Compatible(modes, w) \in SUBSET AllReviewModes /\ Reveal \in Compatible(modes, w)
      /\ Harder(modes, w) \in SUBSET AllReviewModes /\ Reveal \notin Harder(modes, w)
  BY DEF Compatible, Harder, Reveal, BuildWord
<1> QED BY <1>1, ModeNumbers, FS_Subset DEF Harder

LEMMA ScheduledModes ==
  ASSUME NEW row, row.profile \in Profile, row.lastMode \in LastModes
  PROVE  SelectReviewMode(row) \in AllReviewModes
<1> DEFINE p == row.profile
           last == row.lastMode
<1>1. /\ p.cause \in {"none", "forgot_meaning", "mixed_up_word", "spelling_issue"}
  BY DEF Profile
<1>2. p.cause # "none" => ByCause(p.cause) \in {1, 2, 3}
  BY <1>1 DEF ByCause, Reveal, MultipleChoice, BuildWord
<1>3. AlternatingMode2Reveal(last) \in {1, 2}
  BY DEF AlternatingMode2Reveal, Reveal, MultipleChoice
<1>4. InTransition(p, last) \in {1, 2, 3} /\ InReview(p, last) \in {1, 2, 3}
  BY <1>2, <1>3 DEF InTransition, InReview, MultipleChoice, BuildWord
<1>5. \A mode \in {1, 2, 3} : Forced(p, last, mode) \in {1, 2, 3}
  BY DEF Forced, MultipleChoice, BuildWord
<1>6. SelectAdvancedConstructionMode(p) \in {4, 5}
  BY DEF SelectAdvancedConstructionMode, Listening, FillBlank
<1>7. SelectReviewMode(row) \in Modes
  BY <1>4, <1>5, <1>6 DEF SelectReviewMode, Reveal, Modes
<1> QED BY <1>7, ModeNumbers

(***************************************************************************)
(* Among the enabled modes there is a nearest one: distance and number,    *)
(* taken together, have a least value.                                     *)
(***************************************************************************)
LEMMA NearestMode ==
  ASSUME NEW preferred \in AllReviewModes, NEW modes \in SUBSET AllReviewModes,
         Reveal \in modes, NEW w
  PROVE  /\ SelectEnabledReviewMode(preferred, modes, w) \in Compatible(modes, w)
         /\ \A n \in Compatible(modes, w) :
              Distance(SelectEnabledReviewMode(preferred, modes, w), preferred) <= Distance(n, preferred)
<1> DEFINE C == Compatible(modes, w)
           Rank(m) == 7 * Distance(m, preferred) + m
           Ranks == {Rank(m) : m \in C}
           Nearest(m) == \A n \in C :
             \/ Distance(m, preferred) < Distance(n, preferred)
             \/ Distance(m, preferred) = Distance(n, preferred) /\ m <= n
<1>1. C \subseteq Modes /\ Reveal \in C /\ preferred \in Modes
  BY ModeNumbers, CompatibleModes
<1>2. \A m \in Modes : Distance(m, preferred) \in 0..5
  BY <1>1 DEF Modes, Distance
<1> HIDE DEF C
<1>3. Ranks \in SUBSET Nat /\ Ranks # {}
  BY <1>1, <1>2 DEF Modes
<1>4. PICK m \in C : \A n \in C : Rank(m) <= Rank(n)
  <2>1. Min(Ranks) \in Ranks /\ \A s \in Ranks : Min(Ranks) <= s
    <3> HIDE DEF Ranks
    <3> QED BY <1>3, MinOfSet
  <2> QED BY <2>1
<1>5. Nearest(m)
  <2> SUFFICES ASSUME NEW n \in C
               PROVE  \/ Distance(m, preferred) < Distance(n, preferred)
                      \/ Distance(m, preferred) = Distance(n, preferred) /\ m <= n
    OBVIOUS
  <2>1. /\ Distance(m, preferred) \in 0..5 /\ Distance(n, preferred) \in 0..5
        /\ m \in 1..6 /\ n \in 1..6
    BY <1>1, <1>2 DEF Modes
  <2>2. 7 * Distance(m, preferred) + m <= 7 * Distance(n, preferred) + n
    BY <1>4
  <2> QED BY <2>1, <2>2
<1>6. SelectEnabledReviewMode(preferred, modes, w) = CHOOSE x \in C : Nearest(x)
  BY DEF SelectEnabledReviewMode, C
<1> DEFINE s == SelectEnabledReviewMode(preferred, modes, w)
<1>7. s \in C /\ Nearest(s)
  <2> HIDE DEF Nearest, s
  <2> QED BY <1>5, <1>6 DEF s
<1>8. \A n \in C : Distance(s, preferred) <= Distance(n, preferred)
  BY <1>1, <1>2, <1>7
<1> QED BY <1>7, <1>8 DEF C

LEMMA ConfiguredIsCompatible ==
  ASSUME NEW row, row.profile \in Profile, row.lastMode \in LastModes,
         NEW modes \in SUBSET AllReviewModes, Reveal \in modes, NEW w
  PROVE  /\ Configured(row, modes, w) \in Compatible(modes, w)
         /\ Configured(row, modes, w) \in AllReviewModes
<1> DEFINE others == Harder(modes, w) \ {row.lastMode}
<1>1. others # {} => Max(others) \in others
  <2>1. others \in SUBSET Nat /\ IsFiniteSet(others)
    BY CompatibleModes, ModeNumbers, FS_Subset
  <2> HIDE DEF others
  <2> QED BY <2>1, MaxOfFiniteSet
<1>2. SelectEnabledReviewMode(SelectReviewMode(row), modes, w) \in Compatible(modes, w)
  BY ScheduledModes, NearestMode
<1> QED BY <1>1, <1>2, CompatibleModes DEF Configured

LEMMA CappedIsCompatible ==
  ASSUME enabled \in SUBSET AllReviewModes, Reveal \in enabled, NEW w
  PROVE  /\ Capped(w) \in Compatible(enabled, w) /\ Capped(w) \in AllReviewModes
         /\ FillBlank \in enabled => Capped(w) = FillBlank
         /\ Listening \in enabled => Capped(w) <= Listening
<1>1. FillBlank \in AllReviewModes
  BY ModeNumbers DEF FillBlank, Modes
<1>2. /\ Capped(w) \in Compatible(enabled, w)
      /\ \A n \in Compatible(enabled, w) : Distance(Capped(w), FillBlank) <= Distance(n, FillBlank)
  BY <1>1, NearestMode DEF Capped
<1>3. Capped(w) \in Modes
  BY <1>2, CompatibleModes, ModeNumbers
<1>4. \A n \in {4, 5} : n \in enabled => n \in Compatible(enabled, w)
  BY DEF Compatible, BuildWord
<1>5. FillBlank \in enabled => Distance(Capped(w), FillBlank) <= Distance(FillBlank, FillBlank)
  BY <1>2, <1>4 DEF FillBlank
<1>6. Listening \in enabled => Distance(Capped(w), FillBlank) <= Distance(Listening, FillBlank)
  BY <1>2, <1>4 DEF Listening
<1> QED BY <1>2, <1>3, <1>5, <1>6, ModeNumbers DEF Distance, FillBlank, Listening, Modes

---------------------------------------------------------------------------
(* Decks *)

Decks == UNION {[1..n -> Card] : n \in 0..MaxCards}

LEMMA CountOfInterval ==
  ASSUME NEW n \in Nat
  PROVE  IsFiniteSet(1..n) /\ Cardinality(1..n) = n
<1>1. 1 \in Int /\ n \in Int
  OBVIOUS
<1>2. IsFiniteSet(1..n) /\ Cardinality(1..n) = IF 1 > n THEN 0 ELSE n - 1 + 1
  BY <1>1, FS_Interval, Zenon
<1> QED BY <1>2

LEMMA CardsAreADeck ==
  ASSUME TypeOK
  PROVE  /\ cards \in Decks
         /\ Cardinality(Positions) \in 0..MaxCards /\ Positions = 1..Cardinality(Positions)
         /\ cards \in [Positions -> Card]
<1>1. PICK n \in 0..MaxCards : cards \in [1..n -> Card]
  BY DEF TypeOK
<1>2. MaxCards \in Nat
  BY LearnersAreSound DEF TypeOK
<1>3. n \in Nat /\ Positions = 1..n
  BY <1>1, <1>2 DEF Positions
<1> QED BY <1>1, <1>3, CountOfInterval DEF Decks

RowsTypeOK ==
  /\ learner \in Learners
  /\ rows \in [Words -> Row]
  /\ enabled \in learner.enabled /\ custom \in BOOLEAN

LEMMA ProposedIsCompatible ==
  ASSUME RowsTypeOK, NEW modes \in SUBSET AllReviewModes, Reveal \in modes,
         NEW deck, NEW i \in DOMAIN deck, deck[i].word \in Words
  PROVE  /\ Proposed(deck, modes)[i] = Configured(rows[deck[i].word], modes, deck[i].word)
         /\ Proposed(deck, modes)[i] \in Compatible(modes, deck[i].word)
         /\ Proposed(deck, modes)[i] \in AllReviewModes
<1>1. Proposed(deck, modes)[i] = Configured(rows[deck[i].word], modes, deck[i].word)
  BY DEF Proposed
<1>2. rows[deck[i].word].profile \in Profile /\ rows[deck[i].word].lastMode \in LastModes
  BY LearnersAreSound DEF RowsTypeOK, Row
<1> QED BY <1>1, <1>2, ConfiguredIsCompatible

(***************************************************************************)
(* What reading the pool does to its cards.                                *)
(***************************************************************************)
Synced(deck, i) ==
  IF Proposed(deck, enabled)[i] = Listening /\ ~MayListen(deck, i)
  THEN Capped(deck[i].word) ELSE Proposed(deck, enabled)[i]

LEMMA SyncedCards ==
  ASSUME RowsTypeOK, NEW n \in Nat, NEW deck \in [1..n -> Card]
  PROVE  /\ SyncPendingPoolItems(deck) \in [1..n -> Card]
         /\ \A i \in 1..n :
              LET card == SyncPendingPoolItems(deck)[i]
              IN /\ card.word = deck[i].word /\ card.status = deck[i].status
                 /\ card.used = deck[i].used
                 /\ deck[i].status # "pending" => card = deck[i]
                 /\ deck[i].status = "pending" =>
                      card.mode = Synced(deck, i) /\ card.mode \in Compatible(enabled, deck[i].word)
<1>1. Reveal \in enabled /\ enabled \in SUBSET AllReviewModes
  BY LearnersAreSound DEF RowsTypeOK
<1>2. ASSUME NEW i \in 1..n
      PROVE  /\ Synced(deck, i) \in Compatible(enabled, deck[i].word)
             /\ Synced(deck, i) \in AllReviewModes
  <2>1. deck[i].word \in Words /\ i \in DOMAIN deck
    BY DEF Card
  <2> QED BY <1>1, <2>1, ProposedIsCompatible, CappedIsCompatible DEF Synced
<1>3. SyncPendingPoolItems(deck) =
        [i \in 1..n |-> IF deck[i].status # "pending" THEN deck[i]
                        ELSE [deck[i] EXCEPT !.mode = Synced(deck, i)]]
  BY DEF SyncPendingPoolItems, Synced
<1>4. ASSUME NEW i \in 1..n
      PROVE  LET card == SyncPendingPoolItems(deck)[i]
             IN /\ card \in Card
                /\ card.word = deck[i].word /\ card.status = deck[i].status
                /\ card.used = deck[i].used
                /\ deck[i].status # "pending" => card = deck[i]
                /\ deck[i].status = "pending" => card.mode = Synced(deck, i)
  <2>1. deck[i] \in Card
    OBVIOUS
  <2> QED BY <1>2, <1>3, <2>1 DEF Card
<1>5. SyncPendingPoolItems(deck) \in [1..n -> Card]
  BY <1>3, <1>4
<1> QED BY <1>2, <1>4, <1>5

---------------------------------------------------------------------------
(* The invariant *)

(***************************************************************************)
(* The card shown is pending, and an answer that can be undone is of a     *)
(* card of the pool.                                                       *)
(***************************************************************************)
ShownOK ==
  /\ shown.card # 0 => shown.card \in Positions /\ cards[shown.card].status = "pending"
  /\ shown.card = 0 => shown.mode = None
UndoOK == \A a \in undo : a.card \in Positions

(***************************************************************************)
(* Listening: a card that was listened to is known to the cap, and one     *)
(* that is shown has its place within it.                                  *)
(***************************************************************************)
ListeningOK ==
  ModesStay /\ FillBlank \in enabled =>
    /\ \A i \in Positions : cards[i].status = "completed" /\ cards[i].used = Listening
                              => cards[i].mode = Listening
    /\ shown.mode = Listening => /\ cards[shown.card].mode = Listening
                                 /\ Proposed(cards, enabled)[shown.card] = Listening
                                 /\ MayListen(cards, shown.card)
    /\ ListeningWithinLimit

(***************************************************************************)
(* Rotation: no streak of the hardest mode is longer than three, also not  *)
(* in what an undo restores, and none of three is being continued.         *)
(***************************************************************************)
HardestOf(row, w) ==
  Cardinality(Harder(enabled, w)) > 1 /\ row.lastMode = Max(Harder(enabled, w))
Rotates(row, w) == HardestOf(row, w) => row.streak <= 3

\* Another card in a mode that was shown three times.
ContinuesHardest(table, w, mode) ==
  HardestOf(table[w], w) /\ mode = Max(Harder(enabled, w)) /\ ~(table[w].streak < 3)

RotationOK ==
  ModesStay /\ custom =>
    /\ \A w \in Words : Rotates(rows[w], w)
    /\ \A a \in undo : Rotates(a.row, cards[a.card].word)
    /\ shown.card # 0 => ~ContinuesHardest(rows, cards[shown.card].word, shown.mode)

IInv == TypeOK /\ ShownOK /\ UndoOK /\ ListeningOK /\ RotationOK

LEMMA InitType == Init => TypeOK /\ ShownOK /\ UndoOK
<1> SUFFICES ASSUME Init PROVE TypeOK /\ ShownOK /\ UndoOK
  OBVIOUS
<1>1. learner \in Learners /\ enabled \in learner.enabled /\ custom \in BOOLEAN
  BY DEF Init
<1>2. rows \in [Words -> Row]
  BY DEF Init, Row
<1>3. RowsTypeOK
  BY <1>1, <1>2 DEF RowsTypeOK
<1>4. PICK due \in SUBSET Words, order \in [1..Cardinality(Words) -> Words] :
        cards = SyncPendingPoolItems([i \in 1..Cardinality(due) |-> NewCard(order[i], Reveal)])
  BY DEF Init
<1>5. /\ Cardinality(due) \in Nat /\ Cardinality(Words) \in Nat /\ MaxCards \in Nat
      /\ Cardinality(due) <= Cardinality(Words) /\ Cardinality(Words) <= MaxCards
  BY <1>1, LearnersAreSound, FS_Subset, FS_CardinalityType
<1> DEFINE deck == [i \in 1..Cardinality(due) |-> NewCard(order[i], Reveal)]
<1>6. deck \in [1..Cardinality(due) -> Card]
  <2>1. \A i \in 1..Cardinality(due) : order[i] \in Words
    BY <1>5
  <2>2. \A w \in Words : NewCard(w, Reveal) \in Card
    BY DEF NewCard, Card, Reveal, None, AllReviewModes
  <2> QED BY <2>1, <2>2
<1>7. cards \in [1..Cardinality(due) -> Card]
  <2> HIDE DEF deck
  <2> QED BY <1>3, <1>4, <1>5, <1>6, SyncedCards DEF deck
<1>8. Cardinality(due) \in 0..MaxCards
  BY <1>5
<1>9. shown \in [card: 0..MaxCards, mode: AllReviewModes \cup {None}]
  BY <1>5 DEF Init, NothingShown
<1>10. undo \subseteq Answer /\ Cardinality(undo) <= 1
  BY FS_EmptySet DEF Init
<1>11. ShownOK /\ UndoOK
  BY DEF Init, ShownOK, UndoOK, NothingShown
<1> QED BY <1>1, <1>2, <1>7, <1>8, <1>9, <1>10, <1>11 DEF TypeOK

LEMMA InitInvariant == Init => IInv
<1> SUFFICES ASSUME Init PROVE IInv
  OBVIOUS
<1>1. TypeOK /\ ShownOK /\ UndoOK
  BY InitType
<1>2. \A w \in Words : rows[w].streak = 0
  BY DEF Init
<1>3. shown.card = 0 /\ shown.mode = None /\ undo = {}
  BY DEF Init, NothingShown
<1>4. RotationOK
  BY <1>2, <1>3 DEF RotationOK, Rotates
<1>5. \A i \in Positions : cards[i].status = "pending"
  <2>1. RowsTypeOK
    BY <1>1 DEF TypeOK, RowsTypeOK
  <2>2. PICK due \in SUBSET Words, order \in [1..Cardinality(Words) -> Words] :
          cards = SyncPendingPoolItems([i \in 1..Cardinality(due) |-> NewCard(order[i], Reveal)])
    BY DEF Init
  <2>3. /\ Cardinality(due) \in Nat /\ Cardinality(Words) \in Nat
        /\ Cardinality(due) <= Cardinality(Words)
    BY <1>1, LearnersAreSound, FS_Subset, FS_CardinalityType DEF TypeOK
  <2> DEFINE deck == [i \in 1..Cardinality(due) |-> NewCard(order[i], Reveal)]
  <2>4. deck \in [1..Cardinality(due) -> Card] /\ \A i \in 1..Cardinality(due) : deck[i].status = "pending"
    <3>1. \A i \in 1..Cardinality(due) : order[i] \in Words
      BY <2>3
    <3>2. \A w \in Words : NewCard(w, Reveal) \in Card /\ NewCard(w, Reveal).status = "pending"
      BY DEF NewCard, Card, Reveal, None, AllReviewModes
    <3> QED BY <3>1, <3>2
  <2> HIDE DEF deck
  <2>5. /\ cards \in [1..Cardinality(due) -> Card]
        /\ \A i \in 1..Cardinality(due) : cards[i].status = deck[i].status
    BY <2>1, <2>2, <2>3, <2>4, SyncedCards DEF deck
  <2> QED BY <2>4, <2>5 DEF Positions
<1>6. ListeningOK
  <2>1. {i \in Positions : cards[i].status = "completed" /\ cards[i].used = Listening} = {}
    BY <1>5
  <2>2. Cardinality({}) = 0 /\ 0 <= dailyListeningItemLimit
    BY FS_EmptySet, ModesAssumption
  <2>3. ListeningWithinLimit
    <3> DEFINE listened == {i \in Positions : cards[i].status = "completed" /\ cards[i].used = Listening}
    <3>1. Cardinality(listened) <= dailyListeningItemLimit
      <4>1. listened = {}
        BY <2>1
      <4> HIDE DEF listened
      <4> QED BY <4>1, <2>2
    <3> QED BY <3>1 DEF ListeningWithinLimit
  <2> QED BY <1>3, <1>5, <2>3 DEF ListeningOK, None, Listening
<1> QED BY <1>1, <1>4, <1>6 DEF IInv

---------------------------------------------------------------------------
(* Reading the pool *)

(***************************************************************************)
(* What the schedule proposes, and who may listen, stays what it was.      *)
(***************************************************************************)
LEMMA SyncedDeck ==
  ASSUME TypeOK, cards' = SyncPendingPoolItems(cards), UNCHANGED <<learner, rows, enabled, custom>>
  PROVE  /\ Positions' = Positions /\ cards' \in [Positions -> Card]
         /\ \A i \in Positions :
              /\ cards'[i].word = cards[i].word /\ cards'[i].status = cards[i].status
              /\ cards'[i].used = cards[i].used
              /\ cards[i].status # "pending" => cards'[i] = cards[i]
              /\ cards[i].status = "pending" =>
                   cards'[i].mode = Synced(cards, i) /\ cards'[i].mode \in Compatible(enabled, cards[i].word)
              /\ Proposed(cards, enabled)'[i] = Proposed(cards, enabled)[i]
              /\ MayListen(cards, i)' = MayListen(cards, i)
<1>1. /\ RowsTypeOK /\ Cardinality(Positions) \in Nat /\ Positions = 1..Cardinality(Positions)
      /\ cards \in [Positions -> Card]
  BY CardsAreADeck, LearnersAreSound DEF TypeOK, RowsTypeOK
<1>2. /\ cards' \in [Positions -> Card]
      /\ \A i \in Positions :
           /\ cards'[i].word = cards[i].word /\ cards'[i].status = cards[i].status
           /\ cards'[i].used = cards[i].used
           /\ cards[i].status # "pending" => cards'[i] = cards[i]
           /\ cards[i].status = "pending" =>
                cards'[i].mode = Synced(cards, i) /\ cards'[i].mode \in Compatible(enabled, cards[i].word)
  BY <1>1, SyncedCards
<1>3. Positions' = Positions /\ DOMAIN cards' = DOMAIN cards /\ DOMAIN cards = Positions
  BY <1>1, <1>2 DEF Positions
<1>4. Proposed(cards, enabled)' = Proposed(cards, enabled)
  BY <1>2, <1>3 DEF Proposed, Configured, ShowsHardestAgain
<1>5. {i \in DOMAIN cards' : cards'[i].status = "completed" /\ cards'[i].mode = Listening}
        = {i \in DOMAIN cards : cards[i].status = "completed" /\ cards[i].mode = Listening}
  BY <1>2, <1>3
<1>6. Heard(cards)' = Heard(cards)
  BY <1>5 DEF Heard
<1>7. ASSUME NEW i \in Positions
      PROVE  MayListen(cards, i)' = MayListen(cards, i)
  <2>1. \A j \in 1..(i - 1) : j \in Positions
    BY <1>1, <1>3
  <2>2. {j \in 1..(i - 1) : cards'[j].status = "pending" /\ Proposed(cards, enabled)'[j] = Listening}
          = {j \in 1..(i - 1) : cards[j].status = "pending" /\ Proposed(cards, enabled)[j] = Listening}
    BY <1>2, <1>4, <2>1
  <2> DEFINE before == {j \in 1..(i - 1) :
                          cards[j].status = "pending" /\ Proposed(cards, enabled)[j] = Listening}
  <2>3. MayListen(cards, i) = (Heard(cards) + Cardinality(before) < dailyListeningItemLimit)
    BY DEF MayListen
  <2>4. MayListen(cards, i)' = (Heard(cards)' + Cardinality(before)' < dailyListeningItemLimit)
    BY DEF MayListen
  <2>5. before' = before
    BY <2>2
  <2> HIDE DEF before
  <2> QED BY <1>6, <2>3, <2>4, <2>5
<1> QED BY <1>2, <1>3, <1>4, <1>7

LEMMA SyncType ==
  ASSUME TypeOK, cards' = SyncPendingPoolItems(cards), UNCHANGED <<learner, rows, enabled, custom, undo>>,
         shown' \in [card: 0..MaxCards, mode: AllReviewModes \cup {None}]
  PROVE  TypeOK'
<1>1. /\ cards' \in [1..Cardinality(Positions) -> Card] /\ Cardinality(Positions) \in 0..MaxCards
  BY CardsAreADeck, SyncedDeck
<1>2. /\ Words' = Words /\ MaxCards' = MaxCards /\ Row' = Row
      /\ Card' = Card /\ Answer' = Answer
  BY DEF Words, MaxCards, Row, Card, Answer
<1> QED BY <1>1, <1>2 DEF TypeOK

(***************************************************************************)
(* A set of words with a card in hand: the row proposes the hardest mode   *)
(* again only while it has not been shown three times.                     *)
(***************************************************************************)
LEMMA HardestIsLeft ==
  ASSUME RowsTypeOK, custom, NEW i \in Positions, cards[i].word \in Words,
         cards[i].status = "pending",
         HardestOf(rows[cards[i].word], cards[i].word),
         Synced(cards, i) = Max(Harder(enabled, cards[i].word))
  PROVE  rows[cards[i].word].streak < 3
<1> DEFINE w == cards[i].word
           hard == Harder(enabled, w)
           others == hard \ {rows[w].lastMode}
<1>1. /\ enabled \in SUBSET AllReviewModes /\ Reveal \in enabled
      /\ rows[w] \in Row /\ rows[w].streak \in Nat
  BY LearnersAreSound DEF RowsTypeOK, Row
<1>2. hard \in SUBSET Nat /\ IsFiniteSet(hard) /\ Cardinality(hard) > 1
  BY <1>1, CompatibleModes, ModeNumbers DEF HardestOf
<1>3. hard # {}
  BY <1>2, FS_EmptySet
<1>4. Max(hard) \in hard /\ \A m \in hard : Max(hard) >= m
  <2> HIDE DEF hard
  <2> QED BY <1>2, <1>3, MaxOfFiniteSet
<1>5. rows[w].lastMode = Max(hard)
  BY DEF HardestOf
<1>6. others # {}
  <2> SUFFICES ASSUME others = {} PROVE FALSE
    OBVIOUS
  <2>1. hard = {Max(hard)}
    BY <1>4, <1>5
  <2>2. Cardinality({Max(hard)}) = 1
    BY FS_Singleton
  <2> HIDE DEF hard
  <2> QED BY <1>2, <2>1, <2>2
<1>7. Max(others) \in others
  <2>1. others \in SUBSET Nat /\ IsFiniteSet(others)
    BY <1>2, FS_Subset
  <2> HIDE DEF others
  <2> QED BY <1>6, <2>1, MaxOfFiniteSet
<1> SUFFICES ASSUME rows[w].streak >= 3 PROVE FALSE
  BY <1>1
<1>8. ShowsHardestAgain(rows[w], enabled, w)
  BY <1>3, <1>5 DEF ShowsHardestAgain
<1>9. Proposed(cards, enabled)[i] = Max(others)
  <2>1. Proposed(cards, enabled)[i] = Configured(rows[w], enabled, w)
    BY DEF Proposed, Positions
  <2> QED BY <1>6, <1>8, <2>1 DEF Configured
<1>10. Max(others) < Max(hard)
  <2>1. Max(others) \in hard /\ Max(others) # Max(hard) /\ Max(hard) \in Nat /\ Max(others) \in Nat
    BY <1>2, <1>4, <1>5, <1>7
  <2>2. Max(hard) >= Max(others)
    BY <1>4, <2>1
  <2> HIDE DEF hard, others
  <2> QED BY <2>1, <2>2
<1>11. Synced(cards, i) = Max(hard)
  OBVIOUS
<1>12. Max(hard) \in Nat /\ Max(others) \in Nat
  BY <1>2, <1>4, <1>7
<1>13. CASE Max(others) = Listening /\ ~MayListen(cards, i)
  <2>1. Listening \in enabled
    BY <1>7, <1>13 DEF Harder, Compatible
  <2>2. Capped(w) <= Listening /\ Capped(w) = Max(hard)
    BY <1>1, <1>9, <1>11, <1>13, <2>1, CappedIsCompatible DEF Synced
  <2> HIDE DEF hard, others
  <2> QED BY <1>10, <1>12, <1>13, <2>2 DEF Listening
<1>14. CASE ~(Max(others) = Listening /\ ~MayListen(cards, i))
  <2>1. Max(others) = Max(hard)
    BY <1>9, <1>11, <1>14 DEF Synced
  <2> HIDE DEF hard, others
  <2> QED BY <1>10, <1>12, <2>1
<1> QED BY <1>13, <1>14

(***************************************************************************)
(* The rotation after a step that leaves the modes of the set alone.       *)
(***************************************************************************)
LEMMA RotationStep ==
  ASSUME UNCHANGED <<learner, enabled, custom>>,
         ModesStay /\ custom =>
           /\ \A w \in Words : Rotates(rows'[w], w)
           /\ \A a \in undo' : Rotates(a.row, cards'[a.card].word)
           /\ shown'.card # 0 => ~ContinuesHardest(rows', cards'[shown'.card].word, shown'.mode)
  PROVE  RotationOK'
<1>1. /\ Words' = Words /\ ModesStay' = ModesStay
      /\ \A w : Harder(enabled, w)' = Harder(enabled, w)
  BY DEF Words, ModesStay, Harder, Compatible
<1> QED BY <1>1 DEF RotationOK, Rotates, ContinuesHardest, HardestOf, Harder, Compatible

LEMMA GetNextCardInvariant ==
  ASSUME IInv, GetNextCard, UNCHANGED learner
  PROVE  IInv'
<1> USE DEF IInv
<1>1. /\ cards' = SyncPendingPoolItems(cards)
      /\ UNCHANGED <<learner, rows, enabled, custom, undo>>
  BY DEF GetNextCard
<1>2. PICK i \in Positions :
        /\ cards[i].status = "pending"
        /\ \E mode \in {cards'[i].mode} \cup (IF cards'[i].mode = Listening THEN {Reveal} ELSE {}) :
             shown' = [card |-> i, mode |-> mode]
  BY DEF GetNextCard
<1>3. PICK mode \in {cards'[i].mode} \cup (IF cards'[i].mode = Listening THEN {Reveal} ELSE {}) :
        shown' = [card |-> i, mode |-> mode]
  BY <1>2
<1>4. /\ Positions' = Positions /\ cards' \in [Positions -> Card]
      /\ \A j \in Positions :
           /\ cards'[j].word = cards[j].word /\ cards'[j].status = cards[j].status
           /\ cards'[j].used = cards[j].used
           /\ cards[j].status # "pending" => cards'[j] = cards[j]
           /\ cards[j].status = "pending" => cards'[j].mode = Synced(cards, j)
           /\ Proposed(cards, enabled)'[j] = Proposed(cards, enabled)[j]
           /\ MayListen(cards, j)' = MayListen(cards, j)
  BY <1>1, SyncedDeck
<1>5. /\ RowsTypeOK /\ MaxCards \in Nat /\ Positions = 1..Cardinality(Positions)
      /\ Cardinality(Positions) \in 0..MaxCards /\ cards \in [Positions -> Card]
  BY CardsAreADeck, LearnersAreSound DEF TypeOK, RowsTypeOK
<1>6. i \in 1..MaxCards /\ i # 0
  BY <1>5
<1>7. mode \in AllReviewModes
  BY <1>2, <1>3, <1>4, ModeNumbers DEF Card, Reveal, Modes
<1>8. TypeOK'
  <2>1. shown' \in [card: 0..MaxCards, mode: AllReviewModes \cup {None}]
    BY <1>3, <1>5, <1>6, <1>7
  <2> QED BY <1>1, <2>1, SyncType
<1>9. ShownOK'
  BY <1>2, <1>3, <1>4, <1>6 DEF ShownOK
<1>10. UndoOK'
  BY <1>1, <1>4 DEF UndoOK
<1>11. mode = Synced(cards, i) \/ mode = Reveal
  BY <1>2, <1>3, <1>4
<1>12. ListeningOK'
  <2> SUFFICES ASSUME ModesStay', FillBlank \in enabled'
               PROVE  /\ \A j \in Positions' : cards'[j].status = "completed" /\ cards'[j].used = Listening
                                                 => cards'[j].mode = Listening
                      /\ shown'.mode = Listening => /\ cards'[shown'.card].mode = Listening
                                                    /\ Proposed(cards, enabled)'[shown'.card] = Listening
                                                    /\ MayListen(cards, i)'
                      /\ ListeningWithinLimit'
    BY <1>3 DEF ListeningOK
  <2>1. ModesStay /\ FillBlank \in enabled
    BY <1>1 DEF ModesStay
  <2>2. \A j \in Positions' : cards'[j].status = "completed" /\ cards'[j].used = Listening
                                => cards'[j].mode = Listening
    BY <1>4, <2>1 DEF ListeningOK
  <2>3. ASSUME shown'.mode = Listening
        PROVE  /\ cards'[shown'.card].mode = Listening
               /\ Proposed(cards, enabled)'[shown'.card] = Listening
               /\ MayListen(cards, i)'
    <3>1. mode = Listening /\ shown'.card = i
      BY <1>3, <2>3
    <3>2. Synced(cards, i) = Listening /\ cards'[i].mode = Listening
      BY <1>2, <1>4, <1>11, <3>1 DEF Reveal, Listening
    <3>3. Capped(cards[i].word) # Listening
      <4>1. Reveal \in enabled /\ enabled \in SUBSET AllReviewModes
        BY <1>5, LearnersAreSound DEF RowsTypeOK
      <4>2. Capped(cards[i].word) = FillBlank
        BY <2>1, <4>1, CappedIsCompatible
      <4> QED BY <4>2 DEF FillBlank, Listening
    <3>4. Proposed(cards, enabled)[i] = Listening /\ MayListen(cards, i)
      BY <3>2, <3>3 DEF Synced
    <3> QED BY <1>4, <3>1, <3>2, <3>4
  <2>4. ListeningWithinLimit'
    <3>1. {j \in Positions' : cards'[j].status = "completed" /\ cards'[j].used = Listening}
            = {j \in Positions : cards[j].status = "completed" /\ cards[j].used = Listening}
      BY <1>4
    <3>2. ListeningWithinLimit
      BY <2>1 DEF ListeningOK
    <3> QED BY <2>1, <3>1, <3>2 DEF ListeningWithinLimit
  <2> QED BY <2>2, <2>3, <2>4
<1>13. RotationOK'
  <2> SUFFICES ASSUME ModesStay, custom
               PROVE  /\ \A w \in Words : Rotates(rows'[w], w)
                      /\ \A a \in undo' : Rotates(a.row, cards'[a.card].word)
                      /\ ~ContinuesHardest(rows', cards'[i].word, mode)
    BY <1>1, <1>3, RotationStep
  <2>1. \A w \in Words : Rotates(rows'[w], w)
    BY <1>1 DEF RotationOK
  <2>2. \A a \in undo' : Rotates(a.row, cards'[a.card].word)
    BY <1>1, <1>4 DEF RotationOK, UndoOK
  <2>3. ~ContinuesHardest(rows', cards'[i].word, mode)
    <3> DEFINE w == cards[i].word
    <3>1. w \in Words /\ cards'[i].word = w
      BY <1>4, <1>5 DEF Card
    <3> SUFFICES ASSUME HardestOf(rows[w], w), mode = Max(Harder(enabled, w)) PROVE rows[w].streak < 3
      BY <1>1, <3>1 DEF ContinuesHardest
    <3>2. mode # Reveal
      <4>1. enabled \in SUBSET AllReviewModes /\ Reveal \in enabled
        BY <1>5, LearnersAreSound DEF RowsTypeOK
      <4>2. /\ Harder(enabled, w) \in SUBSET AllReviewModes /\ IsFiniteSet(Harder(enabled, w))
            /\ Reveal \notin Harder(enabled, w)
        BY <4>1, CompatibleModes
      <4> DEFINE hard == Harder(enabled, w)
      <4>3. Cardinality(hard) > 1 /\ hard \in SUBSET Nat
        BY <4>2, ModeNumbers DEF HardestOf
      <4> HIDE DEF hard
      <4>4. hard # {} /\ hard \in SUBSET Nat
        <5>1. Cardinality({}) = 0
          BY FS_EmptySet
        <5>2. hard = {} => FALSE
          BY <4>3, <5>1
        <5> QED BY <4>3, <5>2
      <4>5. Harder(enabled, w) # {} /\ Harder(enabled, w) \in SUBSET Nat
        BY <4>4 DEF hard
      <4>6. Max(Harder(enabled, w)) \in Harder(enabled, w)
        BY <4>2, <4>5, MaxOfFiniteSet
      <4> QED BY <4>2, <4>6
    <3>3. Synced(cards, i) = Max(Harder(enabled, w))
      BY <1>11, <3>2
    <3> QED BY <1>2, <1>5, <3>1, <3>3, HardestIsLeft
  <2> QED BY <2>1, <2>2, <2>3
<1> QED BY <1>8, <1>9, <1>10, <1>12, <1>13

(***************************************************************************)
(* The same reading by a caller that shows no card.                        *)
(***************************************************************************)
LEMMA ReadingInvariant ==
  ASSUME IInv, cards' = SyncPendingPoolItems(cards),
         UNCHANGED <<learner, rows, enabled, custom, shown, undo>>
  PROVE  IInv'
<1> USE DEF IInv
<1>1. UNCHANGED <<learner, rows, enabled, custom, shown, undo>>
  OBVIOUS
<1>2. /\ Positions' = Positions
      /\ \A j \in Positions :
           /\ cards'[j].word = cards[j].word /\ cards'[j].status = cards[j].status
           /\ cards'[j].used = cards[j].used
           /\ cards[j].status # "pending" => cards'[j] = cards[j]
           /\ cards[j].status = "pending" => cards'[j].mode = Synced(cards, j)
           /\ Proposed(cards, enabled)'[j] = Proposed(cards, enabled)[j]
           /\ MayListen(cards, j)' = MayListen(cards, j)
  BY <1>1, SyncedDeck
<1>3. TypeOK'
  <2>1. MaxCards' = MaxCards
    BY <1>1 DEF MaxCards
  <2> QED BY <1>1, <2>1, SyncType DEF TypeOK
<1>4. ShownOK' /\ UndoOK'
  BY <1>1, <1>2 DEF ShownOK, UndoOK
<1>5. ListeningOK'
  <2>1. ASSUME ModesStay, FillBlank \in enabled
        PROVE  ListeningWithinLimit'
    <3>1. {j \in Positions' : cards'[j].status = "completed" /\ cards'[j].used = Listening}
            = {j \in Positions : cards[j].status = "completed" /\ cards[j].used = Listening}
      BY <1>2
    <3>2. ListeningWithinLimit
      BY <2>1 DEF ListeningOK
    <3> QED BY <2>1, <3>1, <3>2 DEF ListeningWithinLimit
  <2>2. ASSUME ModesStay, FillBlank \in enabled
        PROVE  \A j \in Positions' : cards'[j].status = "completed" /\ cards'[j].used = Listening
                                       => cards'[j].mode = Listening
    BY <1>2, <2>2 DEF ListeningOK
  <2>3. CASE shown.mode # Listening
    BY <1>1, <2>1, <2>2, <2>3 DEF ListeningOK, ModesStay
  <2>4. CASE shown.mode = Listening
    <3>1. PICK i \in Positions : i = shown.card /\ cards[i].status = "pending"
      BY <2>4 DEF ShownOK, Listening, None
    <3>2. ASSUME ModesStay, FillBlank \in enabled
          PROVE  /\ cards'[i].mode = Listening
                 /\ Proposed(cards, enabled)'[i] = Listening
                 /\ MayListen(cards, i)'
      <4>1. Proposed(cards, enabled)[i] = Listening /\ MayListen(cards, i)
        BY <2>4, <3>1, <3>2 DEF ListeningOK
      <4>2. Synced(cards, i) = Listening
        BY <4>1 DEF Synced
      <4> QED BY <1>2, <3>1, <4>1, <4>2
    <3>3. shown' = shown /\ shown'.card = i
      BY <1>1, <3>1
    <3> QED BY <1>1, <2>1, <2>2, <3>2, <3>3 DEF ListeningOK, ModesStay
  <2> QED BY <2>3, <2>4
<1>6. RotationOK'
  <2> SUFFICES ASSUME ModesStay, custom
               PROVE  /\ \A v \in Words : Rotates(rows'[v], v)
                      /\ \A a \in undo' : Rotates(a.row, cards'[a.card].word)
                      /\ shown'.card # 0 => ~ContinuesHardest(rows', cards'[shown'.card].word, shown'.mode)
    BY <1>1, RotationStep
  <2> QED BY <1>1, <1>2 DEF RotationOK, ShownOK, UndoOK
<1> QED BY <1>3, <1>4, <1>5, <1>6

---------------------------------------------------------------------------
(* The other steps *)

LEMMA PendingCards ==
  ASSUME RowsTypeOK, NEW w \in Words, NEW row \in Row
  PROVE  /\ NewCard(w, Configured(row, enabled, w)) \in Card
         /\ NewCard(w, Configured(row, enabled, w)).status = "pending"
<1>1. Reveal \in enabled /\ enabled \in SUBSET AllReviewModes
      /\ row.profile \in Profile /\ row.lastMode \in LastModes
  BY LearnersAreSound DEF RowsTypeOK, Row
<1>2. Configured(row, enabled, w) \in AllReviewModes
  BY <1>1, ConfiguredIsCompatible
<1> QED BY <1>2 DEF NewCard, Card, None

LEMMA AppendedDeck ==
  ASSUME RowsTypeOK, NEW n \in Nat, NEW deck \in [1..n -> Card], NEW w \in Words, NEW row \in Row
  PROVE  /\ Appended(deck, w, row) \in [1..(n + 1) -> Card]
         /\ \A i \in 1..n : Appended(deck, w, row)[i] = deck[i]
         /\ Appended(deck, w, row)[n + 1].status = "pending"
<1>1. DOMAIN deck = 1..n /\ Cardinality(DOMAIN deck) = n
  BY CountOfInterval
<1>2. Appended(deck, w, row)
        = [i \in 1..(n + 1) |-> IF i \in 1..n THEN deck[i] ELSE NewCard(w, Configured(row, enabled, w))]
  BY <1>1 DEF Appended
<1> DEFINE new == NewCard(w, Configured(row, enabled, w))
<1>3. new \in Card /\ new.status = "pending"
  BY PendingCards
<1> HIDE DEF new
<1>4. Appended(deck, w, row) = [i \in 1..(n + 1) |-> IF i \in 1..n THEN deck[i] ELSE new]
  BY <1>2 DEF new
<1>5. 1..n \subseteq 1..(n + 1) /\ n + 1 \in 1..(n + 1) /\ n + 1 \notin 1..n
  OBVIOUS
<1> QED BY <1>3, <1>4, <1>5

LEMMA SubmitReviewInvariant ==
  ASSUME IInv, SubmitReview, UNCHANGED learner
  PROVE  IInv'
<1> USE DEF IInv
<1> DEFINE i == shown.card
           w == cards[i].word
           n == Cardinality(Positions)
           done == [cards EXCEPT ![i].status = "completed", ![i].used = shown.mode]
<1>1. /\ i \in Positions /\ cards[i].status = "pending" /\ Recordable(shown.mode)
      /\ shown' = NothingShown /\ UNCHANGED <<learner, enabled, custom>>
  BY DEF SubmitReview
<1>2. PICK p \in learner.profiles, again \in BOOLEAN :
        /\ again => n < MaxCards
        /\ rows' = [rows EXCEPT ![w] = Outcome(rows[w], shown.mode, p)]
        /\ cards' = IF again THEN Appended(done, w, Outcome(rows[w], shown.mode, p)) ELSE done
        /\ undo' = {[card |-> i, row |-> rows[w], created |-> IF again THEN {n + 1} ELSE {}]}
  BY DEF SubmitReview
<1>3. /\ RowsTypeOK /\ MaxCards \in Nat /\ Positions = 1..n /\ n \in 0..MaxCards
      /\ cards \in [Positions -> Card] /\ rows \in [Words -> Row] /\ rows[w] \in Row /\ w \in Words
      /\ cards[i] \in Card /\ shown.mode \in LastModes /\ shown.mode \in AllReviewModes \cup {None}
  <2>1. /\ RowsTypeOK /\ MaxCards \in Nat /\ Positions = 1..n /\ n \in 0..MaxCards
        /\ cards \in [Positions -> Card] /\ rows \in [Words -> Row]
    BY CardsAreADeck, LearnersAreSound DEF TypeOK, RowsTypeOK
  <2>2. shown.mode \in LastModes /\ shown.mode \in AllReviewModes \cup {None}
    BY <1>1 DEF TypeOK, Recordable
  <2>3. cards[i] \in Card /\ w \in Words
    BY <1>1, <2>1 DEF Card
  <2> QED BY <2>1, <2>2, <2>3
<1> DEFINE row == Outcome(rows[w], shown.mode, p)
<1>4. /\ row \in Row /\ row.lastMode = shown.mode
      /\ row.streak = IF shown.mode = rows[w].lastMode THEN rows[w].streak + 1 ELSE 1
  BY <1>2, <1>3 DEF Outcome, Row
<1>5. /\ rows' = [rows EXCEPT ![w] = row] /\ rows' \in [Words -> Row]
      /\ rows'[w] = row /\ \A v \in Words : v # w => rows'[v] = rows[v]
  <2> HIDE DEF row
  <2> QED BY <1>2, <1>3, <1>4 DEF row
<1>6. /\ done \in [1..n -> Card] /\ done[i].word = w
      /\ done[i].status = "completed" /\ done[i].used = shown.mode /\ done[i].mode = cards[i].mode
      /\ \A j \in Positions : j # i => done[j] = cards[j]
  BY <1>1, <1>3 DEF Card
<1> HIDE DEF done, row
<1> DEFINE m == IF again THEN n + 1 ELSE n
<1>7. /\ m \in 0..MaxCards /\ cards' \in [1..m -> Card] /\ Positions' = 1..m
      /\ \A j \in Positions : j \in Positions' /\ cards'[j] = done[j]
      /\ \A j \in Positions' : j \notin Positions => cards'[j].status = "pending"
  <2>1. n \in Nat /\ (again => n < MaxCards)
    BY <1>2, <1>3
  <2>2. CASE ~again
    <3>1. cards' = done
      BY <1>2, <2>2 DEF row
    <3> QED BY <1>3, <1>6, <2>2, <3>1 DEF Positions
  <2>3. CASE again
    <3>1. cards' = Appended(done, w, row)
      BY <1>2, <2>3 DEF row
    <3>2. /\ cards' \in [1..(n + 1) -> Card] /\ \A j \in 1..n : cards'[j] = done[j]
          /\ cards'[n + 1].status = "pending"
      BY <1>3, <1>4, <1>6, <2>1, <3>1, AppendedDeck
    <3>3. Positions' = 1..(n + 1) /\ n + 1 \in 0..MaxCards /\ m = n + 1
      BY <1>3, <2>1, <2>3, <3>2 DEF Positions
    <3>4. \A j \in 1..(n + 1) : j \notin 1..n => j = n + 1
      BY <2>1
    <3>5. \A j \in 1..n : j \in 1..(n + 1)
      BY <2>1
    <3> QED BY <1>3, <3>2, <3>3, <3>4, <3>5
  <2> QED BY <2>2, <2>3
<1>8. TypeOK'
  <2>1. /\ Words' = Words /\ MaxCards' = MaxCards /\ Row' = Row /\ Card' = Card /\ Answer' = Answer
    BY <1>1 DEF Words, MaxCards, Row, Card, Answer
  <2>2. i \in 1..MaxCards /\ (again => n + 1 \in 1..MaxCards)
    BY <1>1, <1>2, <1>3
  <2>3. undo' \subseteq Answer
    BY <1>2, <1>3, <2>2 DEF Answer
  <2>4. Cardinality(undo') <= 1
    <3>1. Cardinality(undo') = 1
      BY <1>2, FS_Singleton
    <3> QED BY <3>1
  <2>5. shown' \in [card: 0..MaxCards, mode: AllReviewModes \cup {None}]
    BY <1>1, <1>3 DEF NothingShown
  <2> QED BY <1>1, <1>3, <1>5, <1>7, <2>1, <2>3, <2>4, <2>5 DEF TypeOK, RowsTypeOK
<1>9. ShownOK'
  BY <1>1 DEF ShownOK, NothingShown
<1>10. UndoOK'
  BY <1>1, <1>2, <1>7 DEF UndoOK
<1>11. ListeningOK'
  <2> DEFINE listened == {j \in Positions : cards[j].status = "completed" /\ cards[j].used = Listening}
             heard == {j \in Positions : cards[j].status = "completed" /\ cards[j].mode = Listening}
  <2> SUFFICES ASSUME ModesStay, FillBlank \in enabled
               PROVE  /\ \A j \in Positions' : cards'[j].status = "completed" /\ cards'[j].used = Listening
                                                 => cards'[j].mode = Listening
                      /\ Cardinality(listened') <= dailyListeningItemLimit
    BY <1>1 DEF ListeningOK, ListeningWithinLimit, ModesStay, NothingShown, None, Listening
  <2>1. /\ listened \subseteq heard /\ Cardinality(listened) <= dailyListeningItemLimit
        /\ shown.mode = Listening => cards[i].mode = Listening /\ MayListen(cards, i)
    BY DEF ListeningOK, ListeningWithinLimit
  <2>2. \A j \in Positions' : cards'[j].status = "completed" /\ cards'[j].used = Listening
                                => cards'[j].mode = Listening
    <3> SUFFICES ASSUME NEW j \in Positions', cards'[j].status = "completed", cards'[j].used = Listening
                 PROVE  cards'[j].mode = Listening
      OBVIOUS
    <3>1. j \in Positions /\ cards'[j] = done[j]
      BY <1>7
    <3>2. CASE j = i
      BY <1>6, <2>1, <3>1, <3>2
    <3>3. CASE j # i
      BY <1>6, <2>1, <3>1, <3>3
    <3> QED BY <3>2, <3>3
  <2>3. listened' \subseteq listened \cup (IF shown.mode = Listening THEN {i} ELSE {})
    <3> SUFFICES ASSUME NEW j \in Positions', cards'[j].status = "completed", cards'[j].used = Listening,
                        j \notin listened
                 PROVE  shown.mode = Listening /\ j = i
      OBVIOUS
    <3>1. j \in Positions /\ cards'[j] = done[j]
      BY <1>7
    <3> QED BY <1>6, <3>1
  <2>4. IsFiniteSet(Positions) /\ IsFiniteSet(heard) /\ IsFiniteSet(listened)
    <3>1. IsFiniteSet(Positions)
      BY <1>3, CountOfInterval
    <3> QED BY <3>1, FS_Subset
  <2>5. Cardinality(listened') <= dailyListeningItemLimit
    <3>1. CASE shown.mode # Listening
      <4>1. listened' \subseteq listened
        BY <2>3, <3>1
      <4>2. Cardinality(listened') <= Cardinality(listened) /\ Cardinality(listened) \in Nat
            /\ Cardinality(listened') \in Nat
        <5> HIDE DEF listened
        <5> QED BY <2>4, <4>1, FS_Subset, FS_CardinalityType
      <4> HIDE DEF listened
      <4> QED BY <2>1, <4>2, ModesAssumption
    <3>2. CASE shown.mode = Listening
      <4>1. Cardinality(heard) < dailyListeningItemLimit
        <5> DEFINE before == {j \in 1..(i - 1) :
                                cards[j].status = "pending" /\ Proposed(cards, enabled)[j] = Listening}
        <5>1. Heard(cards) + Cardinality(before) < dailyListeningItemLimit
          BY <2>1, <3>2 DEF MayListen
        <5>2. Heard(cards) = Cardinality(heard)
          BY DEF Heard, Positions
        <5>3. Cardinality(before) \in Nat
          <6>1. before \subseteq Positions
            BY <1>1, <1>3
          <6> HIDE DEF before
          <6> QED BY <2>4, <6>1, FS_Subset, FS_CardinalityType
        <5>4. Cardinality(heard) \in Nat
          <6> HIDE DEF heard
          <6> QED BY <2>4, FS_CardinalityType
        <5> HIDE DEF before, heard
        <5> QED BY <5>1, <5>2, <5>3, <5>4, ModesAssumption
      <4>2. listened' \subseteq listened \cup {i}
        BY <2>3, <3>2
      <4> HIDE DEF heard, listened
      <4>3. Cardinality(listened) <= Cardinality(heard) /\ Cardinality(heard) \in Nat
            /\ Cardinality(listened) \in Nat
        BY <2>1, <2>4, FS_Subset, FS_CardinalityType
      <4>4. IsFiniteSet(listened \cup {i}) /\ Cardinality(listened \cup {i}) <= Cardinality(listened) + 1
        <5>1. IsFiniteSet(listened \cup {i})
              /\ Cardinality(listened \cup {i})
                   = IF i \in listened THEN Cardinality(listened) ELSE Cardinality(listened) + 1
          BY <2>4, FS_AddElement
        <5> QED BY <4>3, <5>1
      <4>5. Cardinality(listened') <= Cardinality(listened \cup {i}) /\ Cardinality(listened') \in Nat
            /\ Cardinality(listened \cup {i}) \in Nat
        BY <4>2, <4>4, FS_Subset, FS_CardinalityType
      <4> QED BY <4>1, <4>3, <4>4, <4>5, ModesAssumption
    <3> QED BY <3>1, <3>2
  <2> QED BY <2>2, <2>5
<1>12. RotationOK'
  <2> SUFFICES ASSUME ModesStay, custom
               PROVE  /\ \A v \in Words : Rotates(rows'[v], v)
                      /\ Rotates(rows[w], cards'[i].word)
    BY <1>1, <1>2, RotationStep DEF NothingShown
  <2>1. \A v \in Words : Rotates(rows[v], v)
    BY DEF RotationOK
  <2>2. ~ContinuesHardest(rows, w, shown.mode)
    BY <1>1, <1>3 DEF RotationOK
  <2>3. rows[w].streak \in Nat
    BY <1>3 DEF Row
  <2>4. Rotates(row, w)
    BY <1>4, <2>2, <2>3 DEF Rotates, HardestOf, ContinuesHardest
  <2>5. cards'[i].word = w
    BY <1>1, <1>6, <1>7
  <2> QED BY <1>3, <1>5, <2>1, <2>4, <2>5
<1> QED BY <1>8, <1>9, <1>10, <1>11, <1>12

LEMMA UndoLastAnswerInvariant ==
  ASSUME IInv, UndoLastAnswer, UNCHANGED learner
  PROVE  IInv'
<1> USE DEF IInv
<1>1. PICK a \in undo :
        /\ rows' = [rows EXCEPT ![cards[a.card].word] = a.row]
        /\ cards' = [i \in Positions |->
                       IF i \in a.created THEN [cards[i] EXCEPT !.status = "deleted"]
                       ELSE IF i = a.card THEN [cards[i] EXCEPT !.status = "pending", !.used = None]
                       ELSE cards[i]]
        /\ undo' = {} /\ shown' = NothingShown
        /\ UNCHANGED <<enabled, custom>>
  BY DEF UndoLastAnswer
<1>10. /\ undo' = {} /\ shown'.card = 0 /\ shown'.mode = None /\ shown' = [card |-> 0, mode |-> None]
       /\ UNCHANGED <<learner, enabled, custom>>
  <2>1. undo' = {} /\ shown' = NothingShown /\ UNCHANGED <<learner, enabled, custom>>
    BY <1>1
  <2> QED BY <2>1 DEF NothingShown
<1>2. /\ RowsTypeOK /\ MaxCards \in Nat /\ Positions = 1..Cardinality(Positions)
      /\ Cardinality(Positions) \in 0..MaxCards /\ cards \in [Positions -> Card]
      /\ rows \in [Words -> Row]
  BY CardsAreADeck, LearnersAreSound DEF TypeOK, RowsTypeOK
<1>3. a.row \in Row /\ a.card \in Positions /\ cards[a.card].word \in Words
  BY <1>2 DEF TypeOK, UndoOK, Answer, Card
<1>4. /\ cards' \in [Positions -> Card] /\ Positions' = Positions
      /\ \A i \in Positions :
           cards'[i].status = "completed" => cards'[i] = cards[i]
  <2>1. None \in AllReviewModes \cup {None}
    OBVIOUS
  <2>2. cards' \in [Positions -> Card]
    BY <1>1, <1>2, <2>1 DEF Card
  <2>3. \A i \in Positions : cards'[i].status = "completed" => cards'[i] = cards[i]
    BY <1>1, <1>2 DEF Card
  <2> QED BY <2>2, <2>3 DEF Positions
<1>5. rows' \in [Words -> Row]
  BY <1>1, <1>2, <1>3
<1>6. TypeOK'
  <2>1. /\ Words' = Words /\ MaxCards' = MaxCards /\ Row' = Row /\ Card' = Card /\ Answer' = Answer
    BY <1>10 DEF Words, MaxCards, Row, Card, Answer
  <2>2. shown' \in [card: 0..MaxCards, mode: AllReviewModes \cup {None}]
    BY <1>2, <1>10
  <2>3. undo' \subseteq Answer /\ Cardinality(undo') <= 1
    BY <1>10, FS_EmptySet
  <2>4. cards' \in [1..Cardinality(Positions) -> Card]
    BY <1>2, <1>4
  <2> QED BY <1>10, <1>2, <1>5, <2>1, <2>2, <2>3, <2>4 DEF TypeOK, RowsTypeOK
<1>7. ShownOK' /\ UndoOK'
  BY <1>10 DEF ShownOK, UndoOK
<1>8. ListeningOK'
  <2> DEFINE listened == {j \in Positions : cards[j].status = "completed" /\ cards[j].used = Listening}
  <2> SUFFICES ASSUME ModesStay, FillBlank \in enabled
               PROVE  /\ \A j \in Positions' : cards'[j].status = "completed" /\ cards'[j].used = Listening
                                                 => cards'[j].mode = Listening
                      /\ Cardinality(listened') <= dailyListeningItemLimit
    BY <1>10 DEF ListeningOK, ListeningWithinLimit, ModesStay, None, Listening
  <2>1. \A j \in Positions' : cards'[j].status = "completed" /\ cards'[j].used = Listening
                                => cards'[j].mode = Listening
    BY <1>4 DEF ListeningOK
  <2>2. Cardinality(listened) <= dailyListeningItemLimit
    BY DEF ListeningOK, ListeningWithinLimit
  <2>3. listened' \subseteq listened
    BY <1>4
  <2>4. IsFiniteSet(listened)
    <3>1. IsFiniteSet(Positions)
      BY <1>2, CountOfInterval
    <3> QED BY <3>1, FS_Subset
  <2> HIDE DEF listened
  <2>5. Cardinality(listened') <= Cardinality(listened) /\ Cardinality(listened) \in Nat
        /\ Cardinality(listened') \in Nat
    BY <2>3, <2>4, FS_Subset, FS_CardinalityType
  <2> QED BY <2>1, <2>2, <2>5, ModesAssumption
<1>9. RotationOK'
  <2> SUFFICES ASSUME ModesStay, custom PROVE \A v \in Words : Rotates(rows'[v], v)
    BY <1>10, RotationStep
  <2>1. (\A v \in Words : Rotates(rows[v], v)) /\ Rotates(a.row, cards[a.card].word)
    BY DEF RotationOK
  <2> QED BY <1>1, <1>2, <1>3, <2>1
<1> QED BY <1>6, <1>7, <1>8, <1>9

LEMMA AppendCardInvariant ==
  ASSUME IInv, NEW w \in Words, AppendCard(w), UNCHANGED learner
  PROVE  IInv'
<1> USE DEF IInv
<1> DEFINE n == Cardinality(Positions)
<1>1. /\ n < MaxCards /\ cards' = Appended(cards, w, rows[w])
      /\ UNCHANGED <<learner, rows, enabled, custom, shown, undo>>
  BY DEF AppendCard
<1>2. /\ RowsTypeOK /\ MaxCards \in Nat /\ Positions = 1..n
      /\ n \in 0..MaxCards /\ cards \in [1..n -> Card] /\ rows[w] \in Row
  BY CardsAreADeck, LearnersAreSound DEF TypeOK, RowsTypeOK
<1> HIDE DEF n
<1>3. /\ cards' \in [1..(n + 1) -> Card] /\ \A j \in 1..n : cards'[j] = cards[j]
      /\ cards'[n + 1].status = "pending"
  <2>1. n \in Nat
    BY <1>2
  <2> QED BY <1>1, <1>2, <2>1, AppendedDeck
<1>4. /\ Positions' = 1..(n + 1) /\ n + 1 \in 0..MaxCards
      /\ \A j \in 1..n : j \in 1..(n + 1)
      /\ \A j \in 1..(n + 1) : j \in 1..n \/ j = n + 1
  BY <1>1, <1>2, <1>3 DEF Positions
<1>5. \A j \in Positions' : (j \in Positions /\ cards'[j] = cards[j]) \/ cards'[j].status = "pending"
  BY <1>2, <1>3, <1>4
<1>6. \A j \in Positions : j \in Positions' /\ cards'[j] = cards[j]
  BY <1>2, <1>3, <1>4
<1>7. TypeOK'
  <2>1. /\ Words' = Words /\ MaxCards' = MaxCards /\ Row' = Row /\ Card' = Card /\ Answer' = Answer
    BY <1>1 DEF Words, MaxCards, Row, Card, Answer
  <2> QED BY <1>1, <1>3, <1>4, <2>1 DEF TypeOK
<1>8. ShownOK' /\ UndoOK'
  BY <1>1, <1>6 DEF ShownOK, UndoOK
<1>9. ListeningOK'
  <2> SUFFICES ASSUME ModesStay, FillBlank \in enabled
               PROVE  /\ \A j \in Positions' : cards'[j].status = "completed" /\ cards'[j].used = Listening
                                                 => cards'[j].mode = Listening
                      /\ shown'.mode = Listening => /\ cards'[shown'.card].mode = Listening
                                                    /\ Proposed(cards, enabled)'[shown.card] = Listening
                                                    /\ MayListen(cards, shown.card)'
                      /\ ListeningWithinLimit'
    BY <1>1 DEF ListeningOK, ModesStay
  <2>1. \A j \in Positions' : cards'[j].status = "completed" /\ cards'[j].used = Listening
                                => cards'[j].mode = Listening
    BY <1>5 DEF ListeningOK
  <2>2. \A j \in Positions : Proposed(cards, enabled)'[j] = Proposed(cards, enabled)[j]
    BY <1>1, <1>6 DEF Proposed, Positions, Configured, ShowsHardestAgain
  <2>3. {j \in DOMAIN cards' : cards'[j].status = "completed" /\ cards'[j].mode = Listening}
          = {j \in DOMAIN cards : cards[j].status = "completed" /\ cards[j].mode = Listening}
    BY <1>5, <1>6 DEF Positions
  <2>4. Heard(cards)' = Heard(cards)
    BY <2>3 DEF Heard
  <2>5. ASSUME shown.card \in Positions
        PROVE  MayListen(cards, shown.card)' = MayListen(cards, shown.card)
    <3> DEFINE before == {k \in 1..(shown.card - 1) :
                            cards[k].status = "pending" /\ Proposed(cards, enabled)[k] = Listening}
    <3>1. \A k \in 1..(shown.card - 1) : k \in Positions
      BY <1>2, <2>5
    <3>2. before' = before
      BY <1>1, <1>6, <2>2, <3>1
    <3>3. MayListen(cards, shown.card) = (Heard(cards) + Cardinality(before) < dailyListeningItemLimit)
      BY DEF MayListen
    <3>4. MayListen(cards, shown.card)' = (Heard(cards)' + Cardinality(before)' < dailyListeningItemLimit)
      BY DEF MayListen
    <3> HIDE DEF before
    <3> QED BY <2>4, <3>2, <3>3, <3>4
  <2>6. ASSUME shown.mode = Listening
        PROVE  /\ cards'[shown.card].mode = Listening
               /\ Proposed(cards, enabled)'[shown.card] = Listening
               /\ MayListen(cards, shown.card)'
    <3>1. shown.card \in Positions
      BY <2>6 DEF ShownOK, Listening, None
    <3>2. /\ cards[shown.card].mode = Listening /\ Proposed(cards, enabled)[shown.card] = Listening
          /\ MayListen(cards, shown.card)
      BY <2>6 DEF ListeningOK
    <3> QED BY <1>6, <2>2, <2>5, <3>1, <3>2
  <2>7. ListeningWithinLimit'
    <3>1. {j \in Positions' : cards'[j].status = "completed" /\ cards'[j].used = Listening}
            = {j \in Positions : cards[j].status = "completed" /\ cards[j].used = Listening}
      BY <1>5, <1>6
    <3>2. ListeningWithinLimit
      BY DEF ListeningOK
    <3> QED BY <3>1, <3>2 DEF ListeningWithinLimit
  <2> QED BY <1>1, <2>1, <2>6, <2>7
<1>10. RotationOK'
  <2> SUFFICES ASSUME ModesStay, custom
               PROVE  /\ \A v \in Words : Rotates(rows'[v], v)
                      /\ \A a \in undo' : Rotates(a.row, cards'[a.card].word)
                      /\ shown'.card # 0 => ~ContinuesHardest(rows', cards'[shown'.card].word, shown'.mode)
    BY <1>1, RotationStep
  <2> QED BY <1>1, <1>6 DEF RotationOK, ShownOK, UndoOK
<1> QED BY <1>7, <1>8, <1>9, <1>10

(***************************************************************************)
(* A set whose modes change is one whose modes do not stay.                *)
(***************************************************************************)
LEMMA UpdatePreferencesInvariant ==
  ASSUME IInv, NEW modes \in learner.enabled, UpdatePreferences(modes), UNCHANGED learner
  PROVE  IInv'
<1> USE DEF IInv
<1>1. /\ modes # enabled /\ enabled' = modes
      /\ UNCHANGED <<learner, rows, custom, shown, undo>>
  BY DEF UpdatePreferences
<1>2. ~ModesStay'
  BY <1>1 DEF ModesStay, TypeOK
<1>3. /\ RowsTypeOK /\ Cardinality(Positions) \in 0..MaxCards
      /\ Positions = 1..Cardinality(Positions) /\ cards \in [Positions -> Card]
      /\ Reveal \in modes /\ modes \in SUBSET AllReviewModes
  BY CardsAreADeck, LearnersAreSound DEF TypeOK, RowsTypeOK
<1>4. /\ cards' \in [Positions -> Card] /\ Positions' = Positions
      /\ \A i \in Positions : cards'[i].status = cards[i].status
  <2>1. CASE UNCHANGED cards
    BY <1>3, <2>1 DEF Positions
  <2>2. CASE cards' = [i \in Positions |->
                         IF cards[i].status = "pending"
                         THEN [cards[i] EXCEPT !.mode = Proposed(cards, modes)[i]] ELSE cards[i]]
    <3>1. ASSUME NEW i \in Positions
          PROVE  Proposed(cards, modes)[i] \in AllReviewModes /\ cards[i] \in Card
      <4>1. i \in DOMAIN cards /\ cards[i] \in Card /\ cards[i].word \in Words
        BY <1>3 DEF Card
      <4> QED BY <1>3, <4>1, ProposedIsCompatible
    <3> DEFINE proposed == Proposed(cards, modes)
    <3>2. \A i \in Positions : proposed[i] \in AllReviewModes /\ cards[i] \in Card
      BY <3>1
    <3> HIDE DEF proposed
    <3>3. cards' = [i \in Positions |-> IF cards[i].status = "pending"
                                        THEN [cards[i] EXCEPT !.mode = proposed[i]] ELSE cards[i]]
      BY <2>2 DEF proposed
    <3>4. \A i \in Positions : cards'[i] \in Card /\ cards'[i].status = cards[i].status
      BY <3>2, <3>3 DEF Card
    <3> QED BY <3>3, <3>4 DEF Positions
  <2> QED BY <2>1, <2>2 DEF UpdatePreferences
<1>5. TypeOK'
  <2>1. /\ Words' = Words /\ MaxCards' = MaxCards /\ Row' = Row /\ Card' = Card /\ Answer' = Answer
    BY <1>1 DEF Words, MaxCards, Row, Card, Answer
  <2>2. cards' \in [1..Cardinality(Positions) -> Card]
    BY <1>3, <1>4
  <2> QED BY <1>1, <1>3, <2>1, <2>2 DEF TypeOK
<1>6. ShownOK' /\ UndoOK'
  BY <1>1, <1>4 DEF ShownOK, UndoOK
<1>7. ListeningOK' /\ RotationOK'
  BY <1>2 DEF ListeningOK, RotationOK
<1> QED BY <1>5, <1>6, <1>7

LEMMA StutterInvariant == ASSUME IInv, UNCHANGED vars PROVE IInv'
<1>1. UNCHANGED <<learner, rows, enabled, custom, cards, shown, undo>>
  BY DEF vars
<1>2. /\ Words' = Words /\ MaxCards' = MaxCards /\ Row' = Row /\ Card' = Card /\ Answer' = Answer
      /\ Positions' = Positions /\ ModesStay' = ModesStay
  BY <1>1 DEF Words, MaxCards, Row, Card, Answer, Positions, ModesStay
<1>3. TypeOK' /\ ShownOK' /\ UndoOK'
  BY <1>1, <1>2 DEF IInv, TypeOK, ShownOK, UndoOK
<1>4. ListeningOK'
  <2>1. /\ Proposed(cards, enabled)' = Proposed(cards, enabled) /\ Heard(cards)' = Heard(cards)
    BY <1>1 DEF Proposed, Heard, Configured, ShowsHardestAgain
  <2>2. MayListen(cards, shown.card)' = MayListen(cards, shown.card)
    <3> DEFINE before == {j \in 1..(shown.card - 1) :
                            cards[j].status = "pending" /\ Proposed(cards, enabled)[j] = Listening}
    <3>1. before' = before
      BY <1>1, <2>1
    <3>2. MayListen(cards, shown.card) = (Heard(cards) + Cardinality(before) < dailyListeningItemLimit)
      BY DEF MayListen
    <3>3. MayListen(cards, shown.card)' = (Heard(cards)' + Cardinality(before)' < dailyListeningItemLimit)
      BY DEF MayListen
    <3> HIDE DEF before
    <3> QED BY <2>1, <3>1, <3>2, <3>3
  <2>3. ListeningWithinLimit' = ListeningWithinLimit
    BY <1>1, <1>2 DEF ListeningWithinLimit
  <2> QED BY <1>1, <1>2, <2>1, <2>2, <2>3 DEF IInv, ListeningOK
<1>5. RotationOK'
  BY <1>1, RotationStep DEF IInv, RotationOK
<1> QED BY <1>3, <1>4, <1>5 DEF IInv

---------------------------------------------------------------------------
(* All steps *)

LEMMA StepInvariant == IInv /\ [Next]_vars => IInv'
<1> SUFFICES ASSUME IInv, [Next]_vars PROVE IInv'
  OBVIOUS
<1>1. CASE UNCHANGED vars
  BY <1>1, StutterInvariant
<1>2. CASE Next
  <2>1. UNCHANGED learner
    BY <1>2 DEF Next
  <2>2. CASE GetNextCard
    BY <2>1, <2>2, GetNextCardInvariant
  <2>3. CASE SubmitReview
    BY <2>1, <2>3, SubmitReviewInvariant
  <2>4. CASE UndoLastAnswer
    BY <2>1, <2>4, UndoLastAnswerInvariant
  <2>5. CASE \E w \in Words : AppendCard(w)
    BY <2>1, <2>5, AppendCardInvariant
  <2>6. CASE \E modes \in learner.enabled : UpdatePreferences(modes)
    BY <2>1, <2>6, UpdatePreferencesInvariant
  <2> QED BY <1>2, <2>2, <2>3, <2>4, <2>5, <2>6 DEF Next
<1> QED BY <1>1, <1>2

(***************************************************************************)
(* Whatever is answered, undone, appended or preferred, the cards stay     *)
(* such that the cap and the rotation know what has been shown.            *)
(***************************************************************************)
THEOREM InductiveInvariant == Spec => []IInv
<1> QED BY InitInvariant, StepInvariant, PTL DEF Spec

(***************************************************************************)
(* Only GetNextCard shows a card, as it has just synchronised it.          *)
(***************************************************************************)
LEMMA ShowsEnabled ==
  ASSUME IInv, [Next]_vars, shown' # shown, shown'.card # 0
  PROVE  shown'.mode \in IF cards[shown'.card].word \in Phrases THEN enabled \ {BuildWord} ELSE enabled
<1> SUFFICES shown'.mode \in Compatible(enabled, cards[shown'.card].word)
  BY DEF Compatible
<1>0. Next
  BY DEF vars
<1>1. UNCHANGED learner
  BY <1>0 DEF Next
<1>2. ~SubmitReview
  BY DEF SubmitReview, NothingShown
<1>3. ~UndoLastAnswer
  <2> SUFFICES ASSUME UndoLastAnswer PROVE FALSE
    OBVIOUS
  <2>1. shown' = NothingShown
    BY DEF UndoLastAnswer
  <2> QED BY <2>1 DEF NothingShown
<1>4. \A w \in Words : ~AppendCard(w)
  BY DEF AppendCard
<1>5. \A modes \in learner.enabled : ~UpdatePreferences(modes)
  BY DEF UpdatePreferences
<1>6. GetNextCard
  BY <1>0, <1>2, <1>3, <1>4, <1>5 DEF Next
<1>7. cards' = SyncPendingPoolItems(cards) /\ UNCHANGED <<learner, rows, enabled, custom>>
  BY <1>1, <1>6 DEF GetNextCard
<1>8. PICK i \in Positions :
        /\ cards[i].status = "pending"
        /\ \E mode \in {cards'[i].mode} \cup (IF cards'[i].mode = Listening THEN {Reveal} ELSE {}) :
             shown' = [card |-> i, mode |-> mode]
  BY <1>6 DEF GetNextCard
<1>9. shown'.card = i /\ shown'.mode \in {cards'[i].mode, Reveal}
  BY <1>8
<1>10. cards'[i].mode \in Compatible(enabled, cards[i].word)
  BY <1>7, <1>8, SyncedDeck DEF IInv
<1>11. Reveal \in Compatible(enabled, cards[i].word)
  <2>1. Reveal \in enabled
    BY LearnersAreSound DEF IInv, TypeOK
  <2> QED BY <2>1 DEF Compatible, Reveal, BuildWord
<1> QED BY <1>9, <1>10, <1>11

---------------------------------------------------------------------------
(* Prompts *)


Job == [step: {"none", "read", "write", "ended"}, eligible: SUBSET Keys,
        missing: SUBSET Keys, complete: BOOLEAN]

(***************************************************************************)
(* Who has prompt k on its list.  A caller that has looked for the prompts *)
(* has it there only if it did not exist then, and takes it off by writing *)
(* it or losing it.                                                        *)
(***************************************************************************)
Writers(k) == {g \in Generators : k \in jobs[g].missing}

Booked ==
  /\ \A g \in Generators : jobs[g].step # "write" => jobs[g].missing = {}
  /\ \A k \in Keys : prompts[k] + Cardinality(Writers(k)) <= Cardinality(Generators)

(***************************************************************************)
(* What a caller must still write, or what can be shown.                   *)
(***************************************************************************)
Found ==
  \A g \in Generators :
    jobs[g].step \in {"write", "ended"} /\ jobs[g].complete =>
      jobs[g].eligible \subseteq LoadPromptsWithFallback \cup jobs[g].missing

JobsTypeOK ==
  /\ learner \in Learners
  /\ past \in learner.pasts
  /\ prompts \in [Keys -> Nat]
  /\ jobs \in [Generators -> Job]
  /\ \A g \in Generators : jobs[g].missing \subseteq jobs[g].eligible

PromptsIInv == JobsTypeOK /\ Booked /\ Found

---------------------------------------------------------------------------
LEMMA GeneratorsAreFinite ==
  ASSUME learner \in Learners
  PROVE  /\ IsFiniteSet(Generators)
         /\ Cardinality(Generators) \in Nat
<1>1. IsFiniteSet(Generators)
  BY PromptsAssumption DEF Generators
<1> QED BY <1>1, FS_CardinalityType

LEMMA WritersAreFinite ==
  ASSUME learner \in Learners, NEW k
  PROVE  /\ IsFiniteSet(Writers(k)) /\ Cardinality(Writers(k)) \in Nat
         /\ Cardinality(Writers(k)) <= Cardinality(Generators)
<1>1. Writers(k) \in SUBSET Generators
  BY DEF Writers
<1>2. IsFiniteSet(Writers(k)) /\ Cardinality(Writers(k)) <= Cardinality(Generators)
  BY <1>1, GeneratorsAreFinite, FS_Subset
<1> QED BY <1>2, FS_CardinalityType

LEMMA NothingBookedAtFirst == PromptsInit => PromptsIInv
<1> SUFFICES ASSUME PromptsInit PROVE PromptsIInv
  OBVIOUS
<1>1. learner \in Learners /\ past \in learner.pasts
  BY DEF PromptsInit, Init
<1>2. \A g \in Generators : jobs[g] = NoJob
  BY DEF PromptsInit
<1>3. JobsTypeOK
  <2>1. NoJob \in Job /\ NoJob.missing = {} /\ NoJob.eligible = {}
    BY DEF NoJob, Job
  <2>2. jobs \in [Generators -> Job] /\ prompts \in [Keys -> Nat]
    BY <2>1 DEF PromptsInit
  <2> QED BY <1>1, <1>2, <2>1, <2>2 DEF JobsTypeOK
<1>4. \A k \in Keys : prompts[k] + Cardinality(Writers(k)) <= Cardinality(Generators)
  <2> TAKE k \in Keys
  <2>1. prompts[k] = 0
    BY DEF PromptsInit
  <2> QED BY <1>1, <2>1, WritersAreFinite
<1>5. Booked
  BY <1>2, <1>4 DEF Booked, NoJob
<1>6. Found
  BY <1>2 DEF Found, NoJob
<1> QED BY <1>3, <1>5, <1>6 DEF PromptsIInv

(***************************************************************************)
(* A step that writes nothing and after which no caller has more to write. *)
(***************************************************************************)
LEMMA NobodyBooksMore ==
  ASSUME JobsTypeOK, Booked, UNCHANGED <<learner, prompts>>, NEW k \in Keys,
         Writers(k)' \subseteq Writers(k)
  PROVE  prompts'[k] + Cardinality(Writers(k))' <= Cardinality(Generators)'
<1>1. learner \in Learners /\ prompts[k] \in Nat /\ Generators' = Generators
  BY DEF JobsTypeOK, Generators
<1>2. IsFiniteSet(Writers(k)) /\ Writers(k)' \in SUBSET Writers(k)
  BY <1>1, WritersAreFinite
<1>3. /\ Cardinality(Writers(k)') <= Cardinality(Writers(k)) /\ IsFiniteSet(Writers(k)')
  BY <1>2, FS_Subset
<1>4. Cardinality(Writers(k)') \in Nat /\ Cardinality(Writers(k)) \in Nat
  BY <1>2, <1>3, FS_CardinalityType
<1>5. prompts[k] + Cardinality(Writers(k)) <= Cardinality(Generators)
  BY DEF Booked
<1> QED BY <1>1, <1>3, <1>4, <1>5, GeneratorsAreFinite

---------------------------------------------------------------------------
(* The steps of the callers *)

LEMMA PrewarmKeeps ==
  ASSUME PromptsIInv, NEW g \in Generators, Prewarm(g), UNCHANGED learner
  PROVE  PromptsIInv'
<1>1. PICK eligible \in SUBSET Keys :
        jobs' = [jobs EXCEPT ![g] = [NoJob EXCEPT !.step = "read", !.eligible = eligible]]
  BY DEF Prewarm, Candidates
<1>2. UNCHANGED <<learner, past, prompts, Generators, Keys, LoadPromptsWithFallback>>
  BY DEF Prewarm, Generators, Keys, Words, LoadPromptsWithFallback, LoadPrompts
<1>3. JobsTypeOK /\ jobs[g].step \in {"none", "ended"} /\ jobs[g].missing = {}
  BY DEF PromptsIInv, Booked, Prewarm
<1>4. jobs'[g].step = "read" /\ jobs'[g].missing = {}
  BY <1>1, <1>3 DEF JobsTypeOK, NoJob
<1>5. \A h \in Generators : h # g => jobs'[h] = jobs[h]
  BY <1>1, <1>3 DEF JobsTypeOK
<1>6. JobsTypeOK'
  <2>1. [NoJob EXCEPT !.step = "read", !.eligible = eligible] \in Job
    BY DEF NoJob, Job
  <2> QED BY <1>1, <1>2, <1>3, <1>4, <1>5, <2>1 DEF JobsTypeOK, Job
<1>7. Booked'
  <2>1. \A k \in Keys : Writers(k)' \subseteq Writers(k)
    BY <1>2, <1>4, <1>5 DEF Writers
  <2>2. \A k \in Keys : prompts'[k] + Cardinality(Writers(k))' <= Cardinality(Generators)'
    BY <1>2, <2>1, NobodyBooksMore DEF PromptsIInv
  <2> QED BY <1>2, <1>4, <1>5, <2>2 DEF PromptsIInv, Booked
<1>8. Found'
  BY <1>2, <1>4, <1>5 DEF PromptsIInv, Found
<1> QED BY <1>6, <1>7, <1>8 DEF PromptsIInv

(***************************************************************************)
(* A prompt put on the list does not exist: its writers are all it counts. *)
(***************************************************************************)
LEMMA FindMissingKeeps ==
  ASSUME PromptsIInv, NEW g \in Generators, FindMissing(g), UNCHANGED learner
  PROVE  PromptsIInv'
<1> DEFINE missing == {k \in jobs[g].eligible : k \notin LoadPrompts /\ ~Resting(k)}
<1>1. UNCHANGED <<learner, past, prompts, Generators, Keys, LoadPromptsWithFallback>>
  BY DEF FindMissing, Generators, Keys, Words, LoadPromptsWithFallback, LoadPrompts
<1>2. JobsTypeOK /\ jobs[g] \in Job
  BY DEF PromptsIInv, JobsTypeOK
<1>3. jobs'[g] = [jobs[g] EXCEPT !.step = "write", !.complete = TRUE, !.missing = missing]
  BY <1>2 DEF FindMissing, JobsTypeOK, Job
<1>4. \A h \in Generators : h # g => jobs'[h] = jobs[h]
  BY <1>2 DEF FindMissing, JobsTypeOK
<1>5. /\ jobs'[g].step = "write" /\ jobs'[g].missing = missing /\ jobs'[g].complete = TRUE
      /\ jobs'[g].eligible = jobs[g].eligible
  BY <1>2, <1>3 DEF Job
<1>6. JobsTypeOK'
  <2>1. jobs[g].eligible \in SUBSET Keys /\ missing \subseteq jobs[g].eligible
    BY <1>2 DEF Job
  <2>2. jobs'[g] \in Job
    BY <1>2, <1>3, <2>1 DEF Job
  <2>3. jobs' \in [Generators -> Job]
    <3>1. \A h \in Generators : jobs'[h] \in Job
      BY <1>2, <1>4, <2>2 DEF JobsTypeOK
    <3>2. jobs' = [h \in Generators |-> jobs'[h]]
      BY <1>2 DEF FindMissing, JobsTypeOK
    <3> QED BY <3>1, <3>2
  <2>4. Job' = Job
    BY <1>1 DEF Job
  <2> QED BY <1>1, <1>2, <1>4, <1>5, <2>1, <2>3, <2>4 DEF JobsTypeOK
<1>7. Booked'
  <2>1. ASSUME NEW k \in Keys
        PROVE  prompts'[k] + Cardinality(Writers(k))' <= Cardinality(Generators)'
    <3>1. CASE k \notin missing
      <4>1. Writers(k)' \subseteq Writers(k)
        BY <1>1, <1>4, <1>5, <3>1 DEF Writers
      <4> QED BY <1>1, <4>1, NobodyBooksMore DEF PromptsIInv
    <3>2. CASE k \in missing
      <4>1. prompts[k] = 0
        BY <1>2, <3>2 DEF JobsTypeOK, LoadPrompts
      <4>2. learner' \in Learners
        BY <1>1, <1>2 DEF JobsTypeOK
      <4>3. Writers(k)' \in SUBSET Generators
        BY <1>1 DEF Writers
      <4>4. /\ IsFiniteSet(Writers(k)') /\ Cardinality(Writers(k)') <= Cardinality(Generators)
        BY <1>2, <4>3, GeneratorsAreFinite, FS_Subset DEF JobsTypeOK
      <4>5. Cardinality(Writers(k)') \in Nat
        BY <4>4, FS_CardinalityType
      <4> QED BY <1>1, <4>1, <4>4, <4>5
    <3> QED BY <3>1, <3>2
  <2>2. \A h \in Generators' : jobs'[h].step # "write" => jobs'[h].missing = {}
    BY <1>1, <1>4, <1>5 DEF PromptsIInv, Booked
  <2> QED BY <1>1, <2>1, <2>2 DEF Booked
<1>8. Found'
  <2>1. jobs'[g].eligible \subseteq LoadPromptsWithFallback \cup missing
    BY <1>5 DEF LoadPromptsWithFallback, Resting
  <2> QED BY <1>1, <1>4, <1>5, <2>1 DEF PromptsIInv, Found
<1> QED BY <1>6, <1>7, <1>8 DEF PromptsIInv

(***************************************************************************)
(* What is written is taken off the list of its writer.                    *)
(***************************************************************************)
LEMMA SaveChunkKeeps ==
  ASSUME PromptsIInv, NEW g \in Generators, SaveChunk(g), UNCHANGED learner
  PROVE  PromptsIInv'
<1>1. PICK keys \in SUBSET jobs[g].missing :
        /\ prompts' = [k \in Keys |-> IF k \in keys THEN prompts[k] + 1 ELSE prompts[k]]
        /\ jobs' = [jobs EXCEPT ![g].missing = @ \ keys]
  BY DEF SaveChunk, Chunk
<1>2. UNCHANGED <<learner, past, Generators, Keys>>
  BY DEF SaveChunk, Generators, Keys, Words
<1>3. JobsTypeOK /\ jobs[g] \in Job /\ jobs[g].step = "write"
  BY DEF PromptsIInv, JobsTypeOK, SaveChunk
<1>4. /\ \A h \in Generators : h # g => jobs'[h] = jobs[h]
      /\ jobs'[g] = [jobs[g] EXCEPT !.missing = @ \ keys]
  BY <1>1, <1>3 DEF JobsTypeOK
<1>5. /\ jobs'[g].step = "write" /\ jobs'[g].missing = jobs[g].missing \ keys
      /\ jobs'[g].complete = jobs[g].complete /\ jobs'[g].eligible = jobs[g].eligible
  BY <1>3, <1>4 DEF Job
<1>6. prompts \in [Keys -> Nat] /\ prompts' \in [Keys -> Nat]
  BY <1>1, <1>3 DEF JobsTypeOK
<1>7. JobsTypeOK'
  <2>1. jobs'[g] \in Job
    BY <1>3, <1>4 DEF Job
  <2>2. \A h \in Generators : jobs'[h] \in Job
    BY <1>3, <1>4, <2>1 DEF JobsTypeOK
  <2>3. jobs' \in [Generators -> Job]
    BY <1>1, <1>3, <2>2 DEF JobsTypeOK
  <2>4. Job' = Job
    BY <1>2 DEF Job
  <2> QED BY <1>2, <1>3, <1>4, <1>5, <1>6, <2>3, <2>4 DEF JobsTypeOK
<1>8. Booked'
  <2>1. ASSUME NEW k \in Keys
        PROVE  prompts'[k] + Cardinality(Writers(k)') <= Cardinality(Generators)
    <3>1. /\ IsFiniteSet(Writers(k)) /\ Cardinality(Writers(k)) \in Nat
          /\ Cardinality(Generators) \in Nat
          /\ prompts[k] + Cardinality(Writers(k)) <= Cardinality(Generators)
      BY <1>3, WritersAreFinite, GeneratorsAreFinite DEF PromptsIInv, Booked, JobsTypeOK
    <3>2. CASE k \in keys
      <4>1. g \in Writers(k) /\ Writers(k)' = Writers(k) \ {g}
        BY <1>2, <1>4, <1>5, <3>2 DEF Writers
      <4>2. Cardinality(Writers(k)') = Cardinality(Writers(k)) - 1
        BY <3>1, <4>1, FS_RemoveElement
      <4>3. prompts'[k] = prompts[k] + 1
        BY <1>1, <3>2
      <4> QED BY <1>6, <3>1, <4>2, <4>3
    <3>3. CASE k \notin keys
      <4>1. Writers(k)' = Writers(k)
        BY <1>2, <1>4, <1>5, <3>3 DEF Writers
      <4>2. prompts'[k] = prompts[k]
        BY <1>1, <3>3
      <4> QED BY <3>1, <4>1, <4>2
    <3> QED BY <3>2, <3>3
  <2>2. \A h \in Generators : jobs'[h].step # "write" => jobs'[h].missing = {}
    BY <1>4, <1>5 DEF PromptsIInv, Booked
  <2> QED BY <1>2, <2>1, <2>2 DEF Booked
<1>9. Found'
  <2>1. keys \subseteq Keys
    BY <1>3 DEF Job
  <2>2. LoadPrompts \cup keys \subseteq LoadPrompts'
    <3>1. \A k \in Keys : k \in keys => prompts'[k] > 0
      BY <1>1, <1>6
    <3>2. \A k \in Keys : prompts[k] > 0 => prompts'[k] > 0
      BY <1>1, <1>6
    <3> QED BY <1>2, <2>1, <3>1, <3>2 DEF LoadPrompts
  <2>3. LoadPromptsWithFallback \cup keys \subseteq LoadPromptsWithFallback'
    BY <1>2, <2>2 DEF LoadPromptsWithFallback
  <2>4. ASSUME NEW h \in Generators, jobs'[h].step \in {"write", "ended"}, jobs'[h].complete
        PROVE  jobs'[h].eligible \subseteq LoadPromptsWithFallback' \cup jobs'[h].missing
    <3>1. jobs[h].step \in {"write", "ended"} /\ jobs[h].complete
      BY <1>3, <1>4, <1>5, <2>4
    <3>2. jobs[h].eligible \subseteq LoadPromptsWithFallback \cup jobs[h].missing
      BY <3>1 DEF PromptsIInv, Found
    <3> QED BY <1>4, <1>5, <2>3, <3>2
  <2> QED BY <1>2, <2>4 DEF Found
<1> QED BY <1>7, <1>8, <1>9 DEF PromptsIInv

(***************************************************************************)
(* A caller that loses a chunk, ends or is cut off has less to write, and  *)
(* claims no more than before.                                             *)
(***************************************************************************)
LEMMA WritingLessKeeps ==
  ASSUME PromptsIInv, NEW g \in Generators, LoseChunk(g) \/ EndPrewarm(g) \/ Abandon(g),
         UNCHANGED learner
  PROVE  PromptsIInv'
<1>1. UNCHANGED <<learner, past, prompts, Generators, Keys, LoadPromptsWithFallback>>
  BY DEF LoseChunk, EndPrewarm, Abandon, Generators, Keys, Words, LoadPromptsWithFallback, LoadPrompts
<1>2. JobsTypeOK /\ jobs[g] \in Job
  BY DEF PromptsIInv, JobsTypeOK
<1>3. PICK job \in Job :
        /\ jobs' = [jobs EXCEPT ![g] = job]
        /\ job.missing \subseteq jobs[g].missing /\ job.missing \subseteq job.eligible
        /\ job.step # "write" => job.missing = {}
        /\ job.step \in {"write", "ended"} /\ job.complete =>
             /\ job.eligible = jobs[g].eligible /\ job.missing = jobs[g].missing
             /\ jobs[g].step = "write" /\ jobs[g].complete
  <2>1. CASE LoseChunk(g)
    <3>1. PICK keys \in SUBSET jobs[g].missing :
            jobs' = [jobs EXCEPT ![g].missing = @ \ keys, ![g].complete = FALSE]
      BY <2>1 DEF LoseChunk, Chunk
    <3> DEFINE job == [jobs[g] EXCEPT !.missing = @ \ keys, !.complete = FALSE]
    <3>2. jobs' = [jobs EXCEPT ![g] = job]
      BY <1>2, <3>1 DEF JobsTypeOK, Job
    <3>3. job \in Job /\ job.missing = jobs[g].missing \ keys /\ job.complete = FALSE
          /\ job.step = "write" /\ job.eligible = jobs[g].eligible
      BY <1>2, <2>1 DEF Job, LoseChunk
    <3>4. jobs[g].missing \subseteq jobs[g].eligible
      BY <1>2 DEF JobsTypeOK
    <3> HIDE DEF job
    <3> QED BY <3>2, <3>3, <3>4
  <2>2. CASE EndPrewarm(g)
    <3> DEFINE job == [jobs[g] EXCEPT !.step = "ended"]
    <3>1. jobs' = [jobs EXCEPT ![g] = job]
      BY <1>2, <2>2 DEF EndPrewarm, JobsTypeOK, Job
    <3>2. job \in Job /\ job.missing = {} /\ job.complete = jobs[g].complete
          /\ job.step = "ended" /\ job.eligible = jobs[g].eligible
          /\ jobs[g].missing = {} /\ jobs[g].step = "write"
      BY <1>2, <2>2 DEF Job, EndPrewarm
    <3> HIDE DEF job
    <3> QED BY <3>1, <3>2
  <2>3. CASE Abandon(g)
    <3>1. NoJob \in Job /\ NoJob.missing = {} /\ NoJob.eligible = {} /\ NoJob.step = "none"
      BY DEF NoJob, Job
    <3> QED BY <2>3, <3>1 DEF Abandon
  <2> QED BY <2>1, <2>2, <2>3
<1>4. /\ \A h \in Generators : h # g => jobs'[h] = jobs[h]
      /\ jobs'[g] = job
  BY <1>2, <1>3 DEF JobsTypeOK
<1>5. JobsTypeOK'
  <2>1. jobs' \in [Generators -> Job]
    BY <1>2, <1>3 DEF JobsTypeOK
  <2>2. Job' = Job
    BY <1>1 DEF Job
  <2> QED BY <1>1, <1>2, <1>3, <1>4, <2>1, <2>2 DEF JobsTypeOK
<1>6. Booked'
  <2>1. \A k \in Keys : Writers(k)' \subseteq Writers(k)
    BY <1>1, <1>3, <1>4 DEF Writers
  <2>2. \A k \in Keys : prompts'[k] + Cardinality(Writers(k))' <= Cardinality(Generators)'
    BY <1>1, <2>1, NobodyBooksMore DEF PromptsIInv
  <2> QED BY <1>1, <1>3, <1>4, <2>2 DEF PromptsIInv, Booked
<1>7. Found'
  BY <1>1, <1>3, <1>4 DEF PromptsIInv, Found
<1> QED BY <1>5, <1>6, <1>7 DEF PromptsIInv

(***************************************************************************)
(* Cards may be read, answered, taken back and appended, and the modes     *)
(* change: the callers go by what they have read.                          *)
(***************************************************************************)
LEMMA OtherStepsKeep ==
  ASSUME PromptsIInv, UNCHANGED <<learner, promptVars>>
  PROVE  PromptsIInv'
<1>1. UNCHANGED <<learner, past, prompts, jobs>>
  BY DEF promptVars
<1>2. UNCHANGED <<Generators, Keys>>
  BY <1>1 DEF Generators, Keys, Words
<1>3. UNCHANGED <<Job, LoadPromptsWithFallback>>
  BY <1>1, <1>2 DEF Job, LoadPromptsWithFallback, LoadPrompts
<1>4. \A k : Writers(k)' = Writers(k)
  BY <1>1, <1>2 DEF Writers
<1> QED BY <1>1, <1>2, <1>3, <1>4 DEF PromptsIInv, JobsTypeOK, Booked, Found

(***************************************************************************)
(* No step, of a caller or of the learner, books a prompt twice.           *)
(***************************************************************************)
THEOREM PromptsInvariant == PromptsSpec => []PromptsIInv
<1>1. ASSUME PromptsIInv, [PromptsNext]_<<vars, promptVars>>
      PROVE  PromptsIInv'
  <2>1. CASE UNCHANGED <<learner, promptVars>>
    BY <1>1, <2>1, OtherStepsKeep
  <2>2. ASSUME NEW g \in Generators, UNCHANGED learner,
               \/ Prewarm(g) \/ FindMissing(g) \/ SaveChunk(g)
               \/ LoseChunk(g) \/ EndPrewarm(g) \/ Abandon(g)
        PROVE  PromptsIInv'
    BY <1>1, <2>2, PrewarmKeeps, FindMissingKeeps, SaveChunkKeeps, WritingLessKeeps
  <2> QED BY <1>1, <2>1, <2>2 DEF PromptsNext, Next, vars
<1> QED BY <1>1, NothingBookedAtFirst, PTL DEF PromptsSpec

(***************************************************************************)
(* A caller lists a prompt only while it does not exist; so however they   *)
(* overlap and are repeated, there are never more writings than callers.   *)
(***************************************************************************)
THEOREM PromptsNotRepeated == PromptsSpec => []PromptsAreNotRepeated
<1>1. PromptsIInv => PromptsAreNotRepeated
  <2> SUFFICES ASSUME PromptsIInv, NEW k \in Keys
               PROVE  prompts[k] <= Cardinality(Generators)
    BY DEF PromptsAreNotRepeated
  <2>1. learner \in Learners /\ prompts[k] \in Nat
    BY DEF PromptsIInv, JobsTypeOK
  <2>2. prompts[k] + Cardinality(Writers(k)) <= Cardinality(Generators)
    BY DEF PromptsIInv, Booked
  <2> QED BY <2>1, <2>2, WritersAreFinite, GeneratorsAreFinite
<1> QED BY <1>1, PromptsInvariant, PTL

(***************************************************************************)
(* A preparation that lost nothing leaves no card of its list without a    *)
(* prompt that can be shown.                                               *)
(***************************************************************************)
THEOREM PreparedFound == PromptsSpec => []PreparedPromptsAreFound
<1>1. PromptsIInv => PreparedPromptsAreFound
  BY DEF PromptsIInv, Booked, Found, PreparedPromptsAreFound
<1> QED BY <1>1, PromptsInvariant, PTL

---------------------------------------------------------------------------
(* The modes of cards, while prompts are being prepared *)

LEMMA PromptStepIsModeStep ==
  ASSUME IInv, [PromptsNext]_<<vars, promptVars>>
  PROVE  IInv' /\ ([Next]_vars \/ UNCHANGED shown)
<1>1. CASE UNCHANGED <<vars, promptVars>>
  <2>1. UNCHANGED vars
    BY <1>1
  <2> QED BY <2>1, StutterInvariant
<1>2. CASE Next
  BY <1>2, StepInvariant
<1>3. ASSUME NEW g \in Generators, Prewarm(g), UNCHANGED learner
      PROVE  IInv' /\ UNCHANGED shown
  BY <1>3, ReadingInvariant DEF Prewarm
<1>4. ASSUME NEW g \in Generators, UNCHANGED learner,
             FindMissing(g) \/ SaveChunk(g) \/ LoseChunk(g) \/ EndPrewarm(g) \/ Abandon(g)
      PROVE  IInv' /\ [Next]_vars
  <2>1. UNCHANGED vars
    BY <1>4 DEF FindMissing, SaveChunk, LoseChunk, EndPrewarm, Abandon
  <2> QED BY <2>1, StutterInvariant
<1> QED BY <1>1, <1>2, <1>3, <1>4 DEF PromptsNext

LEMMA ModesInvariant == PromptsSpec => []IInv
<1>1. PromptsInit => IInv
  BY InitInvariant DEF PromptsInit
<1>2. IInv /\ [PromptsNext]_<<vars, promptVars>> => IInv'
  BY PromptStepIsModeStep
<1> QED BY <1>1, <1>2, PTL DEF PromptsSpec

(***************************************************************************)
(* The types of cards, rows, prompts and jobs.                             *)
(***************************************************************************)
THEOREM PromptsTypeCorrect == PromptsSpec => []PromptsTypeOK
<1>1. IInv /\ PromptsIInv => PromptsTypeOK
  BY DEF IInv, PromptsIInv, JobsTypeOK, Job, PromptsTypeOK
<1> QED BY <1>1, ModesInvariant, PromptsInvariant, PTL

(***************************************************************************)
(* In a set that keeps its modes and has fill-in-the-blank among them, no  *)
(* more cards of the day are listened to than the limit allows: not with   *)
(* follow-ups, not with practice, not after undos, and not for the         *)
(* readings of the callers that prepare prompts.                           *)
(***************************************************************************)
THEOREM ListeningLimited == PromptsSpec => []ListeningWithinLimit
<1>1. IInv => ListeningWithinLimit
  BY DEF IInv, ListeningOK, ListeningWithinLimit
<1> QED BY <1>1, ModesInvariant, PTL

(***************************************************************************)
(* A custom set with another hard mode shows no word more than three times *)
(* in a row in its hardest mode.                                           *)
(***************************************************************************)
THEOREM HardestRotates == PromptsSpec => []HardestThriceAtMost
<1>1. IInv => HardestThriceAtMost
  BY DEF IInv, RotationOK, HardestThriceAtMost, Rotates, HardestOf
<1> QED BY <1>1, ModesInvariant, PTL

(***************************************************************************)
(* A card is shown in a mode that its set has enabled and its word allows, *)
(* also where the cap and a missing prompt have replaced the mode the      *)
(* schedule proposed.                                                      *)
(***************************************************************************)
THEOREM EnabledModesShown == PromptsSpec => ShownModeIsEnabled
<1>1. IInv /\ [PromptsNext]_<<vars, promptVars>> =>
        [shown' # shown /\ shown'.card # 0 =>
           shown'.mode \in IF cards[shown'.card].word \in Phrases THEN enabled \ {BuildWord} ELSE enabled]_vars
  BY PromptStepIsModeStep, ShowsEnabled
<1> QED BY <1>1, ModesInvariant, PTL DEF PromptsSpec, ShownModeIsEnabled
==============================================================================
