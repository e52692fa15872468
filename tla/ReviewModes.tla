---------------------------- MODULE ReviewModes ----------------------------
(***************************************************************************)
(* In which mode a review card is shown.  The schedule proposes a mode     *)
(* from the row of the word, the word set restricts it to the modes it has *)
(* enabled, a custom set moves on after three cards in its hardest mode,   *)
(* and listening, which is expensive, is capped per day.  Each stage can   *)
(* undo what an earlier one has decided.  One user, one day, one word set, *)
(* one client; the words have rows, and only review cards are modelled.    *)
(***************************************************************************)
EXTENDS Naturals, FiniteSets, FiniteSetsExt

CONSTANTS
  Phrases,          \* the words that are phrases
  Learners,         \* what is fixed about a user for the day, see Learner
  dailyListeningItemLimit

Reveal == 1
MultipleChoice == 2
BuildWord == 3
FillBlank == 4
Listening == 5
DefinitionFirst == 6
AllReviewModes == 1..6
None == 0

\* The CHECK constraint of user_word_states.last_mode.
LastModes == {None, Reveal, MultipleChoice, BuildWord, FillBlank, Listening}

\* The thresholds of logic.go, each as whether the row has reached it.
Profile == [stage: 0..4, cause: {"none", "forgot_meaning", "mixed_up_word", "spelling_issue"},
            hard: BOOLEAN,        \* the last rating
            mastered: BOOLEAN,    \* a construction streak, and neither difficult, weak nor wrong
            listens: BOOLEAN,     \* the seed of the advanced construction modes
            weak: BOOLEAN, wrong: BOOLEAN, hards: BOOLEAN, stuck: BOOLEAN, prolonged: BOOLEAN]

\* The words of the set, what the choice of a mode can see of their rows, the sets
\* of modes the user may enable, and a bound on the cards of the day.
Learner(p) ==
  /\ p.profiles \subseteq Profile /\ p.profiles # {}
  /\ \A modes \in p.enabled : Reveal \in modes /\ modes \subseteq AllReviewModes
  /\ p.maxCards \in Nat /\ Cardinality(p.words) <= p.maxCards

ASSUME ModesAssumption ==
  /\ dailyListeningItemLimit \in Nat
  /\ \A p \in Learners : IsFiniteSet(p.words) /\ Learner(p)

VARIABLES
  learner,     \* one of Learners
  rows,        \* of user_word_states: the profile, last_mode and mode_streak_count
  enabled,     \* the enabled_review_modes of the set
  custom,      \* whether its mode is custom
  cards,       \* the review cards of the day's pool, by position
  shown,       \* the card the client shows, and in which mode
  undo         \* the last answer and what undoing it needs
vars == <<learner, rows, enabled, custom, cards, shown, undo>>

Words == learner.words
MaxCards == learner.maxCards
Row == [profile: learner.profiles, lastMode: LastModes, streak: Nat]
Card == [word: Words, status: {"pending", "completed", "deleted"}, mode: AllReviewModes,
         used: AllReviewModes \cup {None}]
Positions == DOMAIN cards
NothingShown == [card |-> 0, mode |-> None]
Answer == [card: 1..MaxCards, row: Row, created: SUBSET (1..MaxCards)]

TypeOK ==
  /\ learner \in Learners
  /\ rows \in [Words -> Row]
  /\ enabled \in learner.enabled /\ custom \in BOOLEAN
  /\ \E n \in 0..MaxCards : cards \in [1..n -> Card]
  /\ shown \in [card: 0..MaxCards, mode: AllReviewModes \cup {None}]
  /\ undo \subseteq Answer /\ Cardinality(undo) <= 1

---------------------------------------------------------------------------
(* The mode the schedule proposes *)

Advanced(p) == p.mastered /\ p.cause \notin {"forgot_meaning", "mixed_up_word"}
SelectAdvancedConstructionMode(p) == IF p.listens THEN Listening ELSE FillBlank

AlternatingMode2Reveal(last) == IF last = MultipleChoice THEN Reveal ELSE MultipleChoice

ByCause(cause) ==
  CASE cause = "forgot_meaning" -> Reveal
    [] cause = "mixed_up_word"  -> MultipleChoice
    [] cause = "spelling_issue" -> BuildWord

\* The transition stage; a forgotten meaning is no reason there.
InTransition(p, last) ==
  IF p.cause \in {"mixed_up_word", "spelling_issue"} THEN ByCause(p.cause)
  ELSE IF p.weak \/ p.hard THEN AlternatingMode2Reveal(last) ELSE BuildWord

InReview(p, last) ==
  IF p.cause # "none" THEN ByCause(p.cause)
  ELSE IF (last = Reveal /\ p.hard /\ p.hards) \/ p.wrong THEN MultipleChoice
  ELSE IF p.weak THEN AlternatingMode2Reveal(last) ELSE BuildWord

\* maybeForceBuildWordMode
Forced(p, last, mode) ==
  IF mode = Reveal /\ last = Reveal /\ p.stuck THEN MultipleChoice
  ELSE IF {mode, last} \subseteq {Reveal, MultipleChoice} /\ p.prolonged THEN BuildWord ELSE mode

SelectReviewMode(row) ==
  LET p == row.profile
  IN IF p.stage \notin {0, 3} THEN Reveal
     ELSE IF Advanced(p) THEN SelectAdvancedConstructionMode(p)
     ELSE Forced(p, row.lastMode, IF p.stage = 3 THEN InTransition(p, row.lastMode) ELSE InReview(p, row.lastMode))

---------------------------------------------------------------------------
(* What the word set makes of it *)

\* Mutant of Compatible: phrases are not told apart.
CompatibleAlways(modes, w) == modes

\* Only single words can be built from their letters.
Compatible(modes, w) == IF w \in Phrases THEN modes \ {BuildWord} ELSE modes

Distance(m, n) == IF m < n THEN n - m ELSE m - n

\* selectEnabledReviewMode: the nearest mode, of two the easier.
SelectEnabledReviewMode(preferred, modes, w) ==
  CHOOSE m \in Compatible(modes, w) : \A n \in Compatible(modes, w) :
    \/ Distance(m, preferred) < Distance(n, preferred)
    \/ Distance(m, preferred) = Distance(n, preferred) /\ m <= n

Harder(modes, w) == Compatible(modes, w) \ {Reveal}

\* Mutant of ShowsHardestAgain: four cards in a row before the set moves on.
HardestFourTimes(row, modes, w) ==
  /\ custom /\ Harder(modes, w) # {}
  /\ row.lastMode = Max(Harder(modes, w)) /\ row.streak >= 4

\* Three cards in a row were shown in the hardest mode of a custom set.
ShowsHardestAgain(row, modes, w) ==
  /\ custom /\ Harder(modes, w) # {}
  /\ row.lastMode = Max(Harder(modes, w)) /\ row.streak >= 3

\* selectConfiguredReviewModeForPreferences
Configured(row, modes, w) ==
  LET others == Harder(modes, w) \ {row.lastMode}
  IN IF ShowsHardestAgain(row, modes, w) /\ others # {}
     THEN Max(others)
     ELSE SelectEnabledReviewMode(SelectReviewMode(row), modes, w)

\* The mode of a listening card beyond the cap.
Capped(w) == SelectEnabledReviewMode(FillBlank, enabled, w)

\* The pending cards as their rows and the set now have them; the first of those
\* that would be listening cards get what is left of the cap, in pool order.
Proposed(deck, modes) == [i \in DOMAIN deck |-> Configured(rows[deck[i].word], modes, deck[i].word)]
Heard(deck) == Cardinality({i \in DOMAIN deck : deck[i].status = "completed" /\ deck[i].mode = Listening})

\* Mutant of MayListen: cards that are done are not charged to the cap.
MayListenAnew(deck, i) ==
  LET before == {j \in 1..(i - 1) : deck[j].status = "pending" /\ Proposed(deck, enabled)[j] = Listening}
  IN Cardinality(before) < dailyListeningItemLimit

MayListen(deck, i) ==
  LET before == {j \in 1..(i - 1) : deck[j].status = "pending" /\ Proposed(deck, enabled)[j] = Listening}
  IN Heard(deck) + Cardinality(before) < dailyListeningItemLimit

SyncPendingPoolItems(deck) ==
  [i \in DOMAIN deck |->
     IF deck[i].status # "pending" THEN deck[i]
     ELSE [deck[i] EXCEPT !.mode =
             IF Proposed(deck, enabled)[i] = Listening /\ ~MayListen(deck, i)
             THEN Capped(deck[i].word) ELSE Proposed(deck, enabled)[i]]]

NewCard(w, mode) == [word |-> w, status |-> "pending", mode |-> mode, used |-> None]
Appended(deck, w, row) == [i \in 1..(Cardinality(DOMAIN deck) + 1) |->
                             IF i \in DOMAIN deck THEN deck[i] ELSE NewCard(w, Configured(row, enabled, w))]

---------------------------------------------------------------------------
(* Requests *)

\* The first opening of the day: a card for each due word, capped like a later one.
Init ==
  /\ learner \in Learners
  /\ rows \in [Words -> [profile: learner.profiles, lastMode: LastModes, streak: {0}]]
  /\ enabled \in learner.enabled /\ custom \in BOOLEAN
  /\ \E due \in SUBSET Words, order \in [1..Cardinality(Words) -> Words] :
       /\ \A w \in Words : \E i \in DOMAIN order : order[i] = w
       /\ \A i \in DOMAIN order : i <= Cardinality(due) <=> order[i] \in due
       /\ cards = SyncPendingPoolItems([i \in 1..Cardinality(due) |-> NewCard(order[i], Reveal)])
  /\ shown = NothingShown /\ undo = {}

\* Every reading of the pool synchronises its pending cards first.  A listening
\* card whose prompt is missing is shown in the one mode that needs nothing.
GetNextCard ==
  /\ cards' = SyncPendingPoolItems(cards)
  /\ \E i \in Positions :
       /\ cards[i].status = "pending"
       /\ \E mode \in {cards'[i].mode} \cup (IF cards'[i].mode = Listening THEN {Reveal} ELSE {}) :
            shown' = [card |-> i, mode |-> mode]
  /\ UNCHANGED <<rows, enabled, custom, undo>>

\* ApplyReviewOutcome, ApplyBonusPracticeOutcome
Outcome(row, mode, p) ==
  [profile |-> p, lastMode |-> mode, streak |-> IF mode = row.lastMode THEN row.streak + 1 ELSE 1]

\* The row is written first: a mode its table does not know fails the request.
Recordable(mode) == mode \in LastModes

SubmitReview ==
  LET i == shown.card
      w == cards[i].word
  IN /\ i \in Positions /\ cards[i].status = "pending"
     /\ Recordable(shown.mode)
     /\ \E p \in learner.profiles, again \in BOOLEAN :
          LET row == Outcome(rows[w], shown.mode, p)
              done == [cards EXCEPT ![i].status = "completed", ![i].used = shown.mode]
          IN /\ again => Cardinality(Positions) < MaxCards
             /\ rows' = [rows EXCEPT ![w] = row]
             /\ cards' = IF again THEN Appended(done, w, row) ELSE done
             /\ undo' = {[card |-> i, row |-> rows[w],
                          created |-> IF again THEN {Cardinality(Positions) + 1} ELSE {}]}
     /\ shown' = NothingShown
     /\ UNCHANGED <<enabled, custom>>

UndoLastAnswer ==
  \E a \in undo :
    /\ \A i \in a.created : cards[i].status = "pending"
    /\ rows' = [rows EXCEPT ![cards[a.card].word] = a.row]
    /\ cards' = [i \in Positions |->
                   IF i \in a.created THEN [cards[i] EXCEPT !.status = "deleted"]
                   ELSE IF i = a.card THEN [cards[i] EXCEPT !.status = "pending", !.used = None]
                   ELSE cards[i]]
    /\ undo' = {} /\ shown' = NothingShown
    /\ UNCHANGED <<enabled, custom>>

\* A due word found later, or one to be practised once more.
AppendCard(w) ==
  /\ Cardinality(Positions) < MaxCards
  /\ cards' = Appended(cards, w, rows[w])
  /\ UNCHANGED <<rows, enabled, custom, shown, undo>>

(***************************************************************************)
(* UpdateWordSetPreferences and RemapPendingReviewModes, which proposes    *)
(* the modes anew without the cap, and whose failure is only logged.       *)
(***************************************************************************)
UpdatePreferences(modes) ==
  /\ modes # enabled
  /\ enabled' = modes
  /\ \/ UNCHANGED cards
     \/ cards' = [i \in Positions |->
                    IF cards[i].status = "pending"
                    THEN [cards[i] EXCEPT !.mode = Proposed(cards, modes)[i]] ELSE cards[i]]
  /\ UNCHANGED <<rows, custom, shown, undo>>

Next ==
  /\ \/ GetNextCard \/ SubmitReview \/ UndoLastAnswer
     \/ \E w \in Words : AppendCard(w)
     \/ \E modes \in learner.enabled : UpdatePreferences(modes)
  /\ UNCHANGED learner

Spec == Init /\ [][Next]_vars

\* The client answers the card it shows.
FairSpec == Spec /\ WF_vars(SubmitReview /\ UNCHANGED learner)

---------------------------------------------------------------------------
(* Properties *)

\* Whatever the schedule, the rotation, the cap and a missing prompt make of it,
\* a card is shown in a mode its set has enabled and its word allows.
ShownModeIsEnabled ==
  [][shown' # shown /\ shown'.card # 0 =>
       shown'.mode \in IF cards[shown'.card].word \in Phrases THEN enabled \ {BuildWord} ELSE enabled]_vars

\* Nothing is changed about the modes: a card shown before a change is answered after it
\* in a mode that the cards of the pool know no more.
ModesStay == learner.enabled = {enabled}

\* The cap of listening: of the cards done today no more were listened to, through
\* follow-ups, practice and undos.  What is beyond the cap is to be filled in, so that
\* mode must be enabled: the nearest to it may otherwise be listening again.
ListeningWithinLimit ==
  ModesStay /\ FillBlank \in enabled =>
    Cardinality({i \in Positions : cards[i].status = "completed" /\ cards[i].used = Listening})
      <= dailyListeningItemLimit

\* A custom set with another hard mode does not show a word four times in a row in
\* its hardest, through the cap, missing prompts and undos.
HardestThriceAtMost ==
  ModesStay /\ custom =>
    \A w \in Words :
      LET hard == Harder(enabled, w)
      IN Cardinality(hard) > 1 /\ rows[w].lastMode = Max(hard) => rows[w].streak <= 3

\* The test of the rotation counts three cards answered in the mode of the
\* definition: a card that is shown can be answered.
ShownCardsGetDone == \A i \in {1, 2} : shown.card = i ~> shown.card # i
===========================================================================
