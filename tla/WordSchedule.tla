--------------------------- MODULE WordSchedule ---------------------------
(***************************************************************************)
(* The spaced-repetition schedule of one word: the part of a               *)
(* user_word_states row that decides whether and when the word is shown    *)
(* again (status, learning_stage, next_review_at), and the functions of    *)
(* logic.go and memory_cause.go that rewrite it.                           *)
(*                                                                         *)
(* Time is an integer number of ticks.  Durations the code fixes are       *)
(* constants; the length of a review interval (a product of floating-point *)
(* multipliers, stability and bias factors) is any member of ReviewGaps.   *)
(***************************************************************************)
EXTENDS Integers

CONSTANTS
  FiveMinutes,   \* a hard answer in consolidation stage 1
  TenMinutes,    \* the first exposure of an unknown word
  EightHours,    \* consolidation stage 2
  OneDay,        \* consolidation stage 3
  TwoDays,       \* graduation to the review phase
  ReviewGaps     \* every interval a review-phase answer can produce (>= 4 h)

ASSUME DurationsAssumption ==
  /\ {FiveMinutes, TenMinutes, EightHours, OneDay, TwoDays} \subseteq Nat
  /\ ReviewGaps \subseteq Nat

Null == -1       \* SQL NULL in a timestamp column

Statuses == {"none", "learning", "review", "known"}

StateRow == [status: Statuses, stage: 0..3, due: Nat \cup {Null}]

\* The user has no user_word_states row for the word.
NoRow == [status |-> "none", stage |-> 0, due |-> Null]

LearningRow(stage, due) == [status |-> "learning", stage |-> stage, due |-> due]
ReviewRow(due)          == [status |-> "review",   stage |-> 0,     due |-> due]
KnownRow                == [status |-> "known",    stage |-> 0,     due |-> Null]

---------------------------------------------------------------------------

ApplyFirstExposureUnknown(t) == LearningRow(1, t + TenMinutes)

\* "I know it" and "don't learn it" leave the same row.
ApplyFirstExposureKnown == KnownRow

\* Mutant of NextConsolidationStep: graduation forgets to reset the stage.
NextConsolidationStepKeepsStage(stage, hard, t) ==
  [status |-> IF hard \/ stage < 3 THEN "learning" ELSE "review",
   stage  |-> IF hard THEN stage ELSE IF stage < 3 THEN stage + 1 ELSE 3,
   due    |-> t + EightHours]

(***************************************************************************)
(* nextConsolidationStep, for the stages 1..3 it is called with.  A hard   *)
(* answer repeats the stage, any other answer advances it; the row that    *)
(* leaves stage 3 is in the review phase.                                  *)
(***************************************************************************)
NextConsolidationStep(stage, hard, t) ==
  IF hard
  THEN LearningRow(stage, t + (CASE stage = 1 -> FiveMinutes
                                 [] stage = 2 -> EightHours
                                 [] stage = 3 -> OneDay))
  ELSE CASE stage = 1 -> LearningRow(2, t + EightHours)
         [] stage = 2 -> LearningRow(3, t + OneDay)
         [] stage = 3 -> ReviewRow(t + TwoDays)

\* A review-phase answer writes any interval; the row it leaves is in the review phase.
ApplyReviewOutcome(row, hard, t) ==
  IF row.stage > 0
  THEN {NextConsolidationStep(row.stage, hard, t)}
  ELSE {ReviewRow(t + gap) : gap \in ReviewGaps}

\* The slow or guessed recall, and the struggle to spell a word, may change the
\* interval the answer wrote, of rows in the review phase only.
ApplyMemoryCauseIntervalBias(row, t) ==
  {row} \cup {ReviewRow(t + gap) : gap \in IF row.status = "review" THEN ReviewGaps ELSE {}}
ApplyWordConstructionFeedback(row, t) ==
  {row} \cup {ReviewRow(t + gap) : gap \in IF row.status = "review" THEN ReviewGaps ELSE {}}

\* Every row a scheduled review answer can write.
ReviewOutcomes(row, hard, t) ==
  LET biased(outcome) == UNION {ApplyWordConstructionFeedback(r, t) :
                                  r \in ApplyMemoryCauseIntervalBias(outcome, t)}
  IN UNION {biased(outcome) : outcome \in ApplyReviewOutcome(row, hard, t)}

---------------------------------------------------------------------------
\* The two queries of ListDueWithinWindow, and that of ListWeakCandidates.

IsShortTermDue(row, end) ==
  /\ row.status = "learning" /\ row.stage > 0
  /\ row.due # Null /\ row.due <= end

IsReviewDue(row, end) ==
  /\ row.status = "review" /\ row.stage = 0
  /\ row.due # Null /\ row.due <= end

IsWeakCandidate(row) == row.status \in {"learning", "review"}

(***************************************************************************)
(* A row is schedulable when the word is either retired (known, never due) *)
(* or will be found by exactly one of the two due queries once its time    *)
(* comes.  A learning row at stage 0, a review row with a stage, or an     *)
(* active row without a due time would never be served again.              *)
(***************************************************************************)
Schedulable(row) ==
  \/ row = NoRow
  \/ row = KnownRow
  \/ row.status = "learning" /\ row.stage \in 1..3 /\ row.due \in Nat
  \/ row.status = "review"   /\ row.stage = 0      /\ row.due \in Nat
===========================================================================
