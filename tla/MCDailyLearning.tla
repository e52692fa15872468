-------------------------- MODULE MCDailyLearning --------------------------
(***************************************************************************)
(* DailyLearning for TLC.  MCSpec interleaves the planned day with at most *)
(* MaxExtras requests of the other kinds: each of them can come before,    *)
(* between or after any others, only their number is bounded.              *)
(***************************************************************************)
EXTENDS DailyLearning

CONSTANTS
  MaxExtras,    \* bound: requests outside the planned day
  MayRelist     \* whether they may move a word between the known and the unknown list
ASSUME MCAssumption == MaxExtras \in Nat /\ MayRelist \in BOOLEAN

VARIABLE extras        \* how many of them there have been

MCReviewGaps == {2, 4}
MCOneReviewGap == {2}

Relists == \E w \in Words, known \in BOOLEAN : UpdateDictionaryWord(w, known)

Extra ==
  \/ NextCardAddsPractice
  \/ AppendMoreNewWords
  \/ ForceRebuildTodayPool
  \/ DictionaryNext /\ (MayRelist \/ ~Relists)

MCInit == Init /\ extras = 0
MCNext ==
  \/ PlannedNext /\ UNCHANGED extras
  \/ Extra /\ extras < MaxExtras /\ extras' = extras + 1

MCSpec == MCInit /\ [][MCNext]_<<vars, extras>>
=============================================================================
