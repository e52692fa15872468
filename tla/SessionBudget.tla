--------------------------- MODULE SessionBudget ---------------------------
(***************************************************************************)
(* What a study session promises its user: a budget of Cap answers, spent  *)
(* one at a time, of which only an undo gives one back, and the word that  *)
(* it is spent exactly when it is.  StudySession implements it by counting *)
(* a log of events that is only ever added to.                             *)
(***************************************************************************)
EXTENDS Naturals

CONSTANTS Sessions, Cap

VARIABLES
  reviews, news,   \* the answers of each session that stand, by kind
  told             \* the sessions whose client has been told that they are over
vars == <<reviews, news, told>>

Spent(s) == reviews[s] + news[s]

Init ==
  /\ reviews = [s \in Sessions |-> 0] /\ news = [s \in Sessions |-> 0]
  /\ told = {}

Review(s) ==
  /\ Spent(s) < Cap
  /\ reviews' = [reviews EXCEPT ![s] = @ + 1] /\ UNCHANGED <<news, told>>

Learn(s) ==
  /\ Spent(s) < Cap
  /\ news' = [news EXCEPT ![s] = @ + 1] /\ UNCHANGED <<reviews, told>>

TakeBackReview(s) ==
  /\ reviews[s] > 0
  /\ reviews' = [reviews EXCEPT ![s] = @ - 1] /\ told' = told \ {s} /\ UNCHANGED news

TakeBackLearn(s) ==
  /\ news[s] > 0
  /\ news' = [news EXCEPT ![s] = @ - 1] /\ told' = told \ {s} /\ UNCHANGED reviews

Tell(s) ==
  /\ Spent(s) = Cap
  /\ told' = told \cup {s} /\ UNCHANGED <<reviews, news>>

\* A session that is over goes on with its last answer, which did not count, taken back.
Resume(s) == told' = told \ {s} /\ UNCHANGED <<reviews, news>>

Next ==
  \E s \in Sessions :
    Review(s) \/ Learn(s) \/ TakeBackReview(s) \/ TakeBackLearn(s) \/ Tell(s) \/ Resume(s)

Spec == Init /\ [][Next]_vars
===========================================================================
