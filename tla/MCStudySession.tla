--------------------------- MODULE MCStudySession ---------------------------
\* Two devices and a handful of cards; the caps are scaled down with the cards.  The
\* word a can come up as new, for review and as practice, b as new twice.
EXTENDS StudySession, TLC

CONSTANTS a, b, a1, b1, b2, f1, p1, d1, d2

MCWordOf == a1 :> a @@ f1 :> a @@ p1 :> a @@ b1 :> b @@ b2 :> b

Symmetry == Permutations({b1, b2})
===========================================================================
