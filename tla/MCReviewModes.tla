--------------------------- MODULE MCReviewModes ---------------------------
EXTENDS ReviewModes

CONSTANTS word, phrase

Beginner == [stage |-> 1, cause |-> "none", hard |-> FALSE, mastered |-> FALSE, listens |-> FALSE,
             weak |-> FALSE, wrong |-> FALSE, hards |-> FALSE, stuck |-> FALSE, prolonged |-> FALSE]
Builder == [Beginner EXCEPT !.stage = 0]
Writer == [Builder EXCEPT !.mastered = TRUE]
Listener == [Writer EXCEPT !.listens = TRUE]

MCDefinitionLearner ==
  {[words |-> {word}, profiles |-> {Builder, Writer, Listener},
    enabled |-> {{Reveal, MultipleChoice, DefinitionFirst}}, maxCards |-> 2]}
===========================================================================
