-------------------------- MODULE MCDynamicPrompts --------------------------
(* DynamicPrompts for TLC: learners whose cards go through all modes, and one *)
(* whose prompts are being prepared.                                          *)
EXTENDS DynamicPrompts, MCReviewModes, TLC

CONSTANTS cron, device

\* One row for each reason the schedule has, in both stages that have any.
MCEveryReason ==
  {Beginner, Writer, Listener, [Listener EXCEPT !.stage = 3]}
  \cup {[p EXCEPT !.cause = c] : p \in {Builder, [Builder EXCEPT !.stage = 3]},
                                c \in {"forgot_meaning", "mixed_up_word", "spelling_issue"}}
  \cup {Builder, [Builder EXCEPT !.weak = TRUE], [Builder EXCEPT !.wrong = TRUE],
        [Builder EXCEPT !.hard = TRUE, !.hards = TRUE],
        [Builder EXCEPT !.weak = TRUE, !.hards = TRUE, !.stuck = TRUE, !.prolonged = TRUE],
        [Builder EXCEPT !.stage = 3, !.hard = TRUE], [Builder EXCEPT !.stage = 3]}

\* No prompt yet, one that still rests, one that does not.
MCPasts == {<<>>} \cup {[k \in {<<word, Listening>>} |-> age] : age \in {2, 3}}

MCSomeSets == {{Reveal}, {Reveal, BuildWord}, {Reveal, MultipleChoice, Listening},
               {Reveal, FillBlank, Listening}, {Reveal, MultipleChoice, DefinitionFirst},
               AllReviewModes}

\* Without anything that prepares prompts.
Unprompted == [generators |-> {}, pasts |-> {[k \in {word, phrase} \X PromptModes |-> 1]}]

\* A phrase under many sets of modes; a word and a phrase that are to be listened to;
\* a word of a set whose hardest mode is fill-in-blank; a word whose prompts two callers prepare.
MCLearners ==
  {[words |-> {phrase}, profiles |-> MCEveryReason, enabled |-> MCSomeSets, maxCards |-> 1] @@ Unprompted,
   [words |-> {word, phrase}, profiles |-> {Listener},
    enabled |-> {{Reveal, MultipleChoice, FillBlank, Listening}}, maxCards |-> 4] @@ Unprompted,
   [words |-> {word}, profiles |-> {Builder, Writer, Listener},
    enabled |-> {{Reveal, MultipleChoice, FillBlank}}, maxCards |-> 4] @@ Unprompted,
   [words |-> {word}, profiles |-> {Beginner, Listener},
    enabled |-> {{Reveal, MultipleChoice, FillBlank, Listening}},
    maxCards |-> 2, generators |-> {cron, device}, pasts |-> MCPasts]}
=============================================================================
