--------------------------- MODULE DynamicPrompts ---------------------------
(***************************************************************************)
(* The prompts of the language model for review cards: prepared by the     *)
(* scheduler and on request, in chunks that each succeed or fail, possibly *)
(* by several callers at once, for the cards as ReviewModes has them.  A   *)
(* prompt of the last days is shown again instead of being prepared anew,  *)
(* and a listening card without any is shown as a reveal card.  The texts  *)
(* are left out; a prompt is its word, its mode and its number of writes.  *)
(***************************************************************************)
EXTENDS ReviewModes

CONSTANTS
  dynamicReviewPromptChunkSize,
  dynamicReviewPromptCooldown

\* A learner also has generators, the callers that may prepare prompts, and pasts:
\* for words and modes that have earlier prompts, how many days old the latest is.
ASSUME PromptsAssumption ==
  /\ dynamicReviewPromptChunkSize \in Nat \ {0}
  /\ dynamicReviewPromptCooldown \in Nat
  /\ \A p \in Learners : IsFiniteSet(p.generators)

VARIABLES
  past,        \* the age of the latest earlier prompt, for the keys that have one
  prompts,     \* how often a prompt of today has been written, for each key
  jobs         \* what each generator knows of the prompts it prepares
promptVars == <<past, prompts, jobs>>

PromptModes == {MultipleChoice, FillBlank, Listening}
Keys == Words \X PromptModes
Generators == learner.generators
NoJob == [step |-> "none", eligible |-> {}, missing |-> {}, complete |-> FALSE]

PromptsTypeOK ==
  /\ TypeOK
  /\ past \in learner.pasts
  /\ prompts \in [Keys -> Nat]
  /\ jobs \in [Generators -> [step: {"none", "read", "write", "ended"}, eligible: SUBSET Keys,
                              missing: SUBSET Keys, complete: BOOLEAN]]
  /\ \A g \in Generators : jobs[g].missing \subseteq jobs[g].eligible

---------------------------------------------------------------------------
(* Which prompts there are *)

Resting(k) == k \in DOMAIN past /\ past[k] <= dynamicReviewPromptCooldown

\* Mutant of LoadPrompts: a generator does not look for the prompts of the day.
LoadNoPrompts == {}

LoadPrompts == {k \in Keys : prompts[k] > 0}

\* Mutant of LoadPromptsWithFallback: only the prompts of the day are shown.
LoadPromptsOfToday == LoadPrompts

\* Without a prompt of today the latest there is, however old, is shown.
LoadPromptsWithFallback == LoadPrompts \cup DOMAIN past

\* Mutant of Candidates: every mode is prepared.
CandidatesOfEveryMode(deck) ==
  {<<deck[i].word, deck[i].mode>> : i \in {j \in DOMAIN deck : deck[j].status # "deleted"}}

\* Cards of any status, in a mode that uses a prompt.
Candidates(deck) ==
  {<<deck[i].word, deck[i].mode>> : i \in {j \in DOMAIN deck : deck[j].status # "deleted"}} \cap Keys

---------------------------------------------------------------------------
(* Preparing prompts *)

\* The scheduler or the client opens the pool and asks for the prompts of its cards.
Prewarm(g) ==
  /\ jobs[g].step \in {"none", "ended"}
  /\ cards' = SyncPendingPoolItems(cards)
  /\ jobs' = [jobs EXCEPT ![g] = [NoJob EXCEPT !.step = "read", !.eligible = Candidates(cards')]]
  /\ UNCHANGED <<rows, enabled, custom, shown, undo, past, prompts>>

FindMissing(g) ==
  /\ jobs[g].step = "read"
  /\ jobs' = [jobs EXCEPT ![g].step = "write", ![g].complete = TRUE,
                          ![g].missing = {k \in jobs[g].eligible : k \notin LoadPrompts /\ ~Resting(k)}]
  /\ UNCHANGED <<vars, past, prompts>>

\* Which keys come first follows from types, due times and positions.
Chunk(g) ==
  {keys \in SUBSET jobs[g].missing :
     Cardinality(keys) = Min({dynamicReviewPromptChunkSize, Cardinality(jobs[g].missing)})}

\* The model answers with a valid prompt for every key of the chunk.
SaveChunk(g) ==
  /\ jobs[g].step = "write" /\ jobs[g].missing # {}
  /\ \E keys \in Chunk(g) :
       /\ prompts' = [k \in Keys |-> IF k \in keys THEN prompts[k] + 1 ELSE prompts[k]]
       /\ jobs' = [jobs EXCEPT ![g].missing = @ \ keys]
  /\ UNCHANGED <<vars, past>>

\* One invalid prompt, a failed call or a failed write loses the chunk; only the log says so.
LoseChunk(g) ==
  /\ jobs[g].step = "write" /\ jobs[g].missing # {}
  /\ \E keys \in Chunk(g) :
       jobs' = [jobs EXCEPT ![g].missing = @ \ keys, ![g].complete = FALSE]
  /\ UNCHANGED <<vars, past, prompts>>

EndPrewarm(g) ==
  /\ jobs[g].step = "write" /\ jobs[g].missing = {}
  /\ jobs' = [jobs EXCEPT ![g].step = "ended"]
  /\ UNCHANGED <<vars, past, prompts>>

\* A reading of prompts fails, or the process stops.
Abandon(g) ==
  /\ jobs[g].step \in {"read", "write"}
  /\ jobs' = [jobs EXCEPT ![g] = NoJob]
  /\ UNCHANGED <<vars, past, prompts>>

\* A listening card is one only with its prompt; failing to read prompts has none.
OverlayCardOnly ==
  shown'.mode = Listening => <<cards[shown'.card].word, Listening>> \in LoadPromptsWithFallback

---------------------------------------------------------------------------
PromptsInit ==
  /\ Init
  /\ past \in learner.pasts
  /\ prompts = [k \in Keys |-> 0]
  /\ jobs = [g \in Generators |-> NoJob]

PromptsNext ==
  \/ /\ Next /\ (shown' # shown /\ shown'.card # 0 => OverlayCardOnly)
     /\ UNCHANGED promptVars
  \/ /\ \E g \in Generators :
          \/ Prewarm(g) \/ FindMissing(g) \/ SaveChunk(g) \/ LoseChunk(g)
          \/ EndPrewarm(g) \/ Abandon(g)
     /\ UNCHANGED learner

PromptsSpec == PromptsInit /\ [][PromptsNext]_<<vars, promptVars>>

---------------------------------------------------------------------------
(* Properties *)

\* Callers that overlap, chunks that fail and calls that are cut off and repeated any
\* number of times: a prompt is written at most once a day by each caller (ensurePrompts).
PromptsAreNotRepeated == \A k \in Keys : prompts[k] <= Cardinality(Generators)

\* When a prewarm has ended and lost no chunk, each of its cards has a prompt to be
\* shown with: what it left out as still resting or prepared by another is found.
PreparedPromptsAreFound ==
  \A g \in Generators :
    jobs[g].step = "ended" /\ jobs[g].complete => jobs[g].eligible \subseteq LoadPromptsWithFallback
=============================================================================
