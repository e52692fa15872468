--------------------------- MODULE WordGeneration ---------------------------
(***************************************************************************)
(* How generateNewWords picks the new words of a learner: from the         *)
(* developers' list, from the bank of words stored before, and from the    *)
(* language model, in attempts that fail, are rate limited or propose      *)
(* anything.  The table of words is shared with other learners, and the    *)
(* learner's own requests go on while the model is asked: a generation     *)
(* knows only the rows and cards it has read before.  The words are those  *)
(* of one level and topic.                                                 *)
(***************************************************************************)
EXTENDS Naturals, FiniteSets

\* A vocabulary is a record: the lemma and the confusable group of each word, and the
\* curated words, those the developers' list is imported with.
CONSTANTS
  Words,
  Vocabularies,
  NoGroup,
  Quotas,                  \* how many words a caller may ask for
  maxGenerationAttempts,
  MaxRequests              \* bound: requests while a generation is under way

ASSUME GenerationAssumption ==
  /\ IsFiniteSet(Words)
  /\ \A v \in Vocabularies : /\ DOMAIN v.lemma = Words /\ DOMAIN v.group = Words
                             /\ v.curated \subseteq Words
  /\ Quotas \subseteq Nat \ {0}
  /\ maxGenerationAttempts \in Nat
  /\ MaxRequests \in Nat

VARIABLES
  vocabulary,
  provider,     \* the table of words: where each comes from, "none" if it is not there
  has,          \* what the learner has of each word
  gen           \* the generation under way
vars == <<vocabulary, provider, has, gen>>

Providers == {"none", "bank", "developer_list", "developer_list_llm_fallback"}
OnList(w) == provider[w] \in {"developer_list", "developer_list_llm_fallback"}

\* A "new" card of today without a row is pending, or left by a deletion that was cut
\* off; "learned" is a row without such a card; "seen" a card of an earlier day alone.
Possessions == {"nothing", "pending", "left", "carded", "learned", "seen"}
HavingAny(S) == {w \in Words : has[w] \in S}
Rows  == HavingAny({"carded", "learned"})
Cards == HavingAny({"pending", "left", "carded"})

\* ListWordIDsSeenAsNew: the words of "new" cards within the last 30 days.
SeenAsNew == HavingAny({"pending", "left", "carded", "seen"})

\* The words selected are listed and generated; seeds are the cards its caller has read,
\* rows and seen what it has read itself.  held are the words that have had a row or a
\* card ever since it began, taken those that also may have been seen.
Idle == [step |-> "idle", quota |-> 0, onlyList |-> FALSE, attempt |-> 0,
         listed |-> {}, generated |-> {}, seeds |-> {}, rows |-> {}, seen |-> {},
         held |-> {}, taken |-> {}, requests |-> 0]
Selected == gen.listed \cup gen.generated

TypeOK ==
  /\ vocabulary \in Vocabularies
  /\ provider \in [Words -> Providers]
  /\ has \in [Words -> Possessions]
  /\ gen \in [step: {"idle", "list", "bank", "attempt", "deal"}, quota: Quotas \cup {0},
              onlyList: BOOLEAN, attempt: 0..(maxGenerationAttempts + 1),
              listed: SUBSET Words, generated: SUBSET Words, seeds: SUBSET Words,
              rows: SUBSET Words, seen: SUBSET Words, held: SUBSET Words, taken: SUBSET Words,
              requests: 0..MaxRequests]

---------------------------------------------------------------------------
(* Deduplication *)

SameGroup(v, w) ==
  vocabulary.group[v] # NoGroup /\ vocabulary.group[v] = vocabulary.group[w]
Kin(v, w) == v = w \/ vocabulary.lemma[v] = vocabulary.lemma[w] \/ SameGroup(v, w)
KinFree(S) == \A v, w \in S : v = w \/ ~Kin(v, w)
NoKinIn(w, S) == \A v \in S : ~Kin(v, w)

\* As many words of S as are left of the quota; the order by kind is left out, and the
\* limits of the queries, which ask for more words than the quota.
Fill(S, n) ==
  {T \in SUBSET S : Cardinality(T) = IF Cardinality(S) < n THEN Cardinality(S) ELSE n}

\* filterBankWords keeps a word unless it was seen or is kin to one excluded or kept.
FilterBankWords(S, excluded, seen) ==
  LET allowed == {w \in S \ seen : NoKinIn(w, excluded)}
  IN {T \in SUBSET allowed : KinFree(T) /\ \A w \in allowed \ T : ~NoKinIn(w, T)}

\* FilterCandidates compares lemmas with those of the learner's words and of the words
\* generated, but not with those of the seeds, to which the words of the list belong
\* then; words seen it does not know.  The model proposes anything.
FilterCandidates(existing, seeds) ==
  {T \in SUBSET {w \in Words : /\ NoKinIn(w, existing)
                               /\ \A v \in seeds : v # w /\ ~SameGroup(v, w)} : KinFree(T)}

---------------------------------------------------------------------------
(* The steps of a generation *)

\* Mutant of FallbackQuota: the shortfall is generated in full.
WholeQuota == gen.quota
FallbackQuota == gen.quota - Cardinality(gen.listed)

\* Mutant of FallbackSeeds: the words of the list are not among the seeds.
CallersSeeds == gen.seeds
FallbackSeeds == gen.seeds \cup gen.listed

\* There are attempts until the quota is filled; then what was read is needed no more.
Ended(g) == [g EXCEPT !.step = "deal", !.attempt = 0, !.rows = {}, !.seen = {}, !.seeds = {}]
\* Mutant of Continued: the attempts are not limited.
ContinuedUnlimited(g) ==
  IF Cardinality(g.generated) < FallbackQuota THEN [g EXCEPT !.step = "attempt"] ELSE Ended(g)
Continued(g) ==
  IF Cardinality(g.generated) < FallbackQuota /\ g.attempt <= maxGenerationAttempts
  THEN [g EXCEPT !.step = "attempt"] ELSE Ended(g)

\* A caller that has read the pool asks for words; the default set says from where.
Begin ==
  /\ gen.step = "idle"
  /\ \E quota \in Quotas, onlyList \in BOOLEAN :
       gen' = [Idle EXCEPT !.step = IF onlyList THEN "list" ELSE "bank",
                           !.quota = quota, !.onlyList = onlyList,
                           !.seeds = Cards, !.held = Rows \cup Cards,
                           !.taken = Rows \cup SeenAsNew]
  /\ UNCHANGED <<vocabulary, provider, has>>

SelectDeveloperListWords ==
  /\ gen.step = "list"
  /\ LET usable == {w \in Words \ (Rows \cup gen.seeds) : OnList(w)}
     IN \E filtered \in FilterBankWords(usable, Rows \cup gen.seeds, SeenAsNew) :
        \E listed \in Fill(filtered, gen.quota) :
          LET selected == [gen EXCEPT !.listed = listed, !.step = "bank"]
          IN gen' = IF Cardinality(listed) >= gen.quota THEN Ended(selected) ELSE selected
  /\ UNCHANGED <<vocabulary, provider, has>>

SelectBankWords ==
  /\ gen.step = "bank"
  /\ LET excluded == Rows \cup FallbackSeeds
         usable == {w \in Words \ excluded : provider[w] # "none" /\ ~OnList(w)}
     IN \E filtered \in FilterBankWords(usable, excluded, SeenAsNew) :
        \E generated \in Fill(filtered, FallbackQuota) :
          gen' = Continued([gen EXCEPT !.generated = generated, !.rows = Rows,
                                       !.seen = SeenAsNew, !.attempt = 1])
  /\ UNCHANGED <<vocabulary, provider, has>>

\* Mutant of Duplicates: a word seen within the last 30 days passes.
DuplicatesButSeen == gen.rows \cup FallbackSeeds \cup Selected
Duplicates == gen.seen \cup gen.rows \cup FallbackSeeds \cup Selected

\* Every candidate accepted is stored, unless that fails, the surplus as well; what is
\* a duplicate by its id is not selected.  Without a new word there is no other attempt.
Attempt ==
  /\ gen.step = "attempt"
  /\ \E accepted \in FilterCandidates(gen.rows \cup gen.generated, FallbackSeeds) :
     \E stored \in SUBSET accepted :
     \E chosen \in Fill(stored \ Duplicates, FallbackQuota - Cardinality(gen.generated)) :
       /\ provider' = [w \in Words |->
            IF w \notin stored THEN provider[w]
            ELSE IF gen.onlyList THEN "developer_list_llm_fallback" ELSE "bank"]
       /\ gen' = IF chosen = {} THEN Ended(gen)
                 ELSE Continued([gen EXCEPT !.generated = @ \cup chosen, !.attempt = @ + 1])
  /\ UNCHANGED <<vocabulary, has>>

\* The call fails, or it is refused because a quota is used up.
AttemptFails ==
  /\ gen.step = "attempt"
  /\ gen' \in {Continued([gen EXCEPT !.attempt = @ + 1]), Ended(gen)}
  /\ UNCHANGED <<vocabulary, provider, has>>

\* The caller appends a card for each word, one after the other: it may be cut off.
Deal ==
  /\ gen.step = "deal"
  /\ \E dealt \in SUBSET Selected :
       has' = [w \in Words |->
         IF w \notin dealt THEN has[w]
         ELSE CASE has[w] \in {"nothing", "seen"} -> "pending"
                [] has[w] = "learned" -> "carded"
                [] OTHER -> has[w]]
  /\ gen' = Idle
  /\ UNCHANGED <<vocabulary, provider>>

\* A generation that is cut off; the words it has stored stay.
Abandon ==
  /\ gen.step # "idle"
  /\ gen' = Idle
  /\ UNCHANGED <<vocabulary, provider, has>>

---------------------------------------------------------------------------
(* Meanwhile *)

\* The learner's other requests.
Request == [gen EXCEPT !.requests = IF gen.step = "idle" THEN 0 ELSE @ + 1]
MayRequest == gen.requests < MaxRequests
Becomes(h) ==
  /\ MayRequest
  /\ has' = h
  /\ gen' = [Request EXCEPT !.held = {w \in @ : h[w] \notin {"nothing", "seen"}},
                        !.taken = {w \in @ : h[w] # "nothing"}]

SubmitFirstExposure(w) ==
  /\ has[w] = "pending"
  /\ Becomes([has EXCEPT ![w] = "carded"])
  /\ UNCHANGED <<vocabulary, provider>>

\* Create stores the word as anyone's, also one of the list.
AddToDictionary(w) ==
  /\ w \notin Rows
  /\ Becomes([has EXCEPT ![w] = IF w \in Cards THEN "carded" ELSE "learned"])
  /\ provider' = [provider EXCEPT ![w] = "bank"]
  /\ UNCHANGED vocabulary

\* Delete removes the row, then the cards of every day, and may be cut off between.
DeleteFromDictionary(w) ==
  /\ w \in Rows
  /\ \E left \in {"nothing", IF w \in Cards THEN "left" ELSE "seen"} :
       Becomes([has EXCEPT ![w] = left])
  /\ UNCHANGED <<vocabulary, provider>>

\* Pending cards of earlier days are deleted when the pool is opened.
OpenNextDay ==
  /\ \E done \in SUBSET HavingAny({"left"}) :
       Becomes([w \in Words |->
         IF w \in done THEN "seen"
         ELSE CASE has[w] \in {"pending", "left"} -> "nothing"
                [] has[w] = "carded" -> "learned"
                [] OTHER -> has[w]])
  /\ UNCHANGED <<vocabulary, provider>>

\* A generation looks back from the time it began at.
PassLookback(w) ==
  /\ gen.step = "idle"
  /\ has[w] = "seen"
  /\ Becomes([has EXCEPT ![w] = "nothing"])
  /\ UNCHANGED <<vocabulary, provider>>

\* A generation or an entry of another learner, and the import of the list.
UpsertWord(w) ==
  /\ \E p \in Providers \ {"none"} :
       /\ p = "developer_list" => w \in vocabulary.curated
       /\ provider' = [provider EXCEPT ![w] = p]
  /\ MayRequest
  /\ gen' = Request
  /\ UNCHANGED <<vocabulary, has>>

Init ==
  /\ vocabulary \in Vocabularies
  /\ provider = [w \in Words |-> IF w \in vocabulary.curated THEN "developer_list" ELSE "none"]
  /\ has = [w \in Words |-> "nothing"]
  /\ gen = Idle

Next ==
  \/ Begin
  \/ SelectDeveloperListWords \/ SelectBankWords \/ Attempt \/ AttemptFails \/ Deal
  \/ Abandon
  \/ OpenNextDay
  \/ \E w \in Words :
       \/ SubmitFirstExposure(w)
       \/ AddToDictionary(w)
       \/ DeleteFromDictionary(w)
       \/ PassLookback(w)
       \/ UpsertWord(w)

Spec == Init /\ [][Next]_vars

---------------------------------------------------------------------------
(* Properties *)

\* No word is selected that all the while has had a row or a card, or has been seen as
\* new within the last 30 days, whatever the model proposes and whenever the other
\* requests come: the ids are compared after the upsert.
SelectedWordsAreFresh == Selected \cap gen.taken = {}

\* "Variants that must not be scheduled together" are not: the words selected from the
\* three sources are of different groups, and of other groups than the words that all
\* the while have had a row or a card.  Of one source they also have different lemmas.
ConfusablesStayApart ==
  /\ \A v, w \in Selected : v # w => ~SameGroup(v, w)
  /\ \A v \in Selected, w \in gen.held : ~SameGroup(v, w)
  /\ KinFree(gen.listed) /\ KinFree(gen.generated)

\* The three sources share one quota.
QuotaIsShared == Cardinality(Selected) <= gen.quota
=============================================================================
