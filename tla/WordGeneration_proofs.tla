------------------------ MODULE WordGeneration_proofs ------------------------
(***************************************************************************)
(* For every vocabulary, all quotas and any number of attempts: the words  *)
(* selected are fresh, confusable words stay apart, and the sources share  *)
(* the quota.                                                              *)
(***************************************************************************)
EXTENDS WordGeneration, FiniteSetTheorems, TLAPS

Generation == [step: {"idle", "list", "bank", "attempt", "deal"}, quota: Quotas \cup {0},
               onlyList: BOOLEAN, attempt: 0..(maxGenerationAttempts + 1),
               listed: SUBSET Words, generated: SUBSET Words, seeds: SUBSET Words,
               rows: SUBSET Words, seen: SUBSET Words, held: SUBSET Words,
               taken: SUBSET Words, requests: 0..MaxRequests]

(***************************************************************************)
(* What has been taken or held ever since a generation g began is so, for  *)
(* a learner with the possessions h.                                       *)
(***************************************************************************)
Holding == {"pending", "left", "carded", "learned"}
Retained(g, h) ==
  /\ \A w \in g.taken : h[w] # "nothing"
  /\ \A w \in g.held : h[w] \in Holding

(***************************************************************************)
(* What g knows covers it.  The cards are read by the caller and the rows  *)
(* later: until then a word held that is not among the cards has its row.  *)
(***************************************************************************)
Known(g, h) ==
  /\ g.step \in {"list", "bank"} => \A w \in g.held \ g.seeds : h[w] = "learned"
  /\ g.step = "attempt" => /\ g.taken \subseteq g.rows \cup g.seen
                           /\ g.held \subseteq g.rows \cup g.seeds

(***************************************************************************)
(* The words g has selected are fresh, kin to none where it matters, and   *)
(* within the quota; and there is room for more while it goes on.          *)
(***************************************************************************)
Sound(g) ==
  LET selected == g.listed \cup g.generated
  IN /\ selected \cap g.taken = {}
     /\ \A v, w \in selected : v # w => ~SameGroup(v, w)
     /\ \A v \in selected, w \in g.held : ~SameGroup(v, w)
     /\ KinFree(g.listed) /\ KinFree(g.generated)
     /\ Cardinality(g.listed) + Cardinality(g.generated) <= g.quota

Unfilled(g) ==
  /\ g.step = "list" => g.listed = {}
  /\ g.step \in {"list", "bank"} => g.generated = {}
  /\ g.step = "bank" => Cardinality(g.listed) < g.quota
  /\ g.step = "attempt" => /\ Cardinality(g.listed) + Cardinality(g.generated) < g.quota
                           /\ g.attempt <= maxGenerationAttempts

IInv == TypeOK /\ Retained(gen, has) /\ Known(gen, has) /\ Sound(gen) /\ Unfilled(gen)

---------------------------------------------------------------------------
(* Operators *)

LEMMA QuotasArePositive ==
  /\ Quotas \subseteq Nat /\ 0 \notin Quotas
  /\ maxGenerationAttempts \in Nat /\ MaxRequests \in Nat
<1>1. Quotas \subseteq Nat \ {0}
  BY Zenon, GenerationAssumption
<1> QED BY <1>1, GenerationAssumption

LEMMA CountsAreNatural ==
  ASSUME NEW g \in Generation
  PROVE  /\ IsFiniteSet(g.listed) /\ IsFiniteSet(g.generated)
         /\ Cardinality(g.listed) \in Nat /\ Cardinality(g.generated) \in Nat /\ g.quota \in Nat
<1>1. g.listed \in SUBSET Words /\ g.generated \in SUBSET Words /\ g.quota \in Quotas \cup {0}
  BY DEF Generation
<1>2. IsFiniteSet(g.listed) /\ IsFiniteSet(g.generated)
  BY <1>1, FS_Subset, GenerationAssumption
<1>3. Cardinality(g.listed) \in Nat /\ Cardinality(g.generated) \in Nat
  BY <1>2, FS_CardinalityType
<1>4. g.quota \in Nat
  <2>1. CASE g.quota \in Quotas
    BY <2>1, QuotasArePositive
  <2>2. CASE g.quota = 0
    BY <2>2
  <2> QED BY <1>1, <2>1, <2>2
<1> QED BY <1>2, <1>3, <1>4

LEMMA FillIsWithin ==
  ASSUME NEW S \in SUBSET Words, NEW n \in Nat, NEW T \in Fill(S, n)
  PROVE  T \subseteq S /\ IsFiniteSet(T) /\ Cardinality(T) \in Nat /\ Cardinality(T) <= n
<1>1. T \in SUBSET S /\ Cardinality(T) = IF Cardinality(S) < n THEN Cardinality(S) ELSE n
  BY DEF Fill
<1>2. IsFiniteSet(S) /\ IsFiniteSet(T)
  BY <1>1, FS_Subset, GenerationAssumption
<1>3. Cardinality(S) \in Nat /\ Cardinality(T) \in Nat
  BY <1>2, FS_CardinalityType
<1> QED BY <1>1, <1>2, <1>3

LEMMA FilteredAreApart ==
  ASSUME NEW S, NEW excluded, NEW seen, NEW T \in FilterBankWords(S, excluded, seen)
  PROVE  /\ T \subseteq S /\ T \cap seen = {}
         /\ KinFree(T)
         /\ \A v \in T, w \in excluded : ~SameGroup(v, w)
<1>1. T \subseteq {w \in S \ seen : NoKinIn(w, excluded)} /\ KinFree(T)
  BY DEF FilterBankWords
<1> QED BY <1>1 DEF NoKinIn, Kin, SameGroup

LEMMA KinFreeOfSubset ==
  ASSUME NEW S, NEW T \in SUBSET S, KinFree(S)
  PROVE  KinFree(T) /\ \A v, w \in T : v # w => ~SameGroup(v, w)
BY DEF KinFree, Kin

LEMMA SameGroupIsSymmetric ==
  ASSUME NEW v, NEW w, SameGroup(v, w)
  PROVE  SameGroup(w, v)
BY DEF SameGroup

(***************************************************************************)
(* A generation that ends keeps what it has selected; one that goes on     *)
(* must know what is taken and held.                                       *)
(***************************************************************************)
LEMMA EndedKeeps ==
  ASSUME NEW g \in Generation, NEW h, Retained(g, h), Sound(g)
  PROVE  LET e == Ended(g)
         IN e \in Generation /\ Retained(e, h) /\ Known(e, h) /\ Sound(e) /\ Unfilled(e)
<1> DEFINE e == Ended(g)
<1>1. e \in Generation
  <2>1. 0 \in 0..(maxGenerationAttempts + 1)
    BY GenerationAssumption
  <2>2. "deal" \in {"idle", "list", "bank", "attempt", "deal"} /\ {} \in SUBSET Words
    OBVIOUS
  <2> QED BY <2>1, <2>2 DEF Ended, Generation
<1>2. /\ e.step = "deal" /\ e.quota = g.quota
      /\ e.listed = g.listed /\ e.generated = g.generated
      /\ e.held = g.held /\ e.taken = g.taken
  BY DEF Ended, Generation
<1> HIDE DEF e
<1>3. Retained(e, h) /\ Known(e, h) /\ Unfilled(e)
  BY <1>2 DEF Retained, Known, Unfilled
<1>4. Sound(e)
  BY <1>2 DEF Sound
<1> QED BY <1>1, <1>3, <1>4 DEF e

LEMMA ContinuedKeeps ==
  ASSUME NEW g \in Generation, NEW h, Retained(g, h), Sound(g),
         gen \in Generation, g.listed = gen.listed, g.quota = gen.quota,
         g.taken \subseteq g.rows \cup g.seen, g.held \subseteq g.rows \cup g.seeds
  PROVE  LET c == Continued(g)
         IN c \in Generation /\ Retained(c, h) /\ Known(c, h) /\ Sound(c) /\ Unfilled(c)
<1> DEFINE c == [g EXCEPT !.step = "attempt"]
<1>1. CASE Cardinality(g.generated) < FallbackQuota /\ g.attempt <= maxGenerationAttempts
  <2>1. Continued(g) = c
    BY <1>1 DEF Continued
  <2>2. c \in Generation
    BY DEF Generation
  <2>3. /\ c.step = "attempt" /\ c.quota = g.quota /\ c.attempt = g.attempt
        /\ c.listed = g.listed /\ c.generated = g.generated
        /\ c.held = g.held /\ c.taken = g.taken
        /\ c.rows = g.rows /\ c.seen = g.seen /\ c.seeds = g.seeds
    BY DEF Generation
  <2> HIDE DEF c
  <2>4. Retained(c, h) /\ Known(c, h)
    BY <2>3 DEF Retained, Known
  <2>5. Sound(c)
    BY <2>3 DEF Sound
  <2>6. Cardinality(g.listed) \in Nat /\ Cardinality(g.generated) \in Nat /\ g.quota \in Nat
    BY CountsAreNatural
  <2>7. Unfilled(c)
    BY <1>1, <2>3, <2>6 DEF Unfilled, FallbackQuota
  <2> QED BY <2>1, <2>2, <2>4, <2>5, <2>7
<1>2. CASE ~(Cardinality(g.generated) < FallbackQuota /\ g.attempt <= maxGenerationAttempts)
  <2>1. Continued(g) = Ended(g)
    BY <1>2 DEF Continued
  <2> QED BY <2>1, EndedKeeps
<1> QED BY <1>1, <1>2

---------------------------------------------------------------------------
(* The steps of a generation *)

(***************************************************************************)
(* The words the learner has are those that are not "nothing".             *)
(***************************************************************************)
LEMMA WordsHad ==
  ASSUME TypeOK, NEW w \in Words
  PROVE  /\ has[w] # "nothing" <=> w \in Rows \cup SeenAsNew
         /\ has[w] \in Holding <=> w \in Rows \cup Cards
         /\ has[w] = "learned" => w \in Rows
         /\ w \in (Rows \cup Cards) \ Cards => has[w] = "learned"
BY DEF TypeOK, Possessions, Holding, Rows, Cards, SeenAsNew, HavingAny

LEMMA IdleIsSound ==
  ASSUME NEW h
  PROVE  /\ Idle \in Generation
         /\ Retained(Idle, h) /\ Known(Idle, h) /\ Sound(Idle) /\ Unfilled(Idle)
<1>1. Idle \in Generation
  BY QuotasArePositive DEF Idle, Generation
<1>2. Retained(Idle, h) /\ Known(Idle, h) /\ Unfilled(Idle)
  BY DEF Idle, Retained, Known, Unfilled
<1>3. Sound(Idle)
  BY FS_EmptySet DEF Idle, Sound, KinFree
<1> QED BY <1>1, <1>2, <1>3

LEMMA InitInvariant ==
  ASSUME Init
  PROVE  IInv
<1>1. TypeOK
  BY QuotasArePositive, IdleIsSound DEF Init, TypeOK, Generation, Providers, Possessions
<1> QED BY <1>1, IdleIsSound DEF Init, IInv

LEMMA BeginKeeps ==
  ASSUME IInv, Begin
  PROVE  IInv'
<1>1. PICK quota \in Quotas, onlyList \in BOOLEAN :
        gen' = [Idle EXCEPT !.step = IF onlyList THEN "list" ELSE "bank",
                            !.quota = quota, !.onlyList = onlyList,
                            !.seeds = Cards, !.held = Rows \cup Cards,
                            !.taken = Rows \cup SeenAsNew]
  BY DEF Begin
<1>2. UNCHANGED <<vocabulary, provider, has>> /\ TypeOK
  BY DEF Begin, IInv
<1>3. /\ gen'.step \in {"list", "bank"} /\ gen'.quota = quota
      /\ gen'.listed = {} /\ gen'.generated = {} /\ gen'.seeds = Cards
      /\ gen'.held = Rows \cup Cards /\ gen'.taken = Rows \cup SeenAsNew
  BY <1>1 DEF Idle
<1>4. gen' \in Generation
  <2>1. Cards \in SUBSET Words /\ Rows \in SUBSET Words /\ SeenAsNew \in SUBSET Words
    BY DEF Cards, Rows, SeenAsNew, HavingAny
  <2>2. Idle \in Generation
    BY IdleIsSound
  <2> QED BY <1>1, <2>1, <2>2 DEF Generation
<1>5. Retained(gen', has') /\ Known(gen', has')
  <2>1. \A w \in gen'.taken \cup gen'.held : w \in Words
    BY <1>4 DEF Generation
  <2>2. gen'.step # "attempt"
    BY <1>3
  <2> QED BY <1>2, <1>3, <2>1, <2>2, WordsHad DEF Retained, Known
<1>6. Sound(gen')
  <2>1. quota \in Nat
    BY QuotasArePositive
  <2> QED BY <1>2, <1>3, <2>1, FS_EmptySet DEF Sound, KinFree
<1>7. Unfilled(gen')
  <2>1. quota \in Nat /\ quota > 0
    BY QuotasArePositive
  <2> QED BY <1>3, <2>1, FS_EmptySet DEF Unfilled
<1>8. TypeOK'
  BY <1>2, <1>4 DEF TypeOK, Generation
<1>9. Sound(gen)'
  BY <1>2, <1>6 DEF Sound, KinFree, Kin, SameGroup
<1> QED BY <1>5, <1>7, <1>8, <1>9 DEF IInv, Retained, Known, Unfilled

(***************************************************************************)
(* Of words had, the caller's cards and the rows just read leave none out. *)
(***************************************************************************)
LEMMA JustReadKnows ==
  ASSUME IInv, gen.step \in {"list", "bank"}
  PROVE  gen.taken \subseteq Rows \cup SeenAsNew /\ gen.held \subseteq Rows \cup gen.seeds
<1>1. gen.taken \in SUBSET Words /\ gen.held \in SUBSET Words
  BY DEF IInv, TypeOK
<1> QED BY <1>1, WordsHad DEF IInv, Retained, Known

(***************************************************************************)
(* What a step has put together holds as well of its last state.           *)
(***************************************************************************)
LEMMA StepKeeps ==
  ASSUME UNCHANGED <<vocabulary, has>>, provider' \in [Words -> Providers], IInv,
         gen' \in Generation, Retained(gen', has), Known(gen', has), Sound(gen'), Unfilled(gen')
  PROVE  IInv'
<1>1. TypeOK'
  BY DEF IInv, TypeOK, Generation
<1>2. Sound(gen)'
  BY DEF Sound, KinFree, Kin, SameGroup
<1> QED BY <1>1, <1>2 DEF IInv, Retained, Known, Unfilled

LEMMA SelectDeveloperListWordsKeeps ==
  ASSUME IInv, SelectDeveloperListWords
  PROVE  IInv'
<1> DEFINE usable == {w \in Words \ (Rows \cup gen.seeds) : OnList(w)}
           excluded == Rows \cup gen.seeds
<1>1. PICK filtered \in FilterBankWords(usable, excluded, SeenAsNew) :
      \E listed \in Fill(filtered, gen.quota) :
        LET selected == [gen EXCEPT !.listed = listed, !.step = "bank"]
        IN gen' = IF Cardinality(listed) >= gen.quota THEN Ended(selected) ELSE selected
  BY DEF SelectDeveloperListWords
<1>2. PICK listed \in Fill(filtered, gen.quota) :
        LET selected == [gen EXCEPT !.listed = listed, !.step = "bank"]
        IN gen' = IF Cardinality(listed) >= gen.quota THEN Ended(selected) ELSE selected
  BY <1>1
<1> DEFINE s == [gen EXCEPT !.listed = listed, !.step = "bank"]
<1>3. gen \in Generation /\ gen.step = "list" /\ UNCHANGED <<vocabulary, provider, has>>
  BY DEF IInv, TypeOK, Generation, SelectDeveloperListWords
<1>4. gen.quota \in Nat /\ gen.generated = {} /\ gen.listed = {}
  BY <1>3, CountsAreNatural DEF IInv, Unfilled
<1>5. /\ filtered \subseteq usable /\ filtered \cap SeenAsNew = {} /\ KinFree(filtered)
      /\ \A v \in filtered, w \in excluded : ~SameGroup(v, w)
  <2> HIDE DEF usable, excluded
  <2> QED BY <1>1, FilteredAreApart
<1>6. /\ listed \subseteq filtered /\ IsFiniteSet(listed)
      /\ Cardinality(listed) \in Nat /\ Cardinality(listed) <= gen.quota
  <2>1. filtered \in SUBSET Words
    BY <1>5
  <2> HIDE DEF usable
  <2> QED BY <1>2, <1>4, <2>1, FillIsWithin
<1>7. s \in Generation
  <2>1. listed \in SUBSET Words
    BY <1>5, <1>6
  <2> QED BY <1>3, <2>1 DEF Generation
<1>8. /\ s.step = "bank" /\ s.quota = gen.quota /\ s.listed = listed /\ s.generated = {}
      /\ s.held = gen.held /\ s.taken = gen.taken /\ s.seeds = gen.seeds
  BY <1>3, <1>4 DEF Generation
<1>9. gen' = IF Cardinality(listed) >= gen.quota THEN Ended(s) ELSE s
  BY <1>2
<1> HIDE DEF s
<1>10. Retained(s, has) /\ Known(s, has)
  BY <1>3, <1>8 DEF IInv, Retained, Known
<1>11. Sound(s)
  <2>1. gen.taken \subseteq Rows \cup SeenAsNew /\ gen.held \subseteq excluded
    BY <1>3, JustReadKnows
  <2>2. listed \cap gen.taken = {}
    BY <1>5, <1>6, <2>1
  <2>3. KinFree(listed) /\ \A v, w \in listed : v # w => ~SameGroup(v, w)
    BY <1>5, <1>6, KinFreeOfSubset
  <2>4. \A v \in listed, w \in gen.held : ~SameGroup(v, w)
    BY <1>5, <1>6, <2>1
  <2>5. KinFree({}) /\ Cardinality({}) = 0
    BY FS_EmptySet DEF KinFree
  <2> QED BY <1>6, <1>8, <2>2, <2>3, <2>4, <2>5 DEF Sound
<1>12. /\ gen' \in Generation /\ Retained(gen', has) /\ Known(gen', has)
       /\ Sound(gen') /\ Unfilled(gen')
  <2>1. CASE Cardinality(listed) >= gen.quota
    BY <1>7, <1>9, <1>10, <1>11, <2>1, EndedKeeps
  <2>2. CASE ~(Cardinality(listed) >= gen.quota)
    <3>1. Unfilled(s)
      BY <1>4, <1>6, <1>8, <2>2 DEF Unfilled
    <3> QED BY <1>7, <1>9, <1>10, <1>11, <2>2, <3>1
  <2> QED BY <2>1, <2>2
<1>13. provider' \in [Words -> Providers]
  BY <1>3 DEF IInv, TypeOK
<1> QED BY <1>3, <1>12, <1>13, StepKeeps

LEMMA SelectBankWordsKeeps ==
  ASSUME IInv, SelectBankWords
  PROVE  IInv'
<1> DEFINE excluded == Rows \cup FallbackSeeds
           usable == {w \in Words \ excluded : provider[w] # "none" /\ ~OnList(w)}
<1>1. PICK filtered \in FilterBankWords(usable, excluded, SeenAsNew) :
      \E generated \in Fill(filtered, FallbackQuota) :
        gen' = Continued([gen EXCEPT !.generated = generated, !.rows = Rows,
                                     !.seen = SeenAsNew, !.attempt = 1])
  BY DEF SelectBankWords
<1>2. PICK generated \in Fill(filtered, FallbackQuota) :
        gen' = Continued([gen EXCEPT !.generated = generated, !.rows = Rows,
                                     !.seen = SeenAsNew, !.attempt = 1])
  BY <1>1
<1> DEFINE s == [gen EXCEPT !.generated = generated, !.rows = Rows,
                            !.seen = SeenAsNew, !.attempt = 1]
<1>3. gen \in Generation /\ gen.step = "bank" /\ UNCHANGED <<vocabulary, provider, has>>
  BY DEF IInv, TypeOK, Generation, SelectBankWords
<1>4. /\ gen.quota \in Nat /\ Cardinality(gen.listed) \in Nat
      /\ Cardinality(gen.listed) < gen.quota /\ gen.generated = {}
  BY <1>3, CountsAreNatural DEF IInv, Unfilled
<1>5. FallbackQuota \in Nat /\ Cardinality(gen.listed) + FallbackQuota = gen.quota
  BY <1>4 DEF FallbackQuota
<1>6. /\ filtered \subseteq usable /\ filtered \cap SeenAsNew = {} /\ KinFree(filtered)
      /\ \A v \in filtered, w \in excluded : ~SameGroup(v, w)
  <2> HIDE DEF usable, excluded
  <2> QED BY <1>1, FilteredAreApart
<1>7. /\ generated \subseteq filtered /\ IsFiniteSet(generated)
      /\ Cardinality(generated) \in Nat /\ Cardinality(generated) <= FallbackQuota
  <2>1. filtered \in SUBSET Words
    BY <1>6
  <2> HIDE DEF usable
  <2> QED BY <1>2, <1>5, <2>1, FillIsWithin
<1>8. s \in Generation
  <2>1. generated \in SUBSET Words /\ Rows \in SUBSET Words /\ SeenAsNew \in SUBSET Words
    BY <1>6, <1>7 DEF Rows, SeenAsNew, HavingAny
  <2>2. 1 \in 0..(maxGenerationAttempts + 1)
    BY QuotasArePositive
  <2> QED BY <1>3, <2>1, <2>2 DEF Generation
<1>9. /\ s.quota = gen.quota /\ s.listed = gen.listed /\ s.generated = generated
      /\ s.held = gen.held /\ s.taken = gen.taken /\ s.seeds = gen.seeds
      /\ s.rows = Rows /\ s.seen = SeenAsNew
  BY <1>3 DEF Generation
<1>10. gen' = Continued(s)
  BY <1>2
<1> HIDE DEF s
<1>11. Retained(s, has)
  BY <1>9 DEF IInv, Retained
<1>12. gen.taken \subseteq Rows \cup SeenAsNew /\ gen.held \subseteq Rows \cup gen.seeds
  BY <1>3, JustReadKnows
<1>13. Sound(s)
  <2>1. generated \cap gen.taken = {}
    BY <1>6, <1>7, <1>12
  <2>2. KinFree(generated) /\ \A v, w \in generated : v # w => ~SameGroup(v, w)
    BY <1>6, <1>7, KinFreeOfSubset
  <2>3. \A v \in generated, w \in gen.held \cup gen.listed : ~SameGroup(v, w)
    BY <1>6, <1>7, <1>12 DEF FallbackSeeds
  <2>4. \A v \in generated, w \in gen.listed : ~SameGroup(w, v)
    BY <2>3, SameGroupIsSymmetric
  <2>5. /\ gen.listed \cap gen.taken = {} /\ KinFree(gen.listed)
        /\ \A v, w \in gen.listed : v # w => ~SameGroup(v, w)
        /\ \A v \in gen.listed, w \in gen.held : ~SameGroup(v, w)
    BY DEF IInv, Sound
  <2>6. Cardinality(gen.listed) + Cardinality(generated) <= gen.quota
    BY <1>4, <1>5, <1>7
  <2> QED BY <1>9, <2>1, <2>2, <2>3, <2>4, <2>5, <2>6 DEF Sound
<1>14. /\ gen' \in Generation /\ Retained(gen', has) /\ Known(gen', has)
       /\ Sound(gen') /\ Unfilled(gen')
  BY <1>3, <1>8, <1>9, <1>10, <1>11, <1>12, <1>13, ContinuedKeeps
<1>15. provider' \in [Words -> Providers]
  BY <1>3 DEF IInv, TypeOK
<1> QED BY <1>3, <1>14, <1>15, StepKeeps

(***************************************************************************)
(* The words chosen in an attempt, whatever was proposed and stored.       *)
(***************************************************************************)
LEMMA ChosenAreSound ==
  ASSUME IInv, gen.step = "attempt",
         NEW accepted \in FilterCandidates(gen.rows \cup gen.generated, FallbackSeeds),
         NEW stored \in SUBSET accepted,
         NEW chosen \in Fill(stored \ Duplicates, FallbackQuota - Cardinality(gen.generated))
  PROVE  LET s == [gen EXCEPT !.generated = @ \cup chosen, !.attempt = @ + 1]
         IN s \in Generation /\ Sound(s)
<1> DEFINE s == [gen EXCEPT !.generated = @ \cup chosen, !.attempt = @ + 1]
           room == FallbackQuota - Cardinality(gen.generated)
<1>1. gen \in Generation
  BY DEF IInv, TypeOK, Generation
<1>2. /\ gen.quota \in Nat /\ Cardinality(gen.listed) \in Nat
      /\ IsFiniteSet(gen.generated) /\ Cardinality(gen.generated) \in Nat
  BY <1>1, CountsAreNatural
<1>3. /\ Cardinality(gen.listed) + Cardinality(gen.generated) < gen.quota
      /\ gen.attempt <= maxGenerationAttempts
  BY DEF IInv, Unfilled
<1>4. room \in Nat /\ Cardinality(gen.listed) + Cardinality(gen.generated) + room = gen.quota
  BY <1>2, <1>3 DEF FallbackQuota
<1>5. /\ accepted \in SUBSET Words /\ KinFree(accepted)
      /\ \A w \in accepted : NoKinIn(w, gen.rows \cup gen.generated)
      /\ \A w \in accepted, v \in FallbackSeeds : ~SameGroup(v, w)
  BY DEF FilterCandidates
<1>6. /\ chosen \subseteq stored \ Duplicates /\ IsFiniteSet(chosen)
      /\ Cardinality(chosen) \in Nat /\ Cardinality(chosen) <= room
  <2>1. stored \ Duplicates \in SUBSET Words
    BY <1>5
  <2> QED BY <1>4, <2>1, FillIsWithin
<1>7. chosen \in SUBSET accepted /\ chosen \cap Duplicates = {}
  BY <1>6
<1>8. s \in Generation
  <2>1. gen.generated \cup chosen \in SUBSET Words
    BY <1>1, <1>5, <1>7 DEF Generation
  <2>2. gen.attempt + 1 \in 0..(maxGenerationAttempts + 1)
    BY <1>1, <1>3, QuotasArePositive DEF Generation
  <2> QED BY <1>1, <2>1, <2>2 DEF Generation
<1>9. /\ s.quota = gen.quota /\ s.listed = gen.listed
      /\ s.generated = gen.generated \cup chosen
      /\ s.held = gen.held /\ s.taken = gen.taken
  BY <1>1 DEF Generation
<1>10. Cardinality(gen.generated \cup chosen) = Cardinality(gen.generated) + Cardinality(chosen)
  <2>1. gen.generated \cap chosen = {}
    BY <1>7 DEF Duplicates, Selected
  <2>2. Cardinality(gen.generated \cup chosen)
          = Cardinality(gen.generated) + Cardinality(chosen) - Cardinality(gen.generated \cap chosen)
    BY <1>2, <1>6, FS_Union
  <2>3. Cardinality(gen.generated \cap chosen) = 0
    BY <2>1, FS_EmptySet
  <2> QED BY <1>2, <1>6, <2>2, <2>3
<1> HIDE DEF s
<1>11. chosen \cap gen.taken = {}
  <2>1. gen.taken \subseteq gen.rows \cup gen.seen
    BY DEF IInv, Known
  <2> QED BY <1>7, <2>1 DEF Duplicates
<1>12. \A v \in chosen, w \in gen.held \cup gen.listed \cup gen.generated :
         ~SameGroup(v, w) /\ ~SameGroup(w, v)
  <2>1. gen.held \subseteq gen.rows \cup gen.seeds
    BY DEF IInv, Known
  <2>2. \A v \in chosen, w \in gen.rows \cup gen.generated : ~SameGroup(w, v)
    BY <1>5, <1>7 DEF NoKinIn, Kin
  <2>3. \A v \in chosen, w \in FallbackSeeds : ~SameGroup(w, v)
    BY <1>5, <1>7
  <2>4. \A v \in chosen, w \in gen.held \cup gen.listed \cup gen.generated : ~SameGroup(w, v)
    BY <2>1, <2>2, <2>3 DEF FallbackSeeds
  <2> QED BY <2>4, SameGroupIsSymmetric
<1>13. KinFree(gen.generated \cup chosen)
  <2>1. KinFree(chosen)
    BY <1>5, <1>7, KinFreeOfSubset
  <2>2. KinFree(gen.generated)
    BY DEF IInv, Sound
  <2>3. \A v \in chosen, w \in gen.generated : ~Kin(w, v) /\ ~Kin(v, w)
    BY <1>5, <1>7 DEF NoKinIn, Kin, SameGroup
  <2> QED BY <2>1, <2>2, <2>3 DEF KinFree
<1>14. Sound(s)
  <2>1. KinFree(accepted) /\ \A v, w \in chosen : v # w => ~SameGroup(v, w)
    BY <1>5, <1>7, KinFreeOfSubset
  <2>2. /\ (gen.listed \cup gen.generated) \cap gen.taken = {} /\ KinFree(gen.listed)
        /\ \A v, w \in gen.listed \cup gen.generated : v # w => ~SameGroup(v, w)
        /\ \A v \in gen.listed \cup gen.generated, w \in gen.held : ~SameGroup(v, w)
    BY DEF IInv, Sound
  <2>3. Cardinality(gen.listed) + Cardinality(gen.generated \cup chosen) <= gen.quota
    BY <1>2, <1>4, <1>6, <1>10
  <2> QED BY <1>9, <1>11, <1>12, <1>13, <2>1, <2>2, <2>3 DEF Sound
<1> QED BY <1>8, <1>14 DEF s

LEMMA AttemptKeeps ==
  ASSUME IInv, Attempt
  PROVE  IInv'
<1>1. gen \in Generation /\ gen.step = "attempt" /\ UNCHANGED <<vocabulary, has>>
  BY DEF IInv, TypeOK, Generation, Attempt
<1> DEFINE chooses(stored, chosen) ==
             /\ provider' = [w \in Words |->
                  IF w \notin stored THEN provider[w]
                  ELSE IF gen.onlyList THEN "developer_list_llm_fallback" ELSE "bank"]
             /\ gen' = IF chosen = {} THEN Ended(gen)
                       ELSE Continued([gen EXCEPT !.generated = @ \cup chosen, !.attempt = @ + 1])
           room == FallbackQuota - Cardinality(gen.generated)
<1>2. PICK accepted \in FilterCandidates(gen.rows \cup gen.generated, FallbackSeeds) :
        \E stored \in SUBSET accepted :
        \E chosen \in Fill(stored \ Duplicates, room) : chooses(stored, chosen)
  BY DEF Attempt
<1>3. PICK stored \in SUBSET accepted :
        \E chosen \in Fill(stored \ Duplicates, room) : chooses(stored, chosen)
  BY <1>2
<1>4. PICK chosen \in Fill(stored \ Duplicates, room) : chooses(stored, chosen)
  BY <1>3
<1> DEFINE s == [gen EXCEPT !.generated = @ \cup chosen, !.attempt = @ + 1]
<1>5. provider' \in [Words -> Providers]
  BY <1>4 DEF IInv, TypeOK, Providers
<1>6. Retained(gen, has) /\ Known(gen, has) /\ Sound(gen)
  BY DEF IInv
<1>7. /\ gen' \in Generation /\ Retained(gen', has) /\ Known(gen', has)
      /\ Sound(gen') /\ Unfilled(gen')
  <2>1. CASE chosen = {}
    BY <1>1, <1>4, <1>6, <2>1, EndedKeeps
  <2>2. CASE chosen # {}
    <3>1. s \in Generation /\ Sound(s)
      BY <1>1, ChosenAreSound
    <3>2. gen' = Continued(s)
      BY <1>4, <2>2
    <3>3. /\ s.listed = gen.listed /\ s.quota = gen.quota
          /\ s.held = gen.held /\ s.taken = gen.taken
          /\ s.rows = gen.rows /\ s.seen = gen.seen /\ s.seeds = gen.seeds
      BY <1>1 DEF Generation
    <3> HIDE DEF s
    <3>4. Retained(s, has)
      BY <1>6, <3>3 DEF Retained
    <3>5. s.taken \subseteq s.rows \cup s.seen /\ s.held \subseteq s.rows \cup s.seeds
      BY <1>1, <1>6, <3>3 DEF Known
    <3> QED BY <1>1, <3>1, <3>2, <3>3, <3>4, <3>5, ContinuedKeeps
  <2> QED BY <2>1, <2>2
<1> QED BY <1>1, <1>5, <1>7, StepKeeps

LEMMA AttemptFailsKeeps ==
  ASSUME IInv, AttemptFails
  PROVE  IInv'
<1> DEFINE s == [gen EXCEPT !.attempt = @ + 1]
<1>1. gen \in Generation /\ gen.step = "attempt" /\ UNCHANGED <<vocabulary, provider, has>>
  BY DEF IInv, TypeOK, Generation, AttemptFails
<1>2. gen' = Continued(s) \/ gen' = Ended(gen)
  BY DEF AttemptFails
<1>3. Retained(gen, has) /\ Known(gen, has) /\ Sound(gen) /\ Unfilled(gen)
  BY DEF IInv
<1>4. s \in Generation
  <2>1. gen.attempt + 1 \in 0..(maxGenerationAttempts + 1)
    BY <1>1, <1>3, QuotasArePositive DEF Generation, Unfilled
  <2> QED BY <1>1, <2>1 DEF Generation
<1>5. /\ s.listed = gen.listed /\ s.generated = gen.generated /\ s.quota = gen.quota
      /\ s.held = gen.held /\ s.taken = gen.taken
      /\ s.rows = gen.rows /\ s.seen = gen.seen /\ s.seeds = gen.seeds
  BY <1>1 DEF Generation
<1> HIDE DEF s
<1>6. /\ gen' \in Generation /\ Retained(gen', has) /\ Known(gen', has)
      /\ Sound(gen') /\ Unfilled(gen')
  <2>1. CASE gen' = Continued(s)
    <3>1. Retained(s, has) /\ Sound(s)
      BY <1>3, <1>5 DEF Retained, Sound
    <3>2. s.taken \subseteq s.rows \cup s.seen /\ s.held \subseteq s.rows \cup s.seeds
      BY <1>1, <1>3, <1>5 DEF Known
    <3> QED BY <1>1, <1>4, <1>5, <2>1, <3>1, <3>2, ContinuedKeeps
  <2>2. CASE gen' = Ended(gen)
    BY <1>1, <1>3, <2>2, EndedKeeps
  <2> QED BY <1>2, <2>1, <2>2
<1>7. provider' \in [Words -> Providers]
  BY <1>1 DEF IInv, TypeOK
<1> QED BY <1>1, <1>6, <1>7, StepKeeps

LEMMA IdleKeeps ==
  ASSUME IInv, gen' = Idle, UNCHANGED <<vocabulary, provider>>, has' \in [Words -> Possessions]
  PROVE  IInv'
<1>1. TypeOK'
  BY IdleIsSound DEF IInv, TypeOK, Generation
<1>2. Sound(gen)'
  BY IdleIsSound DEF Sound, KinFree, Kin, SameGroup
<1> QED BY <1>1, <1>2, IdleIsSound DEF IInv, Retained, Known, Unfilled

---------------------------------------------------------------------------
(* Meanwhile *)

(***************************************************************************)
(* A request may add to what the learner has or take from it, and what is  *)
(* taken away is no longer held; a word with a row alone keeps it or goes. *)
(***************************************************************************)
LEMMA RequestKeeps ==
  ASSUME IInv, NEW h \in [Words -> Possessions], MayRequest,
         provider' \in [Words -> Providers], UNCHANGED vocabulary, has' = h,
         gen' = [Request EXCEPT !.held = {w \in @ : h[w] \notin {"nothing", "seen"}},
                                !.taken = {w \in @ : h[w] # "nothing"}],
         \A w \in Words : has[w] = "learned" => h[w] \in {"learned", "nothing", "seen"}
  PROVE  IInv'
<1>1. gen \in Generation
  BY DEF IInv, TypeOK, Generation
<1>2. Retained(gen, has) /\ Known(gen, has) /\ Sound(gen) /\ Unfilled(gen)
  BY DEF IInv
<1>3. Request \in Generation
  <2>1. (IF gen.step = "idle" THEN 0 ELSE gen.requests + 1) \in 0..MaxRequests
    BY <1>1, QuotasArePositive DEF MayRequest, Generation
  <2> QED BY <1>1, <2>1 DEF Request, Generation
<1>4. /\ Request.step = gen.step /\ Request.quota = gen.quota /\ Request.attempt = gen.attempt
      /\ Request.listed = gen.listed /\ Request.generated = gen.generated
      /\ Request.held = gen.held /\ Request.taken = gen.taken
      /\ Request.rows = gen.rows /\ Request.seen = gen.seen /\ Request.seeds = gen.seeds
  BY <1>1 DEF Request, Generation
<1>5. /\ gen'.step = gen.step /\ gen'.quota = gen.quota /\ gen'.attempt = gen.attempt
      /\ gen'.listed = gen.listed /\ gen'.generated = gen.generated
      /\ gen'.rows = gen.rows /\ gen'.seen = gen.seen /\ gen'.seeds = gen.seeds
      /\ gen'.held = {w \in gen.held : h[w] \notin {"nothing", "seen"}}
      /\ gen'.taken = {w \in gen.taken : h[w] # "nothing"}
  BY <1>3, <1>4 DEF Generation
<1>6. gen.held \in SUBSET Words /\ gen.taken \in SUBSET Words
  BY <1>1 DEF Generation
<1>7. gen' \in Generation
  <2>1. /\ {w \in Request.held : h[w] \notin {"nothing", "seen"}} \in SUBSET Words
        /\ {w \in Request.taken : h[w] # "nothing"} \in SUBSET Words
    BY <1>4, <1>6
  <2> QED BY <1>3, <2>1 DEF Generation
<1>8. Retained(gen', h)
  <2>1. \A w \in gen'.held : h[w] \in Possessions
    BY <1>5, <1>6
  <2> QED BY <1>5, <2>1 DEF Retained, Possessions, Holding
<1>9. Known(gen', h)
  <2>1. gen'.held \subseteq gen.held /\ gen'.taken \subseteq gen.taken
    BY <1>5
  <2>2. \A w \in gen'.held : has[w] = "learned" => h[w] = "learned"
    BY <1>5, <1>6
  <2> QED BY <1>2, <1>5, <2>1, <2>2 DEF Known
<1>10. Sound(gen')
  <2>1. gen'.held \subseteq gen.held /\ gen'.taken \subseteq gen.taken
    BY <1>5
  <2> QED BY <1>2, <1>5, <2>1 DEF Sound
<1>11. Unfilled(gen')
  BY <1>2, <1>5 DEF Unfilled
<1>12. TypeOK'
  BY <1>7 DEF IInv, TypeOK, Generation
<1>13. Sound(gen)'
  BY <1>10 DEF Sound, KinFree, Kin, SameGroup
<1> QED BY <1>8, <1>9, <1>11, <1>12, <1>13 DEF IInv, Retained, Known, Unfilled

LEMMA SubmitFirstExposureKeeps ==
  ASSUME IInv, NEW w \in Words, SubmitFirstExposure(w)
  PROVE  IInv'
<1> DEFINE h == [has EXCEPT ![w] = "carded"]
<1>1. h \in [Words -> Possessions] /\ provider' \in [Words -> Providers]
  BY DEF IInv, TypeOK, SubmitFirstExposure, Possessions
<1>2. \A v \in Words : has[v] = "learned" => h[v] \in {"learned", "nothing", "seen"}
  BY DEF IInv, TypeOK, SubmitFirstExposure
<1> QED BY <1>1, <1>2, RequestKeeps DEF SubmitFirstExposure, Becomes

LEMMA AddToDictionaryKeeps ==
  ASSUME IInv, NEW w \in Words, AddToDictionary(w)
  PROVE  IInv'
<1> DEFINE h == [has EXCEPT ![w] = IF w \in Cards THEN "carded" ELSE "learned"]
<1>1. h \in [Words -> Possessions] /\ provider' \in [Words -> Providers]
  BY DEF IInv, TypeOK, AddToDictionary, Possessions, Providers
<1>2. \A v \in Words : has[v] = "learned" => h[v] \in {"learned", "nothing", "seen"}
  BY DEF IInv, TypeOK, AddToDictionary, Rows, HavingAny
<1> QED BY <1>1, <1>2, RequestKeeps DEF AddToDictionary, Becomes

LEMMA DeleteFromDictionaryKeeps ==
  ASSUME IInv, NEW w \in Words, DeleteFromDictionary(w)
  PROVE  IInv'
<1>1. PICK left \in {"nothing", IF w \in Cards THEN "left" ELSE "seen"} :
        Becomes([has EXCEPT ![w] = left])
  BY DEF DeleteFromDictionary
<1> DEFINE h == [has EXCEPT ![w] = left]
<1>2. h \in [Words -> Possessions] /\ provider' \in [Words -> Providers]
  BY DEF IInv, TypeOK, DeleteFromDictionary, Possessions
<1>3. \A v \in Words : has[v] = "learned" => h[v] \in {"learned", "nothing", "seen"}
  BY DEF IInv, TypeOK, Cards, HavingAny
<1> QED BY <1>1, <1>2, <1>3, RequestKeeps DEF DeleteFromDictionary, Becomes

LEMMA OpenNextDayKeeps ==
  ASSUME IInv, OpenNextDay
  PROVE  IInv'
<1>1. PICK done \in SUBSET HavingAny({"left"}) :
        Becomes([w \in Words |->
          IF w \in done THEN "seen"
          ELSE CASE has[w] \in {"pending", "left"} -> "nothing"
                 [] has[w] = "carded" -> "learned"
                 [] OTHER -> has[w]])
  BY DEF OpenNextDay
<1> DEFINE h == [w \in Words |->
                   IF w \in done THEN "seen"
                   ELSE CASE has[w] \in {"pending", "left"} -> "nothing"
                          [] has[w] = "carded" -> "learned"
                          [] OTHER -> has[w]]
<1>2. h \in [Words -> Possessions] /\ provider' \in [Words -> Providers]
  BY DEF IInv, TypeOK, OpenNextDay, Possessions, HavingAny
<1>3. \A v \in Words : has[v] = "learned" => h[v] \in {"learned", "nothing", "seen"}
  BY DEF HavingAny
<1> QED BY <1>1, <1>2, <1>3, RequestKeeps DEF OpenNextDay, Becomes

LEMMA PassLookbackKeeps ==
  ASSUME IInv, NEW w \in Words, PassLookback(w)
  PROVE  IInv'
<1> DEFINE h == [has EXCEPT ![w] = "nothing"]
<1>1. h \in [Words -> Possessions] /\ provider' \in [Words -> Providers]
  BY DEF IInv, TypeOK, PassLookback, Possessions
<1>2. \A v \in Words : has[v] = "learned" => h[v] \in {"learned", "nothing", "seen"}
  BY DEF IInv, TypeOK
<1> QED BY <1>1, <1>2, RequestKeeps DEF PassLookback, Becomes

LEMMA UpsertWordKeeps ==
  ASSUME IInv, NEW w \in Words, UpsertWord(w)
  PROVE  IInv'
<1>1. provider' \in [Words -> Providers] /\ UNCHANGED <<vocabulary, has>>
  BY DEF IInv, TypeOK, UpsertWord
<1>2. gen \in Generation /\ gen' = Request /\ MayRequest
  BY DEF IInv, TypeOK, Generation, UpsertWord
<1>3. gen' \in Generation
  <2>1. (IF gen.step = "idle" THEN 0 ELSE gen.requests + 1) \in 0..MaxRequests
    BY <1>2, QuotasArePositive DEF MayRequest, Generation
  <2> QED BY <1>2, <2>1 DEF Request, Generation
<1>4. /\ gen'.step = gen.step /\ gen'.quota = gen.quota /\ gen'.attempt = gen.attempt
      /\ gen'.listed = gen.listed /\ gen'.generated = gen.generated
      /\ gen'.held = gen.held /\ gen'.taken = gen.taken
      /\ gen'.rows = gen.rows /\ gen'.seen = gen.seen /\ gen'.seeds = gen.seeds
  BY <1>2 DEF Request, Generation
<1>5. Retained(gen', has) /\ Known(gen', has)
  BY <1>4 DEF IInv, Retained, Known
<1>6. Sound(gen') /\ Unfilled(gen')
  BY <1>4 DEF IInv, Sound, Unfilled
<1> QED BY <1>1, <1>3, <1>5, <1>6, StepKeeps

---------------------------------------------------------------------------
(* The theorems *)

(***************************************************************************)
(* The inductive invariant holds initially, and every step keeps it.       *)
(***************************************************************************)
THEOREM InductiveInvariant == Spec => []IInv
<1>1. Init => IInv
  BY InitInvariant
<1>2. IInv /\ [Next]_vars => IInv'
  <2> SUFFICES ASSUME IInv, [Next]_vars PROVE IInv'
    OBVIOUS
  <2>1. CASE Begin
    BY <2>1, BeginKeeps
  <2>2. CASE SelectDeveloperListWords
    BY <2>2, SelectDeveloperListWordsKeeps
  <2>3. CASE SelectBankWords
    BY <2>3, SelectBankWordsKeeps
  <2>4. CASE Attempt
    BY <2>4, AttemptKeeps
  <2>5. CASE AttemptFails
    BY <2>5, AttemptFailsKeeps
  <2>6. CASE Deal
    <3>1. has' \in [Words -> Possessions] /\ gen' = Idle /\ UNCHANGED <<vocabulary, provider>>
      BY <2>6 DEF Deal, IInv, TypeOK, Possessions
    <3> QED BY <3>1, IdleKeeps
  <2>7. CASE Abandon
    <3>1. has' \in [Words -> Possessions] /\ gen' = Idle /\ UNCHANGED <<vocabulary, provider>>
      BY <2>7 DEF Abandon, IInv, TypeOK
    <3> QED BY <3>1, IdleKeeps
  <2>8. CASE OpenNextDay
    BY <2>8, OpenNextDayKeeps
  <2>9. ASSUME NEW w \in Words,
               \/ SubmitFirstExposure(w) \/ AddToDictionary(w) \/ DeleteFromDictionary(w)
               \/ PassLookback(w) \/ UpsertWord(w)
        PROVE  IInv'
    BY <2>9, SubmitFirstExposureKeeps, AddToDictionaryKeeps, DeleteFromDictionaryKeeps,
       PassLookbackKeeps, UpsertWordKeeps
  <2>10. CASE UNCHANGED vars
    BY <2>10 DEF vars, IInv, TypeOK, Retained, Known, Sound, Unfilled, KinFree, Kin, SameGroup
  <2> QED BY <2>1, <2>2, <2>3, <2>4, <2>5, <2>6, <2>7, <2>8, <2>9, <2>10 DEF Next
<1> QED BY <1>1, <1>2, PTL DEF Spec

(***************************************************************************)
(* The variables keep their types; the attempts of a generation are        *)
(* limited.                                                                *)
(***************************************************************************)
THEOREM TypeCorrect == Spec => []TypeOK
<1>1. IInv => TypeOK
  BY DEF IInv
<1> QED BY <1>1, InductiveInvariant, PTL

(***************************************************************************)
(* No word is selected that the learner has had, or has seen as new, ever  *)
(* since the generation began.                                             *)
(***************************************************************************)
THEOREM FreshWords == Spec => []SelectedWordsAreFresh
<1>1. IInv => SelectedWordsAreFresh
  BY DEF IInv, Sound, SelectedWordsAreFresh, Selected
<1> QED BY <1>1, InductiveInvariant, PTL

(***************************************************************************)
(* Confusable words are not selected together nor next to what is held.    *)
(***************************************************************************)
THEOREM ConfusablesApart == Spec => []ConfusablesStayApart
<1>1. IInv => ConfusablesStayApart
  BY DEF IInv, Sound, ConfusablesStayApart, Selected
<1> QED BY <1>1, InductiveInvariant, PTL

(***************************************************************************)
(* The list, the bank and the model together give no more than was asked   *)
(* for.                                                                    *)
(***************************************************************************)
THEOREM OneQuota == Spec => []QuotaIsShared
<1>1. IInv => QuotaIsShared
  <2> SUFFICES ASSUME IInv PROVE QuotaIsShared
    OBVIOUS
  <2>1. gen \in Generation
    BY DEF IInv, TypeOK, Generation
  <2>2. /\ IsFiniteSet(gen.listed) /\ IsFiniteSet(gen.generated) /\ gen.quota \in Nat
        /\ Cardinality(gen.listed) \in Nat /\ Cardinality(gen.generated) \in Nat
    BY <2>1, CountsAreNatural
  <2>3. Cardinality(gen.listed) + Cardinality(gen.generated) <= gen.quota
    BY DEF IInv, Sound
  <2>4. /\ IsFiniteSet(gen.listed \cap gen.generated)
        /\ Cardinality(gen.listed \cap gen.generated) \in Nat
    BY <2>2, FS_Subset, FS_CardinalityType
  <2>5. Cardinality(gen.listed \cup gen.generated) =
          Cardinality(gen.listed) + Cardinality(gen.generated)
            - Cardinality(gen.listed \cap gen.generated)
    BY <2>2, FS_Union
  <2> QED BY <2>2, <2>3, <2>4, <2>5 DEF QuotaIsShared, Selected
<1> QED BY <1>1, InductiveInvariant, PTL
==============================================================================
