-------------------------- MODULE QuotaCache_proofs --------------------------
(***************************************************************************)
(* For every number of callers, every list of models, limits, windows and  *)
(* waits: no call reserves a model before the end of the longest cooldown  *)
(* that a 429 of any call asked for; and while the clock never reads       *)
(* exactly one minute after a reservation, no window has more reservations *)
(* than its limit, and a refused call is told when the model is free.      *)
(***************************************************************************)
EXTENDS QuotaCache, Integers, Functions, FiniteSetsExt, FiniteSetTheorems, SequenceTheorems, TLAPS

(* Finite sets of naturals *)

(***************************************************************************)
(* Max picks a member of a finite nonempty set of naturals, and no member  *)
(* is greater: a minimal subset without a greatest member has an element,  *)
(* and the rest of it is empty or has a greatest member.                   *)
(***************************************************************************)
LEMMA MaxOfFiniteSet ==
  ASSUME NEW S \in SUBSET Nat, IsFiniteSet(S), S # {}
  PROVE  Max(S) \in S /\ \A s \in S : Max(S) >= s
<1> DEFINE HasTop(X) == \E x \in X : \A y \in X : x >= y
           Bad == {X \in SUBSET S : X # {} /\ ~HasTop(X)}
<1> SUFFICES ASSUME Bad # {} PROVE FALSE
  BY DEF Max
<1>1. Bad \subseteq FiniteSubsetsOf(S)
  BY FS_Subset DEF FiniteSubsetsOf
<1> HIDE DEF Bad
<1>2. PICK X \in Bad : \A Y \in Bad : <<Y, X>> \notin StrictSubsetOrdering(S)
  BY <1>1, FS_StrictSubsetOrderingWellFounded, WFMin
<1> USE DEF Bad
<1>3. PICK x \in X : TRUE
  OBVIOUS
<1>4. X \ {x} \notin Bad
  <2>1. <<X \ {x}, X>> \in StrictSubsetOrdering(S)
    BY <1>3 DEF StrictSubsetOrdering
  <2> QED BY <1>2, <2>1
<1>5. X \ {x} = {} \/ HasTop(X \ {x})
  BY <1>4
<1>6. X \subseteq Nat /\ ~HasTop(X)
  OBVIOUS
<1>7. CASE X \ {x} = {}
  BY <1>3, <1>6, <1>7
<1>8. CASE HasTop(X \ {x})
  <2>1. PICK m \in X \ {x} : \A y \in X \ {x} : m >= y
    BY <1>8
  <2> QED BY <1>3, <1>6, <2>1
<1> QED BY <1>5, <1>7, <1>8

(***************************************************************************)
(* Min picks a member of a nonempty set of naturals, and none is smaller.  *)
(***************************************************************************)
LEMMA MinOfSet ==
  ASSUME NEW S \in SUBSET Nat, S # {}
  PROVE  Min(S) \in S /\ \A s \in S : Min(S) <= s
<1>1. S # {} /\ S \subseteq Nat
  OBVIOUS
<1>2. PICK n \in S : \A m \in S : ~(<<m, n>> \in OpToRel(<, Nat))
  BY <1>1, WFMin, NatLessThanWellFounded
<1>3. \A m \in S : n <= m
  <2> TAKE m \in S
  <2>1. ~(m < n)
    BY <1>2 DEF OpToRel
  <2> QED BY <1>1, <2>1
<1>4. \E x \in S : \A y \in S : x <= y
  BY <1>3
<1> QED BY <1>4 DEF Min

---------------------------------------------------------------------------
(***************************************************************************)
(* A call that holds a model has one of the list, and the cache keeps the  *)
(* latest of the cooldowns.                                                *)
(***************************************************************************)
HoldsModel == {"locking", "ready", "waiting", "marking"}
SoundCall(r) == r \in Call /\ (r.pc \in HoldsModel => r.k <= Len(Models))

IInv ==
  /\ TypeOK
  /\ \A c \in Callers : SoundCall(call[c])
  /\ \A m \in ModelSet : quota[m].unavailableUntil = announced[m]

(***************************************************************************)
(* For the windows: the cache keeps the end of what was granted, and what  *)
(* it has dropped is more than a day old; reservations are at most a wait  *)
(* out of order; a clock that is in use was read at most a wait ago, and   *)
(* not exactly a minute after a reservation.                               *)
(***************************************************************************)
Dropped(requests, all) == Len(all) - Len(requests)
Rest(requests, all, t) ==
  /\ Dropped(requests, all) \in Nat
  /\ \A k \in DOMAIN requests : requests[k] = all[Dropped(requests, all) + k]
  /\ \A k \in 1..Dropped(requests, all) : all[k] + Day < t

KeepsTheRest == \A m \in ModelSet : Rest(quota[m].requests, granted[m], now)

GrantedInTime ==
  \A m \in ModelSet :
    /\ \A k \in DOMAIN granted[m] : granted[m][k] <= now
    /\ \A j, k \in DOMAIN granted[m] : j <= k => granted[m][j] <= granted[m][k] + MaxWait

UsesClock(r) == r.pc \in {"locking", "marking"}
ClocksAreRecent == \A c \in Callers : UsesClock(call[c]) => call[c].read <= now /\ now <= call[c].read + MaxWait

OffBoundary ==
  \A c \in Callers : call[c].pc = "locking" =>
    \A k \in DOMAIN granted[ModelOf(c)] : granted[ModelOf(c)][k] + Minute # call[c].read

WindowsInv == IInv /\ KeepsTheRest /\ GrantedInTime /\ ClocksAreRecent /\ OffBoundary

---------------------------------------------------------------------------
(* The state of a model *)

LEMMA PruneType ==
  ASSUME NEW state \in ModelQuotaState, NEW t \in Nat
  PROVE  /\ Prune(state, t) \in ModelQuotaState
         /\ Prune(state, t).unavailableUntil = state.unavailableUntil
<1> DEFINE recent == {k \in DOMAIN state.requests : state.requests[k] + Day >= t}
           kept == IF recent = {} THEN <<>>
                   ELSE SubSeq(state.requests, Min(recent), Len(state.requests))
<1>1. state.requests \in Seq(Nat) /\ state.unavailableUntil \in Nat
  BY DEF ModelQuotaState
<1>2. recent # {} => Min(recent) \in 1..Len(state.requests)
  <2>1. recent \in SUBSET (1..Len(state.requests)) /\ recent \in SUBSET Nat
    BY <1>1
  <2> HIDE DEF recent
  <2> QED BY <2>1, MinOfSet
<1>3. Prune(state, t) = [state EXCEPT !.requests = kept]
  BY DEF Prune, ModelQuotaState
<1> HIDE DEF recent
<1>4. kept \in Seq(Nat)
  BY <1>1, <1>2, SubSeqProperties
<1> HIDE DEF kept
<1> QED BY <1>3, <1>4 DEF ModelQuotaState

(***************************************************************************)
(* The candidates for the time at which a model becomes available.         *)
(***************************************************************************)
Candidates(state, t) == {state.unavailableUntil} \cup RPMCandidates(state, t) \cup RPDCandidates(state)

(***************************************************************************)
(* There is a latest candidate: a full minute has an earliest request.     *)
(***************************************************************************)
LEMMA LatestCandidate ==
  ASSUME NEW state \in ModelQuotaState, NEW t \in Nat
  PROVE  /\ AvailableAt(state, t) \in Candidates(state, t)
         /\ \A x \in Candidates(state, t) : x \in Nat /\ x <= AvailableAt(state, t)
<1> DEFINE recent == InLastMinute(state, t)
           times == {state.requests[k] : k \in recent}
           candidates == Candidates(state, t)
<1>1. state.requests \in Seq(Nat) /\ state.unavailableUntil \in Nat
  BY DEF ModelQuotaState
<1>2. RPMCandidates(state, t) \in SUBSET Nat /\ IsFiniteSet(RPMCandidates(state, t))
  <2>1. CASE RPMLimit > 0 /\ Cardinality(recent) >= RPMLimit
    <3>1. recent # {}
      <4>1. recent = {} => Cardinality(recent) = 0
        BY FS_EmptySet
      <4> HIDE DEF recent
      <4> QED BY <2>1, <4>1, QuotaAssumption
    <3>2. times \in SUBSET Nat /\ times # {}
      <4>1. \A k \in recent : state.requests[k] \in Nat
        BY <1>1 DEF InLastMinute
      <4> HIDE DEF recent
      <4> QED BY <3>1, <4>1
    <3>3. RPMCandidates(state, t) = {Min(times) + Minute}
      BY <2>1 DEF RPMCandidates
    <3> HIDE DEF times
    <3>4. Min(times) \in Nat
      BY <3>2, MinOfSet
    <3>5. Min(times) + Minute \in Nat
      BY <3>4, QuotaAssumption
    <3> QED BY <3>3, <3>5, FS_Singleton
  <2>2. CASE ~(RPMLimit > 0 /\ Cardinality(recent) >= RPMLimit)
    BY <2>2, FS_EmptySet DEF RPMCandidates
  <2> QED BY <2>1, <2>2
<1>3. RPDCandidates(state) \in SUBSET Nat /\ IsFiniteSet(RPDCandidates(state))
  <2> DEFINE n == Len(state.requests)
  <2>1. CASE RPDLimit > 0 /\ n >= RPDLimit
    <3>1. n - RPDLimit + 1 \in 1..n
      BY <1>1, <2>1, QuotaAssumption
    <3>2. state.requests[n - RPDLimit + 1] + Day \in Nat
      BY <1>1, <3>1, QuotaAssumption
    <3> QED BY <2>1, <3>2, FS_Singleton DEF RPDCandidates
  <2>2. CASE ~(RPDLimit > 0 /\ n >= RPDLimit)
    BY <2>2, FS_EmptySet DEF RPDCandidates
  <2> QED BY <2>1, <2>2
<1>4. candidates \in SUBSET Nat /\ IsFiniteSet(candidates) /\ candidates # {}
  BY <1>1, <1>2, <1>3, FS_Singleton, FS_Union DEF Candidates
<1>5. AvailableAt(state, t) = Max(candidates)
  BY DEF AvailableAt, Candidates
<1> HIDE DEF candidates
<1>6. Max(candidates) \in candidates /\ \A x \in candidates : Max(candidates) >= x
  BY <1>4, MaxOfFiniteSet
<1>7. \A x \in candidates : x \in Nat /\ x <= Max(candidates)
  BY <1>4, <1>6
<1> QED BY <1>5, <1>6, <1>7 DEF candidates

(***************************************************************************)
(* A model is blocked at a time while a candidate is later than it.        *)
(***************************************************************************)
LEMMA BlockedByCandidate ==
  ASSUME NEW state \in ModelQuotaState, NEW t \in Nat, NEW s \in Nat
  PROVE  AvailableAt(state, t) > s <=> \E x \in Candidates(state, t) : x > s
<1>1. /\ AvailableAt(state, t) \in Candidates(state, t)
      /\ \A x \in Candidates(state, t) : x \in Nat /\ x <= AvailableAt(state, t)
  BY LatestCandidate
<1> QED BY <1>1

LEMMA NotBlocked ==
  ASSUME NEW state \in ModelQuotaState, NEW t \in Nat, ~Blocked(state, t)
  PROVE  /\ state.unavailableUntil <= t
         /\ \A x \in RPMCandidates(state, t) : x \in Nat /\ x <= t
         /\ \A x \in RPDCandidates(state) : x \in Nat /\ x <= t
<1>1. \A x \in Candidates(state, t) : x \in Nat /\ x <= t
  BY LatestCandidate DEF Blocked
<1> QED BY <1>1 DEF Candidates

LEMMA LaterIsMax ==
  ASSUME NEW s \in Nat, NEW t \in Nat
  PROVE  Later(s, t) = Max({s, t}) /\ Later(s, t) \in Nat
<1>1. IsFiniteSet({s, t})
  <2>1. IsFiniteSet({s} \cup {t})
    BY FS_Singleton, FS_Union
  <2>2. {s, t} = {s} \cup {t}
    OBVIOUS
  <2> QED BY <2>1, <2>2
<1>2. Max({s, t}) \in {s, t} /\ \A x \in {s, t} : Max({s, t}) >= x
  BY <1>1, MaxOfFiniteSet
<1> QED BY <1>2 DEF Later

---------------------------------------------------------------------------
(* The steps *)

LEMMA NoCallIsSound == SoundCall(NoCall)
BY QuotaAssumption DEF NoCall, Call, SoundCall, HoldsModel

LEMMA HeldModel ==
  ASSUME IInv, NEW c \in Callers, call[c].pc \in HoldsModel
  PROVE  /\ ModelOf(c) \in ModelSet
         /\ quota[ModelOf(c)] \in ModelQuotaState
         /\ call[c].k + 1 \in 1..Len(Models) + 1
         /\ call[c].read \in Nat /\ call[c].retryAfter \in Nat
<1>1. call[c] \in Call /\ call[c].k \in 1..Len(Models)
  BY QuotaAssumption DEF IInv, SoundCall, Call
<1>2. ModelOf(c) \in ModelSet
  BY <1>1, QuotaAssumption DEF ModelOf, ModelSet
<1>3. call[c].k + 1 \in 1..Len(Models) + 1
  BY <1>1, QuotaAssumption
<1>4. call[c].read \in Nat /\ call[c].retryAfter \in RetryAfters \cup {0}
  BY <1>1 DEF Call
<1>5. RetryAfters \cup {0} \subseteq Nat
  BY QuotaAssumption
<1> QED BY <1>2, <1>3, <1>4, <1>5 DEF IInv, TypeOK

(***************************************************************************)
(* A step that only moves a call.                                          *)
(***************************************************************************)
LEMMA MovesCall ==
  ASSUME IInv, NEW c \in Callers, NEW r, SoundCall(r), call' = [call EXCEPT ![c] = r]
  PROVE  call' \in [Callers -> Call] /\ \A d \in Callers : SoundCall(call'[d])
BY DEF IInv, TypeOK, SoundCall

LEMMA MovesOnlyCall ==
  ASSUME IInv, call' \in [Callers -> Call], \A d \in Callers : SoundCall(call'[d]),
         UNCHANGED <<now, quota, granted, announced>>
  PROVE  IInv'
BY DEF IInv, TypeOK, SoundCall, HoldsModel, Call

LEMMA NextModelIsSound ==
  ASSUME IInv, NEW c \in Callers, call[c].pc \in HoldsModel, TryNextModel(c)
  PROVE  call' \in [Callers -> Call] /\ \A d \in Callers : SoundCall(call'[d])
<1> DEFINE r == [NoCall EXCEPT !.pc = "next", !.k = call[c].k + 1]
<1>1. SoundCall(r)
  BY HeldModel, NoCallIsSound, QuotaAssumption DEF SoundCall, NoCall, Call, HoldsModel
<1> HIDE DEF r
<1>2. call' = [call EXCEPT ![c] = r]
  BY DEF TryNextModel, r
<1> QED BY <1>1, <1>2, MovesCall

LEMMA CallStepSound ==
  ASSUME IInv, NEW c \in Callers,
         \/ Begin(c) \/ GiveUp(c) \/ ReadClock(c) \/ SendRequest(c) \/ Finish(c)
         \/ Retry(c) \/ RateLimited(c)
  PROVE  IInv'
<1>1. call[c] \in Call /\ SoundCall(call[c]) /\ now \in Nat
  BY DEF IInv, SoundCall, TypeOK
<1>2. \E r : SoundCall(r) /\ call' = [call EXCEPT ![c] = r]
  <2>1. CASE Begin(c)
    <3>1. SoundCall([NoCall EXCEPT !.pc = "next"])
      BY NoCallIsSound DEF SoundCall, NoCall, Call, HoldsModel
    <3> QED BY <2>1, <3>1 DEF Begin
  <2>2. CASE Return(c)
    BY <2>2, NoCallIsSound DEF Return
  <2>3. CASE ReadClock(c)
    <3> DEFINE r == [call[c] EXCEPT !.pc = "locking", !.read = now]
    <3>1. call' = [call EXCEPT ![c] = r] /\ call[c].k <= Len(Models)
      BY <2>3 DEF ReadClock
    <3>2. SoundCall(r)
      BY <1>1, <3>1 DEF SoundCall, Call, HoldsModel
    <3> QED BY <3>1, <3>2
  <2>4. CASE SendRequest(c)
    <3> DEFINE r == [call[c] EXCEPT !.pc = "waiting"]
    <3>1. call' = [call EXCEPT ![c] = r] /\ call[c].pc = "ready"
      BY <2>4 DEF SendRequest, Goto, At
    <3>2. SoundCall(r)
      BY <1>1, <3>1 DEF SoundCall, Call, HoldsModel
    <3> QED BY <3>1, <3>2
  <2>5. CASE Retry(c) /\ ~Return(c)
    <3> DEFINE r == [call[c] EXCEPT !.pc = "ready", !.attempt = call[c].attempt + 1]
    <3>1. call' = [call EXCEPT ![c] = r] /\ call[c].pc = "waiting" /\ call[c].attempt < MaxRetries
      BY <2>5 DEF Retry, At
    <3>2. call[c].attempt + 1 \in 1..MaxRetries
      BY <1>1, <3>1, QuotaAssumption DEF Call
    <3>3. SoundCall(r)
      BY <1>1, <3>1, <3>2 DEF SoundCall, Call, HoldsModel
    <3> QED BY <3>1, <3>3
  <2>6. CASE RateLimited(c)
    <3>1. PICK retryAfter \in RetryAfters :
            call' = [call EXCEPT ![c].pc = "marking", ![c].read = now, ![c].retryAfter = retryAfter]
      BY <2>6 DEF RateLimited
    <3> DEFINE r == [call[c] EXCEPT !.pc = "marking", !.read = now, !.retryAfter = retryAfter]
    <3>2. call' = [call EXCEPT ![c] = r] /\ call[c].pc = "waiting"
      BY <2>6, <3>1 DEF RateLimited, At
    <3>3. SoundCall(r)
      BY <1>1, <3>2 DEF SoundCall, Call, HoldsModel
    <3> QED BY <3>2, <3>3
  <2> QED BY <2>1, <2>2, <2>3, <2>4, <2>5, <2>6 DEF GiveUp, Finish
<1>3. call' \in [Callers -> Call] /\ \A d \in Callers : SoundCall(call'[d])
  BY <1>2, MovesCall
<1>4. UNCHANGED <<now, quota, granted, announced>>
  BY DEF Begin, GiveUp, ReadClock, SendRequest, Finish, Retry, RateLimited
<1> QED BY <1>3, <1>4, MovesOnlyCall

LEMMA ReserveSound ==
  ASSUME IInv, NEW c \in Callers, Reserve(c)
  PROVE  IInv' /\ call[c].read >= announced[ModelOf(c)]
<1> DEFINE m == ModelOf(c)
           t == call[c].read
           pruned == Prune(quota[m], t)
           reserved == [pruned EXCEPT !.requests = Append(pruned.requests, t)]
           r == [call[c] EXCEPT !.pc = "ready"]
<1>1. call[c].pc = "locking" /\ call[c] \in Call /\ SoundCall(call[c])
  BY DEF Reserve, At, IInv, SoundCall
<1>2. m \in ModelSet /\ quota[m] \in ModelQuotaState /\ t \in Nat
  BY <1>1, HeldModel DEF HoldsModel
<1>3. /\ quota' = [quota EXCEPT ![m] = reserved] /\ granted' = [granted EXCEPT ![m] = Append(granted[m], t)]
      /\ ~Blocked(pruned, t) /\ call' = [call EXCEPT ![c] = r]
      /\ UNCHANGED <<now, announced>>
  BY DEF Reserve, Goto
<1>4. pruned \in ModelQuotaState /\ pruned.unavailableUntil = quota[m].unavailableUntil
  BY <1>2, PruneType
<1>5. SoundCall(r)
  BY <1>1 DEF SoundCall, Call, HoldsModel
<1> HIDE DEF m, t, pruned, r
<1>6. reserved \in ModelQuotaState /\ reserved.unavailableUntil = quota[m].unavailableUntil
  <2>1. pruned.requests \in Seq(Nat)
    BY <1>4 DEF ModelQuotaState
  <2>2. Append(pruned.requests, t) \in Seq(Nat)
    BY <1>2, <2>1
  <2> QED BY <1>4, <2>2 DEF ModelQuotaState
<1> HIDE DEF reserved
<1>7. call' \in [Callers -> Call] /\ \A d \in Callers : SoundCall(call'[d])
  BY <1>3, <1>5, MovesCall
<1>8. granted' \in [ModelSet -> Seq(Nat)]
  BY <1>2, <1>3 DEF IInv, TypeOK
<1>9. quota' \in [ModelSet -> ModelQuotaState] /\ \A x \in ModelSet : quota'[x].unavailableUntil = announced'[x]
  BY <1>2, <1>3, <1>6 DEF IInv, TypeOK
<1>10. IInv'
  BY <1>3, <1>7, <1>8, <1>9 DEF IInv, TypeOK, SoundCall, HoldsModel, Call
<1>11. quota[m].unavailableUntil <= t
  BY <1>2, <1>3, <1>4, NotBlocked
<1>12. t >= announced[m]
  BY <1>2, <1>11 DEF IInv, TypeOK
<1> QED BY <1>10, <1>12 DEF m, t

LEMMA RefuseSound ==
  ASSUME IInv, NEW c \in Callers, Refuse(c)
  PROVE  IInv'
<1> DEFINE m == ModelOf(c)
           pruned == Prune(quota[m], call[c].read)
<1>1. call[c].pc \in HoldsModel
  BY DEF Refuse, At, HoldsModel
<1>2. m \in ModelSet /\ quota[m] \in ModelQuotaState
  BY <1>1, HeldModel
<1>3. pruned \in ModelQuotaState /\ pruned.unavailableUntil = quota[m].unavailableUntil
  BY <1>1, <1>2, HeldModel, PruneType
<1>4. call' \in [Callers -> Call] /\ \A d \in Callers : SoundCall(call'[d])
  BY <1>1, NextModelIsSound DEF Refuse
<1>5. quota' = [quota EXCEPT ![m] = pruned] /\ UNCHANGED <<now, granted, announced>>
  BY DEF Refuse
<1> HIDE DEF m, pruned
<1>6. quota' \in [ModelSet -> ModelQuotaState] /\ \A x \in ModelSet : quota'[x].unavailableUntil = announced'[x]
  BY <1>2, <1>3, <1>5 DEF IInv, TypeOK
<1> QED BY <1>4, <1>5, <1>6 DEF IInv, TypeOK, SoundCall, HoldsModel, Call

LEMMA MarkSound ==
  ASSUME IInv, NEW c \in Callers, MarkRateLimited(c)
  PROVE  IInv'
<1> DEFINE m == ModelOf(c)
           until == call[c].read + call[c].retryAfter
           pruned == Prune(quota[m], call[c].read)
           marked == [pruned EXCEPT !.unavailableUntil = Later(pruned.unavailableUntil, until)]
<1>1. call[c].pc \in HoldsModel
  BY DEF MarkRateLimited, At, HoldsModel
<1>2. m \in ModelSet /\ quota[m] \in ModelQuotaState /\ until \in Nat
  BY <1>1, HeldModel
<1>3. pruned \in ModelQuotaState /\ pruned.unavailableUntil = quota[m].unavailableUntil
  BY <1>1, <1>2, HeldModel, PruneType
<1>4. call' \in [Callers -> Call] /\ \A d \in Callers : SoundCall(call'[d])
  BY <1>1, NextModelIsSound DEF MarkRateLimited
<1>5. /\ quota' = [quota EXCEPT ![m] = marked]
      /\ announced' = [announced EXCEPT ![m] = Max({announced[m], until})]
      /\ UNCHANGED <<now, granted>>
  BY DEF MarkRateLimited
<1> HIDE DEF m, pruned, until
<1>6. quota[m].unavailableUntil = announced[m] /\ announced[m] \in Nat
  BY <1>2 DEF IInv, TypeOK
<1>7. Later(announced[m], until) = Max({announced[m], until}) /\ Later(announced[m], until) \in Nat
  BY <1>2, <1>6, LaterIsMax
<1>8. marked \in ModelQuotaState /\ marked.unavailableUntil = Later(announced[m], until)
  BY <1>3, <1>6, <1>7 DEF ModelQuotaState
<1> HIDE DEF marked
<1>9. /\ quota' \in [ModelSet -> ModelQuotaState] /\ announced' \in [ModelSet -> Nat]
      /\ \A x \in ModelSet : quota'[x].unavailableUntil = announced'[x]
  BY <1>2, <1>5, <1>7, <1>8 DEF IInv, TypeOK
<1> QED BY <1>4, <1>5, <1>9 DEF IInv, TypeOK, SoundCall, HoldsModel, Call

LEMMA InitSound == Init => IInv
BY NoCallIsSound, QuotaAssumption DEF Init, IInv, TypeOK, ModelQuotaState, SoundCall

LEMMA NextSound == IInv /\ [Next]_vars => IInv'
<1> SUFFICES ASSUME IInv, [Next]_vars PROVE IInv'
  OBVIOUS
<1>1. CASE Tick
  BY <1>1, QuotaAssumption DEF Tick, IInv, TypeOK, SoundCall, HoldsModel, Call
<1>2. ASSUME NEW c \in Callers, Begin(c) \/ Proceed(c) PROVE IInv'
  BY <1>2, CallStepSound, ReserveSound, RefuseSound, MarkSound DEF Proceed
<1>3. CASE UNCHANGED vars
  BY <1>3 DEF vars, IInv, TypeOK, SoundCall, HoldsModel, Call
<1> QED BY <1>1, <1>2, <1>3 DEF Next

(***************************************************************************)
(* The shared cache stays well typed: every call is at a model and an      *)
(* attempt that exist, and the kept request times are naturals.            *)
(***************************************************************************)
THEOREM QuotaTypeCorrect == Spec => []TypeOK
<1>1. IInv => TypeOK
  BY DEF IInv
<1> QED BY <1>1, InitSound, NextSound, PTL DEF Spec

(***************************************************************************)
(* Whichever call marked a model last, and whenever the others read their  *)
(* clock, no reservation is granted before the longest cooldown asked for  *)
(* has ended (markRateLimited, reserve).                                   *)
(***************************************************************************)
THEOREM CooldownsAlwaysHold == Spec => CooldownsHold
<1> DEFINE Waits == \A c \in Callers : Reserve(c) => call[c].read >= announced[ModelOf(c)]
<1>1. IInv /\ [Next]_vars => [Waits]_vars
  BY ReserveSound
<1> QED BY <1>1, InitSound, NextSound, PTL DEF Spec, CooldownsHold

---------------------------------------------------------------------------
(* The windows *)

(***************************************************************************)
(* The rest of a rest is a rest if what is left out is older than a day.   *)
(***************************************************************************)
LEMMA RestOfRest ==
  ASSUME NEW requests \in Seq(Nat), NEW all \in Seq(Nat), NEW t \in Nat, Rest(requests, all, t),
         NEW i \in 1..Len(requests) + 1, \A k \in 1..(i - 1) : requests[k] + Day < t,
         NEW kept \in Seq(Nat), Len(kept) = Len(requests) - i + 1,
         \A k \in 1..Len(kept) : kept[k] = requests[i + k - 1]
  PROVE  Rest(kept, all, t)
<1> DEFINE d == Dropped(requests, all)
<1>1. /\ d \in Nat /\ d = Len(all) - Len(requests)
      /\ \A k \in 1..Len(requests) : requests[k] = all[d + k]
      /\ \A k \in 1..d : all[k] + Day < t
  <2>1. DOMAIN requests = 1..Len(requests)
    OBVIOUS
  <2> QED BY <2>1 DEF Rest, Dropped
<1> HIDE DEF d
<1>2. /\ Len(requests) \in Nat /\ Len(all) \in Nat /\ i \in Nat
      /\ Dropped(kept, all) = d + i - 1 /\ d + i - 1 \in Nat
  BY <1>1 DEF Dropped
<1>3. ASSUME NEW k \in 1..Len(kept)
      PROVE  kept[k] = all[(d + i - 1) + k]
  <2>1. i + k - 1 \in 1..Len(requests) /\ d + (i + k - 1) = (d + i - 1) + k
    BY <1>1, <1>2
  <2> QED BY <1>1, <2>1
<1>4. ASSUME NEW k \in 1..(d + i - 1)
      PROVE  all[k] + Day < t
  <2>1. CASE k <= d
    BY <1>1, <2>1
  <2>2. CASE k > d
    <3>1. PICK j \in 1..(i - 1) : k = d + j
      <4>1. k - d \in 1..(i - 1) /\ k = d + (k - d)
        BY <1>1, <1>2, <2>2
      <4> QED BY <4>1
    <3>2. j \in 1..Len(requests)
      BY <1>2
    <3>3. requests[j] = all[d + j] /\ requests[j] + Day < t
      BY <1>1, <3>2
    <3> QED BY <3>1, <3>3
  <2> QED BY <1>1, <1>2, <2>1, <2>2
<1>5. DOMAIN kept = 1..Len(kept)
  OBVIOUS
<1> QED BY <1>2, <1>3, <1>4, <1>5 DEF Rest

(***************************************************************************)
(* What prune drops is older than a day at the time it is given.           *)
(***************************************************************************)
LEMMA PruneKeepsRest ==
  ASSUME NEW state \in ModelQuotaState, NEW t \in Nat,
         NEW all \in Seq(Nat), NEW now1 \in Nat, t <= now1, Rest(state.requests, all, now1)
  PROVE  Rest(Prune(state, t).requests, all, now1)
<1>1. PICK requests \in Seq(Nat) : requests = state.requests
  BY DEF ModelQuotaState
<1> DEFINE recent == {k \in DOMAIN requests : requests[k] + Day >= t}
           kept == IF recent = {} THEN <<>> ELSE SubSeq(requests, Min(recent), Len(requests))
<1>2. Prune(state, t).requests = kept
  BY <1>1 DEF ModelQuotaState, Prune
<1>3. Len(requests) \in Nat /\ Rest(requests, all, now1)
  BY <1>1
<1>4. \A k \in 1..Len(requests) : k \notin recent => requests[k] + Day < now1
  BY QuotaAssumption
<1>5. recent \in SUBSET Nat /\ recent \in SUBSET (1..Len(requests))
  OBVIOUS
<1> HIDE DEF recent
<1>6. CASE recent = {}
  <2>1. kept = <<>> /\ kept \in Seq(Nat) /\ Len(kept) = 0
    BY <1>6
  <2> HIDE DEF kept
  <2>2. PICK i \in 1..Len(requests) + 1 : i = Len(requests) + 1
    BY <1>3
  <2>3. \A k \in 1..(i - 1) : requests[k] + Day < now1
    BY <1>3, <1>4, <1>6, <2>2
  <2>4. /\ kept \in Seq(Nat) /\ Len(kept) = Len(requests) - i + 1
        /\ \A k \in 1..Len(kept) : kept[k] = requests[i + k - 1]
    <3>1. Len(kept) = Len(requests) - i + 1 /\ 1..0 = {}
      BY <1>3, <2>1, <2>2
    <3> QED BY <2>1, <3>1
  <2>5. Rest(kept, all, now1)
    <3>1. i \in 1..Len(requests) + 1
      BY <1>3
    <3> QED BY <1>3, <2>3, <2>4, <3>1, RestOfRest
  <2> QED BY <1>2, <2>5
<1>7. CASE recent # {}
  <2>1. PICK i \in 1..Len(requests) : i = Min(recent) /\ \A k \in recent : i <= k
    BY <1>5, <1>7, MinOfSet
  <2>2. kept = SubSeq(requests, i, Len(requests))
    BY <1>7, <2>1
  <2> HIDE DEF kept
  <2>3. /\ kept \in Seq(Nat) /\ Len(kept) = Len(requests) - i + 1
        /\ \A k \in 1..Len(kept) : kept[k] = requests[i + k - 1]
    <3>1. i \in Int /\ Len(requests) \in Int /\ \A k \in i..Len(requests) : requests[k] \in Nat
      BY <1>3
    <3>2. /\ SubSeq(requests, i, Len(requests)) \in Seq(Nat)
          /\ Len(SubSeq(requests, i, Len(requests))) = IF i <= Len(requests) THEN Len(requests) - i + 1 ELSE 0
          /\ \A k \in 1..(Len(requests) - i + 1) : SubSeq(requests, i, Len(requests))[k] = requests[i + k - 1]
      BY <3>1, SubSeqProperties
    <3>3. Len(kept) = Len(requests) - i + 1
      BY <1>3, <2>2, <3>2
    <3> QED BY <2>2, <3>2, <3>3
  <2>4. \A k \in 1..(i - 1) : requests[k] + Day < now1
    <3> SUFFICES ASSUME NEW k \in 1..(i - 1) PROVE requests[k] + Day < now1
      OBVIOUS
    <3>1. k \in 1..Len(requests) /\ ~(i <= k)
      BY <1>3
    <3>2. k \notin recent
      BY <2>1, <3>1
    <3> QED BY <1>4, <3>1, <3>2
  <2>5. Rest(kept, all, now1)
    <3>1. i \in 1..Len(requests) + 1
      BY <1>3
    <3> QED BY <1>3, <2>3, <2>4, <3>1, RestOfRest
  <2> QED BY <1>2, <2>5
<1> QED BY <1>6, <1>7

LEMMA AppendKeepsRest ==
  ASSUME NEW requests \in Seq(Nat), NEW all \in Seq(Nat), NEW t \in Nat, NEW x \in Nat,
         Rest(requests, all, t)
  PROVE  Rest(Append(requests, x), Append(all, x), t)
<1> DEFINE requests1 == Append(requests, x)
           all1 == Append(all, x)
           d == Dropped(requests, all)
<1>1. /\ d \in Nat /\ d = Len(all) - Len(requests)
      /\ \A k \in 1..Len(requests) : requests[k] = all[d + k]
      /\ \A k \in 1..d : all[k] + Day < t
  <2>1. DOMAIN requests = 1..Len(requests)
    OBVIOUS
  <2> QED BY <2>1 DEF Rest, Dropped
<1>2. /\ requests1 \in Seq(Nat) /\ Len(requests1) = Len(requests) + 1
      /\ \A k \in 1..Len(requests) : requests1[k] = requests[k]
      /\ requests1[Len(requests) + 1] = x
  BY AppendProperties
<1>3. /\ all1 \in Seq(Nat) /\ Len(all1) = Len(all) + 1
      /\ \A k \in 1..Len(all) : all1[k] = all[k]
      /\ all1[Len(all) + 1] = x
  BY AppendProperties
<1>4. Len(all) \in Nat /\ Len(requests) \in Nat /\ Len(all) = d + Len(requests)
  BY <1>1
<1> HIDE DEF requests1, all1, d
<1>5. Dropped(requests1, all1) = d
  BY <1>1, <1>2, <1>3, <1>4 DEF Dropped
<1>6. \A k \in 1..Len(requests1) : requests1[k] = all1[d + k]
  <2> SUFFICES ASSUME NEW k \in 1..Len(requests1) PROVE requests1[k] = all1[d + k]
    OBVIOUS
  <2>1. CASE k = Len(requests) + 1
    BY <1>1, <1>2, <1>3, <1>4, <2>1
  <2>2. CASE k \in 1..Len(requests)
    <3>1. d + k \in 1..Len(all)
      BY <1>1, <1>4, <2>2
    <3> QED BY <1>1, <1>2, <1>3, <2>2, <3>1
  <2> QED BY <1>2, <1>4, <2>1, <2>2
<1>7. \A k \in 1..d : all1[k] + Day < t
  <2>1. \A k \in 1..d : k \in 1..Len(all)
    BY <1>1, <1>4
  <2> QED BY <1>1, <1>3, <2>1
<1>8. DOMAIN requests1 = 1..Len(requests1)
  BY <1>2
<1> QED BY <1>1, <1>5, <1>6, <1>7, <1>8 DEF Rest, requests1, all1

LEMMA PositionsAreFinite ==
  ASSUME NEW n \in Nat
  PROVE  IsFiniteSet(1..n) /\ Cardinality(1..n) = n
<1>1. 1 \in Int /\ n \in Int
  OBVIOUS
<1>2. IsFiniteSet(1..n) /\ Cardinality(1..n) = IF 1 > n THEN 0 ELSE n - 1 + 1
  BY <1>1, FS_Interval, Zenon
<1> QED BY <1>2

(***************************************************************************)
(* If the cache still has the reservations of a window, among a set of its *)
(* positions, there are at most as many of them as positions.              *)
(***************************************************************************)
LEMMA WindowIsCounted ==
  ASSUME NEW requests \in Seq(Nat), NEW all \in Seq(Nat), NEW t \in Nat, Rest(requests, all, t),
         NEW s \in Nat, NEW length \in Nat, NEW Q \in SUBSET (1..Len(requests)),
         \A k \in 1..Dropped(requests, all) : ~(s < all[k] + length),
         \A j \in 1..Len(requests) : s < requests[j] + length => j \in Q
  PROVE  /\ IsFiniteSet(Window(all, s, length)) /\ IsFiniteSet(Q)
         /\ Cardinality(Window(all, s, length)) <= Cardinality(Q)
<1> DEFINE d == Dropped(requests, all)
           W == Window(all, s, length)
           f == [k \in W |-> k - d]
<1>1. /\ d \in Nat /\ d = Len(all) - Len(requests)
      /\ \A k \in 1..Len(requests) : requests[k] = all[d + k]
  <2>1. DOMAIN requests = 1..Len(requests)
    OBVIOUS
  <2> QED BY <2>1 DEF Rest, Dropped
<1>2. \A k \in 1..d : ~(s < all[k] + length)
  OBVIOUS
<1> HIDE DEF d
<1>3. Len(requests) \in Nat /\ Len(all) \in Nat
  OBVIOUS
<1>4. ASSUME NEW k \in W
      PROVE  k \in Nat /\ k - d \in Q
  <2>1. k \in 1..Len(all) /\ s < all[k] + length
    BY DEF Window
  <2>2. k > d
    BY <1>1, <1>2, <2>1
  <2>3. PICK j \in 1..Len(requests) : k = d + j
    <3>1. k - d \in 1..Len(requests) /\ k = d + (k - d)
      BY <1>1, <1>3, <2>1, <2>2
    <3> QED BY <3>1
  <2>4. requests[j] = all[k]
    BY <1>1, <2>3
  <2>5. j \in Q
    BY <2>1, <2>4
  <2> QED BY <1>1, <2>1, <2>3, <2>5
<1>5. IsFiniteSet(Q)
  BY <1>3, PositionsAreFinite, FS_Subset
<1> HIDE DEF W
<1>6. f \in Injection(W, Q)
  <2>1. f \in [W -> Q]
    BY <1>4
  <2>2. \A j, k \in W : f[j] = f[k] => j = k
    BY <1>1, <1>4
  <2> QED BY <2>1, <2>2 DEF Injection, IsInjective
<1> HIDE DEF f
<1>7. IsFiniteSet(W) /\ Cardinality(W) <= Cardinality(Q)
  BY <1>5, <1>6, FS_Injection
<1> QED BY <1>5, <1>7 DEF W

(***************************************************************************)
(* One more reservation counts in the windows that it lies in.             *)
(***************************************************************************)
LEMMA OneMoreInWindow ==
  ASSUME NEW all \in Seq(Nat), NEW t \in Nat, NEW s \in Nat, NEW length \in Nat, NEW limit \in Nat,
         Cardinality(Window(all, s, length)) <= limit,
         t <= s /\ s < t + length => Cardinality(Window(all, s, length)) < limit
  PROVE  Cardinality(Window(Append(all, t), s, length)) <= limit
<1> DEFINE all1 == Append(all, t)
           n == Len(all) + 1
           W == Window(all, s, length)
           W1 == Window(all1, s, length)
<1>1. /\ Len(all) \in Nat /\ DOMAIN all = 1..Len(all) /\ DOMAIN all1 = 1..n
      /\ \A k \in 1..Len(all) : all1[k] = all[k]
      /\ all1[n] = t
  BY AppendProperties
<1> HIDE DEF all1
<1>2. IsFiniteSet(W) /\ Cardinality(W) \in Nat
  <2>1. W \in SUBSET (1..Len(all))
    BY <1>1 DEF Window
  <2> HIDE DEF W
  <2> QED BY <1>1, <2>1, PositionsAreFinite, FS_Subset, FS_CardinalityType
<1>3. CASE t <= s /\ s < t + length
  <2>1. W1 = W \cup {n} /\ n \notin W
    BY <1>1, <1>3 DEF Window
  <2>2. Cardinality(W) < limit
    BY <1>3
  <2> HIDE DEF W, W1, n
  <2>3. Cardinality(W1) = Cardinality(W) + 1
    BY <1>2, <2>1, FS_AddElement
  <2>4. Cardinality(W1) <= limit
    BY <1>2, <2>2, <2>3
  <2> QED BY <2>4 DEF W1, all1
<1>4. CASE ~(t <= s /\ s < t + length)
  <2>1. W1 = W
    BY <1>1, <1>4 DEF Window
  <2> QED BY <2>1 DEF all1
<1> QED BY <1>3, <1>4

(***************************************************************************)
(* A model that is not blocked has room in every minute from now on: those *)
(* that count are in the cache, and fewer than the limit, since a full     *)
(* minute blocks until its earliest request is a minute old.               *)
(***************************************************************************)
LEMMA MinuteHasRoom ==
  ASSUME NEW state \in ModelQuotaState, NEW t \in Nat, ~Blocked(state, t),
         NEW all \in Seq(Nat), NEW now1 \in Nat, now1 <= t + MaxWait, Rest(state.requests, all, now1),
         \A k \in DOMAIN state.requests : state.requests[k] + Minute # t,
         RPMLimit > 0, NEW s \in Nat, t <= s
  PROVE  Cardinality(Window(all, s, Minute)) < RPMLimit
<1> DEFINE Q == InLastMinute(state, t)
<1>1. PICK requests \in Seq(Nat) : requests = state.requests
  BY DEF ModelQuotaState
<1>2. /\ RPMLimit \in Nat /\ Minute \in Nat /\ Day \in Nat /\ MaxWait \in Nat /\ Minute + MaxWait <= Day
  BY QuotaAssumption, WaitAssumption
<1>3. Q = {k \in 1..Len(requests) : requests[k] + Minute >= t}
  BY <1>1 DEF InLastMinute
<1>4. Cardinality(Q) < RPMLimit
  <2> SUFFICES ASSUME ~(Cardinality(Q) < RPMLimit) PROVE FALSE
    OBVIOUS
  <2> DEFINE times == {requests[k] : k \in Q}
  <2>1. IsFiniteSet(Q) /\ Cardinality(Q) \in Nat
    <3>1. Q \in SUBSET (1..Len(requests)) /\ Len(requests) \in Nat
      BY <1>3
    <3> HIDE DEF Q
    <3> QED BY <3>1, PositionsAreFinite, FS_Subset, FS_CardinalityType
  <2>2. Cardinality(Q) >= RPMLimit /\ Q # {}
    <3>1. Cardinality(Q) >= RPMLimit
      BY <1>2, <2>1
    <3>2. Q = {} => Cardinality(Q) = 0
      BY FS_EmptySet
    <3> HIDE DEF Q
    <3> QED BY <1>2, <3>1, <3>2
  <2>3. RPMCandidates(state, t) = {Min(times) + Minute}
    BY <1>1, <2>2 DEF RPMCandidates
  <2>4. times \in SUBSET Nat /\ times # {} /\ \A x \in times : x + Minute >= t /\ x + Minute # t
    <3>1. \A k \in Q : requests[k] \in Nat /\ requests[k] + Minute >= t /\ requests[k] + Minute # t
      BY <1>1, <1>3
    <3> HIDE DEF Q
    <3> QED BY <2>2, <3>1
  <2> HIDE DEF times
  <2>5. Min(times) \in times
    BY <2>4, MinOfSet
  <2>6. Min(times) + Minute <= t
    BY <2>3, NotBlocked
  <2> QED BY <1>2, <2>4, <2>5, <2>6
<1>5. Q \in SUBSET (1..Len(requests))
  BY <1>3
<1>6. \A k \in 1..Dropped(requests, all) : ~(s < all[k] + Minute)
  <2> SUFFICES ASSUME NEW k \in 1..Dropped(requests, all) PROVE ~(s < all[k] + Minute)
    OBVIOUS
  <2>1. all[k] + Day < now1
    BY <1>1 DEF Rest
  <2>2. all[k] \in Nat
    <3>1. Dropped(requests, all) \in Nat /\ Dropped(requests, all) <= Len(all)
      BY <1>1 DEF Rest, Dropped
    <3>2. k \in 1..Len(all)
      BY <3>1
    <3> QED BY <3>2
  <2> QED BY <1>2, <2>1, <2>2
<1>7. \A j \in 1..Len(requests) : s < requests[j] + Minute => j \in Q
  <2> SUFFICES ASSUME NEW j \in 1..Len(requests), s < requests[j] + Minute PROVE j \in Q
    OBVIOUS
  <2>1. requests[j] \in Nat
    OBVIOUS
  <2> QED BY <1>2, <1>3, <2>1
<1> HIDE DEF Q
<1>8. IsFiniteSet(Window(all, s, Minute)) /\ IsFiniteSet(Q) /\ Cardinality(Window(all, s, Minute)) <= Cardinality(Q)
  BY <1>1, <1>2, <1>5, <1>6, <1>7, WindowIsCounted
<1>9. Cardinality(Window(all, s, Minute)) \in Nat /\ Cardinality(Q) \in Nat
  BY <1>8, FS_CardinalityType
<1> QED BY <1>2, <1>4, <1>8, <1>9

(***************************************************************************)
(* And in every day less a wait: the request the limit counts from is a    *)
(* day old, and none recorded before it is later by more than a wait.      *)
(***************************************************************************)
LEMMA DayHasRoom ==
  ASSUME NEW state \in ModelQuotaState, NEW t \in Nat, ~Blocked(state, t),
         NEW all \in Seq(Nat), NEW now1 \in Nat, now1 <= t + MaxWait, Rest(state.requests, all, now1),
         \A j, k \in DOMAIN all : j <= k => all[j] <= all[k] + MaxWait,
         RPDLimit > 0, NEW s \in Nat, t <= s
  PROVE  Cardinality(Window(all, s, Day - MaxWait)) < RPDLimit
<1> DEFINE length == Day - MaxWait
<1>1. PICK requests \in Seq(Nat) : requests = state.requests
  BY DEF ModelQuotaState
<1>2. PICK n \in Nat : n = Len(requests)
  BY <1>1
<1>3. RPDLimit \in Nat /\ Day \in Nat /\ MaxWait \in Nat /\ length \in Nat
  BY QuotaAssumption, WaitAssumption
<1>4. PICK d \in Nat :
        /\ d = Dropped(requests, all) /\ Len(all) = d + n
        /\ \A k \in 1..n : requests[k] = all[d + k]
        /\ \A k \in 1..d : all[k] + Day < now1
  <2>1. DOMAIN requests = 1..n /\ Rest(requests, all, now1)
    BY <1>1, <1>2
  <2>2. Len(all) = Dropped(requests, all) + n /\ Dropped(requests, all) \in Nat
    BY <1>2, <2>1 DEF Rest, Dropped
  <2> QED BY <2>1, <2>2 DEF Rest
<1>5. \A k \in 1..Dropped(requests, all) : ~(s < all[k] + length)
  <2> SUFFICES ASSUME NEW k \in 1..d PROVE ~(s < all[k] + length)
    BY <1>4
  <2>1. all[k] + Day < now1
    BY <1>4
  <2>2. k \in 1..Len(all)
    BY <1>2, <1>4
  <2>3. all[k] \in Nat
    BY <2>2
  <2> QED BY <1>3, <2>1, <2>3
<1>6. ASSUME NEW Q \in SUBSET (1..n), Cardinality(Q) < RPDLimit,
             \A j \in 1..n : s < requests[j] + length => j \in Q
      PROVE  Cardinality(Window(all, s, length)) < RPDLimit
  <2> HIDE DEF length
  <2>1. /\ IsFiniteSet(Window(all, s, length)) /\ IsFiniteSet(Q)
        /\ Cardinality(Window(all, s, length)) <= Cardinality(Q)
    BY <1>1, <1>2, <1>3, <1>5, <1>6, WindowIsCounted
  <2>2. Cardinality(Window(all, s, length)) \in Nat /\ Cardinality(Q) \in Nat
    BY <2>1, FS_CardinalityType
  <2> QED BY <1>3, <1>6, <2>1, <2>2
<1>7. CASE n < RPDLimit
  <2>1. Cardinality(1..n) < RPDLimit
    BY <1>7, PositionsAreFinite
  <2> QED BY <1>6, <2>1
<1>8. CASE n >= RPDLimit
  <2>1. PICK first \in 1..n : first = n - RPDLimit + 1
    <3>1. n - RPDLimit + 1 \in 1..n
      BY <1>3, <1>8
    <3> QED BY <3>1
  <2> DEFINE Q == (first + 1)..n
  <2>2. requests[first] + Day <= t /\ requests[first] \in Nat
    <3>1. RPDCandidates(state) = {requests[first] + Day}
      BY <1>1, <1>2, <1>8, <2>1 DEF RPDCandidates
    <3> QED BY <1>2, <3>1, NotBlocked
  <2>3. Q \in SUBSET (1..n) /\ Cardinality(Q) < RPDLimit
    <3>1. Q \in SUBSET (1..n) /\ first + 1 \in Int /\ n \in Int
      BY <2>1
    <3>2. Cardinality((first + 1)..n) = IF first + 1 > n THEN 0 ELSE n - (first + 1) + 1
      BY <3>1, FS_Interval, Zenon
    <3>3. n - (first + 1) + 1 = RPDLimit - 1 /\ (first + 1 > n => 0 < RPDLimit)
      BY <1>3, <2>1
    <3> QED BY <1>3, <3>1, <3>2, <3>3
  <2>4. \A j \in 1..n : s < requests[j] + length => j \in Q
    <3> SUFFICES ASSUME NEW j \in 1..n, s < requests[j] + length, j <= first PROVE FALSE
      BY <2>1
    <3>1. d + j \in 1..Len(all) /\ d + first \in 1..Len(all) /\ d + j <= d + first
      <4>1. d \in Nat /\ n \in Nat /\ Len(all) = d + n
        BY <1>3, <1>4
      <4> QED BY <4>1
    <3>2. all[d + j] <= all[d + first] + MaxWait
      <4>1. DOMAIN all = 1..Len(all)
        OBVIOUS
      <4> QED BY <3>1, <4>1
    <3>3. requests[j] \in Nat /\ requests[j] <= requests[first] + MaxWait
      <4>1. requests[j] = all[d + j] /\ requests[first] = all[d + first]
        BY <1>4
      <4>2. \A k \in 1..n : requests[k] \in Nat
        BY <1>2
      <4> QED BY <3>2, <4>1, <4>2
    <3>4. \A x, y \in Nat : x <= y + MaxWait /\ y + Day <= t => ~(s < x + length)
      BY <1>3
    <3> HIDE DEF length
    <3> QED BY <2>2, <3>3, <3>4
  <2> HIDE DEF Q
  <2> QED BY <1>6, <2>3, <2>4
<1> QED BY <1>3, <1>7, <1>8

LEMMA WindowsInit == Init => WindowsInv /\ ReservationsWithinLimits
<1> SUFFICES ASSUME Init PROVE WindowsInv /\ ReservationsWithinLimits
  OBVIOUS
<1>1. IInv
  BY InitSound
<1>2. \A m \in ModelSet : quota[m].requests = <<>> /\ granted[m] = <<>>
  BY DEF Init
<1>3. Len(<<>>) = 0 /\ DOMAIN <<>> = {} /\ 1..0 = {}
  OBVIOUS
<1>4. KeepsTheRest
  <2>1. Dropped(<<>>, <<>>) = 0
    BY <1>3 DEF Dropped
  <2>2. \A t : Rest(<<>>, <<>>, t)
    BY <1>3, <2>1 DEF Rest
  <2> QED BY <1>2, <2>2 DEF KeepsTheRest
<1>5. GrantedInTime
  BY <1>2, <1>3 DEF GrantedInTime
<1>6. ClocksAreRecent /\ OffBoundary
  BY DEF Init, NoCall, ClocksAreRecent, UsesClock, OffBoundary
<1>7. \A s, length : Cardinality(Window(<<>>, s, length)) = 0
  <2>1. \A s, length : Window(<<>>, s, length) = {}
    BY <1>3 DEF Window
  <2> QED BY <2>1, FS_EmptySet
<1>8. ReservationsWithinLimits
  BY <1>2, <1>7, QuotaAssumption DEF ReservationsWithinLimits, AtMostPerWindow
<1> QED BY <1>1, <1>4, <1>5, <1>6, <1>8 DEF WindowsInv

(***************************************************************************)
(* A call that uses its clock prunes by it, and keeps the rest.            *)
(***************************************************************************)
LEMMA HeldClock ==
  ASSUME WindowsInv, NEW c \in Callers, UsesClock(call[c])
  PROVE  /\ ModelOf(c) \in ModelSet /\ granted[ModelOf(c)] \in Seq(Nat) /\ now \in Nat
         /\ call[c].read \in Nat /\ call[c].read <= now /\ now <= call[c].read + MaxWait
         /\ Prune(quota[ModelOf(c)], call[c].read) \in ModelQuotaState
         /\ Rest(Prune(quota[ModelOf(c)], call[c].read).requests, granted[ModelOf(c)], now)
<1> DEFINE m == ModelOf(c)
           t == call[c].read
<1>1. call[c].pc \in HoldsModel /\ IInv
  BY DEF UsesClock, HoldsModel, WindowsInv
<1>2. m \in ModelSet /\ quota[m] \in ModelQuotaState /\ t \in Nat
  BY <1>1, HeldModel
<1>3. granted[m] \in Seq(Nat) /\ now \in Nat
  BY <1>1, <1>2 DEF IInv, TypeOK
<1>4. t <= now /\ now <= t + MaxWait
  BY DEF WindowsInv, ClocksAreRecent
<1>5. Rest(quota[m].requests, granted[m], now)
  BY <1>2 DEF WindowsInv, KeepsTheRest
<1> HIDE DEF m, t
<1>6. Prune(quota[m], t) \in ModelQuotaState
  BY <1>2, PruneType
<1>7. Rest(Prune(quota[m], t).requests, granted[m], now)
  BY <1>2, <1>3, <1>4, <1>5, PruneKeepsRest
<1> QED BY <1>2, <1>3, <1>4, <1>6, <1>7 DEF m, t

(***************************************************************************)
(* A step of a call that grants nothing keeps the clocks in use recent and *)
(* off the boundary, if its own is.                                        *)
(***************************************************************************)
LEMMA MovesClock ==
  ASSUME WindowsInv, NEW c \in Callers, NEW r, call' = [call EXCEPT ![c] = r], UNCHANGED <<now, granted>>,
         UsesClock(r) => r.read <= now /\ now <= r.read + MaxWait,
         r.pc = "locking" => \A k \in DOMAIN granted[Models[r.k]] : granted[Models[r.k]][k] + Minute # r.read
  PROVE  ClocksAreRecent' /\ OffBoundary'
<1>1. \A d \in Callers : call'[d] = IF d = c THEN r ELSE call[d]
  BY DEF WindowsInv, IInv, TypeOK
<1>2. ClocksAreRecent'
  BY <1>1 DEF WindowsInv, ClocksAreRecent
<1>3. OffBoundary'
  BY <1>1 DEF WindowsInv, OffBoundary, ModelOf
<1> QED BY <1>2, <1>3

LEMMA WindowsCallStep ==
  ASSUME BoundaryReads = FALSE, WindowsInv, NEW c \in Callers,
         \/ Begin(c) \/ GiveUp(c) \/ ReadClock(c) \/ SendRequest(c) \/ Finish(c)
         \/ Retry(c) \/ RateLimited(c)
  PROVE  WindowsInv'
<1>1. IInv' /\ UNCHANGED <<now, quota, granted>>
  BY CallStepSound DEF WindowsInv, Begin, GiveUp, ReadClock, SendRequest, Finish, Retry, RateLimited
<1>2. KeepsTheRest' /\ GrantedInTime'
  BY <1>1 DEF WindowsInv, KeepsTheRest, GrantedInTime
<1>3. call[c] \in Call /\ now \in Nat /\ MaxWait \in Nat
  BY QuotaAssumption DEF WindowsInv, IInv, TypeOK
<1>4. ClocksAreRecent' /\ OffBoundary'
  <2>1. CASE ReadClock(c)
    <3> DEFINE r == [call[c] EXCEPT !.pc = "locking", !.read = now]
    <3>1. call' = [call EXCEPT ![c] = r]
      BY <2>1 DEF ReadClock
    <3>2. r.read = now /\ r.k = call[c].k
      BY <1>3 DEF Call
    <3>3. \A k \in DOMAIN granted[Models[r.k]] : granted[Models[r.k]][k] + Minute # r.read
      BY <2>1, <3>2 DEF ReadClock, ReadsBoundary, ModelOf
    <3> HIDE DEF r
    <3>4. r.read <= now /\ now <= r.read + MaxWait
      BY <1>3, <3>2
    <3> QED BY <1>1, <3>1, <3>3, <3>4, MovesClock
  <2>2. CASE RateLimited(c)
    <3>1. PICK retryAfter \in RetryAfters :
            call' = [call EXCEPT ![c].pc = "marking", ![c].read = now, ![c].retryAfter = retryAfter]
      BY <2>2 DEF RateLimited
    <3> DEFINE r == [call[c] EXCEPT !.pc = "marking", !.read = now, !.retryAfter = retryAfter]
    <3>2. call' = [call EXCEPT ![c] = r]
      BY <3>1
    <3>3. r.read = now /\ r.pc = "marking"
      BY <1>3 DEF Call
    <3> HIDE DEF r
    <3>4. r.read <= now /\ now <= r.read + MaxWait
      BY <1>3, <3>3
    <3> QED BY <1>1, <3>2, <3>3, <3>4, MovesClock
  <2>3. CASE Begin(c) \/ GiveUp(c) \/ SendRequest(c) \/ Finish(c) \/ Retry(c)
    <3>1. \E r : call' = [call EXCEPT ![c] = r] /\ r.pc \in {"idle", "next", "ready", "waiting"}
      <4>1. NoCall.pc = "idle" /\ [NoCall EXCEPT !.pc = "next"].pc = "next"
        BY DEF NoCall
      <4>2. CASE Return(c)
        BY <4>1, <4>2 DEF Return
      <4>3. CASE Begin(c)
        BY <4>1, <4>3 DEF Begin
      <4>4. CASE SendRequest(c)
        <5>1. call' = [call EXCEPT ![c] = [call[c] EXCEPT !.pc = "waiting"]]
          BY <4>4 DEF SendRequest, Goto
        <5>2. [call[c] EXCEPT !.pc = "waiting"].pc = "waiting"
          BY <1>3 DEF Call
        <5> QED BY <5>1, <5>2
      <4>5. CASE Retry(c) /\ ~Return(c)
        <5>1. call' = [call EXCEPT ![c] = [call[c] EXCEPT !.pc = "ready", !.attempt = call[c].attempt + 1]]
          BY <4>5 DEF Retry
        <5>2. [call[c] EXCEPT !.pc = "ready", !.attempt = call[c].attempt + 1].pc = "ready"
          BY <1>3 DEF Call
        <5> QED BY <5>1, <5>2
      <4> QED BY <2>3, <4>2, <4>3, <4>4, <4>5 DEF GiveUp, Finish
    <3>2. PICK r : call' = [call EXCEPT ![c] = r] /\ r.pc \in {"idle", "next", "ready", "waiting"}
      BY <3>1
    <3>3. ~UsesClock(r) /\ r.pc # "locking"
      BY <3>2 DEF UsesClock
    <3> QED BY <1>1, <3>2, <3>3, MovesClock
  <2> QED BY <2>1, <2>2, <2>3
<1> QED BY <1>1, <1>2, <1>4 DEF WindowsInv

(***************************************************************************)
(* A refusal and the mark of a 429 prune, and the call goes to the next    *)
(* model.                                                                  *)
(***************************************************************************)
LEMMA WindowsPruneStep ==
  ASSUME WindowsInv, NEW c \in Callers, Refuse(c) \/ MarkRateLimited(c)
  PROVE  WindowsInv'
<1> DEFINE m == ModelOf(c)
           requests == Prune(quota[m], call[c].read).requests
           r == [NoCall EXCEPT !.pc = "next", !.k = call[c].k + 1]
<1>1. UsesClock(call[c]) /\ IInv /\ IInv' /\ UNCHANGED <<now, granted>>
  BY RefuseSound, MarkSound DEF Refuse, MarkRateLimited, At, UsesClock, WindowsInv
<1>2. /\ m \in ModelSet /\ now \in Nat /\ Rest(requests, granted[m], now)
      /\ Prune(quota[m], call[c].read) \in ModelQuotaState
  BY <1>1, HeldClock
<1>3. \A x \in ModelSet : quota'[x].requests = IF x = m THEN requests ELSE quota[x].requests
  <2>1. quota \in [ModelSet -> ModelQuotaState]
    BY <1>1 DEF IInv, TypeOK
  <2>2. CASE Refuse(c)
    <3>1. quota' = [quota EXCEPT ![m] = Prune(quota[m], call[c].read)]
      BY <2>2 DEF Refuse
    <3> QED BY <1>2, <2>1, <3>1
  <2>3. CASE MarkRateLimited(c)
    <3> DEFINE pruned == Prune(quota[m], call[c].read)
               until == call[c].read + call[c].retryAfter
               marked == [pruned EXCEPT !.unavailableUntil = Later(pruned.unavailableUntil, until)]
    <3>1. quota' = [quota EXCEPT ![m] = marked]
      BY <2>3 DEF MarkRateLimited
    <3>2. marked.requests = pruned.requests
      BY <1>2 DEF ModelQuotaState
    <3> HIDE DEF marked
    <3> QED BY <1>2, <2>1, <3>1, <3>2
  <2> QED BY <2>2, <2>3
<1>4. call' = [call EXCEPT ![c] = r] /\ r.pc = "next"
  BY DEF Refuse, MarkRateLimited, TryNextModel, NoCall
<1> HIDE DEF m, requests, r
<1>5. KeepsTheRest'
  BY <1>1, <1>2, <1>3 DEF WindowsInv, KeepsTheRest
<1>6. GrantedInTime'
  BY <1>1 DEF WindowsInv, GrantedInTime
<1>7. ClocksAreRecent' /\ OffBoundary'
  BY <1>1, <1>4, MovesClock DEF UsesClock
<1> QED BY <1>1, <1>5, <1>6, <1>7 DEF WindowsInv

(***************************************************************************)
(* A reservation is recorded at most a wait out of order, and no waiting   *)
(* call read its clock a minute after it.                                  *)
(***************************************************************************)
LEMMA WindowsReserve ==
  ASSUME WindowsInv, NEW c \in Callers, Reserve(c)
  PROVE  WindowsInv'
<1> DEFINE m == ModelOf(c)
           t == call[c].read
           pruned == Prune(quota[m], t)
           all == granted[m]
           r == [call[c] EXCEPT !.pc = "ready"]
<1>1. UsesClock(call[c]) /\ IInv /\ IInv' /\ now' = now
  BY ReserveSound DEF Reserve, At, UsesClock, WindowsInv
<1>2. /\ m \in ModelSet /\ all \in Seq(Nat) /\ now \in Nat /\ t \in Nat /\ t <= now /\ now <= t + MaxWait
      /\ pruned \in ModelQuotaState /\ Rest(pruned.requests, all, now)
  BY <1>1, HeldClock
<1>3. /\ quota' = [quota EXCEPT ![m] = [pruned EXCEPT !.requests = Append(pruned.requests, t)]]
      /\ granted' = [granted EXCEPT ![m] = Append(all, t)]
      /\ call' = [call EXCEPT ![c] = r]
  BY DEF Reserve, Goto
<1>4. r.pc = "ready"
  BY <1>1 DEF IInv, TypeOK, Call
<1>5. /\ \A x \in ModelSet : quota'[x].requests = IF x = m THEN Append(pruned.requests, t) ELSE quota[x].requests
      /\ \A x \in ModelSet : granted'[x] = IF x = m THEN Append(all, t) ELSE granted[x]
      /\ \A d \in Callers : call'[d] = IF d = c THEN r ELSE call[d]
  BY <1>1, <1>2, <1>3 DEF IInv, TypeOK, ModelQuotaState
<1>6. \A k \in DOMAIN all : all[k] <= now
  BY <1>2 DEF WindowsInv, GrantedInTime
<1>7. \A j, k \in DOMAIN all : j <= k => all[j] <= all[k] + MaxWait
  BY <1>2 DEF WindowsInv, GrantedInTime
<1>8. MaxWait \in Nat /\ Minute \in Nat /\ MaxWait < Minute
  BY QuotaAssumption, WaitAssumption
<1> HIDE DEF m, t, pruned, all, r
<1>9. /\ DOMAIN Append(all, t) = 1..(Len(all) + 1) /\ DOMAIN all = 1..Len(all) /\ Len(all) \in Nat
      /\ \A k \in 1..Len(all) : Append(all, t)[k] = all[k] /\ all[k] \in Nat
      /\ Append(all, t)[Len(all) + 1] = t
  BY <1>2, AppendProperties
<1>10. KeepsTheRest'
  <2>1. pruned.requests \in Seq(Nat)
    BY <1>2 DEF ModelQuotaState
  <2>2. Rest(Append(pruned.requests, t), Append(all, t), now)
    BY <1>2, <2>1, AppendKeepsRest
  <2> QED BY <1>1, <1>5, <2>2 DEF WindowsInv, KeepsTheRest
<1>11. GrantedInTime'
  <2>1. \A k \in DOMAIN Append(all, t) : Append(all, t)[k] <= now
    BY <1>2, <1>6, <1>9
  <2>2. ASSUME NEW j \in DOMAIN Append(all, t), NEW k \in DOMAIN Append(all, t), j <= k
        PROVE  Append(all, t)[j] <= Append(all, t)[k] + MaxWait
    <3>1. CASE k \in 1..Len(all)
      <4>1. j \in 1..Len(all)
        BY <1>9, <2>2, <3>1
      <4> QED BY <1>7, <1>9, <2>2, <3>1, <4>1
    <3>2. CASE k = Len(all) + 1 /\ j \in 1..Len(all)
      <4>1. Append(all, t)[j] <= now /\ Append(all, t)[j] \in Nat
        BY <1>6, <1>9, <3>2
      <4> QED BY <1>2, <1>8, <1>9, <3>2, <4>1
    <3>3. CASE k = Len(all) + 1 /\ j = Len(all) + 1
      BY <1>2, <1>8, <1>9, <3>3
    <3> QED BY <1>9, <3>1, <3>2, <3>3
  <2> QED BY <1>1, <1>5, <2>1, <2>2 DEF WindowsInv, GrantedInTime
<1>12. ClocksAreRecent'
  BY <1>1, <1>4, <1>5 DEF WindowsInv, ClocksAreRecent, UsesClock
<1>13. OffBoundary'
  <2> SUFFICES ASSUME NEW d \in Callers, call'[d].pc = "locking", NEW k \in DOMAIN granted'[ModelOf(d)']
               PROVE  granted'[ModelOf(d)'][k] + Minute # call'[d].read
    BY DEF OffBoundary
  <2>1. d # c /\ call'[d] = call[d] /\ ModelOf(d)' = ModelOf(d) /\ UsesClock(call[d])
    BY <1>4, <1>5 DEF ModelOf, UsesClock
  <2>2. ModelOf(d) \in ModelSet /\ call[d].read \in Nat /\ call[d].read <= now
    BY <2>1, HeldClock
  <2>3. \A i \in DOMAIN granted[ModelOf(d)] : granted[ModelOf(d)][i] + Minute # call[d].read
    BY <2>1 DEF WindowsInv, OffBoundary
  <2>4. CASE ModelOf(d) # m
    BY <1>5, <2>1, <2>2, <2>3, <2>4
  <2>5. CASE ModelOf(d) = m
    <3>1. granted'[m] = Append(all, t) /\ granted[m] = all
      BY <1>2, <1>5 DEF all
    <3>2. t + Minute # call[d].read
      BY <1>2, <1>8, <2>2
    <3> QED BY <1>9, <2>1, <2>3, <2>5, <3>1, <3>2
  <2> QED BY <2>4, <2>5
<1> QED BY <1>1, <1>10, <1>11, <1>12, <1>13 DEF WindowsInv

LEMMA RestLasts ==
  ASSUME NEW requests \in Seq(Nat), NEW all \in Seq(Nat), NEW t \in Nat, Rest(requests, all, t)
  PROVE  Rest(requests, all, t + 1)
<1> DEFINE d == Dropped(requests, all)
<1>1. d \in Nat /\ d = Len(all) - Len(requests) /\ Len(all) \in Nat /\ Len(requests) \in Nat
  BY DEF Rest, Dropped
<1>2. \A k \in 1..d : all[k] + Day < t
  BY DEF Rest
<1> HIDE DEF d
<1>3. ASSUME NEW k \in 1..d PROVE all[k] + Day < t + 1
  <2>1. k \in 1..Len(all)
    BY <1>1
  <2>2. all[k] \in Nat /\ all[k] + Day < t
    BY <1>2, <2>1
  <2> QED BY <2>2, QuotaAssumption
<1> QED BY <1>3 DEF Rest, d

LEMMA WindowsTick ==
  ASSUME WindowsInv, Tick
  PROVE  WindowsInv'
<1>1. /\ IInv /\ IInv' /\ now \in Nat /\ now' = now + 1 /\ UNCHANGED <<quota, call, granted>>
      /\ MaxWait \in Nat /\ Day \in Nat
  BY NextSound, QuotaAssumption DEF WindowsInv, IInv, TypeOK, Tick, Next
<1>2. ASSUME NEW m \in ModelSet
      PROVE  Rest(quota[m].requests, granted[m], now + 1)
  <2>1. Rest(quota[m].requests, granted[m], now) /\ granted[m] \in Seq(Nat) /\ quota[m].requests \in Seq(Nat)
    BY <1>1 DEF WindowsInv, KeepsTheRest, IInv, TypeOK, ModelQuotaState
  <2> QED BY <1>1, <2>1, RestLasts
<1>3. KeepsTheRest'
  BY <1>1, <1>2 DEF KeepsTheRest
<1>4. GrantedInTime'
  <2>1. \A m \in ModelSet : \A k \in DOMAIN granted[m] : granted[m][k] \in Nat /\ granted[m][k] <= now
    BY <1>1 DEF WindowsInv, GrantedInTime, IInv, TypeOK
  <2>2. \A m \in ModelSet : \A k \in DOMAIN granted[m] : granted[m][k] <= now + 1
    BY <1>1, <2>1
  <2> QED BY <1>1, <2>2 DEF WindowsInv, GrantedInTime
<1>5. ClocksAreRecent'
  <2>1. \A c \in Callers : UsesClock(call[c]) => now - call[c].read < MaxWait /\ call[c].read <= now /\ call[c].read \in Nat
    BY <1>1 DEF WindowsInv, ClocksAreRecent, UsesClock, Tick, At, IInv, TypeOK, Call
  <2> QED BY <1>1, <2>1 DEF ClocksAreRecent
<1>6. OffBoundary'
  BY <1>1 DEF WindowsInv, OffBoundary, ModelOf
<1> QED BY <1>1, <1>3, <1>4, <1>5, <1>6 DEF WindowsInv

LEMMA WindowsNext ==
  ASSUME BoundaryReads = FALSE, WindowsInv, [Next]_vars
  PROVE  WindowsInv'
<1>1. CASE Tick
  BY <1>1, WindowsTick
<1>2. ASSUME NEW c \in Callers, Begin(c) \/ Proceed(c) PROVE WindowsInv'
  BY <1>2, WindowsCallStep, WindowsReserve, WindowsPruneStep DEF Proceed
<1>3. CASE UNCHANGED vars
  <2>1. IInv'
    BY <1>3, NextSound DEF WindowsInv
  <2> QED BY <1>3, <2>1
      DEF vars, WindowsInv, KeepsTheRest, GrantedInTime, ClocksAreRecent, OffBoundary, ModelOf
<1> QED BY <1>1, <1>2, <1>3 DEF Next

(***************************************************************************)
(* A reservation fits into every window that it lies in.                   *)
(***************************************************************************)
LEMMA ReserveFits ==
  ASSUME WindowsInv, ReservationsWithinLimits, NEW c \in Callers, Reserve(c)
  PROVE  ReservationsWithinLimits'
<1> DEFINE m == ModelOf(c)
           t == call[c].read
           pruned == Prune(quota[m], t)
           all == granted[m]
<1>1. UsesClock(call[c]) /\ IInv /\ call[c].pc = "locking"
  BY DEF Reserve, At, UsesClock, WindowsInv
<1>2. /\ m \in ModelSet /\ all \in Seq(Nat) /\ now \in Nat /\ t \in Nat /\ now <= t + MaxWait
      /\ pruned \in ModelQuotaState /\ Rest(pruned.requests, all, now)
  BY <1>1, HeldClock
<1>3. ~Blocked(pruned, t) /\ granted' = [granted EXCEPT ![m] = Append(all, t)]
  BY DEF Reserve
<1>4. \A x \in ModelSet : granted'[x] = IF x = m THEN Append(all, t) ELSE granted[x]
  BY <1>1, <1>3 DEF IInv, TypeOK
<1>5. \A j, k \in DOMAIN all : j <= k => all[j] <= all[k] + MaxWait
  BY <1>2 DEF WindowsInv, GrantedInTime
<1>6. \A k \in DOMAIN all : all[k] + Minute # t
  BY <1>1 DEF WindowsInv, OffBoundary
<1> HIDE DEF m, t, pruned, all
<1>7. \A k \in DOMAIN pruned.requests : pruned.requests[k] + Minute # t
  <2> DEFINE requests == pruned.requests
             d == Dropped(requests, all)
  <2> SUFFICES ASSUME NEW k \in DOMAIN requests PROVE requests[k] + Minute # t
    OBVIOUS
  <2>1. requests \in Seq(Nat)
    BY <1>2 DEF ModelQuotaState
  <2>2. d \in Nat /\ requests[k] = all[d + k] /\ d = Len(all) - Len(requests)
    BY <1>2 DEF Rest, Dropped
  <2> HIDE DEF requests, d
  <2>3. d + k \in DOMAIN all
    BY <1>2, <2>1, <2>2
  <2> QED BY <1>6, <2>2, <2>3
<1>8. ASSUME NEW limit \in Nat, NEW length \in Nat, AtMostPerWindow(limit, length),
             limit > 0 => \A s \in Nat : t <= s => Cardinality(Window(all, s, length)) < limit
      PROVE  limit > 0 => \A x \in ModelSet, s \in 0..MaxTime : Cardinality(Window(granted'[x], s, length)) <= limit
  <2> SUFFICES ASSUME limit > 0, NEW x \in ModelSet, NEW s \in 0..MaxTime
               PROVE  Cardinality(Window(granted'[x], s, length)) <= limit
    OBVIOUS
  <2>1. Cardinality(Window(granted[x], s, length)) <= limit
    BY <1>8 DEF AtMostPerWindow
  <2>2. CASE x # m
    BY <1>4, <2>1, <2>2
  <2>3. CASE x = m
    <3>1. s \in Nat /\ Cardinality(Window(all, s, length)) <= limit
      BY <2>1, <2>3 DEF all
    <3>2. Cardinality(Window(Append(all, t), s, length)) <= limit
      BY <1>2, <1>8, <3>1, OneMoreInWindow
    <3> QED BY <1>4, <2>3, <3>2
  <2> QED BY <2>2, <2>3
<1>9. AtMostPerWindow(RPMLimit, Minute)'
  <2>1. RPMLimit > 0 => \A s \in Nat : t <= s => Cardinality(Window(all, s, Minute)) < RPMLimit
    BY <1>2, <1>3, <1>7, MinuteHasRoom
  <2>2. RPMLimit \in Nat /\ Minute \in Nat /\ AtMostPerWindow(RPMLimit, Minute)
    BY QuotaAssumption DEF ReservationsWithinLimits
  <2> QED BY <1>8, <2>1, <2>2 DEF AtMostPerWindow
<1>10. AtMostPerWindow(RPDLimit, Day - MaxWait)'
  <2>1. RPDLimit > 0 => \A s \in Nat : t <= s => Cardinality(Window(all, s, Day - MaxWait)) < RPDLimit
    BY <1>2, <1>3, <1>5, DayHasRoom
  <2>2. RPDLimit \in Nat /\ Day - MaxWait \in Nat /\ AtMostPerWindow(RPDLimit, Day - MaxWait)
    BY QuotaAssumption, WaitAssumption DEF ReservationsWithinLimits
  <2> QED BY <1>8, <2>1, <2>2 DEF AtMostPerWindow
<1> QED BY <1>9, <1>10 DEF ReservationsWithinLimits

(***************************************************************************)
(* However the calls interleave between their clock and their lock, no     *)
(* minute, and no day less a wait, has more reservations of a model than   *)
(* its limit (reserve, prune, blockedUntil).  The clock is taken not to    *)
(* read exactly a minute after a reservation, where the code lets every    *)
(* call through.                                                           *)
(***************************************************************************)
THEOREM WindowsWithinLimits ==
  ASSUME BoundaryReads = FALSE
  PROVE  Spec => []ReservationsWithinLimits
<1> DEFINE Inv == WindowsInv /\ ReservationsWithinLimits
<1>1. Init => Inv
  BY WindowsInit
<1>2. ASSUME Inv, [Next]_vars PROVE Inv'
  <2>1. WindowsInv'
    BY <1>2, WindowsNext
  <2>2. ReservationsWithinLimits'
    <3>1. CASE \E c \in Callers : Reserve(c)
      BY <1>2, <3>1, ReserveFits
    <3>2. CASE ~\E c \in Callers : Reserve(c)
      <4>1. granted' = granted
        BY <1>2, <3>2 DEF Next, Proceed, Tick, Begin, GiveUp, ReadClock, Refuse, SendRequest, Finish, Retry,
                          RateLimited, MarkRateLimited, vars
      <4> QED BY <1>2, <4>1 DEF ReservationsWithinLimits, AtMostPerWindow
    <3> QED BY <3>1, <3>2
  <2> QED BY <2>1, <2>2
<1>3. Inv => ReservationsWithinLimits
  OBVIOUS
<1> QED BY <1>1, <1>2, <1>3, PTL DEF Spec

---------------------------------------------------------------------------
(* The time that a refusal reports *)

(***************************************************************************)
(* Pruning leaves the requests of the last minute, in other positions.     *)
(***************************************************************************)
LEMMA PruneLeavesMinute ==
  ASSUME NEW state \in ModelQuotaState, NEW s \in Nat
  PROVE  RPMCandidates(Prune(state, s), s) = RPMCandidates(state, s)
<1> DEFINE left == Prune(state, s)
           P == InLastMinute(left, s)
           Q == InLastMinute(state, s)
<1>1. PICK all \in Seq(Nat) : all = state.requests
  BY DEF ModelQuotaState
<1>2. PICK requests \in Seq(Nat) : requests = left.requests
  BY PruneType DEF ModelQuotaState
<1>3. Rest(requests, all, s)
  <2>1. Rest(all, all, s)
    <3>1. Dropped(all, all) = 0 /\ 1..0 = {}
      BY DEF Dropped
    <3>2. \A k \in DOMAIN all : 0 + k = k
      OBVIOUS
    <3> QED BY <3>1, <3>2 DEF Rest
  <2> QED BY <1>1, <1>2, <2>1, PruneKeepsRest
<1> DEFINE d == Dropped(requests, all)
<1>4. /\ d \in Nat /\ Len(all) = d + Len(requests) /\ Len(all) \in Nat /\ Len(requests) \in Nat
      /\ \A k \in 1..Len(requests) : requests[k] = all[d + k] /\ d + k \in 1..Len(all)
      /\ \A k \in 1..d : all[k] + Day < s /\ k \in 1..Len(all)
  <2>1. d \in Nat /\ Len(all) = d + Len(requests) /\ Len(all) \in Nat /\ Len(requests) \in Nat
    BY <1>3 DEF Rest, Dropped
  <2>2. \A k \in 1..Len(requests) : requests[k] = all[d + k]
    BY <1>3 DEF Rest
  <2>3. \A k \in 1..d : all[k] + Day < s
    BY <1>3 DEF Rest
  <2> HIDE DEF d
  <2> QED BY <2>1, <2>2, <2>3
<1>5. Q = {k \in 1..Len(all) : all[k] + Minute >= s}
  BY <1>1 DEF InLastMinute
<1>6. P = {k \in 1..Len(requests) : requests[k] + Minute >= s}
  BY <1>2 DEF InLastMinute
<1> HIDE DEF d, left
<1>7. \A k \in P : d + k \in Q /\ requests[k] = all[d + k] /\ k \in Nat
  BY <1>4, <1>5, <1>6
<1>8. \A j \in Q : \E k \in P : j = d + k
  <2> SUFFICES ASSUME NEW j \in Q PROVE \E k \in P : j = d + k
    OBVIOUS
  <2>1. j \in 1..Len(all) /\ all[j] + Minute >= s /\ all[j] \in Nat
    BY <1>5
  <2>2. j > d
    BY <1>4, <2>1, QuotaAssumption
  <2>3. PICK k \in 1..Len(requests) : j = d + k
    <3>1. j - d \in 1..Len(requests) /\ j = d + (j - d)
      BY <1>4, <2>1, <2>2
    <3> QED BY <3>1
  <2>4. requests[k] = all[j]
    BY <1>4, <2>3
  <2>5. k \in P
    BY <1>6, <2>1, <2>4
  <2> QED BY <2>3, <2>5
<1>9. IsFiniteSet(P)
  <2>1. P \in SUBSET (1..Len(requests))
    BY <1>6
  <2> HIDE DEF P
  <2> QED BY <1>4, <2>1, PositionsAreFinite, FS_Subset
<1> HIDE DEF P, Q
<1>10. {requests[k] : k \in P} = {all[k] : k \in Q}
  BY <1>7, <1>8
<1>11. Cardinality(P) = Cardinality(Q)
  <2> DEFINE f == [k \in P |-> d + k]
  <2>1. f \in [P -> Q] /\ \A j, k \in P : f[j] = f[k] => j = k
    BY <1>4, <1>7
  <2>2. \A j \in Q : \E k \in P : f[k] = j
    BY <1>8
  <2> HIDE DEF f
  <2>3. f \in Bijection(P, Q)
    BY <2>1, <2>2 DEF Bijection, Injection, Surjection, IsInjective
  <2> QED BY <1>9, <2>3, FS_Bijection DEF ExistsBijection
<1> QED BY <1>1, <1>2, <1>10, <1>11 DEF RPMCandidates, P, Q, left

(***************************************************************************)
(* While no more requests of the last minute than the limit are there, the *)
(* limit blocks until the earliest of them is a minute old.                *)
(***************************************************************************)
LEMMA MinuteBlocksUntil ==
  ASSUME NEW state \in ModelQuotaState, NEW t \in Nat, NEW s \in Nat, t <= s,
         RPMLimit > 0 => Cardinality(InLastMinute(state, t)) <= RPMLimit
  PROVE  (\E x \in RPMCandidates(state, s) : x > s) <=> (\E x \in RPMCandidates(state, t) : x > s)
<1> DEFINE S == InLastMinute(state, s)
           T == InLastMinute(state, t)
<1>1. PICK all \in Seq(Nat) : all = state.requests
  BY DEF ModelQuotaState
<1>2. /\ S = {k \in 1..Len(all) : all[k] + Minute >= s} /\ T = {k \in 1..Len(all) : all[k] + Minute >= t}
      /\ \A k \in 1..Len(all) : all[k] \in Nat
  BY <1>1 DEF InLastMinute
<1>3. S \subseteq T /\ IsFiniteSet(T) /\ Minute \in Nat /\ RPMLimit \in Nat
  <2>1. S \subseteq T /\ Minute \in Nat /\ RPMLimit \in Nat
    BY <1>2, QuotaAssumption
  <2>2. T \in SUBSET (1..Len(all)) /\ Len(all) \in Nat
    BY <1>2
  <2> HIDE DEF S, T
  <2> QED BY <2>1, <2>2, PositionsAreFinite, FS_Subset
<1>4. S = T => RPMCandidates(state, s) = RPMCandidates(state, t)
  BY DEF RPMCandidates
<1>5. \A r : RPMCandidates(state, r) # {} =>
        /\ RPMLimit > 0 /\ Cardinality(InLastMinute(state, r)) >= RPMLimit
        /\ RPMCandidates(state, r) = {Min({state.requests[k] : k \in InLastMinute(state, r)}) + Minute}
  BY DEF RPMCandidates
<1>6. ASSUME NEW x \in RPMCandidates(state, s), x > s
      PROVE  S = T
  <2>1. RPMLimit > 0 /\ Cardinality(S) >= RPMLimit /\ Cardinality(T) <= RPMLimit
    BY <1>5, <1>6
  <2> HIDE DEF S, T
  <2>2. Cardinality(S) <= Cardinality(T) /\ (Cardinality(T) = Cardinality(S) => S = T)
    BY <1>3, FS_Subset
  <2>3. Cardinality(S) \in Nat /\ Cardinality(T) \in Nat
    BY <1>3, FS_Subset, FS_CardinalityType
  <2> QED BY <1>3, <2>1, <2>2, <2>3
<1>7. ASSUME NEW x \in RPMCandidates(state, t), x > s
      PROVE  S = T
  <2> DEFINE times == {all[k] : k \in T}
  <2>1. Cardinality(T) >= RPMLimit /\ RPMLimit > 0 /\ x = Min(times) + Minute
    BY <1>1, <1>5, <1>7
  <2>2. T # {}
    <3>1. T = {} => Cardinality(T) = 0
      BY FS_EmptySet
    <3> HIDE DEF T
    <3> QED BY <1>3, <2>1, <3>1
  <2>3. times \in SUBSET Nat /\ times # {} /\ \A k \in T : all[k] \in times /\ all[k] \in Nat
    BY <1>2, <2>2
  <2> HIDE DEF times
  <2>4. Min(times) \in Nat /\ \A y \in times : Min(times) <= y
    BY <2>3, MinOfSet
  <2>5. \A k \in T : all[k] + Minute >= s
    BY <1>3, <1>7, <2>1, <2>3, <2>4
  <2> QED BY <1>2, <1>3, <2>5
<1> QED BY <1>4, <1>6, <1>7

LEMMA DayBlocksUntil ==
  ASSUME NEW state \in ModelQuotaState, NEW s \in Nat
  PROVE  (\E x \in RPDCandidates(Prune(state, s)) : x > s) <=> (\E x \in RPDCandidates(state) : x > s)
<1>1. PICK all \in Seq(Nat) : all = state.requests
  BY DEF ModelQuotaState
<1>2. PICK requests \in Seq(Nat) : requests = Prune(state, s).requests
  BY PruneType DEF ModelQuotaState
<1>3. Rest(requests, all, s)
  <2>1. Rest(all, all, s)
    <3>1. Dropped(all, all) = 0 /\ 1..0 = {}
      BY DEF Dropped
    <3>2. \A k \in DOMAIN all : 0 + k = k
      OBVIOUS
    <3> QED BY <3>1, <3>2 DEF Rest
  <2> QED BY <1>1, <1>2, <2>1, PruneKeepsRest
<1> DEFINE d == Dropped(requests, all)
           n == Len(requests)
<1>4. /\ d \in Nat /\ Len(all) = d + n /\ n \in Nat
      /\ \A k \in 1..n : requests[k] = all[d + k]
      /\ \A k \in 1..d : all[k] + Day < s
  <2>1. d \in Nat /\ Len(all) = d + n /\ n \in Nat /\ DOMAIN requests = 1..n
    BY <1>3 DEF Rest, Dropped
  <2> QED BY <1>3, <2>1 DEF Rest
<1>5. RPDCandidates(Prune(state, s)) = IF RPDLimit > 0 /\ n >= RPDLimit THEN {requests[n - RPDLimit + 1] + Day} ELSE {}
  BY <1>2 DEF RPDCandidates
<1> HIDE DEF d, n
<1>6. RPDCandidates(state) =
        IF RPDLimit > 0 /\ d + n >= RPDLimit THEN {all[d + n - RPDLimit + 1] + Day} ELSE {}
  <2>1. RPDCandidates(state) =
          IF RPDLimit > 0 /\ Len(all) >= RPDLimit THEN {all[Len(all) - RPDLimit + 1] + Day} ELSE {}
    BY <1>1 DEF RPDCandidates
  <2>2. Len(all) = d + n /\ d \in Nat /\ n \in Nat /\ RPDLimit \in Nat
    BY <1>4, QuotaAssumption
  <2>3. Len(all) - RPDLimit + 1 = d + n - RPDLimit + 1
    BY <2>2
  <2> QED BY <2>1, <2>2, <2>3
<1>7. RPDLimit \in Nat
  BY QuotaAssumption
<1>8. CASE RPDLimit > 0 /\ n >= RPDLimit
  <2>1. n - RPDLimit + 1 \in 1..n /\ d + (n - RPDLimit + 1) = d + n - RPDLimit + 1 /\ d + n >= RPDLimit
    BY <1>4, <1>7, <1>8
  <2>2. requests[n - RPDLimit + 1] = all[d + n - RPDLimit + 1]
    BY <1>4, <2>1
  <2> QED BY <1>5, <1>6, <1>8, <2>1, <2>2
<1>9. CASE ~(RPDLimit > 0 /\ n >= RPDLimit)
  <2>1. CASE RPDLimit > 0 /\ d + n >= RPDLimit
    <3>1. d + n - RPDLimit + 1 \in 1..d /\ d + n - RPDLimit + 1 \in 1..Len(all)
      BY <1>4, <1>7, <1>9, <2>1
    <3>2. all[d + n - RPDLimit + 1] + Day < s /\ all[d + n - RPDLimit + 1] + Day \in Nat
      BY <1>4, <3>1, QuotaAssumption
    <3>3. ~(all[d + n - RPDLimit + 1] + Day > s)
      BY <3>2
    <3> QED BY <1>5, <1>6, <1>9, <3>3
  <2>2. CASE ~(RPDLimit > 0 /\ d + n >= RPDLimit)
    BY <1>5, <1>6, <1>9, <2>2
  <2> QED BY <2>1, <2>2
<1> QED BY <1>8, <1>9

(***************************************************************************)
(* A pruned model with no more than the limit in the last minute is        *)
(* blocked until the time that was reported, and not from then on.         *)
(***************************************************************************)
LEMMA BlockedUntilReported ==
  ASSUME NEW state \in ModelQuotaState, NEW t \in Nat, NEW s \in Nat, t <= s,
         RPMLimit > 0 => Cardinality(InLastMinute(state, t)) <= RPMLimit
  PROVE  Blocked(Prune(state, s), s) <=> s < AvailableAt(state, t)
<1> DEFINE left == Prune(state, s)
<1>1. left \in ModelQuotaState /\ left.unavailableUntil = state.unavailableUntil
  BY PruneType
<1>2. RPMCandidates(left, s) = RPMCandidates(state, s)
  BY PruneLeavesMinute
<1>3. (\E x \in RPMCandidates(state, s) : x > s) <=> (\E x \in RPMCandidates(state, t) : x > s)
  BY MinuteBlocksUntil
<1>4. (\E x \in RPDCandidates(left) : x > s) <=> (\E x \in RPDCandidates(state) : x > s)
  BY DayBlocksUntil
<1> HIDE DEF left
<1>5. Blocked(left, s) <=> \E x \in Candidates(left, s) : x > s
  BY <1>1, BlockedByCandidate DEF Blocked
<1>6. (\E x \in Candidates(left, s) : x > s) <=> (\E x \in Candidates(state, t) : x > s)
  BY <1>1, <1>2, <1>3, <1>4 DEF Candidates
<1>7. AvailableAt(state, t) > s <=> \E x \in Candidates(state, t) : x > s
  BY BlockedByCandidate
<1>8. AvailableAt(state, t) \in Nat
  BY LatestCandidate
<1> QED BY <1>5, <1>6, <1>7, <1>8 DEF left

LEMMA RefuseIsExact ==
  ASSUME WindowsInv, ReservationsWithinLimits, NEW c \in Callers, Refuse(c),
         \A k \in DOMAIN granted[ModelOf(c)] : granted[ModelOf(c)][k] <= call[c].read
  PROVE  \A s \in call[c].read..AvailableAt(Prune(quota[ModelOf(c)], call[c].read), call[c].read) :
           Blocked(Prune(quota'[ModelOf(c)], s), s)
             <=> s < AvailableAt(Prune(quota[ModelOf(c)], call[c].read), call[c].read)
<1> DEFINE m == ModelOf(c)
           t == call[c].read
           pruned == Prune(quota[m], t)
           all == granted[m]
<1>1. UsesClock(call[c]) /\ IInv /\ call[c].pc = "locking"
  BY DEF Refuse, At, UsesClock, WindowsInv
<1>2. /\ m \in ModelSet /\ all \in Seq(Nat) /\ t \in Nat /\ t <= now
      /\ pruned \in ModelQuotaState /\ Rest(pruned.requests, all, now)
  BY <1>1, HeldClock
<1>3. t \in 0..MaxTime
  BY <1>1, <1>2, QuotaAssumption DEF IInv, TypeOK
<1>4. quota'[m] = pruned
  BY <1>1, <1>2 DEF Refuse, IInv, TypeOK
<1>5. \A k \in DOMAIN all : all[k] + Minute # t /\ all[k] <= t
  BY <1>1 DEF WindowsInv, OffBoundary
<1>6. RPMLimit > 0 => Cardinality(Window(all, t, Minute)) <= RPMLimit
  BY <1>2, <1>3 DEF ReservationsWithinLimits, AtMostPerWindow
<1> HIDE DEF m, t, pruned, all
<1>7. RPMLimit > 0 => Cardinality(InLastMinute(pruned, t)) <= RPMLimit
  <2> SUFFICES ASSUME RPMLimit > 0 PROVE Cardinality(InLastMinute(pruned, t)) <= RPMLimit
    OBVIOUS
  <2> DEFINE Q == InLastMinute(pruned, t)
             W == Window(all, t, Minute)
  <2>1. PICK requests \in Seq(Nat) : requests = pruned.requests
    BY <1>2 DEF ModelQuotaState
  <2> DEFINE d == Dropped(requests, all)
             f == [k \in Q |-> d + k]
  <2>2. d \in Nat /\ Len(all) = d + Len(requests) /\ \A k \in 1..Len(requests) : requests[k] = all[d + k]
    <3>1. Rest(requests, all, now) /\ DOMAIN requests = 1..Len(requests)
      BY <1>2, <2>1
    <3>2. Len(requests) \in Nat /\ Len(all) \in Nat /\ d \in Nat
      BY <1>2, <2>1, <3>1 DEF Rest
    <3>3. Len(all) = d + Len(requests)
      BY <3>2 DEF Dropped
    <3> HIDE DEF d
    <3> QED BY <3>1, <3>2, <3>3 DEF Rest, d
  <2>3. Q = {k \in 1..Len(requests) : requests[k] + Minute >= t}
    BY <2>1 DEF InLastMinute
  <2>4. DOMAIN all = 1..Len(all) /\ Len(all) \in Nat /\ \A k \in 1..Len(all) : all[k] \in Nat
    BY <1>2
  <2>5. IsFiniteSet(W)
    <3>1. W \in SUBSET (1..Len(all))
      BY <2>4 DEF Window
    <3> HIDE DEF W
    <3> QED BY <2>4, <3>1, PositionsAreFinite, FS_Subset
  <2> HIDE DEF d
  <2>6. \A k \in Q : k \in Nat /\ d + k \in W
    <3> SUFFICES ASSUME NEW k \in Q PROVE k \in Nat /\ d + k \in W
      OBVIOUS
    <3>1. k \in 1..Len(requests) /\ requests[k] + Minute >= t
      BY <2>3
    <3>2. d + k \in 1..Len(all) /\ requests[k] = all[d + k]
      BY <2>2, <3>1
    <3>3. all[d + k] <= t /\ t < all[d + k] + Minute
      <4>1. all[d + k] \in Nat /\ t \in Nat /\ Minute \in Nat
        BY <1>2, <2>4, <3>2, QuotaAssumption
      <4>2. all[d + k] + Minute # t /\ all[d + k] <= t
        BY <1>5, <2>4, <3>2
      <4>3. all[d + k] + Minute >= t
        BY <3>1, <3>2
      <4>4. \A x \in Nat : x + Minute >= t /\ x + Minute # t => t < x + Minute
        BY <4>1
      <4> QED BY <4>1, <4>2, <4>3, <4>4
    <3> QED BY <2>4, <3>1, <3>2, <3>3 DEF Window
  <2> HIDE DEF Q, W
  <2>7. f \in Injection(Q, W)
    <3>1. f \in [Q -> W] /\ \A j, k \in Q : f[j] = f[k] => j = k
      BY <2>2, <2>6
    <3> HIDE DEF f
    <3> QED BY <3>1 DEF Injection, IsInjective
  <2> HIDE DEF f
  <2>8. IsFiniteSet(Q) /\ Cardinality(Q) <= Cardinality(W)
    BY <2>5, <2>7, FS_Injection
  <2>9. Cardinality(Q) \in Nat /\ Cardinality(W) \in Nat /\ Cardinality(W) <= RPMLimit /\ RPMLimit \in Nat
    BY <1>6, <2>5, <2>8, FS_CardinalityType, QuotaAssumption DEF W
  <2>10. Cardinality(Q) <= RPMLimit
    BY <2>8, <2>9
  <2> QED BY <2>10 DEF Q
<1>8. AvailableAt(pruned, t) \in Nat
  BY <1>2, LatestCandidate
<1>9. \A s \in t..AvailableAt(pruned, t) : Blocked(Prune(pruned, s), s) <=> s < AvailableAt(pruned, t)
  <2> SUFFICES ASSUME NEW s \in t..AvailableAt(pruned, t)
               PROVE  Blocked(Prune(pruned, s), s) <=> s < AvailableAt(pruned, t)
    OBVIOUS
  <2>1. s \in Nat /\ t <= s
    BY <1>2, <1>8
  <2> QED BY <1>2, <1>7, <2>1, BlockedUntilReported
<1> QED BY <1>4, <1>9 DEF m, t, pruned

(***************************************************************************)
(* A refusal reports the time from which a reservation succeeds if nothing *)
(* else uses the model (blockedUntil).  Here it counts that no window has  *)
(* more than the limit: with one request too many in the last minute, the  *)
(* model would still be blocked at the time reported.                      *)
(***************************************************************************)
THEOREM RefusalsAreExact ==
  ASSUME BoundaryReads = FALSE
  PROVE  Spec => RefusalIsExact
<1> DEFINE Inv == WindowsInv /\ ReservationsWithinLimits
           Exact == \A c \in Callers :
             LET m == ModelOf(c)
                 t == call[c].read
                 until == AvailableAt(Prune(quota[m], t), t)
                 upToDate == \A k \in DOMAIN granted[m] : granted[m][k] <= t
             IN  Refuse(c) /\ upToDate => \A s \in t..until : Blocked(Prune(quota'[m], s), s) <=> s < until
<1>1. Spec => []ReservationsWithinLimits
  BY WindowsWithinLimits
<1>2. Init => WindowsInv
  BY WindowsInit
<1>3. WindowsInv /\ [Next]_vars => WindowsInv'
  BY WindowsNext
<1>4. WindowsInv /\ ReservationsWithinLimits /\ [Next]_vars => [Exact]_vars
  BY RefuseIsExact
<1> QED BY <1>1, <1>2, <1>3, <1>4, PTL DEF Spec, RefusalIsExact
=============================================================================
