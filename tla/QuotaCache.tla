----------------------------- MODULE QuotaCache -----------------------------
(***************************************************************************)
(* The language model client: concurrent calls of executeJSON, each trying *)
(* the configured models in order, and the quota cache they share, which   *)
(* refuses a model that has used up its requests per minute or per day or  *)
(* that answered 429.  A critical section of the cache's mutex is a step;  *)
(* the clock is read before the lock is taken, in a step of its own.       *)
(***************************************************************************)
EXTENDS Naturals, Sequences, FiniteSets, FiniteSetsExt

CONSTANTS
  Callers,      \* goroutines that use the client
  Models,       \* c.models, a sequence
  RPMLimit,     \* requests per minute and model, 0 for no limit
  RPDLimit,     \* requests per day and model, 0 for no limit
  Minute, Day,  \* the two windows, in ticks
  RetryAfters,  \* what parseRetryAfter may return, the default included
  MaxRetries,   \* maxInt(c.maxRetries, 1)
  MaxWait,      \* bound: ticks from reading the clock to holding the lock
  BoundaryReads, \* whether the clock may read one minute after a reservation, to the nanosecond
  MaxTime       \* bound: the last tick

ASSUME QuotaAssumption ==
  /\ IsFiniteSet(Callers) /\ Models \in Seq(STRING)
  /\ RPMLimit \in Nat /\ RPDLimit \in Nat
  /\ Minute \in Nat \ {0} /\ Day \in Nat \ {0} /\ Minute <= Day
  /\ RetryAfters \subseteq Nat \ {0}
  /\ MaxRetries \in Nat \ {0} /\ MaxWait \in Nat /\ MaxTime \in Nat
  /\ BoundaryReads \in BOOLEAN

\* The lock is held for a few list operations: nobody waits a minute for it.
ASSUME WaitAssumption == MaxWait < Minute /\ Minute + MaxWait <= Day

VARIABLES
  now,         \* the clock
  quota,       \* quotaCache.models
  call,        \* the local variables of each goroutine's call
  granted,     \* history: the times of all reservations of a model, as granted
  announced    \* history: the latest end of a cooldown that any 429 asked for
vars == <<now, quota, call, granted, announced>>

ModelSet == {Models[k] : k \in DOMAIN Models}

ModelQuotaState == [requests: Seq(Nat), unavailableUntil: Nat]

(***************************************************************************)
(* A call: where it is, the index of its model, the clock as it read it,   *)
(* the number of its attempt, and the retry-after of the 429 it handles.   *)
(***************************************************************************)
Call == [pc: {"idle", "next", "locking", "ready", "waiting", "marking"}, k: 1..Len(Models) + 1, read: Nat,
         attempt: 1..MaxRetries, retryAfter: RetryAfters \cup {0}]
NoCall == [pc |-> "idle", k |-> 1, read |-> 0, attempt |-> 1, retryAfter |-> 0]

Init ==
  /\ now = 0
  /\ quota = [m \in ModelSet |-> [requests |-> <<>>, unavailableUntil |-> 0]]
  /\ call = [c \in Callers |-> NoCall]
  /\ granted = [m \in ModelSet |-> <<>>]
  /\ announced = [m \in ModelSet |-> 0]

---------------------------------------------------------------------------
(* The state of a model *)

\* prune: the requests up to the first that is at most a day old are dropped.
Prune(state, t) ==
  LET recent == {k \in DOMAIN state.requests : state.requests[k] + Day >= t}
  IN  [state EXCEPT !.requests =
         IF recent = {} THEN <<>> ELSE SubSeq(@, Min(recent), Len(@))]

\* Mutant of InLastMinute: what was reserved after this call read its clock is not counted.
InLastMinuteSoFar(state, t) ==
  {k \in DOMAIN state.requests : state.requests[k] + Minute >= t /\ state.requests[k] <= t}
InLastMinute(state, t) == {k \in DOMAIN state.requests : state.requests[k] + Minute >= t}

\* Mutant of RPMCandidates: the latest request of the minute in place of the earliest.
RPMCandidatesByLatest(state, t) ==
  LET recent == InLastMinute(state, t)
  IN  IF RPMLimit > 0 /\ Cardinality(recent) >= RPMLimit
      THEN {Max({state.requests[k] : k \in recent}) + Minute}
      ELSE {}

\* When a request of the last minute, the rpm limit reached, makes room.
RPMCandidates(state, t) ==
  LET recent == InLastMinute(state, t)
  IN  IF RPMLimit > 0 /\ Cardinality(recent) >= RPMLimit
      THEN {Min({state.requests[k] : k \in recent}) + Minute}
      ELSE {}

\* When the request that the rpd limit counts as the first makes room.
RPDCandidates(state) ==
  LET n == Len(state.requests)
  IN  IF RPDLimit > 0 /\ n >= RPDLimit THEN {state.requests[n - RPDLimit + 1] + Day} ELSE {}

\* blockedUntil: the latest of the three candidates blocks if it is still to come.
AvailableAt(state, t) ==
  Max({state.unavailableUntil} \cup RPMCandidates(state, t) \cup RPDCandidates(state))
Blocked(state, t) == AvailableAt(state, t) > t

---------------------------------------------------------------------------
(* The steps of a call *)

ModelOf(c) == Models[call[c].k]
At(c, pc) == call[c].pc = pc
Goto(c, pc) == call' = [call EXCEPT ![c].pc = pc]
Return(c) == call' = [call EXCEPT ![c] = NoCall]
\* Mutant of TryNextModel: the call tries the same model again.
TryModelAgain(c) == call' = [call EXCEPT ![c] = [NoCall EXCEPT !.pc = "next", !.k = call[c].k]]
TryNextModel(c) == call' = [call EXCEPT ![c] = [NoCall EXCEPT !.pc = "next", !.k = call[c].k + 1]]

Begin(c) ==
  /\ At(c, "idle")
  /\ call' = [call EXCEPT ![c] = [NoCall EXCEPT !.pc = "next"]]
  /\ UNCHANGED <<now, quota, granted, announced>>

\* All models refused or rate limited: newRateLimitError.
GiveUp(c) ==
  /\ At(c, "next") /\ call[c].k > Len(Models)
  /\ Return(c)
  /\ UNCHANGED <<now, quota, granted, announced>>

ReadsBoundary(m) == \E k \in DOMAIN granted[m] : now = granted[m][k] + Minute

ReadClock(c) ==
  /\ At(c, "next") /\ call[c].k <= Len(Models)
  /\ BoundaryReads \/ ~ReadsBoundary(ModelOf(c))
  /\ call' = [call EXCEPT ![c].pc = "locking", ![c].read = now]
  /\ UNCHANGED <<now, quota, granted, announced>>

Reserve(c) ==
  LET m == ModelOf(c)
      t == call[c].read
      pruned == Prune(quota[m], t)
  IN  /\ At(c, "locking")
      /\ ~Blocked(pruned, t)
      /\ quota' = [quota EXCEPT ![m] = [pruned EXCEPT !.requests = Append(@, t)]]
      /\ granted' = [granted EXCEPT ![m] = Append(@, t)]
      /\ Goto(c, "ready")
      /\ UNCHANGED <<now, announced>>

Refuse(c) ==
  LET m == ModelOf(c)
      pruned == Prune(quota[m], call[c].read)
  IN  /\ At(c, "locking")
      /\ Blocked(pruned, call[c].read)
      /\ quota' = [quota EXCEPT ![m] = pruned]
      /\ TryNextModel(c)
      /\ UNCHANGED <<now, granted, announced>>

SendRequest(c) ==
  /\ At(c, "ready")
  /\ Goto(c, "waiting")
  /\ UNCHANGED <<now, quota, granted, announced>>

\* The request cannot be built, or the answer ends the call: a result, or another 4xx.
Finish(c) ==
  /\ At(c, "ready") \/ At(c, "waiting")
  /\ Return(c)
  /\ UNCHANGED <<now, quota, granted, announced>>

\* Mutant of Retry: one attempt more than configured.
RetryOnceMore(c) ==
  /\ At(c, "waiting")
  /\ IF call[c].attempt <= MaxRetries
     THEN call' = [call EXCEPT ![c].pc = "ready", ![c].attempt = @ + 1]
     ELSE Return(c)
  /\ UNCHANGED <<now, quota, granted, announced>>

\* No answer, a broken one, a 5xx or one that does not parse: the same model again.
Retry(c) ==
  /\ At(c, "waiting")
  /\ IF call[c].attempt < MaxRetries
     THEN call' = [call EXCEPT ![c].pc = "ready", ![c].attempt = @ + 1]
     ELSE Return(c)
  /\ UNCHANGED <<now, quota, granted, announced>>

\* Status 429: the clock is read again, then the cache marks the model.
RateLimited(c) ==
  /\ At(c, "waiting")
  /\ \E retryAfter \in RetryAfters :
       call' = [call EXCEPT ![c].pc = "marking", ![c].read = now, ![c].retryAfter = retryAfter]
  /\ UNCHANGED <<now, quota, granted, announced>>

\* Mutant of Later: the last 429 decides.
LastWins(s, t) == t
Later(s, t) == IF t > s THEN t ELSE s

MarkRateLimited(c) ==
  LET m == ModelOf(c)
      until == call[c].read + call[c].retryAfter
      pruned == Prune(quota[m], call[c].read)
  IN  /\ At(c, "marking")
      /\ quota' = [quota EXCEPT ![m] = [pruned EXCEPT !.unavailableUntil = Later(@, until)]]
      /\ announced' = [announced EXCEPT ![m] = Max({@, until})]
      /\ TryNextModel(c)
      /\ UNCHANGED <<now, granted>>

\* Time passes; a goroutine that has read the clock gets the lock within MaxWait.
Tick ==
  /\ now < MaxTime
  /\ \A c \in Callers : At(c, "locking") \/ At(c, "marking") => now - call[c].read < MaxWait
  /\ now' = now + 1
  /\ UNCHANGED <<quota, call, granted, announced>>

\* The steps that follow the start of a call.
Proceed(c) ==
  \/ GiveUp(c) \/ ReadClock(c) \/ Reserve(c) \/ Refuse(c)
  \/ SendRequest(c) \/ Finish(c) \/ Retry(c)
  \/ RateLimited(c) \/ MarkRateLimited(c)

Next == Tick \/ \E c \in Callers : Begin(c) \/ Proceed(c)

Spec == Init /\ [][Next]_vars

(***************************************************************************)
(* A goroutine that can run does, and the HTTP client's timeout ends every *)
(* wait for an answer.  Nobody has to start a call.                        *)
(***************************************************************************)
FairSpec == Spec /\ \A c \in Callers : WF_vars(Proceed(c))

---------------------------------------------------------------------------
(* Properties *)

TypeOK ==
  /\ now \in 0..MaxTime
  /\ quota \in [ModelSet -> ModelQuotaState]
  /\ call \in [Callers -> Call]
  /\ granted \in [ModelSet -> Seq(Nat)]
  /\ announced \in [ModelSet -> Nat]

\* Of all reservations, those of the window that ends at a time s, s included.
Window(all, s, length) == {k \in DOMAIN all : all[k] <= s /\ s < all[k] + length}

AtMostPerWindow(limit, length) ==
  limit > 0 =>
    \A m \in ModelSet, s \in 0..MaxTime : Cardinality(Window(granted[m], s, length)) <= limit

(***************************************************************************)
(* However the calls interleave between their clock and their lock, no     *)
(* window of a minute or a day has more reservations of a model than its   *)
(* limit (reserve and blockedUntil over the shared request times).  For    *)
(* the day this holds up to the time a call may wait for the lock: the     *)
(* request that the limit counts from is not the earliest if others were   *)
(* recorded late (blockedUntil's rpd candidate), and a later call may      *)
(* prune by its own clock what a waiting one still had to count (prune).   *)
(***************************************************************************)
ReservationsWithinLimits ==
  /\ AtMostPerWindow(RPMLimit, Minute)
  /\ AtMostPerWindow(RPDLimit, Day - MaxWait)

(***************************************************************************)
(* A model is not reserved before the end of the longest cooldown that any *)
(* of its 429 answers asked for, whichever call marked last                *)
(* (markRateLimited, reserve).                                             *)
(***************************************************************************)
CooldownsHold ==
  [][\A c \in Callers : Reserve(c) => call[c].read >= announced[ModelOf(c)]]_vars

(***************************************************************************)
(* The time a refusal reports is exact: if nothing else uses the model, it *)
(* stays blocked until then and a reservation at that time succeeds        *)
(* (blockedUntil's availableAt, shown to the caller in the error).  A call *)
(* whose clock is older than a reservation of another one may report a     *)
(* time that is too early.                                                 *)
(***************************************************************************)
RefusalIsExact ==
  [][\A c \in Callers :
       LET m == ModelOf(c)
           t == call[c].read
           until == AvailableAt(Prune(quota[m], t), t)
           upToDate == \A k \in DOMAIN granted[m] : granted[m][k] <= t
       IN  Refuse(c) /\ upToDate => \A s \in t..until : Blocked(Prune(quota'[m], s), s) <=> s < until]_vars

(***************************************************************************)
(* Every call returns: a refusal, a 429 or a failed attempt always brings  *)
(* it nearer to its last model or attempt (executeJSON, executeOnModel).   *)
(***************************************************************************)
EveryCallReturns == \A c \in Callers : ~At(c, "idle") ~> At(c, "idle")
=============================================================================
