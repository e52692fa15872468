------------------------- MODULE CardRequests_proofs -------------------------
(***************************************************************************)
(* For all words, cards, clients and numbers of concurrent requests: what  *)
(* each request knows at each of its statements, who knows the cards an    *)
(* opening has not counted yet, and which answers a row must count before  *)
(* they are recorded.                                                      *)
(***************************************************************************)
EXTENDS CardRequests, Integers, Functions, FiniteSetsExt, FiniteSetTheorems, TLAPS

(* Finite sets of naturals *)

(***************************************************************************)
(* Max picks a member of a finite nonempty set of naturals, and no member  *)
(* is greater: a minimal subset without a greatest member has an element,  *)
(* and the rest of it is empty or has a greatest member.                   *)
(***************************************************************************)
LEMMA MaxOfFiniteSet ==
  ASSUME NEW S \in SUBSET Nat, IsFiniteSet(S), S # {}
  PROVE  Max(S) \in S /\ \A s \in S : Max(S) >= s
<1> DEFINE HasTop(X) == \E x \in X : \A y \in X : x >= y
           Bad == {X \in SUBSET S : X # {} /\ ~HasTop(X)}
<1> SUFFICES ASSUME Bad # {} PROVE FALSE
  BY DEF Max
<1>1. Bad \subseteq FiniteSubsetsOf(S)
  BY FS_Subset DEF FiniteSubsetsOf
<1> HIDE DEF Bad
<1>2. PICK X \in Bad : \A Y \in Bad : <<Y, X>> \notin StrictSubsetOrdering(S)
  BY <1>1, FS_StrictSubsetOrderingWellFounded, WFMin
<1> USE DEF Bad
<1>3. PICK x \in X : TRUE
  OBVIOUS
<1>4. X \ {x} \notin Bad
  <2>1. <<X \ {x}, X>> \in StrictSubsetOrdering(S)
    BY <1>3 DEF StrictSubsetOrdering
  <2> QED BY <1>2, <2>1
<1>5. X \ {x} = {} \/ HasTop(X \ {x})
  BY <1>4
<1>6. X \subseteq Nat /\ ~HasTop(X)
  OBVIOUS
<1>7. CASE X \ {x} = {}
  BY <1>3, <1>6, <1>7
<1>8. CASE HasTop(X \ {x})
  <2>1. PICK m \in X \ {x} : \A y \in X \ {x} : m >= y
    BY <1>8
  <2> QED BY <1>3, <1>6, <2>1
<1> QED BY <1>5, <1>7, <1>8

(***************************************************************************)
(* What MAX computes over a column: zero for no row, else the greatest.    *)
(***************************************************************************)
LEMMA MaxWithZero ==
  ASSUME NEW S \in SUBSET Nat, IsFiniteSet(S)
  PROVE  Max({0} \cup S) \in Nat /\ \A s \in S : s <= Max({0} \cup S)
<1>1. IsFiniteSet({0} \cup S)
  BY FS_Union, FS_Singleton
<1>2. {0} \cup S \in SUBSET Nat /\ {0} \cup S # {}
  OBVIOUS
<1>3. Max({0} \cup S) \in {0} \cup S /\ \A s \in {0} \cup S : Max({0} \cup S) >= s
  BY <1>1, <1>2, MaxOfFiniteSet
<1> QED BY <1>2, <1>3

(***************************************************************************)
(* The image of a finite set under a function is finite.                   *)
(***************************************************************************)
LEMMA ImageIsFinite ==
  ASSUME NEW S, IsFiniteSet(S), NEW f
  PROVE  IsFiniteSet({f[x] : x \in S})
<1> DEFINE g == [x \in S |-> f[x]]
<1>1. g \in Surjection(S, {f[x] : x \in S})
  BY DEF Surjection
<1> QED BY <1>1, FS_Surjection

---------------------------------------------------------------------------
---------------------------------------------------------------------------
(* Requests *)

Resting == {"idle", "failed"}

\* The statements of each kind of request.
KeepsToSteps(r) ==
  \/ r.at \in Resting
  \/ /\ r.kind = "open"
     /\ r.at \in {"readPool", "readDue", "reread", "readNew", "create", "ordinal", "append", "count"}
  \/ /\ r.kind = "review"
     /\ r.at \in {"getCard", "getRow", "upsert", "complete", "ordinal", "append", "record"}
  \/ /\ r.kind = "hint"
     /\ r.at \in {"getCard", "getEvents", "getRow", "upsert", "record"}
  \/ /\ r.kind = "undo"
     /\ r.at \in {"checkUndo", "restore", "deleteCreated", "reopen", "recordUndo"}
  \/ /\ r.kind = "delete"
     /\ r.at \in {"deleteRow", "deleteCards"}

\* What a request knows once it has read it.
Knows(r) ==
  /\ r.kind = "review" /\ r.at \in {"getRow", "upsert", "complete", "ordinal", "append", "record"} =>
       r.card \in CardIds /\ r.word \in Words
  /\ r.kind = "hint" /\ r.at \in {"getEvents", "getRow", "upsert", "record"} =>
       r.card \in CardIds /\ r.word \in Words
  /\ r.kind = "undo" /\ r.at \in {"restore", "deleteCreated", "reopen", "recordUndo"} =>
       r.card \in CardIds /\ r.word \in Words
  /\ r.kind = "review" /\ r.at \in {"upsert", "complete", "ordinal", "append", "record"} =>
       r.prev \in Row

Sound(r) ==
  /\ r \in Request
  /\ KeepsToSteps(r) /\ Knows(r)
  /\ r.at \in Resting \/ r.kind = "open" \/ r.kind \in requests

Born == {i \in CardIds : cards[i] # Unborn}

\* Identities are of cards that have been there.
EventsAreSound ==
  /\ IsFiniteSet(events)
  /\ \A e \in events : (e.kind = "review" => e.prev \in Row) /\ e.created \subseteq Born

IInv ==
  /\ TypeOK
  /\ \A c \in Callers : Sound(req[c]) /\ req[c].created \subseteq Born
  /\ req[Cron].kind = "open"
  /\ EventsAreSound

---------------------------------------------------------------------------
(* Tables *)

LEMMA CardsAreFinite ==
  /\ IsFiniteSet(Cards) /\ Cardinality(Cards) \in Nat /\ Cards \subseteq CardIds
  /\ \A S \in SUBSET CardIds : IsFiniteSet(S) /\ Cardinality(S) \in Nat
<1>1. Cards \subseteq CardIds
  BY DEF Cards
<1>2. \A S \in SUBSET CardIds : IsFiniteSet(S) /\ Cardinality(S) \in Nat
  BY CardRequestsAssumption, FS_Subset, FS_CardinalityType
<1> QED BY <1>1, <1>2

LEMMA StatusOfCards ==
  ASSUME TypeOK
  PROVE  /\ \A i \in CardIds : Exists(i) <=> cards[i] \in Card
         /\ \A i \in Cards : i \in CardIds /\ i \in Born /\ cards[i] \in Card
BY DEF TypeOK, Exists, Cards, Card, Unborn, Gone, Absent, Born

LEMMA LastNumbers ==
  ASSUME TypeOK
  PROVE  LastOrdinal \in Nat /\ LastStamp \in Nat
<1>1. \A i \in Cards : cards[i].ordinal \in Nat /\ cards[i].stamp \in Nat
  BY StatusOfCards DEF Card
<1> DEFINE ordinals == [i \in Cards |-> cards[i].ordinal]
           stamps == [i \in Cards |-> cards[i].stamp]
<1>2. /\ {cards[i].ordinal : i \in Cards} = {ordinals[i] : i \in Cards}
      /\ {cards[i].stamp : i \in Cards} = {stamps[i] : i \in Cards}
      /\ {ordinals[i] : i \in Cards} \in SUBSET Nat /\ {stamps[i] : i \in Cards} \in SUBSET Nat
  BY <1>1
<1> HIDE DEF ordinals, stamps
<1>3. IsFiniteSet({ordinals[i] : i \in Cards}) /\ IsFiniteSet({stamps[i] : i \in Cards})
  BY CardsAreFinite, ImageIsFinite
<1> QED BY <1>2, <1>3, MaxWithZero DEF LastOrdinal, LastStamp

LEMMA CountStaysNatural ==
  ASSUME TypeOK, NEW D \in SUBSET CardIds
  PROVE  CountWithout(D) \in Nat
<1>1. Cardinality(D \cap Cards) \in Nat
  BY CardsAreFinite
<1> QED BY <1>1 DEF CountWithout, TypeOK

LEMMA CardsGo ==
  ASSUME TypeOK, NEW D
  PROVE  /\ Without(D) \in [CardIds -> Card \cup {Unborn, Gone}]
         /\ \A i \in CardIds : Without(D)[i] = Unborn <=> cards[i] = Unborn
BY StatusOfCards DEF TypeOK, Without, Card, Unborn, Gone, Absent

(***************************************************************************)
(* The latest answer of a card is one, for there is a largest number of    *)
(* answers counted before it.                                              *)
(***************************************************************************)
LEMMA LatestIsAnswer ==
  ASSUME TypeOK, EventsAreSound, NEW i, Answers(i) # {}
  PROVE  LatestAnswer(i) \in Answers(i)
<1> DEFINE of == [e \in Answers(i) |-> e.prev.answers]
           S == {of[e] : e \in Answers(i)}
<1>1. IsFiniteSet(Answers(i)) /\ \A e \in Answers(i) : e.prev \in Row
  BY FS_Subset DEF EventsAreSound, Answers
<1>2. \A e \in Answers(i) : of[e] \in Nat /\ of[e] = e.prev.answers
  BY <1>1, CardRequestsAssumption DEF Row
<1> HIDE DEF of
<1>3. S \in SUBSET Nat /\ S # {} /\ IsFiniteSet(S)
  BY <1>1, <1>2, ImageIsFinite
<1>4. Max(S) \in S /\ \A s \in S : Max(S) >= s
  <2> HIDE DEF S
  <2> QED BY <1>3, MaxOfFiniteSet
<1>5. PICK e \in Answers(i) : of[e] = Max(S)
  BY <1>4
<1>6. \A f \in Answers(i) : Max(S) >= of[f]
  BY <1>4
<1> HIDE DEF S
<1>7. \A f \in Answers(i) : f.prev.answers <= e.prev.answers
  BY <1>2, <1>5, <1>6
<1> QED BY <1>7 DEF LatestAnswer

---------------------------------------------------------------------------
(* Steps *)

TablesAreSound ==
  /\ rows \in [Words -> Row \cup {NoRow}]
  /\ pool \in BOOLEAN
  /\ count \in Nat
  /\ cards \in [CardIds -> Card \cup {Unborn, Gone}]
  /\ events \subseteq Event
  /\ EventsAreSound

\* Caller c goes on, fails or returns.
Moves(c) ==
  \E q : /\ req' = [req EXCEPT ![c] = q]
         /\ Sound(q) /\ q.created \subseteq Born' /\ (c = Cron => q.kind = "open")

LEMMA MoveIsSound ==
  ASSUME IInv, requests' = requests, NEW c \in Callers, Moves(c), Born \subseteq Born', TablesAreSound'
  PROVE  IInv'
<1>1. PICK q : /\ req' = [req EXCEPT ![c] = q]
               /\ Sound(q) /\ q.created \subseteq Born' /\ (c = Cron => q.kind = "open")
  BY DEF Moves
<1>2. req \in [Callers -> Request] /\ Cron \in Callers
  BY CardRequestsAssumption DEF IInv, TypeOK
<1>3. \A d \in Callers : req'[d] = IF d = c THEN q ELSE req[d]
  BY <1>1, <1>2
<1>4. req' \in [Callers -> Request]
  BY <1>1, <1>2 DEF Sound
<1>5. \A d \in Callers : Sound(req'[d]) /\ req'[d].created \subseteq Born'
  BY <1>1, <1>3 DEF IInv
<1>6. \A d \in Callers : Sound(req[d])'
  BY <1>5 DEF Sound
<1>7. req'[Cron].kind = "open"
  BY <1>1, <1>2, <1>3 DEF IInv
<1>8. TypeOK' /\ EventsAreSound'
  BY <1>4 DEF TablesAreSound, TypeOK, IInv
<1> QED BY <1>5, <1>6, <1>7, <1>8 DEF IInv

LEMMA TablesStay ==
  ASSUME IInv, UNCHANGED db
  PROVE  TablesAreSound' /\ Born' = Born
BY DEF IInv, TypeOK, TablesAreSound, EventsAreSound, db, Born

\* A statement that only reads.
LEMMA ReadIsSound ==
  ASSUME IInv, requests' = requests, NEW c \in Callers, Moves(c), UNCHANGED db
  PROVE  IInv'
<1>1. TablesAreSound' /\ Born \subseteq Born'
  BY TablesStay
<1> QED BY <1>1, MoveIsSound

LEMMA IdleIsSound == Idle \in Request /\ Sound(Idle) /\ Idle.created = {} /\ Idle.kind = "open" /\ Idle.at = "idle"
<1>1. Idle \in Request
  BY DEF Idle, Request, Kinds, Steps
<1> QED BY <1>1 DEF Sound, KeepsToSteps, Knows, Resting, Idle

LEMMA ReturnMoves ==
  ASSUME IInv, NEW c \in Callers, Return(c)
  PROVE  Moves(c)
BY IdleIsSound DEF Return, Moves

LEMMA FailMoves ==
  ASSUME IInv, NEW c \in Callers, Fail(c)
  PROVE  Moves(c)
<1> DEFINE kind == req[c].kind
           q == [Idle EXCEPT !.kind = kind, !.at = "failed"]
<1>1. kind \in Kinds /\ (c = Cron => kind = "open")
  BY DEF IInv, TypeOK, Request
<1>2. req' = [req EXCEPT ![c] = q]
  BY DEF Fail
<1> HIDE DEF kind
<1>3. q \in Request /\ q.at = "failed" /\ q.kind = kind /\ q.created = {}
  BY <1>1, IdleIsSound DEF Request, Steps
<1> HIDE DEF q
<1>4. Sound(q)
  BY <1>3 DEF Sound, KeepsToSteps, Knows, Resting
<1> QED BY <1>1, <1>2, <1>3, <1>4 DEF Moves

LEMMA GotoMoves ==
  ASSUME IInv, NEW c \in Callers, NEW step \in Steps, Goto(c, step), Born \subseteq Born',
         Sound([req[c] EXCEPT !.at = step])
  PROVE  Moves(c)
<1> DEFINE q == [req[c] EXCEPT !.at = step]
<1>1. req[c] \in Request /\ req[c].created \subseteq Born /\ (c = Cron => req[c].kind = "open")
  BY DEF IInv, TypeOK
<1>2. q.created = req[c].created /\ q.kind = req[c].kind
  BY <1>1 DEF Request
<1>3. req' = [req EXCEPT ![c] = q]
  BY DEF Goto
<1> HIDE DEF q
<1>4. Sound(q)
  BY DEF q
<1> QED BY <1>1, <1>2, <1>3, <1>4 DEF Moves

---------------------------------------------------------------------------
(* GetOrCreateDailyPool *)

\* A request at a statement of the opening is an opening.
LEMMA OpenSteps ==
  ASSUME IInv, NEW c \in Callers,
         req[c].at \in {"readPool", "readDue", "reread", "readNew", "create", "count"}
  PROVE  /\ req[c].kind = "open" /\ req[c] \in Request /\ req[c].created \subseteq Born
         /\ (c = Cron => req[c].kind = "open")
         /\ \A step \in {"readPool", "readDue", "reread", "readNew", "create", "ordinal", "append", "count"} :
              Sound([req[c] EXCEPT !.at = step])
<1>1. Sound(req[c]) /\ req[c].created \subseteq Born
  BY DEF IInv
<1>2. req[c].kind = "open" /\ req[c] \in Request
  BY <1>1 DEF Sound, KeepsToSteps, Resting
<1>3. ASSUME NEW step \in {"readPool", "readDue", "reread", "readNew", "create", "ordinal", "append", "count"}
      PROVE  Sound([req[c] EXCEPT !.at = step])
  BY <1>2 DEF Sound, KeepsToSteps, Knows, Request, Steps, Resting
<1> QED BY <1>1, <1>2, <1>3

LEMMA BeginOpenSound ==
  ASSUME IInv, requests' = requests, NEW c \in Callers, BeginOpen(c)
  PROVE  IInv'
<1> DEFINE q == [Idle EXCEPT !.at = "readPool"]
<1>1. q \in Request /\ q.kind = "open" /\ q.created = {} /\ q.at = "readPool"
  BY IdleIsSound DEF Request, Steps
<1>2. req' = [req EXCEPT ![c] = q] /\ UNCHANGED db
  BY DEF BeginOpen
<1> HIDE DEF q
<1>3. Sound(q)
  BY <1>1 DEF Sound, KeepsToSteps, Knows
<1> QED BY <1>1, <1>2, <1>3, ReadIsSound DEF Moves

LEMMA TodoMoves ==
  ASSUME IInv, NEW c \in Callers, NEW step, NEW todo \in SUBSET Words, Born \subseteq Born',
         req' = [req EXCEPT ![c].at = step, ![c].todo = todo],
         Sound([req[c] EXCEPT !.at = step])
  PROVE  Moves(c)
<1> DEFINE p == [req[c] EXCEPT !.at = step]
           q == [p EXCEPT !.todo = todo]
<1>1. req[c] \in Request /\ req[c].created \subseteq Born /\ (c = Cron => req[c].kind = "open")
  BY DEF IInv, TypeOK
<1>2. req' = [req EXCEPT ![c] = q]
  BY <1>1 DEF Request
<1>3. p.created = req[c].created /\ p.kind = req[c].kind
  BY <1>1 DEF Request
<1> HIDE DEF p
<1>4. p \in Request /\ Sound(p)
  BY DEF p, Sound
<1>5. q \in Request /\ q.at = p.at /\ q.kind = p.kind /\ q.card = p.card /\ q.word = p.word /\ q.prev = p.prev
      /\ q.created = p.created
  BY <1>4 DEF Request
<1> HIDE DEF q
<1>6. Sound(q)
  BY <1>4, <1>5 DEF Sound, KeepsToSteps, Knows
<1> QED BY <1>1, <1>2, <1>3, <1>5, <1>6 DEF Moves

LEMMA OpenReadsSound ==
  ASSUME IInv, requests' = requests, NEW c \in Callers,
         ReadPool(c) \/ ReadDue(c) \/ Reread(c) \/ ReadNewPool(c)
  PROVE  IInv'
<1>1. UNCHANGED db /\ Born' = Born
  BY TablesStay DEF ReadPool, ReadDue, Reread, ReadNewPool
<1>2. CASE ReadPool(c)
  <2>1. Words \ Dealt \in SUBSET Words
    OBVIOUS
  <2>2. \/ req' = [req EXCEPT ![c].at = "readDue", ![c].todo = Words \ Dealt]
        \/ Goto(c, "reread")
    BY <1>2 DEF ReadPool
  <2>3. req[c].at = "readPool" /\ "reread" \in Steps
    BY <1>2 DEF ReadPool, At, Steps
  <2>4. Moves(c)
    BY <1>1, <2>1, <2>2, <2>3, OpenSteps, GotoMoves, TodoMoves
  <2> QED BY <1>1, <2>4, ReadIsSound
<1>3. CASE ReadDue(c)
  <2> DEFINE missing == req[c].todo \cap DueWords
  <2>1. missing \in SUBSET Words
    BY DEF DueWords
  <2>2. \/ req' = [req EXCEPT ![c].at = "ordinal", ![c].todo = missing]
        \/ Return(c)
    BY <1>3 DEF ReadDue
  <2>3. req[c].at = "readDue"
    BY <1>3 DEF ReadDue, At
  <2> HIDE DEF missing
  <2>4. Moves(c)
    BY <1>1, <2>1, <2>2, <2>3, OpenSteps, ReturnMoves, TodoMoves
  <2> QED BY <1>1, <2>4, ReadIsSound
<1>4. CASE Reread(c)
  <2>1. req[c].at = "reread" /\ "readNew" \in Steps /\ (Goto(c, "readNew") \/ Return(c))
    BY <1>4 DEF Reread, At, Steps
  <2>2. Moves(c)
    BY <1>1, <2>1, OpenSteps, GotoMoves, ReturnMoves
  <2> QED BY <1>1, <2>2, ReadIsSound
<1>5. CASE ReadNewPool(c)
  <2>1. DueWords \in SUBSET Words
    BY DEF DueWords
  <2>2. /\ req' = [req EXCEPT ![c].at = "create", ![c].todo = DueWords]
        /\ req[c].at = "readNew"
    BY <1>5 DEF ReadNewPool, At
  <2>3. Moves(c)
    BY <1>1, <2>1, <2>2, OpenSteps, TodoMoves
  <2> QED BY <1>1, <2>3, ReadIsSound
<1> QED BY <1>2, <1>3, <1>4, <1>5

\* Cards that are born stay born, and events only name such cards.
LEMMA EventsStaySound ==
  ASSUME EventsAreSound, events' = events, Born \subseteq Born'
  PROVE  EventsAreSound'
BY DEF EventsAreSound

LEMMA CreateSound ==
  ASSUME IInv, requests' = requests, NEW c \in Callers, CreatePoolWithItems(c)
  PROVE  IInv'
<1>1. CASE pool
  <2>1. UNCHANGED db
    BY <1>1 DEF CreatePoolWithItems, db
  <2>2. Moves(c)
    BY ReturnMoves DEF CreatePoolWithItems
  <2> QED BY <2>1, <2>2, ReadIsSound
<1>2. CASE ~pool
  <2> DEFINE todo == req[c].todo
  <2>1. todo \subseteq Words /\ Cardinality(todo) \in Nat
    BY CardRequestsAssumption, FS_Subset, FS_CardinalityType DEF IInv, TypeOK, Request
  <2> HIDE DEF todo
  <2>2. PICK ids \in [todo -> CardIds], ordinals \in [todo -> 1..Cardinality(todo)] :
          /\ \A w \in todo : cards[ids[w]] = Unborn
          /\ cards' = [i \in CardIds |->
                         IF \E w \in todo : ids[w] = i
                         THEN LET w == CHOOSE w \in todo : ids[w] = i IN NewCard(w, ordinals[w])
                         ELSE cards[i]]
          /\ pool' = TRUE
          /\ count' = Cardinality(todo)
    BY <1>2 DEF CreatePoolWithItems, todo
  <2>3. rows' = rows /\ events' = events /\ Moves(c)
    BY ReturnMoves DEF CreatePoolWithItems
  <2>4. ASSUME NEW i \in CardIds, \E w \in todo : ids[w] = i
        PROVE  cards[i] = Unborn /\ cards'[i] \in Card
    <3> DEFINE w == CHOOSE w \in todo : ids[w] = i
    <3>1. w \in todo /\ ids[w] = i
      BY <2>4
    <3>2. cards'[i] = NewCard(w, ordinals[w])
      BY <2>2, <2>4
    <3> HIDE DEF w
    <3>3. ordinals[w] \in Nat
      BY <3>1
    <3> QED BY <2>1, <2>2, <3>1, <3>2, <3>3 DEF NewCard, Card
  <2>5. cards \in [CardIds -> Card \cup {Unborn, Gone}]
    BY DEF IInv, TypeOK
  <2>6. \A i \in CardIds : /\ cards'[i] \in Card \cup {Unborn, Gone}
                           /\ cards[i] # Unborn => cards'[i] = cards[i]
    BY <2>2, <2>4, <2>5
  <2>7. cards' \in [CardIds -> Card \cup {Unborn, Gone}] /\ Born \subseteq Born'
    BY <2>2, <2>6 DEF Born
  <2>8. EventsAreSound'
    BY <2>3, <2>7, EventsStaySound DEF IInv
  <2>9. TablesAreSound'
    BY <2>1, <2>2, <2>3, <2>7, <2>8 DEF IInv, TypeOK, TablesAreSound
  <2> QED BY <2>3, <2>7, <2>9, MoveIsSound
<1> QED BY <1>1, <1>2 DEF IInv, TypeOK

LEMMA CountSound ==
  ASSUME IInv, requests' = requests, NEW c \in Callers, IncrementScheduledCounts(c)
  PROVE  IInv'
<1>1. count' \in Nat /\ rows' = rows /\ pool' = pool /\ cards' = cards /\ events' = events
  BY DEF IncrementScheduledCounts, IInv, TypeOK, Request
<1>2. Moves(c)
  BY ReturnMoves DEF IncrementScheduledCounts
<1>3. Born' = Born
  BY <1>1 DEF Born
<1>4. TablesAreSound'
  BY <1>1, <1>3, EventsStaySound DEF IInv, TypeOK, TablesAreSound
<1> QED BY <1>2, <1>3, <1>4, MoveIsSound

---------------------------------------------------------------------------
(* Appending *)

\* An appending request is an opening or a rating.
Appends(r) == r.kind = "open" \/ r.kind = "review"

LEMMA OrdinalSound ==
  ASSUME IInv, requests' = requests, NEW c \in Callers, GetLastOrdinal(c), Appends(req[c])
  PROVE  IInv'
<1> DEFINE r == req[c]
           last == LastOrdinal
           q == [r EXCEPT !.at = "append", !.ordinal = last]
<1>1. Sound(r) /\ r \in Request /\ r.created \subseteq Born /\ (c = Cron => r.kind = "open") /\ r.at = "ordinal"
  BY DEF IInv, TypeOK, GetLastOrdinal, At
<1>2. last \in Nat
  BY LastNumbers DEF IInv
<1>3. req' = [req EXCEPT ![c] = q] /\ UNCHANGED db
  BY DEF GetLastOrdinal
<1>4. r.kind \in {"open", "review"}
  BY DEF Appends
<1> HIDE DEF r, last
<1>5. /\ q \in Request /\ q.at = "append" /\ q.kind = r.kind /\ q.card = r.card /\ q.word = r.word
      /\ q.prev = r.prev /\ q.created = r.created
  BY <1>1, <1>2 DEF Request, Steps
<1> HIDE DEF q
<1>6. Sound(q)
  BY <1>1, <1>4, <1>5 DEF Sound, KeepsToSteps, Knows, Resting
<1>7. Born' = Born
  BY <1>3, TablesStay
<1> QED BY <1>1, <1>3, <1>5, <1>6, <1>7, ReadIsSound DEF Moves

LEMMA AppendSound ==
  ASSUME IInv, requests' = requests, NEW c \in Callers, AppendPoolItem(c), Appends(req[c])
  PROVE  IInv'
<1> DEFINE r == req[c]
           next == IF r.kind = "open" THEN (IF Cardinality(r.todo) = 1 THEN "count" ELSE "append") ELSE "record"
<1>1. Sound(r) /\ r \in Request /\ r.created \subseteq Born /\ (c = Cron => r.kind = "open") /\ r.at = "append"
  BY DEF IInv, TypeOK, AppendPoolItem, At
<1>2. r.kind \in {"open", "review"}
  BY DEF Appends
<1>3. rows' = rows /\ pool' = pool /\ count' = count /\ events' = events
  BY DEF AppendPoolItem
<1>4. PICK w \in r.todo :
        \/ UNCHANGED cards /\ IF r.kind = "open" THEN Fail(c) ELSE Goto(c, "record")
        \/ \E i \in CardIds :
             /\ Fresh(i)
             /\ cards' = [cards EXCEPT ![i] = NewCard(w, r.ordinal + 1)]
             /\ req' = [req EXCEPT ![c].at = next, ![c].todo = @ \ {w}, ![c].ordinal = @ + 1,
                                   ![c].dealt = @ + 1, ![c].created = @ \cup {i}]
  BY DEF AppendPoolItem
<1>5. CASE UNCHANGED cards /\ IF r.kind = "open" THEN Fail(c) ELSE Goto(c, "record")
  <2>1. UNCHANGED db /\ Born' = Born
    BY <1>3, <1>5, TablesStay DEF db
  <2>2. r.kind = "review" => Sound([r EXCEPT !.at = "record"])
    <3> HIDE DEF r
    <3> QED BY <1>1 DEF Sound, KeepsToSteps, Knows, Resting, Request, Steps
  <2>3. "record" \in Steps
    BY DEF Steps
  <2>4. Moves(c)
    BY <1>2, <1>5, <2>1, <2>2, <2>3, FailMoves, GotoMoves
  <2> QED BY <2>1, <2>4, ReadIsSound
<1>6. ASSUME NEW i \in CardIds, Fresh(i), cards' = [cards EXCEPT ![i] = NewCard(w, r.ordinal + 1)],
             req' = [req EXCEPT ![c].at = next, ![c].todo = @ \ {w}, ![c].ordinal = @ + 1,
                                   ![c].dealt = @ + 1, ![c].created = @ \cup {i}]
      PROVE  IInv'
  <2> DEFINE q == [r EXCEPT !.at = next, !.todo = @ \ {w}, !.ordinal = @ + 1, !.dealt = @ + 1,
                            !.created = @ \cup {i}]
  <2>1. req' = [req EXCEPT ![c] = q]
    BY <1>6
  <2>2. w \in Words /\ r.ordinal + 1 \in Nat /\ r.dealt + 1 \in Nat
    BY <1>1 DEF Request
  <2>3. NewCard(w, r.ordinal + 1) \in Card /\ NewCard(w, r.ordinal + 1) # Unborn
    BY <2>2 DEF NewCard, Card, Unborn, Absent
  <2>4. cards \in [CardIds -> Card \cup {Unborn, Gone}]
    BY DEF IInv, TypeOK
  <2>5. cards' \in [CardIds -> Card \cup {Unborn, Gone}] /\ Born \subseteq Born' /\ i \in Born'
    BY <1>6, <2>3, <2>4 DEF Born
  <2>6. TablesAreSound'
    BY <1>3, <2>5, EventsStaySound DEF IInv, TypeOK, TablesAreSound
  <2>7. next \in {"count", "append", "record"} /\ (r.kind = "open" <=> next # "record")
    OBVIOUS
  <2> HIDE DEF r, next
  <2>8. /\ q \in Request /\ q.at = next /\ q.kind = r.kind /\ q.card = r.card /\ q.word = r.word
        /\ q.prev = r.prev /\ q.created = r.created \cup {i}
    BY <1>1, <2>2, <2>7 DEF Request, Steps
  <2> HIDE DEF q
  <2>9. Sound(q)
    BY <1>1, <1>2, <2>7, <2>8 DEF Sound, KeepsToSteps, Knows, Resting
  <2>10. Moves(c)
    BY <1>1, <2>1, <2>5, <2>8, <2>9 DEF Moves
  <2> QED BY <2>5, <2>6, <2>10, MoveIsSound
<1> QED BY <1>4, <1>5, <1>6

LEMMA OpenStepSound ==
  ASSUME IInv, requests' = requests, NEW c \in Callers, OpenStep(c)
  PROVE  IInv'
BY OpenReadsSound, CreateSound, CountSound, OrdinalSound, AppendSound DEF OpenStep, Appends

---------------------------------------------------------------------------
(* Ratings and hints *)

\* Caller c starts a request the clients make.
LEMMA StartSound ==
  ASSUME IInv, requests' = requests, NEW c \in Callers, NEW q, Start(c, q),
         q \in Request, KeepsToSteps(q), Knows(q), q.created = {}
  PROVE  IInv'
<1>1. /\ req' = [req EXCEPT ![c] = q] /\ UNCHANGED db /\ q.kind \in requests /\ c # Cron
  BY DEF Start
<1>2. Sound(q)
  BY <1>1 DEF Sound
<1> QED BY <1>1, <1>2, ReadIsSound DEF Moves

LEMMA BeginSound ==
  ASSUME IInv, requests' = requests, NEW c \in Callers, Begin(c)
  PROVE  IInv'
<1>1. ASSUME NEW i \in Cards, NEW k \in Keys, BeginReview(c, i, k)
      PROVE  IInv'
  <2> DEFINE q == [Idle EXCEPT !.kind = "review", !.at = "getCard", !.card = i, !.key = k]
  <2>1. q \in Request /\ q.kind = "review" /\ q.at = "getCard" /\ q.created = {}
    BY IdleIsSound, CardsAreFinite DEF Request, Steps, Kinds
  <2>2. Start(c, q)
    BY <1>1 DEF BeginReview
  <2> HIDE DEF q
  <2>3. KeepsToSteps(q) /\ Knows(q)
    BY <2>1 DEF KeepsToSteps, Knows
  <2> QED BY <2>1, <2>2, <2>3, StartSound
<1>2. ASSUME NEW i \in Cards, NEW k \in Keys, BeginHint(c, i, k)
      PROVE  IInv'
  <2> DEFINE q == [Idle EXCEPT !.kind = "hint", !.at = "getCard", !.card = i, !.key = k]
  <2>1. q \in Request /\ q.kind = "hint" /\ q.at = "getCard" /\ q.created = {}
    BY IdleIsSound, CardsAreFinite DEF Request, Steps, Kinds
  <2>2. Start(c, q)
    BY <1>2 DEF BeginHint
  <2> HIDE DEF q
  <2>3. KeepsToSteps(q) /\ Knows(q)
    BY <2>1 DEF KeepsToSteps, Knows
  <2> QED BY <2>1, <2>2, <2>3, StartSound
<1>3. ASSUME NEW i \in Cards, BeginUndo(c, i)
      PROVE  IInv'
  <2> DEFINE q == [Idle EXCEPT !.kind = "undo", !.at = "checkUndo", !.card = i]
  <2>1. q \in Request /\ q.kind = "undo" /\ q.at = "checkUndo" /\ q.created = {}
    BY IdleIsSound, CardsAreFinite DEF Request, Steps, Kinds
  <2>2. Start(c, q)
    BY <1>3 DEF BeginUndo
  <2> HIDE DEF q
  <2>3. KeepsToSteps(q) /\ Knows(q)
    BY <2>1 DEF KeepsToSteps, Knows
  <2> QED BY <2>1, <2>2, <2>3, StartSound
<1>4. ASSUME NEW w \in Words, BeginDelete(c, w)
      PROVE  IInv'
  <2> DEFINE q == [Idle EXCEPT !.kind = "delete", !.at = "deleteRow", !.word = w]
  <2>1. q \in Request /\ q.kind = "delete" /\ q.at = "deleteRow" /\ q.created = {}
    BY IdleIsSound DEF Request, Steps, Kinds
  <2>2. Start(c, q)
    BY <1>4 DEF BeginDelete
  <2> HIDE DEF q
  <2>3. KeepsToSteps(q) /\ Knows(q)
    BY <2>1 DEF KeepsToSteps, Knows
  <2> QED BY <2>1, <2>2, <2>3, StartSound
<1> QED BY <1>1, <1>2, <1>3, <1>4, BeginOpenSound DEF Begin

LEMMA CrashSound ==
  ASSUME IInv, requests' = requests, NEW c \in Callers, Crash(c)
  PROVE  IInv'
BY ReturnMoves, ReadIsSound DEF Crash

LEMMA GetPoolItemSound ==
  ASSUME IInv, requests' = requests, NEW c \in Callers, GetPoolItem(c)
  PROVE  IInv'
<1> DEFINE r == req[c]
           at == IF r.kind = "hint" THEN "getEvents" ELSE "getRow"
           word == cards[r.card].word
           q == [r EXCEPT !.at = at, !.word = word]
<1>1. Sound(r) /\ r \in Request /\ r.created \subseteq Born /\ (c = Cron => r.kind = "open") /\ r.at = "getCard"
  BY DEF IInv, TypeOK, GetPoolItem, At
<1>2. UNCHANGED db /\ Born' = Born
  BY TablesStay DEF GetPoolItem
<1>3. CASE Fail(c)
  BY <1>2, <1>3, FailMoves, ReadIsSound
<1>4. CASE ~Fail(c)
  <2>1. Exists(r.card) /\ req' = [req EXCEPT ![c] = q]
    BY <1>4 DEF GetPoolItem, Pending
  <2>2. r.card \in CardIds /\ word \in Words
    BY <2>1, StatusOfCards DEF IInv, Exists, Card
  <2>3. r.kind \in {"review", "hint"}
    BY <1>1 DEF Sound, KeepsToSteps, Resting
  <2>4. at \in Steps /\ (r.kind = "hint" => at = "getEvents") /\ (r.kind = "review" => at = "getRow")
    BY DEF Steps
  <2> HIDE DEF r, word, at
  <2>5. /\ q \in Request /\ q.at = at /\ q.kind = r.kind /\ q.card = r.card /\ q.word = word
        /\ q.prev = r.prev /\ q.created = r.created
    BY <1>1, <2>2, <2>4 DEF Request
  <2> HIDE DEF q
  <2>6. Sound(q)
    BY <1>1, <2>2, <2>3, <2>4, <2>5 DEF Sound, KeepsToSteps, Knows, Resting
  <2> QED BY <1>1, <1>2, <2>1, <2>5, <2>6, ReadIsSound DEF Moves
<1> QED BY <1>3, <1>4

LEMMA HintStepSound ==
  ASSUME IInv, requests' = requests, NEW c \in Callers, HasRecordedHintStep(c)
  PROVE  IInv'
<1> DEFINE r == req[c]
<1>1. Sound(r) /\ r \in Request /\ r.at = "getEvents"
  BY DEF IInv, TypeOK, HasRecordedHintStep, At
<1>2. UNCHANGED db /\ Born' = Born /\ (Goto(c, "getRow") \/ Return(c))
  BY TablesStay DEF HasRecordedHintStep
<1>3. Sound([r EXCEPT !.at = "getRow"]) /\ "getRow" \in Steps
  <2> HIDE DEF r
  <2> QED BY <1>1 DEF Sound, KeepsToSteps, Knows, Resting, Request, Steps
<1>4. Moves(c)
  BY <1>2, <1>3, GotoMoves, ReturnMoves
<1> QED BY <1>2, <1>4, ReadIsSound

LEMMA GetRowSound ==
  ASSUME IInv, requests' = requests, NEW c \in Callers, GetRow(c)
  PROVE  IInv'
<1> DEFINE r == req[c]
           row == rows[r.word]
<1>1. Sound(r) /\ r \in Request /\ r.created \subseteq Born /\ (c = Cron => r.kind = "open") /\ r.at = "getRow"
  BY DEF IInv, TypeOK, GetRow, At
<1>2. UNCHANGED db /\ Born' = Born
  BY TablesStay DEF GetRow
<1>3. r.kind \in {"review", "hint"} /\ r.word \in Words
  BY <1>1 DEF Sound, KeepsToSteps, Knows, Resting
<1>4. row \in Row \cup {NoRow}
  BY <1>3 DEF IInv, TypeOK
<1>5. CASE row = NoRow
  <2>1. (r.kind = "hint" /\ Goto(c, "record")) \/ Fail(c)
    BY <1>5 DEF GetRow
  <2>2. r.kind = "hint" => Sound([r EXCEPT !.at = "record"])
    <3> HIDE DEF r
    <3> QED BY <1>1 DEF Sound, KeepsToSteps, Knows, Resting, Request, Steps
  <2>3. "record" \in Steps
    BY DEF Steps
  <2>4. Moves(c)
    BY <1>2, <2>1, <2>2, <2>3, GotoMoves, FailMoves
  <2> QED BY <1>2, <2>4, ReadIsSound
<1>6. CASE row # NoRow
  <2>1. \E new : new \in Row /\ req' = [req EXCEPT ![c].at = "upsert", ![c].prev = row, ![c].row = new]
    <3>1. row \in Row
      BY <1>4, <1>6
    <3>2. CASE r.kind = "hint"
      <4> DEFINE new == [row EXCEPT !.hints = @ + 1]
      <4>1. /\ row.hints < MaxCount
            /\ req' = [req EXCEPT ![c].at = "upsert", ![c].prev = row, ![c].row = new]
        BY <1>6, <3>2 DEF GetRow
      <4>2. new \in Row
        <5> HIDE DEF row
        <5> QED BY <3>1, <4>1, CardRequestsAssumption DEF Row
      <4> QED BY <4>1, <4>2
    <3>3. CASE r.kind # "hint"
      <4>1. PICK due \in BOOLEAN :
              /\ row.answers < MaxCount
              /\ req' = [req EXCEPT ![c].at = "upsert", ![c].prev = row,
                                    ![c].row = [row EXCEPT !.answers = @ + 1, !.due = due]]
        BY <1>6, <3>3 DEF GetRow
      <4> DEFINE new == [row EXCEPT !.answers = @ + 1, !.due = due]
      <4>2. new \in Row
        <5> DEFINE m == [row EXCEPT !.answers = @ + 1]
        <5>1. m \in Row
          <6> HIDE DEF row
          <6> QED BY <3>1, <4>1, CardRequestsAssumption DEF Row
        <5>2. new = [m EXCEPT !.due = due]
          <6> HIDE DEF row
          <6> QED BY <3>1 DEF Row
        <5> HIDE DEF m, new
        <5> QED BY <4>1, <5>1, <5>2 DEF Row
      <4> QED BY <4>1, <4>2
    <3> QED BY <3>2, <3>3
  <2>2. PICK new : new \in Row /\ req' = [req EXCEPT ![c].at = "upsert", ![c].prev = row, ![c].row = new]
    BY <2>1
  <2> DEFINE q == [r EXCEPT !.at = "upsert", !.prev = row, !.row = new]
  <2>3. req' = [req EXCEPT ![c] = q]
    BY <2>2
  <2> HIDE DEF r, row
  <2>4. /\ q \in Request /\ q.at = "upsert" /\ q.kind = r.kind /\ q.card = r.card /\ q.word = r.word
        /\ q.prev = row /\ q.created = r.created
    BY <1>1, <1>4, <2>2 DEF Request, Steps
  <2> HIDE DEF q
  <2>5. row \in Row
    BY <1>4, <1>6
  <2>6. Sound(q)
    BY <1>1, <1>3, <2>4, <2>5 DEF Sound, KeepsToSteps, Knows, Resting
  <2> QED BY <1>1, <1>2, <2>3, <2>4, <2>6, ReadIsSound DEF Moves
<1> QED BY <1>5, <1>6

LEMMA UpsertSound ==
  ASSUME IInv, requests' = requests, NEW c \in Callers, Upsert(c)
  PROVE  IInv'
<1> DEFINE r == req[c]
           next == IF r.kind = "hint" THEN "record" ELSE "complete"
<1>1. Sound(r) /\ r \in Request /\ r.at = "upsert"
  BY DEF IInv, TypeOK, Upsert, At
<1>2. r.kind \in {"review", "hint"} /\ r.word \in Words
  BY <1>1 DEF Sound, KeepsToSteps, Knows, Resting
<1>3. /\ rows' = [rows EXCEPT ![r.word] = r.row] /\ Goto(c, next)
      /\ pool' = pool /\ count' = count /\ cards' = cards /\ events' = events
  BY DEF Upsert
<1>4. next \in Steps /\ (r.kind = "hint" => next = "record") /\ (r.kind = "review" => next = "complete")
  BY DEF Steps
<1>5. Born' = Born
  BY <1>3 DEF Born
<1>6. r.row \in Row \cup {NoRow}
  BY <1>1 DEF Request
<1>7. TablesAreSound'
  BY <1>2, <1>3, <1>5, <1>6, EventsStaySound DEF IInv, TypeOK, TablesAreSound
<1>8. Sound([r EXCEPT !.at = next])
  <2> HIDE DEF r, next
  <2> QED BY <1>1, <1>2, <1>4 DEF Sound, KeepsToSteps, Knows, Resting, Request
<1>9. Moves(c)
  <2> HIDE DEF next
  <2> QED BY <1>3, <1>4, <1>5, <1>8, GotoMoves
<1> QED BY <1>5, <1>7, <1>9, MoveIsSound

\* A change of one card that is there.
LEMMA CardChanges ==
  ASSUME IInv, NEW i, NEW card, Exists(i) => card \in Card,
         cards' = IF Exists(i) THEN [cards EXCEPT ![i] = card] ELSE cards
  PROVE  cards' \in [CardIds -> Card \cup {Unborn, Gone}] /\ Born' = Born
<1>1. cards \in [CardIds -> Card \cup {Unborn, Gone}] /\ (Exists(i) => i \in CardIds /\ cards[i] \in Card)
  BY StatusOfCards DEF IInv, TypeOK, Exists
<1>2. Unborn \notin Card
  BY DEF Card, Unborn, Absent
<1> QED BY <1>1, <1>2 DEF Born

LEMMA CompleteSound ==
  ASSUME IInv, requests' = requests, NEW c \in Callers, MarkPoolItemCompleted(c)
  PROVE  IInv'
<1> DEFINE r == req[c]
           i == r.card
           card == [cards[i] EXCEPT !.status = "completed", !.stamp = LastStamp + 1]
           at == IF r.row.due THEN "ordinal" ELSE "record"
           todo == IF r.row.due THEN {r.word} ELSE {}
           q == [r EXCEPT !.at = at, !.todo = todo]
<1>1. Sound(r) /\ r \in Request /\ r.created \subseteq Born /\ (c = Cron => r.kind = "open") /\ r.at = "complete"
  BY DEF IInv, TypeOK, MarkPoolItemCompleted, At
<1>2. r.kind = "review" /\ r.word \in Words
  BY <1>1 DEF Sound, KeepsToSteps, Knows, Resting
<1>3. /\ rows' = rows /\ pool' = pool /\ count' = count /\ events' = events
      /\ req' = [req EXCEPT ![c] = q]
  BY DEF MarkPoolItemCompleted
<1>4. cards' = IF Exists(i) THEN [cards EXCEPT ![i] = card] ELSE cards
  BY DEF MarkPoolItemCompleted, IInv, TypeOK, Exists
<1>5. Exists(i) => card \in Card
  <2>1. LastStamp + 1 \in Nat
    BY LastNumbers DEF IInv
  <2>2. Exists(i) => cards[i] \in Card
    BY StatusOfCards DEF IInv, Exists
  <2> HIDE DEF i
  <2> QED BY <2>1, <2>2 DEF Card
<1>6. cards' \in [CardIds -> Card \cup {Unborn, Gone}] /\ Born' = Born
  <2> HIDE DEF card
  <2> QED BY <1>4, <1>5, CardChanges
<1>7. TablesAreSound'
  BY <1>3, <1>6, EventsStaySound DEF IInv, TypeOK, TablesAreSound
<1>8. at \in {"ordinal", "record"} /\ todo \in SUBSET Words
  BY <1>2
<1> HIDE DEF r, i, card, at, todo
<1>9. /\ q \in Request /\ q.at = at /\ q.kind = r.kind /\ q.card = r.card /\ q.word = r.word
      /\ q.prev = r.prev /\ q.created = r.created
  BY <1>1, <1>8 DEF Request, Steps
<1> HIDE DEF q
<1>10. Sound(q)
  BY <1>1, <1>2, <1>8, <1>9 DEF Sound, KeepsToSteps, Knows, Resting
<1>11. Moves(c)
  BY <1>1, <1>3, <1>6, <1>9, <1>10 DEF Moves
<1> QED BY <1>6, <1>7, <1>11, MoveIsSound

\* What a recorded event must be.
LEMMA RecordsSound ==
  ASSUME IInv, NEW e \in Event, e.kind = "review" => e.prev \in Row, e.created \subseteq Born,
         rows' = rows, pool' = pool, count' = count, cards' = cards, events' = events \cup {e}
  PROVE  TablesAreSound' /\ Born' = Born
<1>1. Born' = Born
  BY DEF Born
<1>2. IsFiniteSet(events')
  BY FS_AddElement DEF IInv, EventsAreSound
<1>3. EventsAreSound'
  BY <1>1, <1>2 DEF IInv, EventsAreSound
<1> QED BY <1>1, <1>3 DEF IInv, TypeOK, TablesAreSound

LEMMA RecordSound ==
  ASSUME IInv, requests' = requests, NEW c \in Callers, RecordEvent(c)
  PROVE  IInv'
<1> DEFINE r == req[c]
           e == AnswerEvent(c)
<1>1. Sound(r) /\ r \in Request /\ r.created \subseteq Born /\ r.at = "record"
  BY DEF IInv, TypeOK, RecordEvent, At
<1>2. r.kind \in {"review", "hint"} /\ r.word \in Words /\ r.card \in CardIds /\ (r.kind = "review" => r.prev \in Row)
  <2> HIDE DEF r
  <2> QED BY <1>1 DEF Sound, KeepsToSteps, Knows, Resting
<1>3. CASE Fail(c) /\ UNCHANGED events
  <2>1. UNCHANGED db
    BY <1>3 DEF RecordEvent, db
  <2> QED BY <1>3, <2>1, FailMoves, ReadIsSound
<1>4. CASE events' = events \cup {e} /\ Return(c)
  <2>1. e = [kind |-> r.kind, key |-> r.key, card |-> r.card, word |-> r.word, prev |-> r.prev, created |-> r.created]
    BY DEF AnswerEvent
  <2> HIDE DEF r, e
  <2>2. e \in Event /\ e.kind = r.kind /\ e.prev = r.prev /\ e.created = r.created
    BY <1>1, <1>2, <2>1 DEF Request, Event
  <2>3. rows' = rows /\ pool' = pool /\ count' = count /\ cards' = cards
    BY DEF RecordEvent
  <2>4. (e.kind = "review" => e.prev \in Row) /\ e.created \subseteq Born
    BY <1>1, <1>2, <2>2
  <2>5. TablesAreSound' /\ Born' = Born
    BY <1>4, <2>2, <2>3, <2>4, RecordsSound
  <2> QED BY <1>4, <2>5, ReturnMoves, MoveIsSound
<1> QED BY <1>3, <1>4 DEF RecordEvent

---------------------------------------------------------------------------
(* UndoLastAnswer, deletions *)

LEMMA CheckUndoSound ==
  ASSUME IInv, requests' = requests, NEW c \in Callers, CheckUndo(c)
  PROVE  IInv'
<1> DEFINE r == req[c]
           i == r.card
           e == LatestAnswer(i)
           word == cards[i].word
           row == e.prev
           created == e.created
           q == [r EXCEPT !.at = "restore", !.word = word, !.row = row, !.created = created]
<1>1. Sound(r) /\ r \in Request /\ (c = Cron => r.kind = "open") /\ r.at = "checkUndo"
  BY DEF IInv, TypeOK, CheckUndo, At
<1>2. UNCHANGED db /\ Born' = Born
  BY TablesStay DEF CheckUndo
<1>3. CASE Fail(c)
  BY <1>2, <1>3, FailMoves, ReadIsSound
<1>4. CASE ~Fail(c)
  <2>1. Exists(i) /\ Answers(i) # {} /\ req' = [req EXCEPT ![c] = q]
    BY <1>4 DEF CheckUndo, Completed
  <2>2. i \in CardIds /\ word \in Words
    BY <2>1, StatusOfCards DEF IInv, Exists, Card
  <2>3. e \in Answers(i)
    BY <2>1, LatestIsAnswer DEF IInv
  <2> HIDE DEF r, i, e
  <2>4. row \in Row \cup {NoRow} /\ created \subseteq Born
    BY <2>3 DEF Answers, IInv, EventsAreSound
  <2>5. r.kind = "undo"
    BY <1>1 DEF Sound, KeepsToSteps, Resting
  <2>6. created \subseteq CardIds
    BY <2>4 DEF Born
  <2>7. r.card \in CardIds
    BY <2>2 DEF i
  <2> HIDE DEF word, row, created
  <2>8. /\ q \in Request /\ q.at = "restore" /\ q.kind = r.kind /\ q.card = r.card /\ q.word = word
        /\ q.prev = r.prev /\ q.created = created
    BY <1>1, <2>2, <2>4, <2>6 DEF Request, Steps
  <2> HIDE DEF q
  <2>9. Sound(q)
    BY <1>1, <2>2, <2>5, <2>7, <2>8 DEF Sound, KeepsToSteps, Knows, Resting
  <2>10. Moves(c)
    BY <1>1, <1>2, <2>1, <2>4, <2>8, <2>9 DEF Moves
  <2> QED BY <1>2, <2>10, ReadIsSound
<1> QED BY <1>3, <1>4

\* A request to undo or to delete goes on to its next statement.
LEMMA NextStatementMoves ==
  ASSUME IInv, NEW c \in Callers, NEW step, Goto(c, step), Born \subseteq Born',
         \/ req[c].at = "restore" /\ step = "deleteCreated"
         \/ req[c].at = "deleteCreated" /\ step = "reopen"
         \/ req[c].at = "reopen" /\ step = "recordUndo"
         \/ req[c].at = "deleteRow" /\ step = "deleteCards"
  PROVE  Moves(c)
<1> DEFINE r == req[c]
<1>1. Sound(r) /\ r \in Request
  BY DEF IInv, TypeOK
<1>2. step \in Steps
  BY DEF Steps
<1>3. Sound([r EXCEPT !.at = step])
  <2> HIDE DEF r
  <2> QED BY <1>1, <1>2 DEF r, Sound, KeepsToSteps, Knows, Resting, Request
<1> QED BY <1>2, <1>3, GotoMoves

LEMMA RestoreSound ==
  ASSUME IInv, requests' = requests, NEW c \in Callers, RestoreRow(c)
  PROVE  IInv'
<1>1. Born' = Born /\ Moves(c)
  BY NextStatementMoves DEF RestoreRow, At, Born
<1>2. /\ rows' = [rows EXCEPT ![req[c].word] = req[c].row] /\ req[c].row \in Row \cup {NoRow}
      /\ pool' = pool /\ count' = count /\ cards' = cards /\ events' = events
  BY DEF RestoreRow, IInv, TypeOK, Request
<1>3. TablesAreSound'
  BY <1>1, <1>2, EventsStaySound DEF IInv, TypeOK, TablesAreSound
<1> QED BY <1>1, <1>3, MoveIsSound

\* The cards in D are deleted and the counter follows.
LEMMA DeletedSound ==
  ASSUME IInv, NEW D \in SUBSET CardIds, cards' = Without(D), count' = CountWithout(D),
         rows' = rows, pool' = pool, events' = events
  PROVE  TablesAreSound' /\ Born' = Born
<1>1. cards' \in [CardIds -> Card \cup {Unborn, Gone}] /\ Born' = Born
  BY CardsGo DEF IInv, Born
<1>2. count' \in Nat
  BY CountStaysNatural DEF IInv
<1> QED BY <1>1, <1>2, EventsStaySound DEF IInv, TypeOK, TablesAreSound

LEMMA DeleteCreatedSound ==
  ASSUME IInv, requests' = requests, NEW c \in Callers, DeletePoolItems(c)
  PROVE  IInv'
<1> DEFINE D == req[c].created
<1>1. D \in SUBSET CardIds
  BY DEF IInv, TypeOK, Request
<1>2. cards' = Without(D) /\ count' = CountWithout(D) /\ rows' = rows /\ pool' = pool /\ events' = events
  BY DEF DeletePoolItems
<1>3. req[c].at = "deleteCreated" /\ Goto(c, "reopen")
  BY DEF DeletePoolItems, At
<1> HIDE DEF D
<1>4. TablesAreSound' /\ Born' = Born
  BY <1>1, <1>2, DeletedSound
<1>5. Moves(c)
  BY <1>3, <1>4, NextStatementMoves
<1> QED BY <1>4, <1>5, MoveIsSound

LEMMA ReopenSound ==
  ASSUME IInv, requests' = requests, NEW c \in Callers, ReopenPoolItem(c)
  PROVE  IInv'
<1> DEFINE i == req[c].card
           card == [cards[i] EXCEPT !.status = "pending", !.stamp = 0]
<1>1. /\ rows' = rows /\ pool' = pool /\ count' = count /\ events' = events
      /\ req[c].at = "reopen" /\ Goto(c, "recordUndo")
  BY DEF ReopenPoolItem, At
<1>2. cards' = IF Exists(i) THEN [cards EXCEPT ![i] = card] ELSE cards
  BY DEF ReopenPoolItem, IInv, TypeOK, Exists
<1>3. Exists(i) => card \in Card
  <2>1. Exists(i) => cards[i] \in Card
    BY StatusOfCards DEF IInv, Exists
  <2> HIDE DEF i
  <2> QED BY <2>1 DEF Card
<1>4. cards' \in [CardIds -> Card \cup {Unborn, Gone}] /\ Born' = Born
  <2> HIDE DEF card
  <2> QED BY <1>2, <1>3, CardChanges
<1>5. TablesAreSound'
  BY <1>1, <1>4, EventsStaySound DEF IInv, TypeOK, TablesAreSound
<1>6. Moves(c)
  BY <1>1, <1>4, NextStatementMoves
<1> QED BY <1>4, <1>5, <1>6, MoveIsSound

LEMMA RecordUndoSound ==
  ASSUME IInv, requests' = requests, NEW c \in Callers, RecordUndo(c)
  PROVE  IInv'
<1> DEFINE r == req[c]
           e == [AnswerEvent(c) EXCEPT !.key = Null]
<1>1. Sound(r) /\ r \in Request /\ r.created \subseteq Born /\ r.at = "recordUndo"
  BY DEF IInv, TypeOK, RecordUndo, At
<1>2. r.kind = "undo" /\ r.word \in Words /\ r.card \in CardIds
  <2> HIDE DEF r
  <2> QED BY <1>1 DEF Sound, KeepsToSteps, Knows, Resting
<1>3. events' = events \cup {e} /\ Return(c) /\ rows' = rows /\ pool' = pool /\ count' = count /\ cards' = cards
  BY DEF RecordUndo
<1>4. e = [kind |-> r.kind, key |-> Null, card |-> r.card, word |-> r.word, prev |-> r.prev, created |-> r.created]
  BY DEF AnswerEvent
<1> HIDE DEF r, e
<1>5. e \in Event /\ e.kind = "undo" /\ e.created = r.created
  BY <1>1, <1>2, <1>4 DEF Request, Event
<1>6. TablesAreSound' /\ Born' = Born
  BY <1>1, <1>3, <1>5, RecordsSound
<1> QED BY <1>3, <1>6, ReturnMoves, MoveIsSound

LEMMA DeleteRowSound ==
  ASSUME IInv, requests' = requests, NEW c \in Callers, DeleteRow(c)
  PROVE  IInv'
<1>1. Born' = Born /\ req[c].at = "deleteRow" /\ (Goto(c, "deleteCards") \/ Fail(c))
  BY DEF DeleteRow, At, Born
<1>2. Moves(c)
  BY <1>1, NextStatementMoves, FailMoves
<1>3. /\ rows' = [rows EXCEPT ![req[c].word] = NoRow]
      /\ pool' = pool /\ count' = count /\ cards' = cards /\ events' = events
  BY DEF DeleteRow
<1>4. TablesAreSound'
  BY <1>1, <1>3, EventsStaySound DEF IInv, TypeOK, TablesAreSound
<1> QED BY <1>1, <1>2, <1>4, MoveIsSound

LEMMA DeleteItemsSound ==
  ASSUME IInv, requests' = requests, NEW c \in Callers, DeleteItemsForUserWord(c)
  PROVE  IInv'
<1> DEFINE D == {i \in Cards : cards[i].word = req[c].word}
<1>1. D \in SUBSET CardIds
  BY DEF Cards
<1>2. /\ cards' = Without(D) /\ count' = CountWithout(D) /\ rows' = rows /\ pool' = pool /\ events' = events
      /\ Return(c)
  BY DEF DeleteItemsForUserWord
<1> HIDE DEF D
<1>3. TablesAreSound' /\ Born' = Born
  BY <1>1, <1>2, DeletedSound
<1> QED BY <1>2, <1>3, ReturnMoves, MoveIsSound

LEMMA StatementSound ==
  ASSUME IInv, requests' = requests, NEW c \in Callers, Statement(c)
  PROVE  IInv'
<1>1. CASE OpenStep(c) \/ GetPoolItem(c) \/ HasRecordedHintStep(c) \/ GetRow(c) \/ Upsert(c) \/ MarkPoolItemCompleted(c)
  BY <1>1, OpenStepSound, GetPoolItemSound, HintStepSound, GetRowSound, UpsertSound, CompleteSound
<1>2. CASE req[c].kind = "review" /\ (GetLastOrdinal(c) \/ AppendPoolItem(c))
  BY <1>2, OrdinalSound, AppendSound DEF Appends
<1>3. CASE \/ RecordEvent(c) \/ CheckUndo(c) \/ RestoreRow(c) \/ DeletePoolItems(c) \/ ReopenPoolItem(c)
           \/ RecordUndo(c) \/ DeleteRow(c) \/ DeleteItemsForUserWord(c)
  BY <1>3, RecordSound, CheckUndoSound, RestoreSound, DeleteCreatedSound, ReopenSound, RecordUndoSound,
     DeleteRowSound, DeleteItemsSound
<1> QED BY <1>1, <1>2, <1>3 DEF Statement

LEMMA AddWordSound ==
  ASSUME IInv, requests' = requests, NEW w \in Words, AddWord(w)
  PROVE  IInv'
<1>1. [answers |-> 0, hints |-> 0, due |-> TRUE] \in Row
  BY CardRequestsAssumption DEF Row
<1>2. /\ rows' = [rows EXCEPT ![w] = [answers |-> 0, hints |-> 0, due |-> TRUE]]
      /\ pool' = pool /\ count' = count /\ cards' = cards /\ events' = events /\ req' = req
  BY DEF AddWord
<1>3. Born' = Born
  BY <1>2 DEF Born
<1>4. TablesAreSound'
  BY <1>1, <1>2, <1>3, EventsStaySound DEF IInv, TypeOK, TablesAreSound
<1>5. \A c \in Callers : Sound(req[c])'
  BY <1>2 DEF IInv, Sound
<1> QED BY <1>2, <1>3, <1>4, <1>5 DEF IInv, TypeOK, TablesAreSound

LEMMA InitIsSound == Init => IInv
<1> SUFFICES ASSUME Init PROVE IInv
  OBVIOUS
<1>1. [answers: {0}, hints: {0}, due: BOOLEAN] \subseteq Row
  BY CardRequestsAssumption DEF Row
<1>2. \A c \in Callers : req[c] = Idle
  BY DEF Init
<1>3. TypeOK
  BY <1>1, IdleIsSound DEF Init, TypeOK
<1>4. EventsAreSound
  BY FS_EmptySet DEF Init, EventsAreSound
<1>5. \A c \in Callers : Sound(req[c]) /\ req[c].created = {} /\ req[c].kind = "open"
  BY <1>2, IdleIsSound
<1> QED BY <1>3, <1>4, <1>5, CardRequestsAssumption DEF IInv

LEMMA StepIsSound == IInv /\ [Next]_vars => IInv'
<1> SUFFICES ASSUME IInv, [Next]_vars PROVE IInv'
  OBVIOUS
<1>1. CASE UNCHANGED vars
  <2>1. \A c \in Callers : Sound(req[c])'
    BY <1>1 DEF IInv, Sound, vars
  <2> QED BY <1>1, <2>1 DEF IInv, TypeOK, EventsAreSound, Born, vars
<1>2. CASE Next
  BY <1>2, BeginSound, StatementSound, CrashSound, AddWordSound DEF Next
<1> QED BY <1>1, <1>2

\* A request stays within its kind's statements, and the tables keep their types.
THEOREM InvariantHolds == Spec => []IInv
BY InitIsSound, StepIsSound, PTL DEF Spec

(***************************************************************************)
(* The tables and every local variable of every request keep their types:  *)
(* deleting cards (deletePoolItemsAndAdjustCounts) never makes the counter *)
(* negative, whatever overlaps and wherever a request is cut off.          *)
(***************************************************************************)
THEOREM RequestsKeepTheirTypes == Spec => []TypeOK
BY InvariantHolds, PTL DEF IInv

---------------------------------------------------------------------------
(* The counter *)

\* The cards an opening has appended and not yet counted.
Owned(r) == IF r.kind = "open" THEN r.created ELSE {}
Uncounted == {i \in CardIds : \E c \in Callers : i \in Owned(req[c])}
OwnedBy(c) == Owned(req[c])

(***************************************************************************)
(* Nobody else knows the cards an opening has not counted yet: neither     *)
(* another request nor a recorded answer, so no undo deletes them.         *)
(***************************************************************************)
Apart ==
  /\ \A c \in Callers : OwnedBy(c) \subseteq Cards
  /\ \A c \in Callers : req[c].kind = "open" => req[c].dealt = Cardinality(req[c].created)
  /\ \A c, d \in Callers : c # d => OwnedBy(c) \cap req[d].created = {}
  /\ \A c \in Callers, e \in events : OwnedBy(c) \cap e.created = {}

Covered == count <= Cardinality(Cards \ Uncounted)

CoverInv == IInv /\ ("delete" \notin requests => Apart /\ Covered)

\* Caller c keeps what it has created and counted, or forgets all of it.
Keeps(c) ==
  \E q : /\ req' = [req EXCEPT ![c] = q]
         /\ \/ q.created = {} /\ q.dealt = 0
            \/ q.created = req[c].created /\ q.dealt = req[c].dealt /\ q.kind = req[c].kind

LEMMA ReturnKeeps ==
  ASSUME NEW c \in Callers, Return(c)
  PROVE  Keeps(c)
<1>1. Idle.created = {} /\ Idle.dealt = 0
  BY DEF Idle
<1> QED BY <1>1 DEF Return, Keeps

LEMMA FailKeeps ==
  ASSUME NEW c \in Callers, Fail(c)
  PROVE  Keeps(c)
<1> DEFINE q == [Idle EXCEPT !.kind = req[c].kind, !.at = "failed"]
<1>1. q.created = {} /\ q.dealt = 0
  BY DEF Idle
<1>2. req' = [req EXCEPT ![c] = q]
  BY DEF Fail
<1> HIDE DEF q
<1> QED BY <1>1, <1>2 DEF Keeps

LEMMA GotoKeeps ==
  ASSUME IInv, NEW c \in Callers, NEW step, Goto(c, step)
  PROVE  Keeps(c)
<1> DEFINE q == [req[c] EXCEPT !.at = step]
<1>1. q.created = req[c].created /\ q.dealt = req[c].dealt /\ q.kind = req[c].kind
  BY DEF IInv, TypeOK, Request
<1>2. req' = [req EXCEPT ![c] = q]
  BY DEF Goto
<1> HIDE DEF q
<1> QED BY <1>1, <1>2 DEF Keeps

LEMMA DisjointUnion ==
  ASSUME NEW S, NEW T, IsFiniteSet(S), IsFiniteSet(T), S \cap T = {}
  PROVE  Cardinality(S \cup T) = Cardinality(S) + Cardinality(T)
<1>1. Cardinality(S \cap T) = 0
  BY FS_EmptySet
<1>2. Cardinality(S) \in Nat /\ Cardinality(T) \in Nat
  BY FS_CardinalityType
<1>3. Cardinality(S \cup T) = Cardinality(S) + Cardinality(T) - Cardinality(S \cap T)
  BY FS_Union
<1> QED BY <1>1, <1>2, <1>3

LEMMA KeepsApart ==
  ASSUME IInv, Apart, NEW c \in Callers, Keeps(c), Cards \subseteq Cards',
         \A e \in events' : e \in events \/ (req[c].kind # "open" /\ e.created = req[c].created)
  PROVE  Apart' /\ Uncounted' \subseteq Uncounted
<1>1. PICK q : /\ req' = [req EXCEPT ![c] = q]
               /\ \/ q.created = {} /\ q.dealt = 0
                  \/ q.created = req[c].created /\ q.dealt = req[c].dealt /\ q.kind = req[c].kind
  BY DEF Keeps
<1>2. \A d \in Callers : req'[d] = IF d = c THEN q ELSE req[d]
  BY <1>1 DEF IInv, TypeOK
<1>3. \A d \in Callers : /\ OwnedBy(d)' \subseteq OwnedBy(d)
                         /\ req'[d].created \subseteq req[d].created
  BY <1>1, <1>2 DEF OwnedBy, Owned
<1>4. \A d \in Callers : OwnedBy(d)' \subseteq Cards'
  BY <1>3 DEF Apart
<1>5. ASSUME NEW d \in Callers, req'[d].kind = "open"
      PROVE  req'[d].dealt = Cardinality(req'[d].created)
  <2>1. CASE d # c
    BY <1>2, <1>5, <2>1 DEF Apart
  <2>2. CASE d = c /\ q.created = {} /\ q.dealt = 0
    BY <1>2, <2>2, FS_EmptySet
  <2>3. CASE d = c /\ q.created = req[c].created /\ q.dealt = req[c].dealt /\ q.kind = req[c].kind
    BY <1>2, <1>5, <2>3 DEF Apart
  <2> QED BY <1>1, <2>1, <2>2, <2>3
<1>6. \A d1, d2 \in Callers : d1 # d2 => OwnedBy(d1)' \cap req'[d2].created = {}
  BY <1>3 DEF Apart
<1>7. ASSUME NEW d \in Callers, NEW e \in events'
      PROVE  OwnedBy(d)' \cap e.created = {}
  <2>1. CASE e \in events
    BY <1>3, <2>1 DEF Apart
  <2>2. CASE req[c].kind # "open" /\ e.created = req[c].created
    <3>1. OwnedBy(d) \cap e.created = {}
      BY <2>2 DEF Apart, OwnedBy, Owned
    <3> QED BY <1>3, <3>1
  <2> QED BY <2>1, <2>2
<1>8. Apart'
  BY <1>4, <1>5, <1>6, <1>7 DEF Apart
<1>9. Uncounted' \subseteq Uncounted
  BY <1>3 DEF Uncounted, OwnedBy
<1> QED BY <1>8, <1>9

LEMMA UncountedAreFinite ==
  IsFiniteSet(Cards \ Uncounted) /\ Cardinality(Cards \ Uncounted) \in Nat
<1>1. Cards \ Uncounted \in SUBSET CardIds
  BY DEF Cards
<1> QED BY <1>1, CardsAreFinite

LEMMA KeepsCovered ==
  ASSUME IInv, IInv', Apart, Covered, NEW c \in Callers, Keeps(c), Cards \subseteq Cards', count' = count,
         \A e \in events' : e \in events \/ (req[c].kind # "open" /\ e.created = req[c].created)
  PROVE  Apart' /\ Covered'
<1>1. Apart' /\ Uncounted' \subseteq Uncounted
  BY KeepsApart
<1> DEFINE S == Cards \ Uncounted
           T == Cards' \ Uncounted'
<1>2. S \subseteq T
  BY <1>1
<1>3. IsFiniteSet(T) /\ Cardinality(T) \in Nat /\ Cardinality(S) \in Nat
  <2>1. T \in SUBSET CardIds
    BY DEF Cards
  <2> QED BY <2>1, CardsAreFinite, UncountedAreFinite
<1>4. count \in Nat /\ count <= Cardinality(S)
  BY DEF IInv, TypeOK, Covered
<1> HIDE DEF S, T
<1>5. Cardinality(S) <= Cardinality(T)
  BY <1>2, <1>3, FS_Subset
<1>6. count' <= Cardinality(T)
  BY <1>3, <1>4, <1>5
<1>7. T = (Cards \ Uncounted)'
  BY DEF T
<1> QED BY <1>1, <1>6, <1>7 DEF Covered

\* A statement that touches neither a card nor the counter.
LEMMA TablesCovered ==
  ASSUME IInv, IInv', Apart, Covered, NEW c \in Callers, Keeps(c), cards' = cards, count' = count, events' = events
  PROVE  Apart' /\ Covered'
<1>1. Cards' = Cards
  BY DEF Cards, Exists
<1>2. Cards \subseteq Cards' /\ \A e \in events' : e \in events
  BY <1>1
<1> QED BY <1>2, KeepsCovered

\* The cards an opening has created are there, and become counted with its last statement.
LEMMA CountCovered ==
  ASSUME IInv, IInv', Apart, Covered, NEW c \in Callers, IncrementScheduledCounts(c)
  PROVE  Apart' /\ Covered'
<1> DEFINE D == req[c].created
           S == Cards \ Uncounted
           T == Cards' \ Uncounted'
<1>1. /\ req[c].kind = "open" /\ req' = [req EXCEPT ![c] = Idle] /\ count' = count + req[c].dealt
      /\ cards' = cards /\ events' = events
  BY OpenSteps DEF IncrementScheduledCounts, At, Return
<1>2. Keeps(c)
  BY <1>1, ReturnKeeps DEF Return
<1>3. Cards' = Cards
  BY <1>1 DEF Cards, Exists
<1>4. Apart'
  <2>1. Cards \subseteq Cards' /\ \A e \in events' : e \in events
    BY <1>1, <1>3
  <2> QED BY <1>2, <2>1, KeepsApart
<1>5. OwnedBy(c) = D /\ D \subseteq Cards /\ D \in SUBSET CardIds /\ req[c].dealt = Cardinality(D)
  BY <1>1, CardsAreFinite DEF Apart, OwnedBy, Owned
<1>6. D \subseteq Uncounted
  BY <1>5 DEF Uncounted, OwnedBy
<1>7. D \cap Uncounted' = {}
  <2>1. \A d \in Callers : req'[d] = IF d = c THEN Idle ELSE req[d]
    BY <1>1 DEF IInv, TypeOK
  <2>2. ASSUME NEW d \in Callers PROVE D \cap Owned(req'[d]) = {}
    <3>1. CASE d = c
      BY <2>1, <3>1 DEF Owned, Idle
    <3>2. CASE d # c
      <4>1. OwnedBy(c) \cap req[d].created = {}
        BY <3>2 DEF Apart
      <4> QED BY <1>5, <2>1, <3>2, <4>1 DEF Owned
    <3> QED BY <3>1, <3>2
  <2> HIDE DEF D
  <2> QED BY <2>2 DEF Uncounted
<1>8. Uncounted' \subseteq Uncounted
  <2>1. Cards \subseteq Cards' /\ \A e \in events' : e \in events
    BY <1>1, <1>3
  <2> QED BY <1>2, <2>1, KeepsApart
<1>9. S \cup D \subseteq T /\ S \cap D = {}
  BY <1>3, <1>5, <1>6, <1>7, <1>8
<1>10. /\ IsFiniteSet(S) /\ IsFiniteSet(D) /\ IsFiniteSet(T)
       /\ Cardinality(S) \in Nat /\ Cardinality(D) \in Nat /\ Cardinality(T) \in Nat
  <2>1. T \in SUBSET CardIds
    BY DEF Cards
  <2> QED BY <1>5, <2>1, CardsAreFinite, UncountedAreFinite
<1>11. count \in Nat /\ count <= Cardinality(S) /\ count' = count + Cardinality(D)
  BY <1>1, <1>5 DEF IInv, TypeOK, Covered
<1>12. T = (Cards \ Uncounted)'
  OBVIOUS
<1> HIDE DEF S, T, D
<1>13. Cardinality(S \cup D) = Cardinality(S) + Cardinality(D)
  BY <1>9, <1>10, DisjointUnion
<1>14. Cardinality(S \cup D) <= Cardinality(T)
  BY <1>9, <1>10, FS_Subset
<1>15. count' <= Cardinality(T)
  BY <1>10, <1>11, <1>13, <1>14
<1> QED BY <1>4, <1>12, <1>15 DEF Covered

\* A pool is created with as many cards as it counts.
LEMMA CreateCovered ==
  ASSUME IInv, IInv', Apart, Covered, NEW c \in Callers, CreatePoolWithItems(c)
  PROVE  Apart' /\ Covered'
<1>1. Keeps(c) /\ events' = events
  BY ReturnKeeps DEF CreatePoolWithItems
<1>2. CASE pool
  <2>1. cards' = cards /\ count' = count
    BY <1>2 DEF CreatePoolWithItems
  <2> QED BY <1>1, <2>1, TablesCovered
<1>3. CASE ~pool
  <2> DEFINE todo == req[c].todo
  <2>1. todo \subseteq Words /\ IsFiniteSet(todo) /\ Cardinality(todo) \in Nat
    BY CardRequestsAssumption, FS_Subset, FS_CardinalityType DEF IInv, TypeOK, Request
  <2> HIDE DEF todo
  <2>2. PICK ids \in [todo -> CardIds], ordinals \in [todo -> 1..Cardinality(todo)] :
          /\ \A v, w \in todo : v # w => ids[v] # ids[w] /\ ordinals[v] # ordinals[w]
          /\ \A w \in todo : cards[ids[w]] = Unborn
          /\ cards' = [i \in CardIds |->
                         IF \E w \in todo : ids[w] = i
                         THEN LET w == CHOOSE w \in todo : ids[w] = i IN NewCard(w, ordinals[w])
                         ELSE cards[i]]
          /\ count' = Cardinality(todo)
    BY <1>3 DEF CreatePoolWithItems, todo
  <2> DEFINE D == {ids[w] : w \in todo}
             T == Cards' \ Uncounted'
  <2>3. D \subseteq Cards'
    <3> SUFFICES ASSUME NEW w \in todo PROVE ids[w] \in Cards'
      OBVIOUS
    <3>1. \A v \in todo : NewCard(v, ordinals[v]).status = "pending"
      BY DEF NewCard
    <3>2. cards'[ids[w]].status = "pending"
      BY <2>2, <3>1
    <3> QED BY <3>2 DEF Cards, Exists
  <2>4. Cards \subseteq Cards'
    <3>1. \A i \in Cards : i \in CardIds /\ cards[i] # Unborn
      BY CardsAreFinite, StatusOfCards DEF IInv, Born
    <3>2. \A i \in Cards : cards'[i] = cards[i]
      BY <2>2, <3>1
    <3> QED BY <3>1, <3>2 DEF Cards, Exists
  <2>5. Apart' /\ Uncounted' \subseteq Uncounted
    <3>1. \A e \in events' : e \in events
      BY <1>1
    <3> QED BY <1>1, <2>4, <3>1, KeepsApart
  <2>6. D \cap Uncounted = {}
    <3>1. \A i \in Uncounted : cards[i] # Unborn
      BY StatusOfCards DEF IInv, Uncounted, Apart, OwnedBy, Born
    <3> QED BY <2>2, <3>1
  <2>7. D \subseteq T
    BY <2>3, <2>5, <2>6
  <2>8. ids \in Bijection(todo, D)
    BY <2>2 DEF Bijection, Injection, Surjection, IsInjective
  <2>9. Cardinality(D) = Cardinality(todo)
    BY <2>1, <2>8, FS_Bijection DEF ExistsBijection
  <2>10. IsFiniteSet(T) /\ T = (Cards \ Uncounted)'
    <3>1. T \in SUBSET CardIds
      BY DEF Cards
    <3> QED BY <3>1, CardsAreFinite
  <2> HIDE DEF D, T
  <2>11. Cardinality(D) <= Cardinality(T)
    BY <2>7, <2>10, FS_Subset
  <2> QED BY <2>2, <2>5, <2>9, <2>10, <2>11 DEF Covered
<1> QED BY <1>2, <1>3 DEF IInv, TypeOK

\* Deleting cards takes back no more of the counter than what they stood for.
LEMMA DeleteCreatedCovered ==
  ASSUME IInv, IInv', Apart, Covered, NEW c \in Callers, DeletePoolItems(c)
  PROVE  Apart' /\ Covered'
<1> DEFINE D == req[c].created \cap Cards
           S == Cards \ Uncounted
           T == Cards' \ Uncounted'
<1>1. req[c].kind = "undo" /\ Goto(c, "reopen") /\ Keeps(c)
  BY GotoKeeps DEF IInv, Sound, KeepsToSteps, Resting, DeletePoolItems, At
<1>2. cards' = Without(req[c].created) /\ count' = CountWithout(req[c].created) /\ events' = events
  BY DEF DeletePoolItems
<1>3. Cards' = Cards \ D
  <2>1. \A i \in CardIds : cards'[i] = IF i \in D THEN Gone ELSE cards[i]
    BY <1>2 DEF Without
  <2>2. Gone.status \notin {"pending", "completed"}
    BY DEF Gone, Absent
  <2> HIDE DEF D
  <2>3. \A i \in CardIds : Exists(i)' <=> Exists(i) /\ i \notin D
    BY <2>1, <2>2 DEF Exists
  <2> QED BY <2>3 DEF Cards
<1>4. \A d \in Callers : OwnedBy(d) \cap req[c].created = {}
  BY <1>1 DEF Apart, OwnedBy, Owned
<1>5. \A d \in Callers : /\ OwnedBy(d)' = OwnedBy(d) /\ req'[d].created = req[d].created
                         /\ req'[d].dealt = req[d].dealt /\ req'[d].kind = req[d].kind
  BY <1>1 DEF IInv, TypeOK, Request, Goto, OwnedBy, Owned
<1>6. Apart'
  <2>1. \A d \in Callers : OwnedBy(d)' \subseteq Cards'
    BY <1>3, <1>4, <1>5 DEF Apart
  <2>2. \A d \in Callers : req'[d].kind = "open" => req'[d].dealt = Cardinality(req'[d].created)
    BY <1>5 DEF Apart
  <2>3. \A d1, d2 \in Callers : d1 # d2 => OwnedBy(d1)' \cap req'[d2].created = {}
    BY <1>5 DEF Apart
  <2>4. \A d \in Callers, e \in events' : OwnedBy(d)' \cap e.created = {}
    BY <1>2, <1>5 DEF Apart
  <2> QED BY <2>1, <2>2, <2>3, <2>4 DEF Apart
<1>7. Uncounted' = Uncounted /\ D \cap Uncounted = {}
  BY <1>4, <1>5 DEF Uncounted, OwnedBy
<1>8. T = S \ D /\ D \subseteq S
  BY <1>3, <1>7
<1>9. IsFiniteSet(S) /\ IsFiniteSet(D) /\ Cardinality(S) \in Nat /\ Cardinality(D) \in Nat
  <2>1. D \in SUBSET CardIds
    BY DEF Cards
  <2> QED BY <2>1, CardsAreFinite, UncountedAreFinite
<1>10. count \in Nat /\ count <= Cardinality(S)
  BY DEF IInv, TypeOK, Covered
<1>11. count' = IF Cardinality(D) > count THEN 0 ELSE count - Cardinality(D)
  BY <1>2 DEF CountWithout
<1>12. T = (Cards \ Uncounted)'
  OBVIOUS
<1> HIDE DEF S, T, D
<1>13. IsFiniteSet(T) /\ Cardinality(S) = Cardinality(T) + Cardinality(D) /\ Cardinality(T) \in Nat
  <2>1. IsFiniteSet(T)
    BY <1>8, <1>9, FS_Subset
  <2>2. S = T \cup D /\ T \cap D = {}
    BY <1>8
  <2> QED BY <1>9, <2>1, <2>2, DisjointUnion, FS_CardinalityType
<1>14. count' <= Cardinality(T)
  BY <1>9, <1>10, <1>11, <1>13
<1> QED BY <1>6, <1>12, <1>14 DEF Covered

\* A request that appends keeps the new card to itself.
LEMMA AppendCovered ==
  ASSUME IInv, IInv', Apart, Covered, NEW c \in Callers, AppendPoolItem(c), Appends(req[c])
  PROVE  Apart' /\ Covered'
<1> DEFINE r == req[c]
           next == IF r.kind = "open" THEN (IF Cardinality(r.todo) = 1 THEN "count" ELSE "append") ELSE "record"
<1>1. r \in Request /\ r.created \subseteq Born /\ r.kind \in {"open", "review"}
  BY DEF IInv, TypeOK, Appends
<1>2. count' = count /\ events' = events
  BY DEF AppendPoolItem
<1>3. PICK w \in r.todo :
        \/ UNCHANGED cards /\ IF r.kind = "open" THEN Fail(c) ELSE Goto(c, "record")
        \/ \E i \in CardIds :
             /\ Fresh(i)
             /\ cards' = [cards EXCEPT ![i] = NewCard(w, r.ordinal + 1)]
             /\ req' = [req EXCEPT ![c].at = next, ![c].todo = @ \ {w}, ![c].ordinal = @ + 1,
                                   ![c].dealt = @ + 1, ![c].created = @ \cup {i}]
  BY DEF AppendPoolItem
<1>4. CASE UNCHANGED cards /\ IF r.kind = "open" THEN Fail(c) ELSE Goto(c, "record")
  <2>1. Keeps(c)
    BY <1>4, FailKeeps, GotoKeeps
  <2> QED BY <1>2, <1>4, <2>1, TablesCovered
<1>5. ASSUME NEW i \in CardIds, Fresh(i), cards' = [cards EXCEPT ![i] = NewCard(w, r.ordinal + 1)],
             req' = [req EXCEPT ![c].at = next, ![c].todo = @ \ {w}, ![c].ordinal = @ + 1,
                                   ![c].dealt = @ + 1, ![c].created = @ \cup {i}]
      PROVE  Apart' /\ Covered'
  <2>1. i \notin Born /\ i \notin Cards
    BY <1>5, StatusOfCards DEF Fresh, Born, IInv
  <2>2. Cards' = Cards \cup {i}
    <3>1. \A j \in CardIds : cards'[j] = IF j = i THEN NewCard(w, r.ordinal + 1) ELSE cards[j]
      BY <1>5 DEF IInv, TypeOK
    <3>2. NewCard(w, r.ordinal + 1).status = "pending"
      BY DEF NewCard
    <3> HIDE DEF r
    <3>3. \A j \in CardIds : Exists(j)' <=> Exists(j) \/ j = i
      BY <3>1, <3>2 DEF Exists
    <3> QED BY <3>3 DEF Cards
  <2> DEFINE new == r.created \cup {i}
  <2>3. /\ \A d \in Callers : d # c => req'[d] = req[d]
        /\ req'[c].created = new /\ req'[c].dealt = r.dealt + 1 /\ req'[c].kind = r.kind
    BY <1>1, <1>5 DEF IInv, TypeOK, Request
  <2>4. \A d \in Callers : OwnedBy(d)' = IF d = c /\ r.kind = "open" THEN OwnedBy(d) \cup {i} ELSE OwnedBy(d)
    <3>1. OwnedBy(c)' = IF r.kind = "open" THEN OwnedBy(c) \cup {i} ELSE OwnedBy(c)
      BY <2>3 DEF OwnedBy, Owned
    <3>2. \A d \in Callers : d # c => OwnedBy(d)' = OwnedBy(d)
      BY <2>3 DEF OwnedBy, Owned
    <3> QED BY <3>1, <3>2
  <2>5. \A d \in Callers : i \notin req[d].created /\ i \notin OwnedBy(d)
    BY <2>1 DEF IInv, OwnedBy, Owned
  <2>6. \A e \in events : i \notin e.created
    BY <2>1 DEF IInv, EventsAreSound
  <2>7. Apart'
    <3>1. \A d \in Callers : OwnedBy(d)' \subseteq Cards'
      BY <2>2, <2>4 DEF Apart
    <3>2. \A d \in Callers : req'[d].kind = "open" => req'[d].dealt = Cardinality(req'[d].created)
      <4> SUFFICES ASSUME NEW d \in Callers, req'[d].kind = "open"
                   PROVE  req'[d].dealt = Cardinality(req'[d].created)
        OBVIOUS
      <4>1. CASE d # c
        BY <2>3, <4>1 DEF Apart
      <4>2. CASE d = c
        <5>1. r.dealt = Cardinality(r.created) /\ i \notin r.created
          BY <2>3, <2>5, <4>2 DEF Apart
        <5>2. IsFiniteSet(r.created)
          BY <1>1, CardsAreFinite DEF Request
        <5>3. Cardinality(new) = Cardinality(r.created) + 1
          BY <5>1, <5>2, FS_AddElement
        <5> QED BY <2>3, <4>2, <5>1, <5>3
      <4> QED BY <4>1, <4>2
    <3>3. \A d1, d2 \in Callers : d1 # d2 => OwnedBy(d1)' \cap req'[d2].created = {}
      <4> SUFFICES ASSUME NEW d1 \in Callers, NEW d2 \in Callers, d1 # d2
                   PROVE  OwnedBy(d1)' \cap req'[d2].created = {}
        OBVIOUS
      <4>1. OwnedBy(d1) \cap req[d2].created = {}
        BY DEF Apart
      <4>2. CASE d1 = c
        BY <2>3, <2>4, <2>5, <4>1, <4>2
      <4>3. CASE d2 = c
        BY <2>3, <2>4, <2>5, <4>1, <4>3
      <4>4. CASE d1 # c /\ d2 # c
        BY <2>3, <2>4, <4>1, <4>4
      <4> QED BY <4>2, <4>3, <4>4
    <3>4. \A d \in Callers, e \in events' : OwnedBy(d)' \cap e.created = {}
      BY <1>2, <2>4, <2>6 DEF Apart
    <3> QED BY <3>1, <3>2, <3>3, <3>4 DEF Apart
  <2> DEFINE S == Cards \ Uncounted
             T == Cards' \ Uncounted'
  <2>8. Uncounted' \subseteq Uncounted \cup {i}
    BY <2>4 DEF Uncounted, OwnedBy
  <2>9. S \subseteq T
    BY <2>1, <2>2, <2>8
  <2>10. IsFiniteSet(T) /\ T = (Cards \ Uncounted)' /\ Cardinality(T) \in Nat /\ Cardinality(S) \in Nat
    <3>1. T \in SUBSET CardIds
      BY DEF Cards
    <3> QED BY <3>1, CardsAreFinite, UncountedAreFinite
  <2>11. count \in Nat /\ count <= Cardinality(S)
    BY DEF IInv, TypeOK, Covered
  <2> HIDE DEF S, T
  <2>12. Cardinality(S) <= Cardinality(T)
    BY <2>9, <2>10, FS_Subset
  <2>13. count' <= Cardinality(T)
    BY <1>2, <2>10, <2>11, <2>12
  <2> QED BY <2>7, <2>10, <2>13 DEF Covered
<1> QED BY <1>3, <1>4, <1>5

LEMMA CheckUndoCovered ==
  ASSUME IInv, IInv', Apart, Covered, NEW c \in Callers, CheckUndo(c)
  PROVE  Apart' /\ Covered'
<1> DEFINE r == req[c]
           i == r.card
           e == LatestAnswer(i)
           q == [r EXCEPT !.at = "restore", !.word = cards[i].word, !.row = e.prev, !.created = e.created]
<1>1. cards' = cards /\ count' = count /\ events' = events
  BY DEF CheckUndo, db
<1>2. CASE Fail(c)
  BY <1>1, <1>2, FailKeeps, TablesCovered
<1>3. CASE ~Fail(c)
  <2>1. Answers(i) # {} /\ req' = [req EXCEPT ![c] = q]
    BY <1>3 DEF CheckUndo
  <2>2. e \in events
    BY <2>1, LatestIsAnswer DEF IInv, Answers
  <2>3. r.kind = "undo" /\ r \in Request
    BY DEF IInv, TypeOK, Sound, KeepsToSteps, Resting, CheckUndo, At
  <2>4. q.kind = "undo" /\ q.created = e.created
    <3> HIDE DEF r, e
    <3> QED BY <2>3 DEF Request
  <2> HIDE DEF q, e
  <2>5. \A d \in Callers : req'[d] = IF d = c THEN q ELSE req[d]
    BY <2>1 DEF IInv, TypeOK
  <2>6. \A d \in Callers : OwnedBy(d)' = OwnedBy(d)
    BY <2>3, <2>4, <2>5 DEF OwnedBy, Owned
  <2>7. Cards' = Cards /\ Uncounted' = Uncounted
    BY <1>1, <2>6 DEF Cards, Exists, Uncounted, OwnedBy
  <2>8. \A d1, d2 \in Callers : d1 # d2 => OwnedBy(d1)' \cap req'[d2].created = {}
    BY <2>2, <2>4, <2>5, <2>6 DEF Apart
  <2>9. \A d \in Callers : req'[d].kind = "open" => req'[d].dealt = Cardinality(req'[d].created)
    BY <2>4, <2>5 DEF Apart
  <2>10. \A d \in Callers, f \in events' : OwnedBy(d)' \cap f.created = {}
    BY <1>1, <2>6 DEF Apart
  <2>11. \A d \in Callers : OwnedBy(d)' \subseteq Cards'
    BY <2>6, <2>7 DEF Apart
  <2>12. Apart'
    BY <2>8, <2>9, <2>10, <2>11 DEF Apart
  <2> QED BY <1>1, <2>7, <2>12 DEF Covered
<1> QED BY <1>2, <1>3

\* What a statement writes to its own locals leaves what the request has created.
LEMMA LocalsKeep ==
  ASSUME IInv, NEW c \in Callers, NEW at, NEW todo, NEW ordinal, NEW word, NEW prev, NEW row,
         \/ req' = [req EXCEPT ![c].at = at, ![c].todo = todo]
         \/ req' = [req EXCEPT ![c].at = at, ![c].ordinal = ordinal]
         \/ req' = [req EXCEPT ![c].at = at, ![c].word = word]
         \/ req' = [req EXCEPT ![c].at = at, ![c].prev = prev, ![c].row = row]
  PROVE  Keeps(c)
<1> DEFINE r == req[c]
<1>1. r \in Request
  BY DEF IInv, TypeOK
<1>2. /\ [r EXCEPT !.at = at, !.todo = todo].created = r.created
      /\ [r EXCEPT !.at = at, !.todo = todo].dealt = r.dealt
      /\ [r EXCEPT !.at = at, !.todo = todo].kind = r.kind
      /\ [r EXCEPT !.at = at, !.ordinal = ordinal].created = r.created
      /\ [r EXCEPT !.at = at, !.ordinal = ordinal].dealt = r.dealt
      /\ [r EXCEPT !.at = at, !.ordinal = ordinal].kind = r.kind
  <2> HIDE DEF r
  <2> QED BY <1>1 DEF Request
<1>3. /\ [r EXCEPT !.at = at, !.word = word].created = r.created
      /\ [r EXCEPT !.at = at, !.word = word].dealt = r.dealt
      /\ [r EXCEPT !.at = at, !.word = word].kind = r.kind
      /\ [r EXCEPT !.at = at, !.prev = prev, !.row = row].created = r.created
      /\ [r EXCEPT !.at = at, !.prev = prev, !.row = row].dealt = r.dealt
      /\ [r EXCEPT !.at = at, !.prev = prev, !.row = row].kind = r.kind
  <2> HIDE DEF r
  <2> QED BY <1>1 DEF Request
<1>4. CASE req' = [req EXCEPT ![c] = [r EXCEPT !.at = at, !.todo = todo]]
  BY <1>2, <1>4 DEF Keeps
<1>5. CASE req' = [req EXCEPT ![c] = [r EXCEPT !.at = at, !.ordinal = ordinal]]
  BY <1>2, <1>5 DEF Keeps
<1>6. CASE req' = [req EXCEPT ![c] = [r EXCEPT !.at = at, !.word = word]]
  BY <1>3, <1>6 DEF Keeps
<1>7. CASE req' = [req EXCEPT ![c] = [r EXCEPT !.at = at, !.prev = prev, !.row = row]]
  BY <1>3, <1>7 DEF Keeps
<1> QED BY <1>4, <1>5, <1>6, <1>7

LEMMA BeginKeeps ==
  ASSUME IInv, NEW c \in Callers, Begin(c)
  PROVE  Keeps(c) /\ UNCHANGED db
<1>1. ASSUME NEW q, req' = [req EXCEPT ![c] = q], q.created = {}, q.dealt = 0
      PROVE  Keeps(c)
  BY <1>1 DEF Keeps
<1>2. CASE BeginOpen(c)
  <2>1. /\ [Idle EXCEPT !.at = "readPool"].created = {}
        /\ [Idle EXCEPT !.at = "readPool"].dealt = 0
    BY DEF Idle
  <2> QED BY <1>1, <1>2, <2>1 DEF BeginOpen
<1>3. ASSUME NEW i \in Cards, NEW k \in Keys, BeginReview(c, i, k) \/ BeginHint(c, i, k)
      PROVE  Keeps(c) /\ UNCHANGED db
  <2>1. PICK kind : Start(c, [Idle EXCEPT !.kind = kind, !.at = "getCard", !.card = i, !.key = k])
    BY <1>3 DEF BeginReview, BeginHint
  <2>2. /\ [Idle EXCEPT !.kind = kind, !.at = "getCard", !.card = i, !.key = k].created = {}
        /\ [Idle EXCEPT !.kind = kind, !.at = "getCard", !.card = i, !.key = k].dealt = 0
    BY DEF Idle
  <2> QED BY <1>1, <2>1, <2>2 DEF Start
<1>4. ASSUME NEW i \in Cards, BeginUndo(c, i)
      PROVE  Keeps(c) /\ UNCHANGED db
  <2>1. /\ [Idle EXCEPT !.kind = "undo", !.at = "checkUndo", !.card = i].created = {}
        /\ [Idle EXCEPT !.kind = "undo", !.at = "checkUndo", !.card = i].dealt = 0
    BY DEF Idle
  <2> QED BY <1>1, <1>4, <2>1 DEF Start, BeginUndo
<1>5. ASSUME NEW w \in Words, BeginDelete(c, w)
      PROVE  Keeps(c) /\ UNCHANGED db
  <2>1. /\ [Idle EXCEPT !.kind = "delete", !.at = "deleteRow", !.word = w].created = {}
        /\ [Idle EXCEPT !.kind = "delete", !.at = "deleteRow", !.word = w].dealt = 0
    BY DEF Idle
  <2> QED BY <1>1, <1>5, <2>1 DEF Start, BeginDelete
<1>6. BeginOpen(c) => UNCHANGED db
  BY DEF BeginOpen
<1> QED BY <1>2, <1>3, <1>4, <1>5, <1>6 DEF Begin

\* Statements that only read, and those that only write a row.
LEMMA ReadsKeep ==
  ASSUME IInv, NEW c \in Callers,
         \/ ReadPool(c) \/ ReadDue(c) \/ Reread(c) \/ ReadNewPool(c) \/ GetLastOrdinal(c)
         \/ GetPoolItem(c) \/ HasRecordedHintStep(c) \/ GetRow(c) \/ Upsert(c) \/ RestoreRow(c)
  PROVE  Keeps(c) /\ cards' = cards /\ count' = count /\ events' = events
<1>1. CASE ReadPool(c) \/ ReadDue(c) \/ Reread(c) \/ ReadNewPool(c)
  <2>1. \/ \E step : Goto(c, step)
        \/ Return(c)
        \/ \E at, todo : req' = [req EXCEPT ![c].at = at, ![c].todo = todo]
    BY <1>1 DEF ReadPool, ReadDue, Reread, ReadNewPool
  <2>2. Keeps(c)
    BY <2>1, GotoKeeps, ReturnKeeps, LocalsKeep
  <2> QED BY <1>1, <2>2 DEF ReadPool, ReadDue, Reread, ReadNewPool, db
<1>2. CASE GetLastOrdinal(c) \/ GetPoolItem(c)
  <2>1. \/ \E at, ordinal : req' = [req EXCEPT ![c].at = at, ![c].ordinal = ordinal]
        \/ \E at, word : req' = [req EXCEPT ![c].at = at, ![c].word = word]
        \/ Fail(c)
    BY <1>2 DEF GetLastOrdinal, GetPoolItem
  <2>2. Keeps(c)
    BY <2>1, FailKeeps, LocalsKeep
  <2> QED BY <1>2, <2>2 DEF GetLastOrdinal, GetPoolItem, db
<1>3. CASE HasRecordedHintStep(c) \/ Upsert(c) \/ RestoreRow(c)
  <2>1. (\E step : Goto(c, step)) \/ Return(c)
    BY <1>3 DEF HasRecordedHintStep, Upsert, RestoreRow
  <2>2. Keeps(c)
    BY <2>1, GotoKeeps, ReturnKeeps
  <2> QED BY <1>3, <2>2 DEF HasRecordedHintStep, Upsert, RestoreRow, db
<1>4. CASE GetRow(c)
  <2> DEFINE row == rows[req[c].word]
  <2>1. \/ \E new : req' = [req EXCEPT ![c].at = "upsert", ![c].prev = row, ![c].row = new]
        \/ Goto(c, "record") \/ Fail(c)
    <3>1. CASE row = NoRow
      BY <1>4, <3>1 DEF GetRow
    <3>2. CASE row # NoRow /\ req[c].kind = "hint"
      BY <1>4, <3>2 DEF GetRow
    <3>3. CASE row # NoRow /\ req[c].kind # "hint"
      BY <1>4, <3>3 DEF GetRow
    <3> QED BY <3>1, <3>2, <3>3
  <2> HIDE DEF row
  <2>2. CASE \E new : req' = [req EXCEPT ![c].at = "upsert", ![c].prev = row, ![c].row = new]
    <3>1. PICK new : req' = [req EXCEPT ![c].at = "upsert", ![c].prev = row, ![c].row = new]
      BY <2>2
    <3>2. Keeps(c)
      BY <3>1, LocalsKeep
    <3> QED BY <1>4, <3>2 DEF GetRow, db
  <2>3. CASE Goto(c, "record") \/ Fail(c)
    BY <1>4, <2>3, GotoKeeps, FailKeeps DEF GetRow, db
  <2> QED BY <2>1, <2>2, <2>3
<1> QED BY <1>1, <1>2, <1>3, <1>4

\* A change of one card that is there leaves the same cards.
LEMMA CardsStay ==
  ASSUME IInv, NEW i, Exists(i), NEW card, card.status \in {"pending", "completed"},
         cards' = [cards EXCEPT ![i] = card]
  PROVE  Cards' = Cards
BY DEF IInv, TypeOK, Cards, Exists

LEMMA CardChangesCovered ==
  ASSUME IInv, IInv', Apart, Covered, NEW c \in Callers, MarkPoolItemCompleted(c) \/ ReopenPoolItem(c)
  PROVE  Apart' /\ Covered'
<1> DEFINE i == req[c].card
           a == [cards[i] EXCEPT !.status = "completed", !.stamp = LastStamp + 1]
           b == [cards[i] EXCEPT !.status = "pending", !.stamp = 0]
<1>1. ASSUME Exists(i) PROVE Cards' = Cards
  <2>1. cards[i] \in Card
    BY <1>1, StatusOfCards DEF IInv, Exists
  <2>2. a.status = "completed" /\ b.status = "pending"
    BY <2>1 DEF Card
  <2>3. cards' = [cards EXCEPT ![i] = a] \/ cards' = [cards EXCEPT ![i] = b]
    BY <1>1 DEF MarkPoolItemCompleted, ReopenPoolItem, IInv, TypeOK, Exists
  <2> HIDE DEF a, b, i
  <2> QED BY <1>1, <2>2, <2>3, CardsStay
<1>2. ASSUME ~Exists(i) PROVE Cards' = Cards
  <2>1. cards' = cards
    BY <1>2 DEF MarkPoolItemCompleted, ReopenPoolItem
  <2> QED BY <2>1 DEF Cards, Exists
<1> HIDE DEF i, a, b
<1>3. Cards' = Cards
  BY <1>1, <1>2
<1>4. count' = count /\ events' = events
  BY DEF MarkPoolItemCompleted, ReopenPoolItem
<1>5. \/ \E at, todo : req' = [req EXCEPT ![c].at = at, ![c].todo = todo]
      \/ \E step : Goto(c, step)
  BY DEF MarkPoolItemCompleted, ReopenPoolItem
<1>6. Keeps(c)
  BY <1>5, LocalsKeep, GotoKeeps
<1>7. Cards \subseteq Cards' /\ \A e \in events' : e \in events
  BY <1>3, <1>4
<1> QED BY <1>4, <1>6, <1>7, KeepsCovered

LEMMA RecordsCovered ==
  ASSUME IInv, IInv', Apart, Covered, NEW c \in Callers, RecordEvent(c) \/ RecordUndo(c)
  PROVE  Apart' /\ Covered'
<1>1. req[c].kind # "open"
  BY DEF IInv, Sound, KeepsToSteps, Resting, RecordEvent, RecordUndo, At
<1>2. cards' = cards /\ count' = count /\ (Return(c) \/ Fail(c))
  BY DEF RecordEvent, RecordUndo
<1>3. Keeps(c)
  BY <1>2, ReturnKeeps, FailKeeps
<1>4. Cards \subseteq Cards'
  BY <1>2 DEF Cards, Exists
<1>5. AnswerEvent(c).created = req[c].created /\ [AnswerEvent(c) EXCEPT !.key = Null].created = req[c].created
  BY DEF AnswerEvent
<1>6. \A e \in events' : e \in events \/ (req[c].kind # "open" /\ e.created = req[c].created)
  BY <1>1, <1>5 DEF RecordEvent, RecordUndo
<1> QED BY <1>2, <1>3, <1>4, <1>6, KeepsCovered

LEMMA StatementCovered ==
  ASSUME IInv, IInv', "delete" \notin requests, Apart, Covered, NEW c \in Callers, Statement(c)
  PROVE  Apart' /\ Covered'
<1>1. ~DeleteRow(c) /\ ~DeleteItemsForUserWord(c)
  BY DEF IInv, Sound, KeepsToSteps, Resting, DeleteRow, DeleteItemsForUserWord, At
<1>2. CASE \/ ReadPool(c) \/ ReadDue(c) \/ Reread(c) \/ ReadNewPool(c) \/ GetLastOrdinal(c)
           \/ GetPoolItem(c) \/ HasRecordedHintStep(c) \/ GetRow(c) \/ Upsert(c) \/ RestoreRow(c)
  BY <1>2, ReadsKeep, TablesCovered
<1>3. CASE AppendPoolItem(c) /\ Appends(req[c])
  BY <1>3, AppendCovered
<1>4. CASE CreatePoolWithItems(c) \/ IncrementScheduledCounts(c) \/ DeletePoolItems(c) \/ CheckUndo(c)
  BY <1>4, CreateCovered, CountCovered, DeleteCreatedCovered, CheckUndoCovered
<1>5. CASE MarkPoolItemCompleted(c) \/ ReopenPoolItem(c) \/ RecordEvent(c) \/ RecordUndo(c)
  BY <1>5, CardChangesCovered, RecordsCovered
<1> QED BY <1>1, <1>2, <1>3, <1>4, <1>5 DEF Statement, OpenStep, Appends

LEMMA CoverSteps == CoverInv /\ [Next]_vars => CoverInv'
<1> SUFFICES ASSUME CoverInv, [Next]_vars PROVE CoverInv'
  OBVIOUS
<1>1. IInv /\ IInv'
  BY StepIsSound DEF CoverInv
<1>2. requests' = requests
  BY DEF Next, vars
<1> SUFFICES ASSUME "delete" \notin requests PROVE Apart' /\ Covered'
  BY <1>1, <1>2 DEF CoverInv
<1>3. Apart /\ Covered
  BY DEF CoverInv
<1>4. CASE UNCHANGED vars
  BY <1>3, <1>4 DEF vars, Apart, Covered, OwnedBy, Cards, Exists, Uncounted
<1>5. ASSUME NEW c \in Callers, Begin(c)
      PROVE  Apart' /\ Covered'
  BY <1>1, <1>3, <1>5, BeginKeeps, TablesCovered DEF db
<1>6. ASSUME NEW c \in Callers, Statement(c)
      PROVE  Apart' /\ Covered'
  BY <1>1, <1>3, <1>6, StatementCovered
<1>7. ASSUME NEW c \in Callers, Crash(c)
      PROVE  Apart' /\ Covered'
  BY <1>1, <1>3, <1>7, ReturnKeeps, TablesCovered DEF Crash, db
<1>8. ASSUME NEW w \in Words, AddWord(w)
      PROVE  Apart' /\ Covered'
  BY <1>3, <1>8 DEF AddWord, Apart, Covered, OwnedBy, Cards, Exists, Uncounted
<1> QED BY <1>4, <1>5, <1>6, <1>7, <1>8 DEF Next

LEMMA CoverStarts == Init => CoverInv
<1> SUFFICES ASSUME Init PROVE CoverInv
  OBVIOUS
<1>1. IInv
  BY InitIsSound
<1>2. \A c \in Callers : req[c].created = {} /\ req[c].dealt = 0
  BY DEF Init, Idle
<1>3. Apart
  BY <1>2, FS_EmptySet DEF Apart, OwnedBy, Owned, Init
<1>4. Covered
  BY UncountedAreFinite DEF Covered, Init
<1> QED BY <1>1, <1>3, <1>4 DEF CoverInv

(***************************************************************************)
(* Unless a word is deleted, due_review_count of the day's pool promises   *)
(* no card that is not there, however many requests append, reconcile and  *)
(* take back at once, and wherever each of them is cut off.                *)
(***************************************************************************)
THEOREM CountStaysCovered == Spec => []CountIsCovered
<1>1. CoverInv => CountIsCovered
  <2> SUFFICES ASSUME CoverInv, "delete" \notin requests PROVE count <= Cardinality(Cards)
    BY DEF CountIsCovered
  <2>1. count \in Nat /\ count <= Cardinality(Cards \ Uncounted)
    BY DEF CoverInv, IInv, TypeOK, Covered
  <2>2. /\ Cardinality(Cards \ Uncounted) \in Nat /\ Cardinality(Cards) \in Nat
        /\ Cardinality(Cards \ Uncounted) <= Cardinality(Cards)
    BY CardsAreFinite, UncountedAreFinite, FS_Subset
  <2> QED BY <2>1, <2>2
<1> QED BY <1>1, CoverStarts, CoverSteps, PTL DEF Spec

---------------------------------------------------------------------------
(* Recorded answers *)

\* A client that waits for each reply: besides the scheduler there is one caller.
OneClient == \A c, d \in Callers \ {Cron} : c = d

Late == {"complete", "ordinal", "append", "record"}
Rated(w) == {e \in events : e.kind = "review" /\ e.word = w}
Ratings(w) == Cardinality(Rated(w))

\* The row a request writes, or has written, counts the answer it is about to record.
Pledged(c) ==
  /\ req[c].kind = "review" /\ req[c].at = "upsert" =>
       Ratings(req[c].word) + 1 <= req[c].row.answers
  /\ req[c].kind = "hint" /\ req[c].at = "upsert" =>
       Ratings(req[c].word) <= req[c].row.answers
  /\ req[c].kind = "review" /\ req[c].at \in Late /\ HasRow(req[c].word) =>
       Ratings(req[c].word) + 1 <= rows[req[c].word].answers

AnswersAreCounted == \A w \in Words : HasRow(w) => Ratings(w) <= rows[w].answers

AnswerInv ==
  IInv /\ (requests \cap {"undo", "add"} = {} => AnswersAreCounted /\ \A c \in Callers : Pledged(c))

\* The next statement of c owes no answer, or the one that was owed before.
Quiet(q, r) ==
  \/ q.at \notin Late \cup {"upsert"}
  \/ q.kind \notin {"review", "hint"}
  \/ q.kind = "hint" /\ q.at = "record"
  \/ q.kind = "review" /\ r.kind = "review" /\ q.word = r.word /\ r.at \in Late /\ q.at \in Late
Quietly(c) == \E q : req' = [req EXCEPT ![c] = q] /\ Quiet(q, req[c])

LEMMA RatingsAreNatural ==
  ASSUME IInv, NEW w
  PROVE  IsFiniteSet(Rated(w)) /\ Ratings(w) \in Nat
<1>1. Rated(w) \in SUBSET events /\ IsFiniteSet(events)
  BY DEF Rated, IInv, EventsAreSound
<1>2. IsFiniteSet(Rated(w))
  BY <1>1, FS_Subset
<1> QED BY <1>2, FS_CardinalityType DEF Ratings

\* Other callers than c: at most one of the two is a client.
LEMMA OthersPledged ==
  ASSUME IInv, IInv', OneClient, NEW c \in Callers, NEW d \in Callers, d # c, Pledged(d), req'[d] = req[d],
         c = Cron => rows' = rows /\ events' = events
  PROVE  Pledged(d)'
<1>1. CASE d = Cron
  <2>1. req'[d].kind = "open"
    BY <1>1 DEF IInv
  <2> QED BY <2>1 DEF Pledged
<1>2. CASE d # Cron
  <2>1. rows' = rows /\ events' = events
    BY <1>2 DEF OneClient
  <2>2. \A w : Ratings(w)' = Ratings(w) /\ (HasRow(w)' <=> HasRow(w))
    BY <2>1 DEF Ratings, Rated, HasRow
  <2> QED BY <2>1, <2>2 DEF Pledged
<1> QED BY <1>1, <1>2

LEMMA QuietSteps ==
  ASSUME IInv, IInv', OneClient, AnswersAreCounted, \A c \in Callers : Pledged(c),
         NEW c \in Callers, Quietly(c), rows' = rows, events' = events
  PROVE  AnswersAreCounted' /\ \A d \in Callers : Pledged(d)'
<1>1. PICK q : req' = [req EXCEPT ![c] = q] /\ Quiet(q, req[c])
  BY DEF Quietly
<1>2. \A d \in Callers : req'[d] = IF d = c THEN q ELSE req[d]
  BY <1>1 DEF IInv, TypeOK
<1>3. \A w : Ratings(w)' = Ratings(w) /\ (HasRow(w)' <=> HasRow(w))
  BY DEF Ratings, Rated, HasRow
<1>4. AnswersAreCounted'
  BY <1>3 DEF AnswersAreCounted
<1>5. ASSUME NEW d \in Callers, d # c PROVE Pledged(d)'
  BY <1>2, <1>5, OthersPledged
<1>6. Pledged(c)'
  <2>1. req'[c] = q /\ Pledged(c)
    BY <1>2
  <2>2. Quiet(q, req[c])
    BY <1>1
  <2> DEFINE r == req[c]
  <2>3. CASE q.at \notin Late \cup {"upsert"}
    BY <2>1, <2>3 DEF Pledged
  <2>4. CASE q.kind \notin {"review", "hint"}
    BY <2>1, <2>4 DEF Pledged
  <2>5. CASE q.kind = "hint" /\ q.at = "record"
    BY <2>1, <2>5 DEF Pledged
  <2>6. CASE q.kind = "review" /\ r.kind = "review" /\ q.word = r.word /\ r.at \in Late /\ q.at \in Late
    BY <1>3, <2>1, <2>6 DEF Pledged, Late
  <2> QED BY <2>2, <2>3, <2>4, <2>5, <2>6 DEF Quiet
<1> QED BY <1>4, <1>5, <1>6

LEMMA ReturnIsQuiet ==
  ASSUME NEW c \in Callers, Return(c) \/ Fail(c)
  PROVE  Quietly(c)
<1>1. Idle.at = "idle" /\ [Idle EXCEPT !.kind = req[c].kind, !.at = "failed"].at = "failed"
  BY DEF Idle
<1>2. Quiet(Idle, req[c]) /\ Quiet([Idle EXCEPT !.kind = req[c].kind, !.at = "failed"], req[c])
  BY <1>1 DEF Quiet, Late
<1>3. CASE Return(c)
  BY <1>2, <1>3 DEF Return, Quietly
<1>4. CASE Fail(c)
  BY <1>2, <1>4 DEF Fail, Quietly
<1> QED BY <1>3, <1>4

\* What a statement writes to its own locals owes no new answer, unless it reads a row.
LEMMA LocalsAreQuiet ==
  ASSUME IInv, NEW c \in Callers, NEW at, NEW todo, NEW ordinal, NEW dealt, NEW created, NEW word,
         \/ Goto(c, at)
         \/ req' = [req EXCEPT ![c].at = at, ![c].todo = todo]
         \/ req' = [req EXCEPT ![c].at = at, ![c].ordinal = ordinal]
         \/ req' = [req EXCEPT ![c].at = at, ![c].word = word] /\ at \notin Late \cup {"upsert"}
         \/ req' = [req EXCEPT ![c].at = at, ![c].todo = todo, ![c].ordinal = ordinal, ![c].dealt = dealt,
                               ![c].created = created],
         \/ req[c].kind = "open"
         \/ req[c].kind = "review" /\ req[c].at \in Late /\ at \in Late
         \/ req[c].kind = "hint" /\ at = "record"
         \/ at \notin Late \cup {"upsert"}
  PROVE  Quietly(c)
<1> DEFINE r == req[c]
<1>1. r \in Request
  BY DEF IInv, TypeOK
<1>2. ASSUME NEW q, q.kind = r.kind, q.at = at, q.word = r.word \/ at \notin Late \cup {"upsert"},
             req' = [req EXCEPT ![c] = q]
      PROVE  Quietly(c)
  <2>1. Quiet(q, r)
    BY <1>2 DEF Quiet
  <2> QED BY <1>2, <2>1 DEF Quietly
<1>3. CASE Goto(c, at)
  <2> DEFINE q == [r EXCEPT !.at = at]
  <2>1. req' = [req EXCEPT ![c] = q]
    BY <1>3 DEF Goto
  <2> HIDE DEF r
  <2>2. q.kind = r.kind /\ q.at = at /\ q.word = r.word
    BY <1>1 DEF Request
  <2> HIDE DEF q
  <2> QED BY <1>2, <2>1, <2>2
<1>4. CASE req' = [req EXCEPT ![c].at = at, ![c].todo = todo]
  <2> DEFINE q == [r EXCEPT !.at = at, !.todo = todo]
  <2>1. req' = [req EXCEPT ![c] = q]
    BY <1>4
  <2> HIDE DEF r
  <2>2. q.kind = r.kind /\ q.at = at /\ q.word = r.word
    BY <1>1 DEF Request
  <2> HIDE DEF q
  <2> QED BY <1>2, <2>1, <2>2
<1>5. CASE req' = [req EXCEPT ![c].at = at, ![c].ordinal = ordinal]
  <2> DEFINE q == [r EXCEPT !.at = at, !.ordinal = ordinal]
  <2>1. req' = [req EXCEPT ![c] = q]
    BY <1>5
  <2> HIDE DEF r
  <2>2. q.kind = r.kind /\ q.at = at /\ q.word = r.word
    BY <1>1 DEF Request
  <2> HIDE DEF q
  <2> QED BY <1>2, <2>1, <2>2
<1>6. CASE req' = [req EXCEPT ![c].at = at, ![c].word = word] /\ at \notin Late \cup {"upsert"}
  <2> DEFINE q == [r EXCEPT !.at = at, !.word = word]
  <2>1. req' = [req EXCEPT ![c] = q]
    BY <1>6
  <2> HIDE DEF r
  <2>2. q.kind = r.kind /\ q.at = at
    BY <1>1 DEF Request
  <2> HIDE DEF q
  <2> QED BY <1>2, <1>6, <2>1, <2>2
<1>7. CASE req' = [req EXCEPT ![c].at = at, ![c].todo = todo, ![c].ordinal = ordinal, ![c].dealt = dealt,
                              ![c].created = created]
  <2> DEFINE q == [r EXCEPT !.at = at, !.todo = todo, !.ordinal = ordinal, !.dealt = dealt, !.created = created]
  <2>1. req' = [req EXCEPT ![c] = q]
    BY <1>7
  <2> HIDE DEF r
  <2>2. q.kind = r.kind /\ q.at = at /\ q.word = r.word
    BY <1>1 DEF Request
  <2> HIDE DEF q
  <2> QED BY <1>2, <2>1, <2>2
<1> QED BY <1>3, <1>4, <1>5, <1>6, <1>7

LEMMA BeginIsQuiet ==
  ASSUME IInv, NEW c \in Callers, Begin(c)
  PROVE  Quietly(c) /\ UNCHANGED db
<1>1. ASSUME NEW q, req' = [req EXCEPT ![c] = q], q.at \in {"readPool", "getCard", "checkUndo", "deleteRow"}
      PROVE  Quietly(c)
  BY <1>1 DEF Quietly, Quiet, Late
<1>2. CASE BeginOpen(c)
  <2>1. [Idle EXCEPT !.at = "readPool"].at = "readPool"
    BY DEF Idle
  <2> QED BY <1>1, <1>2, <2>1 DEF BeginOpen
<1>3. ASSUME NEW i \in Cards, NEW k \in Keys, BeginReview(c, i, k) \/ BeginHint(c, i, k)
      PROVE  Quietly(c)
  <2>1. PICK kind : Start(c, [Idle EXCEPT !.kind = kind, !.at = "getCard", !.card = i, !.key = k])
    BY <1>3 DEF BeginReview, BeginHint
  <2>2. [Idle EXCEPT !.kind = kind, !.at = "getCard", !.card = i, !.key = k].at = "getCard"
    BY DEF Idle
  <2> QED BY <1>1, <2>1, <2>2 DEF Start
<1>4. ASSUME NEW i \in Cards, BeginUndo(c, i)
      PROVE  Quietly(c)
  <2>1. [Idle EXCEPT !.kind = "undo", !.at = "checkUndo", !.card = i].at = "checkUndo"
    BY DEF Idle
  <2> QED BY <1>1, <1>4, <2>1 DEF Start, BeginUndo
<1>5. ASSUME NEW w \in Words, BeginDelete(c, w)
      PROVE  Quietly(c)
  <2>1. [Idle EXCEPT !.kind = "delete", !.at = "deleteRow", !.word = w].at = "deleteRow"
    BY DEF Idle
  <2> QED BY <1>1, <1>5, <2>1 DEF Start, BeginDelete
<1> QED BY <1>2, <1>3, <1>4, <1>5, BeginKeeps DEF Begin

\* The statements that neither read nor write a row or an event of the client.
LEMMA OpenIsQuiet ==
  ASSUME IInv, NEW c \in Callers,
         ReadPool(c) \/ ReadDue(c) \/ Reread(c) \/ ReadNewPool(c) \/ CreatePoolWithItems(c)
           \/ IncrementScheduledCounts(c)
  PROVE  Quietly(c) /\ rows' = rows /\ events' = events
<1>1. \/ Return(c) \/ (\E at : Goto(c, at))
      \/ \E at, todo : req' = [req EXCEPT ![c].at = at, ![c].todo = todo]
  BY DEF ReadPool, ReadDue, Reread, ReadNewPool, CreatePoolWithItems, IncrementScheduledCounts
<1>2. req[c].kind = "open"
  BY OpenSteps DEF ReadPool, ReadDue, Reread, ReadNewPool, CreatePoolWithItems, IncrementScheduledCounts, At
<1>3. CASE Return(c)
  BY <1>3, ReturnIsQuiet DEF ReadPool, ReadDue, Reread, ReadNewPool, CreatePoolWithItems, IncrementScheduledCounts, db
<1>4. CASE \/ \E at : Goto(c, at)
           \/ \E at, todo : req' = [req EXCEPT ![c].at = at, ![c].todo = todo]
  <2>1. Quietly(c)
    BY <1>2, <1>4, LocalsAreQuiet
  <2> QED BY <2>1 DEF ReadPool, ReadDue, Reread, ReadNewPool, CreatePoolWithItems, IncrementScheduledCounts, db
<1> QED BY <1>1, <1>3, <1>4

LEMMA AppendingIsQuiet ==
  ASSUME IInv, NEW c \in Callers, GetLastOrdinal(c) \/ AppendPoolItem(c), Appends(req[c])
  PROVE  Quietly(c) /\ rows' = rows /\ events' = events
<1>1. req[c].kind \in {"open", "review"}
  BY DEF Appends
<1>2. CASE GetLastOrdinal(c)
  <2>1. req' = [req EXCEPT ![c].at = "append", ![c].ordinal = LastOrdinal] /\ req[c].at = "ordinal"
    BY <1>2 DEF GetLastOrdinal, At
  <2>2. req[c].at \in Late /\ "append" \in Late
    BY <2>1 DEF Late
  <2>3. Quietly(c)
    BY <1>1, <2>1, <2>2, LocalsAreQuiet
  <2> QED BY <1>2, <2>3 DEF GetLastOrdinal, db
<1>3. CASE AppendPoolItem(c)
  <2> DEFINE r == req[c]
             next == IF r.kind = "open" THEN (IF Cardinality(r.todo) = 1 THEN "count" ELSE "append") ELSE "record"
  <2>1. rows' = rows /\ events' = events /\ r.at = "append"
    BY <1>3 DEF AppendPoolItem, At
  <2>2. \/ Fail(c)
        \/ r.kind = "review" /\ Goto(c, "record")
        \/ \E todo, ordinal, dealt, created :
             req' = [req EXCEPT ![c].at = next, ![c].todo = todo, ![c].ordinal = ordinal, ![c].dealt = dealt,
                                ![c].created = created]
    <3>1. PICK w \in r.todo :
            \/ IF r.kind = "open" THEN Fail(c) ELSE Goto(c, "record")
            \/ \E i \in CardIds : req' = [req EXCEPT ![c].at = next, ![c].todo = @ \ {w}, ![c].ordinal = @ + 1,
                                                      ![c].dealt = @ + 1, ![c].created = @ \cup {i}]
      BY <1>3 DEF AppendPoolItem
    <3>2. CASE IF r.kind = "open" THEN Fail(c) ELSE Goto(c, "record")
      BY <1>1, <3>2
    <3>3. ASSUME NEW i \in CardIds,
                 req' = [req EXCEPT ![c].at = next, ![c].todo = @ \ {w}, ![c].ordinal = @ + 1,
                                    ![c].dealt = @ + 1, ![c].created = @ \cup {i}]
          PROVE  \E todo, ordinal, dealt, created :
                   req' = [req EXCEPT ![c].at = next, ![c].todo = todo, ![c].ordinal = ordinal, ![c].dealt = dealt,
                                      ![c].created = created]
      <4> DEFINE todo == r.todo \ {w}
                 ordinal == r.ordinal + 1
                 dealt == r.dealt + 1
                 created == r.created \cup {i}
      <4>1. req' = [req EXCEPT ![c].at = next, ![c].todo = todo, ![c].ordinal = ordinal, ![c].dealt = dealt,
                               ![c].created = created]
        BY <3>3
      <4> HIDE DEF todo, ordinal, dealt, created, next
      <4> QED BY <4>1
    <3> QED BY <3>1, <3>2, <3>3
  <2>3. r.at \in Late /\ (r.kind = "review" => next \in Late) /\ "record" \in Late
    BY <2>1 DEF Late
  <2> HIDE DEF next
  <2>4. CASE Fail(c)
    BY <2>1, <2>4, ReturnIsQuiet
  <2>5. CASE r.kind = "review" /\ Goto(c, "record")
    BY <2>1, <2>3, <2>5, LocalsAreQuiet
  <2>6. CASE \E todo, ordinal, dealt, created :
             req' = [req EXCEPT ![c].at = next, ![c].todo = todo, ![c].ordinal = ordinal, ![c].dealt = dealt,
                                ![c].created = created]
    <3>1. PICK todo, ordinal, dealt, created :
             req' = [req EXCEPT ![c].at = next, ![c].todo = todo, ![c].ordinal = ordinal, ![c].dealt = dealt,
                                ![c].created = created]
      BY <2>6
    <3>2. Quietly(c)
      BY <1>1, <2>3, <3>1, LocalsAreQuiet
    <3> QED BY <2>1, <3>2
  <2> QED BY <2>2, <2>4, <2>5, <2>6
<1> QED BY <1>2, <1>3

LEMMA AnsweringIsQuiet ==
  ASSUME IInv, NEW c \in Callers, GetPoolItem(c) \/ HasRecordedHintStep(c) \/ MarkPoolItemCompleted(c)
  PROVE  Quietly(c) /\ rows' = rows /\ events' = events
<1>1. rows' = rows /\ events' = events
  BY DEF GetPoolItem, HasRecordedHintStep, MarkPoolItemCompleted, db
<1>2. CASE GetPoolItem(c)
  <2>1. \/ Fail(c)
        \/ \E at, word : at \in {"getEvents", "getRow"} /\ req' = [req EXCEPT ![c].at = at, ![c].word = word]
    BY <1>2 DEF GetPoolItem
  <2>2. "getEvents" \notin Late \cup {"upsert"} /\ "getRow" \notin Late \cup {"upsert"}
    BY DEF Late
  <2>3. Quietly(c)
    BY <2>1, <2>2, ReturnIsQuiet, LocalsAreQuiet
  <2> QED BY <1>1, <2>3
<1>3. CASE HasRecordedHintStep(c)
  <2>1. Return(c) \/ Goto(c, "getRow")
    BY <1>3 DEF HasRecordedHintStep
  <2>2. "getRow" \notin Late \cup {"upsert"}
    BY DEF Late
  <2> QED BY <1>1, <2>1, <2>2, ReturnIsQuiet, LocalsAreQuiet
<1>4. CASE MarkPoolItemCompleted(c)
  <2> DEFINE at == IF req[c].row.due THEN "ordinal" ELSE "record"
             todo == IF req[c].row.due THEN {req[c].word} ELSE {}
  <2>1. req[c].kind = "review" /\ req[c].at = "complete"
    BY <1>4 DEF MarkPoolItemCompleted, At, IInv, Sound, KeepsToSteps, Resting
  <2>2. req' = [req EXCEPT ![c].at = at, ![c].todo = todo]
    BY <1>4 DEF MarkPoolItemCompleted
  <2>3. req[c].at \in Late /\ at \in Late
    BY <2>1 DEF Late
  <2> HIDE DEF at, todo
  <2>4. Quietly(c)
    BY <2>1, <2>2, <2>3, LocalsAreQuiet
  <2> QED BY <1>1, <2>4
<1> QED BY <1>2, <1>3, <1>4

\* The row a request is going to write has one more answer than the row it read.
LEMMA GetRowAnswers ==
  ASSUME IInv, IInv', OneClient, AnswersAreCounted, \A c \in Callers : Pledged(c),
         NEW c \in Callers, GetRow(c)
  PROVE  AnswersAreCounted' /\ \A d \in Callers : Pledged(d)'
<1> DEFINE r == req[c]
           row == rows[r.word]
<1>1. Sound(r) /\ r \in Request /\ r.at = "getRow"
  BY DEF IInv, TypeOK, GetRow, At
<1>2. rows' = rows /\ events' = events
  BY DEF GetRow, db
<1>3. r.kind \in {"review", "hint"} /\ r.word \in Words
  BY <1>1 DEF Sound, KeepsToSteps, Knows, Resting
<1>4. row \in Row \cup {NoRow}
  BY <1>3 DEF IInv, TypeOK
<1>5. CASE row = NoRow
  <2>1. (r.kind = "hint" /\ Goto(c, "record")) \/ Fail(c)
    BY <1>5 DEF GetRow
  <2>2. Quietly(c)
    BY <2>1, ReturnIsQuiet, LocalsAreQuiet
  <2> QED BY <1>2, <2>2, QuietSteps
<1>6. CASE row # NoRow
  <2>1. row \in Row /\ Ratings(r.word) <= row.answers /\ Ratings(r.word) \in Nat /\ row.answers \in Nat
    <3>1. row \in Row /\ Ratings(r.word) <= row.answers
      BY <1>3, <1>4, <1>6 DEF AnswersAreCounted, HasRow
    <3>2. row.answers \in Nat
      <4> HIDE DEF row
      <4> QED BY <3>1, CardRequestsAssumption DEF Row
    <3> QED BY <3>1, <3>2, RatingsAreNatural
  <2>2. PICK new : /\ req' = [req EXCEPT ![c].at = "upsert", ![c].prev = row, ![c].row = new]
                   /\ IF r.kind = "hint" THEN new.answers = row.answers ELSE new.answers = row.answers + 1
    <3>1. CASE r.kind = "hint"
      <4> DEFINE new == [row EXCEPT !.hints = @ + 1]
      <4>1. req' = [req EXCEPT ![c].at = "upsert", ![c].prev = row, ![c].row = new]
        BY <1>6, <3>1 DEF GetRow
      <4>2. new.answers = row.answers
        <5> HIDE DEF row
        <5> QED BY <2>1 DEF Row
      <4> HIDE DEF new, row
      <4> QED BY <3>1, <4>1, <4>2
    <3>2. CASE r.kind # "hint"
      <4>1. PICK due \in BOOLEAN :
              req' = [req EXCEPT ![c].at = "upsert", ![c].prev = row,
                                 ![c].row = [row EXCEPT !.answers = @ + 1, !.due = due]]
        BY <1>6, <3>2 DEF GetRow
      <4> DEFINE new == [row EXCEPT !.answers = @ + 1, !.due = due]
      <4>2. new.answers = row.answers + 1
        <5> HIDE DEF row
        <5> QED BY <2>1 DEF Row
      <4>3. req' = [req EXCEPT ![c].at = "upsert", ![c].prev = row, ![c].row = new]
        BY <4>1
      <4> HIDE DEF new, row
      <4> QED BY <3>2, <4>2, <4>3
    <3> QED BY <3>1, <3>2
  <2> DEFINE q == [r EXCEPT !.at = "upsert", !.prev = row, !.row = new]
  <2>3. req' = [req EXCEPT ![c] = q]
    BY <2>2
  <2>4. q.at = "upsert" /\ q.kind = r.kind /\ q.word = r.word /\ q.row = new
    <3> HIDE DEF r, row
    <3> QED BY <1>1 DEF Request
  <2> HIDE DEF q
  <2>5. \A d \in Callers : req'[d] = IF d = c THEN q ELSE req[d]
    BY <2>3 DEF IInv, TypeOK
  <2>6. \A w : Ratings(w)' = Ratings(w) /\ (HasRow(w)' <=> HasRow(w))
    BY <1>2 DEF Ratings, Rated, HasRow
  <2>7. AnswersAreCounted'
    BY <1>2, <2>6 DEF AnswersAreCounted
  <2>8. Pledged(c)'
    <3>1. req'[c] = q
      BY <2>5
    <3>2. IF r.kind = "hint" THEN Ratings(r.word) <= new.answers ELSE Ratings(r.word) + 1 <= new.answers
      <4> HIDE DEF r, row
      <4>1. CASE r.kind = "hint"
        BY <2>1, <2>2, <4>1
      <4>2. CASE r.kind # "hint"
        BY <2>1, <2>2, <4>2
      <4> QED BY <4>1, <4>2
    <3> HIDE DEF r, row
    <3> QED BY <1>3, <2>4, <2>6, <3>1, <3>2 DEF Pledged, Late
  <2>9. ASSUME NEW d \in Callers, d # c PROVE Pledged(d)'
    BY <1>2, <2>5, <2>9, OthersPledged
  <2> QED BY <2>7, <2>8, <2>9
<1> QED BY <1>5, <1>6

LEMMA UpsertAnswers ==
  ASSUME IInv, IInv', OneClient, AnswersAreCounted, \A c \in Callers : Pledged(c),
         NEW c \in Callers, Upsert(c)
  PROVE  AnswersAreCounted' /\ \A d \in Callers : Pledged(d)'
<1> DEFINE r == req[c]
           next == IF r.kind = "hint" THEN "record" ELSE "complete"
           q == [r EXCEPT !.at = next]
<1>1. Sound(r) /\ r \in Request /\ r.at = "upsert"
  BY DEF IInv, TypeOK, Upsert, At
<1>2. r.kind \in {"review", "hint"} /\ r.word \in Words
  BY <1>1 DEF Sound, KeepsToSteps, Knows, Resting
<1>3. rows' = [rows EXCEPT ![r.word] = r.row] /\ events' = events /\ req' = [req EXCEPT ![c] = q]
  BY DEF Upsert, Goto
<1>4. c # Cron
  BY <1>2 DEF IInv
<1>5. rows \in [Words -> Row \cup {NoRow}] /\ req \in [Callers -> Request]
  BY DEF IInv, TypeOK
<1>6. \A w : Ratings(w)' = Ratings(w) /\ Ratings(w) \in Nat
  BY <1>3, RatingsAreNatural DEF Ratings, Rated
<1>7. /\ r.kind = "review" => Ratings(r.word) + 1 <= r.row.answers
      /\ r.kind = "hint" => Ratings(r.word) <= r.row.answers
  BY <1>1 DEF Pledged
<1>8. r.row \in Row \cup {NoRow}
  BY <1>1 DEF Request
<1>9. q.at = next /\ q.kind = r.kind /\ q.word = r.word
  <2> HIDE DEF r, next
  <2> QED BY <1>1 DEF Request
<1>10. next = (IF r.kind = "hint" THEN "record" ELSE "complete")
  OBVIOUS
<1> HIDE DEF r, q, next
<1>11. AnswersAreCounted'
  <2> SUFFICES ASSUME NEW w \in Words, rows'[w] # NoRow PROVE Ratings(w) <= rows'[w].answers
    BY <1>6 DEF AnswersAreCounted, HasRow
  <2>1. CASE w = r.word
    <3>1. rows'[w] = r.row /\ r.row \in Row
      BY <1>2, <1>3, <1>5, <1>8, <2>1
    <3>2. r.row.answers \in Nat
      BY <3>1, CardRequestsAssumption DEF Row
    <3> QED BY <1>2, <1>6, <1>7, <2>1, <3>1, <3>2
  <2>2. CASE w # r.word
    BY <1>3, <1>5, <2>2 DEF AnswersAreCounted, HasRow
  <2> QED BY <2>1, <2>2
<1>12. Pledged(c)'
  <2>1. req'[c] = q /\ rows'[r.word] = r.row
    BY <1>2, <1>3, <1>5
  <2> QED BY <1>2, <1>6, <1>7, <1>9, <1>10, <2>1 DEF Pledged, Late
<1>13. ASSUME NEW d \in Callers, d # c PROVE Pledged(d)'
  BY <1>3, <1>4, <1>5, <1>13, OthersPledged
<1> QED BY <1>11, <1>12, <1>13

LEMMA RecordAnswers ==
  ASSUME IInv, IInv', OneClient, AnswersAreCounted, \A c \in Callers : Pledged(c),
         NEW c \in Callers, RecordEvent(c)
  PROVE  AnswersAreCounted' /\ \A d \in Callers : Pledged(d)'
<1> DEFINE r == req[c]
           e == AnswerEvent(c)
<1>1. Sound(r) /\ r \in Request /\ r.at = "record" /\ rows' = rows
  BY DEF IInv, TypeOK, RecordEvent, At
<1>2. r.kind \in {"review", "hint"} /\ r.word \in Words
  <2> HIDE DEF r
  <2> QED BY <1>1 DEF Sound, KeepsToSteps, Knows, Resting
<1>3. CASE Fail(c) /\ UNCHANGED events
  BY <1>1, <1>3, ReturnIsQuiet, QuietSteps
<1>4. CASE events' = events \cup {e} /\ Return(c)
  <2>1. e.kind = r.kind /\ e.word = r.word
    BY DEF AnswerEvent
  <2>2. c # Cron
    BY <1>2 DEF IInv
  <2>3. \A d \in Callers : req'[d] = IF d = c THEN Idle ELSE req[d]
    BY <1>4 DEF IInv, TypeOK, Return
  <2>4. r.kind = "review" /\ HasRow(r.word) => Ratings(r.word) + 1 <= rows[r.word].answers
    BY <1>1 DEF Pledged, Late
  <2> HIDE DEF r, e
  <2>5. ASSUME NEW w
        PROVE  Ratings(w)' \in Nat /\ Ratings(w) \in Nat
               /\ Ratings(w)' <= (IF r.kind = "review" /\ w = r.word THEN Ratings(w) + 1 ELSE Ratings(w))
    <3>1. Ratings(w) \in Nat /\ IsFiniteSet(Rated(w))
      BY RatingsAreNatural
    <3>2. CASE r.kind = "review" /\ w = r.word
      <4>1. Rated(w)' = Rated(w) \cup {e}
        BY <1>4, <2>1, <3>2 DEF Rated
      <4>2. Cardinality(Rated(w)') = IF e \in Rated(w) THEN Cardinality(Rated(w)) ELSE Cardinality(Rated(w)) + 1
        BY <3>1, <4>1, FS_AddElement
      <4> QED BY <3>1, <3>2, <4>2 DEF Ratings
    <3>3. CASE ~(r.kind = "review" /\ w = r.word)
      <4>1. Rated(w)' = Rated(w)
        BY <1>4, <2>1, <3>3 DEF Rated
      <4> QED BY <3>1, <3>3, <4>1 DEF Ratings
    <3> QED BY <3>2, <3>3
  <2>6. AnswersAreCounted'
    <3> SUFFICES ASSUME NEW w \in Words, rows[w] # NoRow PROVE Ratings(w)' <= rows[w].answers
      BY <1>1 DEF AnswersAreCounted, HasRow
    <3>1. Ratings(w) <= rows[w].answers /\ (r.kind = "review" /\ w = r.word => Ratings(w) + 1 <= rows[w].answers)
      BY <2>4 DEF AnswersAreCounted, HasRow
    <3>2. rows[w] \in Row
      BY DEF IInv, TypeOK
    <3>3. rows[w].answers \in Nat
      BY <3>2, CardRequestsAssumption DEF Row
    <3> QED BY <2>5, <3>1, <3>3
  <2>7. Pledged(c)'
    <3>1. req'[c].at = "idle"
      BY <2>3, IdleIsSound
    <3> QED BY <3>1 DEF Pledged, Late
  <2>8. ASSUME NEW d \in Callers, d # c PROVE Pledged(d)'
    BY <2>2, <2>3, <2>8, OthersPledged
  <2> QED BY <2>6, <2>7, <2>8
<1> QED BY <1>3, <1>4 DEF RecordEvent

LEMMA DeleteRowAnswers ==
  ASSUME IInv, IInv', OneClient, AnswersAreCounted, \A c \in Callers : Pledged(c),
         NEW c \in Callers, DeleteRow(c)
  PROVE  AnswersAreCounted' /\ \A d \in Callers : Pledged(d)'
<1> DEFINE w == req[c].word
<1>1. req[c].kind = "delete" /\ (Goto(c, "deleteCards") \/ Fail(c))
  BY DEF DeleteRow, IInv, Sound, KeepsToSteps, Resting, At
<1>2. rows' = [rows EXCEPT ![w] = NoRow] /\ events' = events
  BY DEF DeleteRow
<1>3. \A d \in Callers : d # c => req'[d] = req[d]
  BY <1>1 DEF IInv, TypeOK, Goto, Fail
<1>4. req'[c].kind = "delete"
  <2>1. [req[c] EXCEPT !.at = "deleteCards"].kind = "delete"
    BY <1>1 DEF IInv, TypeOK, Request
  <2>2. [Idle EXCEPT !.kind = req[c].kind, !.at = "failed"].kind = "delete"
    BY <1>1 DEF Idle
  <2> QED BY <1>1, <2>1, <2>2 DEF IInv, TypeOK, Goto, Fail
<1>5. c # Cron
  BY <1>1 DEF IInv
<1> HIDE DEF w
<1>6. AnswersAreCounted'
  BY <1>2 DEF AnswersAreCounted, HasRow, IInv, TypeOK, Ratings, Rated
<1>7. Pledged(c)'
  BY <1>4 DEF Pledged
<1>8. ASSUME NEW d \in Callers, d # c PROVE Pledged(d)'
  BY <1>3, <1>5, <1>8, OthersPledged
<1> QED BY <1>6, <1>7, <1>8

LEMMA StatementAnswers ==
  ASSUME IInv, IInv', OneClient, requests \cap {"undo", "add"} = {}, AnswersAreCounted,
         \A c \in Callers : Pledged(c), NEW c \in Callers, Statement(c)
  PROVE  AnswersAreCounted' /\ \A d \in Callers : Pledged(d)'
<1>1. ~CheckUndo(c) /\ ~RestoreRow(c) /\ ~DeletePoolItems(c) /\ ~ReopenPoolItem(c) /\ ~RecordUndo(c)
  BY DEF IInv, Sound, KeepsToSteps, Resting, CheckUndo, RestoreRow, DeletePoolItems, ReopenPoolItem, RecordUndo, At
<1>2. CASE ReadPool(c) \/ ReadDue(c) \/ Reread(c) \/ ReadNewPool(c) \/ CreatePoolWithItems(c)
           \/ IncrementScheduledCounts(c)
  BY <1>2, OpenIsQuiet, QuietSteps
<1>3. CASE (GetLastOrdinal(c) \/ AppendPoolItem(c)) /\ Appends(req[c])
  BY <1>3, AppendingIsQuiet, QuietSteps
<1>4. CASE GetPoolItem(c) \/ HasRecordedHintStep(c) \/ MarkPoolItemCompleted(c)
  BY <1>4, AnsweringIsQuiet, QuietSteps
<1>5. CASE DeleteItemsForUserWord(c)
  BY <1>5, ReturnIsQuiet, QuietSteps DEF DeleteItemsForUserWord
<1>6. CASE GetRow(c) \/ Upsert(c) \/ RecordEvent(c) \/ DeleteRow(c)
  BY <1>6, GetRowAnswers, UpsertAnswers, RecordAnswers, DeleteRowAnswers
<1> QED BY <1>1, <1>2, <1>3, <1>4, <1>5, <1>6 DEF Statement, OpenStep, Appends

LEMMA AnswerSteps ==
  ASSUME OneClient, AnswerInv, [Next]_vars
  PROVE  AnswerInv'
<1>1. IInv /\ IInv'
  BY StepIsSound DEF AnswerInv
<1>2. requests' = requests
  BY DEF Next, vars
<1> SUFFICES ASSUME requests \cap {"undo", "add"} = {}
             PROVE  AnswersAreCounted' /\ \A d \in Callers : Pledged(d)'
  BY <1>1, <1>2 DEF AnswerInv
<1>3. AnswersAreCounted /\ \A c \in Callers : Pledged(c)
  BY DEF AnswerInv
<1>4. CASE UNCHANGED vars
  BY <1>3, <1>4 DEF vars, AnswersAreCounted, Pledged, HasRow, Ratings, Rated
<1>5. ASSUME NEW c \in Callers, Begin(c)
      PROVE  AnswersAreCounted' /\ \A d \in Callers : Pledged(d)'
  BY <1>1, <1>3, <1>5, BeginIsQuiet, QuietSteps DEF db
<1>6. ASSUME NEW c \in Callers, Statement(c)
      PROVE  AnswersAreCounted' /\ \A d \in Callers : Pledged(d)'
  BY <1>1, <1>3, <1>6, StatementAnswers
<1>7. ASSUME NEW c \in Callers, Crash(c)
      PROVE  AnswersAreCounted' /\ \A d \in Callers : Pledged(d)'
  BY <1>1, <1>3, <1>7, ReturnIsQuiet, QuietSteps DEF Crash, db
<1>8. \A w \in Words : ~AddWord(w)
  BY DEF AddWord
<1> QED BY <1>4, <1>5, <1>6, <1>7, <1>8 DEF Next

LEMMA AnswerStarts == Init => AnswerInv
<1> SUFFICES ASSUME Init PROVE AnswerInv
  OBVIOUS
<1>1. IInv
  BY InitIsSound
<1>2. \A w : Ratings(w) = 0
  BY FS_EmptySet DEF Init, Ratings, Rated
<1>3. AnswersAreCounted
  BY <1>2 DEF Init, AnswersAreCounted, HasRow
<1>4. \A c \in Callers : Pledged(c)
  BY DEF Init, Idle, Pledged, Late
<1> QED BY <1>1, <1>3, <1>4 DEF AnswerInv

(***************************************************************************)
(* A client that waits for each reply never has an answer recorded that    *)
(* its word's row does not count: SubmitReview writes the row before it    *)
(* records the event, so a request cut off anywhere may lose the event but *)
(* not the count, and the scheduler's openings write no row.               *)
(***************************************************************************)
THEOREM RecordedAnswersStayCounted ==
  ASSUME OneClient
  PROVE  Spec => []RecordedAnswersCount
<1>1. AnswerInv => RecordedAnswersCount
  BY DEF AnswerInv, AnswersAreCounted, RecordedAnswersCount, Ratings, Rated
<1>2. AnswerInv /\ [Next]_vars => AnswerInv'
  BY AnswerSteps
<1> QED BY <1>1, <1>2, AnswerStarts, PTL DEF Spec

---------------------------------------------------------------------------
(* The race to create the pool *)

\* A step of one caller leaves the local variables of the others.
LEMMA OthersStay ==
  ASSUME TypeOK, NEW c \in Callers, Begin(c) \/ Statement(c) \/ Crash(c)
  PROVE  \A d \in Callers : d # c => req'[d] = req[d]
<1>1. req \in [Callers -> Request]
  BY DEF TypeOK
<1>2. CASE Begin(c) \/ Crash(c)
  BY <1>1, <1>2 DEF Begin, Crash, BeginOpen, BeginReview, BeginHint, BeginUndo, BeginDelete, Start, Return
<1>3. CASE ReadPool(c) \/ ReadDue(c) \/ Reread(c) \/ ReadNewPool(c)
  BY <1>1, <1>3 DEF ReadPool, ReadDue, Reread, ReadNewPool, Return, Goto
<1>4. CASE CreatePoolWithItems(c) \/ IncrementScheduledCounts(c) \/ GetLastOrdinal(c)
  BY <1>1, <1>4 DEF CreatePoolWithItems, IncrementScheduledCounts, GetLastOrdinal, Return
<1>5. CASE AppendPoolItem(c)
  <2> DEFINE r == req[c]
             next == IF r.kind = "open" THEN (IF Cardinality(r.todo) = 1 THEN "count" ELSE "append") ELSE "record"
  <2>1. PICK w \in r.todo :
          \/ Fail(c) \/ Goto(c, "record")
          \/ \E i \in CardIds : req' = [req EXCEPT ![c].at = next, ![c].todo = @ \ {w}, ![c].ordinal = @ + 1,
                                                    ![c].dealt = @ + 1, ![c].created = @ \cup {i}]
    BY <1>5 DEF AppendPoolItem
  <2> HIDE DEF next
  <2> QED BY <1>1, <2>1 DEF Fail, Goto
<1>6. CASE GetPoolItem(c) \/ HasRecordedHintStep(c) \/ Upsert(c) \/ MarkPoolItemCompleted(c) \/ RecordEvent(c)
  BY <1>1, <1>6 DEF GetPoolItem, HasRecordedHintStep, Upsert, MarkPoolItemCompleted, RecordEvent, Fail, Return, Goto
<1>7. CASE GetRow(c)
  <2> DEFINE row == rows[req[c].word]
  <2>1. CASE row = NoRow
    BY <1>1, <1>7, <2>1 DEF GetRow, Fail, Goto
  <2>2. CASE row # NoRow /\ req[c].kind = "hint"
    BY <1>1, <1>7, <2>2 DEF GetRow
  <2>3. CASE row # NoRow /\ req[c].kind # "hint"
    BY <1>1, <1>7, <2>3 DEF GetRow
  <2> QED BY <2>1, <2>2, <2>3
<1>8. CASE CheckUndo(c) \/ RestoreRow(c) \/ DeletePoolItems(c) \/ ReopenPoolItem(c) \/ RecordUndo(c)
  BY <1>1, <1>8 DEF CheckUndo, RestoreRow, DeletePoolItems, ReopenPoolItem, RecordUndo, Fail, Return, Goto
<1>9. CASE DeleteRow(c) \/ DeleteItemsForUserWord(c)
  BY <1>1, <1>9 DEF DeleteRow, DeleteItemsForUserWord, Fail, Return, Goto
<1> QED BY <1>2, <1>3, <1>4, <1>5, <1>6, <1>7, <1>8, <1>9 DEF Statement, OpenStep

(***************************************************************************)
(* Any number of requests create the pool of a day at once, for the lock   *)
(* before CreatePoolWithItems locks nothing: whoever comes second returns  *)
(* the pool that is there, and never an error.                             *)
(***************************************************************************)
THEOREM CreationRacesAreHarmless == Spec => CreationRaceIsHarmless
<1>1. IInv /\ [Next]_vars => [\A c \in Callers : At(c, "create") => req'[c].at # "failed"]_vars
  <2> SUFFICES ASSUME IInv, Next, NEW c \in Callers, At(c, "create")
               PROVE  req'[c].at # "failed"
    OBVIOUS
  <2>1. req \in [Callers -> Request] /\ req[c].at = "create" /\ Idle.at = "idle"
    BY IdleIsSound DEF IInv, TypeOK, At
  <2>2. req[c].kind = "open"
    BY <2>1 DEF IInv, Sound, KeepsToSteps, Resting
  <2>3. ASSUME NEW d \in Callers, d # c, Begin(d) \/ Statement(d) \/ Crash(d)
        PROVE  req'[c].at # "failed"
    BY <2>1, <2>3, OthersStay DEF IInv
  <2>4. CASE Crash(c) \/ CreatePoolWithItems(c)
    BY <2>1, <2>4 DEF Crash, CreatePoolWithItems, Return
  <2>5. ~Begin(c)
    BY <2>1 DEF Begin, BeginOpen, BeginReview, BeginHint, BeginUndo, BeginDelete, Start
  <2>6. Statement(c) => CreatePoolWithItems(c)
    BY <2>1 DEF Statement, OpenStep, ReadPool, ReadDue, Reread, ReadNewPool, IncrementScheduledCounts, GetLastOrdinal,
                AppendPoolItem, GetPoolItem, HasRecordedHintStep, GetRow, Upsert, MarkPoolItemCompleted, RecordEvent,
                CheckUndo, RestoreRow, DeletePoolItems, ReopenPoolItem, RecordUndo, DeleteRow,
                DeleteItemsForUserWord, At
  <2>7. ASSUME NEW w \in Words, AddWord(w)
        PROVE  req'[c].at # "failed"
    BY <2>1, <2>7 DEF AddWord
  <2> QED BY <2>3, <2>4, <2>5, <2>6, <2>7 DEF Next
<1> QED BY <1>1, InvariantHolds, PTL DEF Spec, CreationRaceIsHarmless
=============================================================================
