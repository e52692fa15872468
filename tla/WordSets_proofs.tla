-------------------------- MODULE WordSets_proofs --------------------------
(***************************************************************************)
(* Proofs about the word sets, for any number of callers, sets and words   *)
(* and any mix of requests: whatever requests overlap, and wherever one    *)
(* fails or is cut off, every card is shown in one live set.               *)
(***************************************************************************)
EXTENDS WordSets, TLAPS

\* There is at most one default set, and no set without it.
DefaultIsFirst ==
  /\ \A s, t \in SetIds : IsDefault(s) /\ IsDefault(t) => s = t
  /\ \A s \in SetIds : Live(s) => DefaultExists

\* What a request may rely on at the statement it is at, although other requests
\* have run since it read: the default set it has ensured is there, and the row it
\* is about to write back has the default flag the set has.
RequestIsSound(c) ==
  LET r == req[c] IN
  /\ r.kind = "create" => r.value \in WordSet /\ ~r.value.default
  /\ r.kind = "create" /\ r.at \in {"checkSole", "insertSet"} => DefaultExists
  /\ r.at \in {"backfill", "readActive", "activateDefault"} => DefaultExists
  /\ r.at = "insertSet" => r.kind = "create"
  /\ r.at = "writeSet" => r.kind # "create"
  /\ r.at = "getSet" => r.set \in SetIds /\ (r.kind = "update" => r.value \in WordSet)
  /\ r.at \in {"checkSole", "writeSet"} /\ r.kind # "create" =>
       /\ r.set \in SetIds /\ r.value \in WordSet /\ sets[r.set] # Unborn
       /\ Live(r.set) => r.value.default = sets[r.set].default

IInv == TypeOK /\ DefaultIsFirst /\ \A c \in Callers : RequestIsSound(c)

---------------------------------------------------------------------------
(* Sets *)

(***************************************************************************)
(* A set is live when it is a WordSet; one that is unborn or deleted is    *)
(* none.                                                                   *)
(***************************************************************************)
LEMMA LiveSets ==
  /\ \A x \in WordSet : x.mode \in Modes /\ x.default \in BOOLEAN /\ x # Unborn /\ x # Deleted
  /\ Unborn.mode \notin Modes /\ Deleted.mode \notin Modes /\ Deleted # Unborn
  /\ \A mode \in Modes, default \in BOOLEAN :
       /\ [mode |-> mode, default |-> default] \in WordSet
       /\ [mode |-> mode, default |-> default].mode = mode
       /\ [mode |-> mode, default |-> default].default = default
BY DEF WordSet, Modes, Unborn, Deleted

LEMMA DefaultIsLive ==
  ASSUME DefaultExists
  PROVE  DefaultSet \in SetIds /\ IsDefault(DefaultSet) /\ Live(DefaultSet)
BY DEF DefaultExists, DefaultSet, IsDefault

\* How the sets may change under a request that has read them: a default set stays,
\* no id is born twice, and the default flag of a set never changes.
SetsMove ==
  /\ sets' \in [SetIds -> WordSet \cup {Unborn, Deleted}]
  /\ DefaultExists => DefaultExists'
  /\ \A s \in SetIds : sets[s] # Unborn =>
       /\ sets'[s] # Unborn
       /\ sets'[s].mode \in Modes => sets[s].mode \in Modes /\ sets'[s].default = sets[s].default

LEMMA SameSetsMove ==
  ASSUME TypeOK, UNCHANGED sets
  PROVE  SetsMove
BY DEF TypeOK, SetsMove, DefaultExists, IsDefault, Live

LEMMA OthersStaySound ==
  ASSUME SetsMove, NEW c, RequestIsSound(c), req'[c] = req[c]
  PROVE  RequestIsSound(c)'
<1>1. \A s \in SetIds : sets[s] # Unborn /\ (Live(s) => req[c].value.default = sets[s].default) =>
        sets'[s] # Unborn /\ (Live(s)' => req[c].value.default = sets'[s].default)
  BY DEF SetsMove, Live
<1> QED BY <1>1 DEF RequestIsSound, SetsMove

---------------------------------------------------------------------------
(* Requests *)

OthersWait(c) == \A b \in Callers \ {c} : req'[b] = req[b]

LEMMA GotoMoves ==
  ASSUME TypeOK, NEW c \in Callers, NEW step \in Steps, Goto(c, step)
  PROVE  /\ req' \in [Callers -> Request] /\ OthersWait(c)
         /\ req'[c].at = step /\ req'[c].kind = req[c].kind /\ req'[c].set = req[c].set
         /\ req'[c].word = req[c].word /\ req'[c].value = req[c].value
<1>1. req[c] \in Request /\ req' = [req EXCEPT ![c] = [req[c] EXCEPT !.at = step]]
  BY DEF TypeOK, Goto
<1>2. [req[c] EXCEPT !.at = step] \in Request
  BY <1>1 DEF Request
<1> QED BY <1>1, <1>2 DEF TypeOK, OthersWait, Request

LEMMA IdleRequest ==
  Idle = [kind |-> "ensure", at |-> "idle", set |-> Null, word |-> Null, value |-> Unborn, doomed |-> {}]
    /\ Idle \in Request
BY DEF Idle, Request, Kinds, Steps

LEMMA ReturnEnds ==
  ASSUME TypeOK, NEW c \in Callers, Return(c)
  PROVE  req' \in [Callers -> Request] /\ OthersWait(c) /\ RequestIsSound(c)'
<1>1. req' = [req EXCEPT ![c] = Idle] /\ req'[c] = Idle
  BY DEF TypeOK, Return
<1>2. Idle.kind = "ensure" /\ Idle.at = "idle"
  BY IdleRequest
<1>3. RequestIsSound(c)'
  BY <1>1, <1>2 DEF RequestIsSound
<1> QED BY <1>1, <1>3, IdleRequest DEF TypeOK, OthersWait

(***************************************************************************)
(* A step of a caller keeps the invariant when it keeps the types, moves   *)
(* the sets as above, and leaves its own request sound.                    *)
(***************************************************************************)
LEMMA StepKeeps ==
  ASSUME IInv, NEW c \in Callers, SetsMove, DefaultIsFirst', UNCHANGED requests,
         rows' \in [Words -> {s \in SetIds : Live(s)'} \cup {Null, NoRow}],
         active' \in {s \in SetIds : Live(s)'} \cup {Null},
         req' \in [Callers -> Request], OthersWait(c), RequestIsSound(c)'
  PROVE  IInv'
<1>1. TypeOK'
  BY DEF IInv, TypeOK, SetsMove
<1>2. \A b \in Callers : RequestIsSound(b)'
  <2> TAKE b \in Callers
  <2>1. CASE b = c
    BY <2>1
  <2>2. CASE b # c
    BY <2>2, OthersStaySound DEF IInv, OthersWait
  <2> QED BY <2>1, <2>2
<1> QED BY <1>1, <1>2 DEF IInv

\* The step of a caller that writes no table.
LEMMA ReadKeeps ==
  ASSUME IInv, NEW c \in Callers, UNCHANGED <<sets, rows, active>>, UNCHANGED requests,
         req' \in [Callers -> Request], OthersWait(c), RequestIsSound(c)'
  PROVE  IInv'
<1>1. SetsMove
  BY SameSetsMove DEF IInv
<1>2. DefaultIsFirst'
  BY DEF IInv, DefaultIsFirst, DefaultExists, IsDefault, Live
<1>3. /\ rows' \in [Words -> {s \in SetIds : Live(s)'} \cup {Null, NoRow}]
      /\ active' \in {s \in SetIds : Live(s)'} \cup {Null}
  BY DEF IInv, TypeOK, Live
<1> QED BY <1>1, <1>2, <1>3, StepKeeps

\* The step of a caller that writes rows or settings, and no set.
LEMMA WriteRowsKeeps ==
  ASSUME IInv, NEW c \in Callers, UNCHANGED sets, UNCHANGED requests,
         rows' \in [Words -> {s \in SetIds : Live(s)} \cup {Null, NoRow}],
         active' \in {s \in SetIds : Live(s)} \cup {Null},
         req' \in [Callers -> Request], OthersWait(c), RequestIsSound(c)'
  PROVE  IInv'
<1>1. SetsMove
  BY SameSetsMove DEF IInv
<1>2. DefaultIsFirst'
  BY DEF IInv, DefaultIsFirst, DefaultExists, IsDefault, Live
<1>3. /\ rows' \in [Words -> {s \in SetIds : Live(s)'} \cup {Null, NoRow}]
      /\ active' \in {s \in SetIds : Live(s)'} \cup {Null}
  BY DEF Live
<1> QED BY <1>1, <1>2, <1>3, StepKeeps

LEMMA FailKeeps ==
  ASSUME IInv, NEW c \in Callers, Fail(c), UNCHANGED requests
  PROVE  IInv'
<1>1. Return(c) /\ UNCHANGED <<sets, rows, active>>
  BY DEF Fail
<1> QED BY <1>1, ReturnEnds, ReadKeeps DEF IInv

---------------------------------------------------------------------------
(* EnsureDefault *)

LEMMA SetsUnchanged ==
  ASSUME UNCHANGED sets
  PROVE  /\ DefaultExists' <=> DefaultExists
         /\ \A s : Live(s)' <=> Live(s)
BY DEF DefaultExists, IsDefault, Live

LEMMA AfterEnsureMoves ==
  ASSUME IInv, NEW c \in Callers, DefaultExists, UNCHANGED sets, AfterEnsure(c)
  PROVE  req' \in [Callers -> Request] /\ OthersWait(c) /\ RequestIsSound(c)'
<1> USE DEF IInv
<1>1. DefaultExists'
  BY SetsUnchanged
<1>2. RequestIsSound(c) /\ req[c] \in Request
  BY DEF TypeOK
<1>3. CASE req[c].kind = "create"
  <2>1. Goto(c, "checkSole")
    BY <1>3 DEF AfterEnsure
  <2>2. "checkSole" \in Steps
    BY DEF Steps
  <2> QED BY <2>1, <2>2, <1>1, <1>2, <1>3, GotoMoves DEF RequestIsSound
<1>4. CASE req[c].kind = "answer"
  <2>1. Goto(c, "insertRow")
    BY <1>4 DEF AfterEnsure
  <2>2. "insertRow" \in Steps
    BY DEF Steps
  <2> QED BY <2>1, <2>2, <1>1, <1>2, <1>4, GotoMoves DEF RequestIsSound
<1>5. CASE req[c].kind = "add"
  <2>1. req' = [req EXCEPT ![c].at = "assign", ![c].set = DefaultSet]
    BY <1>5 DEF AfterEnsure
  <2>2. DefaultSet \in SetIds
    BY DefaultIsLive
  <2> DEFINE r == [req[c] EXCEPT !.at = "assign", !.set = DefaultSet]
  <2>3. r \in Request
    BY <1>2, <2>2 DEF Request, Steps
  <2>4. r.at = "assign" /\ r.kind = "add"
    BY <1>2, <1>5 DEF Request
  <2>5. req' = [req EXCEPT ![c] = r]
    BY <2>1 DEF TypeOK
  <2> HIDE DEF r
  <2>6. req'[c] = r /\ req' \in [Callers -> Request] /\ OthersWait(c)
    BY <2>3, <2>5 DEF TypeOK, OthersWait
  <2>7. RequestIsSound(c)'
    BY <2>4, <2>6 DEF RequestIsSound
  <2> QED BY <2>6, <2>7
<1>6. CASE req[c].kind \notin {"create", "answer", "add"}
  <2>1. Return(c)
    BY <1>6 DEF AfterEnsure
  <2> QED BY <2>1, ReturnEnds
<1> QED BY <1>3, <1>4, <1>5, <1>6

(***************************************************************************)
(* A new set gets a fresh id: nothing has read it, nothing refers to it.   *)
(***************************************************************************)
LEMMA InsertMoves ==
  ASSUME TypeOK, DefaultIsFirst, NEW s \in SetIds, Fresh(s), NEW value \in WordSet,
         sets' = [sets EXCEPT ![s] = value], UNCHANGED <<rows, active>>,
         value.default <=> ~DefaultExists
  PROVE  /\ SetsMove /\ DefaultIsFirst' /\ DefaultExists'
         /\ rows' \in [Words -> {t \in SetIds : Live(t)'} \cup {Null, NoRow}]
         /\ active' \in {t \in SetIds : Live(t)'} \cup {Null}
<1>1. /\ sets[s] = Unborn /\ sets \in [SetIds -> WordSet \cup {Unborn, Deleted}]
      /\ value.mode \in Modes /\ value # Unborn /\ value.default \in BOOLEAN
  BY LiveSets DEF Fresh, TypeOK
<1>2. sets'[s] = value /\ \A t \in SetIds \ {s} : sets'[t] = sets[t]
  BY <1>1
<1>3. ~Live(s) /\ \A t \in SetIds : Live(t)' <=> Live(t) \/ t = s
  BY <1>1, <1>2, LiveSets DEF Live
<1>4. \A t \in SetIds : IsDefault(t)' <=> IsDefault(t) \/ (t = s /\ ~DefaultExists)
  BY <1>1, <1>2, <1>3 DEF IsDefault
<1>5. DefaultExists'
  BY <1>4 DEF DefaultExists
<1>6. SetsMove
  BY <1>1, <1>2, <1>5 DEF SetsMove
<1>7. DefaultIsFirst'
  BY <1>4, <1>5 DEF DefaultIsFirst, DefaultExists
<1> QED BY <1>3, <1>5, <1>6, <1>7 DEF TypeOK

LEMMA EnsureKeeps ==
  ASSUME IInv, NEW c \in Callers, EnsureDefaultStep(c), UNCHANGED requests
  PROVE  IInv'
<1> USE DEF IInv
<1> {"backfill", "insertDefault", "readActive", "activateDefault"} \subseteq Steps
  BY DEF Steps
<1>1. RequestIsSound(c)
  OBVIOUS
<1>2. CASE GetDefault(c)
  <2>1. UNCHANGED <<sets, rows, active>> /\ Goto(c, IF DefaultExists THEN "backfill" ELSE "insertDefault")
    BY <1>2 DEF GetDefault
  <2>2. CASE DefaultExists
    <3>1. DefaultExists' /\ Goto(c, "backfill")
      BY <2>1, <2>2, SetsUnchanged
    <3>2. RequestIsSound(c)'
      BY <3>1, <1>1, GotoMoves DEF RequestIsSound
    <3> QED BY <2>1, <3>1, <3>2, GotoMoves, ReadKeeps
  <2>3. CASE ~DefaultExists
    <3>1. Goto(c, "insertDefault")
      BY <2>1, <2>3
    <3>2. RequestIsSound(c)'
      BY <3>1, <1>1, GotoMoves DEF RequestIsSound
    <3> QED BY <2>1, <3>1, <3>2, GotoMoves, ReadKeeps
  <2> QED BY <2>2, <2>3
<1>3. CASE InsertDefault(c)
  <2>1. CASE DefaultExists \/ NewWordsTakenBesides(Null)
    BY <1>3, <2>1, FailKeeps DEF InsertDefault
  <2>2. CASE ~(DefaultExists \/ NewWordsTakenBesides(Null))
    <3>1. PICK s \in SetIds :
            /\ Fresh(s) /\ sets' = [sets EXCEPT ![s] = [mode |-> "new_words", default |-> TRUE]]
            /\ Goto(c, "backfill") /\ UNCHANGED <<rows, active>>
      BY <1>3, <2>2 DEF InsertDefault
    <3>2. /\ [mode |-> "new_words", default |-> TRUE] \in WordSet
          /\ [mode |-> "new_words", default |-> TRUE].default = TRUE
      BY LiveSets DEF Modes
    <3>3. /\ SetsMove /\ DefaultIsFirst' /\ DefaultExists'
          /\ rows' \in [Words -> {t \in SetIds : Live(t)'} \cup {Null, NoRow}]
          /\ active' \in {t \in SetIds : Live(t)'} \cup {Null}
      BY <2>2, <3>1, <3>2, InsertMoves
    <3>4. RequestIsSound(c)'
      BY <1>1, <3>1, <3>3, GotoMoves DEF RequestIsSound
    <3> QED BY <3>1, <3>3, <3>4, GotoMoves, StepKeeps
  <2> QED BY <2>1, <2>2
<1>4. CASE BackfillDefaultWordSet(c)
  <2>1. /\ At(c, "backfill") /\ Goto(c, "readActive") /\ UNCHANGED <<sets, active>>
        /\ rows' = [w \in Words |-> IF rows[w] = Null THEN DefaultSet ELSE rows[w]]
    BY <1>4 DEF BackfillDefaultWordSet
  <2>2. DefaultExists /\ DefaultExists'
    BY <1>1, <2>1, SetsUnchanged DEF At, RequestIsSound
  <2>3. rows' \in [Words -> {t \in SetIds : Live(t)} \cup {Null, NoRow}]
    BY <2>1, <2>2, DefaultIsLive DEF TypeOK
  <2>4. RequestIsSound(c)'
    BY <1>1, <2>1, <2>2, GotoMoves DEF RequestIsSound
  <2>5. active' \in {s \in SetIds : Live(s)} \cup {Null}
    BY <2>1 DEF TypeOK
  <2> QED BY <2>1, <2>3, <2>4, <2>5, GotoMoves, WriteRowsKeeps
<1>5. CASE ReadActive(c)
  <2>1. /\ At(c, "readActive") /\ UNCHANGED <<sets, rows, active>>
        /\ IF active = Null THEN Goto(c, "activateDefault") ELSE AfterEnsure(c)
    BY <1>5 DEF ReadActive
  <2>2. DefaultExists /\ DefaultExists'
    BY <1>1, <2>1, SetsUnchanged DEF At, RequestIsSound
  <2>3. CASE active = Null
    <3>1. Goto(c, "activateDefault")
      BY <2>1, <2>3
    <3>2. RequestIsSound(c)'
      BY <1>1, <2>2, <3>1, GotoMoves DEF RequestIsSound
    <3> QED BY <2>1, <3>1, <3>2, GotoMoves, ReadKeeps
  <2>4. CASE active # Null
    BY <2>1, <2>2, <2>4, AfterEnsureMoves, ReadKeeps
  <2> QED BY <2>3, <2>4
<1>6. CASE ActivateDefault(c)
  <2>1. /\ At(c, "activateDefault") /\ UNCHANGED <<sets, rows>> /\ active' = DefaultSet /\ AfterEnsure(c)
    BY <1>6 DEF ActivateDefault
  <2>2. DefaultExists
    BY <1>1, <2>1 DEF At, RequestIsSound
  <2>3. active' \in {t \in SetIds : Live(t)} \cup {Null}
    BY <2>1, <2>2, DefaultIsLive
  <2>4. rows' \in [Words -> {s \in SetIds : Live(s)} \cup {Null, NoRow}]
    BY <2>1 DEF TypeOK
  <2> QED BY <2>1, <2>2, <2>3, <2>4, AfterEnsureMoves, WriteRowsKeeps
<1> QED BY <1>2, <1>3, <1>4, <1>5, <1>6 DEF EnsureDefaultStep

---------------------------------------------------------------------------
(* Create, Update, UpdatePreferences *)

LEMMA CheckSoleKeeps ==
  ASSUME IInv, NEW c \in Callers, CheckSole(c), UNCHANGED requests
  PROVE  IInv'
<1> USE DEF IInv
<1>1. At(c, "checkSole") /\ UNCHANGED <<sets, rows, active>> /\ RequestIsSound(c)
  BY DEF CheckSole
<1>2. CASE Return(c)
  BY <1>1, <1>2, ReturnEnds, ReadKeeps
<1>3. CASE req[c].kind = "create" /\ Goto(c, "insertSet")
  <2>1. "insertSet" \in Steps
    BY DEF Steps
  <2>2. DefaultExists'
    BY <1>1, <1>3, SetsUnchanged DEF At, RequestIsSound
  <2>3. RequestIsSound(c)'
    BY <1>1, <1>3, <2>1, <2>2, GotoMoves DEF RequestIsSound
  <2> QED BY <1>1, <1>3, <2>1, <2>3, GotoMoves, ReadKeeps
<1>4. CASE req[c].kind # "create" /\ Goto(c, "writeSet")
  <2>1. "writeSet" \in Steps
    BY DEF Steps
  <2>2. RequestIsSound(c)'
    BY <1>1, <1>4, <2>1, GotoMoves, SetsUnchanged DEF RequestIsSound, At
  <2> QED BY <1>1, <1>4, <2>1, <2>2, GotoMoves, ReadKeeps
<1>5. Return(c) \/ Goto(c, IF req[c].kind = "create" THEN "insertSet" ELSE "writeSet")
  BY DEF CheckSole
<1> QED BY <1>2, <1>3, <1>4, <1>5

LEMMA InsertSetKeeps ==
  ASSUME IInv, NEW c \in Callers, InsertSet(c), UNCHANGED requests
  PROVE  IInv'
<1> USE DEF IInv
<1>1. At(c, "insertSet") /\ RequestIsSound(c)
  BY DEF InsertSet
<1>2. req[c].value \in WordSet /\ ~req[c].value.default /\ DefaultExists
  BY <1>1 DEF RequestIsSound, At
<1>3. CASE Fail(c)
  BY <1>3, FailKeeps
<1>4. CASE ~Fail(c)
  <2>1. PICK s \in SetIds :
          Fresh(s) /\ sets' = [sets EXCEPT ![s] = req[c].value] /\ Return(c) /\ UNCHANGED <<rows, active>>
    BY <1>4 DEF InsertSet
  <2>2. /\ SetsMove /\ DefaultIsFirst'
        /\ rows' \in [Words -> {t \in SetIds : Live(t)'} \cup {Null, NoRow}]
        /\ active' \in {t \in SetIds : Live(t)'} \cup {Null}
    BY <1>2, <2>1, InsertMoves
  <2> QED BY <2>1, <2>2, ReturnEnds, StepKeeps
<1> QED BY <1>3, <1>4

(***************************************************************************)
(* Update and UpdatePreferences keep the default flag of the row they have *)
(* read: only the mode of the row is given.                                *)
(***************************************************************************)
LEMMA GetSetKeeps ==
  ASSUME IInv, NEW c \in Callers, GetSet(c), UNCHANGED requests
  PROVE  IInv'
<1> USE DEF IInv
<1> DEFINE s == req[c].set
           read == sets[s]
           given == req[c].value
           next(step, value) == req' = [req EXCEPT ![c].at = step, ![c].value = value]
<1>1. /\ At(c, "getSet") /\ UNCHANGED <<sets, rows, active>> /\ RequestIsSound(c) /\ req[c] \in Request
      /\ s \in SetIds /\ (req[c].kind = "update" => given \in WordSet)
  BY DEF GetSet, At, RequestIsSound, TypeOK
<1>2. ASSUME NEW step \in {"checkSole", "writeSet"}, NEW value \in WordSet, next(step, value),
             Live(s), value.default = read.default, req[c].kind \in {"update", "prefer"}
      PROVE  IInv'
  <2> DEFINE r == [req[c] EXCEPT !.at = step, !.value = value]
  <2>1. r \in Request /\ r.at = step /\ r.value = value /\ r.kind = req[c].kind /\ r.set = s
    BY <1>1 DEF Request, Steps
  <2>2. req' = [req EXCEPT ![c] = r]
    BY <1>2 DEF TypeOK
  <2> HIDE DEF r
  <2>3. req'[c] = r /\ req' \in [Callers -> Request] /\ OthersWait(c)
    BY <2>1, <2>2 DEF TypeOK, OthersWait
  <2>4. sets'[s] # Unborn /\ sets'[s] = read
    BY <1>1, <1>2, LiveSets DEF Live
  <2>5. RequestIsSound(c)'
    BY <1>1, <1>2, <2>1, <2>3, <2>4 DEF RequestIsSound
  <2> QED BY <1>1, <2>3, <2>5, ReadKeeps
<1>3. CASE ~Live(s)
  <2>1. Return(c)
    BY <1>3 DEF GetSet
  <2> QED BY <1>1, <2>1, ReturnEnds, ReadKeeps
<1>4. CASE Live(s) /\ req[c].kind = "update"
  <2> DEFINE step == IF given.mode = "new_words" /\ read.mode = "custom" THEN "checkSole" ELSE "writeSet"
             value == [read EXCEPT !.mode = given.mode]
  <2>1. next(step, value)
    BY <1>4 DEF GetSet
  <2>2. read \in WordSet /\ given \in WordSet
    BY <1>1, <1>4, LiveSets DEF Live, TypeOK
  <2>3. value \in WordSet /\ value.default = read.default
    BY <2>2 DEF WordSet
  <2>4. step \in {"checkSole", "writeSet"}
    OBVIOUS
  <2> HIDE DEF step, value
  <2> QED BY <1>2, <1>4, <2>1, <2>3, <2>4
<1>5. CASE Live(s) /\ req[c].kind = "prefer"
  <2>1. next("writeSet", read)
    BY <1>5 DEF GetSet
  <2>2. read \in WordSet
    BY <1>1, <1>5, LiveSets DEF Live, TypeOK
  <2> QED BY <1>2, <1>5, <2>1, <2>2
<1>6. CASE Live(s) /\ req[c].kind \notin {"update", "prefer"}
  <2>1. Return(c) \/ Goto(c, "readSettings")
    BY <1>6 DEF GetSet
  <2>2. CASE Return(c)
    BY <1>1, <2>2, ReturnEnds, ReadKeeps
  <2>3. CASE Goto(c, "readSettings")
    <3>1. "readSettings" \in Steps
      BY DEF Steps
    <3>2. RequestIsSound(c)'
      BY <1>1, <2>3, <3>1, GotoMoves DEF RequestIsSound
    <3> QED BY <1>1, <2>3, <3>1, <3>2, GotoMoves, ReadKeeps
  <2> QED BY <2>1, <2>2, <2>3
<1> QED BY <1>3, <1>4, <1>5, <1>6

(***************************************************************************)
(* The row written back may be stale, but not in its default flag.         *)
(***************************************************************************)
LEMMA WriteSetKeeps ==
  ASSUME IInv, NEW c \in Callers, WriteSet(c), UNCHANGED requests
  PROVE  IInv'
<1> USE DEF IInv
<1> DEFINE s == req[c].set
           value == req[c].value
<1>1. /\ At(c, "writeSet") /\ Return(c) /\ UNCHANGED <<rows, active>> /\ RequestIsSound(c)
      /\ sets' = sets \/ (Live(s) /\ sets' = [sets EXCEPT ![s] = value])
  BY DEF WriteSet
<1>2. CASE sets' = sets
  BY <1>1, <1>2, ReturnEnds, ReadKeeps
<1>3. CASE Live(s) /\ sets' = [sets EXCEPT ![s] = value]
  <2>1. s \in SetIds /\ value \in WordSet /\ sets[s] # Unborn /\ value.default = sets[s].default
    BY <1>1, <1>3 DEF RequestIsSound, At
  <2>2. sets'[s] = value /\ \A t \in SetIds \ {s} : sets'[t] = sets[t]
    BY <1>3, <2>1 DEF TypeOK
  <2>3. value.mode \in Modes /\ value # Unborn
    BY <2>1, LiveSets
  <2>4. \A t : (Live(t)' <=> Live(t)) /\ (IsDefault(t)' <=> IsDefault(t))
    BY <1>3, <2>1, <2>2, <2>3 DEF Live, IsDefault
  <2>5. DefaultExists' <=> DefaultExists
    BY <2>4 DEF DefaultExists
  <2>6. SetsMove
    <3>1. sets' \in [SetIds -> WordSet \cup {Unborn, Deleted}]
      BY <1>3, <2>1 DEF TypeOK
    <3> QED BY <1>3, <2>1, <2>2, <2>3, <2>5, <3>1 DEF SetsMove, Live
  <2>7. DefaultIsFirst'
    BY <2>4, <2>5 DEF DefaultIsFirst
  <2>8. /\ rows' \in [Words -> {t \in SetIds : Live(t)'} \cup {Null, NoRow}]
        /\ active' \in {t \in SetIds : Live(t)'} \cup {Null}
    BY <1>1, <2>4 DEF TypeOK
  <2> QED BY <1>1, <2>6, <2>7, <2>8, ReturnEnds, StepKeeps
<1> QED BY <1>1, <1>2, <1>3

---------------------------------------------------------------------------
(* Delete, SetActive *)

(***************************************************************************)
(* A statement that reads or locks, and goes on or ends: most of the steps.*)
(***************************************************************************)
LEMMA GoingOnKeeps ==
  ASSUME IInv, NEW c \in Callers, UNCHANGED <<sets, rows, active>>, UNCHANGED requests,
         NEW step \in {"readSettings", "saveActive", "findDefault", "deleteRows", "getDefault",
                       "assign", "insertRow", "resolve"},
         Goto(c, step)
  PROVE  IInv'
<1>1. step \in Steps
  BY DEF Steps
<1>2. RequestIsSound(c) /\ TypeOK
  BY DEF IInv
<1>3. DefaultExists' <=> DefaultExists
  BY SetsUnchanged
<1>4. RequestIsSound(c)'
  BY <1>1, <1>2, <1>3, GotoMoves DEF RequestIsSound
<1> QED BY <1>1, <1>2, <1>4, GotoMoves, ReadKeeps

LEMMA SaveActiveKeeps ==
  ASSUME IInv, NEW c \in Callers, SaveActive(c), UNCHANGED requests
  PROVE  IInv'
<1> USE DEF IInv
<1> DEFINE s == IF req[c].kind = "activate" THEN req[c].set ELSE DefaultSet
<1>1. /\ UNCHANGED <<sets, rows>> /\ (Return(c) \/ Goto(c, "deleteRows"))
      /\ active' = active \/ (Live(s) /\ active' = s)
  BY DEF SaveActive
<1>2. active' \in {t \in SetIds : Live(t)} \cup {Null}
  BY <1>1 DEF TypeOK, Live
<1>3. rows' \in [Words -> {t \in SetIds : Live(t)} \cup {Null, NoRow}]
  BY <1>1 DEF TypeOK
<1>4. CASE Return(c)
  BY <1>1, <1>2, <1>3, <1>4, ReturnEnds, WriteRowsKeeps
<1>5. CASE Goto(c, "deleteRows")
  <2>1. "deleteRows" \in Steps
    BY DEF Steps
  <2>2. RequestIsSound(c)'
    BY <1>1, <1>5, <2>1, GotoMoves, SetsUnchanged DEF RequestIsSound
  <2> QED BY <1>1, <1>2, <1>3, <1>5, <2>1, <2>2, GotoMoves, WriteRowsKeeps
<1> QED BY <1>1, <1>4, <1>5

LEMMA DeleteRowsKeeps ==
  ASSUME IInv, NEW c \in Callers, DeleteRows(c), UNCHANGED requests
  PROVE  IInv'
<1> USE DEF IInv
<1> DEFINE r == [req[c] EXCEPT !.at = "deleteSet", !.doomed = {w \in Words : rows[w] = req[c].set}]
<1>1. /\ UNCHANGED <<sets, rows, active>> /\ RequestIsSound(c) /\ req[c] \in Request
      /\ req' = [req EXCEPT ![c] = r]
  BY DEF DeleteRows, TypeOK
<1>2. r \in Request /\ r.at = "deleteSet" /\ r.kind = req[c].kind /\ r.value = req[c].value
  BY <1>1 DEF Request, Steps
<1> HIDE DEF r
<1>3. req'[c] = r /\ req' \in [Callers -> Request] /\ OthersWait(c)
  BY <1>1, <1>2 DEF TypeOK, OthersWait
<1>4. RequestIsSound(c)'
  BY <1>1, <1>2, <1>3 DEF RequestIsSound
<1> QED BY <1>1, <1>3, <1>4, ReadKeeps

(***************************************************************************)
(* A set that is deleted is not the default one, and whatever still refers *)
(* to it is set to NULL in the same statement.                             *)
(***************************************************************************)
LEMMA DeleteSetKeeps ==
  ASSUME IInv, NEW c \in Callers, DeleteSet(c), UNCHANGED requests
  PROVE  IInv'
<1> USE DEF IInv
<1> DEFINE s == req[c].set
           left(t) == IF t = s THEN Null ELSE t
<1>1. CASE Fail(c)
  BY <1>1, FailKeeps
<1>2. CASE ~Fail(c)
  <2>1. /\ Live(s) /\ ~sets[s].default /\ sets' = [sets EXCEPT ![s] = Deleted] /\ Return(c)
        /\ rows' = [w \in Words |-> IF w \in req[c].doomed THEN NoRow ELSE left(rows[w])]
        /\ active' = left(active)
    BY <1>2 DEF DeleteSet
  <2>2. s \in SetIds /\ sets'[s] = Deleted /\ \A t \in SetIds \ {s} : sets'[t] = sets[t]
    BY <2>1 DEF Live, TypeOK
  <2>3. \A t : Live(t)' <=> Live(t) /\ t # s
    BY <2>2, LiveSets DEF Live
  <2>4. \A t \in SetIds : IsDefault(t)' <=> IsDefault(t)
    BY <2>1, <2>2, <2>3 DEF IsDefault
  <2>5. DefaultExists' <=> DefaultExists
    BY <2>4 DEF DefaultExists
  <2>6. SetsMove
    <3>1. sets' \in [SetIds -> WordSet \cup {Unborn, Deleted}]
      BY <2>1 DEF TypeOK
    <3> QED BY <2>2, <2>5, <3>1, LiveSets DEF SetsMove
  <2>7. DefaultIsFirst'
    BY <2>3, <2>4, <2>5 DEF DefaultIsFirst
  <2>8. rows' \in [Words -> {t \in SetIds : Live(t)'} \cup {Null, NoRow}]
    BY <2>1, <2>3 DEF TypeOK
  <2>9. active' \in {t \in SetIds : Live(t)'} \cup {Null}
    BY <2>1, <2>3 DEF TypeOK
  <2> QED BY <2>1, <2>6, <2>7, <2>8, <2>9, ReturnEnds, StepKeeps
<1> QED BY <1>1, <1>2

---------------------------------------------------------------------------
(* Rows *)

LEMMA InsertRowKeeps ==
  ASSUME IInv, NEW c \in Callers, InsertRow(c), UNCHANGED requests
  PROVE  IInv'
<1> USE DEF IInv
<1> DEFINE w == req[c].word
<1>1. /\ UNCHANGED <<sets, active>> /\ rows' = [rows EXCEPT ![w] = IF @ = NoRow THEN TriggerSet ELSE @]
      /\ Return(c) \/ \E step \in {"assign", "resolve"} : Goto(c, step)
  BY DEF InsertRow
<1>2. TriggerSet \in {s \in SetIds : Live(s)} \cup {Null}
  BY DEF TriggerSet, NewWordsTakenBesides
<1>3. rows' \in [Words -> {s \in SetIds : Live(s)} \cup {Null, NoRow}]
  BY <1>1, <1>2 DEF TypeOK
<1>4. active' \in {s \in SetIds : Live(s)} \cup {Null}
  BY <1>1 DEF TypeOK
<1>5. CASE Return(c)
  BY <1>1, <1>3, <1>4, <1>5, ReturnEnds, WriteRowsKeeps
<1>6. ASSUME NEW step \in {"assign", "resolve"}, Goto(c, step)
      PROVE  IInv'
  <2>1. step \in Steps /\ RequestIsSound(c)
    BY DEF Steps
  <2>2. RequestIsSound(c)'
    BY <1>1, <1>6, <2>1, GotoMoves DEF RequestIsSound
  <2> QED BY <1>1, <1>3, <1>4, <1>6, <2>1, <2>2, GotoMoves, WriteRowsKeeps
<1> QED BY <1>1, <1>5, <1>6

LEMMA AssignKeeps ==
  ASSUME IInv, NEW c \in Callers, Assign(c), UNCHANGED requests
  PROVE  IInv'
<1> USE DEF IInv
<1> DEFINE w == req[c].word
           s == req[c].set
<1>1. /\ UNCHANGED <<sets, active>> /\ Return(c)
      /\ rows' = [rows EXCEPT ![w] = IF @ = NoRow \/ ~Live(s) THEN @ ELSE s]
  BY DEF Assign
<1>2. Live(s) => s \in {t \in SetIds : Live(t)}
  BY DEF Live
<1>3. rows' \in [Words -> {t \in SetIds : Live(t)} \cup {Null, NoRow}]
  BY <1>1, <1>2 DEF TypeOK
<1>4. active' \in {t \in SetIds : Live(t)} \cup {Null}
  BY <1>1 DEF TypeOK
<1> QED BY <1>1, <1>3, <1>4, ReturnEnds, WriteRowsKeeps

---------------------------------------------------------------------------
(* Beginning a request *)

LEMMA BeginKeeps ==
  ASSUME IInv, NEW c \in Callers, NEW r \in Request,
         req' = [req EXCEPT ![c] = r], UNCHANGED <<sets, rows, active>>, UNCHANGED requests,
         r.at \in {"getDefault", "getSet", "resolve", "insertRow", "assign"},
         r.kind = "create" => r.value \in WordSet /\ ~r.value.default,
         r.at = "getSet" => r.set \in SetIds /\ (r.kind = "update" => r.value \in WordSet)
  PROVE  IInv'
<1>1. req'[c] = r /\ req' \in [Callers -> Request] /\ OthersWait(c)
  BY DEF IInv, TypeOK, OthersWait
<1>2. RequestIsSound(c)'
  BY <1>1 DEF RequestIsSound
<1> QED BY <1>1, <1>2, ReadKeeps

LEMMA AnyBeginKeeps ==
  ASSUME IInv, NEW c \in Callers, Begin(c) \/ BeginEnsure(c), UNCHANGED requests
  PROVE  IInv'
<1> USE IdleRequest
<1> DEFINE given(mode) == [mode |-> mode, default |-> FALSE]
<1>1. ASSUME NEW mode \in Modes, BeginCreate(c, mode)
      PROVE  IInv'
  <2> DEFINE r == [Idle EXCEPT !.kind = "create", !.at = "getDefault", !.value = given(mode)]
  <2>1. given(mode) \in WordSet /\ ~given(mode).default
    BY LiveSets
  <2> HIDE DEF given
  <2>2. r \in Request /\ r.kind = "create" /\ r.at = "getDefault" /\ r.value = given(mode)
    BY <2>1 DEF Request, Kinds, Steps
  <2>3. req' = [req EXCEPT ![c] = r] /\ UNCHANGED <<sets, rows, active>>
    BY <1>1 DEF BeginCreate, Start, given
  <2> HIDE DEF r
  <2> QED BY <2>1, <2>2, <2>3, BeginKeeps
<1>2. ASSUME NEW s \in SetIds, NEW mode \in Modes, BeginUpdate(c, s, mode)
      PROVE  IInv'
  <2> DEFINE r == [Idle EXCEPT !.kind = "update", !.at = "getSet", !.set = s, !.value = given(mode)]
  <2>1. given(mode) \in WordSet
    BY LiveSets
  <2> HIDE DEF given
  <2>2. r \in Request /\ r.kind = "update" /\ r.at = "getSet" /\ r.value = given(mode) /\ r.set = s
    BY <2>1 DEF Request, Kinds, Steps
  <2>3. req' = [req EXCEPT ![c] = r] /\ UNCHANGED <<sets, rows, active>>
    BY <1>2 DEF BeginUpdate, Start, given
  <2> HIDE DEF r
  <2> QED BY <2>1, <2>2, <2>3, BeginKeeps
<1>3. ASSUME NEW s \in SetIds, NEW kind \in {"prefer", "delete", "activate"},
             Start(c, [Idle EXCEPT !.kind = kind, !.at = "getSet", !.set = s])
      PROVE  IInv'
  <2> DEFINE r == [Idle EXCEPT !.kind = kind, !.at = "getSet", !.set = s]
  <2>1. r \in Request /\ r.kind = kind /\ r.at = "getSet" /\ r.set = s
    BY DEF Request, Kinds, Steps
  <2>2. req' = [req EXCEPT ![c] = r] /\ UNCHANGED <<sets, rows, active>>
    BY <1>3 DEF Start
  <2> HIDE DEF r
  <2> QED BY <2>1, <2>2, BeginKeeps
<1>4. ASSUME NEW w \in Words, BeginAnswer(c, w)
      PROVE  IInv'
  <2> DEFINE r == [Idle EXCEPT !.kind = "answer", !.word = w, !.at = IF rows[w] = NoRow THEN "resolve" ELSE "insertRow"]
  <2>1. r \in Request /\ r.kind = "answer" /\ r.at \in {"resolve", "insertRow"}
    BY DEF Request, Kinds, Steps
  <2>2. req' = [req EXCEPT ![c] = r] /\ UNCHANGED <<sets, rows, active>>
    BY <1>4 DEF BeginAnswer, Start
  <2> HIDE DEF r
  <2> QED BY <2>1, <2>2, BeginKeeps
<1>5. ASSUME NEW w \in Words, NEW s \in SetIds \cup {Null}, BeginAdd(c, w, s)
      PROVE  IInv'
  <2> DEFINE r == [Idle EXCEPT !.kind = "add", !.at = "insertRow", !.word = w, !.set = s]
  <2>1. r \in Request /\ r.kind = "add" /\ r.at = "insertRow"
    BY DEF Request, Kinds, Steps
  <2>2. req' = [req EXCEPT ![c] = r] /\ UNCHANGED <<sets, rows, active>>
    BY <1>5 DEF BeginAdd, Start
  <2> HIDE DEF r
  <2> QED BY <2>1, <2>2, BeginKeeps
<1>6. ASSUME NEW w \in Words, NEW s \in SetIds, BeginMove(c, w, s)
      PROVE  IInv'
  <2> DEFINE r == [Idle EXCEPT !.kind = "move", !.at = "assign", !.word = w, !.set = s]
  <2>1. r \in Request /\ r.kind = "move" /\ r.at = "assign"
    BY DEF Request, Kinds, Steps
  <2>2. req' = [req EXCEPT ![c] = r] /\ UNCHANGED <<sets, rows, active>>
    BY <1>6 DEF BeginMove, Start
  <2> HIDE DEF r
  <2> QED BY <2>1, <2>2, BeginKeeps
<1>7. CASE BeginEnsure(c)
  <2> DEFINE r == [Idle EXCEPT !.at = "getDefault"]
  <2>1. r \in Request /\ r.kind = "ensure" /\ r.at = "getDefault"
    BY DEF Request, Kinds, Steps
  <2>2. req' = [req EXCEPT ![c] = r] /\ UNCHANGED <<sets, rows, active>>
    BY <1>7 DEF BeginEnsure
  <2> HIDE DEF r
  <2> QED BY <2>1, <2>2, BeginKeeps
<1>8. CASE Begin(c)
  BY <1>1, <1>2, <1>3, <1>4, <1>5, <1>6, <1>8
     DEF Begin, BeginUpdatePreferences, BeginDelete, BeginSetActive
<1> QED BY <1>7, <1>8

---------------------------------------------------------------------------
(* The invariant *)

LEMMA StatementKeeps ==
  ASSUME IInv, NEW c \in Callers, Statement(c), UNCHANGED requests
  PROVE  IInv'
<1>1. CASE ReadSettings(c)
  <2>1. /\ UNCHANGED <<sets, rows, active>>
        /\ \E step \in {"saveActive", "findDefault", "deleteRows"} : Goto(c, step)
    BY <1>1 DEF ReadSettings
  <2> QED BY <2>1, GoingOnKeeps
<1>2. CASE FindDefault(c)
  <2>1. UNCHANGED <<sets, rows, active>> /\ (Return(c) \/ Goto(c, "saveActive"))
    BY <1>2 DEF FindDefault
  <2>2. ASSUME Return(c) PROVE IInv'
    BY <2>1, <2>2, ReturnEnds, ReadKeeps DEF IInv
  <2> QED BY <2>1, <2>2, GoingOnKeeps
<1>3. CASE Resolve(c)
  <2>1. UNCHANGED <<sets, rows, active>>
    BY <1>3 DEF Resolve
  <2>2. CASE active = Null
    <3>1. Goto(c, "getDefault")
      BY <1>3, <2>2 DEF Resolve
    <3> QED BY <2>1, <3>1, GoingOnKeeps
  <2>3. CASE active # Null
    <3> DEFINE r == [req[c] EXCEPT !.at = "getActive", !.set = active]
    <3>1. req[c] \in Request /\ active \in SetIds /\ RequestIsSound(c)
      BY <2>3 DEF IInv, TypeOK
    <3>2. r \in Request /\ r.at = "getActive" /\ r.kind = req[c].kind /\ r.value = req[c].value
      BY <3>1 DEF Request, Steps
    <3>3. req' = [req EXCEPT ![c] = r]
      BY <1>3, <2>3 DEF Resolve, IInv, TypeOK
    <3> HIDE DEF r
    <3>4. req'[c] = r /\ req' \in [Callers -> Request] /\ OthersWait(c)
      BY <3>2, <3>3 DEF IInv, TypeOK, OthersWait
    <3>5. RequestIsSound(c)'
      BY <3>1, <3>2, <3>4 DEF RequestIsSound
    <3> QED BY <2>1, <3>4, <3>5, ReadKeeps
  <2> QED BY <2>2, <2>3
<1>4. CASE GetActive(c)
  <2>1. /\ UNCHANGED <<sets, rows, active>>
        /\ \E step \in {"getDefault", "assign", "insertRow"} : Goto(c, step)
    BY <1>4 DEF GetActive
  <2> QED BY <2>1, GoingOnKeeps
<1> QED BY <1>1, <1>2, <1>3, <1>4, EnsureKeeps, CheckSoleKeeps, InsertSetKeeps, GetSetKeeps,
           WriteSetKeeps, SaveActiveKeeps, DeleteRowsKeeps, DeleteSetKeeps, InsertRowKeeps,
           AssignKeeps DEF Statement

\* What happens besides the requests that are modelled statement by statement.
LEMMA OtherWritesKeep ==
  ASSUME IInv, UNCHANGED <<sets, req, requests>>,
         rows' \in [Words -> {s \in SetIds : Live(s)} \cup {Null, NoRow}],
         active' \in {s \in SetIds : Live(s)} \cup {Null}
  PROVE  IInv'
<1>1. SetsMove
  BY SameSetsMove DEF IInv
<1>2. \A c \in Callers : RequestIsSound(c)'
  BY <1>1, OthersStaySound DEF IInv
<1>3. DefaultIsFirst'
  BY DEF IInv, DefaultIsFirst, DefaultExists, IsDefault, Live
<1>4. TypeOK'
  BY DEF IInv, TypeOK, Live
<1> QED BY <1>2, <1>3, <1>4 DEF IInv

LEMMA NextKeepsInvariant ==
  ASSUME IInv, [Next]_vars
  PROVE  IInv'
<1>1. ASSUME NEW c \in Callers, BeginEnsure(c) \/ Begin(c) \/ Statement(c) \/ Crash(c), UNCHANGED requests
      PROVE  IInv'
  BY <1>1, AnyBeginKeeps, StatementKeeps, FailKeeps DEF Crash
<1>2. ASSUME NEW s \in SetIds, UpdateSettings(s), UNCHANGED requests
      PROVE  IInv'
  BY <1>2, OtherWritesKeep DEF UpdateSettings, IInv, TypeOK
<1>3. ASSUME NEW w \in Words, DeleteState(w), UNCHANGED requests
      PROVE  IInv'
  BY <1>3, OtherWritesKeep DEF DeleteState, IInv, TypeOK
<1>4. CASE UNCHANGED vars
  BY <1>4, OtherWritesKeep DEF vars, IInv, TypeOK
<1> QED BY <1>1, <1>2, <1>3, <1>4 DEF Next

LEMMA InitHasInvariant == Init => IInv
<1> SUFFICES ASSUME Init PROVE IInv
  OBVIOUS
<1>1. \A s \in SetIds : sets[s] = Unborn /\ ~Live(s)
  BY LiveSets DEF Init, Live
<1>2. TypeOK
  BY <1>1, IdleRequest DEF Init, TypeOK
<1>3. DefaultIsFirst
  BY <1>1 DEF DefaultIsFirst, IsDefault
<1>4. \A c \in Callers : RequestIsSound(c)
  BY IdleRequest DEF Init, RequestIsSound
<1> QED BY <1>2, <1>3, <1>4 DEF IInv

(***************************************************************************)
(* The invariant holds in every reachable state.                           *)
(***************************************************************************)
THEOREM WordSetsInvariant == Spec => []IInv
<1>1. Init => IInv
  BY InitHasInvariant
<1>2. IInv /\ [Next]_vars => IInv'
  BY NextKeepsInvariant
<1> QED BY <1>1, <1>2, PTL DEF Spec

(***************************************************************************)
(* Whatever requests overlap and wherever they are cut off, rows and       *)
(* settings name live sets, and once there is a default set each card is   *)
(* shown in one live set and in no other.                                  *)
(***************************************************************************)
THEOREM CardsHaveOneView == Spec => []OneViewPerCard
<1>1. ASSUME IInv PROVE OneViewPerCard
  <2> SUFFICES ASSUME DefaultExists, NEW w \in Words
               PROVE  \E s \in SetIds : Live(s) /\ \A t \in SetIds : ShownIn(w, t) <=> t = s
    BY <1>1 DEF OneViewPerCard, IInv
  <2>1. CASE rows[w] \in {Null, NoRow}
    <3>1. \A t \in SetIds : ShownIn(w, t) <=> t = DefaultSet
      BY <1>1, <2>1, DefaultIsLive DEF ShownIn, IInv, DefaultIsFirst
    <3> QED BY <3>1, DefaultIsLive
  <2>2. CASE rows[w] \notin {Null, NoRow}
    <3>1. rows[w] \in SetIds /\ Live(rows[w])
      BY <1>1, <2>2 DEF IInv, TypeOK
    <3>2. \A t \in SetIds : ShownIn(w, t) <=> t = rows[w]
      BY <2>2 DEF ShownIn
    <3> QED BY <3>1, <3>2
  <2> QED BY <2>1, <2>2
<1> QED BY <1>1, WordSetsInvariant, PTL

(***************************************************************************)
(* As long as there is no default set, no other set has the mode new_words:*)
(* EnsureDefault, run alone, never meets the unique index.                 *)
(***************************************************************************)
THEOREM DefaultIsNeverBlocked == Spec => []DefaultCanBeEnsured
<1>1. IInv => DefaultCanBeEnsured
  BY DEF IInv, DefaultIsFirst, DefaultCanBeEnsured, NewWordsTakenBesides
<1> QED BY <1>1, WordSetsInvariant, PTL

(***************************************************************************)
(* A word leaves its set only when it or the set is deleted, or when a     *)
(* request for this very word moves it: no backfill, no first exposure and *)
(* no deletion of another set takes it out.                                *)
(***************************************************************************)
THEOREM WordsStayPut == Spec => WordsKeepTheirSet
<1> DEFINE Stays(w, s) ==
      rows[w] = s => \/ rows'[w] \in {s, NoRow} \/ ~Live(s)'
                     \/ \E c \in Callers : req[c].word = w /\ req[c].set = rows'[w]
<1>1. ASSUME IInv, [Next]_vars, NEW w \in Words, NEW s \in SetIds
      PROVE  Stays(w, s)
  <2> SUFFICES ASSUME rows[w] = s, rows' # rows
               PROVE  \/ rows'[w] \in {s, NoRow} \/ ~Live(s)'
                      \/ \E c \in Callers : req[c].word = w /\ req[c].set = rows'[w]
    OBVIOUS
  <2>1. rows \in [Words -> {t \in SetIds : Live(t)} \cup {Null, NoRow}] /\ s # Null /\ s # NoRow
    BY <1>1, WordSetsAssumption DEF IInv, TypeOK
  <2>2. ASSUME NEW c \in Callers, BackfillDefaultWordSet(c)
        PROVE  rows'[w] = s
    BY <2>1, <2>2 DEF BackfillDefaultWordSet
  <2>3. ASSUME NEW c \in Callers, DeleteSet(c)
        PROVE  rows'[w] \in {s, NoRow} \/ ~Live(s)'
    <3>1. CASE s = req[c].set
      <4>1. sets' = [sets EXCEPT ![s] = Deleted]
        BY <2>3, <3>1 DEF DeleteSet, Fail
      <4>2. sets'[s] = Deleted
        BY <1>1, <4>1 DEF IInv, TypeOK
      <4> QED BY <4>2, LiveSets DEF Live
    <3>2. CASE s # req[c].set
      BY <2>1, <2>3, <3>2 DEF DeleteSet, Fail
    <3> QED BY <3>1, <3>2
  <2>4. ASSUME NEW c \in Callers, InsertRow(c)
        PROVE  rows'[w] = s
    BY <2>1, <2>4 DEF InsertRow
  <2>5. ASSUME NEW c \in Callers, Assign(c)
        PROVE  rows'[w] = s \/ (req[c].word = w /\ req[c].set = rows'[w])
    BY <2>1, <2>5 DEF Assign
  <2>6. ASSUME NEW v \in Words, DeleteState(v)
        PROVE  rows'[w] \in {s, NoRow}
    BY <2>1, <2>6 DEF DeleteState
  <2>7. ASSUME NEW c \in Callers, BeginEnsure(c) \/ Begin(c) \/ Crash(c)
        PROVE  FALSE
    BY <2>7 DEF BeginEnsure, Begin, Crash, Fail, Start, BeginCreate, BeginUpdate,
       BeginUpdatePreferences, BeginDelete, BeginSetActive, BeginAnswer, BeginAdd, BeginMove
  <2>8. ASSUME NEW c \in Callers, Statement(c)
        PROVE  \/ BackfillDefaultWordSet(c) \/ DeleteSet(c) \/ InsertRow(c) \/ Assign(c)
    BY <2>8 DEF Statement, EnsureDefaultStep, GetDefault, InsertDefault, ReadActive, ActivateDefault,
       CheckSole, InsertSet, GetSet, WriteSet, ReadSettings, FindDefault, SaveActive, DeleteRows,
       Resolve, GetActive, Fail
  <2>9. ASSUME NEW t \in SetIds, UpdateSettings(t)
        PROVE  FALSE
    BY <2>9 DEF UpdateSettings
  <2> QED BY <1>1, <2>2, <2>3, <2>4, <2>5, <2>6, <2>7, <2>8, <2>9 DEF Next, vars
<1>2. IInv /\ [Next]_vars => [\A w \in Words, s \in SetIds : Stays(w, s)]_vars
  BY <1>1
<1> QED BY <1>2, WordSetsInvariant, PTL DEF Spec, WordsKeepTheirSet
=============================================================================
