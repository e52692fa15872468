----------------------------- MODULE WordSets -----------------------------
(***************************************************************************)
(* The word sets of one user, the set each word's row belongs to, and the  *)
(* active set of the settings.  A request is a sequence of statements, one *)
(* step each, of any number of concurrent callers; it may fail or be cut   *)
(* off between two of them.                                                *)
(***************************************************************************)
EXTENDS Naturals, FiniteSets

CONSTANTS
  SetIds,      \* ids a word set can get, in this order; never used twice
  Words,       \* words the user may have a row for
  Callers,     \* concurrent requests
  Null,        \* SQL NULL
  NoRow,       \* the word has no row in user_word_states
  Mixes,       \* the kinds of requests the clients make: one of these sets in each behaviour
  Cron         \* the caller that is the scheduler: it only ensures the default set

Kinds == {"ensure", "create", "update", "prefer", "delete", "activate", "answer", "add", "move"}

ASSUME WordSetsAssumption ==
  /\ SetIds \subseteq Nat /\ Null \notin SetIds /\ NoRow \notin SetIds /\ Null # NoRow
  /\ Mixes \subseteq SUBSET Kinds /\ Cron \in Callers

VARIABLES
  sets,        \* word_sets
  rows,        \* user_word_states.word_set_id of each word
  active,      \* user_settings.active_word_set_id
  req,         \* the local variables of each caller's request
  requests     \* the mix of this behaviour
vars == <<sets, rows, active, req, requests>>

Modes == {"new_words", "custom"}
Unborn  == [mode |-> "unborn",  default |-> FALSE]
Deleted == [mode |-> "deleted", default |-> FALSE]
WordSet == [mode: Modes, default: BOOLEAN]

Fresh(s) == sets[s] = Unborn /\ \A t \in SetIds : t < s => sets[t] # Unborn
Live(s) == s \in SetIds /\ sets[s].mode \in Modes
IsDefault(s) == Live(s) /\ sets[s].default
DefaultExists == \E s \in SetIds : IsDefault(s)
DefaultSet == CHOOSE s \in SetIds : IsDefault(s)
\* The unique index on mode = 'new_words'.
NewWordsTakenBesides(s) == \E t \in SetIds \ {s} : Live(t) /\ sets[t].mode = "new_words"

(***************************************************************************)
(* A request: the kind it is, the statement it is at, and what it has been *)
(* given or has read: a set, a word, a whole word_sets row to write, and   *)
(* the words whose rows its open transaction has deleted.                  *)
(***************************************************************************)
Steps == {"idle", "getDefault", "insertDefault", "backfill", "readActive", "activateDefault",
          "checkSole", "insertSet", "getSet", "writeSet", "readSettings", "findDefault",
          "saveActive", "deleteRows", "deleteSet", "resolve", "getActive", "insertRow", "assign"}
Request == [kind: Kinds, at: Steps, set: SetIds \cup {Null}, word: Words \cup {Null},
            value: WordSet \cup {Unborn}, doomed: SUBSET Words]
Idle == [kind |-> "ensure", at |-> "idle", set |-> Null, word |-> Null,
         value |-> Unborn, doomed |-> {}]

\* With the foreign keys: no row and no settings refer to a set that is gone.
TypeOK ==
  /\ sets \in [SetIds -> WordSet \cup {Unborn, Deleted}]
  /\ rows \in [Words -> {s \in SetIds : Live(s)} \cup {Null, NoRow}]
  /\ active \in {s \in SetIds : Live(s)} \cup {Null}
  /\ req \in [Callers -> Request]
  /\ requests \in Mixes

\* A new user: the settings row exists, everything else does not.
Init ==
  /\ sets = [s \in SetIds |-> Unborn]
  /\ rows = [w \in Words |-> NoRow]
  /\ active = Null
  /\ req = [c \in Callers |-> Idle]
  /\ requests \in Mixes

---------------------------------------------------------------------------
(* The flow of a request *)

At(c, step) == req[c].at = step
Goto(c, step) == req' = [req EXCEPT ![c].at = step]
Return(c) == req' = [req EXCEPT ![c] = Idle]
Fail(c) == Return(c) /\ UNCHANGED <<sets, rows, active>>

\* What a request does with the default set once it is ensured.
AfterEnsure(c) ==
  CASE req[c].kind = "create" -> Goto(c, "checkSole")
    [] req[c].kind = "answer" -> Goto(c, "insertRow")
    [] req[c].kind = "add"    -> req' = [req EXCEPT ![c].at = "assign", ![c].set = DefaultSet]
    [] OTHER                  -> Return(c)

\* The rows an uncommitted deletion of a set holds locked.
Locked(w) == \E c \in Callers : w \in req[c].doomed

Start(c, request) ==
  /\ At(c, "idle")
  /\ request.kind \in requests /\ c # Cron
  /\ req' = [req EXCEPT ![c] = request]
  /\ UNCHANGED <<sets, rows, active>>

---------------------------------------------------------------------------
(* EnsureDefault *)

\* Mutant of GetDefault: with a default set there is nothing left to do.
GetDefaultOnly(c) ==
  /\ At(c, "getDefault")
  /\ IF DefaultExists THEN AfterEnsure(c) ELSE Goto(c, "insertDefault")
  /\ UNCHANGED <<sets, rows, active>>

GetDefault(c) ==
  /\ At(c, "getDefault")
  /\ Goto(c, IF DefaultExists THEN "backfill" ELSE "insertDefault")
  /\ UNCHANGED <<sets, rows, active>>

\* INSERT ... ON CONFLICT DO NOTHING RETURNING: on a conflict there is no row to scan.
InsertDefault(c) ==
  /\ At(c, "insertDefault")
  /\ IF DefaultExists \/ NewWordsTakenBesides(Null)
     THEN Fail(c)
     ELSE \E s \in SetIds :
            /\ Fresh(s)
            /\ sets' = [sets EXCEPT ![s] = [mode |-> "new_words", default |-> TRUE]]
            /\ Goto(c, "backfill")
            /\ UNCHANGED <<rows, active>>

\* Mutant of BackfillDefaultWordSet: every row, not only those without a set.
BackfillEveryRow(c) ==
  /\ At(c, "backfill")
  /\ rows' = [w \in Words |-> IF rows[w] = NoRow THEN NoRow ELSE DefaultSet]
  /\ Goto(c, "readActive")
  /\ UNCHANGED <<sets, active>>

BackfillDefaultWordSet(c) ==
  /\ At(c, "backfill")
  /\ rows' = [w \in Words |-> IF rows[w] = Null THEN DefaultSet ELSE rows[w]]
  /\ Goto(c, "readActive")
  /\ UNCHANGED <<sets, active>>

ReadActive(c) ==
  /\ At(c, "readActive")
  /\ IF active = Null THEN Goto(c, "activateDefault") ELSE AfterEnsure(c)
  /\ UNCHANGED <<sets, rows, active>>

\* Mutant of ActivateDefault: the default set is not made the active one.
ActivateNothing(c) ==
  /\ At(c, "activateDefault")
  /\ AfterEnsure(c)
  /\ UNCHANGED <<sets, rows, active>>

ActivateDefault(c) ==
  /\ At(c, "activateDefault")
  /\ active' = DefaultSet
  /\ AfterEnsure(c)
  /\ UNCHANGED <<sets, rows>>

EnsureDefaultStep(c) ==
  \/ GetDefault(c) \/ InsertDefault(c) \/ BackfillDefaultWordSet(c)
  \/ ReadActive(c) \/ ActivateDefault(c)

---------------------------------------------------------------------------
(* Create, Update, UpdatePreferences *)

\* Mutant of BeginCreate: the set is created before the default is ensured.
BeginCreateUnensured(c, mode) ==
  Start(c, [Idle EXCEPT !.kind = "create", !.at = "checkSole",
                        !.value = [mode |-> mode, default |-> FALSE]])

BeginCreate(c, mode) ==
  Start(c, [Idle EXCEPT !.kind = "create", !.at = "getDefault",
                        !.value = [mode |-> mode, default |-> FALSE]])

\* ensureSoleNewWordsMode
CheckSole(c) ==
  /\ At(c, "checkSole")
  /\ IF req[c].value.mode = "new_words" /\ NewWordsTakenBesides(req[c].set)
     THEN Return(c)
     ELSE Goto(c, IF req[c].kind = "create" THEN "insertSet" ELSE "writeSet")
  /\ UNCHANGED <<sets, rows, active>>

InsertSet(c) ==
  /\ At(c, "insertSet")
  /\ IF req[c].value.mode = "new_words" /\ NewWordsTakenBesides(Null)
     THEN Fail(c)
     ELSE \E s \in SetIds :
            /\ Fresh(s)
            /\ sets' = [sets EXCEPT ![s] = req[c].value]
            /\ Return(c)
            /\ UNCHANGED <<rows, active>>

BeginUpdate(c, s, mode) ==
  Start(c, [Idle EXCEPT !.kind = "update", !.at = "getSet", !.set = s,
                        !.value = [mode |-> mode, default |-> FALSE]])
BeginUpdatePreferences(c, s) == Start(c, [Idle EXCEPT !.kind = "prefer", !.at = "getSet", !.set = s])

(***************************************************************************)
(* Reads the row that Update and UpdatePreferences change and write back,  *)
(* that Delete checks, or that SetActive only wants to exist.              *)
(***************************************************************************)
GetSet(c) ==
  LET read  == sets[req[c].set]
      given == req[c].value
      next(step, value) == req' = [req EXCEPT ![c].at = step, ![c].value = value]
  IN /\ At(c, "getSet")
     /\ IF ~Live(req[c].set) \/ (req[c].kind = "delete" /\ read.default)
        THEN Return(c)
        ELSE CASE req[c].kind = "update" -> next(IF given.mode = "new_words" /\ read.mode = "custom"
                                                 THEN "checkSole" ELSE "writeSet",
                                                 [read EXCEPT !.mode = given.mode])
               [] req[c].kind = "prefer" -> next("writeSet", read)
               [] OTHER                  -> Goto(c, "readSettings")
     /\ UNCHANGED <<sets, rows, active>>

\* The whole row is written, as it was read.
WriteSet(c) ==
  LET s == req[c].set
      value == req[c].value
  IN /\ At(c, "writeSet")
     /\ sets' = IF ~Live(s) \/ (value.mode = "new_words" /\ NewWordsTakenBesides(s))
                THEN sets ELSE [sets EXCEPT ![s] = value]
     /\ Return(c)
     /\ UNCHANGED <<rows, active>>

---------------------------------------------------------------------------
(* Delete, SetActive *)

BeginDelete(c, s) == Start(c, [Idle EXCEPT !.kind = "delete", !.at = "getSet", !.set = s])
BeginSetActive(c, s) == Start(c, [Idle EXCEPT !.kind = "activate", !.at = "getSet", !.set = s])

ReadSettings(c) ==
  /\ At(c, "readSettings")
  /\ Goto(c, IF req[c].kind = "activate" THEN "saveActive"
             ELSE IF active = req[c].set THEN "findDefault" ELSE "deleteRows")
  /\ UNCHANGED <<sets, rows, active>>

FindDefault(c) ==
  /\ At(c, "findDefault")
  /\ IF DefaultExists THEN Goto(c, "saveActive") ELSE Return(c)
  /\ UNCHANGED <<sets, rows, active>>

\* Settings.Upsert; the foreign key refuses a set that is gone.
SaveActive(c) ==
  LET s == IF req[c].kind = "activate" THEN req[c].set ELSE DefaultSet
  IN /\ At(c, "saveActive")
     /\ IF Live(s)
        THEN active' = s /\ (IF req[c].kind = "activate" THEN Return(c) ELSE Goto(c, "deleteRows"))
        ELSE Return(c) /\ UNCHANGED active
     /\ UNCHANGED <<sets, rows>>

\* The transaction deletes the set's rows; nobody else sees it yet.
DeleteRows(c) ==
  /\ At(c, "deleteRows")
  /\ \A w \in Words : rows[w] = req[c].set => ~Locked(w)
  /\ req' = [req EXCEPT ![c].at = "deleteSet", ![c].doomed = {w \in Words : rows[w] = req[c].set}]
  /\ UNCHANGED <<sets, rows, active>>

\* Mutant of DeleteSet: no ON DELETE SET NULL for the rows that are left.
DeleteSetOnly(c) ==
  /\ At(c, "deleteSet")
  /\ sets' = [sets EXCEPT ![req[c].set] = Deleted]
  /\ rows' = [w \in Words |-> IF w \in req[c].doomed THEN NoRow ELSE rows[w]]
  /\ active' = IF active = req[c].set THEN Null ELSE active
  /\ Return(c)

\* It deletes the set, which sets what still refers to it to NULL, and commits;
\* or finds the set gone and rolls back.
DeleteSet(c) ==
  LET s == req[c].set
      left(t) == IF t = s THEN Null ELSE t
  IN /\ At(c, "deleteSet")
     /\ IF Live(s) /\ ~sets[s].default
        THEN /\ sets' = [sets EXCEPT ![s] = Deleted]
             /\ rows' = [w \in Words |-> IF w \in req[c].doomed THEN NoRow ELSE left(rows[w])]
             /\ active' = left(active)
             /\ Return(c)
        ELSE Fail(c)

\* PUT /me/settings may carry an active set; NULL keeps the one there is.
UpdateSettings(s) ==
  /\ Live(s)
  /\ active' = s
  /\ UNCHANGED <<sets, rows, req>>

---------------------------------------------------------------------------
(* Rows: first exposures, the dictionary *)

\* The insert trigger: the set that carries the mode new_words, if any.
TriggerSet ==
  IF NewWordsTakenBesides(Null)
  THEN CHOOSE s \in SetIds : Live(s) /\ sets[s].mode = "new_words"
  ELSE Null

\* SubmitFirstExposure resolves the active set; SubmitReview and an undo find a row to write back.
BeginAnswer(c, w) ==
  Start(c, [Idle EXCEPT !.kind = "answer", !.word = w,
                        !.at = IF rows[w] = NoRow THEN "resolve" ELSE "insertRow"])
BeginAdd(c, w, s) ==
  rows[w] = NoRow /\ Start(c, [Idle EXCEPT !.kind = "add", !.at = "insertRow", !.word = w, !.set = s])
BeginMove(c, w, s) ==
  rows[w] # NoRow /\ Start(c, [Idle EXCEPT !.kind = "move", !.at = "assign", !.word = w, !.set = s])

(***************************************************************************)
(* ResolveActiveSet.  The set a first exposure resolves is put on the row  *)
(* it saves, but Upsert writes no word_set_id.                             *)
(***************************************************************************)
Resolve(c) ==
  /\ At(c, "resolve")
  /\ IF active = Null
     THEN Goto(c, "getDefault")
     ELSE req' = [req EXCEPT ![c].at = "getActive", ![c].set = active]
  /\ UNCHANGED <<sets, rows, active>>

GetActive(c) ==
  /\ At(c, "getActive")
  /\ Goto(c, IF ~Live(req[c].set) THEN "getDefault"
             ELSE IF req[c].kind = "add" THEN "assign" ELSE "insertRow")
  /\ UNCHANGED <<sets, rows, active>>

\* Upsert of the row of a new word: the trigger fills in the set; a row that is there keeps its own.
InsertRow(c) ==
  LET w == req[c].word
  IN /\ At(c, "insertRow")
     /\ ~Locked(w)
     /\ rows' = [rows EXCEPT ![w] = IF @ = NoRow THEN TriggerSet ELSE @]
     /\ IF req[c].kind = "answer" THEN Return(c)
        ELSE Goto(c, IF req[c].set # Null THEN "assign" ELSE "resolve")
     /\ UNCHANGED <<sets, active>>

\* SetWordSetForWord: fails without a row, or without the set.
Assign(c) ==
  LET w == req[c].word
  IN /\ At(c, "assign")
     /\ ~Locked(w)
     /\ rows' = [rows EXCEPT ![w] = IF @ = NoRow \/ ~Live(req[c].set) THEN @ ELSE req[c].set]
     /\ Return(c)
     /\ UNCHANGED <<sets, active>>

\* Deleting a dictionary entry, or undoing a first exposure.
DeleteState(w) ==
  /\ rows[w] # NoRow /\ ~Locked(w)
  /\ rows' = [rows EXCEPT ![w] = NoRow]
  /\ UNCHANGED <<sets, active, req>>

---------------------------------------------------------------------------

\* Listing the sets, dealing or synchronising the pool.
BeginEnsure(c) ==
  /\ At(c, "idle")
  /\ c = Cron \/ "ensure" \in requests
  /\ req' = [req EXCEPT ![c] = [Idle EXCEPT !.at = "getDefault"]]
  /\ UNCHANGED <<sets, rows, active>>

\* The process stops, or the connection is lost; an open transaction is rolled back.
Crash(c) == ~At(c, "idle") /\ Fail(c)

Begin(c) ==
  \/ \E mode \in Modes : BeginCreate(c, mode)
  \/ \E s \in SetIds, mode \in Modes : BeginUpdate(c, s, mode)
  \/ \E s \in SetIds : BeginUpdatePreferences(c, s) \/ BeginDelete(c, s) \/ BeginSetActive(c, s)
  \/ \E w \in Words : BeginAnswer(c, w)
  \/ \E w \in Words, s \in SetIds : BeginAdd(c, w, s) \/ BeginMove(c, w, s)
  \/ \E w \in Words : BeginAdd(c, w, Null)

Statement(c) ==
  \/ EnsureDefaultStep(c)
  \/ CheckSole(c) \/ InsertSet(c) \/ GetSet(c) \/ WriteSet(c)
  \/ ReadSettings(c) \/ FindDefault(c) \/ SaveActive(c) \/ DeleteRows(c) \/ DeleteSet(c)
  \/ Resolve(c) \/ GetActive(c) \/ InsertRow(c) \/ Assign(c)

Next ==
  /\ \/ \E c \in Callers : BeginEnsure(c) \/ Begin(c) \/ Statement(c) \/ Crash(c)
     \/ \E s \in SetIds : UpdateSettings(s)
     \/ \E w \in Words : DeleteState(w)
  /\ UNCHANGED requests

Spec == Init /\ [][Next]_vars

(***************************************************************************)
(* The scheduler ensures the default set of every active user whenever it  *)
(* creates a pool, so each day anew, and each of its statements is         *)
(* answered; in the end it is no longer cut off.                           *)
(***************************************************************************)
FairSpec ==
  /\ Spec
  /\ WF_vars(BeginEnsure(Cron) /\ UNCHANGED requests)
  /\ WF_vars(EnsureDefaultStep(Cron) /\ UNCHANGED requests)
  /\ <>[][Crash(Cron) => EnsureDefaultStep(Cron)]_vars


---------------------------------------------------------------------------
(* Properties *)

(***************************************************************************)
(* FilterDailyPoolByActiveSet: whether a card of word w is shown while set *)
(* s is active.                                                            *)
(***************************************************************************)
ShownIn(w, s) ==
  IF rows[w] \in {Null, NoRow} THEN IsDefault(s) ELSE rows[w] = s

\* Whatever requests overlap and wherever they are cut off, rows and settings name
\* live sets (TypeOK), and once there is a default set every card is shown in one
\* live set and in no other: no deletion leaves a word that is shown nowhere.
OneViewPerCard ==
  /\ TypeOK
  /\ DefaultExists => \A w \in Words : \E s \in SetIds :
                        Live(s) /\ \A t \in SetIds : ShownIn(w, t) <=> t = s

\* An insert of the default set never meets another set with the mode new_words,
\* so a request that lost the race for it succeeds when it is tried again.
DefaultCanBeEnsured == DefaultExists \/ ~NewWordsTakenBesides(Null)

\* A word leaves its set only when it or the set is deleted, or when a request
\* for this very word moves it.
WordsKeepTheirSet ==
  [][\A w \in Words, s \in SetIds :
       rows[w] = s => \/ rows'[w] \in {s, NoRow} \/ ~Live(s)'
                      \/ \E c \in Callers : req[c].word = w /\ req[c].set = rows'[w]]_vars

\* The active set a race of SetActive with Delete has lost is found again.
ActiveSetReturns == active = Null ~> active # Null

\* Words without a set are adopted by the default set.
UnownedRowsAreAdopted == \A w \in Words : rows[w] = Null ~> rows[w] # Null
===========================================================================
