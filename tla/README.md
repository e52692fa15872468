# Formal verification of the wordbit backend

TLA+ models of the Go backend in `src/`, the TLC runs that check them on small
instances, and TLAPS proofs of what must hold for every instance. The backend
schedules the vocabulary cards a learner sees: it keeps a spaced-repetition row
per word, builds a pool of cards per local day, applies answers, can take the last
answer back, finds new words in a curated list or with a language model, and
decides in which mode a card is shown.

## 1. Inventory

| Component | State it keeps | Operations | Makes it correct |
| --- | --- | --- | --- |
| Schedule (`service/logic.go`, `memory_cause.go`) | `user_word_states`: status, stage, due time, interval, scores | first exposure known/unknown, review outcome, bonus outcome, feedback and memory-cause bias | every word is either retired or found by exactly one due query |
| Learning service (`learning_service.go`) | word rows, pool items, events | `SubmitFirstExposure`, `SubmitReview`, `SubmitReveal`, `SubmitPronunciation` | an answer counts once, its card is completed, its follow-up is dealt |
| Undo (`learning_undo.go`) | the snapshot in the answer's event | `UndoLastAnswer` | undo restores what the answer changed, and nothing later |
| Pool service (`pool_service.go`) | `daily_learning_pools` (counters), `daily_learning_pool_items` | `GetOrCreateDailyPool`, `GetNextCard`, buffer maintenance, `AppendMoreNewWords`, `ForceRebuildTodayPool` | every due word has a card, new words stay within the limit, no duplicates |
| Repositories (`repository/postgres`) | the tables and their constraints | one SQL statement or transaction per call | counters agree with the cards, positions are unique |
| Session progress (`session_progress.go`) | derived from today's events | next kind of card, caps, session complete | caps hold, undone answers do not count, "nothing left" is true |
| Review modes (`logic.go`, `pool_service.go`) | mode of a card, mode streak of a row | `SelectReviewMode`, remapping, rotation, listening cap | a shown card has an enabled mode and can be answered |
| Generation (`pool_service.go`, `dedup.go`) | the table of words, the developer list | list, bank, attempts with retries, deduplication, fallback | words are new, not confusable, within the quota |
| Model executor (`integrations/gemini/executor.go`) | `quotaCache`: request times and blocks per model | reserve, mark rate limited, rotate models | concurrent callers stay within the quota |
| Dynamic prompts (`dynamic_review_service.go`) | prompts per day, word and mode | prepare, cache, fall back | no prompt is prepared twice, none is missing that was left out as present |
| Word sets (`word_set_service.go`) | `word_sets`, active set of the settings, set of each row | ensure default, create, update, activate, delete | each card is shown in one set; default and active set are found again |
| Dictionary, import buffer | word rows, import items | create, update, delete, confirm | an import happens once |
| Verifier (`auth/verifier.go`) | JWKS cache | verify, refresh | a valid key is found, the endpoint is not flooded |
| Scheduler (`scheduler/scheduler.go`) | - | pre-warm pools and prompts, refresh scores | runs do not duplicate work |
| HTTP, config, migrations, recordings, statistics, import command | - | decoding, start-up, one-row reads and writes | no protocol of their own |

How they interact: a route of `http/router.go` calls one service function; the
learning service calls the pool service through `quotaManager` after each first
exposure; both read and write the same tables through the repositories, one
statement at a time and without a transaction around the request
(`AcquireDailyPoolLock` does nothing). The scheduler calls
`GetOrCreateDailyPool` for active users at any moment, concurrently with requests.

What is hard: the order of requests over a day and over midnight; the undo of an
answer that dealt and trimmed cards; counters and ordinals maintained by hand; a
session whose state is recomputed from a log at each request; requests interleaved
between their statements; a request that fails or a process that stops between two
statements; what was read before minutes of calls to a language model and is used
after them; the quota shared by concurrent callers. `PROJECT.json` lists each hazard
at its line.

## 2. Modules

| Module | Role |
| --- | --- |
| `WordSchedule` | the part of a word's row that decides when it is shown, and every function that rewrites it |
| `DailyLearning` | one user's database and every request that changes schedules or cards, each as one step, over days |
| `CardRequests` | one day of the same database with each request as its statements, overlapping and cut off anywhere |
| `WordSets` | word sets, their members and the active set, statement by statement |
| `StudySession` | selecting, answering and undoing cards on several devices while words and pool are changed, the progress read from the event log |
| `SessionBudget` | what a session promises; `StudySession` implements it |
| `ReviewModes` | the mode in which each review card is shown |
| `DynamicPrompts` | `ReviewModes` composed with the callers that prepare prompts |
| `WordGeneration` | how new words are chosen while other requests go on |
| `QuotaCache` | the calls of the language model client and the quota cache they share |
| `MC...` | instances for TLC: bounds, sets of requests, learners, vocabularies |
| `DailyLearning_proofs`, `PlannedDay_proofs` (the planned day of `DailyLearning`), `CardRequests_proofs`, `QuotaCache_proofs`, `WordGeneration_proofs`, `DynamicPrompts_proofs` (with those of `ReviewModes`), `StudySession_proofs`, `WordSets_proofs` | the proofs |

The modules divide the system by what their properties tell apart. `DailyLearning`
has all requests of the learning core and no interleaving; `CardRequests` and
`WordSets` have the interleaving and, for it, fewer words and one day. What
`WordGeneration` may return is what `DailyLearning!GenerateNewWords` takes as given;
which card `StudySession` serves is what `DailyLearning` leaves open; the mode of that
card is the subject of `ReviewModes`.

### WordSchedule

A row is `[status, stage, due]`. `Null` is SQL NULL and `NoRow` the absence of a
row. The intervals the code fixes (5 and 10 minutes, 8 hours, 1 and 2 days) are
constants; the interval of a review-phase answer is a product of floating-point
factors and is any member of `ReviewGaps`. Scores, counts and modes do not decide
*whether* a word is due and are left out. `ApplyReviewOutcome`,
`ApplyMemoryCauseIntervalBias` and `ApplyWordConstructionFeedback` are composed in
`ReviewOutcomes` in the order `SubmitReview` calls them.

### DailyLearning

The variables are the clock `now` and the database `db`: `states` (one row per
word), `pools` (per local day, open or not, with the four counters), `items` (the
cards) and `answers` (the undo snapshot of the answer event of each completed
card). Each repository call is an operator from database to database, each service
function one to a database or a set of possible databases, and each route an action:

| Route | Action | Source |
| --- | --- | --- |
| `GET /me/daily-pool`, cron pre-warm | `OpenDailyPool` | `GetOrCreateDailyPool` |
| `GET /me/cards/next` | `NextCardReplenishes`, `NextCardAddsPractice` | `GetNextCard` |
| `POST .../first-exposure` | `SubmitFirstExposure` | with the follow-up and the buffer maintenance |
| `POST .../review` | `SubmitReview` | with the follow-up |
| `POST .../undo-last-answer` | `UndoLastAnswer` | `CanUndo`, `UndoWrites` |
| `POST /me/daily-pool/more-words` | `AppendMoreNewWords` | |
| admin rebuild | `ForceRebuildTodayPool` | |
| dictionary | `CreateDictionaryWord`, `UpdateDictionaryWord`, `DeleteDictionaryWord` | |
| import buffer confirm | `ConfirmImport` | |
| the clock | `Tick` | |

Abstractions, and why they are sound for the properties:

- A request is one step. This is the model of a client that waits for each
  answer; interleaved statements are the subject of `CardRequests`.
- A card is answered at any time, in any order: the handlers check neither the due
  time nor the session, only the status of the card. Which card is *served* is
  left out; when serving runs out of cards is in the guards of the `NextCard` actions.
- What the generation of new words returns is any set within the quota of words
  that pass its filters, the empty set included.
- The ranking of weak words is any choice of the right size (`Picks`).
- The default word set is active and generates new words; sets are in `WordSets`,
  modes in `ReviewModes`.
- A completion stamp orders `completed_at` within a pool; the event of a reopened
  card is dropped because a later answer records a newer one.
- A local day has a fixed length.
- `SubmitReveal` and `SubmitPronunciation` change neither schedule nor cards.
- `LastId`, `Numbering`: identifiers are fresh naturals instead of UUIDs.

`PlannedNext` is the planned day: opening the pool, answering, undoing, and the
replenishment of new words. The requests by which a learner asks for more than
the plan (more words, more practice, rebuild, dictionary) are the others. Some
properties hold of the planned day only, because the code lets those requests
override the plan: more words exceed the limit, for instance.

### QuotaCache

`now` is the clock, `quota` the cache (`modelQuotaState` per model), `call` the
local variables of each goroutine in `executeJSON`. The code between two points
where another goroutine can matter is a step: reading the clock (before the lock is
taken), a critical section (`Reserve`, `Refuse`, `MarkRateLimited`), sending, and
the answer. Between the clock and the lock up to `MaxWait` ticks may pass, so
reservations are recorded out of order. `granted` and `announced` are history
variables; no action reads them except through `BoundaryReads`.

`WaitAssumption` says that the lock is never waited for as long as a minute: it is held
for a few operations on a list. The windows depend on it. With three callers and a wait
of a whole minute TLC finds one call too many: the first reads its clock and waits, the
others fill the minute, and the late reservation of the first, recorded at the old time,
leaves room for another exactly on the boundary.

| Code | Action |
| --- | --- |
| a `Generate...` method starts `executeJSON` | `Begin` |
| `c.now()`, then `reserve` true or false | `ReadClock`, then `Reserve` or `Refuse` |
| `httpClient.Do` | `SendRequest` |
| transport error, 5xx, answer that does not parse | `Retry` |
| 429, then `markRateLimited` | `RateLimited`, then `MarkRateLimited` |
| a result, another 4xx, a request that cannot be built | `Finish` |
| no model left | `GiveUp` |

Abstracted: payloads, the reason texts, the length of the backoff (time passes
freely while a call is not between its clock and its lock), a cancelled context (a
failed attempt). A limit of 0, which switches it off, is in the formulas but not in
the runs, where nothing would bound the list. `BoundaryReads = FALSE` leaves out
clock readings that are exactly one minute after a reservation: at that nanosecond
the code lets too many calls through (see "Further disagreements"); everything else is
checked without it.

### CardRequests

The database of one day (`rows`, `pool` with its `count`, `cards`, `events`) and, per
caller, the request it is in: the statement it is at and what it has read. A step is one
repository call, since nothing holds a transaction across two of them; `Crash` ends a
request before any of its statements, which is a stopped process, a cancelled context
or a failed statement. All words are in their learning stages, so every card is a
`short_term` card, and `rows` holds what overlapping requests can lose: ratings, hints,
and whether the word is due. A client repeats a request with the same event id or with
another. Numbers of new cards follow the order in which they are created; positions and
the stamps of completions have no bound, for two requests may complete one card, the later
one with a later stamp.

| Code | Steps |
| --- | --- |
| `GetOrCreateDailyPool` | `BeginOpen`, `ReadPool`, `ReadDue`, `GetLastOrdinal`, `AppendPoolItem`, `IncrementScheduledCounts`, or `Reread`, `ReadNewPool`, `CreatePoolWithItems` (one transaction) |
| `SubmitReview` | `BeginReview`, `GetPoolItem`, `GetRow`, `Upsert`, `MarkPoolItemCompleted`, the follow-up, `RecordEvent` |
| `SubmitReveal` | `BeginHint`, `GetPoolItem`, `HasRecordedHintStep`, `GetRow`, `Upsert`, `RecordEvent` |
| `UndoLastAnswer` | `BeginUndo`, `CheckUndo`, `RestoreRow`, `DeletePoolItems`, `ReopenPoolItem`, `RecordUndo` |
| dictionary `Delete`, `Create` | `BeginDelete`, `DeleteRow`, `DeleteItemsForUserWord`; `AddWord` |

### WordSets

`sets` is the table, `rows` the `word_set_id` of each word's row, `active` the setting,
`req` the statement each caller is at. Every service call first ensures the default set
(`getDefault`, `insertDefault`, `backfill`, `readActive`, `activateDefault`), which is
where most of the overlap happens; then come the statements of creation, update,
preferences, deletion (rows and set in one transaction: `doomed` are the rows it has
deleted but not committed), activation, and those by which a row gets its set: answering,
adding and moving a word. The unique index on the mode `new_words`, the foreign keys
with their cascade, and the row trigger are in the statements. Ids are given in order.

### StudySession and SessionBudget

The code keeps no session: each request counts the day's events
(`buildSessionProgress`) and recognises undone answers by client event ids.
`StudySession` has that log, the cards and their states, the row of each word as far as
the counts read it (none, known, learning), and per device the last reply:

| Code | Action |
| --- | --- |
| `GetNextCard`, with what a request deals that has run out of cards | `GetNextCard` |
| `SubmitFirstExposure`, `SubmitReview`, with the follow-up and the buffer of new words | `SubmitFirstExposure`, `SubmitReview` |
| `UndoLastAnswer` to its end, or to the append that is refused (`learning_undo.go:97`) | `UndoLastAnswer`, `UndoStopsHalfway` |
| `AppendMoreNewWords` | `AppendMoreNewWords` |
| an opening of the pool that finds a word due; a card that falls due | `DealReview`; `FallDue` |
| `ForceRebuildTodayPool` | `RebuildPool` |
| dictionary `Delete`, `Create` and `Update`; import `Confirm` | `DeleteWord`, `EditWord`; `ConfirmImport` |

The limit of new words is read in two ways: from events when a card is selected
(`DailyNewCompleted`), from rows and cards when the buffer is filled and trimmed
(`LearnedNewCount`). The code lets the two part, and `LimitsAgree` says where. The history
variable `parted` collects, at the step where it happens, each word

- whose answer was half undone: the row is gone and the event stays;
- that the dictionary has deleted, added or moved between the lists, or an import added;
- whose completed card a rebuild has removed: the events stay;
- one of whose trimmed cards an undo put back next to a new card dealt since
  (`DealtAgain`), or that got a review card besides its follow-ups after its new card was
  completed: an undo of the first exposure then leaves an answer it knows nothing of.

No action reads `parted`. On every other word the counts agree card by card, and no card is
counted twice. `NothingLeftIsTrue` takes the limit as the two counts together have it: a
parted word whose answer still counts takes up the limit like one that is learned, for a
card is refused on its account (`session_progress.go:225`).

A completed card that is removed is "gone": unlike a "deleted" one its answer still counts.
One corner is left out: an undo whose answer had trimmed a card that was put back, answered
and removed since. The code would append it under an identifier of its own, for which the
model has no card.

`SessionBudget` is the promise made to a user: each session is a budget of `Cap` answers,
from which answers are spent and to which an undo gives one back, and the client is told
that it is over exactly when it is spent. The refinement maps the counts of the log to the budget
(`reviews <- SessionReviewCompleted`, `news <- SessionNewCompleted`) and the replies to `told`.
That the log implements it is not obvious: an undo adds an event and lets two be ignored.

`NamesEvents` says whether clients name their events. With unnamed events the counts
are wrong after an undo (see "Further disagreements"); the runs have named ones, as the
app sends them.

### ReviewModes and DynamicPrompts

A row is the *profile* the schedule reads (stage, memory cause, and the thresholds of
`logic.go` as booleans), the last mode and its streak; an answer replaces the profile by
any other of the learner, since scores depend on data that is left out. A mode goes
through `SelectReviewMode`, the enabled and compatible modes, the rotation of a custom
set, and the listening cap, each an operator; every reading of the pool applies
them to the pending cards (`SyncPendingPoolItems`), a change of preferences through the
remap, whose failure is only logged (`UpdatePreferences` with `cards` unchanged).
`LastModes` is the constraint of `user_word_states.last_mode`.

`DynamicPrompts` extends it with the callers that prepare prompts: `Prewarm` reads the
cards, `FindMissing` the prompts, then chunks are saved or lost one by one
while cards are answered and other callers do the same. A listening card is shown as one
only with a prompt (`OverlayCardOnly`). What is fixed for a learner (words, profiles,
sets of modes, callers, earlier prompts) is one record of `Learners`, so that one run
has learners of different kinds without multiplying them.

### WordGeneration

`provider` is the table of words with their source, shared with other learners and
the import; `has` what the learner has of each word; `gen` the generation under way. Its
steps are separated where the code reads: the caller reads the cards (`Begin`), the list
with the rows (`SelectDeveloperListWords`), the bank with the rows and the words seen
within 30 days (`SelectBankWords`), then the attempts. Each attempt is a call of the
model, which may propose anything, fail, or be refused for want of quota; between the
steps the learner answers, adds and deletes words, days pass, and others upsert words. `held`
and `taken` are history variables of words that have had a row or a card, or were seen, all the while.

### Bounds

`MaxDay` ends the clock on the last tick of a day, `MaxId` bounds the identifiers,
ordinals and stamps a request may leave (`Fits`), and `MaxExtras` (in
`MCDailyLearning`) the number of requests outside the planned day, which come
anywhere in the behaviour. `MayRelist` says whether they include moving a word
between the known and unknown lists. `MaxTime` ends the clock of `QuotaCache`,
`MaxEvents` bounds the log of `StudySession` and `MaxEdits` the changes to dictionary and
pool from outside the loop, `MaxCount` the ratings of a row and
`CardIds` the cards in `CardRequests`, `SetIds` the sets ever created, `maxCards` the
cards of a learner, `MaxRequests` the requests while one generation is under way.
`Mixes` are the kinds of requests that clients make in one behaviour: a run has
several mixes of three to six kinds instead of one with all, which would be too large.
Deadlock is not checked where a bound can use everything up (`DailyLearning`,
`QuotaCache`, `StudySession`, `ReviewModes`); it is in `WordSets`, `CardRequests` and
`WordGeneration`, where the scheduler, or the next generation, can always go on.

## 3. Runs

| Run | Instance | Shows |
| --- | --- | --- |
| `requests` | 1 day of 2 ticks, 2 words, limit 1, 2 extra requests, follow-ups may fail | `CountersMatchCards`, `PositionsAreUnique`, `UndoInvertsAnswer` (566 000 states) |
| `midnight` | 2 days of 2 ticks, 1 extra request, no relisting | `TypeOK`, `EveryRowSchedulable`, `OpenPoolCoversDueWords`, `UndoTakesBackItsOwnAnswer` (194 000) |
| `planned_day` | 2 days of 3 ticks, 5 identifiers, two review gaps | `NewWordsWithinLimit`, `NoOrphanReviewCard`, `NewCardsAreUnseen` (131 000) |
| `card_requests` | scheduler and 1 client, 1 word, 2 cards, 2 event ids; answer/undo/add/open, or answer/hint/delete; cut off anywhere | `TypeOK`, `RecordedAnswersCount`, `CountIsCovered`, `CreationRaceIsHarmless`, `DueWordsAreDealt` (1 471 000) |
| `word_sets` | scheduler and 2 clients, 2 sets, 1 word; two mixes of requests; cut off anywhere | `OneViewPerCard` (with `TypeOK`), `DefaultCanBeEnsured`, `WordsKeepTheirSet`, `ActiveSetReturns`, `UnownedRowsAreAdopted` (331 000) |
| `study_loop` | 2 words, one with a new, a review and a practice card, one with two new cards; 2 devices, one without a session; limit 1; caps 2, 1, 1; 3 events, 1 edit | `TypeOK`, `CountedAnswersStand`, `LimitsAgree`, `NothingLeftIsTrue`, `ImplementsBudget` (488 000) |
| `review_modes` | 4 learners: many profiles with one card, listening with four, a hardest mode with four, two callers preparing prompts | `PromptsTypeOK` (with `TypeOK`), `ShownModeIsEnabled`, `ListeningWithinLimit`, `HardestThriceAtMost`, `PromptsAreNotRepeated`, `PreparedPromptsAreFound` (1 253 000) |
| `generation` | 3 words of 2 vocabularies, quotas 1 and 2, 2 attempts, 2 requests meanwhile | `TypeOK`, `SelectedWordsAreFresh`, `ConfusablesStayApart`, `QuotaIsShared` (1 591 000) |
| `quota_shared` | 1 model, 2 calls at a time, 2 per minute of 3 ticks, 3 per day of 7, wait of 2, 9 ticks | `TypeOK`, `ReservationsWithinLimits`, `CooldownsHold`, `RefusalIsExact` (713 000) |
| `quota_rotation` | 2 models, 2 calls, 2 attempts, fairness | `EveryCallReturns` (32 000) |
| `undo_after_more_words` | 1 day of 3 ticks, 1 extra request | violates `UndoReopensCard` |
| `definition_first` | 1 word, 2 cards, a set whose hardest mode is definition-first, fairness | violates `ShownCardsGetDone` |

Why these are enough:

- *Days.* Two words and a limit of one give a word being learned and a word in the
  buffer, which is what the buffer rules distinguish; three to five identifiers let a
  card be answered, followed up, undone and answered again; two days put a midnight
  between any two requests; with `DayLen = 2` a due time falls on the same tick, later
  today, tomorrow, or beyond the horizon. No symmetry is declared: the numbering of a
  batch is a CHOOSE, which symmetry would break.
- *Statements.* Two overlapping requests are enough for the races looked for, each of
  which is one request using what it read before the other wrote; the requests on
  different words touch different rows. A second client event id tells a repeated answer
  from a new one. `WordSets` has a third caller because a race for the default set needs
  two, besides the one that meets its result.
- *Sessions.* Caps of 2, 1 and 1 make both run caps and the total cap bind within three
  events, one of which can be an undo. With a limit of 1, one answer trims the buffer, two
  cards of one word let more words deal the trimmed word again, and one edit is enough for
  the two counts to part in each way the code knows. The two cards of the second word are
  alike, which is the symmetry of the run. With four events and no edit (91 000 states) the
  properties and the inductive invariant of the proofs hold too.
- *Modes.* One learner has a row for each reason of the schedule under six kinds of
  sets; two have four cards, one more than the rotation allows in the hardest mode and
  two more than the listening limit; that limit and the cooldown are 2 as in the code;
  the fourth has chunks of one prompt instead of 25, so that a preparation can lose some
  and save others. `ListeningWithinLimit` and `HardestThriceAtMost` are about sets whose
  modes stay the same (`ModesStay`), which the second to fourth have.
- *Generation.* One word on the list, one that is confusable with it or shares its
  lemma, and one that is unrelated; quotas of 1 and 2 let the list fill the quota or
  fall short; two attempts instead of three still give a retry after a success.
- *Quota.* Both limits bind: two reservations at each of two instants fit the minute but
  not the day, and a day ends within the run. The slack is needed: with `Day` in place of
  `Day - MaxWait`, a day of 9 ticks and 11 ticks in all, TLC finds a call that waits two
  ticks for the lock while a later one prunes the requests the first still had to count.

The properties are stated above their definitions. What they
do *not* say was found by TLC and is worth knowing:

- the `new` counter may lag behind the cards after an undo that fails half-way, and
  `short_term` lags by every same-day follow-up, which is never counted when it is
  appended but is when it is deleted: `CountersMatchCards` claims `<=` for these;
- with a lost follow-up (`FollowUpFaults`), a due word can stay without a pending
  card for the day, if a completed card of its type is in the pool;
- moving a word to the known list and back the same day has the same effect;
- a bonus card added between a first exposure and its undo is left without a row;
- a word in the review phase that is due again the same day gets its follow-up as
  `short_term`, and the reconciliation, which matches word *and* type, may deal
  it a second card as `review`;
- the new-word limit is exceeded by asking for more words;
- an undo cut off after `RestoreRow` leaves a completed card over a row that is rolled
  back, and the undo cannot be repeated to the same effect;
- a dictionary deletion cut off after its first statement cannot be repeated, and a
  review in progress writes the row again;
- two words of one lemma, one from the list and one generated, can be dealt
  together: `ConfusablesStayApart` claims different lemmas within one source only
  (`FilterCandidates` compares lemmas with the learner's words, not with the seeds);
- a word that the learner adds to the dictionary while the model is asked may be
  selected and dealt: `SelectedWordsAreFresh` is about words that were taken throughout.

### Findings

`undo_after_more_words`: a learner answers a new word "unknown" late in the day; the
buffer card is trimmed. They ask for more words and the same word is dealt again at
the same ordinal. The undo now restores the row and deletes the follow-ups, then
fails on the unique constraint when it re-appends the trimmed card
(`learning_undo.go:96`), and the answered card stays completed. The test
`TestUndoLastAnswerUnknownRestoresTrimmedPendingNewItems` expects both cards back.
The words asked for in between are needed: on a planned day, in which words are dealt
only by opening, replenishing and answering, `UndoReopensCard` holds for every schedule
and limit (`UndosAlwaysReopen`).

`definition_first`: migration 000015 adds the mode `definition_first` to pool items and
word sets, but `user_word_states.last_mode` and `learning_events.mode_used` keep the
constraint of migration 000012. In a set where it is the hardest mode, the answer to a
card shown in it fails on the upsert of the row, and the card is shown again: under
fairness of answering it is shown for ever. The test of the rotation expects another mode
after three such cards (`word_set_preferences_test.go:75`).

### Further disagreements

Variants of the runs, which the project does not keep, show more places where the code
and what is written about it part:

- at the instant exactly one minute after the first request of a full window,
  `blockedUntil` lets every call through (`executor.go:166`; `BoundaryReads = TRUE`);
- the retries of an attempt are sent under one reservation (`executor.go:267`), while
  `README.md` asks for limits that match the plan's request quotas;
- a word moved into a set whose deletion is under way ends in the default set
  (`word_set_repository.go:135`), and a word added with an explicit set can lose it
  (`dictionary_service.go:102`, `000008_word_sets.up.sql:58`);
- which set shows new words is decided by `is_default` in one place and by the mode in
  another (`pool_service.go:2342`, `2388`);
- an answer without a client event id counts in its session after its undo
  (`session_progress.go:150`), and a follow-up that fails is lost for the day when a
  completed card of its type exists (`pool_service.go:1177`);
- the limit of new words is checked against events in one place (`session_progress.go:225`)
  and against rows in the others (`pool_service.go:860`, `963`), and the two can differ. A
  learner with a limit of one learns a word, its answer trims the next, more words deal
  that one again, and the undo stops half-way (`learning_undo.go:97`): the events still
  count one word, the rows none. A card of a new word is waiting and the limit of the rows
  would let it be learned, but it is not served and the device is told `no_cards_available`.
  Deleting the learned word, moving it to the known list, or rebuilding the pool does the same
  (`dictionary_service.go:155`, `182`, `pool_service.go:1281`). The rows count more than the
  events when a word gets a second new card, by an import of a word that is dealt already
  (`word_import_buffer_service.go:154`) or after an undo: one is answered as known, the other
  as unknown, and both are counted as learned. So are they when a lost follow-up is dealt by
  an opening, the first exposure is undone and repeated as known, and the review then learns
  the word again;
- two overlapping requests can deal a due word twice (`pool_service.go:1204`) and two
  hints with one id can both be counted (`learning_service.go:313`);
- an undo after moving a word between the lists discards the move (`learning_undo.go:77`);
- `domain/models.go:156`, `word_repository.go:289` and `000019` say that the developers'
  list never falls back to generated words, while `pool_service.go:1418`, its tests and
  `developer-word-list.md` have the fallback; `UpsertWord` (`word_repository.go:46`)
  overwrites the source of a curated word, which takes it off the list;
- the filter of practice by the active set reads `word_set_id`, which its query does
  not select (`pool_service.go:825`);
- the comment of `dailyListeningItemLimit` says that it caps the listening items of a day
  (`pool_service.go:1993`), but what is beyond the cap gets the enabled mode nearest to
  fill-in-the-blank (`pool_service.go:312`), which is listening again in a set without
  that mode; hence the precondition of `ListeningWithinLimit`;
- a preparation of prompts that lost every chunk is reported as done (`handlers.go:679`).

## 4. Fairness, liveness and refinement

None is assumed in `DailyLearning`, `StudySession`, `WordGeneration` and the preparation of
prompts: every action is a request of a learner or an administrator, who owe nothing, or a
job that runs once a day, and the properties are safety properties. Elsewhere:

- `QuotaCache!FairSpec`: weak fairness of each call's own steps. The Go scheduler runs a
  goroutine that can run, the mutex is held for a bounded time, and `http.Client.Timeout`
  (`DS_TIMEOUT`) ends a wait for an answer or its body. Neither the start of a call nor
  the clock is fair. `EveryCallReturns` holds under it.
- `CardRequests!FairSpec`, `WordSets!FairSpec`: the scheduler starts its opening of the
  pool again and again, each of its statements is executed, and in the end it is no
  longer cut off. It opens the pool of every active user each minute
  (`CRON_DAILY_POOL_PREWARM_SCHEDULE`), but ensures the default set only when it creates
  the pool of a day (`pool_service.go:185`): what `WordSets` says is repaired may take
  until the next day, and needs a user who stays active. Clients owe nothing: their requests may stay between
  two statements for ever. `DueWordsAreDealt`, `ActiveSetReturns` and
  `UnownedRowsAreAdopted` say that the scheduler repairs what collisions and crashes lost.
- `ReviewModes!FairSpec`: the learner answers the card that is shown. It is assumed in
  `definition_first` only, where it makes the counterexample one of the code.

`StudySession` implements `SessionBudget` (`ImplementsBudget`, by `INSTANCE ... WITH`). The
other modules have no coarser specification worth a refinement: the promise of
`QuotaCache` is two bounds, which are its invariants.

## 5. Proofs

Each theorem holds for every value of the constants that satisfies the named
assumptions, which TLC evaluates for the instances of the runs.

| Module | Proved of its specification | Assumptions |
| --- | --- | --- |
| `DailyLearning_proofs` | `TypeOK`, `EveryRowSchedulable`, `PositionsAreUnique`, `CountersMatchCards`, `UndoInvertsAnswer` | `DurationsAssumption`, `DailyAssumption`: finitely many words, natural durations, a day of at least one tick |
| `PlannedDay_proofs` | of `PlannedSpec`: `NewWordsWithinLimit`, `NoOrphanReviewCard`, `NewCardsAreUnseen`, `OpenPoolCoversDueWords`, `UndoTakesBackItsOwnAnswer`, `UndoReopensCard` | also `PlannedAssumption`: no follow-up is lost, and a day is no longer than `OneDay`, the step of the third consolidation stage |
| `CardRequests_proofs` | `TypeOK`, `CountIsCovered`, `CreationRaceIsHarmless` | `CardRequestsAssumption`: finitely many words and cards; any number of callers, which may all overlap |
| `CardRequests_proofs` | `RecordedAnswersCount` | also `OneClient`: besides the scheduler one caller, for two that overlap do lose an answer |
| `QuotaCache_proofs` | `TypeOK`, `CooldownsHold` | `QuotaAssumption`: finitely many callers, natural limits, positive windows |
| `QuotaCache_proofs` | `ReservationsWithinLimits`, `RefusalIsExact` | also `WaitAssumption`, and `BoundaryReads = FALSE`, without which the code does violate them |
| `StudySession_proofs` | `TypeOK`, `CountedAnswersStand`, `LimitsAgree`, `NothingLeftIsTrue`, `ImplementsBudget` | `SessionAssumption`: finitely many cards, each of one kind and one word, natural limits; and `NamesEvents = {TRUE}`: clients name their events, as the app does, without which the counts are wrong |
| `WordSets_proofs` | `OneViewPerCard`, `DefaultCanBeEnsured`, `WordsKeepTheirSet` | `WordSetsAssumption` |
| `WordGeneration_proofs` | `TypeOK`, `SelectedWordsAreFresh`, `ConfusablesStayApart`, `QuotaIsShared` | `GenerationAssumption`: finitely many words, positive quotas |
| `DynamicPrompts_proofs` | `PromptsTypeOK`, `PromptsAreNotRepeated`, `PreparedPromptsAreFound`, `ShownModeIsEnabled`, `ListeningWithinLimit`, `HardestThriceAtMost` | `ModesAssumption`, `PromptsAssumption`: learners with finitely many words and callers, every set has the reveal mode |

**DailyLearning.** The inductive invariant strengthens the three properties:

- the rows saved in undo snapshots are schedulable: without that, undo could write
  anything back;
- the sets of identifiers, in the cards and in the snapshots, are finite: the next
  identifier is above the maximum of all of them (`LastIdIsUpper`), and a maximum
  exists only for a finite set (`MaxOfFiniteSet`, which each module that needs it
  proves from the library's well-founded order on finite sets);
- identifiers are unique, which tells the card an undo reopens, completed, from
  the follow-ups it deletes, pending;
- the trimmed cards of one snapshot have distinct positions, having been together
  in a pool; an undo re-appends those below the first taken position
  (`UndoSound`), so none of them meets a card of the pool.

The proof follows the code: one lemma per repository call, one per service function,
one per request, each saying that a `Sound` database is mapped to `Sound` databases.

The counters need more (`Coherent`), for they are kept per pool while cards come and go
by other ways than appends:

- a closed pool has no cards (`ClosedPoolsAreEmpty`), for opening a pool sets its
  counters to zero; so every append must be to an open pool, and each service function
  leaves open what it has found open;
- no card is of a day to come (`NoFutureCards`);
- what a snapshot has trimmed are new cards, of a day not before that of the answered
  card and not after today (`SnapshotsRemember`): an undo counts the cards it brings back
  on the day of the answered card, today, and so on their own day;
- deletions lower a counter by the cards deleted, and not below zero: a counter that was
  at most the number of cards stays so, one that was exact stays exact (`MatchesShrink`).

That an answer can be taken back (`UndoInvertsAnswer`) needs no stronger invariant, but an
account of what an answer does between completing its card and recording its event. All it
calls before the buffer is maintained keeps the cards of today, down to their due times, and
adds no new card (`Carries`); the maintenance then either trims the pending new cards or adds
new ones, and reports which (`Maintains`); the follow-up has an identifier of its own
(`CreatedIn`). So the answered card is still the last completed one, every card created is
pending and no trimmed position has been taken (`AnswerCanBeUndone`): the undo is accepted
and does not stop half-way, and what it deletes and restores is the difference
(`UndoRestores`). No other request records an answer (`Forgets`).

The proof corrected the property. Its first form said that the undo leaves the new-word
counter as it was, which the run had confirmed, but which is not so in general: an undo
that stops half-way after `AppendMoreNewWords` puts new cards back without counting them,
which `CountersMatchCards` allows: the counter may lag behind the cards. With
eleven words and a limit of one, 25 requests make the counter so low that an answer which
trims six new cards clamps it at zero, from three, and its undo sets it to six. So the
property excepts a counter that has fallen behind the pending new cards, and the theorem
says that this is the only exception.

The planned day (`PlannedSpec == Init /\ [][PlannedNext]_vars`) keeps more, for its undo
takes back exactly what the last answer did. The invariant (`Planned`) relates the cards,
the rows and the answers, and the interesting parts of it are those an undo needs:

- a word has at most one new card, pending until the word has a row, and review cards
  only while it is being learned (`OneNewCard`, `NewUntilAnswered`, `ReviewsAreLearnt`);
- the limit held when each new card was answered (`AnsweredWithinLimit`), so that it
  holds again once the answers after it are taken back, and it holds while new cards are
  left (`RoomForTheBuffer`); an answer that trimmed new cards is of the new card answered
  last, the limit is reached, and the trimmed words are still new (`TrimmedAway`): the
  undo may deal them again, and never meets a taken position;
- each card of a word that is new today, but the first, was appended by the answer of
  the card completed last before it (`ChainedFollowUps`). So the word has one pending
  card at most (`OneCardIsPending`), an undo of its last answer deletes it
  (`PendingIsUndone`), and one of the first exposure leaves no card of a word that has
  lost its row (`NewCardIsAlone`).

The chain is why `PlannedAssumption` is needed. A word that was new today gets its later
cards of the day as follow-ups only: after the third stage it is due in a day, not today
(`DayLen <= OneDay`; both are 24 hours in the code), and a follow-up that was lost
(`maybeAppendSameDayFollowUp` logs the error) would come back as a card of the plan, which
no answer has appended and no undo deletes. `midnight` and `requests` check what the code
does with other requests and lost follow-ups.

The row an undo restores and the due words an open pool holds rest on the history of the
answers (`Recorded`), which pool operations leave alone (`Settled`):

- the row that an answer of today wrote is the word's row still, or the one that the next
  answer of the word remembers (`RowsFollowAnswers`). An undo takes back the last answer
  of the day, after which no other answer of the word comes;
- a word with a card today that is due has a scheduled card pending (`DueIsCovered`): no
  answer makes a word due in the past (`OutcomesAreLater`), and if due today it appends a
  follow-up. An undo makes a word due again: if the answered card was scheduled it is
  pending again, a new card leaves no row to be due, and for a weak card another
  scheduled card of the word was pending when it was answered, and so is again
  (`StillCovered`);
- after midnight no card is of today and no pool of today is open (`NoFuturePools`), and
  once it is, the old cards have been pruned (`NoOldCards`), so that an answer to a card
  of yesterday finds no card of today.

**QuotaCache.** `IInv` adds that a call holding a model has one of the list, and that the
cache keeps the latest announced cooldown; the step of interest is `Reserve`: not being
blocked means that the latest of the candidates, and so the cooldown, is over
(`BlockedInCooldown`). The windows need more, since the cache forgets and the property
does not: `WindowsInv` adds that the cached requests are the end of those granted, and
what it has dropped is more than a day old (`KeepsTheRest`); that reservations are
recorded at most a wait out of order (`GrantedInTime`); that a clock in use was read at
most a wait ago (`ClocksAreRecent`) and not exactly a minute after a reservation
(`OffBoundary`). A window that the new reservation makes too full would begin within the
last minute, or the last day less the wait; all of its reservations would still be in the
cache and would have blocked the call (`MinuteHasRoom`, `DayHasRoom`). Refusals build on
it: because no minute holds more than the limit, the model is free as soon as its
earliest request is a minute old (`MinuteBlocksUntil`), and what is pruned meanwhile no
longer blocks (`DayBlocksUntil`).

**WordGeneration.** `IInv` consists of named parts. `Retained` says that a word that was
taken throughout is still taken, `Known` that such a word is among those that the
generation has read: cards are read by the caller and rows later, in two statements
between which a word may turn from one into the other, and the part says for each step
what is known by then. `Sound` says that what has been selected is new, not
confusable, and within its source of different lemmas; `Unfilled` bounds each share by
what is left of the quota.

**CardRequests.** The types need what each request knows at each of its statements
(`KeepsToSteps`, `Knows`): an answer at its last statement has read a row, an undo takes the
snapshot of a recorded answer, and there is a latest one among those (`LatestIsAnswer`). The
counter needs who knows which card. An opening appends its cards one by one and counts them
with its last statement, so between the two the cards are there and not counted; were one of them
deleted meanwhile, the counter would go down for a card it never stood for. `Apart` says that
nobody else knows those cards, neither another request nor a recorded answer an undo could
take back, and the inductive part (`Covered`) compares the counter with the cards that no
opening still has to count. Recorded answers need what a request owes (`Pledged`): from the moment
it has read the row until its event is recorded, the row it writes or has written counts one
answer more than the log has. With one client nobody else changes row or log in between.

**ReviewModes and DynamicPrompts.** `DynamicPrompts_proofs` has the invariant of the cards
(`IInv`): a card that was listened to is charged to the cap, since its mode in the pool
is listening; a listening card that is shown has its place within the cap (`ListeningOK`);
no row has a streak above three in the hardest mode, not even one that an undo would
restore, and the card that is shown does not continue one of three (`RotationOK`). Opening
the day and reading the pool rest on lemmas about the choice of
a mode: among the enabled modes there is a nearest (`NearestMode`, by the least of
distance and number taken together), and what the cap puts in the place of listening is
never harder than it (`CappedIsCompatible`), so that the cap does not lead back to the
hardest mode after the rotation has left it (`HardestIsLeft`). `PromptsIInv` adds
the callers: one lists a prompt only while it does not exist, so that for each prompt the
writings and the listings together never exceed the callers (`Booked`), and what it has
left out can be found (`Found`); and it shows that their readings of the pool keep `IInv`.

**StudySession.** The log says nothing of cards and the cards nothing of the log, so the
invariant ties them. One part holds of all words (`Books`): events are numbered
(`LogIsNumbered`), an answer that no undo names stands on a card that is completed or gone,
as the latest answer of that card (`StandingMeansDone`), the answer that can be undone stands
(`LastStands`), and the counts of a session are within the caps as far as its own requests
are concerned (`BudgetKept`). `CountedAnswersStand` follows: a half-way undo adds no event
and leaves its card completed, so the log is right even where the row is not.

The other part holds of each word that is not parted (`PlainWord`), and gives `LimitsAgree`:

- it has one new card in the pool, which waits only while no answer of the word stands
  (`OneNewCard`);
- once it has a new card, its row is what the answer of that card left, and no answer to
  another card changes that (`RowFollowsAnswers`); so an undo of such an answer restores the
  row that the word has, and an undo of the first exposure leaves none;
- its review cards are follow-ups of answers that stand (`ReviewsFollow`): while one waits or is
  completed, the first exposure is not the last answer or its undo deletes the card;
- an answer that stands and has trimmed it came before any answer of the word
  (`TrimmedBefore`), so that what an undo deals again has not been learned meanwhile.

The exceptions are needed: with any one of them left out of `parted`, TLC finds the two counts
apart, for edits, imports, rebuilds and half-way undos within the bounds of `study_loop`, for
trimmed cards put back next to another and for lost follow-ups with a fourth event. (Only the
cards that a half-way undo puts back before it fails would need a third new word.)
Every request is one of four kinds of steps
(`StepKinds`): an answer is given, an answer is taken back, cards and rows move and a reply is
told, or they move and nobody is told anything (openings, edits, the half-way undo). Each kind
has one lemma for the books, one for the word of the card and one for the other words.
The refinement follows, kind by kind: one answer spends one of the budget, one undo gives one
back, and the reply is told from the counts.

**WordSets.** The invariant is the types, that at most the first set is the default one
(`DefaultIsFirst`), and, for every caller, what the statement it is at may rely on
(`RequestIsSound`): which set it has read, and whether it still exists, as far as
foreign keys and the unique index guarantee it between two statements.

Specifications of the runs restrict the ones of the theorems at most by bounds (`MCSpec`
restricts `Spec`), so what is proved holds in the runs too.

What stays with TLC: what `midnight` shows of requests outside the planned day, and
liveness under fairness (`EveryCallReturns`, `DueWordsAreDealt`, `ActiveSetReturns`,
`UnownedRowsAreAdopted`), which is out of the prover's reach. No module has a RECURSIVE operator.

## 6. Not modelled

- The verifier's key cache (`auth/verifier.go`): requests that overlap fetch the keys
  outside the lock and replace the cache as a whole; it shares no state with the rest.
- Recordings, settings, statistics, configuration, HTTP decoding: single reads and
  writes of one row, or none.
- The import command for the developers' list: a sequential batch. That it and others
  upsert words while a generation is under way is in `WordGeneration`.
- `SubmitPronunciation`, which changes neither schedule nor cards; cram practice; the
  refresh of weakness scores, which changes no row in a way that decides when or
  whether a word is shown.
- Of the prompts: their texts, the examples appended to words, the log of runs, and
  `BackfillForCurrentCard`, which nothing calls.
- Of the executor: knowledge of quotas that each process has for itself. Two
  processes exceed the limits together; the deployment has one.
- The length of a local day (`domain/time.go`), which changes with daylight saving time.
- The reason texts by which a duplicate candidate is refused.

## 7. Plan

1. An abstract limiter that `QuotaCache` implements.
2. Local days of different lengths; the key cache of the verifier.
