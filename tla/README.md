# Verification of the Vietnamese text normaliser

TLA+ models of the stateful parts of the normaliser (`src/backend/app`, FastAPI
over SQL Server, with a React frontend), the TLC runs that check them on small
instances, and the TLAPS proofs of what matters most for every value of the
constants. `PROJECT.json` lists every run, mutant, theorem, finding and hazard,
and maps every definition to the source lines it stands for.

## The system

A user's text is normalised by rules and dictionaries, and, with the user's
consent, reviewed by an AI provider. Several worker processes of one host serve
requests; they share SQL Server, an exported JSON file, two SQLite files (the
dictionary state and the AI budget) and nothing else. Each keeps caches of its
own. The models are about that state, and about the text rules as far as their
results are recombined: cuts, spans, budgets, caches.

| part | state it keeps | operations | hard because |
|---|---|---|---|
| Meaning store (`ai_meaning_repo.py`, `ai_meaning_routes.py`) | rows of meanings inferred by the AI, their evidence, an audit table | `record`, `moderate`, `reusable`, `revision` | any order of evidence, competition and moderation; nothing else guards who shares what |
| Requests over the store (`ai_meanings.py`, `live_normalizer.py`) | per request: the revision taken, rows used | `reuse`, `capture`, `current`, `dictionary_is_current` | every read and write is its own transaction; the AI call between them lasts seconds |
| Dictionary publication (`pending_service.py`, `dictionary_state.py`, `json_sync.py`) | SQL rows, `approved_abbreviations.json`, revision and status in SQLite | save, approve, delete, retry-export, `bump` | three stores without a common transaction; lock timeouts, failed exports, crashes |
| Dictionary caches (`pending_service.py`, `live_normalizer.py`) | live-data, bootstrap, health, segment and pending-submission caches of each worker | lookups, stores, `invalidate` | keys are revisions read before the data; invalidation reaches one worker only |
| Moderation of pending abbreviations (`abbreviation_repo.py`) | pending rows, abbreviations, audit log | submit, capture, approve, reject, seed | read-then-write transactions that nothing serialises |
| AI admission (`admission.py`, `fallback_client.py`, `client.py`) | SQLite ledger of leases, flights in progress, circuit breaker | reserve, release, `complete` | coalesced calls, cancellation, retries under one deadline, leases of dead workers |
| Semantic verifier (`semantic_verifier.py`, `review_policy.py`) | response cache, chunks in progress | `verify` | concurrent chunks, quota in the middle, partial results |
| Live stream (`live_stream.py`) and workspace (`useLiveNormalize.ts`) | a queue of two, the current text's version | progress, final event, abort | late and superseded answers, disconnects |
| Accounts and sessions (`auth/`, `user_repo.py`, `new_tables_repo.py`) | users, failure counters, session rows | register, login, logout, revoke, delete | check-then-act across requests |
| Provider clients (`client.py`, `nemotron_client.py`, `nvidia_streaming_client.py`, `cache.py`, `budget.py`) | rate-limit breaker, response cache, usage counters of a worker | one request, plain or streamed | answers interleave with 429s; a connection may end anywhere |
| Text rules and segments (`normalizer/`, `incremental_text.py`) | phrase index, segment cache | cut, restore, match, expand, join | offsets through two passes of joining; a budget shared by segments |
| History, statistics, preferences | append and upsert tables | single statements | foreign keys when an account goes |

How they meet: an administrator's change commits to SQL, is exported to JSON and
published as a revision (a number); a request notes the revision it starts under,
loads its data through caches keyed by revisions, reuses shared AI meanings,
calls the AI, leaves the AI's corrections as evidence, and is answered with the
AI's result only if neither the dictionary's revision nor, when it reused a
meaning, the store's sum of revisions has moved. Otherwise it is answered with
the dataset baseline.

What makes each part correct:

* store: never two unreviewed meanings in one scope; nothing is shared without
  independent evidence or an administrator; a revocation is final; every
  revision is accounted for;
* requests: no answer holds a meaning that has lost its sharing; every request
  is answered;
* publication: an older export never replaces a newer one; "synced" is true; a
  revision promises no more than what is served under it;
* admission: the provider never sees more than the limits allow, every caller ends
  by its deadline, a cancellation stays with its owner;
* moderation: one open row per abbreviation, no lost suggestion, what was approved is
  served; stream: nothing stale is shown, "verified" is whole, it ends; workspace:
  what is shown answers the current text, it comes to rest; sessions: a revoked token
  is refused, nobody else is, guesses are bounded, nothing survives its account;
* provider clients: a streamed answer is whole, an answer stays with its user and its
  text, an announced wait is kept; rules: no word is lost or duplicated, the longest
  phrase wins, a span shows its abbreviation's meaning.

## Modules

| module | models | extends |
|---|---|---|
| `SharedMeanings` | abstract: what the store promises its readers | |
| `MeaningStore` | `AIMeaningRepository` | |
| `MeaningRequests` | `RequestMeanings` and its caller | `MeaningStore` |
| `MeaningRequestsProofs` | the proofs about both | `MeaningRequests`, `TLAPS` |
| `DictionarySync` | publication of the dictionary and the requests that read it | |
| `DictionarySyncProofs` | the proofs | `DictionarySync`, `TLAPS` |
| `Admission` | `BudgetedClient` and `FallbackClient`: ledger, flights, retries, timers | |
| `AdmissionProofs` | the proofs | `Admission`, `TLAPS` |
| `Moderation` | pending abbreviations, from an unknown token to an entry | |
| `LiveStream` | the verifier's chunks, the stream's queue and its client | |
| `Workspace` | one tab: session, editor page, live answers, poll, history | |
| `Accounts` | users, lock, tokens, session rows, requests, deletion | |
| `Provider` | a worker's calls below admission | |
| `Rules` | one live normalisation: cut, restore, match, expand, join | |
| `ModerationProofs`, `AccountsProofs`, `ProviderProofs`, `WorkspaceProofs` | the proofs | `Moderation`, `Accounts`, `Provider`, `Workspace`, `TLAPS` |
| `LiveProofs` | the proofs about a live normalisation: its stream and its rules | `LiveStream`, `Rules`, `TLAPS` |
| `MC...` | instances for TLC: model values, symmetry, views, sample texts | the module of that name |

### MeaningStore

A row is a key `<<scope, meaning>>`; a scope stands for abbreviation, domain and
scope fingerprint (`context_scope`), and `Unscoped` are the scopes of texts
without a two-word anchor. The variables are the columns that decide anything:
`status`, `rev`, `evidenceCount`, the evidence table and the revisions that have
an audit row. `record` and `moderate` each run in one transaction under an
exclusive application lock (`sp_getapplock` in `transaction`), so each is one
action; `record` is split by its outcome (`RecordCompeting`, `RecordPromoting`,
`RecordCounting`) and its early returns (tombstone, duplicate) are guards of
`AddEvidence`: those calls change nothing. A row inserted for new evidence is at
revision 1 with an audit row and moves to 2 with the evidence (`Insertion`).
`moderate` fails as a whole when one row of its batch may not be confirmed.
Fingerprints are model values: the code makes equal ones for equal requests,
masked sentences and actors, and that is all the policy looks at. Thresholds are
constants: 3 and 2 users in production, 3 and 3 sessions elsewhere.

### MeaningRequests

One slot is one request at a time with its `RequestMeanings` object: `known` is
`self.revision`, `used` is `self.used`, `chosen` the local `choices`. `reuse` is
`ReadRevision`, one `ReadRow` per ambiguity and `ApplyChoices` (or `ReuseFails`,
its `except`); the AI call is the gap before `Verify`; `capture` is one
transaction per correction (`Capture`, or `CaptureNothing` for a copy, a
tombstone or a failed write) and `Refresh`; the final check is `Deliver` or
`DeliverBaseline`. A check that cannot read the store's revision fails closed; one that
cannot read the dictionary's raises, and the user gets an error (`RevisionFails`).
Administrators step at any moment (`Moderate`). What the
answer contains beyond the reused rows is not modelled; `ApplyChoices` may apply
any part of its choices because a choice is passed over when its abbreviation
does not occur exactly once in the output.

### DictionarySync

An entry is known by its version, the number of changes committed to it. The
three stores are `sql`, `json` and the pair `revision`, `syncStatus` with `lock`
for SQLite's `BEGIN IMMEDIATE`. An administrator's call walks through `Commit`,
`Invalidate`, `Lock` (or `LockTimeout`), `Snapshot`, `Export` (or `ExportFails`)
and `Publish` (or `PublishFails`); `RetryExport` starts without a commit; `Bump`
is the revision step of phrase overrides and AI moderation. A request walks
through `Begin`, the live-data cache, the bootstrap cache and the JSON file, the
health check and SQL, the store into the live-data cache, the segment cache and
`Answer`, reading the revision wherever the code does. `SqlFails`, `SqlRecovers`
and `Crash` may happen between any two steps; a crash drops a worker's caches,
its calls and its lock.

Caches are modelled at a capacity of one entry, the minimum of the code's
`max(1, ...)`; expiry and eviction are a lookup that may miss although an entry
is there. The seed files under the export are constant and hold version 0. The
history variables `acked` and `exported` record what each revision promises:
`acked[r]` the changes acknowledged to administrators by revision `r`,
`exported[r]` those the JSON file was published with.

### Admission

A call is one call of `complete`, through a `FallbackClient` or, for `Standalone`
calls, straight at a `BudgetedClient`. Its `pc` is the await it is at: `calling`
the provider, `backoff` before a retry, `waiting` for another's flight; `enter`
and `retry` are the points before the synchronous part (look for a flight,
`_reserve`), during which no other call of its worker runs (`Turn`). The flights
of a worker are not a variable: a key is in `flights` exactly while the call that
put it there is at one of the awaits of its own (`Leads`). Settling the future is
`Resolve`: whatever the initiator ends with is handed to everybody who waits.
`Return`, `Retry` and `Wake` are the loop of attempts; `ProviderTimer` is the inner
timeout of `FallbackClient` and `DeadlineTimer` its outer one and the initiator's,
which are due at the same time and fire in any order; `Abort` is a cancelled task,
`Crash` a dead worker. `After` says where a call goes when its model is done with
it: to the fallback model after an error of transport, else to its end.

The ledger is its table without `account` (one account). `_reserve` reads the clock
before it waits for SQLite, so `Reserve` judges at any time `now` up to `LockWait`
old; it may also find no database (`Refused`), and `_release` may fail to write. The
circuit breaker of the clients is one more way to be refused. `made` is history: the
attempts let through with the time they really began at. Time is a `clock` that
ticks when nothing is due; a tick is about half a second next to the lease's extra
second and the lock's 0.2 s, and windows and timeouts are as short as they can be
while the order of all these is kept.

### Moderation

Every repository method is a SQL transaction under read committed, so each read
another session may slip behind is a step of its own and the writes with the commit
are one. A call (`call[s]`) walks through the transactions of one service call:
`Replay`, `SelectOpen`, `InsertPending` and `Remember` for a submission with its replay
cache; `CheckApproved`, `ReadSuggestions` and `WriteSuggestions` for a meaning;
`ReadPending`, `ReadEntry` and `Approve` for an approval; `Reject`; `ReadForUpsert`,
`Upsert`, `Sync` and `ReadBack` for an administrator's edit, and the first three for the
seed script; `Delete`. A call may fail between any two steps.

SQL is given no constraint against most overlaps, so the properties say what an overlap
can cost and that nothing else costs it. `Commit` marks as `overlapped` the calls of its
key that are at a stage whose reads it makes untrue (`ReadOpen`, `ReadSuggested`,
`ReadDictionary`), and no others. History: `raced` counts, for each key, the insertions
that another one slipped in before, so `OneOpenRow` allows one row more for each and not
a row more than that; `released` holds the approved rows whose entry an edit or two
overlapping writes may have changed, or whose own capture ended after the approval.
A rejection does not release a row: it keeps its entry, and what was approved is still
served. `SuggestionsKept` excuses the one write of a capture whose row another capture
changed after it was read.

### LiveStream

A text is the set of its chunks. A job is one chunk's call: `waiting` for the
semaphore, `calling`, `check` (the read of the dictionary's revision before a partial
snapshot), `put` (waiting for room in the queue). The producer verifies, applies the
result and puts the final event; the consumer takes an event, checks the revision
again and yields it. The client reads or leaves at any time. Threads answer in any
order; the revision changes at most once; a read of it may raise. A text of one chunk
(`Single`) is one call, without the deadline of many and without progress.

### Workspace

One tab: `boot` is the check of the stored session in `AuthContext.tsx`, `entry` a
login, `leaving` a logout, `page` the mounted editor, `run` the current effect of
`useLiveNormalize.ts` and `old` a superseded one whose reply is still under way,
`poll` the poll of the dictionary's revision. Scripts are atomic, and every request
is served at some moment between its sending and its reply. A logout that fails clears the
tab and leaves the token valid (`LogoutFails`); a 403 for the stored session removes it
from `sessionStorage` and nothing else (`BootForbidden`). `logged` is history: the row
the server wrote last, for which visit and for whom. The server is reduced to
the tokens it takes and its revision.

### Accounts

A statement of SQL is a step: `Guard` (the lock and the password), `RegisterFailure`,
`RegisterSuccess`, `CreateUser`, `CreateSession`; a request looks up its session and
its user before it acts, each in its own query, and a query may fail. The session
table may be missing until the schema is deployed; each worker remembers what its
probe found. `DeleteUser` is one transaction over the tables that refer to a user.
`guesses`, `dead`, `gone`, `unchecked` are history: the wrong passwords checked
since the last success or the end of the last lock, and what was true when a
request began.

### Provider

The calls of one event loop below admission, from one await to the next: the helper's
cache, the client the settings choose, `Trip` on a 429, the plain reply, the stream
event by event to its end. `Asked` is the number of completion tokens. `announced` is
history: the end of the longest wait a 429 asked for.

### Rules

A word is what the rules can tell of it: a part of phrases, an abbreviation with one
or two meanings, an unknown or a known word, a word without or with accents, a
literal. `Segment` does all of a segment, from the cache (`FromCache`) or not
(`Expanded`): `Restored`, `Matches`, `Values`, `Tried` (words for moderation under the
shared budget), `SpansOf`; `Joined` is the combination. `Chunked` is the verifier's
cut of a text, checked for every text of `MaxReview` words with every set of line and
sentence ends and every place of a literal. The phrase index is a table and its trie
the longest prefix in it; `Reference` reads the same text by definition. The loops over
words, keys and batches are recursive functions (`Index`, `Scan`, `WordsOf`, `Tried`,
`Outputs`, `Chunked`), each of which the proofs unfold. The assumptions on the constants
are those of the data: words of texts and phrases are of `Kinds`, a context phrase is
looked up by its own words without accents, a phrase has at least one source. Three
abstractions of data: the trie is its result, the longest prefix (`Longest`); a review text
holds one literal of whole words where the code's may hold several; and restoring keeps
base letters at the level of kinds, which a few built-in entries of `diacritic_restorer.py`
do not.

## What the runs check

| run | instance | shows |
|---|---|---|
| `meaning_store` | 1 scope, 2 meanings, 3 requests, 3 contexts, 2 users, thresholds 3/2 | `CompetingQuarantined`, `SharedOnIndependentEvidence`, `TombstonePermanent`, and the refinement `ImplementsSharedMeanings` |
| `meaning_requests` | 2 slots, 2 meanings, threshold 1, fairness | `FenceGuardsRows`, `AnswersOnlySharedMeanings` over all interleavings of two requests and an administrator; `RequestsAnswered` |
| `dictionary_sync` | 2 administrators, 1 request, 1 change, 2 revisions | labels, status, answers and the order of exports: `LabelsHonest`, `StatusTruthful`, `AnswersReflectPublished`, `ExportNeverGoesBack` |
| `admission` | 2 calls on 2 workers, one without a fallback, concurrency 1, 1 retry, fairness | `ProviderCallsBounded`, `AttemptsPerWindow`, `AnsweredByDeadline`, `CallsEnd` with fallbacks, retries, stale clocks, failed releases, aborts and crashes |
| `moderation` | 2 sessions, 4 calls, 1 key, 2 meanings | `OneOpenRow`, `ApprovedServed`, `SuggestionsKept` |
| `accounts` | 1 user, 2 logins, 1 request, 2 workers, 1 failed query | `GuessesBounded`, `RevokedRefused`, `NoOrphans`, `RefusalsJustified` |
| `live_stream` | 2 or 3 chunks, 2 jobs, a queue of 1, fairness | `StaleNotShown`, `VerifiedIsWhole`, `FinalKeepsProgress`, `StreamEnds`, `JobsStop` |
| `workspace` | 2 texts, 2 tokens, 1 change of the dictionary, 4 events, fairness | `AnswerIsCurrent`, `RecordedOnce`, `SignsOut`, `Settles` |
| `provider` | 3 calls, 2 users, 1 text of 2 parts | `StreamedWhole`, `OwnAnswer`, `QuietWindow` |
| `rules` | all short texts over two alphabets and eight long ones, 2 requests; texts of 4 words for the verifier | `LongestShown`, `WordsKept`, `SpansTell`, `PendingBounded`, `ChunksWhole` |
| `phrase_numbers`, `live_boundary` | smallest that shows it | findings 1 and 2 |

Further configurations, not in the list of runs: `MCMeaningScopes` (an anchored and an
unanchored scope, thresholds 3/3), `MCDictionaryVersions` (two changes of one entry),
`MCDictionaryExport` (two entries), `MCAdmissionUsers` (3 calls of 2 users, where every
limit of users binds; also `DuplicatesCoalesced`), `MCWorkspaceUsers` (the login is another
user's), all of which pass; and `MCOwnEvidence`,
`MCDictionaryDelete`, `MCDictionarySegments`, `MCAdmissionCancel`, `MCModerationSeed`,
`MCWorkspaceSession`, which show findings 3 to 8.

Bounds. `MaxRevisions` stops moderation once the sum of revisions reaches it
(evidence is bounded by the identities). The production threshold takes 5 revisions and
a competing meaning 4 more, so 12 lets a meaning be shared, contested, freed of its
competitor, confirmed and revoked in one behaviour; with a threshold of 1, 5 lets a row
be shared and then confirmed and revoked, or contested, while both requests hold it. Three
contexts and requests are the threshold itself, so one missing or copied piece of
evidence decides. `MaxVersion` 1 and `MaxRevision` 2 give an old and a new version
under three revisions: every property compares two versions under at
most two revisions, and a second change is `MCDictionaryVersions`. One worker is enough
in `dictionary_sync`: a slow request stores into the caches after `Invalidate`, which is
what another worker's untouched cache amounts to. `MaxTime` only stops new calls of
`Admission`: a call that begins has time to end, and the window passes at least twice.
In `moderation` four calls are two submissions, a decision and an edit of one token, and
three rows leave room for one that no race explains beside the two of a race. In
`accounts` the lock is two failures and a second, so a login is locked out and let in
again; the fault is one query at any place. `live_stream` has two jobs against one place
in the queue, as the code has three against two: both must wait for the reader at once.
`MaxEvents` of `workspace` is one budget for what the user, the network and the server do
unasked: any four of them, in any order, around the steps that follow from them. In
`provider` two calls may be told to wait, for a longer and a shorter time, before the
third asks. In `rules` segments are 3 words, phrases at most 3, the budget 2: a text of
five words is cut in phrases, after them and between them, and the second request finds
segments of the first. Deadlock is not checked, since bounded counters end every
behaviour.

Symmetry is used over values a configuration leaves interchangeable, and only in
runs without liveness properties. The views forget only what no later step and no
property reads: in `MCDictionarySync` cache entries under labels that will not be looked
up again and the history of those labels; in `MCAdmission` calls that are over, rows that
no longer count at any clock and attempts before the window; in `MCModeration` the
history of removals, which that run does not ask about (`MCModerationSeed`, which does,
has no view).

Fairness. `MeaningRequests!FairSpec` assumes only that a worker keeps running a request
it has taken (`WF_vars(RequestStep(p))`): the handler awaits nothing but its own calls,
and each of those returns or fails (the AI call has a deadline). Nothing is
assumed of users or administrators. `Admission` assumes that event loops run what is
ready (`WF_vars(Run(c))`) and time passes (`WF_vars(Tick)`); the provider may stay
silent for ever, and the answer of a call then comes from a timer. `LiveStream` assumes
that each job, the producer and the consumer go on when they can: calls of the provider
end by their timeout and a client that stays reads; nothing makes a client leave or the
dictionary change. `Workspace` assumes that timers fire, React renders and requests end
(the client gives every request a time limit); nothing is assumed of the user.

## What is proved

From the assumptions `StoreAssumption` and `SlotAssumption` (finite scopes and
meanings, natural thresholds, a revision that is not a number for "none"), for
every number of scopes, meanings, requests, contexts, actors and slots:

* `MeaningRequestsProofs`, the store. The inductive invariant `StoreInv` adds to the checked
  invariants what they rest on: an absent row has no revision, count or evidence;
  a row's count is the number of its evidence rows; no two evidence rows of a key
  share a request or a context, so counting rows counts requests and contexts.
  From it: `CompetingAlwaysQuarantined`, `SharingNeedsIndependentEvidence`,
  `EveryRevisionAudited`, `TombstonesArePermanent` and the refinement
  `StoreImplementsPromise`, each step of the store being a step or a stutter of
  `SharedMeanings`.
* `MeaningRequestsProofs`, the fence. `IInv` adds that a request's revision never
  exceeds the current sum (`KnownIsPast`) and in which phases a request holds rows
  (`RowsInPhase`). The argument: every step of the store that takes sharing from
  a row moves that row's revision up and none down (`StoreStepMovesSum`), so the
  sum strictly grows (`SumGrows`); if it still equals the revision taken first,
  nothing has moved. From it: `FenceHolds`, `AnswersAreShared` and
  `RequestsRunTheStore`, which carries the store's theorems over to the system
  with requests in flight.

* `AdmissionProofs`, from `AdmissionAssumption` (the lock wait is shorter than the
  lease's grace, the primary's share shorter than the timeout; limits are numbers).
  `IInv` adds to the checked invariants why they hold. `Leased`: each attempt at the
  provider has a row that expires after the call's deadline, because the grace
  exceeds the age of the clock it was written by; `AnsweredByDeadline` then makes it
  count for any worker that asks, so counting rows counts attempts
  (`CallingCounted`). `Recorded` and `MadeOnce`: each attempt of the window has a
  row, each row is of one attempt, and no lease is taken twice (`Past`), hence
  `RecentCounted`. `OneLeader` and `Led`: a call that waits without a timer waits for
  a leader whose deadline is no later than its own, so time cannot pass it
  (`DeadlinesKept`). The steps by which a call leaves its model are proved about once
  (`Departs`). From it: `ConcurrencyBounded`, `WindowBounded`, `DeadlineHolds` and
  `OneFlightPerKey`.

* `DictionarySyncProofs`, from `SyncAssumption` (the bounds are natural numbers, `None`
  is no worker and no administrator), for every number of entries, workers,
  administrators, requests, changes and revisions. `LockHeld`: whoever is between `Lock`
  and `Publish` holds the lock, so publication is serial, crashes included.
  `SnapshotsFit`: a snapshot under the lock lies between the file and SQL and holds what
  was acknowledged, so an export moves the file forward only (`ExportsGoForward`) and a
  publication with "synced" promises what the file holds (`SyncedIsTrue`).
  `PromisesKept`: past promises never change and grow with the revision. `GoodEntry`,
  `GoodBase`, `GoodRequest`: a label is read before the data it stands for, and data read
  later holds more (`LabelsAreHonest`). If the revision is the same at both ends of a
  request, so is the label between them (`AnswersArePublished`, with `AiAtTheEnd`: only
  the last step says whether the AI's result stands). `TypesKept` is the type invariant.
* `ModerationProofs`, from `ModerationAssumption` (there are keys and workers), for every
  number of keys, meanings, calls, workers and rows. `CallOK`: what a transaction has read
  of its key (no open row, the row's suggestions, the entry and its meanings, its author)
  still holds unless `overlapped` says that another one has since committed what makes it
  untrue. A step either reads (`ReadStep`) or writes rows of its own key (`WriteStep`),
  and then leaves the other calls right: those on other keys and those that read another
  kind of row because nothing of theirs changed (`Spares`), the rest because they are
  overlapped (`WritesLeaveOthers`). The open rows of a key are counted against the
  insertions that raced (`Inserting`: an insertion that nobody overtook found none). With
  `Entered`, that the entry of an approved row is active, a reviewer's and has its meanings
  whatever became of the row, follow `ReviewedOnce`, `ApprovalsLast` and
  `NothingWrittenOver`. `TypesKept` is the type invariant.
* `AccountsProofs`, from `AccountsAssumption` (there are users and workers, finitely many
  logins; a budget and a lock of at least one), for every number of accounts, logins,
  requests, workers and failed statements. `IssuedKnown`: a token that was handed out has
  an active row, or was revoked, was never recorded or went with its account, so whoever
  is refused has one of these reasons (`NobodyElseRefused`). `RevokedEnded` and `Known`: a
  revoked token has no active row, so it passes the check of the row only where the table
  is unknown (`RevokedTokensRefused`). `Counted`: every guess is counted, about to be
  counted (`Failing`) or lost to a failed statement; at a full counter whose lock has run
  out the next failure locks again, so only the logins under way can add to it
  (`GuessesStayBounded`). Rows are written for accounts that exist and go with them
  (`NothingOutlivesItsAccount`). `TypesKept` is the type invariant.
* `ProviderProofs`, from `ProviderAssumption`, for every number of calls, users and
  texts. `Announced`: the breaker's `openUntil` is the end of the longest wait announced,
  since `Trip` never moves it back (`WaitsAreKept`). `EntriesKeyed`: an entry of the cache
  is under the user and the text its answer was made for (`AnswersStayOwn`).
  `StreamsWhole`: "stop" comes with the last part only, and every other end is an error
  (`StreamsAreWhole`). `TypesKept` is the type invariant.
* `LiveProofs`, the stream, from `StreamAssumption`, for every number of chunks, jobs at a
  time, places in the queue and failed reads. A chunk is answered once (`AnswersStay`), so
  what an event says of the answers stays true wherever it waits: with the producer, in
  the queue, with the consumer or at the client (`EventsTrue`). "verified" then means
  that every chunk was confirmed (`VerifiedMeansAll`); the final event is made when
  every job is done, so it counts what any partial did, unless a read failed
  (`ProgressIsKept`); once the consumer knows that the dictionary
  changed it shows no edit any more (`NothingStale`). `TypesKept` is the type invariant.
* `LiveProofs`, the rules, from `RulesAssumption`, for every set of texts of any length,
  phrase index, context phrases, frequencies, budget and sizes of segments and chunks. The
  invariants that the run checks are not inductive: they speak of finished requests and of
  one output. `RulesInv` says what holds after each segment (`Reached`: the words up to the
  next segment are restored one for one; `Placed`: the spans fit the output so far;
  `Budgeted`: what was written was paid for and is among the keys tried, and `Entire`: a
  text of one segment shows what its words expand to) and of every result in the cache
  (`SegmentsSound`), since a later request may join any of them. The steps are
  proved once for a segment (`JoinedSound`, `JoinedFirst`) and apart from it for what it
  gives (`ResultSound`), with or without the cache (`CachedKeeps`, `ExpandedKeeps`). Below
  them are the lemmas about the operators: `SpansOfFit` (an output only grows at its end, so
  a place measured in it stays), `ScanFindsPhrases`, `RestoredKeepsWords`, `TriedPaid`,
  `KeysTyped`, `SegmentEndBounds`, `ChunkedWhole`, and `PlainShown`: the output of matches,
  consumed words and values is that of the reference reading, because after every place
  that the scan reaches both have shown the same. From it: `WordsAlwaysKept`,
  `SpansAlwaysTell`, `PendingAlwaysBounded`, `ChunksAlwaysWhole`, `LongestAlwaysShown`;
  `RulesTyped` is the type invariant.

  What a recursive function computes is induction over data. The library's induction
  theorems take an operator and cannot be used, so it is done with sets: a set that holds 0
  and every successor of a member is `Nat` (`SetInduction`, from the least element that
  well-foundedness gives a set of numbers), and its bounded forms `Upward` and `Downward`.
  A definition f[i] == ... f[i + 1] ... is a choice among functions that satisfy it;
  `OutputsRecurs`, `ScanRecurs`, `WordsOfRecurs`, `ReferenceRecurs` and `ChunkedRecurs` show
  that there is one, and therefore that the one chosen recurs.
* `WorkspaceProofs`, from `WorkspaceAssumption`, for every set of texts, of users and of
  tokens a tab can hold, any number of visits and revisions. `AnswersOfRun`: what the page
  shows is of the effect that runs, and a reply of a superseded one, whose data its token
  still names, may not publish (`AnswersAreCurrent`, `ShownIsOfPage`). Rows: a save is
  under way at most once (`OneFlight`), no save of a visit repeats the row last written in
  it (`NotAgain`), which is what the page remembers (`LastLogged`), and rows of an older
  visit or of a token that was given up do not come back (`Forward`, `OldFirst`); together
  they are `RowsRecordedOnce`. `TokensMoveForward` is the action property that a page that
  is up never returns to the token the tab had kept. `WorkspaceTypes` is the type invariant.

Only model-checked: liveness (`RequestsAnswered`, `CallsEnd`, `StreamEnds`, `JobsStop`,
`SignsOut`, `Settles`), which is beyond the prover. Every safety property that a passing
run checks is also a theorem.

## Findings

With a run:

1. A number inside a phrase disappears (`phrase_numbers`). The phrase index scans the
   alphabetic words alone, so a phrase matches across a number that stands between its
   words, and the expansion replaces all of it, the number included.
2. The stream shows what the final answer may not (`live_boundary`). A partial snapshot
   shows the edits of the chunks answered so far; the final one shows them only if the
   whole review is usable, against the comment in `live_stream.py`.

With a configuration:

3. A request loses its own result (`MCOwnEvidence`). `capture` does not refresh the
   revision of a request that reused a row, so that a concurrent revocation still
   counts; but the request's own evidence moves the same sum, and its last check
   then fails. The user gets the baseline although nobody else touched the store,
   against `shared-meaning-policy.md:13`.
4. A deletion is not in force until it is exported (`MCDictionaryDelete`). Request
   data starts from the JSON file and is overlaid with SQL's active rows; a
   deactivated row has nothing to overlay with. After a failed export the old JSON
   meaning is served with SQL ready, against `dictionary-consistency.md:34`.
5. Results of an outage outlive it (`MCDictionarySegments`). Segment results have no
   expiry and are keyed by revision, which an outage of SQL does not move. A segment
   computed from an outdated JSON file is reused after SQL is back, by a request
   whose own data is current.
6. A cancellation spreads (`MCAdmissionCancel`). The future of a flight is settled
   with whatever its initiator ends with, `CancelledError` included. When the
   initiator's task is cancelled, by its client or because the primary model's share
   of the time is over, identical calls that wait end in `CancelledError` although
   nobody cancelled them. The initiator goes on to the fallback model; they do not,
   since `FallbackClient` catches errors only. The comment at `admission.py:141` says
   the initiator owns cancellation and `ai-runtime.md:72` that a timeout keeps the
   text and reports a partial scope.
7. Seeding brings back what was removed (`MCModerationSeed`). The seed script restores a
   meaning that an administrator deleted or replaced, against the comment at
   `abbreviation_repo.py:913`.
8. A login is undone by an older check (`MCWorkspaceSession`). The refusal of a token
   stored before a reload arrives after a login and drops the new session, against
   the comment at `AuthContext.tsx:95`.

## Plan

What is left, in order:

1. `LiveStream` composed with `Workspace`: the events of a stream against the versions
   of the page's effects, and with `Admission`, since finding 6 reaches it: its
   producer catches `Exception` only, and its consumer waits for an event that a
   cancelled producer never sends.
2. An abstract queue of suggestions that `Moderation` implements outside the overlaps.
3. The administrators' pages and the disambiguation hook in `Workspace`.

Not modelled: the prompt, the parser and the text policy of single edits of the semantic
verifier, and spelling, emoji, punctuation, elongation and capitals of the rules (string
work over large word lists, with golden tests); usage statistics (upserts nothing decides
on); routing and validation of the HTTP surface; the offline builders under
`backend/scripts`, which run by hand; rendering.
