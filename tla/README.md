# tubedepth in TLA+

tubedepth collects public YouTube data through a queue: clients submit jobs over HTTP or the command
line, worker processes claim and execute them against the upstream under a rate controller, results go to a
content-addressed store on disk with an index of artifact rows in PostgreSQL, and separate commands prune,
flatten and transfer what has been collected. This directory models the parts of it that have state,
checks them with TLC and proves with TLAPS the safety of each, for every value of the constants.

Line references are to `src/tubedepth/` of the repository.

## Inventory

| component | state | operations | interacts with |
|---|---|---|---|
| job queue (`repositories.py`, `worker.py`, `models.py`) | a row per job: state, attempts, lease, scheduled time, cancellation mark, result digest | submit, cancel, claim, reap, renew, requeue, fail or retry, settle, follow up | everyone: API, CLI, worker threads of several processes |
| worker pool (`worker.py`) | cost reservations, reserved count of a drain, stop event, pause row | serve, drain, pump, claim under the reservation, leave | job queue, rate controller, webhooks |
| rate controller (`egress/control.py`) | per (egress, lane): window, spacing, quarantine, streak, recovery count, requests in flight | acquire, release, is_available | worker threads, lane health |
| collection (`collection.py`, `payload_store.py`) | payload files named by digest, artifact rows with freshness | collect, cached, put, read, delete | worker, API, retention |
| retention (`retention.py`) | none of its own | prune: refuse, judge, delete rows, unlink, sweep | payload store, artifact rows, transfer |
| flattening (`flatten.py`) | a cursor row and five derived tables | run in batches | artifact rows, payload store |
| webhooks (`webhooks.py`) | delivered flag and attempts on the job row | deliver_pending | job rows, receivers |
| transfer (`transfer.py`) | none | copy every table to an empty database | every table |
| health (`health.py`) | counters per source, a row per lane | record, observe, snapshot | worker threads, API |
| API keys (`services/keys.py`) | key rows; a sliding window in memory | mint, verify, charge, revoke | API |
| HTTP API (`api/application.py`) | none of its own | submit, batch, list, read, cancel, pause | job queue, collection, keys |
| watchlist (`watchlist.py`, `cli.py`) | none | one pass queues every line not pending | job queue |
| schema versions (`schema_versions.py`, `fingerprints.py`) | version column of artifact rows | back-fill, withdrawn-payload gate | artifact rows, API |
| sources and parsers (`sources/`, `innertube/`) | none | fetch and translate a document | rate controller, by the errors they raise |

What is hard about it:

* **Interleaving over rows.** Only the claim locks its row. Every other handler reads a row with a plain
  SELECT, decides, and writes at commit the columns that changed. Cancel, reap, requeue, retry, settle and the
  heartbeat can all commit between another one's read and its commit.
* **Crashes.** A worker can die between any two commits; its rows wait for the lease to lapse and the reaper.
* **Time.** Leases, backoffs, quarantines and grace periods race with late answers and late commits.
* **Shared limits.** Window, cost shares and the drain limit are taken and given back by several threads on
  many exit paths.
* **Two stores.** A payload and its row are written in one order and deleted in the other, by two processes.

What makes each component correct: a job is executed by one thread at a time, at most `max_attempts` times
and is finished in the end; the reservations and permits equal what is really held; a quarantine is served in
full and remembered; a row always has its payload and garbage goes in the end; a flattened table holds every
observation once; a callback is owed until it is delivered or given up.

The `hazards` of `PROJECT.json` list the places in the code where each of these can go wrong.

## Modules

| module | models | abstracts from |
|---|---|---|
| `JobLifecycle` | what the queue promises about a job: the abstract specification | who does it, and how |
| `JobQueue` | the jobs table and all its writers | clock values, error columns, who claimed |
| `RateController` | one (egress, lane) entry and the threads asking it | floating point (fixed point of `Scale` units a slot), seconds (ticks) |
| `WorkerPool` | serve, drain, pumps, reservations, pause, stop | the row protocol (`JobQueue`), the window (`RateController`) |
| `Intake` | key check, submissions, batches, `enqueue`, the resident watcher | a job is its target and whether it is forced |
| `Collection` | the cache, bundles, artifact rows, back-fill, every route that hands stored bytes out | documents (a digest), one target, clock values (ticks) |
| `PayloadRetention` | put and record, prune step by step, crashes | content (a digest), age (young or old) |
| `Transfer` | the copy of the index to another database, with a prune of the target beside it | thirteen tables (two), columns |
| `Flatten` | passes over the index, the stored cursor, what they write | transforms (a snapshot and a set of comments), clock values (ticks) |
| `Health` | the row of one kind, written by every thread | instants (never, recent, stale), counts above `BROKEN_AFTER` |
| `Webhooks` | processes that sweep, post and settle callbacks | bodies, signatures, which terminal state |
| `JobQueueProofs`, `RateControllerProofs`, `WorkerPoolProofs`, `PayloadRetentionProofs`, `TransferProofs`, `FlattenProofs`, `WebhooksProofs` | the theorems about the module each is named after | |
| `ServiceProofs` | the theorems about `Health`, `Intake` and `Collection` | |
| `MC*` | the instances TLC checks | |

How they fit together. `JobQueue` is the table everything else goes through: `Intake` puts jobs into it,
`WorkerPool` decides which thread claims when, `RateController` decides between its `Grant` and `Refuse`,
`Collection` is what happens between `Grant` and `Collected`, and `Webhooks` starts from its terminal states.
`Collection` and `PayloadRetention` look at the same two stores, the first at what readers are shown, the
second at the files: `Collection` has a put and an unlink of one step each, `PayloadRetention` splits them.
`Transfer` composes the copy with the two refusals of prune, for which it has the same definitions.
`JobQueue` implements `JobLifecycle` through a refinement mapping (`LifecycleIsKept`): `held` is whether some
thread executes the job, `state` and `attempts` are the columns of its row. `Health`, `Intake` and `Collection`
share no state; `ServiceProofs` extends all three, which is why their initial predicates, next-state relations
and specifications carry the name of their module.

### JobQueue

A session of the code is two steps: `Read...` copies the row into `seen` (a thread), `client` (a
cancellation) or `reaping` (a reap), and `Commit...` writes it back through `Written(old, new, current)`: the
columns the session changed, over the row as it is by then, which is what the ORM's flush sends under READ
COMMITTED. `Claim` is one step because `FOR UPDATE SKIP LOCKED` and the guarded update hold the row. The
phases of a thread (`pc`) are the points of `Worker._execute` between two sessions. `Grant` and `Refuse` are
the rate controller's answer, `Collected`, `DomainError` and `UnexpectedError` the outcomes of a collection.
`beat` is the heartbeat thread, whose commit may arrive after the collection it belonged to, since it is
joined for one second. `Crash` loses everything a process has not committed; `DatabaseError` ends an
execution with its row left running.

`Exclusive`, `TriesAreCharged`, `QueuedHasAttemptLeft` and `RunningCanBeReaped` are the safety of the queue:
no two threads on a job, no try that is not charged and none beyond `max_attempts`, and no row that a crash
would strand. `FollowUpsHaveAParent` and `FinishedStays` relate a row to its history.
`EveryJobFinishes` is the liveness: again and again, every job that was submitted is in a terminal state.

`LifecycleIsKept` is the whole of it in one sentence: each step of each handler, on each job, is one of the
moves `JobLifecycle` allows. It says what the invariants cannot: that only a claim charges an attempt and only
a refusal refunds one, that a held job ends or goes back in one move, that a job nobody holds runs only if a
process has died.

These hold **with one worker process**, which is what the shipped unit files run. With two, `Exclusive` does
not hold (run `two_workers`): the reaper writes the state it decided on an old row. The other invariants fall
with it, each in a variation of that run. What two processes keep are the types and `FinishedStays`.

### RateController

`acquire`, `is_available` and `release` are one step each because the code holds one lock around each. The
window is an integer number of `1/Scale` slots. `CeilingBelowRecovery` is an assumption on the configuration:
a ceiling above `RECOVERY_SUCCESSES`, which `TUBEDEPTH_WINDOW_CEILING` permits, lets requests that were out
when the lane was blocked clear the streak while the quarantine lasts. `StreakOutlastsQuarantine` needs it.
`PermitsAreHeld` equates the count of a lane with the requests that are out, `QuarantineIsServed` says that no
late answer shortens a quarantine, and `AdmitsAgain` that no lane stays shut for good.

### WorkerPool

A worker is started either as `serve` (`limit = NoLimit`) or as one drain of `work --once`. Pumps run the
loop of `drain`, one step per lock or session. `DatabaseError` ends a pump at any session of its loop, that of
the pause row and of the claim included, where nobody gives the reserved count back. `SharesAreKept` equates the
reservation counters with the threads between their claim and `_leave`, on every exit path. `StopIsPrompt`,
`LimitIsKept` and `DrainsDry` are about what several pumps do to one shared bound. `QueuedIsClaimed` is the
liveness.

### Intake

A client has one request at a time, sent to the API or typed at the command line. The key check is the code's
sequence of reads: the row is loaded, judged, stamped and charged, and the stamp is committed, with
revocations between any two of them. The submission flushes one row per target in one session and commits it
after the answer has gone out, as the framework does; a target that its normalizer refuses, a failing flush
and a failing commit roll the session back. A watcher reads the list, queues a job for each line and each
follow-up in one session, and waits; a resident one ignores an unreadable list after its first pass.

`SubmissionIsWhole`: a batch is queued whole or not at all, whatever fails in the middle of it.
`RevokedIsRefused`: the verification that writes `last_used_at` back to the key's row never takes a revocation
back. `LinesKeepBeingObserved`: a line that stays in the list has its source asked again and again, which is
what the forced first job of a line is for; with the cache in its way the series of observations would stop.

### Collection

Workers collect one kind each: `Lookup` reads the freshest row under the current cache key, `Look` checks that
its file is there, `Read` reads it; otherwise the source answers, the file is put and the row recorded
with an instant taken before the commit. A composite collects its parts the same way and stores the set of
their digests. A prune deletes rows and then unlinks files; a back-fill reads the rows without a version,
recomputes the key of every version a kind has had, and names the matching rows batch by batch.
Clients submit (answered from the cache), read a payload by digest, read a job's result and walk the pages.

A page is any sequence of the rows left that is in their order, leaves only later ones behind and is short only
if it leaves none (`Pages`): the one that `ORDER BY` and `LIMIT` return.

`WithdrawnIsNotServed` follows bytes of a retracted version through every route. `WalkIsExact` is the promise
of the page cursor. `FileErrorsNeedAnUnlink` says that a missing file is only ever the work of a prune between
a check and a read. `VersionsAreTrue` says that the back-fill never guesses.

### PayloadRetention

A file is written in two steps because `write_bytes` truncates before it writes; `prune` is a step for each
refusal, for the session that judges, for its commit, for each unlink and each swept file. Rows and files are
young or old; `Untouched` says that nothing turns old while a put or a prune is under way (thirty days and an
hour against seconds), and that a prune takes its cutoff once. `risked` is a history variable: the digests put
again over an existing file during a prune, or by a collector that was killed while it wrote.
`RowsKeepPayloads` says these are the only ways a row loses its payload. `SweepIsProportionate`: a prune sweeps
fewer files than it leaves rows, although rows and files change after its refusals have judged. `OrphansGo`: a
file nobody names is gone in the end.

### Transfer

`Begin` is the preflight: the schema of the source current, some schema at the target (`is_migrated` looks for
one table, whatever release made it), and the target empty; a refusal changes nothing and is no step.
`ReadTable` is the one SELECT of a table, `WriteBatch` a session of the target, `Recount` the count after the
last batch. A row that is already there fails its batch because identifiers move with their rows, and a target
of an older release fails every batch. Beside it, workers record at the source or at the target, and a prune
runs on the target in three steps: judge, delete rows, remove files. `EmptyTarget` is the operator who does what
every transfer that fails in its copy asks for. The model does not assume that nothing else is using the
target: another transfer may be in the middle of its copy, one may have returned, a prune may have judged.
`undercut` is a history variable: the transfers under which the target was emptied.

`SuccessIsWhole`: a transfer that returns has moved everything it found, although two may write at once and a
retry may follow a crash in any batch, unless the target was emptied while it ran. Without that exception it
would not hold: a transfer recounts the table it has just copied and none of those before it. The recount
compares numbers only; that this is enough rests on the target having been empty and on every writer having
unique keys. `SweepSparesTheMoved`: what prune may take of the source's payloads is less than what the index
keeps, and once a transfer has returned whole nothing but rows recorded at the source while it ran, even if the
target is emptied during the sweep.

### Health

A record loads the row, decides, and commits the columns it changed. `alone` and `failed` are history: which
records have overlapped no other, and the failures since the last success among those. `FailuresAreEarned`
bounds the counter by them. The invariant would not hold of an *exact* count: an overlapping success may be
undone by a failure that had loaded the row before it, and the property says so. `StatusFollowsTheSource` is
what the dashboard needs: errors of this kind do not last.

### Flatten

A pass is a process: `StartPass` reads the stored cursor, `ReadBatch` reads the next settled rows in a
session of its own and moves the cursor in memory, `Prepare` reads one payload, or `PayloadRaises` ends the
pass at it, `WriteBatch` is the write transaction with the statements of every prepared artifact, each in its
savepoint, and the stored cursor.
A rehearsal does all of it and rolls the transaction back. Around it rows are fetched, commit late
(`CommitWithin`, which the code assumes to be within `SAFETY_LAG`: `ConstantsOK`), and are pruned; an operator
clears the cursor as `tests/test_flatten_service.py:123` does; a pass dies. `refused` is whatever the database
does not take, a lost deadlock or a timeout included. `skipped` and `written` are history variables.

A payload file is missing, empty, cut or whole. A put of the same content opens it, which empties it
(`PutAgain`), and writes the bytes (`WritePart`, `WriteRest`); a process that dies leaves it as it is
(`StopWriting`). What a pass makes of it: a missing file, an empty one (which decompresses to nothing, and
nothing is no JSON) and one whose content no transform accepts are counted. Of the beginning of a gzip file
`gzip.decompress` raises `EOFError` or `BadGzipFile`, which nothing catches: the exception ends the pass before
the cursor of its batch is stored. `--every` and the timer try again, from the stored cursor, and meet the same
file.

`CursorIsHonest` is the promise of the cursor: nothing in the index at or below it is missing from the tables
except what a pass has counted. It relates the tables to the cursor, so overlapping passes that take the
cursor back are harmless. `CommentsFollowNewest` is the promise of the upserts. The statements of a batch are
executed one after the other; `Upserted` says what they leave of a comment: the first of them
inserts it if it is not there, and the newest of them (the first of equals) writes its columns if it is newer than
the row. The comment on them also says
that the first insert is the earliest observation: that fails when an earlier harvest is refused or missing at
first and replayed after a later one, so no property says it. `BundlesAreWhole` is what the savepoint of an
artifact is for. `PassesEnd` holds of a rehearsal too, whose cursor moves in memory only, and
`EveryArtifactIsUnpacked` says that what stays in the index reaches the tables, provided that from some time on no
file is cut. The premise is about the files of all artifacts, because no pass gets past a cut one; without it the
property is `NothingIsFatal`, what the docstring of `FlattenService` promises, and does not hold (run
`torn_payload`).

### Webhooks

A sweep reads the list of owed jobs once; each post is answered, refused or answered too late; `_settle` is a
read and a commit of the columns it changed. `accepted` and `unheard` count at the receiver. The docstring's
"at-most-once on the happy path" holds for one process; `DuplicatesHaveAReason` says what holds for more: one
acceptance for each process, lost answer and death. With three processes a count is not only overwritten but
taken back, even from its maximum, so a job can be posted more often than `maximum_attempts`, and by more than
the number of other processes. `EveryJobIsAnnounced` says that it still ends: delivered or given up, for good.

## Runs

| run | instance | shows |
|---|---|---|
| `one_worker` | 1 process of 2 threads, a listing and its follow-up, 1 client, 2 attempts, 1 fault | the queue's safety, the refinement, and that every job finishes |
| `two_workers` | 1 job, 2 processes, punctual renewals, 1 crash | *violated*: two reaps of one lease, two executions |
| `rate` | 4 threads, ceiling 3 = recovery 3, quarantines of 2, 4, 6 ticks | permits, quarantine, recovery, admission |
| `pool` | 2 pumps, 2 expensive jobs and 1 cheap one, 2 lanes, 1 retry, 1 error, 1 operator turn | reservations, limit, stop, liveness |
| `intake` | 1 client, 1 key, singles, batches and `enqueue`s with good and bad targets, 1 watcher over 4 lists, 1 fault | wholeness, revocation, observation |
| `collection` | 3 rows (1 may be old), 1 worker, a bundle of two parts, a kind with a retracted version, pages and batches of 1 | routes, pages, versions, missing files |
| `retention` | 2 digests, 2 rows, 2 collectors, 1 fault | payloads, proportionality, orphans |
| `transfer` | 2 runs, 5 artifacts (1 aged, 1 recorded late), 1 job, batches of 2, 2 faults | wholeness, prune beside a transfer, a target emptied in use |
| `flatten` | 3 artifacts (a bundle, a harvest of its comment, a broken one), 2 passes, one limited to 1 and one that may rehearse, batches of 2, lag 1, 1 payload put again, 1 fault | the cursor, the upserts, savepoints, liveness, with a payload that is empty or cut for a while |
| `torn_payload` | 2 artifacts, 1 pass, 1 payload put again, 1 fault | *violated*: a cut payload stops every pass |
| `health` | 2 threads, broken after 3, 1 refused commit | counters, status |
| `webhooks` | 3 processes, 1 job, 3 attempts, 2 lost answers, 1 dead sweep | duplicates, liveness |

Bounds. Two attempts are what expensive kinds get, and give a first try, a refund and a last try. Two threads
and one client are enough for every pair of sessions to interleave on a row; a fault bound of one lets any
step be the last of a process, and the restart runs the whole recovery. Two pumps give one expensive slot,
so full, free and last-pump cases all occur. Tick counts of quarantine lengths reach the ceiling of the
backoff. Two rows over two digests give both the shared file and the separate one. Flatten's `Horizon` of two
instants gives rows of one instant and of different ones, in and against the order of their identifiers; a
commit may be as late as the lag allows, and three rows with batches of two and of one give full batches,
short ones and a batch boundary between rows of one instant. In `collection` freshness and maximum age are
one tick each, as both are thirty days for captions; three rows make a page boundary on either side of a row
that is pruned, and one row may exist before the version column. In `transfer` five artifacts in batches of
two end in a short batch; two young rows among them let prune judge a part that is more than half. In `health`
two threads suffice for a lost update and a collision; three do not finish in the time a run may take, and
`FailuresAreEarnedByAny` is proved for any number. In `webhooks` it takes three processes for one count to be
taken back twice. In `flatten` the payload of one artifact (`Rewritten`) is put again, once, which leaves its file
empty, cut or whole for any pass that comes by; two more artifacts come before or after it. In `transfer` the
faults include the times the target is emptied while it is in use. No run has a job of a kind without a source:
from "decided" on it goes the way of an unexpected error, and the theorems hold for any `Unknown`. `MaxTurns`,
`MaxRetries`, `MaxErrors`, `Faults`, `MaxFaults`, `MaxPuts`, `MaxUnheard`, `MaxEach`, `Rewritten`, `Expiring`,
`Late` and `MaxStreak` only bound how often the environment acts, or how much of it is told apart.

Deadlock checking is off for `WorkerPool`, which stops when told to, `Transfer`, which is done when it has
returned, and `Webhooks`, where nothing is left to do once every job is announced.

Fairness. Sessions of an execution and of a reap commit, collections end, leases lapse and backoffs pass: weak
fairness of those steps. A cancellation or a heartbeat that has read its row need not ever commit.
`Restart=always` in the unit is weak fairness of `Restart`. Claim and grant are disabled and enabled again as the
reaper, the pause row and the lane change; every pump tries a claim before it returns and a refused job asks
again, so they get strong fairness. A flatten process without `--dry-run` starts pass after pass (`--every`, or
its timer); no writer need ever finish a payload. Every drain begins and ends with a sweep of callbacks. In
`PayloadRetention` prune is run by a timer, again and again. In `Intake` each queued job runs in the end, since
the claim takes the oldest and the worker is not paused, and a resident watcher takes its next step. In `Health`
the kind keeps being collected with ends that say something about it, and a record that has loaded the row
commits. `Collection` and `Transfer` have no liveness property. Submission, cancellation, crashes, verdicts and
operators are under no fairness.

## Proofs

`JobQueueProofs` proves, for any number of jobs, threads, clients and faults:

* `Typing`: `Spec => []TypeOK`, for any number of processes. The strengthening `Typed` adds that the
  attempt count of any row a thread is about to refund is positive or clipped, that a busy thread holds a
  job (`BusyHolds`) and that a decided verdict is terminal (`DecidedIsTerminal`).
* `ExclusiveWithOneProcess`, `TriesAreChargedWithOneProcess`, `QueuedHasAttemptLeftWithOneProcess`,
  `RunningCanBeReapedWithOneProcess`: the four safety invariants under the assumption `OneProcess`.
* `FollowUpsHaveAParentWithOneProcess`: a listing whose follow-ups are queued keeps its result, under
  `OneProcess`.
* `FinishedStaysAlways`: the action property, for any number of processes.
* `LifecycleIsKeptWithOneProcess`: the refinement of `JobLifecycle`, under `OneProcess`.

None of the four invariants is inductive: what a commit writes depends on a row read earlier. `Invariant ==
Typed /\ Safe` therefore relates every open session to the current row: what a cancellation or a thread has
read can differ from the row only in ways its commit preserves, a job held by a thread is not in an open reap
(a process reaps only when it is not draining, and there is one process: this is where `OneProcess` is used),
and a held job has been charged for its try. `Next` splits into steps that leave threads and rows related as
they were (`SafeQuiet`), and one lemma per commit. Rows are handled by lemmas about `Written` and the
operators that make a new row.

`History` adds what the follow-ups rest on: the row of a job that a thread holds and has not settled is
running, or cancelled by a session that had read it earlier, and has no result (`HeldIsOpen`); the same is true
of what the thread has read (`SeenIsOpen`) and of a row a reap is about to write (`ReapedIsOpen`). A result is
therefore written once, by the settlement that makes the state final (`ResultIsFinal`), and the fan-out
comes after it (`FanOutHasResult`). Each commit lemma about `History` also says what the commit leaves of
state and attempts; that is what the refinement needs. It goes by job: a step either leaves a job alone, or it is
one of creation, cancellation, start, end, return, release and reap, and each of these is a move of `JobLifecycle`
(`MoveStays` to `MoveReaped`). `FinishedStaysAlways` needs only the types and that a reap writes nothing to a
row it has not read running (`ReapingIsRunning`), so it holds for several processes.

The other seven proof modules hold for every value of their constants that the named assumptions of the model
allow, in two layers: the types (with whatever of the local state is needed, often named `Base`), and an
invariant for the properties.

* `RateControllerProofs`: `PermitsAreHeldByAny`, `StreakOutlastsAnyQuarantine`, `QuarantineIsServedByAny`. The
  requests that were out when the lane was blocked are at most the ceiling, which is below the successes that
  clear a streak (`CeilingBelowRecovery`), so the recovery count cannot reach it during a quarantine: the
  invariant adds the recovery count to the requests still out.
* `WorkerPoolProofs`: `LimitIsKeptByAny` counts the pumps between reservation and claim together with the jobs
  started; `StopIsPromptForAny` counts the pumps past their check together with the late starts;
  `SharesAreKeptByAny` is inductive by itself once it is known which phases hold a job. `DrainsDryForAny` adds
  that whatever is queued or running has its place in line: a pump that ends its work takes only its own job
  out of it, since no two pumps work on the same one (`Lined`). With nobody else at work no cost is full,
  so a claim that finds nothing has seen the whole line.
* `PayloadRetentionProofs`: `SweepIsProportionateForAny` adds to what was swept what may still be swept, which
  is at first the orphans that were judged. `RowsKeepPayloadsForAny` needs what a prune in flight may assume of
  a digest it is about to remove and that nobody has risked (`Unneeded`): no row that stays and no collector
  between its write and its row relies on it. It holds because an aged file is older than any put under way
  (`AgedIsOld`), because nobody puts again what an expired row names once the prune has begun unless the file
  is noticed to be there (`NotPutAgain`, `DoomedAreStored`), and because a file that is torn has a writer.
* `TransferProofs`: `SuccessIsWholeForAny`. A run that is past a table, and under which the target was not
  emptied, has read it from the source and written it to a target that has lost nothing of it but what prune
  deleted. `SweepSparesTheMovedOfAny`: among the rows that have not aged out, what a prune is about to sweep was,
  when it judged, less than what it keeps; a prune that judged after a transfer had returned can find nothing of
  the source there but late rows, because by `SuccessIsWhole` the index names all the others
  (`JudgedInProportion`, `JudgedAfterTheMove`), and the rows it deletes are all old. The source gains rows during
  a sweep, but none whose payload it has found (`FoundIsKept`, and identifiers are not used again), so emptying
  the target meanwhile makes no difference.
* `FlattenProofs`: `CursorIsHonestAlways`, `CommentsFollowNewestAlways`, `BundlesAreWholeAlways`. Every cursor,
  stored or in memory, is behind `Lag` (`CursorsAreSettled`) and every open transaction is younger than
  `CommitWithin` (`OpenIsYoung`), so what commits later sorts after every cursor: this is where
  `CommitWithin <= Lag` is used, and the one place. What a pass that is no rehearsal has passed by is accounted
  for or in its batch (`PassesAreHonest`); storing its cursor then makes the stored one honest. The upserts are
  handled by lemmas that say which sighting a comment shows after a batch, given which it showed before. The
  payload files need no invariant: a pass that raises at one stores nothing, as one that dies.
* `ServiceProofs`, of `Health`: `FailuresAreEarnedByAny`. What a thread has loaded is bounded by the failures
  noted, unless its record overlapped another one.
* `ServiceProofs`, of `Intake`: `SubmissionIsWholeForAny`, `RevokedIsRefusedForAny`. While a request queues, the
  targets it has flushed and those that were held are exactly the ones before its position (`Covered`), so at
  the commit they are all of them; rows are born in no other step (`BornInTheEnd`). A withdrawn key says
  so in its row, whatever stamps were open when it was withdrawn (`WithdrawnIsRevoked`): a stamp writes one
  column.
* `ServiceProofs`, of `Collection`: `WithdrawnIsNotServedForAny`, `WalkIsExactForAny`,
  `FileErrorsNeedAnUnlinkForAny`, `VersionsAreTrueForAny`, from one invariant (`Collected`). A row carries the
  key of its kind at the version that produced it (`RowsAreOwn`), which different versions do not share, so a
  back-fill that finds a key knows the version (`NamingIsTrue`) and a lookup under the current key finds a row that
  is not retracted; what a client is about to be handed is backed by such a row from the lookup or the gate on
  (`HandedIsGood`), and rows are not deleted from history. A file that was seen is there unless it was unlinked
  since (`SeenIsThere`). The pages of a walk are one strictly ordered sequence, and a row that was there all along
  and is not in it comes after its end (`WalkIsOrdered`).
* `WebhooksProofs`: `DuplicatesHaveAReasonForAny`. Until a job is delivered, every acceptance is held by a
  sender that has not settled it, or is a lost answer or a death; afterwards only the senders that still have
  it on their list can post it, and the two sets are disjoint.

The assumptions are those of the modules (`ConstantsOK` and its like: finite sets, positive bounds,
`CommitWithin <= Lag`, `CeilingBelowRecovery`), and `OneProcess` where a theorem names it. It is not an
artefact of the proof: run `two_workers` violates `Exclusive`. Every invariant and action property of a run, and
the refinement, is stated by a theorem. Only model-checked are the liveness properties, which need
fairness and `ENABLED`: `EveryJobFinishes`, `AdmitsAgain`, `QueuedIsClaimed`, `OrphansGo`, `PassesEnd`,
`EveryArtifactIsUnpacked`, `EveryJobIsAnnounced`, `LinesKeepBeingObserved` and `StatusFollowsTheSource`. No
theorem says what a transform or a fold computes for every input: the models have none.

## Not modelled

Sources, parsers and identifiers are stateless translations; the rest of the system sees a result, a domain
error or another exception, and `JobQueue` chooses among them. Database engines, settings and logging are
plumbing. Column values nobody reads (`claimed_by`, error text, `finished_at`) are left out. The rows of lane
health are telemetry: the worker writes them last, ignores a failure to, and nobody decides by them; an older
observation can land on a newer one and show a quarantined lane as open until the next job of that lane
(`health.py:175`). `mint`, `listed`, the read-only views of the API and the playground change nothing.
Kinds whose cache key gained a parameter, so that old rows match no key at all, are left out of `Collection`.

## Disagreements

Where the code and a text about it differ, as met while modelling. The first two are the runs `two_workers` and
`torn_payload`; the models follow the code in the others, which are no properties.

* Two workers never run a job twice (`docs/definition-of-done.md:55`): the reaper's commit lands on a newer
  claim (`repositories.py:158`).
* "Nothing here is fatal per artifact", says `FlattenService`, and "a pass that stopped on the first unreadable
  blob would stop for good" (`flatten.py:425`). A payload cut off by a death or a full disk while it was put again
  (`payload_store.py:36`) raises what the pass does not catch (`flatten.py:622`): this pass ends, and so does every
  later one, and nothing behind that artifact is unpacked until retention deletes it or its content is collected
  once more.
* The outcome of a transfer is "confirmed by re-counting the target after every commit" against "one table
  arriving empty while the rest move" (`transfer.py:60`). It is recounted once per table, and that table only
  (`transfer.py:217`): if a second transfer, failing on the rows of the first, has the target emptied, the first
  returns although the tables it had copied are empty. `SuccessIsWhole` excepts it.
* The docstring of cancel says of a marked job that "the worker will not retry it" and "its result is
  discarded rather than stored" (`repositories.py:107`). A permit refusal and a reap put a marked job back
  (`worker.py:679`), and the mark is read in one session and the result written in the next (`worker.py:484`).
  The comment there says that the result of a cancelled job is not left in the cache: its artifact row is.
* Lanes exist so that one is not throttled by another (`egress/control.py:33`); a refused job keeps its place at
  the head of the queue and is claimed again at once, ahead of the jobs of open lanes (`worker.py:374`).
* Successes on both sides of a throttling count together, although `RECOVERY_SUCCESSES` says consecutive
  (`egress/control.py:73`).
* Cheap jobs "always have somewhere to run" (`worker.py:53`); a pump that finds only inadmissible jobs leaves
  for the whole drain, so a cheap job may wait for an expensive one.
* Payloads are written before their row and deleted after it, so that a row never points at nothing
  (`retention.py:90`, `:279`). The unlinks are decided before the deletions commit (`retention.py:283`): a
  payload put again in between loses its file.
* Going over the allowance of a key is a 429 (`docs/api.md:75`); the window lives in a service that is built for
  each request (`api/application.py:477`), so only an allowance of zero refuses.
* A submission is answered 202 before its session commits. `submit_job` reads a cached payload a second time,
  after the check that it is there, which an unlink turns into a 500; a bundle fails whole in the same way.
* The later jobs of a watch line "ride the cache the first just wrote" (`cli.py:333`): with two threads they may
  run before or beside it. A watcher queues a line again although its last job is still waiting.
* A second transfer "would silently duplicate every observation" (`transfer.py:120`): identifiers are moved with
  the rows, so it would fail on its first batch. `retention.py:157` speaks of the second of six tables; there are
  thirteen. The recount of a transfer is by number only.
* `blocked` and `last_error_code` of a source can come from different failures; two first records of a kind
  collide, and the loser's execution leaves its job to the reaper (`health.py:98`).
* `first_seen_at` of a comment is not the earliest when an earlier harvest was refused, missing or unparsable at
  first and is replayed after a later one (`flatten.py:312`).

## Plan

What is left: an abstract specification of what a callback promises, with `Webhooks` shown to implement it,
and one of the index as its readers see it, with `Collection` shown to implement it; the terminal states of
`JobQueue` as the environment of `Webhooks`.
