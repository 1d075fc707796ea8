# Fanfluence Fansuite in TLA+

Fanfluence Fansuite runs AI-generated creator characters: a studio in which
their pictures, videos and scripts are made, and the relations to their fans.
The server (`src/apps/server`) is one Node process per instance on a SQLite
database (better-sqlite3, so every SQL statement is synchronous); several
processes may open the same database file. This directory models the server:
what coordinates work, what its users edit, and how it talks to providers. TLC
checks the models on small instances, TLAPS proves theorems about them for every
instance.

All source paths below are relative to `src/apps/server/src/`.

## 1. Inventory

What runs concurrently: JavaScript code between two `await`s is never
interrupted inside a process. Interleaving comes from (a) `await`s, timers and
`setImmediate` inside one process, (b) other processes on the same database
file, between any two SQL statements, and (c) the end of a process at any point.
No handler for unhandled rejections is installed, so a rejected promise nobody
awaits ends a process.

| Component | State | Operations | What makes it correct |
|---|---|---|---|
| Job status machine `domain/jobs.ts` | - | `canTransitionJob`, `isTerminal`, `backoffMs` | the table of legal moves the queue consults |
| Job queue `jobs/queue.ts` | table `jobs`: status, lease, attempts, runAt, result | `enqueue`, `claim`, `heartbeat`, `progress`, `complete`, `markSubmitted`, `fail`, `cancel`, `retry`, `reclaimExpired` | one row per key; a live lease is exclusive; lease and status agree; nothing vanishes |
| Worker pool `jobs/worker.ts` | running, timers, runs in flight; one abort signal and one `parked` flag per run | `start`, ticks, `run`, `stop` | every run ends with its row settled; concurrency is a bound; due jobs are served |
| Event bus `events/bus.ts` | table `events`; `draining`, `drainQueued`, pending callbacks | `subscribe`, `listen`, `emit`, `drain` | no uncommitted event is seen; none is forgotten; at least once; oldest first |
| Generation `services/generation.ts` | briefs, `generation_jobs`, outputs, cost records | `submit`, `performSubmission`, `pollAndCollect`, `cancel` | one billed submission per job; a billed render is tracked; completed means delivered |
| Media and storage `services/media.ts`, `services/storage.ts`, `api/media.ts` | content-addressed files, `media_assets`, `character_assets` | `put`, `remove`; `upload`, `delete`, `purge`; `setApproval`, `attachToCharacter`, `detachFromCharacter` | a row has its bytes; no file is forgotten; approval and reference pool agree |
| Rate limiter `services/rateLimit.ts` | `rate_counters` | `consume`, `peek`, `require`, `prune` | at most limit per window |
| Studio `services/studio.ts`, `domain/studio.ts` | wardrobes, boards, homes and their items; brand deals, scripts, shots | stage moves, edits, `reorderShots` | legal stages; positions unique and as listed; one default |
| Characters `services/characters.ts` | characters, locks, versions | `create`, `update`, `archive`, `delete`, `setLock`, `restoreVersion` | locked fields do not change; no profile is lost; user names are unique |
| Fans and relationships `services/fans.ts`, `services/relationships.ts`, `domain/relationship.ts` | fans and tags, scores per scope, an event log | `findOrCreate`, `apply`, `decayInactive` | identities are unique; the log explains the scores |
| Memory `services/memory.ts` | memories | `create`, `suppress`, `merge`, `retrieve`, `prune` | a fact has one row; merges lose nothing |
| Provider router and health `providers/router.ts`, `domain/health.ts` | provider rows with their health | `candidates`, `withFailover`, `markHealth` | no failover after a failure that may have been billed; usable ones first |
| Adapters `providers/media`, `providers/publishing`, `providers/mock`, `providers/llm`, `providers/http.ts` | what the provider knows; mock maps | submit, result, cancel, retry; `health`, `capabilities`, `chatStream` | one submission makes one thing; reports stay true; verdicts were shown |
| Policy `domain/policy.ts` | - | `enforceDisclosure`, `repairDisclosure`, content policy | what is sent is honest |
| Repository `db/repository.ts`, `core/paging.ts` | every table's `version`, `deletedAt` | `list`, `insert`, `update`, `softDelete`, `restore`, `hardDelete` | pages neither skip nor repeat; deleted rows stay as they are |
| Secrets `services/secrets.ts`, `main.ts` | `secrets`, the key file | `put`, `delete`, `reveal`, `loadPersistentSecretKey` | what is stored can be opened |
| Automation, cron, permissions, scoring, prompts `domain/*.ts` | - | pure functions | not modelled, see section 6 |
| HTTP API, audit log, client | - | wiring, input/output, user interface | not modelled, see section 6 |

How they interact: the services call `JobQueue` and `EventBus.emit`
synchronously; the HTTP process enqueues and cancels (`services/generation.ts`),
a worker pool claims and runs. `main.ts` builds the bus, drains it once after
boot and streams it to the client; it does not build a `WorkerPool`, and the
handlers of generation jobs are registered nowhere. The models therefore take
any handler: one that returns, throws or parks the job, after any time.
Generation goes through the rate limiter, the router and an adapter; `media.ts`
through the storage; everything through the repository.

## 2. Modules

| Module | Models | Kind |
|---|---|---|
| `JobTransitions` | `domain/jobs.ts` | constant operators |
| `JobQueue` | `jobs/queue.ts` | operations on the table, one action per SQL write |
| `WorkerPool` | `jobs/worker.ts` with the queue and the HTTP side | the composed state machine |
| `JobLease` | - | abstract: what the queue promises about leases |
| `EventBus` | `events/bus.ts`, the boot drain of `main.ts` | state machine |
| `Outbox` | - | abstract: what the bus promises about an event |
| `AssetStore` | `services/storage.ts`, uploads and deletion of `services/media.ts` and `api/media.ts` | state machine |
| `References` | approval, attaching and the approved pool of `services/media.ts`, `resolveReferences` of `services/generation.ts` | state machine |
| `Generation` | `services/generation.ts`, over the statuses of `JobTransitions` | state machine |
| `Submission` | submission, result, cancel and retry of the media and publishing adapters and their mocks, errors and time limit of `providers/http.ts` | state machine |
| `Probe` | `health`, `capabilities` and `chatStream` of the adapters | state machine |
| `ProviderRouter` | `providers/router.ts`, `domain/health.ts` | state machine |
| `RateLimiter` | `services/rateLimit.ts` | state machine |
| `SecretStore` | `services/secrets.ts`, the key file of `main.ts` | state machine |
| `Policy` | `domain/policy.ts` | operators, and the loop the comments prescribe |
| `Repository` | `db/repository.ts`, `core/paging.ts` | state machine |
| `Characters` | `services/characters.ts` | state machine |
| `ShotOrder`, `Pipeline`, `Collections` | `services/studio.ts`, `domain/studio.ts`: shots; brand deals and scripts; wardrobes, boards, homes | state machines |
| `Fans`, `Relationships`, `Memory` | `services/fans.ts`; `services/relationships.ts`, `domain/relationship.ts`; `services/memory.ts` | state machines |
| `Workspace`, `Platform` | - | eight and nine components, side by side |
| `MCWorkerPool`, `MCEventBus`, `MCWorkspace`, `MCPlatform` | - | constants for TLC |
| `WorkerPool_proofs`, `EventBus_proofs`, `AssetStore_proofs`, `Generation_proofs` | - | theorems about the module they are named after |
| `Studio_proofs`, `Crm_proofs` | - | theorems about the components of `Workspace`, and the lemmas on induction |
| `Services_proofs`, `Providers_proofs` | - | theorems about the components of `Platform` |

`Workspace` and `Platform` put together components that share no state.
Each is an `INSTANCE` with variables of its own, a constant `Parts` says which
ones a run looks at, and a behaviour picks one of them and takes only its steps:
the state spaces add up and do not multiply, and a theorem about the composition
is one about each of its parts. Nothing is lost by this, because the components
do not see one another.

Definitions commented "Mutant of" are plausible mistakes, kept beside the
definition they would replace to show that each property notices one.

### JobQueue and WorkerPool

`jobs[j]` is the row with id `j` (or `AbsentRow`). `stmt[p]` is the UPDATE or
INSERT that process `p` has decided on and not executed yet: `Enqueue`,
`ClaimSelect`, `Complete`, `MarkSubmitted`, `Fail`, `Cancel` and `Retry` are the
reading halves of the methods, with their guards and conflicts; `EnqueueInsert`,
`ClaimUpdate` and `Update` the writing halves. While `stmt[p]` is pending
process `p` does nothing else; other processes do. `heartbeat` and
`reclaimExpired` are single statements and single actions.

`pool[w]` is the life of a pool: `new`, `up`, `stopped`, `dead` (killed) or
`rejected` (ended by an unhandled rejection). A process that starts again has a
new worker id, so it is another element of `Worker`. `runs` holds the `run()`
calls in flight. `HandlerReturns`, `HandlerThrows` and `HandlerParks` are the
ends of a run, each with what the code does when the queue raises a conflict:
`complete` inside the `try` hands it to `fail`, `awaitExternal` swallows it
(`parked` is set first), and `fail` in the `catch` block rejects the run, which
only `stop()` awaits (`Reject`).

Abstractions: one queue name (queues partition the table and the pools' ticks);
`maxAttempts` and `timeoutMs` are the same for all rows; `progress`, error texts
and `completedAt` are dropped; of `result` the provider's `externalRef` is kept
(`ref`, a value of `Ref` or `NoRef`); `version` is dropped, and `claims`, which only counts
claims, identifies them; consecutive reads of one method are one step; the
claims of one tick are separate steps; a stopped pool is not started again;
`SQLITE_BUSY` and other database errors are left out; handlers let the `PARKED`
sentinel propagate; `tickAll` is left out.

### EventBus

`events[e].st` says how far the row of event `e` has come: not emitted, inserted
by an open transaction, rolled back, undispatched, dispatched. `loop[p]` is the
program counter of `drain()`: off, about to SELECT, in the middle of a batch, or
awaiting a handler; it holds what is left of the batch and of the subscribers of
its first event. `wake[p]` counts the `setImmediate` callbacks that will call
`drain()`. `owed`, `calls` and `settled` are history. `Free(p)` is the event
loop's rule: timers, requests and callbacks run when no drain runs or the drain
awaits a handler. Other processes and crashes may come between any two
statements.

Abstractions: subscriptions are fixed; live listeners and `timeline` keep no
state and are left out; the clock does not run backwards and callers pass no
timestamps of their own (none in the repository does); ids of rolled back events
are not reused; a handler resolves or throws, which the code treats alike;
handlers do not leave a transaction open across an `await` (better-sqlite3's
transactions are synchronous), so a transaction that spans an `await` of the
same process does not arise beyond `Commit`, `Rollback` and the emits between.

### AssetStore and References

`files[k]` is what lies at a key: nothing, a torn file or a whole one. A key is
a content (its checksum) and a place (kind and file name extension). `rows[a]`
is a row of `media_assets`, `reqs[r]` a request between two of its awaits: an
upload before its `stat`, before the write of the temporary file, in the middle
of that write, before the `rename`, or with `put` done and the rows to be looked
at; a purge whose row is gone and whose `rm` is not. `StartUpload` has the check
the API makes before it stores anything, `FinishUpload` the one the service
makes afterwards (`ReturnsExisting`); the API looks no second time. `Fault` is a
failed file system call: a failed `stat` counts as "no file", as the `catch` in
`put` has it, and any other failure ends the request without clearing up.
`Crash` drops every request. `sound` is history.

Abstractions: one server process and one workspace (keys of different
workspaces are disjoint); temporary files have names of their own, so they are
a part of the request; rows have the two columns the files depend on; events and
audit records are left out, and so are power failures (nothing calls `fsync`).
`purge` and `putStream` have no caller in the repository; `purge` is modelled,
because it is what the shared files are designed for.

`References` has the other half of the media library: the asset's `approval`,
the rows of `character_assets` (`refs`) and their flag (`approved`).
`setApproval` is two statements, `ruling` says between which; `late` are the
rows attached after the last ruling on their asset, for which the code keeps
whatever the caller of `attachToCharacter` said, and `vouched` those of them he
attached as approved. `urls` is what a submission passes to the provider: the
approved pool, and whatever assets the brief names.

### Generation, Submission, Probe, ProviderRouter

In `Generation` the queue is the status of a job and how often it was claimed;
a run may go on after its job was given to another one, as `WorkerPool` shows it
can. A run is at one of its awaits: `submitting`, `accepted` (the provider has
answered, the row is not written), `polling`, `collecting`. A render bears the
job and the claim it was asked for by. All runs of a job submit under one key
(`KeyOf`); `heeds` says whether the provider answers a key it knows with the
render it has, as the mock does, or renders again, as WaveSpeed may, which gets
the key as a header and promises nothing. Both are looked at. `Refuse`, `Throw`
and `Crash` are the ways a run goes wrong; `faults` remembers jobs with a crash
or a lost answer, `overlapped` those two runs were submitting at once.

`Submission` looks closer at one submission: requests that are lost or arrive
after their caller gave up (`stray`), the error class that decides on another
try, and each adapter's table from the provider's words to a status. The caller
asks again while the error allows it (`Invited`); `JobQueue.retry` and
`reclaimExpired` ask whatever has come of it, even during a call, which `past`
remembers as `"pressed"`. `Restart` empties a mock's maps (`"restarted"`).
`Probe` follows `health` and `capabilities` request by request against a server
that changes meanwhile, and a stream that is cut into chunks anywhere. Whether
there is a credential and a default model is configuration (`Setting`) and stays;
with a default model the capabilities are probed although no model is listed.
`ProviderRouter` has the order of candidates, the failover and the health it
records, with probes and other calls marking the same rows in between.

### The workspace

`Characters`, `Collections`, `Fans`, `Relationships`, `Memory` have one server:
their methods are synchronous, and what can come between two statements is the
server's death, so the calls that write twice are two actions with a variable
for the statement to come (`unsaved`, `inserting`, `creating`, `pending`,
`merging`). `ShotOrder` and `Pipeline` write once per call, or in a transaction.
In `Pipeline`, `setStage` and `setStatus` go by the tables, while `updateDeal` and
`updateScript` are the PATCH routes, whose body may name the stage and the status
and is written as it came (`api/studio.ts:43-45`, `:65-67`); `trail` remembers
reviews, sign-offs and patches. `Characters` has the UPDATE with which
`pollAndCollect` sets `lastGeneratedAt` (`collected`): a snapshot taken later
holds it as a string, and restoring that one throws.
`Repository`, `RateLimiter` and `SecretStore` have several processes, with the
read and the write of a method apart. Inputs are of the types the services
declare; where a route passes a body on as it came (`api/studio.ts:107`), any
number is an input.

Data is reduced to what the properties tell apart: a profile to a value per
lockable column, a text to a set of sentences told apart by the lists of patterns
they match (so that its length is the number of its sentences), the seven
scores of a relationship to three, a memory to its fact, scope, age and
confidence. A character's disclosure statement is a sentence that may match anything.

## 3. What TLC checks

| Run | Instance | Properties |
|---|---|---|
| `pool_overlap` | 1 job, 2 pools, 1 HTTP process, 2 claims, clock to 1 | `TypeOK`, `RowDiscipline`, `NoOrphanUnderLivePool`, `LiveLeaseExclusive`, `RefSurvives`, `ImplementsLease` |
| `pool_jobs` | 2 jobs, 1 key, 1 pool with 1 slot, 2 HTTP processes, 2 claims, clock at 0 | `WithinConcurrency`, `KeyNamesOneJob` |
| `pool_live` | 2 jobs of different priority, 1 pool with 1 slot, 2 claims, fairness | `QueuedIsServed`, `HeldIsSettled` |
| `bus_one` | 1 process, 3 events of two types, 3 subscribers, batches of 2, 1 crash, fairness | `TypeOK`, `NoPhantom`, `NoLostWakeup`, `BoundedRedelivery`, `OldestFirst`, `EventuallyDispatched` |
| `bus_two` | 2 processes, 2 events, batches of 1, 1 crash | `ImplementsOutbox` |
| `workspace` | `Characters`, `ShotOrder`, `Pipeline`, `Collections`, `Fans`, `Relationships`, `Memory`, `References` | `TypesOK`, `ContentIsVersioned`, `NumbersHold`, `PoolFollowsRuling`, `SignedOffBeforeOut`, `OneDefault`, `FoundIsTheOne`, `Accountable`, `FactsAreKept` |
| `platform` | `Generation`, `Repository`, `RateLimiter`, `ProviderRouter`, `Policy`, `Submission`, `SecretStore`, `Probe`, `AssetStore` | `TypesOK`, `BilledOnce`, `RenderIsTracked`, `Delivered`, `LimitHolds`, `FailoverIsSafe`, `SentIsHonest`, `SubmittedOnce`, `Readable`, `ProbeIsHonest`, `BytesStay`, `DeletedIsUntouched`, `NoFileIsForgotten` |

`workspace` has about 425 000 distinct states, `platform` about 975 000.

`QueuedIsServed` says that a due job waits only behind jobs that go before it.
It leaves one way to starve: a stream without end of jobs of a higher or equal
priority, which nothing in `claim` prevents. `RefSurvives`: a recorded
`externalRef` goes only when the job completes, or when a run of the job parks it
with an `externalRef` of its own, even if the run is stale.

What the properties of the last two runs say:

- `ContentIsVersioned`: what a profile holds is in a snapshot, unless the server
  died before it was written; no update or restore loses what it replaces. The
  snapshot can be restored as long as no render was collected for the character
  since it was created or last restored.
- `NumbersHold`: a new shot can be numbered whatever was deleted and reordered,
  and reordered shots stand in the order named, before all others (but for those
  that a client has moved below one).
- `PoolFollowsRuling`: an asset is in the approved pool of a character exactly
  while it is there and some row of it in a role of the pool was last said to be
  approved: by the ruling on the asset, or, for a row attached after that, by
  who attached it. Assets whose ruling was cut short by a crash are left out. A
  strict brief passes on the pool and the assets it names.
- `SignedOffBeforeOut`: with `setStage`, a deal goes out only reviewed and with no
  review begun after the last approval; the only way around is a raw PATCH of
  the stage, and it ends with the next review.
- `OneDefault`, `FoundIsTheOne`: identities and defaults stay unique through
  deletions, renames and deaths of the server.
- `Accountable`: what happened with a character is in the global scope too, and
  replaying the log of a scope gives its scores.
- `FactsAreKept`: a repeated fact has one visible row per scope, and following
  `mergedInto` ends at a memory that was not merged.
- `BilledOnce`, `RenderIsTracked`, `Delivered`: one render per job if the provider
  heeds keys; if it does not, a second one only after a crash or a lost answer,
  or when two runs submitted the job at once. The same, and with a provider that
  heeds keys only a crash or a lost answer, may leave a render nothing points
  to. Completed means every output was stored or could not be had.
- `LimitHolds`: no window exceeds its limit as long as calls do not overlap (a
  limit of zero lets one call through).
- `FailoverIsSafe`: a request that is not idempotent is accepted by one provider
  at most, and usable providers are asked first, in their order.
- `SubmittedOnce`: a lost, late or repeated request makes a second thing only where
  the provider does not heed the key, and then by WaveSpeed's adapter only if the
  job was retried or reclaimed whatever had come of it, or by a mock that was
  restarted; and a reported end is not taken back until a mock forgets it.
- `SentIsHonest`: what goes out as it came violates no guard; what goes out
  repaired is as good as the character's statement: it admits where it must if
  the statement does, claims humanity or says what is forbidden only if the
  statement does, is too long by the statement at most, and its own words walk
  no admission of its own back.
- `ProbeIsHonest`: structured output and tool calling were shown if they are
  claimed, verdicts name what was the case (404 from a media provider counts as
  connected), and a stream is passed on whole however it is cut.
- `Readable`: every server can open every stored credential.
- `BytesStay`, `NoFileIsForgotten`: a row that had its file at its insertion, with
  no removal of it pending then, keeps it whole while it is in the table, and no
  row ever leads to half a file; only a failed call or a crash leaves a file that
  neither a row nor a request accounts for.
- `DeletedIsUntouched`: a deleted row is out of reach of an update that read it
  before.

`BoundedRedelivery` and `OldestFirst` are about one process: two processes that
drain one table deliver an event twice and overtake each other, by design of an
at-least-once outbox.

The runs below find what a comment says of the code violated:

| Run | Property | What happens |
|---|---|---|
| `v_failure_lost` | `FailureIsRecorded` | a retryable failure with attempts left wants `running -> queued`, which is illegal; the conflict escapes `run()` and ends the process |
| `v_pages` | `NoRowTwice` | the cursor is read under the column's name, which the row does not have; every next page is page one |
| `v_find_or_create` | `FindOrCreateSucceeds` | a deleted fan still holds its identity under the unique index; `findOrCreate` does not see it and fails on the insert |
| `v_reorder` | `ReorderSucceeds` | a deleted shot keeps its position; a reorder of all visible shots that gives the number to another is refused |
| `v_raw_stage` | `WorkflowIsGuarded` | `PATCH /api/brand-deals/:id` writes the stage its body names, from any stage to any other, where `services/studio.ts:287` speaks of a guarded state machine |

Bounds. `MaxTime` and `MaxClaims` cap the clock and the claims of a row,
`MaxCrashes` the crashes; `Job` and `Event` are finite supplies of ids. Durations
are a few ticks: what matters is their order, so the instances take
`Timeout = 0`, `Grace = 1` (a run may time out before its lease ends, and both
may happen within the bound). One job and two pools with two claims are enough
for a stale run, a current run and an HTTP request on one row; two jobs are
needed only where jobs compete (`pool_jobs`, `pool_live`). Three events with
batches of two give a full batch, a partial one, equal and different timestamps
and an emit during a drain. In `AssetStore` contents do not meet, so one is
enough; two places make the row an upload finds differ from the file it found;
three requests are an upload that stored, one that trusts it and a purge, and two
rows the one that is purged and the one that shares its file; one failed call or
crash. Two ids of
renders (`Ref`) in `pool_overlap` let a stale run park a job with another one
than its successor's; elsewhere one is enough.

In `MCWorkspace`: three shots and three positions (one deleted, two to swap), and
-1, 1 and 3 to be patched in (-1 is where a reorder puts shots out of the way);
three fans and two identities (a rename onto an identity that is taken, and a
third to meet it again); two memories of one fact and two scopes; two
containers; one deal and one script, which do not see others; two characters in
`References` (a ruling flags the rows of both), one in `Characters` with two
values and two versions. `Relationships` has one character and the global scope,
two events and one decay. In `MCPlatform`: one job, two runs at a time, three
claims and two outputs (a stale run beside a current one, and one to come); two
processes, limit 2 and windows of 2 ticks for the counter; two providers; two
rows and pages of one; replies of up to two sentences (the repair may change
each), lengths up to that, and three statements, one that admits, one that does
not and one that is itself at fault; three calls per submission (one lost, one
late, one repeated); two
servers, two refs and three row ids for the credentials; one change of the
server and three frames for a probe.

Pool ids, the requests of `AssetStore`, the memories of `MCWorkspace` and, in
`pool_jobs`, jobs are symmetric; runs with liveness use no symmetry.
`CHECK_DEADLOCK FALSE` in every configuration: clocks are bounded, rows reach
terminal statuses and an idle bus has nothing to do, so the system legitimately
stops.

Fairness. For the pools: the clock advances, `setInterval` keeps ticking
(`TickClaim`), a prepared statement is executed (`TickRun`, `UpdateOf`; there is
no `await` in between) and the run of a job ends. Handlers are not part of this
code; that they end is an assumption, which the abort signal of `run()` asks of
them and cannot enforce. Nothing is assumed about starts, stops, deaths and
operators. For the bus: transactions commit or are rolled back, and Node runs the
callbacks and the drain that are due. Nothing is assumed about boots, crashes
and emits; `EventuallyDispatched` speaks of processes that stay up. The other
components react to calls and promise nothing about progress.

### Other things the models show

These have no run of their own; each is visible in the module named.

- *Queue.* `claim` does not look at `running` rows, so after its lease expired a
  job waits until some pool starts (`jobs/queue.ts:42-44` speaks of being picked
  up); `reclaimExpired` re-queues jobs whose attempts are spent
  (`jobs/queue.ts:214-216`); the UPDATE of a claim does not test the status, so
  a job completed by another pool in between is claimed again
  (`jobs/queue.ts:114-115`); a stale run's `fail` finds `failed -> queued` legal
  and revives a dead-lettered job. A heartbeat sets the lease to now + 60 s,
  which shortens a longer one (`jobs/queue.ts:166`); `retry` accepts completed and
  cancelled rows (`jobs/queue.ts:250`); a stale run's `markSubmitted` replaces the
  `externalRef` its successor recorded (`jobs/queue.ts:205-210`), and what that one
  names is no longer polled; `ORDER BY priority` has no aging
  (`jobs/queue.ts:133`), so a stream of jobs of a higher priority starves the
  others; a job cancelled and retried while its run
  is in flight may have two runs in one pool, which `WithinConcurrency` counts.
- *Media.* The same bytes with another extension have another key and get a
  second live row (`services/media.ts:72-73` against `:83`). An upload whose
  `stat` or `rename` came before the `rm` of a purge inserts a row whose file is
  about to go; `BytesStay` says which rows keep their bytes, those in `sound`. A
  failed write leaves its temporary file behind.
- *References.* `resolveReferences` adds the approved pool to what the brief
  names, although `services/generation.ts:416-419` says that a strict brief
  passes only approved references: an asset that was rejected still goes out if the
  brief names it. A row attached after the approval is not
  offered, one attached as approved after a rejection is.
- *Generation.* `services/generation.ts:182` knows that a submission is not
  idempotent, and `providers/media/wavespeed.ts:10-17` says it is never submitted again; but
  `JobQueue.retry` (`jobs/queue.ts:251`) and `reclaimExpired` (`:336`) run a job
  again whatever has come of it, and as long as no row of `generation_jobs` was
  written that submits it again: with a provider that does not heed the key, it
  is billed twice. `submit` makes its key unique by a fresh id, so the queue never
  deduplicates renders. A render cancelled at the provider after it completed
  raises a conflict and emits nothing; a cancelled job may still be announced as
  completed; each run that collects records the costs again.
- *Adapters.* WaveSpeed declares `cancel` and has none; its status `unknown` parks
  a job for ever; Higgsfield and OpenDispatch report timeouts as retryable, where
  WaveSpeed does not; mock maps last only as long as their process, `mock_media`
  takes back a completed render when it is cancelled, a retry of
  `mock_publishing` posts a published post again, and after a restart it reports
  one it published as failed, being no mock publication it knows
  (`mockPublishing.ts:83`). `providers/llm/openaiCompatible.ts:148-152` says that capabilities
  are proven by probing: `chat` and `streaming` are claimed even if the list of
  models cannot be had, and `embeddings` for any JSON answer on its path
  (`:191-193`); 429 is reported as unavailable; 404 counts as connected for media
  (`wavespeed.ts:75`, `higgsfield.ts:67`); an early end of a stream looks like a complete answer.
- *Studio and characters.* The PATCH of a script may set its status to anything,
  too, one that is none included, from which `setStatus` then throws. Restoring a
  snapshot taken after a render was collected throws: `lastGeneratedAt` is a string
  in it (`services/generation.ts:343-347`, `services/characters.ts:258-276`). A
  completed deal cannot be cancelled although
  `domain/studio.ts:24` says one always can; a patch may move an item into any
  wardrobe, of any character; `restoreVersion` does not look at locks
  (`domain/character.ts:63`).
- *CRM.* Decay changes scores without an event (`services/relationships.ts:17-19`),
  takes a batch in no order and, repeated, decays again for the whole silence;
  the log holds the unclamped deltas. The unique index on relationships does not
  hold for NULL, which is the global scope. `prune` ignores `lastUsedAt`
  (`services/memory.ts:232`, `:245`); a repeated fact keeps its old expiry and
  suppression.
- *Repository.* `all()` returns up to 1000 rows in no order; `expectedVersion` is
  tested on the row that was read, not by the UPDATE; the cursor has no
  tie-break on equal sort values.
- *Router, policy, limiter.* `isUsable` includes degraded providers
  (`domain/health.ts:22`); `domain/policy.ts:122-123` calls a repaired reply
  compliant, but nothing looks at it again: the admission may be put before a
  sentence that undermines it, because undermining is only looked for where there
  is an admission, a required phrase may have gone with a sentence that was
  stripped, the statement may make the reply too long, and a statement that
  admits nothing is put there all the same; `enforceDisclosure` and `prune` have no caller. A limit of zero admits
  the first call of a window; calls of two processes that overlap may exceed the
  limit.
- *Secrets.* A server that dies between creating the key file and writing it
  leaves an empty file with which no later server starts. `put`, `delete` and
  `rotate` have no caller; another key under the same key id (`master-v1`) makes
  `reveal` fail and `rotate` skip the row.

## 4. What TLAPS proves

Every safety property of every passing run, invariants and action properties
alike, is a theorem, for every value of the constants: every number of jobs,
pools, processes, events, subscriptions, contents, rows, requests, characters,
fans, memories, providers, every limit, bound and batch size, lists and logs of
any length.

| Module, about | Theorem | Statement |
|---|---|---|
| `WorkerPool_proofs`, | `Typing` | `Spec => []TypeOK` |
| about `WorkerPool` | `Discipline` | `Spec => []RowDiscipline` |
| | `Exclusion` | `Spec => LiveLeaseExclusive` |
| | `LeaseRefinement` | `Spec => ImplementsLease` |
| | `NoOrphan` | `Spec => []NoOrphanUnderLivePool` |
| | `RefKept` | `Spec => RefSurvives` |
| | `OneJobPerKey` | `Spec => KeyNamesOneJob` |
| | `Bounded` | `Spec => []WithinConcurrency` |
| `EventBus_proofs`, | `BusTyping` | `Spec => []TypeOK` |
| about `EventBus` | `Committed` | `Spec => []NoPhantom` |
| | `Wakeful` | `Spec => []NoLostWakeup` |
| | `AtLeastOnce` | `Spec => ImplementsOutbox` |
| | `OncePerLife` | one process: `Spec => []BoundedRedelivery` |
| | `InOrder` | one process: `Spec => OldestFirst` |
| `AssetStore_proofs`, | `Typing` | `Spec => []TypeOK` |
| about `AssetStore` | `Kept` | `Spec => []BytesStay` |
| | `Accounted` | `Spec => NoFileIsForgotten` |
| `Generation_proofs`, | `Typing` | `Spec => []TypeOK` |
| about `Generation` | `Billed` | `Spec => []BilledOnce` |
| | `Traced` | `Spec => []RenderIsTracked` |
| | `CompletedIsDelivered` | `Spec => []Delivered` |
| `Studio_proofs`, | `CharactersTyping` and three more `...Typing` | `AllSpec => []TypeOK` of the component |
| about `Workspace` | `Versioned` | `AllSpec => []ContentIsVersioned` |
| | `PoolRuled` | `AllSpec => []PoolFollowsRuling` |
| | `SignedOff` | `AllSpec => []SignedOffBeforeOut` |
| | `Defaults` | `AllSpec => []OneDefault` |
| | `Numbered` | `AllSpec => []NumbersHold` |
| `Crm_proofs`, | `Found` | `AllSpec => []FoundIsTheOne` |
| about `Workspace` | `Remembered` | `AllSpec => []FactsAreKept` |
| | `Explains` | `AllSpec => []Accountable` |
| | `WorkspaceTyping` | `AllSpec => []TypesOK` |
| `Services_proofs`, | `RateTyping` and four more `...Typing` | `AllSpec => []TypeOK` of the component |
| about `Platform` | `Limited` | `AllSpec => []LimitHolds` |
| | `Opens` | `AllSpec => []Readable` |
| | `OutOfReach` | `AllSpec => DeletedIsUntouched` |
| | `Told` | `AllSpec => []SentIsHonest` |
| | `Failover` | `AllSpec => []FailoverIsSafe` |
| `Providers_proofs`, | `Once` | `AllSpec => []SubmittedOnce` |
| about `Platform` | `Honestly` | `AllSpec => []ProbeIsHonest` |
| | `LibraryKept` | `AllSpec => []BytesStay` |
| | `LibraryAccounted` | `AllSpec => NoFileIsForgotten` |
| | `PlatformTyping` | `AllSpec => []TypesOK` |
| | `RendersHold` | `AllSpec => [](BilledOnce /\ RenderIsTracked /\ Delivered)` |

Assumptions. Each module names what it assumes of its constants; `Workspace` and
`Platform` assume it of their instances, and TLC evaluates all of it in the runs:
sentinels (`NoFan`, `NoMem`, `NoAsset`, ...) are not ids, the two kinds of process
are disjoint, a disclosure statement is a sentence, durations, weights and bounds are
naturals, `Grace`, windows, page
and batch sizes are positive, events are finitely many and ordered, the lists
clients send are lists of ids, providers are finitely many and have a number for
a priority, the kinds of relationship event are those of the table of deltas.
`OncePerLife` and `InOrder` have the hypothesis `Single`: there is at most one
process.

### The queue, the bus, the library, the renders

The argument for the queue. `RowDiscipline` is inductive only together with
what is known of the pending statements: a claim's SELECT time is never in the
future, and a write that parks or fails a row sets reference or dead-letter mark
along with the status. `LiveLeaseExclusive` follows because a claim's UPDATE
repeats the lease test with the time of its SELECT, which is at most now.
`NoOrphanUnderLivePool` follows claims through the three places a job of a live
pool can be: the pending claim, the run it becomes, the statement that ends the
run. `KeyNamesOneJob` needs that rows not yet there are blank (`KeyInv`): only
an insert sets a key, and the unique index is tested by the INSERT itself.
`RefSurvives` is a fact about the statements: all that can be pending keep the
reference (`RowKept`) but the one that parks the row (`ParkedBy`). `WithinConcurrency` needs `Capacity`: a pool whose tick is
between the SELECT and the UPDATE of a claim has a place left for the run.

The argument for the bus. The inductive invariant `BInv` has, for each process,
four parts: `Sound` (a process that is down, or inside a transaction, is not in
the synchronous part of a drain), `BatchOK` (the rows of a batch are committed,
and the subscribers of its head that are not outstanding have been through),
`OwedOK` (pending events belong to the process's own transaction), and `Awake`
(what is owed is in the batch or there will be another SELECT); and, for all
processes, that only one transaction is open at a time. `Sound` is why a SELECT
sees no uncommitted row, `BatchOK` why an event is marked only after all its
handlers, `OwedOK` with the batch condition of `Select` why an empty or partial
batch leaves nothing behind. `Frame` shows that a process that takes no part in
a step stays in order; each operation then has a lemma about its own process.

For one process `AInv` adds three parts. `CallsOK`: of the events that are not
marked, only the head of the batch has been to a handler since the last crash,
and only to those it has been `Through`; a crash raises the bound by as much as
it may cost. `BatchFirst`: the rows of the batch are unmarked, nobody else marks
them, and nothing outside the batch is older. `Clocked`: times lie in the past,
so what is emitted during a drain is not older than its batch, and pending
events are in somebody's transaction, so none is left out of a SELECT.

The argument for the library. `BytesStay` needs three invariants. `NothingTorn`:
only complete temporary files are renamed, so a file that `stat` finds can be
trusted, and no row whatever leads to half a file. `Intact`: the file of a sound
row is there. `NotDoomed`: no `rm` is on its way to the file of a sound row; it is
kept because `purge` counts every other row of the key, those in the trash too,
when the row is gone already and without an await in between.
`NoFileIsForgotten` needs that an upload on its way to `rename` did not see a
file (`WritersFoundNothing`): it will insert a row, whatever rows it finds.
`Providers_proofs` instantiates these theorems (`Files`) for the library of
`Platform`.

The argument for the renders. `One`: every run of a job submits under the same
key, whatever claim it belongs to, so a provider that heeds keys has one render
of it; a key that named the claim would bill each. `Alone` is for a provider
that does not: a job without a crash, a lost answer or two submissions at once
has one run that submits it, only while it has no row and nothing of it was
accepted, so the queue can claim, cancel and retry it as it likes. `Held` and
`RenderIsTracked`: what was accepted is in the job's row or in the hands of a
run, and a row once written keeps its render. `Collected`: a run that collects has every variant to do, stored or passed over,
counting what runs before it stored; `Announce`, which completes the job, comes
when nothing is left to do.

### The workspace

A step of `Workspace` or `Platform` is a step of one component and leaves the
others alone (`Steps`), so a theorem about the composition is one about each of
its components. `ContentIsVersioned` is inductive with the types.
`PoolFollowsRuling` is a union over rows (`PoolOfFlags`) of `FlagFollowsRuling`,
which is inductive: every write that changes an asset's approval flags its rows
next, or leaves the asset in `unflagged`, and a row attached later is flagged as
vouched for until the next ruling. `SignedOffBeforeOut` needs `Trailed`: what each
stage a deal can be in on its way out says of its past, unless it was patched
there, and the table of legal moves, read backwards (`WayOut`). `OneDefault` needs `RoomForDefault`: while
`createWardrobe` is between its statements its character has no default, because
the server does nothing else in between and a death drops the insert.

For the shots, `UpdatesSoFar` follows the transaction of a reorder update by
update: rows that are not listed are as before, and of the listed ones those
that were reached in the second pass have the number they were given, which no
row left out has (the index would have ended the transaction). A list that
names a shot twice leaves it with the later number. That an append is never
refused is `NextIsFree`: the table has a largest number (`Bounded`, `Maximum`),
and the next one is above it.

`FoundIsTheOne` needs the unique index as an invariant (`OneHolder`), that a fan
has its relationship, is about to get it or was cut short (`Introduced`), and
what the last answer is still worth (`Answered`). `FactsAreKept` needs
`MergeAhead`: what `merge` has yet to suppress is live and is not its target.
`mergedInto` then never closes a circle, because a row gets one when it stops
being live and points to a live row.

`Accountable` is the longest argument. `apply` leaves its four statements in
`pending`; `Left` says which of them there are, `Explained` that the scores of a
scope are those of its log, or one event ahead of it when the log is written
next, and `Counted` that the global scope has as many events of a kind as the
characters, but for the one it is owed. `ReplayGrows` shows that replaying a log
with one event more is one application more, `OneMore` that counting is, and
`DecayedScores`, that decay, too, keeps every score between 0 and 100.

### The platform

For the limiter `Ledger` says, while no two calls have overlapped, that at most
one statement is pending (`Solo`), that the counter covers what its window
admitted (`Covers`), and that the pending statement may still be executed, even
after `prune` and at the edge of a window (`Sound`). For the credentials
`OneMasterKey` says that the server that created the key file is alone in
writing it and that a key once written stays, so every server that is up has
that one; `OneRow` is the unique index. `DeletedIsUntouched` is an action
property: an update looks for a row that is not deleted when it is executed, not
only when it is decided on.

`SentIsHonest` is about operators more than about steps: `Repaired` says that
stripping and prepending leave no sentence but the reply's own, none of those the
finding was about, and the statement, and that this makes a text one sentence
longer at most (texts are finite, `TextIsFinite`); `Sends` says which verdict
lets which text out.
`FailoverIsSafe` needs that a call of a request that is not to be repeated goes
on only while nobody has accepted it (`RouterInv`), which is where the error
classes of `withFailover` matter, and that sorting keeps the order (`InOrder`)
in what is tried and left.

`SubmittedOnce` counts (`Accounted`): things made, requests on their way and
requests nobody waits for are together at most the submissions; a provider that
heeds keys, and a mock that was not restarted, make one thing; WaveSpeed's
adapter submits once unless somebody presses for it, because it never reports an
error as retryable (`Unrepeated`); and what was reported is what the present
stage of the thing is reported as (`Reported`), which every move of the provider
keeps, since only open stages move. `ProbeIsHonest` needs which adapter asks what
and what it has been told by then, the list of models or the default one
included (`Routed`), and that no complete line of a stream that goes on
was `[DONE]` (`Streams`). `RendersHold` carries the theorems of `Generation`
over to the composition, whose behaviours are behaviours of that component;
`LibraryKept` and `LibraryAccounted` do so for `AssetStore`.

Looking for these proofs changed the models where they could not be reasoned
about: texts of `Policy` are sets of sentences, the lines of a stream in `Probe`
sets of line numbers, the statements of a transaction in `ShotOrder` and the
replay of a log in `Relationships` recursive functions. Four
`CASE`s in `Probe` had overlapping arms, and so left to the evaluator which
verdict a request gets for which two apply; they became `IF`, in the order of
the code. And `NumbersHold` had said nothing of numbers
that clients patch in below one: `updateShot` writes any number, and a shot with
such a number stays in front of a reorder.

### Recursion and induction

The library states induction for predicates passed as parameters, which the
installed provers cannot instantiate. `Studio_proofs` has it for sets of numbers
instead (`Induction`, from the well-foundedness of `<`), and from it that
recursive functions over `0..n` exist (`Beginnings`, `Recursion`) and agree
(`Agree`). With these, what a replay, a decay and a transaction compute is
proved for logs, waits and lists of any length.

### Only model-checked

`QueuedIsServed`, `HeldIsSettled` and `EventuallyDispatched`: liveness under
fairness is beyond this prover, which has no ENABLED. The five refuted
properties of section 3 are false, so TLC's counterexample is all there is to
say. `BoundedRedelivery` and `OldestFirst` are proved for one process, which is
what they are about.

## 5. Plan

Everything planned at the outset is in place. What could follow, in this order:

1. Abstract specifications of the limiter (an atomic counter) and of the
   credentials (a map), with proofs that the models implement them.
2. Proofs of the safety parts of the liveness properties: that a queued job that
   is due stays claimable, and that what is owed by a process keeps its wake-up.
3. Two jobs in `Generation` under one character's limit, with `RateLimiter` in
   place of the counter.
4. The handlers of generation jobs, once the repository registers them, composed
   with `WorkerPool`.

## 6. Not modelled

- *Automation, cron, permissions; scoring, classification, search terms and
  prompt text*: functions of one input, without state; the first three have no
  caller that keeps any. Their arithmetic is what unit tests reach best.
- *Audit log*: appends a row per call, and nothing reads it to decide anything.
- *HTTP routing and server assembly*: wiring; the calls that change state are in
  the modules of the services they reach.
- *Web client*: user interface.
- *Raw bodies*: where a route passes a body on as it came, it may name a row's `id`,
  `workspaceId` or `deletedAt`, too, which `update` in
  `db/repository.ts` writes; the models let such bodies name the columns the
  services are about: numbers of shots, wardrobes of items, stages and statuses.
- *Tables nothing writes yet*: conversations, campaigns, automations, publishing
  jobs, deliverables.
- Of modelled components: `JobQueue.progress`, `list` and `stats`;
  `WorkerPool.tickAll`; `EventBus.listen`, `timeline` and subscriptions that come
  or go; `putStream`; `updateBrief`; notes on fans and `adjust`; the ranking of
  retrieved memories; `rotate` and the cipher of secrets; the mock language
  model, listing of models, upload of files to providers, `detectOllama` and
  `detectLmStudio`; reads that decide nothing.
- Database errors, `SQLITE_BUSY` among them, and power failures are not modelled
  anywhere. A request timeout of `chatStream` cannot occur: it sets none.

## 7. Running

    tlc -config pool_overlap.cfg MCWorkerPool.tla
    tlc -config bus_one.cfg MCEventBus.tla
    tlc -config workspace.cfg MCWorkspace.tla
    tlc -config platform.cfg MCPlatform.tla
    tlapm WorkerPool_proofs.tla        # and the other *_proofs modules

The `pool_*` configurations and `v_failure_lost` belong to `MCWorkerPool`, the
`bus_*` ones to `MCEventBus`, `v_find_or_create`, `v_reorder` and `v_raw_stage` to
`MCWorkspace`, `v_pages` to `MCPlatform`.
