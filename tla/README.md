# TLA+ development of Plate

Plate keeps media originals in a vault, derives web renditions from them and
delivers both through signed URLs. One binary runs in two roles: `plate serve`
answers the API, `plate work` runs a worker. The two never talk to each other;
they share Postgres and an S3-compatible object store, and everything that can
go wrong between them goes wrong there. This directory holds TLA+ models of the
parts where that happens, their TLC configurations, and TLAPS proofs.

Paths below are relative to the repository (`internal/...`).

## The system

| Component | State | Operations | What makes it correct |
|---|---|---|---|
| **Derivation queue** `store/queue.go`, migrations 0001, 0008, 0009 | `jobs`, `renditions` | enqueue, re-point at an authored file, claim with a lease, heartbeat, complete, refuse, fail and retry, `not_derived` marks | a job is in one worker's hands; a finished job stays finished; `ready` means that the object is there and is what the row describes; every job ends |
| **Worker** `worker/worker.go` | goroutine-local: the job, its attempt, its scratch file | download, probe, ceilings, transcode or remux, upload, commit | what was probed is what is uploaded; an error or a crash at any stage leaves a job that will be taken up again |
| **Rendition requests, authored uploads** `service/handlers.go`, `upload.go` | the rows above; a staging object per target | on-demand request, authored ticket, finalize | an accepted file is judged; a ready rendition is not replaced |
| **Uploads and finalize** `service/upload.go`, `store/postgres.go` | `uploads`, `assets`, the vault object | ticket, presigned PUT, finalize and its replays | one asset per upload, with everything finalize owes it |
| **Reconciliation sweeps** `worker/reconcile.go` | a list per pass | list, delete object, mark or purge, for abandoned uploads and deleted assets | nothing wanted is deleted, nothing unwanted is kept |
| **Two-step delete** `service/handlers.go`, `store/postgres.go`, `queue.go` | `assets.deleted_at` | mark; purge after the grace period | deleted stays deleted, and its bytes go before its row |
| **Grants, exports, originals** `service/handlers.go`, `exports.go`, `grantcache.go`, `sign.go` | `grants`, `exports`, a verdict cache per API process, URLs at large | create, revoke, mint a signed URL, use one | revocation and deletion take effect within the promised time |
| **Delivery resolution, image geometry** `service/delivery.go`, `handlers.go`, `mediaspec/mediaspec.go` | none | route by kind and intent, pick and clamp a preset, answer openly or under a grant | a URL is on the host the allowlist gives it; a grant opens what its owner sees; no image exceeds the megapixel wall |
| **Checksum sweep** `store/checksum.go`, `worker/checksum.go` | checksum columns of `assets` | claim with back-off, hash, record, release | a verified checksum is never overwritten; no asset is skipped for ever |
| **Readiness, heartbeats** `service/health.go`, `store/health.go`, `worker/heartbeat.go` | heartbeat rows, the status reported last | beat, fold the checks, log transitions | a dead or hung fleet is noticed and so is its recovery; the log reads as a timeline |
| **Authentication, key binding** `auth/` | the keys and bindings each instance booted with | verify a token, bind a key to accounts | a key reaches its own accounts only, and a retired one nothing |
| **Account provisioning** `service/accounts.go` | `accounts` | an issuer's insert, an operator's upsert | an issuer makes accounts in its namespace only and never resets a setting |
| **Storage adapter, media tools, boot, API types** `storage/`, `probe/`, `worker/transcode.go`, `cmd/plate/main.go`, `plate/plate.gen.go` | none of their own | I/O, wiring and generated code | |

How they meet:

* The API writes job rows; workers find them by polling. A claim is a lease
  (`heartbeat_at`, `PLATE_JOB_LEASE_TTL`); a worker that dies is replaced when its lease
  has expired, and a worker that is merely slow is replaced as well.
* A worker uploads the object first and then commits the row, so the object
  store and the database disagree between the two, and for ever if it dies.
* The client writes to the object store directly, through presigned PUTs, before
  and after finalize.
* Every worker process also runs the sweeps, which read lists and act on them
  one key at a time, beside finalize, delete and other sweeps.
* API processes cache grant verdicts and learn nothing of a revocation that
  another process served.

The hard behaviours are therefore the interleavings of statements that no
transaction joins, crashes and lost replies between them, leases and cached
values that are stale when they are used, and time limits that race late
answers. `PROJECT.json` lists them one by one under `hazards`, each at the line
where it bites, with the properties that watch it.

## The modules

One action is one statement or transaction, or one call to the object store or
a media tool. What a goroutine computes between two of these belongs to the
action before. Names of the form `Name_Variant` (`Claimable_QueuedOnly`, ...)
are faulty versions of `Name`; no specification uses them. They record, for each
property, a bug it would catch.

### `JobQueue`: queue, worker, and what enqueues

| TLA+ | Code |
|---|---|
| `jobs`, `renditions` | the two tables; `retries` is `jobs.retries`, `stale` says that `heartbeat_at` is older than the lease TTL |
| `objects` | the delivery object under each (deterministic) rendition key, by the source it was made from |
| `authored` | the authored tickets of a target, its one staging key, and whether the file there was accepted by a finalize |
| `worker[w]` | the stage of `process` / `processRemux`, with the job as claimed (mode, attempt) and the downloaded bytes |
| `handler[h]` | an API request inside `EnqueueJob` / `EnqueueRemuxJob`, which look first and write later, outside any transaction |
| `ClaimNextJob` | the single `UPDATE ... FOR UPDATE SKIP LOCKED`, priorities included |
| `Pull` `Probe` `Transcode` `Upload` | the stages; `Heartbeat` is enabled in `transcode` only, as in the code |
| `FailedRenditionForCeiling`, `CompleteJobNoRendition` | a refusal is two statements |
| `CompleteConfirm`, `CompleteCommit` | the unlocked `SELECT` and the rest of the transaction |
| `FailJobRead`, `FailJobWrite` | read the attempts, then write `WHERE id` |
| `StepFails`, `Abandon`, `LeaseExpires` | an error; a crash, shutdown or unreachable database; time |

`Faults` turns two environment faults on: `"slow"` (a lease expires under a live
worker) and `"lost_ack"` (a statement that closed the job, `Replied`, whose reply is lost). Crashes, failing steps
and failing requests are always possible.

### `Ingest`: upload, finalize, delete, sweep

`uploads`, `assets` and `objects` are the tables and the vault; `derived` is what
finalize writes after the asset, one statement each; `request[r]` and
`sweeper[s]` are the finalize handlers and the `SweepLoop`s in flight. `grace`
says how many uploads, and deletions, are past the grace period: both are
ordered by their stamps, and so is what ages. `"late_finalize"` allows a
finalize of an upload that old, `"crash"` kills sweep loops.

### `Vault`: what ingest promises

The abstract specification of an original's life: where it stands (`stage`) and
whether its bytes are in the vault (`stored`), with no request, ticket, table or sweep in
sight. `Ingest!Promised` maps `Ingest` to it: the stage is read off the upload's flags and
the asset's row, the bytes are the object. `CreateUpload` is `Announce`, a `Put` on
an upload that is open is `Store`, the `FinalizeUpload` that makes the asset is `Register`,
`MarkAssetDeleted` is `Delete`, an upload that ages past the grace period unfinalized
is `GiveUp`, `SweepObject` and `PurgeObject` are `Discard`, `PurgeDeletedAsset` is `Purge`,
`MarkUploadSwept` is `Reclaim`; replays, follow-ups, lists, failures, crashes, a repeated
`DELETE` and a PUT over a finalized object are stutters. A live original has its
bytes because `Register` needs them and `Discard` wants a deleted or abandoned one, so
`LiveAssetHasObject` is a consequence of the refinement.

### `Capabilities`: grants, exports, originals

A clock, one grant, one export, the deletion stamps, the verdict cache of each
API process, the signed URLs at large, and the requests that mint or use them,
stopping between any two reads. A request notes the clock where the handler
calls `time.Now()`, so a stalled request fills the cache with an old time, as
`resolve` does. A URL remembers when its minting began. `ResolveGranted` and
`ResolveOriginal` begin a delivery request and `Sign` ends it; `CreateExport` and
`GetExport` list the URLs of an export's frozen set (`withDownloads`), without a
look at the assets; `DownloadGranted`, `DownloadOriginal` and `DownloadExport` use
a URL that was minted.

### `Derivation`: what the queue promises

The abstract specification: per rendition, whether work on it is owed and what a
delivery request is answered. `JobQueue_refines` maps `JobQueue` to it. Work is
owed while the target has a queued or running job; the answer is what
`Delivery!avResolution` makes of the rendition row, so the promise is stated in
the terms of the requester. `EnqueueInsert` is `Ask`; `MarkNotDerived` on a target
without a row is `Decline`; `FailedRenditionForCeiling` is `Refuse`;
`CompleteCommit` is `Serve`; `CompleteJobNoRendition` and a `FailJobWrite` that
gives up are `Close`; every other step, retries, reclaims and crashes included,
is a stutter.

### `Delivery`: routing, resolution, geometry

Operators over one read of an asset, no state. `RouteDelivery` is the allowlist
of (kind, intent) pairs, `resolveNonOriginal` and `resolveGranted` are the open
and the granted answer, `imagePreset`, `Zoom3PresetForAspect` and
`fitOutputDims` the ladder, in the integer arithmetic of the code: the aspect
bands compare cross products, the scaled edge is rounded to the nearest pixel. A URL is
its host, the object it serves and the preset; its text is left out.

### `Checksum`: the SHA-256 of every original

`sums` is the checksum and its algorithm with the version of the bytes it is of,
`stamped` the assets that carry a `checksum_checked_at` and `older` which stamp is
before which, `recent` those within the back-off; `sweep[s]` is a worker's sweep or an operator's backfill and `derive[a]` the
job that hashes what it downloads. `ClaimChecksumCandidate` is the claiming
`UPDATE`, which stamps before anything is read; `Interrupted` hands the claim
back, `Lost` does not; `MarkChecksumVerified` is the conditional record. `Reput` is the
presigned PUT that outlives finalize.

### `Readiness`: `/readyz` and what it watches

`machine` is a worker process (idle, busy, hung, dead), `beat` and `progress`
the ages of the newest heartbeat and of the newest stamp on a job, which `EnqueueJob` and
`EnqueueRemuxJob` (a re-point, as often as a client likes) renew as well as workers do.
`MaxJobs` bounds the jobs that are open at once, not the requests. A probe runs its
checks one after the other against a world that changes between them (`CheckDb`,
`CheckStorage`, `CheckWorker`, `CheckQueue`), swaps `health.last` under the mutex
(`Report`) and writes the transition line after the unlock (`LogTransition`), so two
probes may write in the other order.

### `Accounts`: keys, bindings, provisioning

`env` is the environment the operator edits, `loaded[i]` what instance `i` booted
with; instances of one deployment may differ. `Bootable` is what a boot refuses.
`handleProvisionAccount` is the request up to its last gate (key selection, the
binding, the namespace issuer), `ProvisionAccount` the insert, later; `CreateAccount`
is the operator's upsert.

### Composition and proofs

`MCService` composes the last four and `MCProgress` the two loops of a worker
process, `Ingest`'s sweeps and `JobQueue`'s workers (see below); `JobQueue_refines` composes
`JobQueue`, `Delivery` and `Derivation`, and `Ingest` instantiates `Vault`; the other `MC*` modules give TLC its
instances. The `*_proofs` modules extend the module they are named after;
`MCService_proofs` also holds the theorems of `Accounts`.

## What TLC checks

| Run | Question | Instance |
|---|---|---|
| `queue_faults` | Does what delivery relies on survive late workers and lost replies? (`ReadyHasObject`, `SucceededRecorded`, `AttemptsDistinct`, `RetriesBounded`) | both faults; 2 workers, 1 request, 1 target, 2 jobs, 2 attempts, 1 authored file, 1 expired lease per job; 1.4 M states |
| `queue_lease` | When leases outlast the work: `ClaimExclusive`, `ReadyDescribesObject`, `UnfitNeverDelivered`, `SucceededIsFinal`, `ReadyKept`, and `ImplementsDerivation`, the refinement above | no faults but crashes and errors; as above with 2 requests under the constraint `OneInsert`, 2 authored files, the second one unfit, and an asset that declined derivation; 524 k states |
| `progress` | of `Ingest`: `ImplementsVault`, the refinement above (and with it `LiveAssetHasObject`), `OrphansReclaimed`, `DeletedIsPurged`; of `JobQueue`: `EveryJobSettles` | fair, no faults but crashes; 2 uploads, one whose key cannot be deleted, batch 2; 1 worker, 2 intents of different priority, 2 jobs; 66 k states |
| `ingest_races` | `VaultAccountedFor`, `AnsweredIsComplete`, `GoneStaysGone` | both faults; 1 upload of each kind, 2 finalizes, 2 sweeps, 2 deletes; 92 k states |
| `capabilities` | `RevocationBounded`, `MintingStops`, `OnlyGrantedAssets`, `OriginalStopsAtOnce`, `DeletedMintsNothing` | 2 assets, one granted and exported, 2 requests, 1 API process, every lifetime 1; 3.3 M states |
| `service` | of `Delivery`: `EveryUrlOnItsHost`, `EveryGrantServesTheSame`, `EveryLadderFollowsPoster`, `EveryImageWithinWall`; of `Checksum`: `OneSweepPerObject`, `ShaKept`, `EveryAssetSummed`; of `Readiness`: `LogAddsUp`, `DeadFleetIsReported`, `StuckFleetIsReported`, `RecoveryIsReported`; of `Accounts`: `ProvisionedInNamespace`, `SettingsKept`, `RetiredKeyStops` | fair; 14 sizes, every kind, row state and configuration; 2 assets, one unreadable, 2 sweeps, 1 re-put, 1 fault; 1 machine, 2 probes, 1 open job, 1 outage; 2 instances, 2 keys, 2 accounts, 1 namespace, 3 edits; 225 k states |

`queue_faults`, `ingest_races` and `capabilities` also check `TypeOK` of their
module, `service` the conjunction of its modules' (`TypesOK`).

The four parts of `service` share no variable, so `MCService` does not
interleave them: a constant of the behaviour (`part`) says which one moves, and the
state space is the sum of the four. Nothing is lost by it: no action of one reads
what another writes. `MCProgress` does the same with `Ingest` and `JobQueue`; its queue
has no authored files. `query` makes each delivery request a state of its own,
so that its properties are invariants over every asset a database can hold and
every configuration of a process.

Why the bounds suffice. Every race in the queue is between two holders of a
target: two workers on one job, or a worker and the successor that took over its
expired lease, or two jobs of one target. Two workers, two jobs and one reclaim
per job show each of them, at two attempts both verdicts of `FailJob`; a second
authored file is there to replace the first. Targets interact only through the
order of claims, which `progress` exercises with two of them. Uploads interact
only through the sweep's batch, hence two of them in `progress` and one, with
doubled requests and sweeps, in `ingest_races`. In `Capabilities` the window is
one tick, so that "one window after" is reached at `Horizon = 1`; a larger clock
adds nothing the proofs do not cover. In `service` the sizes lie on both sides of
every cap and aspect band, in both orientations, with the worst case of each
band (the proofs cover every size); two checksum assets, one that can never be
read, show that it does not hold up the other, and two sweeps with a derive job every
pair of racing readers; one machine may still die, hang, recover and die again
without bound, and two probes are what it takes to swap and to write in different
orders; two instances run with different keys, and three edits
trust a key, bind it, and retire it. The bounds that are not sizes are guards
named in the modules: `MaxPuts`, `MaxReclaims`, `MaxDeletes`, `MaxUrls`,
`Horizon`, `MaxReputs`, `MaxDerives`, `MaxTrouble`, `MaxJobs`, `MaxOutages`,
`MaxEdits`. `queue_faults` and `queue_lease` use a `VIEW` that drops
`assets.probe_status`, which no action reads, and symmetry in the workers and the
requests, as `capabilities` does in the requests; the fair runs use neither.
`OneInsert`, the constraint of `queue_lease`, cuts off the states in which two requests
are past the lookup of one target and before its insert. Nothing in the code
prevents them: `queue_duplicate` shows what comes of it, and the theorems that need
the constraint assume it by name. In `Readiness` two open jobs show nothing that one does
not: the checks tell an empty queue from one that is not, and a stream of
enqueues is the re-point, which has no bound. The queue and ingest runs do not report deadlock, since a
system with every bound spent really stops, nor does `service`, whose checksum part ends
when every asset is purged; `capabilities` does.

### What does not hold

Each of these runs checks one statement of the repository and finds a behaviour
of the code that refutes it. `PROJECT.json` quotes the lines under `findings`.

| Run | Statement | What happens |
|---|---|---|
| `queue_duplicate` | enqueueing is idempotent per (asset, intent) (`OneLiveJob`) | the lookup and the insert are two statements and no unique index backs them: two requests that overlap each find nothing and each insert a job |
| `queue_reopened` | a succeeded job is not reclaimable (`SucceededIsFinal`) | `FailJob` writes `WHERE id` only; a worker that outlived its lease in the download or the upload, where no heartbeat runs, re-queues the job that its successor completed |
| `queue_reauthored` | a re-uploaded file is remuxed (`AcceptedFileJudged`) | `EnqueueRemuxJob` re-points the row and leaves its status: a job past its download, or succeeded, never reads the new file, and its caller was told `queued` |
| `ingest_late` | the sweep is safe beside ingest (`LiveAssetHasObject`) | a finalize past the grace period falls between the sweep's list and its delete |
| `capabilities_image` | a revoked image is gone within `GrantedImageMaxTTL`, always (`RevokedImageStops`) | a URL is signed from a cached verdict after the revocation; the cap counts from there |
| `service_stranded` | a dead or hung fleet stops the queue's progress, "the honest stuck signal" (`StrandedFleetIsReported`) | an enqueue and a re-point set `updated` too; a fleet that hangs and beats, with one such request in every window, is never reported |

Also noticed while reading, where the code and its comments or its intent part,
without a run of their own: `grantcache.go` says that the key is the grant id
alone, but it includes the asset (and must, see `OnlyGrantedAssets`);
`MarkProbeFailed` says that delivery then refuses, but writes no rendition row;
a worker that outlives its lease may put and record its older bytes over its
successor's, so that a ready row describes what is no longer there
(`ReadyDescribesObject` is false under the fault `"slow"`);
authored uploads never get `finalized_at`, so the orphan sweep deletes their
shared staging key; the last branch of `FailJob` marks the job failed "with a
closed-enum reason the delivery path surfaces" (`queue.go:261`), but writes no rendition row,
and delivery reads rows only and answers pending; `GET /exports/{id}` lists signed URLs
of assets deleted since, which are refused when they are used; nothing validates that an upload URL
expires before the sweep's grace period; as many undeletable keys as a batch
holds stall the sweep; a repeated `DELETE` re-stamps `deleted_at`.

From `Delivery`: an image asset's A/V intents are not looked up in the allowlist and are
answered with an image URL that names a preset the engine does not define
(`delivery.go:141`, `handlers.go:695`); `OnItsHost` says so of them. (video,
zoom) and (audio, thumbnail) are "deliberately ABSENT, so they refuse"
(`delivery.go:71`) but are answered `pending` for ever, since no row for them will ever
exist (`handlers.go:786`), and a rendition request for a video's zoom enqueues a job that can
only fail. The `zoom_3` wide cap (6197, `mediaspec.go:194`) is one above the
floor of the square root it is derived from: at the ratio 1.6 the image is
24.001 megapixels, which is why `WithinWall` allows one row of pixels.

From `Checksum`: the vault is described as immutable, but the presigned PUT works
after finalize, so a verified sum may describe bytes that were replaced since; the
first sum is kept and the mismatch is logged. A configured read rate below about
0.57 MiB/s makes a 2 GB object outlast the timeout of its read.

From `Readiness`: an enqueue and a re-point count as progress, so while such requests keep
coming a dead fleet is told by its heartbeat alone (`DeadFleetIsReported`) and a
hung one, which beats, by nothing: it is reported once they stop (`StuckFleetIsReported`) and
not before (`service_stranded`); a job beats every third of its lease, 5 minutes by default, which is
also the progress window, so that one long job can flash `degraded`; the answer
"no job has ever progressed" needs a queued job whose row has no stamp, which no
enqueue makes; a hung worker that holds the only job is reported by nothing, which is why
`Stuck` asks for a queued one.

### Fairness

`JobQueue!FairSpec`, which `queue_reauthored` uses, is weak fairness of `Progress(w)`, the worker loop, and of
`LeaseExpires(j)`. `Run` loops until its process stops, polls again when there is
nothing to claim, and every call it makes has an outcome, success or error, so
some step of it is always taken; time passes. A particular outcome is not
assumed: `EveryJobSettles` holds even if every stage fails. Crashes (`Abandon`) are
limited by `MaxReclaims` per job; without such a limit no job need ever end, and
the code does not promise that one does: a reclaim does not look at
`MaxAttempts`. API requests are under no fairness. `MCProgress!Fairness` asks the same of
its queue.

`MCService!Fairness` is weak fairness, part by part, of what loops or ends by itself:
the steps of a sweep (a ticker; its read has a timeout and one outcome or the
other), the back-off passing, a derive job settling (see `EveryJobSettles`), the
steps of a probe (the platform asks every 15 s), the job loop and the heartbeat loop of
a machine, stamps ageing, an instance being restarted after the environment
was edited, and a request past its gates ending. Operators, clients, outages, crashes and
re-enqueues owe nothing; a machine or a dependency that fails need not come back.

Of ingest, `MCProgress!Fairness` is weak fairness of time, of requests ending (each is a
fixed number of calls, and a client that goes away cancels it), and of each sweep loop
(a ticker), and strong fairness of a delete or purge succeeding on a key
that can be deleted: the sweep tries again on each tick, and the promise is that
a transient error delays it only. Keys in `BadKeys` get no such promise.

## What is proved

The theorems hold for any number of workers, requests, targets, jobs, attempts,
re-uploads and reclaims, for any assets, lifetimes and API processes, and for any
image sizes, sweeps, keys and instances. Their
assumptions, beside the ones said below, are the named `ASSUME`s of the modules: ids are positive
numbers, only the detail intent has a ceiling on derived bytes, lifetimes are
natural numbers and a granted URL's lifetime is within the image cap. TLC
evaluates them in every run.

**`JobQueue_proofs`**, whatever faults show:

* `TypeCorrect`: `TypeOK` with `HeldExists`, that a worker's job is a row that
  is there. `TypeOK` alone is not inductive: a worker reads the target of
  its job.
* `DeliveryInvariant`, from which `ReadyIsBacked`, `SuccessIsRecorded` and
  `NothingUnfitDelivered` follow. What the three need about each worker is
  `Secured`: past the probe it holds bytes within the ceilings; before the
  confirmation the target has an object; before closing a refusal
  the row is there. Objects are never deleted by the modelled operations and a
  recorded verdict is never erased, so what a worker has secured stays secured,
  however late it is: this is why the three survive a reclaimed lease.
* `AttemptsAreDistinct`: `retries` never falls, and a claim is the only action that
  takes a new number and raises it above every number in use.
* `RetriesAreBounded`, for `IsFiniteSet(Workers)`, from `RetryInv`. `Slots` counts
  who may still act on a job, its holders and its place in the queue, and bounds them
  by one more than its reclaims; `Budget` adds to the attempts made those that holders
  about to re-queue will cause. `RetriesBounded` alone says nothing of a late worker that
  has read its attempts and not yet written.

With `"slow" \notin Faults`, whether replies are lost or not:

* `ClaimsExclude`, from `ExclusiveInv`: a job in hand has a fresh lease and is running, or
  was closed by its holder's own commit, whose reply was lost. Neither can be
  claimed, only its holder changes its status, and what puts it back in the queue lets
  go of it in the same step.

With `Faults = {}`:

* `SuccessIsFinal`, from `LeaseInv`, which adds that a job in hand is running: a
  succeeded job has no holder. Neither fault can be allowed: `queue_reopened` shows a
  late worker re-opening a job, and a worker whose commit was not acknowledged
  re-queues its own success.

**`Ingest_proofs`**, whatever faults show, for every batch size and any set of keys
that cannot be deleted: `IngestInvariant`, from which `VaultAccountedFor`,
`AnsweredIsComplete` and `GoneStaysGone` are read off. `IngestInv` adds what
each actor relies on between two of its steps:

* `TicketsOver`: what a sweep's grace period has passed can be put no more. An
  object it deletes stays deleted only because of this;
* `RowsFinalized`: the flag and the asset's row are written in one transaction;
* `OrphansOld` and `DeletionsStand`: what a sweep has listed stays old, or
  deleted, and between its delete and its mark the object is not there;
* `FollowsUp`: a finalize past its transaction has written the first follow-ups
  of its list, unless the asset was deleted meanwhile.

Assuming that no finalize comes later than the grace period, and allowing sweeps
to be killed:

* `TimelyInvariant`. `VaultInv` adds `InTime` (who finalizes began within the grace
  period, and the object its HEAD saw stays until a deletion), `OrphansStay` (a listed
  orphan is never finalized) and `TicketKeeps` (as long as its ticket is valid, a
  finalized upload has its object, so that a late PUT replaces bytes and adds none);
* `LiveAssetsHaveObjects` is read off it;
* `IngestImplementsVault`: initial states map to initial states and each action to the
  step of `Vault` given above or to a stutter. `Register` needs `InTime`, `Purge` and
  `Reclaim` need what a sweep relies on between its delete and its mark, and the
  stutter of a PUT needs `TicketKeeps`.

The run `ingest_late` shows that the assumption is needed.

`EveryBatchMoves`, for a finite set of keys that cannot be deleted and whatever faults
show: any list that a sweep could make holds a key that can be deleted, if there is
one, as long as the bad ones among the candidates are fewer than the batch. It rests on a least element
under the stamps (`Least`, by well-founded induction over the naturals) and on
counting what comes before it. This is the safety half of `OrphansReclaimed` and
`DeletedIsPurged`; that the sweep comes round to it is fairness and stays with TLC.

**`Capabilities_proofs`**: `CapabilityInvariant`, the conjunction of `TypeOK` and

* `RequestsSound`: what a request has passed was true at some moment not before it
  began, or was vouched for by a trusted verdict;
* `VerdictsTrusted`: a live cache entry is for an asset of the grant, and it
  expires within a window of a moment when the grant was in force;
* `UrlsMinted`: a URL at large carries no more than its request had.

`RevocationIsBounded`, `MintingIsBounded`, `GrantsStayApart`, `UncachedIsExact`
and `DeletionStopsMinting` are read off it. `DeletionStopsMinting` speaks of granted and
original URLs; an export's are minted for deleted assets too, and that no
such URL is served is `UncachedIsExact`. The properties mention requests that
are about to be served; the invariant must follow them from their first read,
and must speak of the cache, which outlives requests.

**`JobQueue_refines_proofs`**, for any number of requests, of the behaviours in which no
two of them are between the lookup and the insert of one target (`Spec /\ []OneInsert`).
Requests may overlap in every other way: a lookup during another's insert, two
re-points, an insert during a re-point. While no lease expires under a live worker
(`"slow" \notin Faults`):

* `DuplicatesNeedOverlap`: a target with two unfailed jobs takes two overlapping
  inserts, and nothing less. From `LineInv`: `ExclusiveInv` with `NoGap` (rows are numbered
  without one), `OlderFailed` (an older job of the target has failed) and `InsertClear`
  (who is about to insert has only failed jobs beside it). `OneLiveJob` cannot stand alone: it
  is kept because the lookup that precedes an insert still holds when the insert
  comes, and that because a failed job has no holder who could re-queue it.

With `Faults = {}`:

* `QueueInvariant`, of `LeaseInv`, the three above, `ReadyEarned` (a ready row has a
  succeeded job), `UploadStands` (between upload and commit the object is the holder's)
  and `ReadyDescribesObject`, which holds because no second holder writes the key;
  that takes `ClaimExclusive` and one live job per target both. TLC finds it violated when a reply is
  lost: the re-queued success is derived again, over the object of a ready row.
* `ReadyDescribes` and `ReadyIsKept` are read off it.
* `QueueImplements`: initial states map to initial states, and each action to the
  step of `Derivation` given above or to a stutter. `Serve` needs
  `OlderFailed`, so that the commit settles the target's only work.

**`Delivery_proofs`**: `ImagesWithinWall` for every pair of natural numbers as a
size, one lemma per cap: rounding adds at most half a pixel to an edge, so the area is
within a row of the product of the cap and the capped short edge, and each aspect band bounds that
product. `UrlsOnTheirHost`, `GrantsServeTheSame` and `LaddersFollowPosters` for every asset and
configuration.

**`Checksum_proofs`**, for any number of sweeps, derive jobs, re-puts and
interruptions:

* `SweepsExclude`, from `SweepInv`, whose core is that a claim's asset is within the
  back-off (`ClaimShields`), and `VerifiedSumKept`;
* `ClaimsAreOrdered`, from `StampInv` (`older` orders the stamped assets): the claim
  order is strict and total, so that sweeps that claim at once agree on who is next;
* `ClaimsTakeTurns`: who waits is overtaken only by a turn of its own or by a claim that is
  handed back. An asset that cannot be read goes behind the others;
* `ChecksumTypes`.

**`Readiness_proofs`**: `LogsAddUp`, for any finite set of probes. `LogAddsUp` speaks of the moments
when no line is in flight; `Ledger` is the invariant it takes: per status, the lines
written and the lines in flight that enter it, less those that leave it, are one for the status
reported last, less one for the `ok` it all began with. A probe moves a line from in flight
to written, and a report adds one that leaves where the last one entered, so that the order in which they are
written does not matter. `ReadinessTypes` needs that a job enqueued is
counted once, in the queue or on a machine (`IsFiniteSet(Machines)`).

**`MCService_proofs`**:

* of `Accounts`: `IssuersStayInNamespace` from `NamespaceInv`, which follows the namespaces
  from the environment through the instances that booted with it to the
  requests past their gates; `OperatorSettingsKept`; `AccountsTypes`;
* `PartsBehave`: a behaviour of the composition is one of `Checksum`, of `Readiness` and of
  `Accounts`, so that every theorem of a part holds of the whole;
* `EveryRequestRouted`, `EveryGrantHonoured`, `EveryLadderAnswered`, `EveryImageFits`: the four
  theorems of `Delivery` for the requests of the composition; `ServiceTypes`.

The inductive invariants were model-checked on the instances above before they
were proved. Every invariant and action property that a passing run checks, and
both refinements, are theorems.

**Model-checked only**: liveness, which rests on fairness and is outside the prover's
reach: `EveryJobSettles`, `OrphansReclaimed`, `DeletedIsPurged`, `EveryAssetSummed`,
`DeadFleetIsReported`, `StuckFleetIsReported`, `RecoveryIsReported`, `RetiredKeyStops`.

## Abstractions

* Time: a flag per lease, a prefix of the stamps in `grace`, one clock in
  `Capabilities` (the code compares `time.Now()` of the API with `now()` of the
  database in places; their skew is not modelled).
* Bytes are identified by their source. Reason codes, dimensions and wording are
  dropped; "this source breaches a ceiling of this target" is the constant
  `Unfit`, whichever ceiling it is.
* `CreateExport`'s classification and its insert are one step: an asset that is
  deleted between them is in the set like one deleted after. Its answer, and that of
  `GetExport`, lists a URL per asset; a request here is about any one of them.
* A lost reply (`"lost_ack"`) is that of `CompleteJob`'s commit or of `CompleteJobNoRendition`.
  The others lead to states that are there anyway: a claim's is a claim and `Abandon`,
  a refusal row's is `StepFails` after it, `FailJob`'s is ignored. An
  enqueue whose reply is lost is taken as answered.
* An HMAC is a URL that nobody else can make. Scopes and ownership are
  checked before any step modelled here and never change.
* `Delivery` starts a granted request from a live grant and a found asset, which
  `Capabilities` models; a purged asset's answer is left out.
* `Checksum` gives a re-put object the declared size, takes a derive job as one
  read and one record, and leaves out the rate limit. It assumes that a read ends, at its
timeout of an hour at the latest, before the back-off of 6 h does (`BackoffEnds`), which the
defaults see to and nothing enforces; created stamps differ, so that the claim's
last sort key, the id, never decides. `Readiness` reads a
  stamp as fresh or stale and takes the window as longer than the beat. `Accounts`
  takes a token's signature, expiry, issuer and scopes as checked, and a pattern as the
  set of accounts it matches.
* In `Ingest` an upload and its asset share an id, and a video's probing and
  transcoding are left to `JobQueue`, which in turn leaves the cascade of a
  purge over jobs to `Ingest`.
* Presigned PUTs and the object store are external: a PUT succeeds while its
  ticket is valid, a DELETE is idempotent and may fail.
* Defaults that justify the order of events: upload URL 1 h, sweep grace 6 h, sweep
  every 15 min with a batch of 100, verdict cache 5 s, granted URL 90 s with a cap of
  120 s, export at most 30 days.

## What is not modelled

The storage adapter, the media tools and the generated API types have no state of
their own to interleave. Of the configuration only the keys and bindings are
modelled (`Accounts`); the other variables are constants of the models. The
migrations' runner and the wiring in `cmd/plate` run once, alone. The signature,
issuer and scopes of a token are pure checks before every modelled request. Listing
and paging (`ListAssets`, download listings) read one statement's snapshot and change nothing.

## Plan

Done, most important first: `JobQueue`, `Ingest`, `Capabilities`, `Delivery`,
`Checksum`, `Readiness`, `Accounts`; `Derivation`, `Vault` and the two refinements; the
proofs above.

1. What the queue still promises when replies are lost: `ReadyDescribesObject` outside the
   window in which a re-queued success is derived again.
2. The composition of `Ingest` and `JobQueue` over a purge: the cascade that
   deletes a running job's row, and the delivery objects that it leaves.

## Running

    tlc -workers 2 -config MCJobQueue_faults.cfg MCJobQueue
    tlapm JobQueue_proofs.tla

`PROJECT.json` lists every run, the map from definitions to source lines, the
properties' faulty variants, the findings, the hazards and the theorems.
