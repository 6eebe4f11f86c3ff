# A TLA+ verification of SatHop

SatHop moves *granules* (units of satellite data) from submission to delivery.
An **orchestrator** keeps every fact in a database, **workers** lease granules,
download the inputs, run the user's bundle and serve the outputs, **receivers**
pull the outputs and acknowledge them, after which the workers delete their
copies. The three talk HTTP only; the orchestrator never calls a worker or a
receiver. This directory holds the TLA+ modules that model that code, the TLC
configurations that check them on small instances, and proofs that TLAPS checks
for every instance. Paths below are relative to `src/src/sathop/`.

## Inventory

| Component | State it keeps | Operations | Hard parts | What makes it correct |
|---|---|---|---|---|
| Granule state machine (`shared/state_machine.py`, `orchestrator/api/_transition.py`) | `granules.state`, `leased_by`, `lease_expires_at`, `retry_count`, `updated_at` | `apply(snapshot, event)` for 14 events; `apply_transition` writes the result | events accept several predecessors (fast and collapsed reporting); one transition, the delete, is counted and bypasses the ORM | a lease is held exactly in the leased band; the retry budget is respected; the delete is counted once |
| Leases (`api/worker_leases.py`, `api/workers.py`, `background.py` sweeper) | the lease columns, `workers` | lease, renew, revoke, reclaim, sweep, the in-flight cap | lost lease replies, late heartbeats, expiry racing renewal, check-then-claim | nobody works on a granule somebody else was given for nothing; no granule is stuck on a worker that forgot it |
| Delivery (`api/receivers.py`, `delivery_ledger.py`, `api/workers.py::deletable`, `background.py::sweep_orphaned_acked`) | `granule_objects` (acked, deleted, failed pulls, pull lease), `delivery_records`, `batches.delivered_count` | pull, ack, ack batch, deletable poll, delete confirmation, orphan sweep | repeated and reordered acks, workers that vanish with the confirmation, retention, requeue racing a late ack | no copy is deleted before the receivers have it; every delivered granule is counted once; every ack has its receipt |
| Batches and operator requests (`api/batches.py`, `api/admin.py`, `reaping.py`) | `batches`, granule rows | create, add, pause, cancel, retry, requeue, reset, delete, retention | requests that overlap the workers' events; ids submitted a second time | an attempt starts clean; what is cancelled stays cancelled |
| Worker runtime (`worker/runtime.py`, `worker/handler.py`, `worker/event_buffer.py`) | running handlers, the event buffer, live concurrency, drain flags | lease loop, heartbeat, handlers, janitor, backpressure, live reconfiguration | one asyncio task per granule, cancellation, a second lease of a granule still being handled | the reported active set covers all work in progress |
| Flush buffer (`shared/flush_buffer.py`, `receiver/ack_buffer.py`, `worker/event_buffer.py`, `worker/progress_buffer.py`) | the queue, the batch in flight | enqueue, tick, flush, drain on cancellation | failed flushes, overflow, cancellation during a flush | order, no loss below the bound, nothing left behind by a drain |
| Receiver runtime (`receiver/runtime.py`, `receiver/puller.py`) | in-flight set, bounded queue, partial files | producer, pull workers, segmented download, heartbeat, drain | a claim expiring during the pull, re-offers, partial segments | only verified bytes are acknowledged; at most one pull per object in a process |
| Rollout (`api/rollout.py`, `background.py::advance_rollout`, `api/one_shot.py`) | `rollouts`, the one-shot columns of `workers` | start, abort, resume, tick, signal, consume | the leader's tick racing abort and resume, lost signals | a wave is entered only when the last one is settled; one rollout is active; none hangs |
| Container entrypoint (`src/deploy/runtime/entrypoint.sh`) | `.pending-version`, the intent, the committed version | choose, install, gate, commit, fall back | a version that dies in its gate, a restart in the gate, a stopped container | a host falls back to what last passed its gate |
| Pub/sub and events (`pubsub.py`, `event_store.py`, `api/stream.py`) | subscriber queues, coalescing windows, the notify queue | publish, coalesce, fan out, notify, listen | full queues, reconnects, the trailing edge of a window | the last change of a burst is always announced |
| Bundle and shared-file registry (`api/bundles.py`, `api/shared.py`, `api/admin.py` gc, `worker/bundle.py`, `worker/shared.py`) | registry rows, blobs, worker caches | upload, delete, gc, materialise, prune | gc racing an upload, prune racing a handler | a referenced blob exists |
| Agent lifecycle (`shared/agent_lifecycle.py`, `shared/periodic.py`) | the drain flag, a deadline | start drain, watchdog | in-flight work at the deadline | a drain ends |
| Leadership (`background.py::run_leader_tasks`) | a Postgres session lock | contend, run the sweepers, release | a dead connection whose tasks still run | one process sweeps at a time |
| Read side (`api/batch_readmodels.py`, `admin_readmodels.py`, `metrics.py`, `timing.py`, `csv_export.py`, `deliveries.py`, `batch_reports.py`, `events.py`, `telemetry.py`, `read_cache.py`) | caches | queries | staleness within a time-to-live | not modelled: they write nothing |
| Command line, configuration, TLS, storage, bundle validation, frontend (`cli/`, `*/config.py`, `worker/tls.py`, `worker/storage.py`, `shared/bundle_*.py`, `frontend/`) | files | parse, validate, render | none concurrent | not modelled: formats and I/O |

## How the parts meet

    operator ──HTTP──┐                 ┌──HTTP── receivers (pull, ack)
                     ▼                 ▼             │
    workers ──HTTP── orchestrator ── database        │ GET object
    (lease, heartbeat, events, deletable)            ▼
       └─────────── serve the uploaded files ◄───────┘

* The database is the only shared state. Every request is one handler with one
  session: it reads rows, calls `state_machine.apply` on a snapshot, and commits.
  Four statements re-assert their predicate in the `UPDATE` (claim, reclaim,
  sweep, delete path); everything else commits what it decided on what it read.
* The worker learns of a lease from a reply that may be lost, tells its progress
  through a buffer that batches and resends, and learns of a revocation from the
  reply to a heartbeat or to an event batch.
* The periodic tasks (lease sweeper, orphan sweep, retention, rollout) run in one
  elected process and meet the requests in the database only.

## Modules

| Module | Models | Extends |
|---|---|---|
| `GranuleStates` | the pure state machine: the states, what each event accepts, the row it leaves | |
| `GranuleProtocol` | the tables, the workers, the receivers and the network between them; one atomic action per request | `GranuleStates` |
| `GranuleLifecycle` | what an operator is promised about a granule, with nothing distributed in sight | |
| `GranuleDelivery` | the inductive invariant of the delivery properties | `GranuleProtocol` |
| `GranuleRefinement` | the mapping under which `GranuleProtocol` implements `GranuleLifecycle` | `GranuleDelivery`, instance of `GranuleLifecycle` |
| `GranuleRaces` | the handlers that read, decide and commit, split at that seam | `GranuleProtocol` |
| `Pulling` | the receivers' side: claims, producer, queue, pullers, files, buffered reports | |
| `WorkerRuntime` | the inside of a worker process: lease loop, handlers, semaphores, heartbeats, settings, drain | |
| `FlushBuffer` | the queue every agent sends its reports through | |
| `Rollout` | staged upgrades: the rollouts table, the update signals, the workers' hosts | |
| `RolloutRaces` | requests, heartbeats and ticks of a rollout, split between read and commit | `Rollout` |
| `PubSub` | a change on its way to an open tab: windows, NOTIFY, LISTEN, streams, cached reads | |
| `Registry` | bundles and shared files on the orchestrator: rows, bytes, overlapping requests | |
| `WorkerCache` | the worker's caches of them: ensure, eviction, sweep, kills | `Registry` |
| `GranuleProofs`, `GranuleRacesProofs`, `FlushBufferProofs`, `WorkerRuntimeProofs`, `PullingProofs`, `RolloutProofs`, `PubSubProofs`, `WorkerCacheProofs` | theorems | the modules they are about, `TLAPS` |
| `MC...` | instances for TLC: constants, symmetry, and for `MCWorkerCache` two of the initial states | |

`GranuleProtocol` is the middle: it has what the orchestrator, the workers and the
receivers know of each other, with each process reduced to what the protocol sees of
it. `WorkerRuntime` and `Pulling` open the two processes, each against the part of
the orchestrator that deals with it; `WorkerCache` composes the registry with the
caches of a worker that use it.

### GranuleStates and GranuleProtocol

A row of `granules` is the record `[state, leased_by, lease, retry, fresh]`.
`lease` is `lease_expires_at` as a phase (none, live, expired) and `fresh` is
`updated_at` compared with the reclaim grace of 60 s; time passes in
`ExpireLease` and `GraceElapses`. `retry` saturates at `max_retries`, the only
number it is compared with. The object rows are kept as sets of object ids (`rows`,
`acked`, `deleted`, `exhausted`) with the worker that uploaded them (`host`).

| Code | Actions |
|---|---|
| `api/batches.py` create, add, pause, resume, delete, cancel, retry | `CreateBatch`, `AddGranules`, `SetBatchStatus`, `DeleteBatch`, `Cancel`, `Retry` |
| `api/admin.py` requeue, reset | `RequeueUndeliverable`, `ResetPullFailures` |
| `api/workers.py` register, pause, revoke-all, remove, purge | `Register`, `SetPaused`, `RevokeAll`, `RemoveWorker`, `PurgeWorker` |
| `api/workers.py::lease` and `claim_pending_granules` | `Lease`, then `ReceiveOffer` (the reply arrives or is lost) |
| `worker/runtime.py` heartbeat, `api/workers.py::heartbeat`, reclaim and renewal | `SendBeat`, `LoseBeat`, `ServeBeat` |
| worker events | `StageEvent`, `UploadCompleted`, `ProcessingFailed`, `HandlerEnds` |
| `api/receivers.py` pull, ack, failed pulls | `Receive`, `Ack`, `PullFails` |
| janitor, `deletable`, `DeleteConfirmed` | `PollDeletable`, `ConfirmDelete` |
| `background.py` sweeps and retention | `SweepExpiredLeases`, `SweepOrphanedAcked`, `Retention` |
| a worker process that stops | `Crash` |

A cancellation of one granule and of a batch are both `Cancel(S)`, the single and
the batched ack are both `Ack`, the single and the batched event both the event's
action: batches are applied in one transaction whose effects are those of its
members. Requests that the code refuses, and that change nothing, are no steps.

Three things in `GranuleProtocol` are assumptions about the world rather than code:

* a worker has at most one heartbeat on its way (its loop sends one at a time);
* `GraceElapses` waits for the lease replies and heartbeats older than the write:
  requests time out after 30 s and the grace is 60 s;
* object ids are not reused. (SQLite may reuse the highest row id after a delete;
  the receipts carry the upload time for that reason.)

`ReuseIds` says whether the operator submits a granule id again once its row is
gone. With `FALSE` the delivery properties hold. With `TRUE` a delete confirmation,
buffered and resent, may meet the second life of an id: `ConfirmGated` then fails in
exploration.

### GranuleRaces

A handler opens no transaction by reading on SQLite: the driver runs a `SELECT` in
autocommit, and the first write takes the lock. The ORM then writes only the
columns that differ from what was *read*, under the row's id. So each handler is a
`Begin...` action that stores the snapshot and what `apply()` made of it in a slot,
and a commit that merges the changed columns into the row as it is *now*
(`Flushed`), or fails as a whole when a row is gone (`Stale`). All actions of
`GranuleProtocol` remain possible meanwhile. An ack reads the granule at the start
but counts the acknowledged objects at its commit, inside the write transaction.
The heartbeat's reclaim selects ids, then updates those that still satisfy owner
and band (`StillDoomed`); the renewal goes by what the table then holds. A lease
request checks the worker, then claims.

The module is the behaviour on SQLite. On Postgres the commits of events, cancel,
retry, requeue and revoke behave the same under READ COMMITTED. The ack there holds a
row lock on its object, so two acks of the *same* object do not overlap; what two acks
of *different* objects do to each other there is not modelled. Where a heartbeat has
written the worker's row before the reclaim's `SELECT` (a version change), the write
lock closes the gap on SQLite; the ordinary heartbeat writes nothing before it.

### FlushBuffer

`q`, `batch` and `phase` are the state of `FlushBuffer.loop`: waiting, posting, and
after the cancellation draining, posting the last, done. `StartFlush` is `_flush`
up to its `await`, `Answer` and `Fail` what follows it. `Land` is the orchestrator
applying the batch; a post that failed for its sender may still land then or later
(`late`). `Pending` is `EventBuffer.pending_granule_ids`. Timers and wake-ups only
decide when a flush starts and leave no trace.

### Rollout

`rolls` is the `rollouts` table (`phase` "none" is an id not given out yet; `due` is
`wave_deadline` compared with the clock), `row` the columns of `workers` that a
rollout reads and writes (`ask` is the update one-shot), `node` what is on a worker's
host: the process and the three files of the entrypoint. `stray` holds heartbeats the
process gave up on, which the orchestrator may still handle. `tried` and `parked` are
histories for the properties.

| Code | Actions |
|---|---|
| `api/rollout.py` start, abort, resume | `StartRollout`, `AbortRollout`, `ResumeRollout` |
| `api/workers.py` update, update all, pause, remove | `RequestUpdates`, `SetPaused`, `RemoveWorker` |
| `background.py::advance_rollout` with `_enter_wave`, `_wave_size`, `rollout_member_breakdown` | `AdvanceRollout` (`EnterWave`, `Cohort`, `WaveSize`, `Pending`) |
| the clock passing `wave_deadline` | `DeadlinePasses` |
| the heartbeat handler, `consume_one_shots`, and what the process does with the reply | `Heartbeat`, `HeartbeatGivenUp`, `StrayHandled` |
| registration of a new process; a removed worker's is refused with 410 and crashes (`worker/runtime.py:197`), and the entrypoint restarts it for ever (`entrypoint.sh:260`) | `Register` |
| the process drains, crashes, its container is stopped | `Drained`, `Crash`, `ContainerStops` |
| `entrypoint.sh`: choose, install, gate, fall back | `Boot`, `InstallFails`, `GatePasses` |

Every request and every tick is one atomic step; overlapping ones are in `RolloutRaces`. A
heartbeat whose reply is lost is a `HeartbeatGivenUp` followed by a `StrayHandled`.
A release in `Flaky` registers and dies before its gate ends. A stamp that cannot be
written leaves the host on its committed version after the restart, which is what
`InstallFails` leaves. The removal of a worker also touches its granules; that half
is in `GranuleProtocol`.

### RolloutRaces

`GranuleRaces` for the rollout: one handler at a time is split into its reads (`Begin...`)
and its commit, everything else goes on in between (`Meanwhile`). `tx` is what the handler
has read and means to write. A commit writes the columns that differ from what was read
(`Changed`), which decides who overwrites whom: a tick that read a running rollout and goes on
to the next wave does not write its phase and leaves an abort alone; one that enters the
canary, finishes or halts does write it, over an abort too. `stopped` is the history of the
aborts that nobody has resumed since, with the wave each was in. The two columns of the signal are apart here: `left` is `update_to_version` where
`update_requested_at` is NULL, and a stamp whose version was there when it was read
(`Stamped`) becomes a plain restart if a heartbeat consumes that version first.

| Code | Actions |
|---|---|
| start, abort, resume, the update endpoint | `BeginStart`, `BeginAbort`, `BeginResume`, `BeginUpdate` |
| `advance_rollout` | `BeginTick` (`Entered`) |
| the heartbeat, awaited or given up | `BeginBeat`, `BeginStray` |
| the commits | `CommitStart`, `CommitWork`, `CommitBeat` |

The reads of a handler are one step though they are several statements. There is one
leader: that two tick at once for a moment, when a connection to Postgres dies, is left
out; their second tick would move members of a wave that is no longer current.

### Pulling

The objects of one granule and the receivers that fetch them. A row of
`granule_objects` is `[id, acked, failed, by, orphan]`: `by` is who holds a claim that
has not expired (`pull_leased_by`, `pull_lease_expires_at`). `proc` is a receiver's
process: the reply to its pull under way, the queue, the pulls and the ack buffer.
`disk` has what is in the file of a key, as the number of the attempt whose bytes they
are. `orphan` and `overtaken` are histories.

| Code | Actions |
|---|---|
| `api/receivers.py` register, heartbeat (enabled, restart), `/pull` | `Boot`, `Heartbeat`, `Pull` (`Taken`, the claim) |
| `receiver/runtime.py` producer, in-flight set, queue | `Receive` (`Fresh`, `Queueing`), `PullLost` |
| `receiver/runtime.py` pull worker, `puller.py` | `StartPull` (`Opening`), `PullEnds` (`Landed`: renamed, or unlinked; `Reporting`) |
| `receiver/ack_buffer.py`, `/ack/batch` | `PostAcks` (answered or not; `RowsAfter`: the rows after each report) |
| drain, crash | `Terminated`, `Exit` |
| `api/admin.py` requeue, reset; the next upload | `Operator`, `Uploaded` |
| `pull_lease_expires_at` against the clock, the worker's files | `ClaimExpires`, `FileLost` |

The request and its handling are one step, the reply another. The queue is a set: only
its size is compared with anything. A crash is a termination whose deadline has passed.
A batch with a target receiver is the instance with that one receiver. Segments of one
pull may mix the bytes of two attempts; the digest catches that, and the model has it
as a mismatch. The repeated attempt at a TLS handshake, statistics and health are left
out.

`AckedIsHeld` has an exemption, and needs it. A claim expires while its pull is still
running; another receiver fails on the object and exhausts it; the operator requeues the
granule; the next attempt uploads other bytes under the same key; the first receiver
pulls and acknowledges them; then its *old* pull ends and replaces or unlinks the
file. The object is acknowledged and the file is gone or old (`receiver/runtime.py:318`,
`puller.py:179` and `:199`). `overtaken` marks just these files; without it TLC finds
that behaviour in 22 states.

### WorkerRuntime

`task` has the running handler tasks, each with the section it waits for or is in and
the handler object whose semaphores it took; `entry` is `_handlers`, the dictionary
from a granule to its task, which is what the reconcile, the watchdog and the
reconfiguration look at. `permits` are the semaphores of every handler object there
has been. `pipe`, `beat` and `slotFree` are the lease loop, the heartbeat under way and
the loop's wake-up event.

| Code | Actions |
|---|---|
| `_pipeline_loop` and `api/workers.py::lease` | `Lease`, `StartHandlers` |
| `handler.py::handle`, `stages.py`, `_on_handler_done` | `Enter`, `Finish`, `Unwind` |
| `_heartbeat_loop` and the handler of heartbeats, revocations, settings | `SendBeat`, `HandleBeat`, `HandleBeatUnknown`, `HandleBeatRemoved`, `AnswerBeat` |
| `_apply_reconfig`, `_reconcile_concurrency` | `Rebuild` |
| event buffer | `Deliver` |
| drain, watchdog, removal, crash, start | `Lifecycle` (`Drained`, `Boot` and the rest) |
| lease sweeper and clocks | `LeaseExpires`, `GraceElapses` |

The done-callback of a task is merged with the task's end (both run before the loop
looks again); fetching a bundle is part of waiting for the process semaphore, and is
opened in `WorkerCache`; settings and pause are read when the answer to a heartbeat
arrives, which commutes with reading them when it is handled. `GraceElapses` waits for
the requests that are under way: they time out after 30 s, the grace is 60 s. Stage
reports, detail mode, the pause under disk pressure, back-off, progress and the
janitor are left out.

Histories: `orphan` are the leases whose task or reply was lost, `relapsed` the granules
leased again while a cancelled task of theirs was still unwinding, `overdue` that a
rebuild gave up waiting. `relapsed` is there because the code does not close that gap:
both handlers run, the first to end removes the entry of the other
(`worker/runtime.py:139`), and the reconcile may then take the granule under it.

### PubSub

One scope, from `commit_and_publish` to the tab. All nudges of a scope are alike, so a
queue is whether it holds one, and whether it is full of others (`clogged`, `stuffed`).
`version` numbers the commits; a tab's `shown` is the commit its data is from. Postgres
mode: the SQLite mode is the local half of it alone.

| Code | Actions |
|---|---|
| `commit_and_publish`, coalescing windows | `Commit`, `Publish`, `OnNotify`, `CloseWindow` |
| the notify queue and its sender | `SendBatch` |
| LISTEN, its reconnects and the nudge of everything afterwards | `Listeners` |
| `/api/stream`, subscription, its queue | `Streams` |
| `useLiveStream.ts`, throttle, re-reads | `Page`, `Poll` |
| `read_cache.py` | `Load`, `Expire` |
| shutdown and restart of the processes | `Lifecycle` |

`missed` is the history of the losses the code accepts: a process that died with the
nudge, a full queue, a nudge between the "ready" of a stream and its subscription, a
nudge that meets a read under way (the page does not cancel it), a read served from the
cache of before the change. Everything else must not lose a change. Taking a batch
and sending it are one step; half-open TCP streams, a changed token and an exception of
`conn.close()` (`pubsub.py:173`, `:222`) are left out. SIGTERM restarts all processes of
a host, so `Boot` waits for all of them to have stopped. That a tab never goes back in
time is not stated: each process has a cache of its own.

### Registry and WorkerCache

`Registry` takes uploads, deletions and replacements apart where another request may get
between a check, a change on the disk and a commit; `shaky` marks the refs and names
whose requests have overlapped or were cut short, because the code neither prevents nor
repairs what that leaves (`api/bundles.py:305`, `api/shared.py:119` and `:186`). The garbage
collection of `api/admin.py` is one of these requests: it lists the bundles without a batch,
commits the deletion of their rows, and unlinks the blobs afterwards (`BeginGc`, `CommitGc`,
`EndGc`), the opposite order of the single deletion. A blob without a row is harmless, a row
without its blob is not: `RowsAreBacked` is about the second.
`WorkerCache` adds the threads of a worker under its two kinds of locks: `ensure` takes
the lock of a ref, extracts, prepares the venv, and under it takes the lock of each
shared file in turn; the cleanup evicts whole refs and sweeps what the registry does
not list. The process may be killed in the middle of each. A thread waits for a lock without
a time-out (`worker/shared.py:47`): while another holds the name it is after, it neither goes
on nor fails, and only the end of the other's transfer lets it in. Two refs may need the same
name, and then two threads that hold a ref each meet at that name's lock.

The initial states are all that earlier requests and earlier processes may have left: any
consistent registrations and batches, and whatever whole bundles, venvs and files with
their sidecars the worker has, registered still or not.

The exemptions `shaky`, `cut` (a half left by a kill), `torn` (a file without its
sidecar), `evicted` and `unlisted` were each found necessary: without it, TLC violates
the property. Left out: sizes, ages and limits, which
choose what is evicted (any ref may be); removals that `rmtree(ignore_errors=True)` leaves
half done (`worker/bundle.py:121`, `:148`); archive
formats; work directories. A sidecar without its file counts as no copy.

### GranuleLifecycle and GranuleRefinement

The promise: a granule waits, runs, is offered with the outputs of one attempt, is
delivered with the last acknowledgement and by nothing else, and is then finished and
counted; it may be stopped and retried, and withdrawn while some output is missing.
No step has a worker, a lease or a message. The mapping takes the leased band to
"running", FAILED, BLACKLISTED and CANCELLED to "stopped", object rows to outputs,
uploaded ids to used ones, receipts and the counter to themselves. `live` checks every
behaviour of `GranuleProtocol` against it, with all requests.

## Runs

| Run | Instance | States | Question |
|---|---|---|---|
| `leases` | 1 worker, 2 granules, 2 objects, cap 1, all five stage events, 2 retries | 1,628,779 | does the cap hold across the hand-over from leased to uploaded, with cancel, retry, revoke, pause, removal |
| `delivery` | 2 workers, 1 granule, 2 objects; requeue, reset, removal, purge, retention, batch deletion | 1,073,469 | is every delivery counted once; does the inductive invariant of the delivery hold: clean attempts, a receipt per ack, nothing deleted that no receiver holds |
| `live` | 1 worker, 1 granule, 2 objects, all requests, fairness | 87,368 | does a lease nobody works on come back, is an acknowledged granule finished, is every step one of the promised life |
| `races` | 1 worker, 1 granule, 1 object, one slot, all eight split handlers | 326,514 | what survives any overlap: no uncounted delivery, repair of rows without owner |
| `races_claims` | 2 workers, 2 objects; reclaim and claim split | 639,180 | do the statements that re-assert their predicate keep lease discipline |
| `flush` | 5 items, posts of 2, backlog of 3 | 15,495 | order, coverage of what is owed, arrival, end of the drain |
| `rollout_races` | 2 workers, 2 rollouts, any 2 troubles: a split handler of six, abort, restart, pause, removal, crash, stopped container, failed installation, heartbeat given up | 3,160,914 | does a finished rollout have everybody, one wave at a time, is an aborted rollout taken up again only by a resume, also when two rollouts are active |
| `rollout_live` | 1 worker, 2 rollouts, every request and every fault, any number of late heartbeats, fairness | 135,828 | is one rollout active, does every one settle, does resuming end it |
| `pull` | 2 receivers, 2 keys, 2 attempts, 1 puller, 1 failure allowed, 2 troubles of ten kinds, fairness | 187,807 | one pull each, a receiver behind every claim, a file behind every ack, every object settles |
| `worker` | 2 granules, 2 tasks, two settings each way, 1 trouble of ten kinds, fairness | 215,058 | no lost wake-up, nothing held that nobody works on, limits across rebuilds, no reclaim of live work, leases, settings and drains end |
| `pubsub` | 2 processes, 1 tab, 1 change, 1 trouble of eight kinds, fairness | 570,856 | is a change ever forgotten, do nudges suffice, does the poll repair the rest |
| `registry` | 2 requests at a time, 3 in all, 3 zips of two refs that share a name with 2 contents, 2 threads, 1 failure or kill, fairness; from a new worker with all registered and from one with a bundle and a file of before the bundle's name was given out again | 1,312,444 | rows and disk, references, whole bundles, matching venvs, true sidecars, a sweep that spares what runs, no thread that waits for ever |

Every run passes. The configurations name the properties worth a run of their own; the
modules define a few more, which hold under the same configurations: the type
invariants (`TypeOK`, `RaceTypeOK`), `NoStaleObjects`, `DeliveredMeansReceived`,
`ConfirmGated`, `ReceiptPerAck`, `DeletedIsClean` and `NoReclaimOfLiveWork` (`delivery`),
`LeaseDiscipline` (`leases`), `ReceiptPerAck` (`races`), `ShedsOldest` (`flush`),
`OneWaveAtATime` and `NobodyForgotten` (`rollout_live`), `DeliveredExactly` (`races_claims`) and `AckIsFinal` (`pull`). Some of them are conjuncts of
`DeliveryInv`, or proved.

## Where the code and its comments disagree

Each of these is a property of a module, named for what a comment says, that TLC
refutes when it is put into the configuration given.

1. "`delivered_count` stays correct even if a straggling worker confirm races this sweep"
   (`background.py:87`): a repeated ack that read UPLOADED commits after the deletion
   (`api/receivers.py:214`), the granule is ACKED again and the next sweep counts it a
   second time.
   `DeliveredExactly` in `races.cfg` with `Overlapping = {"ack"}`. What remains true is
   `NeverUndercounted`: the counter only ever runs ahead.
2. "ACKED ⟹ acked" (`shared/state_machine.py:281`): a repeated ack that overlaps a
   requeue counts zero of zero objects as all (`api/receivers.py:231`,
   `_helpers.py:63`). `AckedMeansAcked` in the same configuration with two objects.
3. "On cancellation the whole backlog is flushed" (`shared/flush_buffer.py:14`): `CancelledError`
   is not an `Exception` (`:98`), so a batch whose post is cancelled is neither
   answered nor put back. `DrainedMeansLanded` in `flush.cfg`.
4. A worker that falls back "stays on the old version → never confirms" (`background.py:264`):
   a process registers its version at the start and the gate judges it 60 s later, so
   the tick in between confirms the canary and signals the next wave.
   `FlakyStaysCanary` in `rollout_live.cfg` with `Workers = {1, 2}` and `Flaky = {"v2"}`.
5. "A rollout is already in progress; abort it first" (`api/rollout.py:124`): two starts that
   overlap both find none and both insert one. The leader drives the newer one and takes up
   the other when that is done, halted or aborted. `OneActiveRollout` in
   `rollout_races.cfg`. What remains true is `OneWaveAtATime` and `NobodyForgotten`.

6. "pending → running → (done | halted → running… | aborted)" (`db.py:138`): a tick that read the
   rollout before the abort writes the phase it decided on over it: "running" with the canary
   if it read a pending one, "halted" if the wave timed out (`background.py:376`), "done" if it
   was the last (`:369`). A rollout halted so is offered for resuming like any other, and an
   overlapping resume takes up even one that stays aborted. `AbortIsFinal` in
   `rollout_races.cfg`. What remains true is `AbortHolds`: after an abort in the middle of a
   wave the leader alone never takes the rollout up again, whatever the late tick wrote, and
   signals at most the one wave that tick had decided on. An abort of a pending rollout has no
   such promise: the late canary runs on as if nothing had been asked.

Smaller ones, met while reading and modelling. A resume that overlaps the
heartbeat of a member that has not been told yet turns the second stamp into a plain
restart, which takes a fresh release out of its gate; the next resume repairs it. `api/workers.py:460` says a revoke-all cancels the
handlers with the next heartbeat; when the worker leases the same granule before that,
both handlers run, and a revocation that is handled late cancels the new one
(`worker/runtime.py:289`). `api/workers.py:499` says a removed worker drains and exits;
`worker/runtime.py:273` raises `WorkerRemoved` at once. `api/bundles.py:3` speaks of
several rows that share a blob; name and version come from the zip, so there is one.
`worker/shared.py::prune_orphans` says its lock keeps it from removing what was fetched
again; its list is older than the lock.

A stage event that read the row before a cancel leaves a row in the leased band without
an owner, which the sweeper repairs by making it pending (`OwnerlessIsHealed`). The
reclaim's `UPDATE` re-asserts owner and band but not the grace, so a granule that a
stage event advances between its `SELECT` and its `UPDATE` is reclaimed all the same;
`races_claims` shows that this costs the work and nothing else. With an event, cancel,
retry, requeue or revoke overlapping anything, exploration also violates
`LeaseDiscipline`, `DeliveredExactly`, `ConfirmGated` and `DeliveredMeansReceived`, all
by the same lost updates.

## Bounds

* `Requests` and `Reported` select which operator requests and stage events an
  instance issues, so that each run affords the ones its question is about; between
  them the runs fire every action. `Reported = {}` is the code's fast detail mode.
* One granule is enough where the property is about one granule at a time: granules
  only meet in the in-flight cap and in the counter, and `leases` has two.
  Two objects are needed for the gates that look at siblings, two workers for a
  lease that is taken over.
* `Slots = 1`: one handler is between read and commit while every other request runs
  whole. A lost update needs no more than that. `MaxCounted = 1`: no handler starts
  to overlap once a delivery has been counted, which keeps the counter, and with it
  the state space, finite; the handler that was already in flight may make it 2.
* `MaxRetries` is 1 or 2: below and at the budget. `MaxInflight` is 1 where the cap
  matters and 0 (disabled) elsewhere.
* `Items`, `MaxBatch`, `MaxBuffer`: a post shorter than the queue, a backlog that
  overflows by one and by two, and an item left behind.
* `Rollout`: with two workers the waves are the canary, the batch and, after a
  fall-back or a resumed member, the fleet. `rollout_live` has one worker, which can be the
  member of every wave after falling back, so that all faults and requests fit with
  liveness; with two workers and only stopped containers (`Workers = {1, 2}`, no
  `Requests`, no `OperatorAsks`, `Faults = {"container"}`: 99,309 states) the same holds. `MaxRollouts = 2` lets a second rollout
  follow a halted or finished one. `MaxStray = 1` worker has heartbeats of older
  versions under way, `MaxParked = 1` worker is ever paused or removed (with nobody
  left, every rollout is finished by having no one to wait for). `Faults` and
  `Requests` select what goes wrong. `MaxTroubles = 2` in `rollout_races`: two overlaps, one
  and a fault, or two faults; starting, resuming, ticking and deadlines are not counted.
* `Pulling`: two keys make a reply with two items and a queue longer than a puller,
  two attempts bring object ids that are given out again and bytes that differ, two
  troubles of any kind combine a lost reply with a crash, an expiry with a requeue and
  so on (a claim may expire whenever it likes). The room of the queue is not reached at
  this size. `MaxReports` 1 makes the puller wait for the buffer.
* `WorkerRuntime`: two tasks are what two granules, or one granule leased again, need;
  `Asked` and `Settings` let a process start with settings other than its own, grow and
  shrink. One trouble of any kind in a run with liveness; safety with two troubles was
  explored for 6.3 million states without a violation. `Followed` is the granule whose
  lease may lapse and whose end is followed, of two that are alike.
* `PubSub`: one change is the last of any burst; an earlier one shows as an open window
  or a full queue. Two changes were explored for 13.8 million states without a violation.
* `Registry`: two requests overlap, three in all. A deletion, a new upload under the name and
  a batch are three because the instance starts with bundles registered; the second initial
  state is one where a deletion, an upload under the same name and the deletion of the file
  went before, and the worker has not noticed; that the file is put again, and a batch run
  with it, between the list of orphans and the sweep is then within three.
  Two refs that need the one name are what two threads need to meet at its lock, two zips of
  one ref what a re-upload needs.
* Symmetry is declared for the safety runs, whose constants are otherwise
  interchangeable; the runs with liveness properties use none.
* `CHECK_DEADLOCK FALSE`: the system may really stop. When every worker is removed
  or down and the operator asks for nothing, or when the flush loop is done, there is
  nothing left to do.

## Fairness

`GranuleProtocol.Fairness`: the heartbeat loop runs for as long as the process does
(`run_periodic` survives failures), and of infinitely many heartbeats some are
served; requests end within their time-out, so a lease reply is received or lost;
the grace and an unrenewed lease's expiry are clocks; the sweeper, the orphan sweep and
the janitor are periodic; a buffered confirmation is resent until it is answered,
and the orphan sweep works with the workers that are registered and up, which is
what it knows after its grace. `AckedIsFinished` is therefore about an orchestrator whose
orphan sweep is on (`acked_orphan_grace_sec` > 0): a worker that is gone for good confirms
nothing. Nothing is assumed about crashes, lost messages,
operators or receivers. `GranuleRaces.RaceLiveSpec` assumes the sweeper only.
`FlushBuffer.Fairness`: the loop runs and every post ends, answered or not (HTTP
time-outs). That the orchestrator comes back is a hypothesis of `EventuallyLands`
and not assumed elsewhere: `DrainTerminates` holds without it.

`Rollout.LeaderFairness`: the leader ticks (`run_periodic`) and the deadline is a
clock; `RolloutSettles` needs no more in the code, for its deadline halts whatever the
workers do. `Rollout.HostFairness`: the process, the entrypoint's loop and its gate
timer go on, heartbeats are periodic. `ResumedToTheEnd` has hypotheses that nothing in
the code guarantees: the operator resumes what halts, a signal stamped again and again
is delivered some time (each delivery may lose the reply that carries it, and the
signal is cleared then), and from some time on no installation is undone and nobody is
paused or taken up again. What it
says is that the code needs nothing else.

`Pulling.Fairness`: the loops of a process run, requests time out, a claim expires, the
container restarts. A pull request gets through some day (strong fairness), and a host is
reached some day or the object's failures are exhausted. `EveryObjectSettles` has as its
hypothesis that one receiver stays enabled.

`WorkerRuntime.Fairness`: the loops go on, every request is answered or given up, bundles
have a time-out and subprocesses can be killed, the container is restarted. The grace
passes strongly fairly: the requests that hold it up end, but new ones begin.

`PubSub.Fairness`: timers, tasks of the loop and open requests go on; an entry of the
cache lapses even if it is asked for again and again. No one has to commit. That the page
polls is a hypothesis of `PollCatchesUp` only.

`WorkerCache.Fairness`: the steps of `ensure` end, which for `pip` and the removal of a
tree is an assumption: neither has a time-out. Locks are not fair; the number of runs is
bounded, so no thread can be overtaken for ever in the instance.

## Proofs

All theorems are about every number of workers and objects, any finite set of
granules, and every value of the other constants allowed by the named assumptions.

* `TypeCorrect` (`GranuleProofs`): `Spec => []TypeOK`. The lemmas before it
  state what each transition of the state machine returns.
* `CapHolds`: `Spec => []InflightCapped`, for every cap, and whether or not ids are
  submitted a second time. What a worker is charged is two counts, its leases and the
  granules whose objects it still stores. An upload hands a granule from the one to the
  other, so no step but the claim adds to their sum, and the claim stays below the cap.
  The sum needs that every stored object has its host (`RowsHaveHost`). The work is in
  the cardinalities: `StepHolds` and the lemmas before it show for each transition which
  granules enter and leave either count.
* `ReclaimIsSafe`: `Spec => NoReclaimOfLiveWork`, an action property. The heartbeat takes
  a lease only if the report does not list it and the grace is over. A lease whose reply
  is still on its way is in its grace (`OffersAreFresh`), and a report on its way lists
  all that is at work and past it (`ReportsCover`).
* `DeliverySafe`: when ids are not submitted a second time, `Spec => []DeliveryInv`.
  The properties of the `delivery` run are not inductive on their own. That a late
  confirmation is harmless needs that a granule with a confirmation on its way was
  submitted, and that a pruned granule does not come back (`GranulesKnown`). That an
  attempt starts clean after a requeue needs that object rows belong to one granule
  and that marks are only on rows that exist (`ObjectRows`). That DELETED is clean
  and that `/deletable` lists only finished granules needs that the objects of a
  granule come from one upload and are stamped together (`OneUpload`). That
  all-acked means past UPLOADED needs `UploadedIsWaiting`; that a new batch finds no
  rows needs `BatchOwnsRows`. `DeliveryInv` is the conjunction, and is preserved by
  every action, one lemma for each group that touches objects.
* `DeliveryCountedOnce`: `Spec => []DeliveredExactly`, from `DeliverySafe`, `TypeOK`
  and the cardinality of the rows the delete path flips.
* `LeasesDisciplined`: `Spec => []LeaseDiscipline`, a conjunct of `DeliveryInv`.
* `LifecycleImplemented`: when ids are not submitted a second time, `Spec =>
  ImplementsLifecycle`. There is one lemma for each way a step reads in the life of a
  granule (`Stutters`, `GivesBack`, `Stops`, `Discards`, `Finishes`), and every action is
  shown to be one of them. The mapping itself needs little; the guards of the life need
  `DeliveryInv`: an upload finds no outputs of an earlier attempt (`NoStaleObjects`), a
  requeue drops the outputs of its own granules and of no other, with their receipts
  (`ObjectRows`, `OneUpload`), and a late confirmation or a sweep finishes only what is
  delivered (`ConfirmGated`).
* `RolloutProofs`: `TypeCorrect`, `OneActive` (`Spec => []OneActiveRollout`: no step
  but the start makes a rollout active, and the start is refused while one is) and
  `OneWave` (`Spec => []OneWaveAtATime`), for every fleet, every size of the waves and
  every number of rollouts, faults and late heartbeats. `OneWaveAtATime` is not
  inductive: that the members of a settled wave have had the release needs that a
  recorded version comes from a process that registered with it, late heartbeats
  included (`ReportsAreTrue`), that a member is excused only when the operator took it
  out (`ExcusedWereParked`), and that a rollout being started displaces no members
  (`NoMembersYet`). `WaveInv` is the conjunction.
* `NothingForgotten`: `Spec => []NobodyForgotten`. A rollout
  ends when there is nobody to put into the next wave, or when its third wave has
  settled. The first needs that no wave is empty while somebody is left, for any number
  of workers, `canary_count` and `batch_pct` (`WaveSizes`, `Cohorts`); the second that
  the third wave takes everybody left (`LastWaveWhole`) and that no wave is counted
  before the first (`NoWaveYet`). Whoever is not waited for has had the release, by
  `WaveInv`. `ForgetInv` is the conjunction.
* `RolloutRaces`, in `RolloutProofs`: `RacesInvariant`, and from it `OneWaveInRaces`
  (`RaceSpec => []OneWaveAtATime`), `NothingForgottenInRaces` (`RaceSpec =>
  []NobodyForgotten`) and `AbortsHold` (`RaceSpec => []AbortHolds`), with every choice
  of `Overlapping`, any number of troubles and of rollouts, and one handler at a time between
  its read and its commit. All that goes on meanwhile are steps of `Rollout`, under which
  `WaveInv` and `ForgetInv` are kept; what is new is what the handler under way has in hand
  (`TxInv`). The version of a heartbeat came up, and its process has not stopped while it waits
  (`BeatHolds`). A release that will be stamped, or that a column still names, is where it may
  be (`InHandIsCovered`). The wave that a tick ends stays settled and the wave it begins
  stays whole, because histories only grow and no second tick changes the members
  (`TickHolds`). `AbortHolds` needs that nothing a tick may still write over an abort makes
  the rollout run, since a tick that brings "running" read a rollout without a wave, and that
  the wave it brings is the next (`StopInv`); ticks begin only on what is pending or running,
  so that there is no second one, and after a resume nothing is claimed. `OneActiveRollout`
  does not hold here: two starts may overlap.
* `FlushBufferProofs`: `BufferInvariant`, and from it `NothingOwedUnseen`
  (`[]OwedIsPending`), `FifoHolds` (`[]NoOvertaking`) and `OldestIsShed`
  (`[]ShedsOldest`), for every size of the posts and the backlog. The batch and the queue
  are the last items in order (`BacklogIsTail`); what has landed of them, and what any
  post that was given up may still bring, is their front (`PostsInOrder`); and what is
  before them has landed or was shed (`FrontAccounted`).
* `WorkerRuntimeProofs`: `RuntimeInvariant`, and from it `NeverAsleep` (`[]NoLostWakeup`),
  `AllHeldAccounted` (`[]HeldIsAccounted`), `LimitsHold` (`[]WithinLimits`) and
  `ReclaimSpares` (the action property `ReclaimSparesWork`), for every number of granules
  and tasks and all settings. A task has its entry unless its granule was granted again
  while it ran (`EntriesFit`, `TasksTracked`), a report that was sent covers the work
  there is (`ReportCovers`), a reply grants only what is in its grace (`ReplyShaped`), and
  of the semaphores in use what is free and what is taken make up the limit
  (`PermitsAdd`). `LimitsHold` also needs that all other tasks were waited for
  (`OthersAwaited`). A reply never grants more than there are free tasks, so that its
  leases can be given distinct free task numbers (`Numbers`).
* `GranuleRacesProofs`: `NoDeliveryLost` (`RaceSpec => []NeverUndercounted`), whichever
  handlers are split, for any number of requests in flight, and if ids are submitted a second
  time too. Most of the invariants of the atomic protocol do not survive overlapping
  requests; that nothing is lost from the count does, because only the delete path writes
  DELETED and it asserts the state it read. The inductive invariant has that no unit of work
  means to write DELETED (`WritesKeep`), that a deleted batch has no rows left
  (`BatchOwnsRows`), and that the counter is not behind (`NotBehind`). A unit of work writes
  only the columns that it changed, so each granule is taken apart by columns.
* `ClaimsRaceSafely`: where only heartbeats and leases are split,
  `RaceSpec => [](LeaseDiscipline /\ DeliveryInv /\ DeliveredExactly)`. The reclaim and the
  claim re-assert what they rely on in their `UPDATE`, so that each commit is what the
  atomic request does at that moment to fewer granules; every other step is one of
  `GranuleProtocol`.
* `PubSubProofs`: `PubSubInvariant`, and from it `NothingLost` (`Spec => []NothingForgotten`),
  for every set of processes and tabs and any number of commits and troubles. A fan-out
  leaves each tab of the process with the nudge, with a read to come, or excused
  (`FanOutTells`). A stream that closed is followed by a refresh (`ClosedResyncs`), a
  process that is down has nothing left to send (`DownIsSilent`), and a nudge reaches the
  streams of other processes only while their listeners live, else the streams are
  replaced; the server stops as a whole (`StopsTogether`). An answer that is on its way
  and is not the last change was asked behind it (`NothingAhead`, `NoStepBack`).
* `PullingProofs`: `PullInvariant`, and from it `OnePull` (`[]OnePullEach`),
  `ClaimsFollowed` (`[]ClaimIsPursued`), `AcksHeld` (`[]AckedIsHeld`) and `AcksFinal` (the
  action property `AckIsFinal`), for every set of receivers and keys, any number of
  attempts, reports, requests and faults. That queueing never blocks needs that the reply
  had room when it was asked for, and one item for a key (`OffersFit`); that uses that
  a pull with limit n takes at most n rows (`LowestFew`). A claim is pursued by the item
  of *its* attempt, so that no older item under a reused id ends the pursuit
  (`ClaimsPursued`), and only open objects are claimed (`ClaimsAreOpen`). A success that
  is not reported yet is on the disk (`ReportsAreTrue`), unless an item of an earlier
  attempt is on hand (`AttemptsKnown`). A batch of reports is a fold over the rows; what
  it leaves (`RowsFollow`) is proved by the first report after which it would be wrong.
  `AckIsFinal` follows because what is acknowledged is not claimed.
* `WorkerCacheProofs`: `CacheInvariant`, and from it `RowsBacked` (`[]RowsAreBacked`) and
  `ReferencesStay` (`[]ReferencesHold`) of the registries, `WholeRuns` (`[]RunsWhole`),
  `VenvsFitBundles` (`[]VenvFits`), `SidecarsTruthful` (`[]SidecarTruthful`) and
  `SweepSpares` (the action property `SweepSparesRuns`) of the caches, for every set of
  clients, threads, refs, names and contents. In the registries, two requests about the
  same thing make it shaky (`Alone`), so that a request that is alone finds at its
  commit what it found when it came (`RequestsHold`), and what the garbage collection has
  still to unlink has no row (`GcHolds`). In the caches, the cleanup has the
  lock of what it removes (`EvictionLocks`), a part that is not whole is being written or
  was left by a kill (`PartsAreCut`), each stage of `ensure` finds what the one before it
  left (`StagesHold`), a sidecar is that of its file outside the two steps of a
  replacement (`SidecarInv`), and what the sweep is after has no row unless it was put
  since (`DoomedInv`). The assumptions are that the kinds of things are disjoint
  (`KindsAssumption`) and that nothing is not one of them (`NullAssumption`).

Every invariant that a run checks is proved, and so are the action properties
`ImplementsLifecycle`, `ReclaimSparesWork` and `SweepSparesRuns`. Only
model-checked: all liveness (fairness and ENABLED are out of the prover's reach), and of
`GranuleRaces` the repair of rows without an owner, which is liveness too.

## Plan

What is left, in this order:

1. Proofs of what the liveness properties rest on: which states a lease or a claim can be
   in while nobody works on it, and that each of them has a way out.
2. Two leaders of the rollout after a dead connection, in `RolloutRaces`.
3. Row locks of Postgres in `GranuleRaces`: two acks of the last two objects.
4. An abstract FIFO with loss, implemented by `FlushBuffer`.
5. Pure algorithms against reference definitions: `compute_lease_quota`, byte ranges.

## Not modelled

The read side writes nothing. Formats, validation, archives, TLS, subprocesses and
files are input and output. Stage timings, events, progress and telemetry are
reporting: no decision reads them, except that the orphan sweep takes a worker's
last heartbeat from telemetry, which the model gives it as any set of registered
workers (`live`). Row locks and snapshots of Postgres are discussed under
`GranuleRaces`.

Two acks under Postgres' row locks are a hazard no property covers yet. Leadership is one leader wherever it is used; the two sweeps may run twice without
harm, because they re-assert their predicates.
