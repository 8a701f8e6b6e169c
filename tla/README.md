# Supa Video Producer: TLA+ models

TLA+ models of the stateful core of the desktop application's native side
(`src/apps/desktop/src-tauri/src/`): the durable media jobs that build proxies,
analyses, preparations and exports, the cache their artifacts live in, the files and
decisions an export leaves behind, the journal that keeps a project's edits, the edits
themselves, and the proposals of agents that become edits. TLC checks the models on
small instances; TLAPS proves the safety of the job table, the scheduler's ownership
and attendance rules, the preparation above it, the cache's guards, the exports, the
journal with its refinement and the proposals for every instance. Paths below are relative
to `video/` in that directory unless they begin with `src/`.

    tlc -workers 2 -config MCScheduler.cfg MCMediaJobScheduler
    tlapm MediaJobSchedulerProofs.tla

| file | role |
| --- | --- |
| `MediaJobModel` | the job record and the rules of every row update (pure operators) |
| `MediaJobStore` | the job table: one action per transaction, in any order |
| `MediaJobScheduler` | scheduler, job service and their clients, over that record |
| `DispatchLoop` | how the scheduler comes to dispatch what is queued, and how it ends |
| `MediaPreparation` | asset preparation and its resumption, composed with the scheduler |
| `MediaCache` | artifacts, leases, locks, publication and eviction |
| `Exports` | what exports write, judge and promote, and the review that releases a delivery |
| `EditLog` | what a project promises its clients (abstract) |
| `ProjectJournal` | journal, snapshots and recovery, which implement `EditLog` |
| `ProjectModel`, `ProjectCommands` | the state of a project, its integrity, and every command with its inverse (pure operators) |
| `VersionHistory` | what undo and redo promise (abstract) |
| `ProjectHistory` | undo and redo over those commands, which implement `VersionHistory` |
| `Proposals` | proposals, their store beside the journal, and restore points |
| `MediaJobStoreProofs` | the theorems about `MediaJobStore` |
| `MediaJobSchedulerProofs` | the theorems about `MediaJobScheduler` and about `MediaPreparation` |
| `DispatchLoopProofs` | the theorems about `DispatchLoop` |
| `MediaCacheProofs` | the theorems about `MediaCache` |
| `ExportsProofs` | the theorems about `Exports` |
| `FoldInduction` | lemmas: induction over the naturals, and what a fold goes through |
| `ProjectJournalProofs` | the theorems about `ProjectJournal`, its refinement of `EditLog` among them |
| `ProposalsProofs` | the theorems about `Proposals` |
| `MC*.tla`, `*.cfg` | instances for TLC |

## 1. Inventory

| component | state | operations | interacts with | what is hard |
| --- | --- | --- | --- | --- |
| job model (`jobs/model.rs`) | - | legal transitions, validation, retry classes | everything below | attempts at their limit |
| job store (`jobs/store.rs`) | SQLite tables of jobs, events, cache rows | enqueue with deduplication, transition, progress, cancellation request, reconciliation, recovery, retention | called by scheduler, service, drivers | duplicates against retries; families; an event per write; limits |
| job scheduler (`jobs/scheduler.rs`) | queue and running map behind two locks, semaphores, one task per dispatched job, one `Notify` | submit, dispatch, start, finish, automatic and manual retry, cancel, shutdown | store; workers; service | several writers of one record between lock sections and awaits; failing writes; retry delays; check-then-wait |
| job service (`jobs/mod.rs`) | - | initialize and recover, retry, cancel a family, shut down | scheduler and store | multi-step cancellation that races all of the above; deadlines |
| job IPC (`jobs/ipc.rs`) | - | list, get, retry, cancel | service | none of its own |
| analyses (`transcription_job.rs`, `music_beat_job.rs`) | - | deduplicated request, retry | service | a queued job nobody submits after a restart |
| preparation (`derived.rs`) | one future per call | plan, enqueue and submit two children, wait, settle; resume after a restart | store directly, scheduler for the children | the driver is not known to the scheduler; two drivers; crash at any step |
| media cache (`cache.rs`) | artifacts on disk, their catalogue, leases, a list of failed evictions | acquire, register and lease, reuse, status, enforce a budget | preparation, workers; import store | eviction against leases, reuse and builds; reservations that an error leaves behind |
| import store (`media_store.rs`) | content-addressed files, one lock file each | acquire, publish, remove | cache | partial copies; lock timeouts |
| project journal (`project/service.rs`, `journal.rs`, `snapshot.rs`, `recovery.rs`) | snapshot, previous snapshot, journal, session with an idempotency table | initialize, execute, undo, redo, checkpoint, close, open | file system; clients over IPC | a crash or an error between any two file operations; retries after a lost answer |
| project commands (`project/commands.rs`, `integrity.rs`, `clip_*.rs`, `graphics.rs`, `history.rs`) | the project's state, undo and redo stacks | some forty commands, in groups, each with its inverse; undo, redo | the session | inverses that run later, in groups, on other states; retiming between frame rates |
| proposals (`project/proposal*.rs`) | a second file with proposals and an audit | submit, review, apply as a group, restore, expire | the session's journal and its revision | two files of which one may miss a write; staleness; restore points under a bounded history |
| exports (`render.rs`) | partial file, output | start, reauthorize, cancel an export job; its run | scheduler, cache, checks | publication only after every check; guards against concurrent changes of the destination |
| export pipeline (`render_manifest.rs`, `render_qc.rs`, `delivery.rs`, `graphics_export.rs`, `subtitle_export.rs`) | manifest, delivery files | judge, describe, gate a delivery | exports, review record | a crash between manifest and promotion; several files that belong together |
| quality checks, review record (`qc.rs`, `review_record.rs`) | findings; a file of decisions beside the output | check, accept, repair, release | exports | decisions on bytes that are no longer there |
| processes, grants, tools (`process.rs`, `grants.rs`, `project_io.rs`, `toolchain.rs`, `probe.rs`) | child processes, cancellation tokens, path grants | spawn, terminate, authorize | workers | a cancellation against a commit; descendants that outlive a worker |
| media analysis and layout (`transcript.rs`, `caption.rs`, `audio_mix.rs`, ...) | - | numerical and layout functions | workers | arithmetic |
| AI account (`ai_account/`) | one stored credential | sign in, refresh, sign out | HTTP, key store | concurrent refreshes of a rotating token |
| rights (`rights/`) | receipts, policies | acquire, refresh, gate | export | expiry between check and use |
| application shell (`lib.rs`) | - | start services, stop them on exit | all | order of shutdown |
| frontend, TypeScript packages, sidecars | - | UI; contracts; inference and rasterization | IPC | - |

What makes the modelled ones correct:

* **store**: one unsettled row per dedupe key, an event for every state, one
  terminal event per lifecycle, families settled from the leaves, no
  cancellation that nobody requested, no orphan, a limit that only retries pass.
* **scheduler and service**: one owner per job, no lost and no doubled queue entry,
  a record that says what its worker does, no attempt used twice, settled jobs
  that stay settled, signalled cancellations that take effect, delays that end.
* **dispatch**: no lost wake-up, nothing queued starves, a shutdown that waits for
  all of its tasks and ends.
* **preparation**: complete only with both media, never under way with neither a driver nor
  anything that will settle it, settled in the end also across a restart.
* **cache**: a leased artifact is there; what a call has seen under its lock stays
  there; an eviction loses no reservation, writes off nothing that exists, and ends.
* **journal**: the project opens again whatever was interrupted, acknowledged
  edits survive, an edit is applied at most once and only on the revision
  its client saw, and recovery from either snapshot gives one state.
* **edits**: every undo is possible and exact, a split shows what the clip showed,
  captions keep to the timing they were made for.
* **proposals**: applied at most once, never judged against the journal, an audit
  that tells what happened, restore points that lead back to before.
* **exports**: a delivery rests on accepted findings of the very bytes it comes from;
  an output appears only with its own description; earlier exports are kept; a run
  without success leaves nothing.

`PROJECT.json` lists the components with their sources and, under `hazards`, the
lines where this code is hard to test and the properties that watch each.

## 2. Plan

Order, most important first. 1 to 10 are done, 11 but for one component.

1. `MediaJobModel`, `MediaJobStore`: the shared rules and the table.
2. `MediaJobScheduler`: scheduler, service, clients; a safety run over the three kinds
   of job and one for liveness.
3. `MediaJobStoreProofs`, `MediaJobSchedulerProofs`.
4. `MediaPreparation`: composed with 2 by `EXTENDS`.
5. `EditLog` and `ProjectJournal`, with the refinement between them.
6. `DispatchLoop`: the check-then-wait protocol below 2, which discharges the fairness
   that 2 assumes of `Dispatch`.
7. `MediaCache` and `MediaCacheProofs`.
8. `ProjectModel`, `ProjectCommands`, `ProjectHistory` over `VersionHistory`.
9. `Proposals` over the journal of 5 and the undo of 8, both taken at their word.
10. `Exports` and `ExportsProofs`, over the jobs of 2 taken at their word.
11. `ProjectJournalProofs` with `FoldInduction`, `ProposalsProofs`, `DispatchLoopProofs`, and
    attendance and the safety of `MediaPreparation` in `MediaJobSchedulerProofs`. Open:
    `SplitIsSeamless`; section 5 says why the rest of `project_edits` stays with TLC.
12. Open: `CredentialRefresh`, refreshes, sign-in and sign-out over one rotating
    credential, and the receipts of `rights/` as a component of `Exports`.

## 3. The modules and the code

### MediaJobModel

A row keeps `state`, `cancel` (`cancellation_requested`), `attempt` and `ready`
(`canonicalObjectAvailable` of the private payload). Stage, progress, error
text, result and timestamps are left out, with one consequence of timestamps
kept: `transition_sync` refuses a transition stamped earlier than the row's last
touch, which callers model as `RefusedAsStale`. A missing row is `Absent` before
its insertion and `Deleted` after its removal; ids are fresh UUIDs, so what a request
binds to an id (kind, key, parent, limit of attempts) is a function of the id.

### MediaJobStore

Every transaction of `store.rs` that changes the job table or its event log is an
action; an error rolls back and is therefore no step. Any caller may do anything in any
order with any attempt and any set of owned jobs, so a property here holds
whatever the scheduler does. A settled row is not beyond reach: its payload may still be replaced
(`ReplacePayload`), and it is removed by the retention, as a stale preparation
(`RemoveStaleCompleted`) or with its parent. `latest` and `settlements` summarize the event log.
Rows settled in one millisecond, or across a clock that steps back, age in any
order, hence the choice in `Excess`.

### MediaJobScheduler

A step is one store transaction or one section under the queue and running locks.

| variable | code |
| --- | --- |
| `jobs` | `media_jobs` |
| `queue` | `queue`, per job and oldest first |
| `running` | the `running` map with its tokens |
| `tasks` | one `execute` future per held permit, with the await it stands at |
| `pending` | clients that enqueued and will call `submit` |
| `cancels` | `cancel_job_until` and `cancel_render_for_owner` under way |
| `shutting` | `shutting_down` |
| `asked` | history: a cancellation was committed and nobody restarted the job since |

`execute` is split at its awaits: `StartRead`, `StartWrite` (retried `StartTries` times),
`StartFail`, `WorkerReturns`, `Cleanup`, `Settle`, `BackoffEnds`, `RetryCancel`,
`Requeue`, `LeaveRunning`, `ReconcileAfter`. A worker is external: it returns
anything in `Outcomes`, signalled or not. `cancel_job_until` is split into
`CancelBegin`, `CancelRequest`, `CancelSignal` per member, `CancelReconcile` per
member, `CancelReturns`. `Restart` is a crash or an exit together with the recovery of
the next start. Any store call may fail, `MaxFaults` times in a run.

Abstractions: any queued job may be dispatched next, and `run_loop` dispatches
whenever it can (both are what `DispatchLoop` is about); the token stores of
`signal_cancellation` are one step with the section under the locks before them. `Cleanup`
is one step for the two writes of `record_cancelled_cleanup`: nobody else moves the state of the
record in between (`WorkerOwnsItsRecord`), so the second finds the flag the first has set and
changes the progress alone. `submit` and `retry_with_worker` look at `shutting_down` before they wait
for the locks, so `Submit` and `RetryWithWorker` may also push after a shutdown.

### DispatchLoop

The same scheduler seen from below: the records are left out, and the order of the
queue, the waiting and the end of the service are kept.

| variable | code |
| --- | --- |
| `queue`, `order`, `rank` | `queue`; the sequence numbers as a list; priority less the promotions of age (`queue_sort_key`) |
| `work` | what the task that owns a job is doing |
| `exits` | tasks that own no job any more, by stage and resource |
| `active` | `active_count` |
| `loop`, `woken` | where `run_loop` is, and its registration with the `Notify` |
| `submitting` | calls of `submit`, split at their check of `shutting_down` |
| `shutting`, `shutdown` | `shutting_down`; where `MediaJobService::shutdown` is |
| `failures` | starts that failed |

The loop registers, looks, and then waits, as in the code; a notification counts from the
registration on. `wait_idle` shares the `Notify` and the protocol. `MeetDeadline` is the
deadline of `shutdown`, which may be called again. The age of work is a step that
promotes it by one rank.

### MediaPreparation

Extends the scheduler. A driver (`calls[d]`) is a future with a list of steps still
to do, the attempt and children it has read. `Prepare` and `Resume` list the
steps of `prepare_asset_durable` and `recover_durable_preparation_parent`;
each step is an action that may fail as its `?` does. One preparation id is
modelled: its successor after a failure shares nothing with it. Users cancel and
retry through the scheduler's actions. What probing and encoding compute is
external; reuse and removal of a complete preparation are in `MediaJobStore`. That the
jobs are one family is `PreparationAssumption`, a definition: the module shares its constants with the
scheduler, whose theorems do without it. `MCMediaPreparation` has it as an `ASSUME`,
the theorems about the preparation as their hypothesis.

### MediaCache

| variable | code |
| --- | --- |
| `files` | artifacts in the content-addressed directory; a damaged file counts as absent |
| `catalog` | availability of the rows of `cache_artifacts` |
| `leases` | rows of `cache_leases` of this session |
| `locks` | the lock file of each artifact and who holds it |
| `pending` | `failed_evictions` |
| `client` | calls that publish an artifact or revalidate those of a finished preparation |
| `enforcer` | calls of `status` and `enforce_budget`, with the rows they have read |
| `spoilt` | history: artifacts that lost their file otherwise than by a committed eviction |

A step is one SQLite transaction, one file operation or one change of a lock. An
eviction unlinks inside its `IMMEDIATE` transaction, so that only a failure or a crash
comes between unlink and commit. Artifacts have size one, and the order of eviction (last
use) is left open. `Restart` is a crash with the next start, which drops the leases of
earlier sessions. The removal of stale builds and of the legacy cache is left out.

### EditLog and ProjectJournal

`EditLog` is the promise: an append-only log that an edit enters once and only on
the revision its client saw; *done* is said of what is in it, *refused* of what
never will be, and an *error* leaves it open. `ProjectJournal` implements it: the log is the
valid prefix of the journal file.

| variable | code |
| --- | --- |
| `main`, `previous` | the `.svpvideo` snapshot and `snapshot.previous.svpvideo` |
| `journal` | `journal.ndjson`: complete lines, and whether it ends in a torn one |
| `session` | `ProjectSession` (snapshot, idempotency table) and the step it is at |
| `stamp` | makes records distinct, as `committed_at` does |
| `request`, `told` | clients: what they asked on which revision, and the last answer |

Hashes are ids (1 the journal's header, the stamp of a record for its own), so a
broken chain is one that ids do not match. One session at a time holds the project
lock and a mutex serves one command at a time, so only crashes and failing
file operations come between the steps of a command: `Execute`, `Write` (which
may tear), `Sync`, `CopyPrevious`, `Promote`; of an opening: `Open`, `Repair`, the
checkpoint, `LoadIdempotency`.

### ProjectModel, ProjectCommands, VersionHistory, ProjectHistory

`ProjectModel` is the state of a project and `ValidateProject` what `integrity.rs` accepts;
`ProjectCommands` the commands. A command is translated to its set of outcomes
`[state, inverse]`: empty where the code returns an error, several where it makes up an
id. Commands that do the same to different fields or kinds of item are one type, with the
field (`field`) or the kind (`of`) as a parameter. Clips keep source range, start, speed
and rate, and conversions between frame rates are computed as in the code (`Exact`, which
refuses a remainder, and `Floor`, which drops it).

`ProjectHistory` has the stacks of `history.rs`: a group of commands is applied or
refused as a whole, pushed with its inverse, undone by the inverse and redone by
applying it again. `past` and `future` are history variables: the states the entries come from. With them
it implements `VersionHistory`, whose undo and redo move along a list of states and cannot be
refused.

### Proposals

| variable | code |
| --- | --- |
| `journal` | the records of the journal: operation id, group, proposal, resulting state |
| `undo`, `redo` | the session's stacks |
| `store` | `proposals.json`: proposals and audit |
| `made`, `late` | history: the revision a proposal was made for, and whether its time is up |
| `lock` | an operation between two of its writes |

Applying a proposal writes the journal first and the store after it; either may fail, and
the store may be lost. `Settled` is what every operation does first: it lets proposals expire or
go stale, and reconciles them with the journal. The journal is taken as durable (module
`ProjectJournal`), undo and redo as exact (module `ProjectHistory`). What a
proposal may contain is left out; a review ends in one of the groups `Approvals[p]`.

### Exports

| variable | code |
| --- | --- |
| `content` | state hash of the open project |
| `job` | an export job: state, step and number of its run, destination, overwriting, content, `gate` (the acceptances a delivery rests on), `verdict` of its checks |
| `partial` | the partial file of a plan |
| `out`, `man`, `side` | output, manifest and delivery files at a destination, each by the run that wrote it |
| `rec`, `aside` | lines of `<output>.review.jsonl`, and of records that were moved aside |
| `call` | a decision that was read for and is not yet written |

A run goes `judge`, `manifest`, `sidecars`, `promote`, `promoted`, and gives up at each by
the guards that remove what it wrote. A line of the record is bound to the digest of the manifest it
was made with; digests of different runs are taken to differ. One run encodes at a time,
as `ffmpeg_permits` is 1. The delivery files are written one by one, the thumbnail first and the
metadata last, each guarded until the promotion; `side` stands for the thumbnail, so a crash that leaves
only some of them is a crash after `WriteSidecars`, and a failure that removes some again is
one before it. Left out: identical starts that are answered with the running
job, repair attempts, previews, the rights gate and credits, shutdown (see
`MediaJobScheduler`), and progress writes that outlive their worker.

## 4. Runs

| run | instance | states | shows |
| --- | --- | --- | --- |
| `store_table` | a preparation, its child, two requests for one export; limits 1 and 1, one attempt | 82k | the table's rules under every order of transactions |
| `scheduler` | a derived job, an export or an analysis; two permits, a fault, a restart | 812k | ownership, single entries, no lost work, no attempt reused, settled for good |
| `scheduler_liveness` | one derived job, two attempts, all outcomes | 43k | signalled work settles, retry delays end |
| `dispatch_loop` | an interactive and a background job, one permit | 115k | nothing queued starves, no wake-up is lost, shutdown waits for all and ends |
| `preparation` | preparation and two children, which may fail, be blocked and be retried; one fault, restart, cancellation or shutdown; fair | 322k | complete only with both media, driven or about to be settled, settled in the end |
| `media_cache` | two artifacts, two callers, an enforcement and a status, one trouble | 481k | leases and guards hold, reservations are not lost, enforcements end |
| `project_journal` | three edits, two faults, two crashes | 316k | reopening, one replay, acknowledged edits survive, `EditLog` is implemented |
| `project_edits` | a sequence with video, captions and graphics; three edits with undos and redos | 71k | undo is possible and exact (`VersionHistory` is implemented), splits and captions keep their media |
| `proposals` | two proposals, two faults, edits and restores | 374k | applied once, verdicts and audit agree with the journal, restores lead back |
| `exports` | three jobs, two destinations, two contents, one fault | 338k | deliveries were accepted, outputs described, earlier exports kept, failed runs gone |
| `cancel_race`, `torn_tail` | | | disagreements, section 6 |

Every property of a passing run has a mutant in `PROJECT.json`: a plausible bug in
one mapped definition with which TLC finds that property violated.

**Bounds**, and what each gives up.

* `scheduler`: all decisions of the scheduler are per job, so a behaviour is followed
  while it has one job of one of the three kinds (`OneAtATime`); what jobs do to one
  another at the permits is `dispatch_loop`. *Two permits*: a job is dispatched again
  while its last task still reconciles. *Attempts*: three for the derived job as in the
  product, two for the others. *StartTries* two of `START_RETRY_DELAYS`'s three, which
  differ in nothing (three in `scheduler_liveness` and `cancel_race`). One fault and one restart hit every step once; a
  second restart starts from what the first left.
* `store_table`: limits of one: the table is full with one row, and retention deletes
  with two.
* `dispatch_loop`: two jobs compete with different priorities; a third would only age as the
  second does. `MaxStartFailures` one: see section 6 for what endless failures do. Two
  tasks besides the one at work.
* `preparation`: a behaviour is followed up to and through its first disturbance
  (`OneDisturbance`), of which a fault or a restart is not combined with a child that has
  failed or is blocked; two in a row (a crash while a cancellation is under way) are left
  out. One call drives. A preparation has two attempts and a child one. The proofs of the
  two invariants lift all of this, so that only `PreparationsSettle` depends on it.
* `media_cache`: a budget of zero, so that every artifact that can be evicted is; two artifacts are asked
  for in all; the idle callers are interchangeable, hence `OneTrims`. The proofs
  cover every other size of the safety part.
* `project_journal`: *CheckpointInterval* of two and *MaxHistory* of one (25 and 10,000
  in the code): with three edits a checkpoint falls before, between and after them and
  the undo stack overflows. Two crashes and faults: a recovery is itself
  interrupted after a crash, and an error meets one. *EditsAfterFailure* FALSE: clients close
  the project after a failed append; `torn_tail` drops that.
* `project_edits`: two entries of history with three edits, so the oldest is dropped; a
  sequence at two frames a second with sources at one and three, so that every conversion
  has a remainder somewhere. The groups are single commands of every kind and the groups
  the editor sends (ripples, linked moves, pastes), so `UndoIsPossible` is about these; section 6
  lists the groups whose undo is refused. `MaxTime` 100 is above
  every time that occurs.
* `proposals`: *MaxHistory* 3, *MaxOpen* 2, *MaxResolved* 1, *MaxDrift* 2 (all larger in
  the code): each limit is reached within four revisions. `FewVerdicts` ends behaviours
  at three entries of audit.
* `exports`: two jobs under way of three, three runs in all, one fault, a project that is edited
  between runs, overwriting asked for where there is an output. All of these are lifted by
  the proofs, which cover the four properties for every instance.

**Deadlock** is checked except in `dispatch_loop`, `project_edits`, `proposals` and
`exports`, where the bounds, or the end of the service, leave nothing to do.

**Symmetry** is used only in runs without liveness, over ids that the module treats alike:
permits, edits, the two export ids, and jobs, paths and contents of exports.
`project_journal` checks the safety part of `EditLog`, which is symmetric in the edits.

**Fairness.**

* `MediaJobScheduler`, `MediaPreparation`: weak fairness of task steps, cancellation
  calls, submits, drivers and the resumption: spawned tokio tasks and timers run on, and a
  worker's supervision bounds its run. Strong fairness of `Dispatch` per job:
  an entry that finds a free permit again and again is eventually the one taken. That is
  not an assumption about tokio but a consequence of the code: it is `QueuedWorkIsServed`
  of `DispatchLoop`. Nothing is promised once `shutting` holds.
* `DispatchLoop`: weak fairness of the loop, of tasks and their exits, of calls of
  `submit` under way, of shutdown's steps (not of its call), and of time, which promotes waiting work.
* `MediaCache`: weak fairness of enforcements only.
* Clients, restarts and faults are never fair.

Type invariants document the variables; those of the scheduler, the preparation, the store, the cache,
the exports, the journal and the proposals are proved. The others can be checked by adding `TypeOK` to a configuration.

## 5. Proofs

Everything is proved for every value of the constants, from the `ASSUME`s of the modules alone
(`JobAssumption`, `LimitAssumption`, `SchedulerAssumption`, `DispatchAssumption`,
`CacheAssumption`, `ExportsAssumption`, `NoneAssumption`, `JournalAssumption`,
`ProposalsAssumption`), which TLC evaluates in every
run. The theorems about the journal and about the preparation have one hypothesis more, named below.

### The job table

`MediaJobStoreProofs` proves every property `store_table` checks: `KeysAreUnique`,
`EventsTellTheRecord`, `TerminalEventsAreSingle`, `CancellationsWereRequested`,
`ChildrenHaveParents`, `FamiliesSettleBottomUp`, `SettledRecordsAreFinal`,
`LimitPassedOnlyByRetries`. They follow from `StoreInvariance`, whose invariant is the conjunction of the types, the
five state properties and `NothingOfMissingRows`: without the last an insertion could
find events of an earlier row under its id and announce a second settlement.

The actions differ much and their effects little, so the proof has two layers. Each
action is first shown to be a `Step`: it computes rows from the old ones
(`Computed`: what a row may become, which rows it writes, that no new rival for a key
appears, that a cancelled row has no unsettled child, that a row it does not announce changes in
its payload at most), deletes some with their
children, and announces the rows it wrote. `StepKeeps` then preserves the invariant
without looking at the actions again, and two of the action properties are read off the
same `Step`; the third, on the limit, goes back to the actions. The bottom-up order
is where the guards of `ReconcileCancellation` are needed; the uniqueness of keys needs
the index for transitions and the lookup before an insertion. `SettledRecordsAreFinal` says of a
cancelled or complete row that state, flag, attempt and events stay as they were settled until the row is
removed; that no transaction announces such a row is part of `Computed` (`Written`).

### The scheduler

* `TypeCorrect`: `Spec => []TypeOK`
* `OneOwner`: `Spec => []OneOwnerPerJob`, the running map is exact
* `WorkersOwnTheirRecords`: `Spec => []WorkerOwnsItsRecord`
* `JobsAreQueuedOnce`: `Spec => []QueuedOnce`
* `SettledStaysSettled`: `Spec => SettledForGood`
* `ActiveRecordsAttended`: `Spec => []ActiveRecordsAreAttended`
* `QueuedWorkAttended`: `Spec => []QueuedWorkIsAttended`
* `StartsCount`: `Spec => AttemptsAdvance`

The first four follow from `Invariance`, the invariance of `IInv`. Its parts need one
another. `TypeOK` needs `TaskOK`: an attempt stays within `0 .. 4` only because a
task at work counts at least one and every push subtracts one or passes the guard.
`WorkerOwnsItsRecord` needs `OneOwnerPerJob` (who else
could write the record is who is in the map) and the guard of `submit` and
`retry_with_worker`. `QueuedOnce` is not inductive alone: a failed start and an
automatic retry push without regard to what a client queued meanwhile, and what saves them
is `NothingQueuedBehindWork`: while a task has yet to do its last push, nothing
is queued for its job.

The argument is in two layers. `TypeStep` shows that every action keeps the types.
For the rest the actions fall into few shapes: a call that pushes at most one entry
for a job nobody owns (`CallKeeps`), a task that moves on (`MoveKeeps`), and one
lemma for each of dispatch, failed start, leaving the map, the last reconciliation
and the restart. `MoveFacts` and `CallFacts` sort the actions into
the shapes, the shape lemmas preserve the invariant.

`SettledStaysSettled` has one lemma per group of actions (task, client, cancellation,
restart) and needs of the invariant only the types. Most is the transition table,
which leaves *cancelled* and *complete* nowhere to go; the writes that do without it
(reconciliation, reauthorization, recovery) need their own guards.

The last three say that nothing is left behind, and follow from `AttendanceHolds`, the
invariance of `Attendance` on top of `IInv`. It says of each job (`Sound`):

* `ActiveIsFollowed`: a record in progress has an owner that works or waits, or it is flagged and
  somebody will reconcile it: a queue entry, the owner on its way out, a task past the running
  map, or a cancellation call that has the job in its family still to do.
* `WantedIsFollowed`: queued work that nobody cancelled has an entry, a client about to
  submit it, or a task about to start it. That a duplicate is dropped by `submit` is
  harmless only because the entry or the task that made it one still comes.
* `StartsAdvance`: whoever is coming counts on from the attempt in the record, so a start
  never repeats a number.
* `SignalIsAsked`, `FlagIsAsked`, `CallsHaveAsked`: what else could end queued work, a token
  or a flag, goes back to a client that asked, or to a restart.
* `FitsItsRow`, `StartIsQueued`, `AbsentIsIdle`: transitions of the owner are allowed, so it does
  not drop its work on a refusal.

Both are about a scheduler that is not shutting down, as the properties are. The first is also about a
store that has not failed a write: a record whose outcome could not be written stays *running* until
the next start (`scheduler.rs:612`). The second is about a session without a restart, but holds
whatever the store fails: a start that fails for good comes back through `StartFail`.
Each action writes one job, and
`Untouched` is the frame lemma for all others, so the proof is one lemma per action about
its own job (`StartSound` to `RestartAttends`). `SchedulerAssumption` has a conjunct for this: only preparations
have children, as in the code only `derived.rs` creates a row with a parent. No
scheduler owns preparations, so here a reconciliation settles the job it is called for and no
other (`ReconcileAlone`); families are the subject of the next section and of the
proofs of the store.

### The preparation

The second half of `MediaJobSchedulerProofs` is about `PrepSpec`, for any number of drivers and of
children, any outcomes, faults and restarts, under `PreparationAssumption`: all jobs are one
preparation and its children, each of a role.

* `PreparationTypes`: `PrepSpec => []PrepTypeOK`
* `PreparationKeepsOwnership`: `PrepSpec => [](OneOwnerPerJob /\ WorkerOwnsItsRecord /\ QueuedOnce)`
* `CompletePreparationsHaveTheirMedia`: `PrepSpec => []CompletePreparationHasItsMedia`
* `PreparationSettledForGood`: `PrepSpec => SettledForGood`
* `ActivePreparationsAreDriven`: `PrepSpec => []ActivePreparationIsDriven`

The first four follow from `PreparationInvariance`, the invariance of `PInv`. Its first part is
the scheduler's invariant, shown to survive steps it does not know: a driver writes only the
parent's row and new children's, and pushes only what nobody owns. Its own parts are:

* `NotScheduled`: the scheduler never holds the preparation itself, so only drivers, cancellations
  and recovery write that row.
* `DriversSound`: a driver on its way to completing the parent (`Gathers`) has read a child of the right role
  for every enqueue it is past, and that child is complete once it is past waiting
  for it. That stays true because a complete child keeps its state; which steps
  are still ahead is read off the plan (`PlanLeaves`), the end of one of two fixed sequences.

`CompletePreparationHasItsMedia` is itself a conjunct: the only step to *complete* is
`CompleteParent`, whose driver has nothing left to do.

The last theorem rests on a second invariant, `DInv`, inductive relative to `PInv`
(`PreparationIsFollowed`). The difficulty is that a driver and a cancellation write the same row
without knowing of each other, each over the other's flag or state:

* `UnflaggedIsWorked`: a parent under way and without a flag has a driver whose next write its state
  allows. A write of that driver is refused only as stale, and then somebody has touched
  the row since its last step; only a cancellation does, and that sets the flag.
* `AttemptFits`: the attempt of a parent under way is within its limit, so that no transition is refused
  for its number.
* `FlaggedIsPursued`: a flagged parent under way has a cancellation call with reconciliations to
  come, or a child that is `Busy`: unsettled, or with a task that will still reconcile.
  Each end of a reconciliation keeps this: it settles the parent, or leaves it because a child is
  unsettled or owned, and the owner of a child reconciles when it leaves.
* `CallsOwn`, `StartsAreQueued`: a call works on a family that includes its own job; a refused start was
  of queued work, which its scheduler keeps.

The proof corrected the property. An earlier form asked for a cancellation call or a child that the
scheduler attends to. That held in the run only because no worker there asked for a user: with
a blocked child a flagged parent waits for that user (section 6). The property now says what the code
keeps, that some child is not settled, and the run has children that fail, are blocked and are retried.

### The cache

`MediaCacheProofs` proves the four safety properties of `media_cache`: `LeasesPin`,
`GuardsProtect`, `ReservationsAreNotLost` and `WriteOffsAreTrue`, besides `TypeCorrect`. The
inductive invariant is `CacheInv`, and its parts lean on one another:

* `LeasedArtifactsAreThere` is kept by an eviction only because the reservation
  refuses leased rows and a lease refuses reserved ones, and by a lease because its
  caller has published or probed the file under the lock: `GuardedBytesStay`.
* `GuardedBytesStay` in turn is kept by an eviction because that takes the same
  lock (`WorkersHoldTheirLocks`).
* A restart drops every guard and every lease, so what holds after it must come from
  the files: `ListedWerePublished`.
* `ReservationsAreClaimed` speaks of enforcers, the list of failures and the catalogue, and
  is preserved by steps that touch none of them by a frame lemma
  (`OtherStepsKeepTheBooks`); the steps that do are one lemma each (`BookStep`).

`WriteOffsAreTrue` is read off the actions under that invariant.

### The exports

`ExportsProofs` proves the four properties of `exports` (`DeliveriesAreAlwaysAccepted`,
`PromotionsAreDescribed`, `ExportsAreKept`, `UnsuccessfulRunsAreGone`). The invariant `IInv` joins the
types with:

* `JobsAreEarned`: the gate and the verdict of every job that may still release
  something rest on lines that were written. It survives every step because lines are
  never removed, only moved aside (`WrittenGrows`).
* `Alone`: one run at a time, from the one permit.
* `RunsArePrepared`: what stands at a run's destination at each of its steps: nothing or what
  it may overwrite, then its manifest, then its delivery files. Only
  the run itself writes there, because it is alone.
* `FilesAreOfRuns`: a file is of a run that has begun. Runs only go forward
  (`MovesOn`), so what a run is about to write is not there yet; otherwise a leftover could
  be taken for its own.

The action properties then need only the step in question: a promotion meets
`RunsArePrepared`, a removal the guard that names the run.

### The dispatch loop

`ReleaseFindsNoTask`: when `shutdown` releases the leases, nothing runs that could still use
them. The code trusts a count for this, `active_count`, and the proof is that the count
is exact. A task is counted from its dispatch to the last thing it does, also on its way out,
when no map names it any more, and there may be any number of such tasks.
`Counted` therefore numbers them, and the invariant says that `active` is the cardinality of
that set; each step of a task adds a member, removes one or swaps two.

`NoWakeUpIsLost`: the safety half of `QueuedWorkIsServed` and `ShutdownEndsTheLoop`, for any jobs,
resources and permits. A loop that waits, and was not notified since it registered, has nothing it could dispatch
but work that is still going to be announced (`WorkIsAnnounced`): by the submit that pushed it, or by
the end of a task that held a permit of its resource, whichever of its exits that task takes. Nor
does it sleep over the end of a shutdown (`EndIsAnnounced`), though it reads the flag and the
count before it looks at the queue and waits only after both. Fairness of the notifying steps does the rest.

### The journal

The theorems of `ProjectJournalProofs` assume `~EditsAfterFailure`: a client closes a
project whose append has failed. It is a constant of the module, and no weaker form is true:
without it TLC finds acknowledged edits lost (`torn_tail`, section 6). Under it, for any
number of edits, faults and crashes:

* `RecoveryFindsASnapshot` (`ProjectOpensAgain`), `RecoveryIsUnambiguous`
  (`ReplayIsUnambiguous`), `AcknowledgedEditsSurvive` (`AcknowledgedCommandsSurvive`)
* `Refinement`: `Spec => ImplementsEditLog`.

`IInv` says of the journal that its lines are a chain of records each of which could be made
on the state before it (`RecordsAreChained`, `StatesAreSound`), of the snapshot files that each holds a state
of that chain, and of the session, for each step it can be at, how far it is behind
(`SessionFollowsJournal`): not at all, by the record it has just appended, or by anything after a
failed append, when it answers no more edits. What recovery computes is a fold of
`Applied` over the rest of the journal, and the states of the chain are folds over its
prefixes. `StatesOfJournal` relates them for a journal of any length; it
rests on `FoldInduction`. Each action then is one lemma: an append makes the chain one
longer, a checkpoint moves a file along it, a recovery finds the session on it.

The refinement goes through the actions once more. `Write` that succeeds is the log's
`Apply`, an answer its tell, and all else, crashes and recoveries included, leaves log
and answers as they are.

### Induction

The library's induction theorems take an operator as a parameter, and none of the
provers at hand can instantiate those. `FoldInduction` does with sets: `WFMin` gives the
least element of a set of naturals, hence `NaturalSetInduction`, and from it what
`FoldLeft` goes through, step by step. It has the folded operator as a constant, so the
proofs instantiate it once for each fold they reason about.

### The proposals

`AppliedOnceEach`, `VerdictsAgree`, `AuditTellsOnce` and `RestorePointsStay` state the four
properties of `proposals`. The invariant has three parts.

* `StoresAreGood`: what a store tells of the journal is true, for the one in place and
  the one that an operation under way will save. A write that is missed leaves the
  older store in place, so its truth must survive every later append: an open proposal may have its commit
  already, but one that is called rejected, stale or expired can never get any. Reconciliation is a fold over the journal and expiry
  one over the proposals; both are shown to keep a store good, step by step of the fold.
* `MadeBefore`: a commit of a proposal is later than the revision it was made for. This
  is why a proposal that was dropped from the store and is submitted again cannot be applied
  again: its revision has passed.
* `HistoryHolds`: the present state, with what was undone behind it, is the stack that
  all commits were pushed to, and below each group stands the state it was committed
  to. The undo stack is the end of it, however much of it has been forgotten.
  `RestorePointsStay` follows at every depth, not only at the limit TLC uses.

**Only model-checked**: liveness (`SignalledWorkSettles`, `RetryDelaysEnd`, `QueuedWorkIsServed`,
`ShutdownEndsTheLoop`, `PreparationsSettle`, `EnforcementsEnd`) and what rests on `ENABLED`,
which are beyond the prover; and
the four properties of `project_edits`. Three of these are no theorems for every value of *Groups*: section 6
has groups with which an undo is refused or not exact, or a clip under captions gets another
speed, so they are properties of the groups the editor sends. The fourth, `SplitIsSeamless`, would need the
types of a project through every command.

## 6. Where code and documentation disagree

* `cancel_race`: a cancellation committed between the end of a retry delay and its
  requeue (`jobs/scheduler.rs:714`) is overwritten by the requeue; its signal then drops the new
  entry and the job stays queued without an owner. A manual retry between the request and
  the signal (`jobs/mod.rs:251`) ends the same way.
* `torn_tail`: after a failed append the session stays open and the next record is
  appended behind the torn line; it is acknowledged and no recovery finds it.

Seen while modelling, without a run of their own. *Jobs*:

* Recovery keeps the attempt, so work interrupted in its last attempt is resumed as
  attempt `max_attempts + 1` (`jobs/store.rs:1622`, `derived.rs:905-945`,
  `jobs/model.rs:185`), which every start refuses and requeues.
* `requeue_after_start_failure` keeps the old sequence number and age, so a job whose
  start always fails is always first and starves the others on its permit.
  `QueuedWorkIsServed` is about finitely many failures.
* `signal_cancellation` notifies nobody, although `jobs/scheduler.rs:148` says that state
  changes must wake every waiter; a dropped entry can only make an idle observer wait longer.
* A `submit` that has checked `shutting_down` pushes after shutdown's clear: the stray
  entry makes `wait_idle` wait to its deadline. A second call of shutdown ends at once.
* `cancel` drops the queue entry before a write that may fail (`jobs/scheduler.rs:298`).
* A queued analysis is not touched by recovery, and a new request finds the
  duplicate and neither submits nor retries it (`jobs/store.rs:1588-1603`,
  `transcription_job.rs:412-439`).
* A preparation cancelled between the plan and the insertion of its children lets them
  run under a settled parent: the family is collected once and the driver does not look at
  its parent (`derived.rs:1435`, `jobs/mod.rs:231`; the test at `jobs/mod.rs:1290` has the
  children inserted first). If a child inserted after the cancellation ends as *blocked*, the flagged
  preparation stays *running* without a driver until the child is retried or cancelled. A driver that polls a child just cancelled takes it for a failure and writes
  *failed* over its parent's cancellation (`derived.rs:1826`). Every unblocking costs an
  attempt (`derived.rs:1364`); after three the preparation cannot start.
* A resumption that fails between the enqueue of its children and their submission
  (`derived.rs:866-937`) writes *failed* over the parent (`derived.rs:1049`) and leaves queued
  children that nobody submits: the next preparation of the asset has children of its own
  (`derived.rs:1587`).
* An export reauthorized while its blocked run is still leaving the running map is not
  queued, since `submit` takes it for a duplicate; `QueuedWorkIsAttended` leaves exports out.

*Cache*:

* A publication whose final validation fails removes the artifact (`remove_exact`), which
  others may have leased: `spoilt` excepts these.
* A crash after an eviction's unlink leaves a reserved row without a file until the
  artifact is registered again.
* Closing a project drops the leases of its jobs that still work.

*Projects*:

* A crash between the creation of the journal and the first checkpoint leaves a
  journal that makes each later initialization fail (`project/service.rs:186`);
  `ProjectOpensAgain` speaks of projects that have a snapshot. Recovery accepts
  records that were never synced (`project/recovery.rs:253`).
* Some undos are refused, and block every entry below them: `RestoreClipFades` after a split of
  a clip with fades (`project/commands.rs:214-221`); a group that trims a clip and then makes its
  fades smaller. `CreateSequence` takes an active id that only a later command creates.
* Some are not exact: a group of a move into an overlap with a ripple and a second move
  shifts another clip back when two starts are tied; markers and captions are not
  required to be sorted, so an `AddMarker` without an index sorts them and its inverse
  does not unsort them. The editor sends none of these groups; the run has those it sends.
* A split copies both fades to both parts, and a group of removal and insertion
  changes the speed of a clip under captions, which `SetClipSpeed` alone may not.
* An interrupted `restore_before_proposal` answers a retry under the same operation id with the
  steps already done as if they were all, although its comment says that it returns the same results.

*Exports*:

* A detached progress write may land after a requeue.
* An output deleted by the user and exported again without `overwrite` leaves the old
  review record beside the new manifest, since `supersede_review_record` runs for
  overwrites only: every later read ends in `digest_mismatch`. A failing supersede ends the same way.
* `append_review_decision` reads and appends without a lock, so that concurrent calls can exceed "at
  most three attempts per finding" (`src/docs/features/delivery.md:25`).
* A cancelled overwrite has already replaced the old manifest and removes the new one: the old
  output stays without a manifest; a crash in between leaves it beside one that is not its own.
  Readers refuse both.
* A crash between delivery files and promotion strands the delivery: its files exist and no run
  may overwrite them. A crash after the promotion leaves the job blocked although its output
  is there. The partial file of a crashed run makes a new job for the same plan fail.

## 7. What is not modelled

* Of the modelled components: schema migration and quarantine of the job database, owner
  cleanup; the recreation of a deleted journal, size limits, the rollback of an
  initialization that fails itself, display fields; loss of power (files keep what was written
  to them); removal of stale builds and of the legacy cache; what a proposal may
  contain, and the cap of its audit (`MAX_AUDIT_ENTRIES`, 500 entries); credits and the rights gate of an export; the detectors behind a verdict.
* `jobs/ipc.rs`, music beat jobs: thin layers over the service, or the same steps as the
  analyses that are modelled.
* Processes, grants, tools: supervision of child processes is operating-system behaviour that
  the models take as "a worker returns something".
* Media analysis and layout: numerical code without state.
* AI account and rights: later in the plan.
* Application shell, frontend, TypeScript packages, sidecars: wiring, UI, contracts and
  inference; none keeps state that the native side does not check again.
