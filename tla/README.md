# A verification development of the paid video pipeline and what surrounds it

The repository turns novels into comic-drama videos: a FastAPI process with a
SQLite database (WAL), asyncio workers in the same event loop, and a video
provider behind HTTP that charges for every task it accepts. A video costs real
money and takes minutes, so the part of the system that carries most of its own
logic is the *paid job*: a row that is leased, submitted once, polled, downloaded
and adopted, while processes restart, leases expire and users stop, pause and
resume. Around it stand the parts that decide who pays and who may work: the
attempts of a shot and the seconds they are charged, the supervisor of an
episode, the command bus with its receipts, the payment orders, the gate in front
of the text provider, and the delivery package. Each has a specification here,
all with proofs. This file is the inventory of the whole system, the
plan, and what has been shown.

Contents: 1 inventory, 2 plan, 3 the model and the code, 4 the properties and
runs, 5 fairness, 6 what the code does and its documents do not say, 7 proofs,
8 what is not modelled.

## 1. Inventory

Paths are relative to `src/app`. "Interacts" names calls, shared rows and
callbacks. PROJECT.json repeats the list with the modelling status of each part,
and its `hazards` give the line where each hard behaviour bites.

### Paid media

| component | state | operations | interacts | hard | what makes it correct |
|---|---|---|---|---|---|
| video job worker (`media_exec/run_job*.py`, `authority.py`, `checkpoints.py`, `job_state.py`, `retry_scheduling.py`, `worker_loop.py`, `worker_lifecycle.py`) | `jobs`, `shot_versions`, `provider_calls`; the workers' locals between awaits | claim, load, prepare, submit, poll, download, checkpoint, QA, adopt; every error handler; heartbeat, sweeper, shutdown | scheduler rows, budget rows, provider, shots | interleaving at each await, stale leases, lost replies, crashes, retries | one paid task at a time, none forgotten, no blind second create |
| media scheduler (`orchestration/media_scheduler.py`) | leases and reservations (`jobs`, `budget_reservations`) | `claim_job`, `renew_lease`, `release`, `settle_budget`, `request_cancel`, `recoverable_jobs` | worker, enqueue, stop | CAS on status, owner and cancellation | a lost lease writes nothing on the row |
| submit admission (`media_pipeline/scheduler.py`) | derived from `jobs` | `can_admit_video_submit`, `count_inflight`, `claim_video_submit_slot` | worker | check, awaits, then claim | the inflight cap is not overshot |
| provider budget claims (`completion_grant/*.py`) | `provider_video_budget_claims`, grants | reserve, accept, settle, release, `close_unresolved_liability` | worker, stop | one row through many submissions | the amount of a task that may run is in the ledger |
| enqueue, stop, pause and resume (`media_exec/enqueue.py`, `enqueue_persist.py`, `dispatch.py`) | unique active slot of a shot, jobs, versions | enqueue, stop a shot, pause and resume an episode | worker, scheduler | races a running worker | a stopped result is not adopted |
| restart recovery (`media_exec/job_recovery.py`) | none of its own | `recover_media_jobs`, `reconcile_stalled_video_jobs`, orphaned continuity jobs | startup, sweeper | crash between any two transactions | resume the poll, never the create |
| unresolved creates, quarantine, candidates (`media_exec/unresolved_create_recovery.py`, `quarantine_release.py`, `candidate_recovery.py`) | jobs in `waiting_human`, quarantined versions | a human's decisions | worker | the decision races a late answer | no release while a task may run |
| provider task clearance (`provider_task_clearance.py`, `provider_task_zero_cost.py`) | evidence rows | prove that nothing was accepted | quarantine, grants | evidence goes stale | nothing is cleared that costs |
| manual retry (`system_api.py`) | jobs | a new submission epoch | enqueue | double click, old worker | at most one live job of a shot |
| provider clients (`seedance.py`, `minimax_h3.py`, `video_providers.py`) | `provider_calls` | create, query, download | provider | open outcomes | an error says whether a task may exist |
| evidence and selection (`evidence/media.py`) | `shots.adopted_version_id` | `select_best_video_candidate` | worker | after awaits, without a lease | only succeeded versions are adopted |

### Orchestration

| component | state | operations | hard | what makes it correct |
|---|---|---|---|---|
| run and step machine (`orchestration/state_machine.py`, `engine.py`, `media_runs.py`) | `workflow_runs`, `workflow_steps`, events | transition by CAS, recorder, projection of media jobs | concurrent transitions, projection lag | ended runs stay ended; run agrees with its steps |
| video supervisor (`video_supervisor/*.py`) | supervisor row, checkpoint | loop, dispatch, job control, watchdog | owner dies, checkpoint behind jobs | one owner, no step done twice |
| storyboard supervisor, loops (`storyboard_supervisor.py`, `loops/base.py`) | runs, checkpoints | repair loop | cancel between rounds | validated shots are not redone |
| task registry (`task_registry.py`) | asyncio tasks by key | spawn, replace, cancel | the replaced task still runs | one task of a key |
| generation concurrency (`generation_concurrency.py`, `media_pipeline/concurrency.py`) | a heap of futures by priority, the count of slots, the adaptive channel | acquire, release, resize, cancel a waiter; slow start, congestion, recovery | cancellation at hand-over, resize below the occupancy | slots are neither lost nor doubled, nobody is overtaken |
| command bus, idempotency (`capabilities/bus.py`, `idempotency.py`, `policy.py`) | receipts, approvals in memory | gate, claim, store, release, expire | owner dies or is late, an approval is raced for | one effect for a key within the TTL, an approval carries one request |
| startup recovery (`recovery.py`) | runtime lock | reconcile, then workers | two processes overlap | one recovering process |

### Money and accounts

| component | state | operations | hard | what makes it correct |
|---|---|---|---|---|
| video seconds (`quota.py`, `quota_addon.py`, `quota_expiry.py`) | append-only ledger | charge, refund by product signal, expire | a refund for a job that is later resumed | charge and refund match what was produced |
| quota policy (`quota_policy/*.py`) | pools, allocations | allocate, reclaim, fair order | concurrent allocations | allocated does not exceed the pool |
| payments (`payments/*.py`) | orders, grant rows, the user's tier | create, notify, query, reconcile, deliver | notification races the query, a crash before the delivery | each paid order is delivered, and settled once |
| provisioning (`provisioning/*.py`), auth and SSO | tokens, sessions | redeem, import, log in | one-shot tokens | a token is redeemed once |

### The rest

Text generation (planning, scenes, compiler, outline), portraits, props and
reference images, final edit, subtitles and voice, the delivery package
(`delivery*.py`: an operation lease and a publish transaction), the model
registry (health windows, rate limits), the audit buffer, the HTTP and MCP
surface. Most of it computes data; delivery has a module, the registry's health
windows would be worth a small one.

## 2. Plan

In order of what the system can lose by a mistake. Written:

1. **VideoJob** with **PaidOperation**: the paid job from claim to adoption, with
   stop, pause, resume, sweeper, restart and the provider; PaidOperation is what it
   promises about money.
2. **VideoAttempts**: the attempts of a shot above the job: enqueue, the unique
   active slot, manual retry, pause and resume, quarantine release, adoption by a
   person, and the video seconds that an attempt is charged and refunded.
3. **PaymentOrder** with **Purchase**: notification, query, reconcile round and
   delivery of an order, and the tier of the account; Purchase is an order that settles
   in one step, and the processes that this step overtakes.
4. **CallGate**: the priority gate and the adaptive channel behind it.
5. **CommandReceipt**: the receipt of an idempotency key and the approvals.
6. **VideoSupervisor**: who owns the completion of an episode, its checkpoint,
   closeout, cancellation, watchdog and recovery.
7. **DeliveryPackage**: lease, build, promotion and publication of a package, its
   review and retirement, and the changes of the episode around it.

Left, in this order:

- **Clearance**: what evidence lets a person clear a provider task away, and how it
  goes stale; the module would end where VideoJob leaves jobs in `waiting_human`.
- **RunState**: run and step graphs, compare-and-swap, the recorder and the
  projection of media jobs onto runs.
- **Budget**: amounts per provider task, where PaidOperation has one per operation
  (a release after an earlier task of the operation was settled).
- The storyboard supervisor (the shape of VideoSupervisor without paid jobs), the
  quota policy (pools and allocations), the project queue and the series console.
- The composition of VideoJob and VideoAttempts: VideoAttempts takes what a worker
  does to an attempt as free choices; each of them should be a step of VideoJob.

Modules that are proved about use no recursive operator.

## 3. The model and the code

| specification | its properties | proofs | what it is |
|---|---|---|---|
| `VideoJob` | `VideoJobProperties` | `VideoJob_proofs`, `VideoJobSafety_proofs` | the paid job: rows, workers, user, sweeper, restart, provider |
| `PaidOperation` | | | abstract: amounts held, requests sent, tasks live |
| `VideoAttempts` | `VideoAttemptsProperties` | `VideoAttempts_proofs` | attempts of an account: slot, charge, refund |
| `VideoSupervisor` | `VideoSupervisorProperties` | `VideoSupervisor_proofs` | the completion of one episode |
| `CommandReceipt` | `CommandReceiptProperties` | `CommandReceipt_proofs` | the requests of one idempotency key |
| `PaymentOrder` | `PaymentOrderProperties` | `PaymentOrder_proofs` | the orders of one account, and its tier |
| `Purchase` | | | abstract: an order settles in one step, once; late deliveries |
| `CallGate` | `CallGateProperties` | `CallGate_proofs` | the priority gate and its limit |
| `DeliveryPackage` | `DeliveryPackageProperties` | `DeliveryPackage_proofs` | the packages of one episode |

`MC_<specification>` instantiates each for TLC. PROJECT.json maps every definition
to the lines it stands for. Definitions introduced by "Mutation:" are plausible
bugs at a definition's place; no action uses them. PROJECT.json says which
property each one breaks.

### VideoJob

State:

| variable | code |
|---|---|
| `job[j]` | the columns of `jobs` that control anything: `status`, `lease_owner`, whether `lease_expires_at` has passed, `cancellation_requested`, `video_slot_active`, `provider_create_state`, whether `provider_operation_id` is set, `provider_non_cancellable`, `provider_poll_required`, `provider_result_adoptable`, `retry_count` |
| `version[j]` | `shot_versions`: status, `provider_task_id`, whether there is a `video_path` |
| `claim[j]` | `provider_video_budget_claims.status` of the operation, or none |
| `reserve[j]` | `budget_reservations.status` |
| `calls[j][t]` | the `video_create` row of `provider_calls` of task t: none, OK, TASK_FAILED |
| `adopted[j]` | `shots.adopted_version_id` names this version |
| `worker[w]` | a worker coroutine: the await at which it is suspended and the locals it carries over it (`provider_task_id`, recovery only, just created, the amount to settle) |
| `swept` | ids the sweeper has selected and not yet recovered |
| `tasks[j][t]`, `late` | external: the provider's tasks; requests whose sender has gone |
| `stopped`, `faults` | history of the user's stop; the bound on faults |

Steps:

The process is one event loop, and most handlers call SQLite synchronously: what
stands between two awaits of a coroutine is one step, so long as it commits
once. `_set_job` and `_set_version` of one handler, called one after the other
with nothing in between, are one step. Where one handler commits twice and a
crash or another commit may come in between (`_set_job`, then `settle_budget`),
there are two steps (`pc = "settle"`).

A few transactions run in threads: the claim, the heartbeat, and the commits of
an acceptance, of a rejection and of a checkpoint (`run_write_transaction`). They
may fall between two commits of a handler that holds the event loop; everything
else waits for it. `LoopFree` says that the loop is not held, by a worker at
`settle` or by a sweep under way; `ThreadStep`, `Claim` and `Heartbeat` do not ask
for it, every other action of the process does. A task of the provider, the time
and the death of the process know no loop. The program counter names the awaits:

| pc | the await in `_run_job` |
|---|---|
| `load` | claimed, about to read the job and its dependency snapshot |
| `prepare` | prompts, references, continuity anchors, validation |
| `submit` | `provider_create_state='submitting'` committed, about to claim the slot |
| `slot` | the slot and the claim are committed, the authority check runs in a thread |
| `sending` | `create_video_task` is out |
| `accept` | a task id is known, the acceptance is not committed |
| `poll`, `fetch` | the query; the download |
| `qa`, `adopt` | the checkpoint is committed; validation, then selection |
| `settle` | `_set_job` committed, `settle_budget` not yet |

Some actions are easy to misread:

- `LeaseLost` is what each await is followed by: a fenced UPDATE that matches no
  row ends the worker without writing.
- `Send` asks for no lease. `Defer` gives the reservation back whoever owns
  the job. `FetchFailed` unbinds the version and the ledger before it finds the
  lease gone. `Adopt` selects before `_set_job` is fenced. These are the code's
  own order.
- `Handle` is the recovery of a task id from the call log, the reason why a reply
  that was logged but not committed is not lost.
- `ReleaseRefused`: the authority check failed on a job whose claim had been
  settled by an earlier result; the release raises LeaseLost and the row keeps
  slot and lease until the sweeper comes.
- `SweepSelect` and `SweepRecover` are apart because the sweeper reads a list and
  then recovers its members without looking at the lease again. The window is
  open to the threads only: a claim, a heartbeat, an acceptance, a result.
- `GoStale` leaves slot and lease owner in the row: `stale` is not among the
  terminal statuses of `_set_job`.
- `CrashAndRestart` covers the process's death and `recover_media_jobs`. Which
  jobs the startup finds interrupted is a choice, as it depends on the run rows
  that are not modelled; the others wait for their lease.

External: a task starts at the provider when a request is accepted, by its
sender's connection (`ProviderAccepts`) or after the sender has gone
(`ProviderAcceptsLate`), and ends at any time (`ProviderFinishes`). The provider
is not assumed to deduplicate requests by their idempotency key, since the
runbook does not rely on it.

`PaidOperation` knows nothing of rows and workers. The mapping is

    held <- the jobs whose claim row is neither absent nor released
    sent <- the jobs with a request nobody has answered (a worker at "sending"
            without a task, or the job is in late)
    live <- the jobs with a task running at the provider

and says: a request is sent only against a held amount and when the operation
has neither a request nor a task; the amount goes back only when it has neither.

### VideoAttempts

One account. An attempt is a row of `jobs` with kind `video`; what a worker does
inside it is VideoJob's business, here it is persisted, delivers, is settled or
fails. `status` keeps apart only what the slot and the ledger look at: the four
active statuses together, `paused`, waiting for a human, over. `slot` and
`adoptable` are the two flags of the row, `version` the status of its version.
`charge` and `refund` are the rows of `quota_ledger`, with the period they are
booked in; `packs` the grants of an add-on; `period` the running 30 days.

`Begin` is the enqueue from the claim of the slot to the charge, `Reclaim` the
reuse of an attempt without a version, `Persist` the version's insertion;
`CommitResult`, `Downgrade`, `End` are a worker's ends, `Cancel` and `StopAccepted`
a stop before and after the acceptance, `Retry` and `RetryIsolated` `retry_job`,
`Revise` a new prompt of the shot, `Adopt` and `ReleaseQuarantined` what a person
may do. `ReadEnded` and `Refund` are the two halves of
`reconcile_video_seconds_refunds`: the SELECT, then one refund after the other,
each looking only at whether a refund exists. Two passes overlap because the
sweep, the end of a job and the request handlers all start one. `reopened` is
history: an attempt that got its slot back, or whose video became usable, after it
had given the slot up.

### VideoSupervisor

One episode. `owner` and `mode` are its columns `active_video_run_id` and
`video_completion_mode`. `control` is the pause or handoff that the next tick will find,
in the column or in the dictionary of the process (`video_control.py`): `cancel_run` and
a publication clear the column alone, so afterwards it is either still there or not. `cp` is
the latest checkpoint and the run it belongs to, `status` the runs. `pc` is where
the task of a run stands: spawned, loading, planning, in a tick and its work, and
the stages of a closeout (fence, stop, conclude, release). `local` is the
checkpoint in its memory, which is older than `cp` when a handler has written in
between. `jobs` names for each shot the run whose video job is active, `adopted` the shots
with an adopted version. A dispatch asks whether the shot is adopted when it starts
(`Check`) and not in the transaction that enqueues (`Enqueue`); `Adopt` and `Unadopt`, by the
user or by a worker, come at any moment and leave a job that is under way alone. `Stop` is
the closeout's stop: it passes over the jobs of adopted shots, and over those that do not
let themselves be cancelled (a fault); `left` is history, the shots it passed over. A job
that is stopped after the provider has accepted its task is cut off from the shot and
counts as stopped: what becomes of it is VideoJob's.

Phases are grouped by what the code asks of them: the phases of the tick loop are
one, the outcomes of a closeout are one. What a tick decides from the coverage
ledger is a choice (`Decides`). An enqueue and a closeout run in a thread
(`InThread`): a cancellation reaches the task only when the thread has ended, so
`Cancel` and `CancelEnds` are two steps, with everything else between them, and
`TaskStops` is the end of the cancelled task. `Crash` is the death of the process
and what startup makes of the rows; `Watchdog` closes an owner without a task and
without a heartbeat.

### CommandReceipt

The requests that carry one idempotency key. `receipt`, `owner` and `expired` are
its row; a token names the request that claimed. A step is one transaction on the
receipt, or one await: requests run in threads and in two processes. `Submit` is
the lookup, `Gate` the preflight with approval, `Claim` the INSERT that alone
decides, `Replace` the deletion of an unreadable result, `Handle` the handler with
its three outcomes, `Store` and `Release` what follows. `Lapse` ends the TTL, `Lose`
cancels a request, `Restart` kills all and deletes running receipts, `Damage` makes
a stored result unreadable, `Forget` drops an approval. An approval is named by the
request that was answered with it. `spent`, `replayed`, `done` and `current` are
history.

### PaymentOrder

A handler is the synchronous part of a request, in one of two server processes: it
is interrupted between two of its transactions and while it waits for the channel.
`Notify`, `Sync` and `ReconcilePaid` start one (the notification, the user's query,
the round over paid orders), `Answer` is what the channel says to the last two,
`Confirm` is `mark_paid` with its compare-and-swap, `ReadOrder` and `Deliver` are
`fulfill_order`, whose grant row or tier and status go in one transaction: `Deliver` writes
whatever it has read the order for, also when another process has delivered it since.
`Expire` is the sweep that puts an account back to the free tier (0). `Pay` and `acked` are
the channel, external: it holds an amount that may not be the order's, and stops
notifying once it has a 2xx. No code writes the status `closed`, so it is not
there.

`Purchase` has neither rows nor crashes: an order the channel holds the right amount for
settles in one step, by one process, which delivers it. That step overtakes the processes
that were delivering the same order; each of them delivers it late, once, or gives up.
Nothing else but the expiry writes the tier. The mapping is

    settled <- the orders whose status is fulfilled
    behind  <- the order of a handler that is about to deliver what is fulfilled by now

### CallGate

One event loop; a step is what it runs between two awaits. `st` is where the
coroutine of a request stands and what became of its future, `heap` the futures
still in `gate.waiters` (cancelled ones included, as the code leaves them there),
`ticket` and `sequence` their order, `limit` and `active` the gate. Popping is
described by its result: `Granted` is the set of the first n pending futures,
`HeapAfter` what is left behind them. `woken` is a future that has its result while
its coroutine has not run; `dropped` the same with the task cancelled in between:
the moment at which a slot can be lost. The channel's `current`, `hits`, `cooling`,
`healthy` and `slowStart` move the limit on every success or congestion
(`Attempt`, a provider attempt nested in the lease, and `Finish`); `Reload` is a
change of the settings.

### DeliveryPackage

`receipt` is the row of `delivery_operation_receipts` of a package id: its status,
owner, whether the lease lives, the phase, and the evidence of an abandoned
predecessor (`oldPhase`, `oldSpace`, `fenced`). `pc` is the thread of a request; its
steps are single file operations or transactions: bind the workspace, purge what a
predecessor left, build, zip, promote the directory, mark, promote the archive,
mark, publish, finish. `spaces` and `archives` are what lies in the workspaces,
`dir` and `zip` whose files the final names hold, `row`, `pointer` and `delivery` what
the episode and its reviewers see. `Lapse` ends a lease while its thread runs on,
`Crash` kills every thread, `Resume` is the recovery at startup. `overtaken` is history:
packages taken from a thread that still ran.

`version` is what a build and an approval are checked against, the adopted videos and the
verified storyboard release, if there is one. Four actions change it, as the code does:

- `Adopt`: an adoption, its withdrawal, the loss of a version. The packages are
  superseded in the same transaction (`artifacts.py:533`).
- `Rewrite`: `publish_storyboard` (`production/publish.py:465`) writes a new release,
  an edit of the storyboard ends the one there is, `delete_episode_shots`
  (`artifacts.py:250`) takes the videos away. Packages, pointer and status stay.
- `ClearDownstream`: a screenplay is published with `clear_downstream`
  (`production/publish.py:264`): release, pointer and status are reset, the packages stay.
- `Release`: the next release after one that ended (`production/revision.py:1908`).

`left` is history: how each package stood (waiting or approved) when the last of the
changes that retire nothing passed it by.

## 4. Properties and runs

Type correctness is proved where there are proofs (section 7), so the runs check
`TypeOK` only for CallGate, where it holds the bounds of the channel, and for
DeliveryPackage, where it holds the evidence that a purge relies on.

| run | instance | distinct states | asks |
|---|---|---|---|
| `safety` | VideoJob: 1 job, 2 workers, 2 tasks, 1 retry, 2 faults | 311 thousand | the safety invariants, leases, cancellation and stop, the inductive invariant, the refinement of PaidOperation |
| `live` | VideoJob: 1 task, no retry, 2 faults, no symmetry | 78 thousand | every owed poll is resolved |
| `cap` | VideoJob: 2 jobs, cap 1, 1 task, no fault | 43 thousand | the cap on submissions |
| `attempts` | 2 attempts of one shot, 2 passes, 2 periods, 1 pack | 1.7 million | slot, charges and refunds |
| `supervisor` | 1 shot, 3 runs, 2 starts of the user, 1 fault | 556 thousand | one supervisor, silence after a cancel, closeout, no completion left halfway |
| `receipt` | 4 requests (one with another reason, one dry run), 1 lapse | 294 thousand | one execution, own results, approvals |
| `payment` | 1 add-on, 2 orders of different tiers, 2 handlers, 1 fault | 167 thousand | delivery, and the refinement of Purchase |
| `call_gate` | 3 requests, limit up to 3, ceilings 1 and 3 | 78 thousand | slots, order, abort, every waiter leaves |
| `delivery` | 2 packages, 3 requests, 1 lapse, 1 crash, 1 change of the episode | 1.5 million | files, row, pointer and status agree |

The three runs that expect a violation are in section 6. Deadlock is never
checked: jobs, orders, commands and packages end, and the bounds stop the rest.

Bounds of VideoJob, and why they are enough:

- Two workers are the fewest for which a lease can have an old and a new owner.
- `MaxTasks = 2`, `MaxRetries = 1`: a job with a dead task and a second one is
  the smallest that can double a paid task or confuse old and new; a third task
  adds another round of the same rows.
- `MaxFaults`: expired leases of live workers, crashes, interrupted workers,
  pauses, lost replies, failed queries and unexpected errors, in any mixture. Two
  faults allow a fault in the recovery from a fault. Three, with one more in the
  resubmission that follows, hold as well (915 thousand states). Orphaned leases expire
  without being counted, and stop, resume and the sweeper are free.
- One job for all but `cap`: jobs share only the inflight count and the episode's
  pause and resume, and of those only the cap is a property of several jobs. That
  two jobs do not disturb each other otherwise is part of the proof (section 7).
- `SubmitWithinCap` is checked without faults, as its subject is the window
  between `can_admit_video_submit` and the claim of the slot, which two workers
  reach without any. With `MaxFaults = 1` it holds as well, in 4 million states.
- Stop is taken once, and once again after each resume.
- The worker names are interchangeable, and so are the jobs in `cap`; `live` uses
  no symmetry.

Bounds of the others:

- `attempts`: two attempts are what a slot can be contested by; a limit of one
  attempt and a half (`Limit = 3`, `Seconds = 2`) makes a charge straddle
  subscription and add-on; two periods let a refund fall into the next. Three
  attempts of two shots hold as well (3.6 million states).
- `supervisor`: a cancelled or crashed run, its continuation and one of the recovery or
  the watchdog need three rows. One shot is what a dispatch, an adoption and the stop
  contend for. Four rows hold as well (701 thousand states), and so do two shots for the
  safety properties (3.6 million).
- `receipt`: a request that replays, one that must not (other arguments), one that
  only asks, and the owner. One lapse gives the key a second life, in which
  requests of the first may still be late; restarts and damage are free.
- `payment`: an add-on and a tier order, since each is delivered by another branch, and
  an order of another tier, which is what a late delivery of the first can overwrite. Two
  faults, a crash in the delivery that follows a crash, hold as well (267 thousand states).
- `call_gate`: an interactive request outside the batch and two in it, of which one
  is in the background. A limit that falls from 3 to 1 under three requests is the
  smallest that shrinks below the occupancy. Four requests at a limit of 2 hold as
  well (910 thousand states).
- `delivery`: a package taken over once and resumed after a crash needs three
  requests; a second package is what the first can lose pointer and status to. One change is
  made, of any kind; the new release after one that ended is not counted. Two changes, without the new
  release, hold as well (7 million states).

What the properties of VideoJob say:

- `OneLiveTask`: never two paid tasks of a job at the provider.
- `NoPaidTaskForgotten`: a running task or an open request is always recorded on
  the jobs row, in the columns at which a new create is refused.
- `ClaimCoversTask`: nor is its amount back in the budget.
- `NoBlindRecreate`: a create is sent only if every earlier task is dead in the
  ledger and no earlier request can be accepted any more.
- `StoppedResultQuarantined`: while a stop stands, the result is not adopted, by
  no worker, sweeper, restart or pause.
- `CancelledStaysCancelled`, `StaleWorkerLeavesJob`: the CAS discipline of the
  jobs row, including the sweeper's blind recovery.
- `SubmitWithinCap`: only jobs that come back with a create they may already have
  paid for take the episode over its cap.
- `ImplementsPaidOperation`: the refinement. `PollOwedResolved`: section 5.

Of VideoAttempts:

- `OneSlotPerShot`: no two attempts of a shot hold the slot, though enqueue, retry,
  resume and reclaim test it in different places.
- `PeriodWithinLimit`, `AddonCovered`: no period is overdrawn or goes below zero,
  and the add-on pays no more than was granted. The balance in the code is cut at
  zero and would hide the latter.
- `AttemptIsPaid`: an attempt at work, or whose video was delivered, has been charged
  and not refunded, whatever a pass read before; attempts that came back after
  their end are excepted, since the code does refund those (section 6).

Of VideoSupervisor:

- `OneSupervisor`: a task or the watchdog at work is alone, and no other run owns
  the episode.
- `EndedRunIsSilent`: a run recorded as over works no more.
- `CloseoutStopsAll`: after a closeout no video job is active, whichever run dispatched
  it, but for those that the stop itself passed over: of shots that were adopted at that
  moment, and of those that could not be cancelled. A dispatch under way, an earlier
  attempt at the closeout, an adoption withdrawn afterwards add none.
- `HalfwaySettles`: no owned completion stays unfinished with nobody at work.

Of CommandReceipt: `ExecutedOnce` (one executes in a life of the key, as long as no
stored result became unreadable), `ReplaysOwnResult` (a result goes to requests with
its own arguments, and is one of a success), `ApprovalsOneShot`, `ResultsStay` (a
stored result lives to its TTL), `NoOrphanReceipt` (a running receipt has somebody at
work, or somebody who was cancelled).

Of PaymentOrder: `CreditedOnce`, `PaidBeforeDelivered`, `AckedOnlyDelivered` (the channel
gets its 2xx only for delivered goods: the notification is the retry),
`PaidIsDelivered` (section 5), `Settles` (the refinement of Purchase: the tier is written
by the settlement, by the expiry, and by nothing else but deliveries of the same order
that were under way when it was settled, once each. A notification, query or reconcile
round that comes later writes nothing).

Of CallGate: `SlotsCounted` (the count is that of the requests that own a slot),
`NoIdleSlot` (nobody queues beside a free slot), `AdmitsWithinLimit` (nobody is let in
above the limit of that moment), `NoOvertaking` (by priority, then arrival),
`NoStartAfterAbort` (a failed batch starts no further call), `EveryWaiterLeaves`.

Of DeliveryPackage: `FilesMatchRow` (a package with a row has exactly the files and the
archive of the thread that wrote the row, unless its lease was taken from a thread
that still ran), `OneCurrentApproval` (one approved package at most; a waiting or approved
one is of the videos and the release there are now, or stands exactly as the last change
left it that retires none), `EpisodeFollowsPackage` (the pointer and the status of the episode are the
package's).

## 5. Liveness and fairness

`PollOwedResolved`: a job that owes a poll and is in an active status comes to the
point where it owes none, or a human, a pause or a fence takes it. `FairSpec`
assumes weak fairness of

- the steps of each worker: the event loop runs every ready coroutine, and the
  calls to the provider have timeouts;
- a claim of each due job by some worker: the dispatcher and the retry timers
  offer it again and again (which worker takes it is left open);
- the expiry of a lease that nobody renews: time passes;
- the sweeper, which wakes every minute;
- the end of a running task: the provider's tasks end, or time out.

Faults, the user, a late acceptance and the supervisor owe nothing. Without
weak fairness of the sweeper a crash leaves a job `running` for ever.

`EveryWaiterLeaves` (CallGate) needs weak fairness of `Resume` and `Abandon`, which are
the event loop, and of `Finish`: each call reads its stream under the total timeout of
the request. It holds for background requests because requests are used once.

`PaidIsDelivered` (PaymentOrder) needs weak fairness of a handler's own steps and strong
fairness of `Notify`: the channel repeats the notification until it is
acknowledged, though the handlers may be busy now and then. The reconcile round has
no fairness, as no startup code registers `payment_reconcile_loop`.

`HalfwaySettles` (VideoSupervisor) needs weak fairness of the task's steps, the
watchdog (two looks a minute at every episode), the cancelled task and its waiter
and the deadline, and strong fairness of the tick's decision: it dispatches for
finitely many shots, so the loop does not go round its inner phases for ever.

DeliveryPackage assumes weak fairness of a thread's steps and of the one resume of
each paused run at startup; only the violated property of section 6 uses it.

Refunds have no fairness: the sweep looks only at episodes in `generating`, and
`job.cancel` starts no pass, so the code does not promise that one comes.

## 6. Where the code and its documents part

Each of these runs checks one statement of the repository and TLC finds a
behaviour of the code that violates it. PROJECT.json quotes the sentences.

| run | statement | what happens |
|---|---|---|
| `stopcreate` | after a stop the original task is only polled | the task of the isolated job fails, the job is retried and makes a new paid create |
| `pause` | pausing an episode is reversible (`media_exec/enqueue.py:129`) | the pause also takes attempts that had given their slot back; beside a newer attempt of the shot, the one UPDATE of the resume violates `uq_jobs_active_video_shot` and nothing of the episode is resumed, ever |
| `resume` | builds whose client connection died on a restart are resumed (`orchestration/api.py:1564`) | the recovery computes another request fingerprint than the handler, so the claim refuses the interrupted receipt |

Smaller disagreements, and behaviour a reader may not expect, met while
modelling. The models contain the behaviour unless section 8 says otherwise; no
property is violated by it, because it is not excluded or is excepted in the
property by name.

The paid job:

- `release_provider_poll` (`job_state.py:317`) unbinds the version's task and marks the
  ledger before the lease is asked for, also under a new owner. The safety theorems
  hold all the same: the owner keeps the task it works on in its locals.
- Pause and resume of the episode give a stopped shot its slot back, and its result is
  adopted (`enqueue.py:302`).
- `request_cancel` refuses the paused job that `stop_shot_video_tasks` has listed
  (`media_scheduler.py:189`).
- A job whose reservation was settled while it waited for a human is resumed and creates
  without one; a job stopped in the queue has no operation id yet and keeps its
  reservation (`media_scheduler.py:321`); a crash between `_set_job` and
  `settle_budget` leaves a finished job with an open one.
- The adoption asks for no lease (`run_job_steps.py:396`), so the result of a paused
  episode is written to the shot.
- The worker's start fence runs before the accepted task is looked up and fails a job
  that owes a poll (`run_job.py:222`).
- A refused create releases the claim whatever its status (`run_job.py:563`); an authority
  check that fails on a settled claim raises LeaseLost and leaves slot and lease
  (`authority.py:36`); a crash between result and adoption, with a failed download after
  it, leads to a second paid create (`checkpoints.py:198`).

Attempts and seconds:

- `reconcile_video_seconds_refunds` says that the time of the call does not matter
  (`quota.py:530`). A delivered video left to a person has neither slot nor succeeded
  version: it is refunded, and nobody charges it again when the person adopts it.
- A version that went stale after its delivery is refunded. An attempt cancelled in
  an episode that is not `generating` may never be (`job_recovery.py:479`).
- `retry_job` and the resume of an episode do not ask `check_module_concurrency`.

The supervisor:

- The recovery from an exception drops the latest checkpoint, with its dispatch fence,
  when it is another run's (`resilience.py:98`).
- `cancel_run` of a video completion cancels whatever task the episode has, also when the
  run named is waiting and another one owns it (`orchestration/api.py:196`); the
  screenplay branch below it forbids that.
- A crash between the terminal checkpoint and the release leaves owner and mode on a
  completion that is over. A crash before the first checkpoint of a new run resumes
  the old one's. A user's pause does not survive a restart. A handoff without a task
  overwrites a terminal checkpoint.
- The stop of a closeout selects only jobs of shots without an adopted version
  (`job_control.py:117`), where its docstring speaks of all jobs that are active and the
  closeout's of stopping the tasks (`closeout.py:29`). An older candidate may be adopted while
  a retake of the shot is in flight: the paid retake survives the closeout and is
  cancelled, as an orphan, only when its result comes in (`run_job_steps.py:99`).
  `CloseoutStopsAll` excepts it.
- `cancel_run` (`orchestration/api.py:216`) and a publication clear the column of a pause or
  handoff, not the dictionary of the process (`video_control.py:31`): a request that was
  meant for a run that is gone may stop the first tick of the next.

Receipts:

- `claim` commits before it deletes an unreadable result, and deletes by the key
  alone (`idempotency.py:133`): two requests that read it both execute.
  `ExecutedOnce` excepts it.
- A cancelled request leaves its running receipt until the TTL or a restart. The restart of one
  instance deletes the running receipts of a second live one (`db.py:2851`).

Payments:

- Nothing starts `payment_reconcile_loop` (`reconcile.py:95`), and nothing sets an order
  to `closed`.
- The delivery of a tier order is a plain UPDATE of the user's tier (`fulfillment.py:41`), and
  nothing compares it with the tier there is: of two paid orders the later delivery wins,
  also when it is the lower tier, while `models.py:21` says that no downgrade happens by a
  payment. TLC shows it with two tier orders and `[][tier' >= tier]_tier`.
- The delivery is called idempotent (`fulfillment.py:12`), because writing a tier twice is as
  good as once. It is not when two processes have both read the order as paid: the second
  delivery may come after another order has been delivered, or after the tier has expired,
  and puts the account back to the older tier, while its order was settled long ago.
  `Settles` allows exactly these late deliveries (`CatchUp` of Purchase).

Delivery:

- A claim treats a failed predecessor like one that a restart interrupted, as proof that
  its files may be purged (`delivery.py:135`). After an expired lease, its thread may
  still run: `FilesMatchRow` excepts packages taken over so.
- A new draft takes the pointer from an approved package.
- Only an adoption and what undoes one retire packages. Publishing the storyboard
  (`production/publish.py:465`), editing it, deleting its shots (`artifacts.py:250`), and
  publishing the screenplay with `clear_downstream` (`production/publish.py:264`) change what
  a package was built from and leave it approved or waiting, the last with the pointer
  reset. The comment at `artifacts.py:182` says of a clearing of videos why that should not
  be: an approved package that stays current lets a stale release be downloaded. A waiting
  one cannot be approved any more, as the approval looks at the authority again.
  `OneCurrentApproval` excepts what such a change has left, and nothing else.

## 7. Proofs

All theorems are for every value of the constants that satisfies the module's
assumption. Those are weak: bounds are natural numbers, limits and the cap are positive,
the null value is not a member, the jobs of an episode, requests of a gate and attempts
of an account are finite sets (rows of a table, calls of a process); `ReceiptAssumption` says that equal fingerprints come from equal arguments.

### VideoJob

- `TypeCorrect`: `Spec => []TypeOK`. Lemmas type the row operators, then the
  actions in groups by phase.
- `Safe`: `Spec => []SafetyInv`, the inductive invariant.
- `LiveTaskIsSingle`, `PaidTaskIsRemembered`, `ClaimIsKept`: the three safety
  invariants, from `Safe`.
- `NoCreateIsRepeated`: `Spec => NoBlindRecreate`, from `Safe`: a worker at the
  slot is the only one and nothing of an earlier task is left but dead rows.
- `StaleWorkerIsFenced`: `Spec => StaleWorkerLeavesJob`. Every handler asks for the
  lease before it writes the row, or writes it by an UPDATE that does
  (`OnlyTheOwnerWrites`, one case per handler).
- `StoppedHasNoSlot` (`StopInv`) and from it `StoppedIsNotAdopted`:
  `Spec => StoppedResultQuarantined`.
- `CapIsKept`: `Spec => SubmitWithinCap`, from `Safe` and `AcceptInv`
  (`AcceptanceIsHeld`), for any number of jobs.
- `JobImplementsPaidOperation`: `Spec => ImplementsPaidOperation`, the refinement, from
  `Safe`; and by it `JobKeepsThePromise`: what PaidOperation promises holds of the job.
- `CancellationIsFinal`: `Spec => CancelledStaysCancelled`, from the invariant
  `CancelInv` (`CancelledIsFree`): a row whose cancellation is recorded has no lease
  owner and one of the two statuses, so no worker owns it and no scan lists it.
  Without it a handler fenced by `lease_owner` alone might still write.

Why a strengthening is needed: `OneLiveTask` says nothing of the moment before,
when a worker with an expired lease may still send, a task may be in the call log
and not on the version, or a late request may be accepted. A task leaves traces:
it runs, it is logged, it is on the version, or its reply was lost. `Bound(j)` is
the set of tasks with a trace, and `SafetyInv` has for each job

- `OneBound`: all traces are of one task, and then the row says so;
- `OneSubmission`: if a worker holds the slot or sends, it is the only one, and
  there are no traces but of the task it has been given;
- `LateAlone`: a request nobody waits for excludes any trace;
- `OwnerHasTheTask`: the lease owner past the submission works on that task, so
  that it unbinds no task but the dead one;
- `KnowsItsTask`: what a worker carries was logged, and what it downloads has
  been finished by the provider;
- `ClaimHeld`: the amount is in the ledger from the slot on.

The argument: most actions are *calm*: they add no trace, send nothing and clear
no protecting column, and a calm step keeps every part (`CalmStep`). Workers'
actions and events are local to one job, and a job they do not touch takes a calm
step (`WorkerLocal`, `EventLocal`, `LocalCalm`). That leaves the steps that are
not calm, one lemma each: the slot is claimed or given back, the request is sent,
accepted in time or late, answered and logged, the acceptance committed, the
result ready, the task unbound, the worker gives up; and pause, resume and crash,
which are about all jobs at once.

The stop: a commit looks at the slot, not at the stop, so that the property alone is not
inductive. `StopInv` says that a stopped shot has neither slot nor succeeded version;
every step but the resumption of the episode keeps both (`NoSlotNoResult`), and the
resumption ends the stop.

The cap: `ClaimSlot` counts and takes the room in one transaction, so that it is within
the cap by itself (`RoomForOne`, from the cardinality theorems). What is to prove is that
nothing else makes a job count: it counts if it is non-cancellable and active, so the one
other suspect is the commit of an acceptance, which sets the flag. By `AcceptInv` whoever
commits with the lease finds the flag set: it has loaded a bound task, or was the one to
claim the slot. All other steps leave the lease alone or end the submission
(`NotSubmitted`), or are about jobs whose create may be paid, which the property excepts.

The refinement: the abstract state is three sets of jobs, so a step is allowed if it
makes an abstract move at one job (`PaidMove`: hold, release, submit, accept, refuse,
finish or nothing) and leaves the others `Untouched` (`MoveIsAllowed`). Sending needs
`OneSubmission` and `ClaimHeld`, every answer `OneSubmission` (a job has one request, of a
worker or late), the end of a task `OneBound` (no other is left), and a release that
nothing is at stake (`NothingAtStake`: an unprotected row has no request and no task).
Steps by which the provider neither hears nor says anything
(`Speechless`) move at most the claim.

### VideoAttempts

`ShotsHaveOneSlot`, `PassesRefundTheLost` (`AttemptIsPaid`), `PeriodsKeepTheLimit` and
`AddonIsCovered` follow from `IInv`. What a pass has
read is older than the rows when it refunds, so the invariant must say what stays true
of it: by `LostStaysLost` every attempt that a pass has found, or that is refunded,
has a row and is either without slot and usable video, or in `reopened`. `Born` says that
an attempt without a row has neither slot nor version, and one with a row has been
charged.

The two sums need `Booked`: an attempt without a row has been charged nothing, and a
refund is booked in the period of its charge. The provers have no induction over data, so
a recursive sum is out of their reach; the ledger therefore counts seconds as the
elements of a set (`SubUnits`, `AddonUnits`: one pair of attempt and second each), and the
cardinality theorems of the library do the rest: a birth adds as many elements
as it is charged (`OneMoreCharge`), which is no more than was left; a period's refunds
are a subset of its charges, so it is never below zero (`UsedBounds`); a refund only makes
the sums smaller (`SumsRefund`), in the running period or a past one.

### VideoSupervisor

`NobodyWorksBeside` (`OneSupervisor`) and `ACancelledRunHasLetGo` (`EndedRunIsSilent`) are
one invariant, `Alone`: neither is inductive without the other. The registry check of a
start sees every task, a cancelled one is in the registry until it has let go, and the
status of a run is written as ended only where its task is known to be gone or is the
writer. `ACloseoutStopsEveryJob` (`CloseoutStopsAll`) needs `ConcludesStopped`: what is active when
the closeout concludes was passed over by the stop, as no job comes up in between: the
fence in the checkpoint stands, an enqueue that had passed its check has ended, and an
adoption or its withdrawal starts nothing; and no enqueue is under way on a closed checkpoint.

### CommandReceipt

`CommandsExecuteOnce`, `ReplaysAreOwn`, `ApprovalIsOneShot`, `ReceiptsAreSettled` and
`ResultsAreKept` follow from `IInv`: `OwnerInv` (of the requests that claimed in this life of
the key, whoever works or has succeeded owns the live row, and a request about to
release has not succeeded or owns it no more), `ResultInv` (what is stored, or about to be,
is of a success or a dry run) and `ApprovalInv` (an approval that a request consumed is
used, is for its arguments, and no other request's). `NoOrphanReceipt` is part of
`OwnerInv`; a cancelled owner (`lost`) is the one case in which the row says running and
nobody is. `damaged` is there because an unreadable result breaks the ownership.

### PaymentOrder

`CreditIsOnce`, `DeliveredIsPaid` (`PaidBeforeDelivered`), `AckMeansDelivered`
(`AckedOnlyDelivered`) and `OrdersOnlyGoForward` follow from those properties and `HandlerInv`, which
says what a handler knows at each point: that the channel has confirmed the amount,
that the order is at least paid. Two handlers in `deliver` are harmless since the grant
is inserted only by the one that moves the status. `OrdersSettleOnce` is the refinement:
initial states map to initial states; `Deliver` of an order that is still paid is `Settle`,
which overtakes the other handlers at `deliver` with the same order (`Late`); `Deliver` of a
fulfilled one is a late delivery, `CatchUp`, and so are the failure and the crash of such a
handler, which give up; `Pay` and `Expire` are themselves, and all else stutters: no other
step brings a handler behind (`NotLate`) or back (`LateStays`), since `ReadOrder` lets only an
order pass that is not fulfilled. It holds for any tiers on sale.

### CallGate

`SlotsAreCounted`, `NobodyQueuesBesideAFreeSlot`, `AdmissionRespectsTheLimit`,
`AdmissionKeepsTheOrder` and `AbortStopsTheBatch` follow from `GateInv` (types, the count, who is
in the heap) and `ChannelInv` (the channel stays between one and its ceiling). The count is an
equation between a number and a cardinality, so the lemmas say how the set of
slot owners changes by one, or by as many as are woken. The stronger form that carries
`NoIdleSlot`: while the heap is not empty, cancelled futures included, the gate is full. A
waiting request is always in the heap (`WaitersQueued`).

### DeliveryPackage

`TypeCorrect` needs two facts besides the types: a thread has its package from its
claim on (`TargetKnown`), and a receipt whose phase has moved has had an owner
(`PhaseOwned`), so that what the next claim keeps as evidence names a workspace.
`OneApprovalAndCurrent` and `EpisodeAndPackageAgree` are one invariant, `EpisodeInv`. A
publication and an approval compare with the authority of their own transaction
(`Publish`, `Verified`), an adoption leaves nothing standing, and every other change of
the authority records how it left the packages; a package that is approved leaves the
status it was left in, so it must be current.
`RowHasItsFiles` (`FilesMatchRow`) needs `FilesInv`: while no lease was taken from
a thread that still ran, at most one thread works on a package; if the package has its
row that thread only replays it, so that it never reaches the purge or a rename; and
between a rename and the row the final names hold the thread's own files. A step of
a thread of another package, a review, an adoption, an expired lease and a restart leave
a package `Still`; the steps of its own thread are one case each. Once a package is in
`overtaken` nothing of this holds, and the property does not claim it.

### Only model-checked

The four liveness properties, `PollOwedResolved`, `PaidIsDelivered`, `EveryWaiterLeaves` and
`HalfwaySettles`: weak fairness is defined by ENABLED, which the prover does not
support. And the violations of section 6. Every other property of a run that passes is
stated by a theorem. That the choices VideoAttempts makes for a worker are steps of
VideoJob (section 2) is neither checked nor proved.

## 8. What is not modelled, and why

Within the paid job: the error of a missing budget table and the loop's generic
error while a job is loaded (both end in statuses that other actions reach);
preflight statuses (no provider call); the projection onto runs and steps;
`reconcile_stalled_video_jobs`, `converge_stuck_cancelled_queued_jobs`, orphaned
continuity jobs, candidate and unresolved-create recovery; startup repair migrations
of `db.py`. Manual retry, quarantine release and adoption by a person are in
VideoAttempts as the slot and the charge see them, the supervisor's stop of jobs in
VideoSupervisor as the closeout sees it. All these write rows of VideoJob, so its
theorems are about a pipeline in which nobody uses them.

Within the others:

- VideoAttempts: the preflight's checks of inputs and references, the reuse of an
  equivalent version, the counters of tokens, images and storage.
- VideoSupervisor: the coverage ledger and the repair plans (what a tick decides is a
  choice), the repair endpoint, `stop_all` of the registry. A job that the user has paused
  is not active and the stop passes it over; the user's resume of the episode's jobs
  (`enqueue.py:302`) sets it going again outside of any completion. `save_checkpoint` skips a
  write that repeats the phase, which changes nothing the properties look at.
- CommandReceipt: the synchronous twin of the pipeline, authorisation, lock errors of
  the database, and the handlers.
- PaymentOrder: the channels and their signatures (external), and an administrator's change
  of the tier (`auth/admin_api.py:184`).
- CallGate: the image semaphores, which are rebuilt on a resize, the wait for the machine's
  watermark, and the latency verdict of videos.
- DeliveryPackage: the clearing of a storyboard, which deletes the rows and the directories
  of its packages (`domain/storyboard_ops/clear_apply.py:122`), `_recover_orphan_delivery_package` (an artifact without a row, which this
  version does not write, as both are one transaction), the receipt of an approval,
  and the contents of the files.

Amounts, prompts, references and the contents of a video are data: of a budget
only the state of its row is kept, of a plan only whether it is stale, of a
result only whether it exists; seconds are kept, as they are added. Times are
abstract: a lease expires, a retry is due, a wait is too long, at any moment.

The other components are listed with their reasons in PROJECT.json: planned ones
name their module; text generation, images, voice, transport and reporting compute
data or only carry it, and have no protocol of their own.
