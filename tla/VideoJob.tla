------------------------------ MODULE VideoJob ------------------------------
(***************************************************************************)
(* The paid video job of app/media_exec: one row of jobs with its          *)
(* shot_versions row, its provider_video_budget_claims row, its            *)
(* budget_reservations row and the video_create rows of provider_calls;    *)
(* the asyncio workers that lease it and run _run_job; the sweeper, the    *)
(* restart, the user's stop, pause and resume; and the provider, which is  *)
(* external.  Every SQLite transaction is one step; a worker's program     *)
(* counter is the await at which it is suspended.                          *)
(***************************************************************************)
EXTENDS Integers, FiniteSets

CONSTANTS
    Jobs,         \* the video jobs of one episode, one per shot
    Workers,      \* the worker names, which are the lease owners
    None,         \* lease_owner IS NULL; the job of an idle worker
    MaxTasks,     \* bound: provider tasks that one job may ever create
    MaxRetries,   \* jobs.max_retries
    InflightCap,  \* episode_inflight_cap()
    MaxFaults     \* bound: expired leases, crashes, shutdowns, lost replies

ASSUME VideoJobAssumption ==
    /\ None \notin Workers \cup Jobs
    /\ IsFiniteSet(Jobs)
    /\ MaxTasks \in Nat
    /\ MaxRetries \in Nat
    /\ InflightCap \in Nat \ {0}
    /\ MaxFaults \in Nat

VARIABLES
    job,      \* the jobs rows
    version,  \* the shot_versions rows, one per job
    claim,    \* provider_video_budget_claims.status of the job's operation
    reserve,  \* budget_reservations.status
    calls,    \* provider_calls: the OK video_create row of each provider task
    tasks,    \* external: the provider's own view of each paid task
    late,     \* external: the jobs with a create that nobody waits for any
              \* more and that the provider may still accept
    adopted,  \* shots.adopted_version_id is this version
    worker,   \* the workers' local state at their current await
    swept,    \* the ids the sweeper or the startup scan has selected
    stopped,  \* history: the user's stop was done or "refused"; "resumed" after
    faults    \* counts what MaxFaults bounds

vars == <<job, version, claim, reserve, calls, tasks, late, adopted, worker,
          swept, stopped, faults>>

rows == <<job, version, claim, reserve, calls, adopted>>

provider == <<tasks, late>>

Tasks  == 1 .. MaxTasks
NoTask == 0

JobStatus == {"queued", "running", "waiting_provider", "waiting_human",
              "paused", "succeeded", "failed", "cancelled", "abandoned",
              "stale"}
VersionStatus == JobStatus \cup {"quarantined"}
CreateState == {"not_started", "submitting", "unknown", "accepted",
                "model_rejected"}
ClaimStatus == {"none", "reserved", "accepted", "settled", "released"}
ReserveStatus == {"reserved", "running", "settled", "released"}
CallStatus == {"none", "OK", "TASK_FAILED"}
TaskStatus == {"none", "running", "succeeded", "failed"}

\* The statuses the dispatcher, the sweeper and the restart scan look for.
ActiveStatus == {"queued", "running", "waiting_provider"}

\* The awaits of _run_job; "settle" stands between two commits of one handler.
Await == {"load", "prepare", "submit", "slot", "sending", "accept", "poll",
          "fetch", "qa", "adopt"}
PC == Await \cup {"idle", "settle"}

IdleWorker == [pc |-> "idle", job |-> None, task |-> NoTask,
               recovery |-> FALSE, fresh |-> FALSE, pay |-> "released"]

\* operation: provider_operation_id is set.
JobRow == [status: JobStatus, leaseOwner: Workers \cup {None},
           leaseExpired: BOOLEAN, cancelRequested: BOOLEAN, slotActive: BOOLEAN,
           createState: CreateState, operation: BOOLEAN, nonCancellable: BOOLEAN,
           pollRequired: BOOLEAN, resultAdoptable: BOOLEAN,
           retryCount: 0 .. MaxRetries]

\* produced: video_path is set.
VersionRow == [status: VersionStatus, task: Tasks \cup {NoTask},
               produced: BOOLEAN]

WorkerState == [pc: PC, job: Jobs \cup {None}, task: Tasks \cup {NoTask},
                recovery: BOOLEAN, fresh: BOOLEAN, pay: {"settled", "released"}]

TypeOK ==
    /\ job \in [Jobs -> JobRow]
    /\ version \in [Jobs -> VersionRow]
    /\ claim \in [Jobs -> ClaimStatus]
    /\ reserve \in [Jobs -> ReserveStatus]
    /\ calls \in [Jobs -> [Tasks -> CallStatus]]
    /\ tasks \in [Jobs -> [Tasks -> TaskStatus]]
    /\ late \in SUBSET Jobs
    /\ adopted \in [Jobs -> BOOLEAN]
    /\ worker \in [Workers -> WorkerState]
    /\ swept \in SUBSET Jobs
    /\ stopped \in [Jobs -> {"no", "stopped", "refused", "resumed"}]
    /\ faults \in 0 .. MaxFaults

Init ==
    /\ job = [j \in Jobs |->
                [status |-> "queued", leaseOwner |-> None,
                 leaseExpired |-> FALSE, cancelRequested |-> FALSE,
                 slotActive |-> TRUE, createState |-> "not_started",
                 operation |-> FALSE, nonCancellable |-> FALSE,
                 pollRequired |-> FALSE, resultAdoptable |-> TRUE, retryCount |-> 0]]
    /\ version = [j \in Jobs |-> [status |-> "queued", task |-> NoTask,
                                  produced |-> FALSE]]
    /\ claim = [j \in Jobs |-> "none"]
    /\ reserve = [j \in Jobs |-> "reserved"]
    /\ calls = [j \in Jobs |-> [t \in Tasks |-> "none"]]
    /\ tasks = [j \in Jobs |-> [t \in Tasks |-> "none"]]
    /\ late = {}
    /\ adopted = [j \in Jobs |-> FALSE]
    /\ worker = [w \in Workers |-> IdleWorker]
    /\ swept = {}
    /\ stopped = [j \in Jobs |-> "no"]
    /\ faults = 0

-----------------------------------------------------------------------------
(* Rows and guards the operations share.                                    *)

\* The CAS guard of renew_lease and of every fenced UPDATE.
Owns(w, j) ==
    /\ job[j].status = "running"
    /\ job[j].leaseOwner = w
    /\ ~job[j].cancelRequested

At(w, pc, j) == worker[w].pc = pc /\ worker[w].job = j

Idle(w) == worker' = [worker EXCEPT ![w] = IdleWorker]

GoTo(w, pc) == worker' = [worker EXCEPT ![w].pc = pc]

\* _set_job has committed; settle_budget is a transaction of its own, which
\* needs nothing else of the worker's locals.
ThenSettle(w, pay) ==
    worker' = [worker EXCEPT ![w] = [IdleWorker EXCEPT !.pc = "settle",
                                                       !.job = worker[w].job,
                                                       !.pay = pay]]

\* w waits no longer for the reply to a create it has sent.
GiveUp(w, j) ==
    late' = IF At(w, "sending", j) /\ worker[w].task = NoTask
              THEN late \cup {j} ELSE late

Freed(r) == [r EXCEPT !.leaseOwner = None, !.leaseExpired = FALSE]

Renewed(r) == [r EXCEPT !.leaseExpired = FALSE]

\* Mutation: the lease owner is left in the ended row.
EndedWithLease(r, s) == [r EXCEPT !.status = s, !.slotActive = FALSE]

\* _set_job with a terminal status.
Ended(r, s) == [Freed(r) EXCEPT !.status = s, !.slotActive = FALSE]

\* release_provider_poll on the job's own row.
Unbound(r) == [r EXCEPT !.pollRequired = FALSE, !.resultAdoptable = FALSE,
                        !.createState = "not_started",
                        !.nonCancellable = FALSE]

\* Mutation: the ledger keeps the dead create.
CallsKept(j) == calls[j]

\* ... and on the ledger: every OK create of the operation becomes dead.
DeadCalls(j) ==
    [t \in Tasks |-> IF calls[j][t] = "OK" THEN "TASK_FAILED" ELSE calls[j][t]]

Unreserve(j) ==
    reserve' = [reserve EXCEPT ![j] = IF @ = "running" THEN "reserved" ELSE @]

\* The newest OK create that is not dead: _recover_paid_video_task.
Handle(j) ==
    LET newest == {t \in Tasks : /\ calls[j][t] = "OK"
                                 /\ \A u \in Tasks : calls[j][u] = "OK" => u <= t}
    IN  IF newest = {} THEN NoTask ELSE CHOOSE t \in newest : TRUE

MayHaveAccepted(r) ==
    r.nonCancellable \/ r.createState \in {"submitting", "unknown", "accepted"}

\* The jobs that count_inflight counts against the caps.
Inflight == {j \in Jobs : /\ job[j].status \in {"running", "waiting_provider"}
                          /\ job[j].nonCancellable
                          /\ ~job[j].cancelRequested}

\* Mutation: the caps were looked at by can_admit_video_submit, before an await.
RoomNotCounted == TRUE

HasRoom == Cardinality(Inflight) < InflightCap

\* Mutation: a claim row that exists is taken as it is, a released one too.
BilledOnce(c) == IF c = "none" THEN "reserved" ELSE c

\* reserve_provider_video_budget: the claim row is upserted.
Billed(c) == IF c \in {"none", "released"} THEN "reserved" ELSE c

Fault == faults < MaxFaults /\ faults' = faults + 1

-----------------------------------------------------------------------------
(* Claim, load and the steps before the provider is called.                 *)

\* claim_job: a due job, or a running one whose lease has expired.
Claim(w, j) ==
    /\ worker[w].pc = "idle"
    /\ ~job[j].cancelRequested
    /\ \/ job[j].status \in {"queued", "waiting_provider"}
       \/ job[j].status = "running" /\ job[j].leaseExpired
    /\ job' = [job EXCEPT ![j].status = "running", ![j].leaseOwner = w,
                          ![j].leaseExpired = FALSE]
    /\ reserve' = [reserve EXCEPT ![j] = IF @ = "reserved" THEN "running" ELSE @]
    /\ worker' = [worker EXCEPT ![w] = [IdleWorker EXCEPT !.pc = "load",
                                                          !.job = j]]
    /\ UNCHANGED <<version, claim, calls, provider, adopted, swept, stopped, faults>>

\* An await is followed by a check of the lease; after "slot" and "adopt" it is
\* the UPDATE of a failed check that finds the lease gone.
LeaseLost(w, j) ==
    /\ worker[w].pc \in Await
    /\ worker[w].job = j
    /\ ~Owns(w, j)
    /\ GiveUp(w, j)
    /\ Idle(w)
    /\ UNCHANGED <<rows, tasks, swept, stopped, faults>>

RecoveryOnly(j) ==
    job[j].pollRequired /\ ~(job[j].slotActive /\ job[j].resultAdoptable)

KnownTask(j) == IF version[j].task # NoTask THEN version[j].task ELSE Handle(j)

\* The job has a provider task, or provably none: go on.
Load(w, j) ==
    /\ At(w, "load", j)
    /\ Owns(w, j)
    /\ KnownTask(j) # NoTask \/ ~MayHaveAccepted(job[j])
    /\ worker' = [worker EXCEPT ![w] = [@ EXCEPT
                    !.pc = IF KnownTask(j) # NoTask THEN "accept" ELSE "prepare",
                    !.task = KnownTask(j),
                    !.recovery = RecoveryOnly(j)]]
    /\ UNCHANGED <<rows, provider, swept, stopped, faults>>

\* _commit_provider_create_unresolved: a human must look at the provider.
HandOver(w, j, r) ==
    /\ job' = [job EXCEPT ![j] = Ended(r, "waiting_human")]
    /\ version' = [version EXCEPT ![j].status = "waiting_human"]
    /\ Unreserve(j)
    /\ Idle(w)
    /\ UNCHANGED <<claim, calls, adopted>>

\* A create may have been accepted and no task id is known: no second create.
LoadUnresolved(w, j) ==
    /\ At(w, "load", j)
    /\ Owns(w, j)
    /\ KnownTask(j) = NoTask /\ MayHaveAccepted(job[j])
    /\ HandOver(w, j, job[j])
    /\ UNCHANGED <<provider, swept, stopped, faults>>

\* The review dependency snapshot is stale: _handle_review_dependency_fence.
ReviewFence(w, j) ==
    /\ \/ At(w, "load", j) /\ ~RecoveryOnly(j)
       \/ At(w, "prepare", j) \/ At(w, "submit", j)
       \/ At(w, "poll", j) /\ ~worker[w].fresh /\ ~worker[w].recovery
    /\ Owns(w, j)
    /\ job' = [job EXCEPT ![j] = Ended(@, "failed")]
    /\ version' = [version EXCEPT ![j].status = "failed"]
    /\ ThenSettle(w, "released")
    /\ UNCHANGED <<claim, reserve, calls, provider, adopted, swept, stopped, faults>>

Heartbeat(w, j) ==
    /\ At(w, "prepare", j)
    /\ Owns(w, j) /\ job[j].leaseExpired
    /\ job' = [job EXCEPT ![j] = Renewed(@)]
    /\ UNCHANGED <<version, claim, reserve, calls, provider, adopted, worker, swept,
                   stopped, faults>>

\* Mutation: the UPDATE has no "AND lease_owner=?".
DeferUnfenced(w, j) ==
    /\ At(w, "prepare", j)
    /\ job' = [job EXCEPT ![j] = [Freed(@) EXCEPT !.status = "queued"]]
    /\ Unreserve(j)
    /\ Idle(w)
    /\ UNCHANGED <<version, claim, calls, provider, adopted, swept, stopped, faults>>

\* defer_job_with_wait: the continuity anchor or the admission quota is not
\* there.  The reservation is given back even when the lease is gone.
Defer(w, j) ==
    /\ At(w, "prepare", j)
    /\ \E s \in {"queued", "waiting_human"} :
         job' = IF job[j].leaseOwner = w
                  THEN [job EXCEPT ![j] = [Freed(@) EXCEPT !.status = s]]
                  ELSE job
    /\ Unreserve(j)
    /\ Idle(w)
    /\ UNCHANGED <<version, claim, calls, provider, adopted, swept, stopped, faults>>

\* _handle_video_input_repair_required.
InputRepair(w, j) ==
    /\ At(w, "prepare", j)
    /\ Owns(w, j)
    /\ job' = [job EXCEPT ![j] = Ended(@, "waiting_human")]
    /\ version' = [version EXCEPT ![j].status = "waiting_human"]
    /\ ThenSettle(w, "released")
    /\ UNCHANGED <<claim, reserve, calls, provider, adopted, swept, stopped, faults>>

\* _handle_video_plan_stale: "stale" is no terminal status of _set_job, the
\* row keeps its slot and its lease owner.
GoStale(w, j, r) ==
    /\ job' = [job EXCEPT ![j] = [r EXCEPT !.status = "stale"]]
    /\ version' = [version EXCEPT ![j].status = "stale"]
    /\ ThenSettle(w, "released")

PlanStale(w, j) ==
    /\ \/ At(w, "prepare", j) \/ At(w, "submit", j)
       \/ At(w, "poll", j) /\ worker[w].fresh
       \/ At(w, "fetch", j) /\ ~worker[w].recovery
    /\ Owns(w, j)
    /\ GoStale(w, j, job[j])
    /\ UNCHANGED <<claim, reserve, calls, provider, adopted, swept, stopped, faults>>

-----------------------------------------------------------------------------
(* The error handler of _run_job, on the row r and the version row v that   *)
(* the step has already written.                                            *)

PollPending(w, r) == worker[w].task # NoTask /\ r.pollRequired

MayRetry(r) == r.retryCount < MaxRetries

\* _schedule_job_retry and the version update after it.
Retry(w, j, r, v) ==
    /\ MayRetry(r)
    /\ job' = [job EXCEPT ![j] = [Freed(r) EXCEPT !.status = "queued",
                                                  !.retryCount = @ + 1]]
    /\ version' = [version EXCEPT ![j] = [v EXCEPT !.status = "queued"]]
    /\ Unreserve(j)
    /\ Idle(w)

\* _finalize_provider_final_status: a task still owed a poll keeps its money.
Finish(w, j, r, v, s) ==
    /\ job' = [job EXCEPT ![j] = Ended(r, s)]
    /\ version' = [version EXCEPT ![j] = [v EXCEPT !.status = s]]
    /\ IF PollPending(w, r)
         THEN Unreserve(j) /\ Idle(w)
         ELSE UNCHANGED reserve /\ ThenSettle(w, "released")

RetryOrHandOver(w, j, r, v) ==
    \/ Retry(w, j, r, v)
    \/ ~MayRetry(r) /\ Finish(w, j, r, v, "waiting_human")

\* _defer_provider_poll.
DeferPoll(w, j) ==
    /\ job' = [job EXCEPT ![j] = [Freed(@) EXCEPT !.status = "waiting_provider"]]
    /\ Unreserve(j)
    /\ Idle(w)
    /\ UNCHANGED version

\* Preparing the inputs fails: a retryable, a manual or an unexpected error.
InputError(w, j) ==
    /\ At(w, "prepare", j)
    /\ Owns(w, j)
    /\ \/ RetryOrHandOver(w, j, job[j], version[j])
       \/ \E s \in {"waiting_human", "failed"} : Finish(w, j, job[j], version[j], s)
    /\ UNCHANGED <<claim, calls, provider, adopted, swept, stopped, faults>>

-----------------------------------------------------------------------------
(* The paid create.                                                          *)

MarkSubmitting(w, j) ==
    /\ At(w, "prepare", j)
    /\ Owns(w, j)
    /\ job' = [job EXCEPT ![j] = [Renewed(@) EXCEPT !.createState = "submitting",
                                                      !.operation = TRUE]]
    /\ GoTo(w, "submit")
    /\ UNCHANGED <<version, claim, reserve, calls, provider, adopted, swept, stopped,
                   faults>>

\* claim_video_submit_slot with room under the caps.
ClaimSlot(w, j) ==
    /\ At(w, "submit", j)
    /\ Owns(w, j)
    /\ ~job[j].nonCancellable
    /\ job[j].createState = "submitting"
    /\ HasRoom
    /\ claim' = [claim EXCEPT ![j] = Billed(@)]
    /\ job' = [job EXCEPT ![j] = [Renewed(@) EXCEPT !.nonCancellable = TRUE]]
    /\ GoTo(w, "slot")
    /\ UNCHANGED <<version, reserve, calls, provider, adopted, swept, stopped, faults>>

\* ... with none: _handle_admission_deferred.
SlotFull(w, j) ==
    /\ At(w, "submit", j)
    /\ Owns(w, j)
    /\ ~job[j].nonCancellable
    /\ ~HasRoom
    /\ job' = [job EXCEPT ![j] = [Freed(@) EXCEPT !.status = "queued",
                                                  !.createState = "not_started"]]
    /\ Unreserve(j)
    /\ Idle(w)
    /\ UNCHANGED <<version, claim, calls, provider, adopted, swept, stopped, faults>>

\* What _release_pre_call_video_claim asks for ...
BeforeTheCall(w, j) ==
    /\ At(w, "slot", j)
    /\ Owns(w, j)
    /\ job[j].createState = "submitting" /\ job[j].nonCancellable
    /\ claim[j] = "reserved"

\* ... and what it writes on the row.
Resubmittable(r) == [r EXCEPT !.nonCancellable = FALSE,
                              !.createState = "not_started"]

\* The last authority check fails, by its verdict or by an error of its own.
AuthorityStale(w, j) ==
    /\ BeforeTheCall(w, j)
    /\ claim' = [claim EXCEPT ![j] = "released"]
    /\ \/ GoStale(w, j, Resubmittable(job[j])) /\ UNCHANGED reserve
       \/ Finish(w, j, Resubmittable(job[j]), version[j], "failed")
    /\ UNCHANGED <<calls, provider, adopted, swept, stopped, faults>>

\* ... with a claim that an earlier result has settled: the release finds none
\* that is reserved, raises LeaseLost, and the row keeps slot and lease.
ReleaseRefused(w, j) ==
    /\ At(w, "slot", j)
    /\ Owns(w, j)
    /\ claim[j] # "reserved"
    /\ Idle(w)
    /\ UNCHANGED <<rows, provider, swept, stopped, faults>>

\* From here on the transport may have sent the request; no lease check.
Send(w, j) ==
    /\ At(w, "slot", j)
    /\ GoTo(w, "sending")
    /\ UNCHANGED <<rows, provider, swept, stopped, faults>>

\* External: the provider accepts a request and starts a paid task.
StartsTask(j, t) ==
    /\ tasks[j][t] = "none"
    /\ \A u \in Tasks : u < t => tasks[j][u] # "none"
    /\ tasks' = [tasks EXCEPT ![j][t] = "running"]

ProviderAccepts(w, j, t) ==
    /\ At(w, "sending", j)
    /\ worker[w].task = NoTask
    /\ StartsTask(j, t)
    /\ worker' = [worker EXCEPT ![w] = [@ EXCEPT !.task = t]]
    /\ UNCHANGED <<rows, late, swept, stopped, faults>>

\* External: ... a request whose sender has given up, died or lost the reply.
ProviderAcceptsLate(j, t) ==
    /\ j \in late
    /\ StartsTask(j, t)
    /\ late' = late \ {j}
    /\ UNCHANGED <<rows, worker, swept, stopped, faults>>

\* The reply is logged OK before create_video_task returns the task id.
ReplyAccepted(w, j) ==
    /\ At(w, "sending", j)
    /\ worker[w].task # NoTask
    /\ calls' = [calls EXCEPT ![j][worker[w].task] = "OK"]
    /\ worker' = [worker EXCEPT ![w] = [@ EXCEPT !.pc = "accept",
                                                         !.fresh = TRUE]]
    /\ UNCHANGED <<job, version, claim, reserve, provider, adopted, swept, stopped,
                   faults>>

\* The error proves that nothing was accepted: the claim is released.
ReplyRejected(w, j) ==
    /\ At(w, "sending", j)
    /\ worker[w].task = NoTask
    /\ Owns(w, j)
    /\ claim' = [claim EXCEPT ![j] = IF @ = "none" THEN @ ELSE "released"]
    /\ LET r == Resubmittable(job[j])
       IN \/ RetryOrHandOver(w, j, r, version[j])
          \/ Finish(w, j, r, version[j], "waiting_human")
          \/ \E c \in {"not_started", "model_rejected"} :
               Finish(w, j, [r EXCEPT !.createState = c], version[j], "failed")
    /\ UNCHANGED <<calls, provider, adopted, swept, stopped, faults>>

\* Mutation: an open outcome is recorded like a refusal.
UnknownAsRefused(r) == [r EXCEPT !.createState = "not_started",
                                 !.nonCancellable = FALSE]

Unknown(r) == [r EXCEPT !.createState = "unknown", !.nonCancellable = TRUE]

\* The error leaves the outcome open, accepted or not.
ReplyUnknown(w, j) ==
    /\ At(w, "sending", j)
    /\ Fault
    /\ Owns(w, j)
    /\ HandOver(w, j, Unknown(job[j]))
    /\ GiveUp(w, j)
    /\ UNCHANGED <<tasks, swept, stopped>>

\* _commit_provider_acceptance, for a new and for a recovered task.
CommitAcceptance(w, j) ==
    /\ At(w, "accept", j)
    /\ Owns(w, j)
    /\ job' = [job EXCEPT ![j] = [Renewed(@) EXCEPT
                 !.createState = "accepted", !.operation = TRUE,
                 !.nonCancellable = TRUE,
                 !.pollRequired = TRUE, !.resultAdoptable = TRUE]]
    /\ version' = [version EXCEPT ![j].task = worker[w].task,
                                  ![j].status = "running"]
    /\ claim' = [claim EXCEPT ![j] = IF @ \in {"settled", "released"}
                                       THEN @ ELSE "accepted"]
    /\ GoTo(w, "poll")
    /\ UNCHANGED <<reserve, calls, provider, adopted, swept, stopped, faults>>

\* select_best_video_candidate takes a version that has succeeded.
Selected(j) == [adopted EXCEPT ![j] = @ \/ version[j].status = "succeeded"]

\* An exception that is no ProviderError (SQLite stays locked, a file is gone):
\* a task that is owed a poll is polled again, any other job fails.
UnexpectedError(w, j) ==
    /\ worker[w].pc \in {"submit", "sending", "accept", "fetch", "adopt"}
    /\ worker[w].job = j
    /\ Fault
    /\ Owns(w, j)
    /\ IF PollPending(w, job[j])
         THEN DeferPoll(w, j)
         ELSE Finish(w, j, job[j], version[j], "failed")
    /\ GiveUp(w, j)
    /\ adopted' \in {adopted, IF At(w, "adopt", j) THEN Selected(j) ELSE adopted}
    /\ UNCHANGED <<claim, calls, tasks, swept, stopped>>

-----------------------------------------------------------------------------
(* Poll, download, checkpoint and adoption.                                  *)

\* External: a running task ends.
ProviderFinishes(j, t) ==
    /\ tasks[j][t] = "running"
    /\ \E s \in {"succeeded", "failed"} : tasks' = [tasks EXCEPT ![j][t] = s]
    /\ UNCHANGED <<rows, late, worker, swept, stopped, faults>>

Polled(w, j, s) ==
    /\ At(w, "poll", j)
    /\ Owns(w, j)
    /\ tasks[j][worker[w].task] = s

PollRunning(w, j) ==
    /\ Polled(w, j, "running")
    /\ DeferPoll(w, j)
    /\ UNCHANGED <<claim, calls, provider, adopted, swept, stopped, faults>>

\* The query itself fails with a retryable error, whatever the task does.
PollError(w, j) ==
    /\ At(w, "poll", j)
    /\ Fault
    /\ Owns(w, j)
    /\ DeferPoll(w, j)
    /\ UNCHANGED <<claim, calls, provider, adopted, swept, stopped>>

\* Mutation: a task that takes too long is replaced by a new one.
PollTimeoutRecreates(w, j) ==
    /\ Polled(w, j, "running")
    /\ calls' = [calls EXCEPT ![j] = DeadCalls(j)]
    /\ RetryOrHandOver(w, j, Unbound(job[j]), [version[j] EXCEPT !.task = NoTask])
    /\ UNCHANGED <<claim, provider, adopted, swept, stopped, faults>>

\* The task has run longer than VIDEO_PROVIDER_MAX_WAIT.
PollTimeout(w, j) ==
    /\ Polled(w, j, "running")
    /\ Finish(w, j, job[j], version[j], "waiting_human")
    /\ UNCHANGED <<claim, calls, provider, adopted, swept, stopped, faults>>

\* A technical failure unbinds the task (settle_terminal_poll_failure) and
\* retries with a new one.
PollFailed(w, j) ==
    /\ Polled(w, j, "failed")
    /\ calls' = [calls EXCEPT ![j] = DeadCalls(j)]
    /\ RetryOrHandOver(w, j, Unbound(job[j]), [version[j] EXCEPT !.task = NoTask])
    /\ UNCHANGED <<claim, provider, adopted, swept, stopped, faults>>

\* A failure that is neither retryable nor a rejection is left to a human.
PollFailedManual(w, j) ==
    /\ Polled(w, j, "failed")
    /\ Finish(w, j, job[j], version[j], "waiting_human")
    /\ UNCHANGED <<claim, calls, provider, adopted, swept, stopped, faults>>

\* A rejection is final: _commit_provider_terminal_failure.
PollRejected(w, j) ==
    /\ Polled(w, j, "failed")
    /\ \E c \in {job[j].createState, "model_rejected"} :
         job' = [job EXCEPT ![j] = [Ended(@, "failed") EXCEPT
                   !.pollRequired = FALSE, !.resultAdoptable = FALSE,
                   !.createState = c]]
    /\ version' = [version EXCEPT ![j].status = "failed"]
    /\ claim' = [claim EXCEPT ![j] = IF @ = "none" THEN @ ELSE "settled"]
    /\ reserve' = [reserve EXCEPT ![j] = "settled"]
    /\ Idle(w)
    /\ UNCHANGED <<calls, provider, adopted, swept, stopped, faults>>

PollSucceeded(w, j) ==
    /\ Polled(w, j, "succeeded")
    /\ job' = [job EXCEPT ![j] = Renewed(@)]
    /\ GoTo(w, "fetch")
    /\ UNCHANGED <<version, claim, reserve, calls, provider, adopted, swept, stopped,
                   faults>>

\* The download keeps failing: release_provider_poll writes the version and
\* the ledger whoever holds the lease, then the handler checks it.
FetchFailed(w, j) ==
    /\ At(w, "fetch", j)
    /\ calls' = [calls EXCEPT ![j] = DeadCalls(j)]
    /\ IF Owns(w, j)
         THEN RetryOrHandOver(w, j, Unbound(job[j]),
                              [version[j] EXCEPT !.task = NoTask])
         ELSE /\ version' = [version EXCEPT ![j].task = NoTask]
              /\ Idle(w)
              /\ UNCHANGED <<job, reserve>>
    /\ UNCHANGED <<claim, provider, adopted, swept, stopped, faults>>

\* The download fails for good (the URL has expired).
FetchLost(w, j) ==
    /\ At(w, "fetch", j)
    /\ Owns(w, j)
    /\ Finish(w, j, job[j], version[j], "waiting_human")
    /\ UNCHANGED <<claim, calls, provider, adopted, swept, stopped, faults>>

Adoptable(j) == job[j].slotActive /\ job[j].resultAdoptable

\* _commit_video_result_checkpoint, for a result that may become a candidate
CheckpointCandidate(w, j) ==
    /\ At(w, "fetch", j)
    /\ Owns(w, j) /\ job[j].pollRequired /\ Adoptable(j)
    /\ job' = [job EXCEPT ![j] = [Renewed(@) EXCEPT !.pollRequired = FALSE]]
    /\ version' = [version EXCEPT ![j].status = "succeeded", ![j].produced = TRUE]
    /\ claim' = [claim EXCEPT ![j] = IF @ = "none" THEN @ ELSE "settled"]
    /\ GoTo(w, "qa")
    /\ UNCHANGED <<reserve, calls, provider, adopted, swept, stopped, faults>>

\* ... and for one that is only recorded.
CheckpointQuarantined(w, j) ==
    /\ At(w, "fetch", j)
    /\ Owns(w, j) /\ job[j].pollRequired /\ ~Adoptable(j)
    /\ job' = [job EXCEPT ![j] = [Ended(@, "succeeded") EXCEPT
                                    !.pollRequired = FALSE]]
    /\ version' = [version EXCEPT ![j].status = "quarantined",
                                  ![j].produced = TRUE]
    /\ claim' = [claim EXCEPT ![j] = IF @ = "none" THEN @ ELSE "settled"]
    /\ reserve' = [reserve EXCEPT ![j] = "settled"]
    /\ Idle(w)
    /\ UNCHANGED <<calls, provider, adopted, swept, stopped, faults>>

\* A fence hit after the checkpoint: downgrade_to_waiting_human_if_stale.
Downgrade(w, j) ==
    /\ \/ At(w, "qa", j) /\ Owns(w, j)
       \/ At(w, "adopt", j) /\ job[j].leaseOwner = w
    /\ job' = [job EXCEPT ![j] = Ended(@, "waiting_human")]
    /\ version' = [version EXCEPT ![j].status = "waiting_human"]
    /\ ThenSettle(w, "settled")
    /\ UNCHANGED <<claim, reserve, calls, provider, adopted, swept, stopped, faults>>

\* The supervisor decides, or the validation failed: a candidate, not adopted.
KeepCandidate(w, j) ==
    /\ At(w, "qa", j)
    /\ Owns(w, j)
    /\ job' = [job EXCEPT ![j] = Ended(@, "succeeded")]
    /\ ThenSettle(w, "settled")
    /\ UNCHANGED <<version, claim, reserve, calls, provider, adopted, swept, stopped,
                   faults>>

\* The validation gate is exhausted, or the evidence step raises.
QaError(w, j) ==
    /\ At(w, "qa", j)
    /\ Owns(w, j)
    /\ \E s \in {"waiting_human", "failed"} : Finish(w, j, job[j], version[j], s)
    /\ UNCHANGED <<claim, calls, provider, adopted, swept, stopped, faults>>

QaPassed(w, j) ==
    /\ At(w, "qa", j)
    /\ Owns(w, j)
    /\ job' = [job EXCEPT ![j] = Renewed(@)]
    /\ GoTo(w, "adopt")
    /\ UNCHANGED <<version, claim, reserve, calls, provider, adopted, swept, stopped,
                   faults>>

\* select_best_video_candidate asks for no lease, _set_job for the owner only.
Adopt(w, j) ==
    /\ At(w, "adopt", j)
    /\ adopted' = Selected(j)
    /\ IF job[j].leaseOwner = w
         THEN /\ job' = [job EXCEPT ![j] = Ended(@, "succeeded")]
              /\ ThenSettle(w, "settled")
         ELSE UNCHANGED job /\ Idle(w)
    /\ UNCHANGED <<version, claim, reserve, calls, provider, swept, stopped, faults>>

\* settle_budget overwrites whatever the reservation is.
Settle(w, j) ==
    /\ At(w, "settle", j)
    /\ reserve' = [reserve EXCEPT ![j] = worker[w].pay]
    /\ Idle(w)
    /\ UNCHANGED <<job, version, claim, calls, provider, adopted, swept, stopped,
                   faults>>

-----------------------------------------------------------------------------
(* The user.                                                                 *)

Cancellable == {"queued", "running", "waiting_provider", "waiting_human"}

\* Mutation: the shot slot stays with the stopped job.
IsolatedWithSlot(r) ==
    [Freed(r) EXCEPT !.status = "waiting_provider", !.pollRequired = TRUE,
                     !.resultAdoptable = FALSE]

\* Mutation: cancellation_requested is set as for any other stop.
IsolatedCancelled(r) ==
    [Freed(r) EXCEPT !.status = "waiting_provider", !.slotActive = FALSE,
                     !.pollRequired = TRUE, !.resultAdoptable = FALSE,
                     !.cancelRequested = TRUE]

Isolated(r) ==
    [Freed(r) EXCEPT !.status = "waiting_provider", !.slotActive = FALSE,
                     !.pollRequired = TRUE, !.resultAdoptable = FALSE]

\* request_cancel of a job whose create was accepted: keep polling, isolated.
IsolateResult(j) ==
    /\ job[j].createState = "accepted"
    /\ version[j].task # NoTask \/ job[j].nonCancellable
    /\ job' = [job EXCEPT ![j] = Isolated(@)]
    /\ version' = [version EXCEPT ![j].status = "waiting_provider"]
    /\ reserve' = [reserve EXCEPT ![j] = "reserved"]
    /\ UNCHANGED claim

\* Mutation: the row's create state alone, without provider_non_cancellable.
PreTransportByState(j) == job[j].createState \in {"not_started", "submitting"}

\* Provably before the transport: the claim is released with the job.
PreTransport(j) ==
    /\ ~job[j].nonCancellable
    /\ version[j].task = NoTask
    /\ job[j].createState \in {"not_started", "submitting"}

\* request_cancel otherwise: cancelled, or abandoned when the create may be out.
\* reconcile_cancelled_version_states projects it onto the version.  Before the
\* transport both amounts are given back only if the row names an operation.
CancelJob(j) ==
    LET r == job[j]
        s == IF r.nonCancellable THEN "abandoned" ELSE "cancelled"
    IN  /\ ~(r.createState = "accepted"
               /\ (version[j].task # NoTask \/ r.nonCancellable))
        /\ job' = [job EXCEPT ![j] = [Ended(r, s) EXCEPT
                     !.cancelRequested = TRUE,
                     !.createState = IF PreTransport(j) THEN "not_started" ELSE @]]
        /\ version' = [version EXCEPT ![j].status = s]
        /\ claim' = [claim EXCEPT ![j] =
                       IF PreTransport(j) /\ r.operation /\ @ = "reserved"
                         THEN "released" ELSE @]
        /\ reserve' = [reserve EXCEPT ![j] =
                         IF r.nonCancellable THEN "settled"
                         ELSE IF PreTransport(j) /\ (~r.operation \/ @ = "settled")
                           THEN @ ELSE "released"]

RequestCancel(j) ==
    /\ job[j].status \in Cancellable
    /\ IsolateResult(j) \/ CancelJob(j)

\* stop_shot_video_tasks: it lists paused jobs, request_cancel refuses them.
StopShot(j) ==
    /\ stopped[j] # "stopped"    \* bound: one stop, and one after each resume
    /\ \/ RequestCancel(j) /\ stopped' = [stopped EXCEPT ![j] = "stopped"]
       \/ /\ job[j].status = "paused"
          /\ stopped' = [stopped EXCEPT ![j] = IF @ = "no" THEN "refused" ELSE @]
          /\ UNCHANGED <<job, version, claim, reserve>>
    /\ UNCHANGED <<calls, provider, adopted, worker, swept, faults>>

\* The supervisor that owned the job has closed: the result is cancelled.
SupervisorFence(w, j) ==
    /\ At(w, "fetch", j)
    /\ Owns(w, j) /\ ~worker[w].recovery
    /\ RequestCancel(j)
    /\ Idle(w)
    /\ UNCHANGED <<calls, provider, adopted, swept, stopped, faults>>

\* pause_episode_video_tasks: one transaction over the episode.
PauseEpisode ==
    LET P == {j \in Jobs : job[j].status \in Cancellable
                             /\ ~job[j].cancelRequested}
    IN  /\ P # {}
        /\ Fault
        /\ job' = [j \in Jobs |-> IF j \in P
                     THEN [Freed(job[j]) EXCEPT !.status = "paused"] ELSE job[j]]
        /\ version' = [j \in Jobs |->
                         IF j \in P /\ version[j].status \in Cancellable
                           THEN [version[j] EXCEPT !.status = "paused"]
                           ELSE version[j]]
        /\ reserve' = [j \in Jobs |-> IF j \in P /\ reserve[j] = "running"
                                        THEN "reserved" ELSE reserve[j]]
        /\ UNCHANGED <<claim, calls, provider, adopted, worker, swept, stopped>>

\* resume_episode_video_tasks: recovered handles are committed first; one
\* unresolved create blocks the whole episode.
ResumeEpisode ==
    LET S == {j \in Jobs : job[j].status = "paused" /\ ~job[j].cancelRequested}
        lost == {j \in S : version[j].task = NoTask /\ MayHaveAccepted(job[j])}
        found == {j \in lost : Handle(j) # NoTask}
        R == IF lost \subseteq found THEN S ELSE {}
        task(j) == IF j \in found THEN Handle(j) ELSE version[j].task
        bound(j) == IF j \in found
                      THEN [job[j] EXCEPT !.createState = "accepted",
                                          !.nonCancellable = TRUE]
                      ELSE job[j]
    IN  /\ S # {}
        /\ job' = [j \in Jobs |->
             IF j \in R
               THEN [Freed(bound(j)) EXCEPT
                       !.status = IF task(j) # NoTask THEN "waiting_provider"
                                                      ELSE "queued",
                       !.slotActive = TRUE]
               ELSE bound(j)]
        /\ version' = [j \in Jobs |->
             [version[j] EXCEPT !.task = task(j),
                !.status = IF j \in R /\ @ = "paused" THEN "queued" ELSE @]]
        /\ stopped' = [j \in Jobs |-> IF j \in R /\ stopped[j] = "stopped"
                                        THEN "resumed" ELSE stopped[j]]
        /\ UNCHANGED <<claim, reserve, calls, provider, adopted, worker, swept, faults>>

\* recover_equivalent_stale_provider_jobs: the accepted task is polled again.
RecoverStale(j) ==
    /\ job[j].status = "stale" /\ version[j].status = "stale"
    /\ job[j].nonCancellable /\ ~job[j].cancelRequested
    /\ version[j].task # NoTask
    /\ job' = [job EXCEPT ![j] = [Freed(@) EXCEPT !.status = "waiting_provider",
                                                  !.createState = "accepted"]]
    /\ version' = [version EXCEPT ![j].status = "running"]
    /\ reserve' = [reserve EXCEPT ![j] = IF @ = "running" THEN @ ELSE "reserved"]
    /\ UNCHANGED <<claim, calls, provider, adopted, worker, swept, stopped, faults>>

-----------------------------------------------------------------------------
(* Leases, the sweeper, shutdown and restart.                                *)

Holder(w, j) == worker[w].pc \in Await /\ worker[w].job = j /\ job[j].leaseOwner = w

\* A live worker's await outlasts its lease.
LeaseExpires(j) ==
    /\ job[j].status = "running" /\ ~job[j].leaseExpired
    /\ \E w \in Workers : Holder(w, j)
    /\ Fault
    /\ job' = [job EXCEPT ![j].leaseExpired = TRUE]
    /\ UNCHANGED <<version, claim, reserve, calls, provider, adopted, worker, swept,
                   stopped>>

\* Nobody renews the lease of a worker that is gone.
OrphanLeaseExpires(j) ==
    /\ job[j].status = "running" /\ ~job[j].leaseExpired
    /\ ~\E w \in Workers : Holder(w, j)
    /\ job' = [job EXCEPT ![j].leaseExpired = TRUE]
    /\ UNCHANGED <<version, claim, reserve, calls, provider, adopted, worker, swept,
                   stopped, faults>>

\* _stale_lease_sweeper selects first ...
SweepSelect ==
    LET expired == {j \in Jobs : /\ job[j].status = "running"
                                 /\ job[j].leaseExpired /\ ~job[j].cancelRequested}
    IN  /\ expired # {}
        /\ swept' = expired
        /\ UNCHANGED <<rows, provider, worker, stopped, faults>>

\* Mutation: recovery starts the create over.
RecoveredAfresh(r) ==
    [Freed(r) EXCEPT !.status = IF r.pollRequired THEN "waiting_provider" ELSE "queued",
                     !.createState = "not_started", !.nonCancellable = FALSE]

RecoveredRow(r) == [Freed(r) EXCEPT !.status = IF r.pollRequired
                                      THEN "waiting_provider" ELSE "queued"]

Recoverable(j) == job[j].status \in ActiveStatus /\ ~job[j].cancelRequested

\* ... and _recover_one_media_job does not look at the lease again: a claim, a
\* heartbeat or a commit of another thread may have come in between.
SweepRecover ==
    /\ swept # {}
    /\ swept' = {}
    /\ job' = [j \in Jobs |-> IF j \in swept /\ Recoverable(j)
                                THEN RecoveredRow(job[j]) ELSE job[j]]
    /\ UNCHANGED <<version, claim, reserve, calls, provider, adopted, worker,
                   stopped, faults>>

\* The process dies and starts again; recover_media_jobs resets the jobs whose
\* run was interrupted, the others wait for their lease to expire.
CrashAndRestart ==
    /\ Fault
    /\ worker' = [w \in Workers |-> IdleWorker]
    /\ late' = late \cup {j \in Jobs : \E w \in Workers :
                             At(w, "sending", j) /\ worker[w].task = NoTask}
    /\ swept' = {}
    /\ \E R \in SUBSET {j \in Jobs : Recoverable(j)} :
         job' = [j \in Jobs |-> IF j \in R THEN RecoveredRow(job[j]) ELSE job[j]]
    /\ UNCHANGED <<version, claim, reserve, calls, tasks, adopted, stopped>>

\* A worker is cancelled while the authority is checked: the claim is released
\* first, then the job.
InterruptAtSlot(w, j) ==
    /\ BeforeTheCall(w, j)
    /\ Fault
    /\ claim' = [claim EXCEPT ![j] = "released"]
    /\ job' = [job EXCEPT ![j] = [Freed(Resubmittable(@)) EXCEPT !.status = "queued"]]
    /\ Unreserve(j)
    /\ Idle(w)
    /\ UNCHANGED <<version, calls, provider, adopted, swept, stopped>>

\* ... at any other await: _release_interrupted_worker_job.
Interrupt(w, j) ==
    /\ worker[w].pc \in Await \ {"slot"} /\ worker[w].job = j
    /\ Fault
    /\ IF job[j].status = "running" /\ job[j].leaseOwner = w
         THEN /\ job' = [job EXCEPT ![j] = [Freed(@) EXCEPT
                   !.status = IF \/ version[j].task # NoTask
                                 \/ /\ job[j].nonCancellable
                                    /\ job[j].createState \in
                                         {"submitting", "accepted", "unknown"}
                                THEN "waiting_provider" ELSE "queued"]]
              /\ Unreserve(j)
         ELSE UNCHANGED <<job, reserve>>
    /\ GiveUp(w, j)
    /\ Idle(w)
    /\ UNCHANGED <<version, claim, calls, tasks, adopted, swept, stopped>>

-----------------------------------------------------------------------------
\* The workers, the sweeper and the user's requests share one event loop: it is
\* taken while a handler stands between two commits, and during a sweep.
LoopFree == swept = {} /\ \A w \in Workers : worker[w].pc # "settle"

\* The transactions of run_write_transaction: a thread commits them meanwhile.
ThreadStep(w, j) ==
    \/ CommitAcceptance(w, j) \/ PollRejected(w, j)
    \/ CheckpointCandidate(w, j) \/ CheckpointQuarantined(w, j)

LoopStep(w, j) ==
    \/ LeaseLost(w, j) \/ Load(w, j) \/ LoadUnresolved(w, j) \/ ReviewFence(w, j)
    \/ Defer(w, j) \/ InputRepair(w, j) \/ PlanStale(w, j) \/ InputError(w, j)
    \/ MarkSubmitting(w, j) \/ ClaimSlot(w, j) \/ SlotFull(w, j)
    \/ AuthorityStale(w, j) \/ ReleaseRefused(w, j) \/ Send(w, j)
    \/ ReplyAccepted(w, j) \/ ReplyRejected(w, j) \/ ReplyUnknown(w, j)
    \/ UnexpectedError(w, j)
    \/ PollRunning(w, j) \/ PollError(w, j) \/ PollTimeout(w, j)
    \/ PollFailed(w, j) \/ PollFailedManual(w, j) \/ PollSucceeded(w, j)
    \/ FetchFailed(w, j) \/ FetchLost(w, j) \/ SupervisorFence(w, j)
    \/ Downgrade(w, j) \/ KeepCandidate(w, j)
    \/ QaError(w, j) \/ QaPassed(w, j) \/ Adopt(w, j)

\* What one worker does with the job it holds.
WorkerStep(w, j) ==
    \/ LoopFree /\ LoopStep(w, j)
    \/ ThreadStep(w, j)
    \/ Settle(w, j)

\* The claim and the heartbeat are a thread's transactions too.
WorkerEvent(w, j) ==
    \/ Claim(w, j) \/ Heartbeat(w, j) \/ WorkerStep(w, j)
    \/ LoopFree /\ (InterruptAtSlot(w, j) \/ Interrupt(w, j))
    \/ \E t \in Tasks : ProviderAccepts(w, j, t)

JobEvent(j) ==
    \/ LoopFree /\ (StopShot(j) \/ RecoverStale(j))
    \/ LeaseExpires(j) \/ OrphanLeaseExpires(j)
    \/ \E t \in Tasks : ProviderFinishes(j, t) \/ ProviderAcceptsLate(j, t)

Next ==
    \/ \E w \in Workers, j \in Jobs : WorkerEvent(w, j)
    \/ \E j \in Jobs : JobEvent(j)
    \/ LoopFree /\ (PauseEpisode \/ ResumeEpisode \/ SweepSelect)
    \/ SweepRecover \/ CrashAndRestart

Spec == Init /\ [][Next]_vars

\* The event loop runs every worker on, the dispatcher offers a due job, the
\* sweeper wakes up every minute and a task of the provider ends.  Faults, the
\* user, and an answer that comes late are not obliged to happen.
Fairness ==
    /\ \A j \in Jobs :
         /\ \A w \in Workers : WF_vars(WorkerStep(w, j))
         /\ WF_vars(\E w \in Workers : Claim(w, j))
         /\ WF_vars(OrphanLeaseExpires(j))
         /\ \A t \in Tasks : WF_vars(ProviderFinishes(j, t))
    /\ WF_vars(LoopFree /\ SweepSelect) /\ WF_vars(SweepRecover)

FairSpec == Spec /\ Fairness

=============================================================================
