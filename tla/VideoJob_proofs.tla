-------------------------- MODULE VideoJob_proofs --------------------------
(***************************************************************************)
(* Type correctness of the paid video job.                                 *)
(***************************************************************************)
EXTENDS VideoJobProperties, TLAPS

-----------------------------------------------------------------------------
(* Rows.                                                                     *)

\* What the operations write into a jobs row is a jobs row.
LEMMA RowTypes ==
  ASSUME NEW r \in JobRow
  PROVE  /\ Freed(r) \in JobRow
         /\ Renewed(r) \in JobRow
         /\ Unbound(r) \in JobRow
         /\ Unknown(r) \in JobRow
         /\ Isolated(r) \in JobRow
         /\ RecoveredRow(r) \in JobRow
         /\ \A s \in JobStatus : /\ Ended(r, s) \in JobRow
                                 /\ [r EXCEPT !.status = s] \in JobRow
         /\ \A c \in CreateState : [r EXCEPT !.createState = c] \in JobRow
         /\ \A b \in BOOLEAN : /\ [r EXCEPT !.nonCancellable = b] \in JobRow
                               /\ [r EXCEPT !.pollRequired = b] \in JobRow
<1>1. Freed(r) \in JobRow /\ Renewed(r) \in JobRow
  BY DEF JobRow, Freed, Renewed
<1>2. Unbound(r) \in JobRow /\ Unknown(r) \in JobRow
  BY DEF JobRow, Unbound, Unknown, CreateState
<1>3. Isolated(r) \in JobRow /\ RecoveredRow(r) \in JobRow
  BY DEF JobRow, Freed, Isolated, RecoveredRow, JobStatus
<1>4. \A s \in JobStatus : Ended(r, s) \in JobRow /\ [r EXCEPT !.status = s] \in JobRow
  BY DEF JobRow, Freed, Ended
<1>5. /\ \A c \in CreateState : [r EXCEPT !.createState = c] \in JobRow
      /\ \A b \in BOOLEAN : /\ [r EXCEPT !.nonCancellable = b] \in JobRow
                            /\ [r EXCEPT !.pollRequired = b] \in JobRow
  BY DEF JobRow
<1>. QED BY <1>1, <1>2, <1>3, <1>4, <1>5

\* A write to one row of a table leaves a table.
LEMMA JobTable ==
  ASSUME NEW T \in [Jobs -> JobRow], NEW k \in Jobs, NEW r \in JobRow
  PROVE  [T EXCEPT ![k] = r] \in [Jobs -> JobRow]
  OBVIOUS

LEMMA VersionTable ==
  ASSUME NEW T \in [Jobs -> VersionRow], NEW k \in Jobs, NEW r \in VersionRow
  PROVE  [T EXCEPT ![k] = r] \in [Jobs -> VersionRow]
  OBVIOUS

LEMMA VersionTypes ==
  ASSUME NEW v \in VersionRow, NEW s \in VersionStatus,
         NEW t \in Tasks \cup {NoTask}
  PROVE  /\ [v EXCEPT !.status = s] \in VersionRow
         /\ [v EXCEPT !.task = t] \in VersionRow
         /\ [v EXCEPT !.task = t, !.status = s] \in VersionRow
  BY DEF VersionRow

LEMMA WorkerRows ==
  ASSUME NEW u \in WorkerState, NEW pc \in PC, NEW t \in Tasks \cup {NoTask},
         NEW b \in BOOLEAN
  PROVE  /\ [u EXCEPT !.pc = pc, !.task = t, !.recovery = b] \in WorkerState
         /\ [u EXCEPT !.pc = pc, !.fresh = b] \in WorkerState
         /\ [u EXCEPT !.task = t] \in WorkerState
  BY DEF WorkerState

LEMMA WorkerTable ==
  ASSUME NEW T \in [Workers -> WorkerState], NEW x \in Workers, NEW u \in WorkerState
  PROVE  [T EXCEPT ![x] = u] \in [Workers -> WorkerState]
  OBVIOUS

\* The worker goes on, gives the job up, or has its budget left to settle.
LEMMA WorkerTypes ==
  ASSUME TypeOK, NEW w \in Workers
  PROVE  /\ \A pc \in PC : GoTo(w, pc) => worker' \in [Workers -> WorkerState]
         /\ Idle(w) => worker' \in [Workers -> WorkerState]
         /\ \A pay \in {"settled", "released"} :
              ThenSettle(w, pay) => worker' \in [Workers -> WorkerState]
<1>. worker \in [Workers -> WorkerState]
  BY DEF TypeOK
<1>1. IdleWorker \in WorkerState
  BY VideoJobAssumption DEF IdleWorker, WorkerState, PC, Await, NoTask
<1>2. ASSUME Idle(w) PROVE worker' \in [Workers -> WorkerState]
  BY <1>1, <1>2, WorkerTable DEF Idle
<1>3. ASSUME NEW pc \in PC, GoTo(w, pc)
      PROVE  worker' \in [Workers -> WorkerState]
  BY <1>3 DEF GoTo, WorkerState
<1>4. ASSUME NEW pay \in {"settled", "released"}, ThenSettle(w, pay)
      PROVE  worker' \in [Workers -> WorkerState]
  <2>1. [IdleWorker EXCEPT !.pc = "settle", !.job = worker[w].job, !.pay = pay]
          \in WorkerState
    BY <1>1 DEF WorkerState, PC
  <2>. QED BY <1>4, <2>1, WorkerTable DEF ThenSettle
<1>. QED BY <1>2, <1>3, <1>4

\* The row of a create that was provably not sent.
LEMMA ResubmittableFields ==
  ASSUME NEW r \in JobRow
  PROVE  Resubmittable(r) \in JobRow /\ Resubmittable(r).nonCancellable = FALSE
  BY DEF Resubmittable, JobRow, CreateState

LEMMA SelectedType ==
  ASSUME TypeOK, NEW j \in Jobs
  PROVE  Selected(j) \in [Jobs -> BOOLEAN]
  BY DEF TypeOK, Selected

LEMMA UnreserveType ==
  ASSUME TypeOK, NEW j \in Jobs, Unreserve(j)
  PROVE  reserve' \in [Jobs -> ReserveStatus]
  BY DEF TypeOK, Unreserve, ReserveStatus

LEMMA CallTypes ==
  ASSUME TypeOK, NEW j \in Jobs
  PROVE  /\ DeadCalls(j) \in [Tasks -> CallStatus]
         /\ [calls EXCEPT ![j] = DeadCalls(j)] \in [Jobs -> [Tasks -> CallStatus]]
  BY DEF TypeOK, DeadCalls, CallStatus

\* _recover_paid_video_task finds a task that is logged, or none.
LEMMA HandleType ==
  ASSUME TypeOK, NEW j \in Jobs
  PROVE  /\ Handle(j) \in Tasks \cup {NoTask}
         /\ KnownTask(j) \in Tasks \cup {NoTask}
         /\ Handle(j) # NoTask => Handle(j) \in Logged(j)
  BY DEF TypeOK, Handle, KnownTask, VersionRow, Logged

-----------------------------------------------------------------------------
(* The parts that several handlers share.                                    *)

LEMMA HandOverType ==
  ASSUME TypeOK, NEW w \in Workers, NEW j \in Jobs, NEW r \in JobRow,
         HandOver(w, j, r), UNCHANGED <<tasks, swept, stopped>>,
         late' \in SUBSET Jobs, faults' \in 0 .. MaxFaults
  PROVE  TypeOK'
<1>1. job' \in [Jobs -> JobRow]
  BY RowTypes, JobTable DEF HandOver, TypeOK, JobStatus
<1>2. version' \in [Jobs -> VersionRow]
  BY DEF HandOver, TypeOK, VersionRow, VersionStatus, JobStatus
<1>3. reserve' \in [Jobs -> ReserveStatus] /\ worker' \in [Workers -> WorkerState]
  BY UnreserveType, WorkerTypes DEF HandOver
<1>. QED BY <1>1, <1>2, <1>3 DEF HandOver, TypeOK

LEMMA FinishType ==
  ASSUME TypeOK, NEW w \in Workers, NEW j \in Jobs, NEW r \in JobRow,
         NEW v \in VersionRow, NEW s \in JobStatus, Finish(w, j, r, v, s)
  PROVE  /\ job' \in [Jobs -> JobRow]
         /\ version' \in [Jobs -> VersionRow]
         /\ reserve' \in [Jobs -> ReserveStatus]
         /\ worker' \in [Workers -> WorkerState]
<1>1. job' \in [Jobs -> JobRow]
  BY RowTypes, JobTable DEF Finish, TypeOK
<1>2. version' \in [Jobs -> VersionRow]
  BY VersionTypes, VersionTable DEF Finish, TypeOK, VersionStatus
<1>3. reserve' \in [Jobs -> ReserveStatus] /\ worker' \in [Workers -> WorkerState]
  BY UnreserveType, WorkerTypes DEF Finish, TypeOK
<1>. QED BY <1>1, <1>2, <1>3

LEMMA RetryRow ==
  ASSUME NEW r \in JobRow, MayRetry(r)
  PROVE  [Freed(r) EXCEPT !.status = "queued", !.retryCount = @ + 1] \in JobRow
<1>1. r.retryCount \in 0 .. MaxRetries
  BY DEF JobRow
<1>2. r.retryCount + 1 \in 0 .. MaxRetries
  BY <1>1, VideoJobAssumption DEF MayRetry
<1>. QED BY <1>2 DEF Freed, JobRow, JobStatus

LEMMA RetryType ==
  ASSUME TypeOK, NEW w \in Workers, NEW j \in Jobs, NEW r \in JobRow,
         NEW v \in VersionRow, RetryOrHandOver(w, j, r, v)
  PROVE  /\ job' \in [Jobs -> JobRow]
         /\ version' \in [Jobs -> VersionRow]
         /\ reserve' \in [Jobs -> ReserveStatus]
         /\ worker' \in [Workers -> WorkerState]
<1>1. CASE Retry(w, j, r, v)
  <2>1. [Freed(r) EXCEPT !.status = "queued", !.retryCount = @ + 1] \in JobRow
    BY <1>1, RetryRow DEF Retry
  <2>2. job' \in [Jobs -> JobRow]
    BY <1>1, <2>1, JobTable DEF Retry, TypeOK
  <2>3. version' \in [Jobs -> VersionRow]
    BY <1>1, VersionTypes, VersionTable DEF Retry, TypeOK, VersionStatus, JobStatus
  <2>. QED BY <1>1, <2>2, <2>3, UnreserveType, WorkerTypes DEF Retry
<1>2. CASE Finish(w, j, r, v, "waiting_human")
  BY <1>2, FinishType DEF JobStatus
<1>. QED BY <1>1, <1>2 DEF RetryOrHandOver

LEMMA DeferPollType ==
  ASSUME TypeOK, NEW w \in Workers, NEW j \in Jobs, DeferPoll(w, j)
  PROVE  /\ job' \in [Jobs -> JobRow]
         /\ version' \in [Jobs -> VersionRow]
         /\ reserve' \in [Jobs -> ReserveStatus]
         /\ worker' \in [Workers -> WorkerState]
<1>1. job' \in [Jobs -> JobRow]
  BY RowTypes, JobTable DEF DeferPoll, TypeOK, JobStatus
<1>. QED BY <1>1, UnreserveType, WorkerTypes DEF DeferPoll, TypeOK

LEMMA CancelledRow ==
  ASSUME NEW r \in JobRow, NEW s \in JobStatus, NEW b
  PROVE  [Ended(r, s) EXCEPT !.cancelRequested = TRUE,
            !.createState = IF b THEN "not_started" ELSE @] \in JobRow
  BY DEF Ended, Freed, JobRow, CreateState

LEMMA ResumedRow ==
  ASSUME NEW r \in JobRow, NEW s \in JobStatus
  PROVE  [Freed(r) EXCEPT !.status = s, !.slotActive = TRUE] \in JobRow
  BY DEF Freed, JobRow

LEMMA EndedPolled ==
  ASSUME NEW r \in JobRow, NEW s \in JobStatus, NEW c \in CreateState
  PROVE  [Ended(r, s) EXCEPT !.pollRequired = FALSE, !.resultAdoptable = FALSE,
                             !.createState = c] \in JobRow
  BY DEF Ended, Freed, JobRow

LEMMA CancelType ==
  ASSUME TypeOK, NEW j \in Jobs, RequestCancel(j)
  PROVE  /\ job' \in [Jobs -> JobRow]
         /\ version' \in [Jobs -> VersionRow]
         /\ reserve' \in [Jobs -> ReserveStatus]
         /\ claim' \in [Jobs -> ClaimStatus]
<1>1. CASE IsolateResult(j)
  <2>1. job' \in [Jobs -> JobRow]
    BY <1>1, RowTypes, JobTable DEF IsolateResult, TypeOK
  <2>2. version' \in [Jobs -> VersionRow]
    BY <1>1 DEF IsolateResult, TypeOK, VersionRow, VersionStatus, JobStatus
  <2>. QED BY <1>1, <2>1, <2>2 DEF IsolateResult, TypeOK, ReserveStatus
<1>2. CASE CancelJob(j)
  <2>. DEFINE s == IF job[j].nonCancellable THEN "abandoned" ELSE "cancelled"
              r == [Ended(job[j], s) EXCEPT !.cancelRequested = TRUE,
                      !.createState = IF PreTransport(j) THEN "not_started" ELSE @]
  <2>a. job' = [job EXCEPT ![j] = r] /\ version' = [version EXCEPT ![j].status = s]
    BY <1>2 DEF CancelJob
  <2>b. s \in JobStatus
    BY DEF JobStatus
  <2>1. job' \in [Jobs -> JobRow]
    <3>1. job[j] \in JobRow BY DEF TypeOK
    <3>. HIDE DEF s
    <3>2. r \in JobRow
      BY <2>b, <3>1, CancelledRow
    <3>. HIDE DEF r
    <3>. QED BY <2>a, <3>2, JobTable DEF TypeOK
  <2>2. version' \in [Jobs -> VersionRow]
    <3>1. s \in VersionStatus BY <2>b DEF VersionStatus
    <3>. HIDE DEF s
    <3>. QED BY <2>a, <3>1 DEF TypeOK, VersionRow
  <2>. QED BY <1>2, <2>1, <2>2 DEF CancelJob, TypeOK, ReserveStatus, ClaimStatus
<1>. QED BY <1>1, <1>2 DEF RequestCancel

-----------------------------------------------------------------------------
(* One step per action.                                                     *)

LEMMA InitType == Init => TypeOK
  BY VideoJobAssumption
     DEF Init, TypeOK, JobRow, VersionRow, WorkerState, JobStatus, VersionStatus,
         CreateState, ClaimStatus, ReserveStatus, CallStatus, TaskStatus, PC, Await,
         IdleWorker, Tasks, NoTask

LEMMA BeforeSubmitType ==
  ASSUME TypeOK, NEW w \in Workers, NEW j \in Jobs,
         \/ Claim(w, j) \/ LeaseLost(w, j) \/ Load(w, j) \/ LoadUnresolved(w, j)
         \/ ReviewFence(w, j) \/ Heartbeat(w, j) \/ Defer(w, j)
         \/ InputRepair(w, j) \/ PlanStale(w, j) \/ InputError(w, j)
  PROVE  TypeOK'
<1>. job[j] \in JobRow /\ version[j] \in VersionRow
  BY DEF TypeOK
<1>1. CASE Claim(w, j)
  <2>1. job' \in [Jobs -> JobRow]
    BY <1>1 DEF Claim, TypeOK, JobRow, JobStatus
  <2>2. worker' \in [Workers -> WorkerState]
    BY <1>1 DEF Claim, TypeOK, WorkerState, IdleWorker, PC, Await, NoTask
  <2>. QED BY <1>1, <2>1, <2>2 DEF Claim, TypeOK, ReserveStatus, provider
<1>2. CASE LeaseLost(w, j)
  BY <1>2, WorkerTypes DEF LeaseLost, GiveUp, TypeOK, rows
<1>3. CASE Load(w, j)
  <2>1. worker' \in [Workers -> WorkerState]
    <3>1. KnownTask(j) \in Tasks \cup {NoTask} /\ RecoveryOnly(j) \in BOOLEAN
      BY HandleType DEF RecoveryOnly, JobRow
    <3>2. worker[w] \in WorkerState
      BY DEF TypeOK
    <3>3. "accept" \in PC /\ "prepare" \in PC
      BY DEF PC, Await
    <3>. QED BY <1>3, <3>1, <3>2, <3>3, WorkerRows, WorkerTable DEF Load, TypeOK
  <2>. QED BY <1>3, <2>1 DEF Load, TypeOK, rows, provider
<1>4. CASE LoadUnresolved(w, j)
  BY <1>4, HandOverType DEF LoadUnresolved, provider, TypeOK
<1>5. CASE ReviewFence(w, j)
  <2>1. job' \in [Jobs -> JobRow]
    BY <1>5, RowTypes, JobTable DEF ReviewFence, TypeOK, JobStatus
  <2>2. version' \in [Jobs -> VersionRow]
    BY <1>5 DEF ReviewFence, TypeOK, VersionRow, VersionStatus, JobStatus
  <2>. QED BY <1>5, <2>1, <2>2, WorkerTypes DEF ReviewFence, TypeOK, provider
<1>6. CASE Heartbeat(w, j)
  <2>1. job' \in [Jobs -> JobRow]
    BY <1>6, RowTypes, JobTable DEF Heartbeat, TypeOK
  <2>. QED BY <1>6, <2>1 DEF Heartbeat, TypeOK, provider
<1>7. CASE Defer(w, j)
  <2>1. job' \in [Jobs -> JobRow]
    <3>1. \A s \in {"queued", "waiting_human"} :
            [Freed(job[j]) EXCEPT !.status = s] \in JobRow
      BY RowTypes DEF JobStatus
    <3>2. CASE job[j].leaseOwner = w
      <4>1. PICK s \in {"queued", "waiting_human"} :
              job' = [job EXCEPT ![j] = [Freed(job[j]) EXCEPT !.status = s]]
        BY <1>7, <3>2 DEF Defer
      <4>. QED BY <3>1, <4>1, JobTable, Zenon DEF TypeOK
    <3>. QED BY <1>7, <3>2 DEF Defer, TypeOK
  <2>. QED BY <1>7, <2>1, UnreserveType, WorkerTypes DEF Defer, TypeOK, provider
<1>8. CASE InputRepair(w, j)
  <2>1. job' \in [Jobs -> JobRow]
    BY <1>8, RowTypes, JobTable DEF InputRepair, TypeOK, JobStatus
  <2>2. version' \in [Jobs -> VersionRow]
    BY <1>8 DEF InputRepair, TypeOK, VersionRow, VersionStatus, JobStatus
  <2>. QED BY <1>8, <2>1, <2>2, WorkerTypes DEF InputRepair, TypeOK, provider
<1>9. CASE PlanStale(w, j)
  <2>1. job' \in [Jobs -> JobRow]
    BY <1>9, RowTypes, JobTable DEF PlanStale, GoStale, TypeOK, JobStatus
  <2>2. version' \in [Jobs -> VersionRow]
    BY <1>9 DEF PlanStale, GoStale, TypeOK, VersionRow, VersionStatus, JobStatus
  <2>. QED BY <1>9, <2>1, <2>2, WorkerTypes DEF PlanStale, GoStale, TypeOK, provider
<1>10. CASE InputError(w, j)
  <2>1. /\ job' \in [Jobs -> JobRow] /\ version' \in [Jobs -> VersionRow]
        /\ reserve' \in [Jobs -> ReserveStatus]
        /\ worker' \in [Workers -> WorkerState]
    BY <1>10, FinishType, RetryType DEF InputError, JobStatus
  <2>. QED BY <1>10, <2>1 DEF InputError, TypeOK, provider
<1>. QED BY <1>1, <1>2, <1>3, <1>4, <1>5, <1>6, <1>7, <1>8, <1>9, <1>10

LEMMA SubmitType ==
  ASSUME TypeOK, NEW w \in Workers, NEW j \in Jobs,
         \/ MarkSubmitting(w, j) \/ ClaimSlot(w, j) \/ SlotFull(w, j)
         \/ AuthorityStale(w, j) \/ ReleaseRefused(w, j) \/ InterruptAtSlot(w, j)
         \/ Send(w, j) \/ ReplyAccepted(w, j)
         \/ ReplyRejected(w, j) \/ ReplyUnknown(w, j) \/ CommitAcceptance(w, j)
         \/ UnexpectedError(w, j)
         \/ \E t \in Tasks : ProviderAccepts(w, j, t)
  PROVE  TypeOK'
<1>. job[j] \in JobRow /\ version[j] \in VersionRow
  BY DEF TypeOK
<1>1. CASE MarkSubmitting(w, j)
  <2>. DEFINE r == [Renewed(job[j]) EXCEPT !.createState = "submitting",
                                           !.operation = TRUE]
  <2>1. job' \in [Jobs -> JobRow]
    <3>1. Renewed(job[j]) \in JobRow
      BY RowTypes
    <3>2. r \in JobRow
      BY <3>1 DEF JobRow, CreateState
    <3>. QED BY <1>1, <3>2, JobTable DEF MarkSubmitting, TypeOK
  <2>. QED BY <1>1, <2>1, WorkerTypes DEF MarkSubmitting, TypeOK, provider, PC, Await
<1>2. CASE ClaimSlot(w, j)
  <2>1. job' \in [Jobs -> JobRow]
    BY <1>2, RowTypes, JobTable DEF ClaimSlot, TypeOK
  <2>2. claim' \in [Jobs -> ClaimStatus]
    BY <1>2 DEF ClaimSlot, TypeOK, Billed, ClaimStatus
  <2>. QED BY <1>2, <2>1, <2>2, WorkerTypes DEF ClaimSlot, TypeOK, provider, PC, Await
<1>3. CASE SlotFull(w, j)
  <2>1. [Freed(job[j]) EXCEPT !.status = "queued", !.createState = "not_started"]
          \in JobRow
    BY RowTypes DEF JobStatus, CreateState
  <2>2. job' \in [Jobs -> JobRow]
    BY <1>3, <2>1, JobTable DEF SlotFull, TypeOK
  <2>. QED BY <1>3, <2>2, UnreserveType, WorkerTypes DEF SlotFull, TypeOK, provider
<1>0. Resubmittable(job[j]) \in JobRow
  BY ResubmittableFields
<1>4. CASE AuthorityStale(w, j)
  <2>1. CASE GoStale(w, j, Resubmittable(job[j])) /\ UNCHANGED reserve
    <3>1. job' \in [Jobs -> JobRow]
      BY <2>1, <1>0, RowTypes, JobTable DEF GoStale, TypeOK, JobStatus
    <3>2. version' \in [Jobs -> VersionRow]
      BY <2>1 DEF GoStale, TypeOK, VersionRow, VersionStatus, JobStatus
    <3>. QED BY <1>4, <2>1, <3>1, <3>2, WorkerTypes
             DEF AuthorityStale, GoStale, TypeOK, provider, ClaimStatus
  <2>2. CASE Finish(w, j, Resubmittable(job[j]), version[j], "failed")
    <3>1. /\ job' \in [Jobs -> JobRow] /\ version' \in [Jobs -> VersionRow]
          /\ reserve' \in [Jobs -> ReserveStatus]
          /\ worker' \in [Workers -> WorkerState]
      BY <1>0, <2>2, FinishType DEF JobStatus
    <3>. QED BY <1>4, <3>1 DEF AuthorityStale, TypeOK, provider, ClaimStatus
  <2>. QED BY <1>4, <2>1, <2>2 DEF AuthorityStale
<1>12. CASE ReleaseRefused(w, j)
  BY <1>12, WorkerTypes DEF ReleaseRefused, TypeOK, rows, provider
<1>13. CASE InterruptAtSlot(w, j)
  <2>1. [Freed(Resubmittable(job[j])) EXCEPT !.status = "queued"] \in JobRow
    BY <1>0, RowTypes DEF JobStatus
  <2>2. job' \in [Jobs -> JobRow]
    BY <1>13, <2>1, JobTable DEF InterruptAtSlot, TypeOK
  <2>. QED BY <1>13, <2>2, UnreserveType, WorkerTypes, VideoJobAssumption
           DEF InterruptAtSlot, Fault, TypeOK, provider, ClaimStatus
<1>5. CASE Send(w, j)
  BY <1>5, WorkerTypes DEF Send, TypeOK, rows, provider, PC, Await
<1>6. CASE ReplyAccepted(w, j)
  <2>1. worker' \in [Workers -> WorkerState]
    BY <1>6, WorkerRows, WorkerTable DEF ReplyAccepted, TypeOK, PC, Await
  <2>2. calls' \in [Jobs -> [Tasks -> CallStatus]]
    BY <1>6 DEF ReplyAccepted, TypeOK, CallStatus
  <2>. QED BY <1>6, <2>1, <2>2 DEF ReplyAccepted, TypeOK, provider
<1>7. CASE ReplyRejected(w, j)
  <2>. DEFINE r == Resubmittable(job[j])
  <2>1. r \in JobRow /\ \A c \in CreateState : [r EXCEPT !.createState = c] \in JobRow
    BY <1>0, RowTypes
  <2>2. \/ RetryOrHandOver(w, j, r, version[j])
        \/ Finish(w, j, r, version[j], "waiting_human")
        \/ \E c \in {"not_started", "model_rejected"} :
             Finish(w, j, [r EXCEPT !.createState = c], version[j], "failed")
    BY <1>7 DEF ReplyRejected
  <2>. HIDE DEF r
  <2>3. /\ job' \in [Jobs -> JobRow] /\ version' \in [Jobs -> VersionRow]
        /\ reserve' \in [Jobs -> ReserveStatus]
        /\ worker' \in [Workers -> WorkerState]
    BY <2>1, <2>2, FinishType, RetryType DEF JobStatus, CreateState
  <2>. QED BY <1>7, <2>3 DEF ReplyRejected, TypeOK, ClaimStatus, provider
<1>8. CASE ReplyUnknown(w, j)
  BY <1>8, HandOverType, RowTypes, VideoJobAssumption
     DEF ReplyUnknown, GiveUp, Fault, TypeOK
<1>9. CASE CommitAcceptance(w, j)
  <2>1. job' \in [Jobs -> JobRow]
    <3>1. Renewed(job[j]) \in JobRow
      BY RowTypes
    <3>. DEFINE r == [Renewed(job[j]) EXCEPT
                        !.createState = "accepted", !.operation = TRUE,
                        !.nonCancellable = TRUE,
                        !.pollRequired = TRUE, !.resultAdoptable = TRUE]
    <3>2. r \in JobRow
      BY <3>1 DEF JobRow, CreateState
    <3>. HIDE DEF r
    <3>3. job' = [job EXCEPT ![j] = r]
      BY <1>9 DEF CommitAcceptance, r
    <3>. QED BY <3>2, <3>3, JobTable DEF TypeOK
  <2>2. version' \in [Jobs -> VersionRow]
    BY <1>9 DEF CommitAcceptance, TypeOK, VersionRow, WorkerState, VersionStatus,
                JobStatus
  <2>. QED BY <1>9, <2>1, <2>2, WorkerTypes
           DEF CommitAcceptance, TypeOK, ClaimStatus, provider, PC, Await
<1>10. CASE UnexpectedError(w, j)
  <2>1. /\ job' \in [Jobs -> JobRow] /\ version' \in [Jobs -> VersionRow]
        /\ reserve' \in [Jobs -> ReserveStatus]
        /\ worker' \in [Workers -> WorkerState]
    BY <1>10, FinishType, DeferPollType DEF UnexpectedError, JobStatus
  <2>2. late' \in SUBSET Jobs /\ faults' \in 0 .. MaxFaults
    BY <1>10, VideoJobAssumption DEF UnexpectedError, GiveUp, Fault, TypeOK
  <2>3. adopted' \in [Jobs -> BOOLEAN]
    BY <1>10, SelectedType DEF UnexpectedError, TypeOK
  <2>. QED BY <1>10, <2>1, <2>2, <2>3 DEF UnexpectedError, TypeOK
<1>11. CASE \E t \in Tasks : ProviderAccepts(w, j, t)
  <2>1. PICK t \in Tasks : ProviderAccepts(w, j, t)
    BY <1>11
  <2>2. worker' \in [Workers -> WorkerState]
    <3>1. [worker[w] EXCEPT !.task = t] \in WorkerState
      BY DEF TypeOK, WorkerState
    <3>. QED BY <2>1, <3>1, WorkerTable, Zenon DEF ProviderAccepts, TypeOK
  <2>. QED BY <2>1, <2>2 DEF ProviderAccepts, StartsTask, TypeOK, TaskStatus, rows
<1>. QED BY <1>1, <1>2, <1>3, <1>4, <1>5, <1>6, <1>7, <1>8, <1>9, <1>10, <1>11,
            <1>12, <1>13

LEMMA PollType ==
  ASSUME TypeOK, NEW w \in Workers, NEW j \in Jobs,
         \/ PollRunning(w, j) \/ PollError(w, j) \/ PollTimeout(w, j)
         \/ PollFailed(w, j) \/ PollFailedManual(w, j) \/ PollRejected(w, j)
         \/ PollSucceeded(w, j) \/ FetchFailed(w, j) \/ FetchLost(w, j)
         \/ SupervisorFence(w, j)
  PROVE  TypeOK'
<1>. job[j] \in JobRow /\ version[j] \in VersionRow
  BY DEF TypeOK
<1>. Unbound(job[j]) \in JobRow /\ [version[j] EXCEPT !.task = NoTask] \in VersionRow
  BY RowTypes DEF VersionRow
<1>1. CASE PollRunning(w, j)
  <2>1. /\ job' \in [Jobs -> JobRow] /\ version' \in [Jobs -> VersionRow]
        /\ reserve' \in [Jobs -> ReserveStatus]
        /\ worker' \in [Workers -> WorkerState]
    BY <1>1, DeferPollType DEF PollRunning
  <2>. QED BY <1>1, <2>1 DEF PollRunning, TypeOK, provider
<1>2. CASE PollError(w, j)
  <2>1. /\ job' \in [Jobs -> JobRow] /\ version' \in [Jobs -> VersionRow]
        /\ reserve' \in [Jobs -> ReserveStatus]
        /\ worker' \in [Workers -> WorkerState]
    BY <1>2, DeferPollType DEF PollError
  <2>. QED BY <1>2, <2>1, VideoJobAssumption DEF PollError, TypeOK, provider, Fault
<1>3. CASE PollTimeout(w, j)
  <2>1. /\ job' \in [Jobs -> JobRow] /\ version' \in [Jobs -> VersionRow]
        /\ reserve' \in [Jobs -> ReserveStatus]
        /\ worker' \in [Workers -> WorkerState]
    BY <1>3, FinishType DEF PollTimeout, JobStatus
  <2>. QED BY <1>3, <2>1 DEF PollTimeout, TypeOK, provider
<1>4. CASE PollFailed(w, j)
  <2>1. /\ job' \in [Jobs -> JobRow] /\ version' \in [Jobs -> VersionRow]
        /\ reserve' \in [Jobs -> ReserveStatus]
        /\ worker' \in [Workers -> WorkerState]
    BY <1>4, RetryType DEF PollFailed
  <2>. QED BY <1>4, <2>1, CallTypes DEF PollFailed, TypeOK, provider
<1>5. CASE PollFailedManual(w, j)
  <2>1. /\ job' \in [Jobs -> JobRow] /\ version' \in [Jobs -> VersionRow]
        /\ reserve' \in [Jobs -> ReserveStatus]
        /\ worker' \in [Workers -> WorkerState]
    BY <1>5, FinishType DEF PollFailedManual, JobStatus
  <2>. QED BY <1>5, <2>1 DEF PollFailedManual, TypeOK, provider
<1>6. CASE PollRejected(w, j)
  <2>1. job' \in [Jobs -> JobRow]
    <3>1. \A c \in CreateState :
            [Ended(job[j], "failed") EXCEPT !.pollRequired = FALSE,
                    !.resultAdoptable = FALSE, !.createState = c] \in JobRow
      BY EndedPolled DEF JobStatus
    <3>2. PICK c \in {job[j].createState, "model_rejected"} :
            job' = [job EXCEPT ![j] = [Ended(job[j], "failed") EXCEPT
                      !.pollRequired = FALSE, !.resultAdoptable = FALSE,
                      !.createState = c]]
      BY <1>6, Zenon DEF PollRejected
    <3>3. c \in CreateState
      BY DEF JobRow, CreateState
    <3>4. [Ended(job[j], "failed") EXCEPT !.pollRequired = FALSE,
             !.resultAdoptable = FALSE, !.createState = c] \in JobRow
      BY <3>1, <3>3, Zenon
    <3>. QED BY <3>2, <3>4, JobTable, Zenon DEF TypeOK
  <2>2. version' \in [Jobs -> VersionRow]
    BY <1>6 DEF PollRejected, TypeOK, VersionRow, VersionStatus, JobStatus
  <2>. QED BY <1>6, <2>1, <2>2, WorkerTypes
           DEF PollRejected, TypeOK, provider, ClaimStatus, ReserveStatus
<1>7. CASE PollSucceeded(w, j)
  BY <1>7, RowTypes, JobTable, WorkerTypes DEF PollSucceeded, TypeOK, provider, PC, Await
<1>8. CASE FetchFailed(w, j)
  <2>1. /\ job' \in [Jobs -> JobRow] /\ version' \in [Jobs -> VersionRow]
        /\ reserve' \in [Jobs -> ReserveStatus]
        /\ worker' \in [Workers -> WorkerState]
    <3>1. CASE Owns(w, j)
      BY <1>8, <3>1, RetryType DEF FetchFailed
    <3>2. CASE ~Owns(w, j)
      <4>1. version' \in [Jobs -> VersionRow]
        <5>1. version' = [version EXCEPT ![j].task = NoTask]
          BY <1>8, <3>2 DEF FetchFailed
        <5>. QED BY <5>1 DEF TypeOK, VersionRow
      <4>. QED BY <1>8, <3>2, <4>1, WorkerTypes DEF FetchFailed, TypeOK
    <3>. QED BY <3>1, <3>2
  <2>. QED BY <1>8, <2>1, CallTypes DEF FetchFailed, TypeOK, provider
<1>9. CASE FetchLost(w, j)
  <2>1. /\ job' \in [Jobs -> JobRow] /\ version' \in [Jobs -> VersionRow]
        /\ reserve' \in [Jobs -> ReserveStatus]
        /\ worker' \in [Workers -> WorkerState]
    BY <1>9, FinishType DEF FetchLost, JobStatus
  <2>. QED BY <1>9, <2>1 DEF FetchLost, TypeOK, provider
<1>10. CASE SupervisorFence(w, j)
  BY <1>10, CancelType, WorkerTypes DEF SupervisorFence, TypeOK, provider
<1>. QED BY <1>1, <1>2, <1>3, <1>4, <1>5, <1>6, <1>7, <1>8, <1>9, <1>10

LEMMA ResultType ==
  ASSUME TypeOK, NEW w \in Workers, NEW j \in Jobs,
         \/ CheckpointCandidate(w, j) \/ CheckpointQuarantined(w, j)
         \/ Downgrade(w, j) \/ KeepCandidate(w, j) \/ QaError(w, j)
         \/ QaPassed(w, j) \/ Adopt(w, j) \/ Settle(w, j)
  PROVE  TypeOK'
<1>. job[j] \in JobRow /\ version[j] \in VersionRow
  BY DEF TypeOK
<1>1. CASE CheckpointCandidate(w, j)
  <2>1. job' \in [Jobs -> JobRow]
    <3>1. [Renewed(job[j]) EXCEPT !.pollRequired = FALSE] \in JobRow
      BY RowTypes
    <3>. QED BY <1>1, <3>1, JobTable DEF CheckpointCandidate, TypeOK
  <2>2. version' \in [Jobs -> VersionRow]
    BY <1>1 DEF CheckpointCandidate, TypeOK, VersionRow, VersionStatus, JobStatus
  <2>. QED BY <1>1, <2>1, <2>2, WorkerTypes
           DEF CheckpointCandidate, TypeOK, provider, ClaimStatus, PC, Await
<1>2. CASE CheckpointQuarantined(w, j)
  <2>1. job' \in [Jobs -> JobRow]
    <3>1. [Ended(job[j], "succeeded") EXCEPT !.pollRequired = FALSE] \in JobRow
      BY RowTypes DEF JobStatus
    <3>. QED BY <1>2, <3>1, JobTable DEF CheckpointQuarantined, TypeOK
  <2>2. version' \in [Jobs -> VersionRow]
    BY <1>2 DEF CheckpointQuarantined, TypeOK, VersionRow, VersionStatus
  <2>. QED BY <1>2, <2>1, <2>2, WorkerTypes
           DEF CheckpointQuarantined, TypeOK, provider, ClaimStatus, ReserveStatus
<1>3. CASE Downgrade(w, j)
  <2>1. job' \in [Jobs -> JobRow]
    BY <1>3, RowTypes, JobTable DEF Downgrade, TypeOK, JobStatus
  <2>2. version' \in [Jobs -> VersionRow]
    BY <1>3 DEF Downgrade, TypeOK, VersionRow, VersionStatus, JobStatus
  <2>. QED BY <1>3, <2>1, <2>2, WorkerTypes DEF Downgrade, TypeOK, provider
<1>4. CASE KeepCandidate(w, j)
  BY <1>4, RowTypes, JobTable, WorkerTypes DEF KeepCandidate, TypeOK, provider, JobStatus
<1>5. CASE QaError(w, j)
  <2>1. /\ job' \in [Jobs -> JobRow] /\ version' \in [Jobs -> VersionRow]
        /\ reserve' \in [Jobs -> ReserveStatus]
        /\ worker' \in [Workers -> WorkerState]
    BY <1>5, FinishType DEF QaError, JobStatus
  <2>. QED BY <1>5, <2>1 DEF QaError, TypeOK, provider
<1>6. CASE QaPassed(w, j)
  BY <1>6, RowTypes, JobTable, WorkerTypes DEF QaPassed, TypeOK, provider, PC, Await
<1>7. CASE Adopt(w, j)
  <2>1. job' \in [Jobs -> JobRow]
    <3>1. CASE job[j].leaseOwner = w
      <4>1. job' = [job EXCEPT ![j] = Ended(job[j], "succeeded")]
        BY <1>7, <3>1 DEF Adopt
      <4>. QED BY <4>1, RowTypes, JobTable DEF TypeOK, JobStatus
    <3>. QED BY <1>7, <3>1 DEF Adopt, TypeOK
  <2>2. adopted' \in [Jobs -> BOOLEAN]
    BY <1>7, SelectedType DEF Adopt
  <2>. QED BY <1>7, <2>1, <2>2, WorkerTypes DEF Adopt, TypeOK, provider
<1>8. CASE Settle(w, j)
  <2>1. reserve' \in [Jobs -> ReserveStatus]
    BY <1>8 DEF Settle, TypeOK, WorkerState, ReserveStatus
  <2>. QED BY <1>8, <2>1, WorkerTypes DEF Settle, TypeOK, provider
<1>. QED BY <1>1, <1>2, <1>3, <1>4, <1>5, <1>6, <1>7, <1>8

LEMMA EventType ==
  ASSUME TypeOK, NEW j \in Jobs,
         \/ JobEvent(j)
         \/ \E w \in Workers : Interrupt(w, j)
  PROVE  TypeOK'
<1>. job[j] \in JobRow /\ version[j] \in VersionRow
  BY DEF TypeOK
<1>1. CASE StopShot(j)
  <2>1. stopped' \in [Jobs -> {"no", "stopped", "refused", "resumed"}]
    BY <1>1 DEF StopShot, TypeOK
  <2>2. /\ job' \in [Jobs -> JobRow]
        /\ version' \in [Jobs -> VersionRow]
        /\ reserve' \in [Jobs -> ReserveStatus]
        /\ claim' \in [Jobs -> ClaimStatus]
    BY <1>1, CancelType DEF StopShot, TypeOK
  <2>. QED BY <1>1, <2>1, <2>2 DEF StopShot, TypeOK, provider
<1>2. CASE RecoverStale(j)
  <2>1. job' \in [Jobs -> JobRow]
    <3>1. [Freed(job[j]) EXCEPT !.status = "waiting_provider",
                                !.createState = "accepted"] \in JobRow
      BY RowTypes DEF JobStatus, CreateState
    <3>. QED BY <1>2, <3>1, JobTable DEF RecoverStale, TypeOK
  <2>2. version' \in [Jobs -> VersionRow]
    BY <1>2 DEF RecoverStale, TypeOK, VersionRow, VersionStatus, JobStatus
  <2>. QED BY <1>2, <2>1, <2>2 DEF RecoverStale, TypeOK, ReserveStatus, provider
<1>3. CASE LeaseExpires(j) \/ OrphanLeaseExpires(j)
  <2>1. job' \in [Jobs -> JobRow]
    <3>1. job' = [job EXCEPT ![j].leaseExpired = TRUE]
      BY <1>3 DEF LeaseExpires, OrphanLeaseExpires
    <3>. QED BY <3>1 DEF TypeOK, JobRow
  <2>2. faults' \in 0 .. MaxFaults
    BY <1>3, VideoJobAssumption DEF LeaseExpires, OrphanLeaseExpires, Fault, TypeOK
  <2>. QED BY <1>3, <2>1, <2>2 DEF LeaseExpires, OrphanLeaseExpires, TypeOK, provider
<1>4. CASE \E t \in Tasks : ProviderFinishes(j, t)
  BY <1>4 DEF ProviderFinishes, TypeOK, TaskStatus, rows
<1>5. CASE \E t \in Tasks : ProviderAcceptsLate(j, t)
  BY <1>5 DEF ProviderAcceptsLate, StartsTask, TypeOK, TaskStatus, rows
<1>6. CASE \E w \in Workers : Interrupt(w, j)
  <2>1. PICK w \in Workers : Interrupt(w, j)
    BY <1>6
  <2>2. job' \in [Jobs -> JobRow] /\ reserve' \in [Jobs -> ReserveStatus]
    <3>1. CASE job[j].status = "running" /\ job[j].leaseOwner = w
      <4>. DEFINE s == IF \/ version[j].task # NoTask
                          \/ /\ job[j].nonCancellable
                             /\ job[j].createState \in
                                  {"submitting", "accepted", "unknown"}
                         THEN "waiting_provider" ELSE "queued"
      <4>1. job' = [job EXCEPT ![j] = [Freed(@) EXCEPT !.status = s]] /\ Unreserve(j)
        BY <2>1, <3>1 DEF Interrupt
      <4>2. s \in JobStatus
        BY DEF JobStatus
      <4>. HIDE DEF s
      <4>3. [Freed(job[j]) EXCEPT !.status = s] \in JobRow
        BY <4>2, RowTypes
      <4>. QED BY <4>1, <4>3, JobTable, UnreserveType DEF TypeOK
    <3>. QED BY <2>1, <3>1 DEF Interrupt, TypeOK
  <2>3. faults' \in 0 .. MaxFaults /\ late' \in SUBSET Jobs
    BY <2>1, VideoJobAssumption DEF Interrupt, Fault, GiveUp, TypeOK
  <2>. QED BY <2>1, <2>2, <2>3, WorkerTypes DEF Interrupt, TypeOK
<1>. QED BY <1>1, <1>2, <1>3, <1>4, <1>5, <1>6 DEF JobEvent

LEMMA SweepType ==
  ASSUME TypeOK, SweepSelect \/ SweepRecover
  PROVE  TypeOK'
<1>1. CASE SweepSelect
  BY <1>1 DEF SweepSelect, TypeOK, rows, provider
<1>2. CASE SweepRecover
  <2>1. \A j \in Jobs : RecoveredRow(job[j]) \in JobRow
    BY RowTypes DEF TypeOK
  <2>2. job' \in [Jobs -> JobRow]
    BY <1>2, <2>1 DEF SweepRecover, TypeOK
  <2>. QED BY <1>2, <2>2 DEF SweepRecover, TypeOK, provider
<1>. QED BY <1>1, <1>2

LEMMA EpisodeType ==
  ASSUME TypeOK, PauseEpisode \/ ResumeEpisode \/ CrashAndRestart
  PROVE  TypeOK'
<1>1. CASE PauseEpisode
  <2>. DEFINE P == {j \in Jobs : job[j].status \in Cancellable
                                   /\ ~job[j].cancelRequested}
  <2>1. job' \in [Jobs -> JobRow]
    <3>1. \A j \in Jobs : /\ job[j] \in JobRow
                          /\ [Freed(job[j]) EXCEPT !.status = "paused"] \in JobRow
      BY RowTypes DEF TypeOK, JobStatus
    <3>2. job' = [j \in Jobs |-> IF j \in P
                    THEN [Freed(job[j]) EXCEPT !.status = "paused"] ELSE job[j]]
      BY <1>1 DEF PauseEpisode
    <3>. HIDE DEF P
    <3>. QED BY <3>1, <3>2
  <2>2. version' \in [Jobs -> VersionRow]
    <3>1. \A j \in Jobs : /\ version[j] \in VersionRow
                          /\ [version[j] EXCEPT !.status = "paused"] \in VersionRow
      BY DEF TypeOK, VersionRow, VersionStatus, JobStatus
    <3>2. version' = [j \in Jobs |->
                        IF j \in P /\ version[j].status \in Cancellable
                          THEN [version[j] EXCEPT !.status = "paused"]
                          ELSE version[j]]
      BY <1>1 DEF PauseEpisode
    <3>. HIDE DEF P
    <3>. QED BY <3>1, <3>2
  <2>3. reserve' \in [Jobs -> ReserveStatus]
    BY <1>1 DEF PauseEpisode, TypeOK, ReserveStatus
  <2>. QED BY <1>1, <2>1, <2>2, <2>3, VideoJobAssumption
           DEF PauseEpisode, Fault, TypeOK, provider
<1>2. CASE ResumeEpisode
  <2>1. PICK found \in SUBSET Jobs, R \in SUBSET Jobs, task \in [Jobs -> Tasks \cup {NoTask}],
             bound \in [Jobs -> JobRow] :
          /\ job' = [j \in Jobs |->
               IF j \in R
                 THEN [Freed(bound[j]) EXCEPT
                         !.status = IF task[j] # NoTask THEN "waiting_provider"
                                                        ELSE "queued",
                         !.slotActive = TRUE]
                 ELSE bound[j]]
          /\ version' = [j \in Jobs |->
               [version[j] EXCEPT !.task = task[j],
                  !.status = IF j \in R /\ @ = "paused" THEN "queued" ELSE @]]
          /\ stopped' = [j \in Jobs |-> IF j \in R /\ stopped[j] = "stopped"
                                          THEN "resumed" ELSE stopped[j]]
    <3>. DEFINE S == {j \in Jobs : job[j].status = "paused" /\ ~job[j].cancelRequested}
                lost == {j \in S : version[j].task = NoTask /\ MayHaveAccepted(job[j])}
                found == {j \in lost : Handle(j) # NoTask}
                R == IF lost \subseteq found THEN S ELSE {}
                task == [j \in Jobs |-> IF j \in found THEN Handle(j)
                                                        ELSE version[j].task]
                bound == [j \in Jobs |->
                            IF j \in found
                              THEN [job[j] EXCEPT !.createState = "accepted",
                                                  !.nonCancellable = TRUE]
                              ELSE job[j]]
    <3>1. found \in SUBSET Jobs /\ R \in SUBSET Jobs
      OBVIOUS
    <3>2. \A j \in Jobs : /\ job[j] \in JobRow /\ version[j] \in VersionRow
                          /\ Handle(j) \in Tasks \cup {NoTask}
                          /\ [job[j] EXCEPT !.createState = "accepted",
                                            !.nonCancellable = TRUE] \in JobRow
      BY HandleType, RowTypes DEF TypeOK, CreateState
    <3>3. task \in [Jobs -> Tasks \cup {NoTask}]
      <4>. HIDE DEF found
      <4>. QED BY <3>2 DEF VersionRow
    <3>4. bound \in [Jobs -> JobRow]
      <4>. HIDE DEF found
      <4>. QED BY <3>2
    <3>5. /\ job' = [j \in Jobs |->
               IF j \in R
                 THEN [Freed(bound[j]) EXCEPT
                         !.status = IF task[j] # NoTask THEN "waiting_provider"
                                                        ELSE "queued",
                         !.slotActive = TRUE]
                 ELSE bound[j]]
          /\ version' = [j \in Jobs |->
               [version[j] EXCEPT !.task = task[j],
                  !.status = IF j \in R /\ @ = "paused" THEN "queued" ELSE @]]
          /\ stopped' = [j \in Jobs |-> IF j \in R /\ stopped[j] = "stopped"
                                          THEN "resumed" ELSE stopped[j]]
      BY <1>2, Zenon DEF ResumeEpisode
    <3>. QED BY <3>1, <3>3, <3>4, <3>5, Zenon
  <2>2. job' \in [Jobs -> JobRow]
    <3>1. \A j \in Jobs : \A s \in JobStatus :
            [Freed(bound[j]) EXCEPT !.status = s, !.slotActive = TRUE] \in JobRow
      BY ResumedRow
    <3>. QED BY <2>1, <3>1 DEF JobStatus
  <2>3. version' \in [Jobs -> VersionRow]
    <3>1. \A j \in Jobs : /\ version[j] \in VersionRow /\ version[j].status \in VersionStatus
                          /\ task[j] \in Tasks \cup {NoTask}
      BY <2>1 DEF TypeOK, VersionRow
    <3>2. \A j \in Jobs :
            [version[j] EXCEPT !.task = task[j],
               !.status = IF j \in R /\ @ = "paused" THEN "queued" ELSE @] \in VersionRow
      BY <3>1, VersionTypes DEF VersionStatus, JobStatus
    <3>. QED BY <2>1, <3>2
  <2>. QED BY <1>2, <2>1, <2>2, <2>3 DEF ResumeEpisode, TypeOK, provider
<1>3. CASE CrashAndRestart
  <2>1. job' \in [Jobs -> JobRow]
    <3>1. \A j \in Jobs : job[j] \in JobRow /\ RecoveredRow(job[j]) \in JobRow
      BY RowTypes DEF TypeOK
    <3>2. PICK R : job' = [j \in Jobs |-> IF j \in R THEN RecoveredRow(job[j]) ELSE job[j]]
      BY <1>3 DEF CrashAndRestart
    <3>. QED BY <3>1, <3>2
  <2>2. worker' \in [Workers -> WorkerState]
    BY <1>3, VideoJobAssumption
       DEF CrashAndRestart, IdleWorker, WorkerState, PC, Await, NoTask
  <2>3. faults' \in 0 .. MaxFaults /\ late' \in SUBSET Jobs
    BY <1>3, VideoJobAssumption DEF CrashAndRestart, Fault, TypeOK
  <2>. QED BY <1>3, <2>1, <2>2, <2>3 DEF CrashAndRestart, TypeOK
<1>. QED BY <1>1, <1>2, <1>3

LEMMA StepType == TypeOK /\ [Next]_vars => TypeOK'
<1>. SUFFICES ASSUME TypeOK, [Next]_vars PROVE TypeOK'
  OBVIOUS
<1>1. CASE Next
  <2>1. ASSUME NEW w \in Workers, NEW j \in Jobs, WorkerEvent(w, j)
        PROVE  TypeOK'
    BY <2>1, BeforeSubmitType, SubmitType, PollType, ResultType, EventType
       DEF WorkerEvent, WorkerStep, LoopStep, ThreadStep
  <2>2. ASSUME NEW j \in Jobs, JobEvent(j)
        PROVE  TypeOK'
    BY <2>2, EventType
  <2>. QED BY <1>1, <2>1, <2>2, EpisodeType, SweepType DEF Next
<1>2. CASE UNCHANGED vars
  BY <1>2 DEF vars, TypeOK
<1>. QED BY <1>1, <1>2

\* The rows, the ledgers and the workers keep their types, and no job is retried
\* more often than max_retries (_schedule_job_retry): _run_job and everything
\* that interrupts it, for any number of jobs, workers, tasks and faults.
THEOREM TypeCorrect == Spec => []TypeOK
  BY InitType, StepType, PTL DEF Spec

=============================================================================
