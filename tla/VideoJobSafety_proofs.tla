----------------------- MODULE VideoJobSafety_proofs -----------------------
(***************************************************************************)
(* The paid video job never pays for two tasks at once, never forgets one, *)
(* and keeps the claim of each: SafetyInv is inductive.  A jobs row belongs *)
(* to its lease owner, and a cancelled row to nobody.  A stop stands, only *)
(* a job that may have a create already exceeds the cap of its episode, and *)
(* every step of the job is one that its paid operation allows.            *)
(***************************************************************************)
EXTENDS VideoJob_proofs, FiniteSetTheorems

-----------------------------------------------------------------------------
(* Steps that cannot disturb the invariant of a job.                         *)

\* What JobInv(j) says of workers concerns these.
Before  == {"prepare", "submit"}
Engaging == Before \cup {"slot", "sending", "accept", "poll", "fetch"}

\* x stays where it is and gets no lease, or leaves, or has not submitted yet.
CalmWorker(x, j) ==
    \/ worker'[x] = worker[x] /\ (Owns(x, j)' => Owns(x, j))
    \/ ~(worker'[x].job = j /\ worker'[x].pc \in Engaging)
    \/ worker'[x].pc \in Before /\ worker'[x].task = NoTask

\* The step adds no trace of a task of j and takes no protection away.
Calm(j) ==
    /\ Live(j)' \subseteq Live(j)
    /\ Logged(j)' \subseteq Logged(j)
    /\ Unlogged(j)' \subseteq Unlogged(j)
    /\ version'[j].task \in {version[j].task, NoTask}
    /\ \A t \in Tasks : /\ tasks[j][t] = "succeeded" => tasks'[j][t] = "succeeded"
                        /\ calls[j][t] # "none" => calls'[j][t] # "none"
    /\ job[j].nonCancellable => job'[j].nonCancellable
    /\ j \in late' <=> j \in late
    /\ \/ claim'[j] = claim[j] \/ claim'[j] \in {"reserved", "accepted", "settled"}
       \/ ~job[j].nonCancellable
    /\ \A x \in Workers : CalmWorker(x, j)

LEMMA CalmBound ==
  ASSUME NEW j \in Jobs, Calm(j)
  PROVE  Bound(j)' \subseteq Bound(j)
  BY DEF Calm, Bound

LEMMA CalmWorkers ==
  ASSUME NEW j \in Jobs, Calm(j)
  PROVE  /\ Submitting(j)' \subseteq Submitting(j)
         /\ Engaged(j)' \subseteq Engaged(j)
         /\ \A x \in Submitting(j)' \cup Engaged(j)' :
              worker'[x] = worker[x] /\ (Owns(x, j)' => Owns(x, j))
  BY DEF Calm, CalmWorker, Submitting, Engaged, At, Engaging, Before

LEMMA CalmStep ==
  ASSUME TypeOK, NEW j \in Jobs, JobInv(j), Calm(j)
  PROVE  JobInv(j)'
<1>1. OneSubmission(j)'
  BY CalmBound, CalmWorkers DEF JobInv, OneSubmission, Calm
<1>2. LateAlone(j)'
  BY CalmBound DEF JobInv, LateAlone, Calm
<1>3. OneBound(j)'
  BY CalmBound DEF JobInv, OneBound, Calm
<1>4. OwnerHasTheTask(j)'
  BY CalmBound, CalmWorkers DEF JobInv, OwnerHasTheTask, Calm
<1>5. KnowsItsTask(j)'
  <2>1. \A w \in Workers : worker'[w].job = j
         => (worker'[w].pc \in {"prepare", "submit", "slot"} => worker'[w].task = NoTask)
    BY DEF JobInv, KnowsItsTask, Calm, CalmWorker, Engaging, Before
  <2>2. \A w \in Engaged(j)' :
         /\ worker'[w].task \in Tasks /\ calls'[j][worker'[w].task] # "none"
         /\ worker'[w].pc = "fetch" => tasks'[j][worker'[w].task] = "succeeded"
    BY CalmWorkers DEF JobInv, KnowsItsTask, Calm
  <2>3. version'[j].task # NoTask => calls'[j][version'[j].task] # "none"
    BY DEF JobInv, KnowsItsTask, Calm, TypeOK, VersionRow
  <2>. QED BY <2>1, <2>2, <2>3 DEF KnowsItsTask
<1>6. ClaimHeld(j)'
  <2>1. Live(j)' \subseteq Live(j) /\ Submitting(j)' \subseteq Submitting(j)
        /\ (j \in late' <=> j \in late)
    BY CalmWorkers DEF Calm
  <2>2. CASE ~job[j].nonCancellable
    <3>1. Live(j) = {} /\ Submitting(j) = {} /\ j \notin late
      BY <2>2 DEF JobInv, OneSubmission, LateAlone, OneBound, Bound
    <3>. QED BY <2>1, <3>1 DEF ClaimHeld
  <2>. QED BY <2>1, <2>2 DEF JobInv, ClaimHeld, Calm
<1>. QED BY <1>1, <1>2, <1>3, <1>4, <1>5, <1>6 DEF JobInv

-----------------------------------------------------------------------------
(* The other jobs.                                                           *)

\* A step at job j, if of a worker then of w, leaves the other jobs alone.
Local(w, j) ==
    /\ \A k \in Jobs \ {j} :
         /\ job'[k] = job[k] /\ version'[k] = version[k] /\ claim'[k] = claim[k]
         /\ calls'[k] = calls[k] /\ tasks'[k] = tasks[k]
         /\ k \in late' <=> k \in late
    /\ \A x \in Workers \ {w} : worker'[x] = worker[x]
    /\ worker'[w] = worker[w] \/ worker'[w].job \in {j, None}

LEMMA LocalCalm ==
  ASSUME NEW w, NEW j \in Jobs, Local(w, j), NEW k \in Jobs \ {j}
  PROVE  Calm(k)
<1>1. /\ Live(k)' = Live(k) /\ Logged(k)' = Logged(k) /\ Unlogged(k)' = Unlogged(k)
  BY DEF Local, Live, Logged, Unlogged
<1>2. ASSUME NEW x \in Workers PROVE CalmWorker(x, k)
  <2>1. Owns(x, k)' => Owns(x, k)
    BY DEF Local, Owns
  <2>2. worker'[x] = worker[x] \/ worker'[x].job \in {j, None}
    BY DEF Local
  <2>. QED BY <2>1, <2>2, VideoJobAssumption DEF CalmWorker
<1>. QED BY <1>1, <1>2 DEF Calm, Local


LEMMA PartsLocal ==
  ASSUME TypeOK, NEW w \in Workers, NEW j \in Jobs, worker[w].job = j,
         \/ Idle(w)
         \/ \E pc \in PC : GoTo(w, pc)
         \/ \E pay \in {"settled", "released"} : ThenSettle(w, pay)
  PROVE  /\ \A x \in Workers \ {w} : worker'[x] = worker[x]
         /\ worker'[w].job \in {j, None}
<1>. worker \in [Workers -> WorkerState]
  BY DEF TypeOK
<1>1. CASE Idle(w)
  BY <1>1 DEF Idle, IdleWorker
<1>2. CASE \E pc \in PC : GoTo(w, pc)
  BY <1>2 DEF GoTo, WorkerState
<1>3. CASE \E pay \in {"settled", "released"} : ThenSettle(w, pay)
  BY <1>3 DEF ThenSettle, WorkerState
<1>. QED BY <1>1, <1>2, <1>3

LEMMA HandlersLocal ==
  ASSUME TypeOK, NEW w \in Workers, NEW j \in Jobs, worker[w].job = j,
         NEW r, NEW v,
         UNCHANGED <<tasks, late>>, \A k \in Jobs \ {j} : calls'[k] = calls[k],
         \A k \in Jobs \ {j} : claim'[k] = claim[k],
         \/ RetryOrHandOver(w, j, r, v)
         \/ \E s \in JobStatus : Finish(w, j, r, v, s)
         \/ DeferPoll(w, j)
  PROVE  Local(w, j)
<1>. job \in [Jobs -> JobRow] /\ version \in [Jobs -> VersionRow]
  BY DEF TypeOK
<1>1. \/ Idle(w)
      \/ \E pay \in {"settled", "released"} : ThenSettle(w, pay)
  BY DEF RetryOrHandOver, Retry, Finish, DeferPoll
<1>2. \A k \in Jobs \ {j} : job'[k] = job[k] /\ version'[k] = version[k]
  BY DEF RetryOrHandOver, Retry, Finish, DeferPoll
<1>. QED BY <1>1, <1>2, PartsLocal DEF Local

LEMMA WorkerLocal ==
  ASSUME TypeOK, NEW w \in Workers, NEW j \in Jobs, WorkerEvent(w, j)
  PROVE  Local(w, j)
<1>. job \in [Jobs -> JobRow] /\ version \in [Jobs -> VersionRow]
  BY DEF TypeOK
<1>. claim \in [Jobs -> ClaimStatus] /\ calls \in [Jobs -> [Tasks -> CallStatus]]
  BY DEF TypeOK
<1>. worker \in [Workers -> WorkerState] /\ tasks \in [Jobs -> [Tasks -> TaskStatus]]
  BY DEF TypeOK
<1>. "submit" \in PC /\ "slot" \in PC /\ "sending" \in PC /\ "poll" \in PC /\ "fetch" \in PC
     /\ "qa" \in PC /\ "adopt" \in PC
  BY DEF PC, Await
<1>1. CASE Claim(w, j)
  BY <1>1 DEF Claim, Local, IdleWorker, provider
<1>2. CASE Heartbeat(w, j)
  BY <1>2 DEF Heartbeat, Local, provider
<1>3. CASE LeaseLost(w, j)
  BY <1>3, PartsLocal DEF LeaseLost, Local, rows, GiveUp
<1>4. CASE Load(w, j)
  <2>1. worker'[w].job = j /\ \A x \in Workers \ {w} : worker'[x] = worker[x]
    BY <1>4 DEF Load, At, WorkerState
  <2>. QED BY <1>4, <2>1 DEF Load, Local, rows, provider
<1>5. CASE LoadUnresolved(w, j)
  BY <1>5, PartsLocal DEF LoadUnresolved, Local, At, provider, HandOver
<1>6. CASE ReviewFence(w, j)
  BY <1>6, PartsLocal DEF ReviewFence, Local, At, provider
<1>7. CASE Defer(w, j)
  BY <1>7, PartsLocal DEF Defer, Local, At, provider
<1>8. CASE InputRepair(w, j)
  BY <1>8, PartsLocal DEF InputRepair, Local, At, provider
<1>9. CASE PlanStale(w, j)
  BY <1>9, PartsLocal DEF PlanStale, Local, At, provider, GoStale
<1>10. CASE InputError(w, j)
  BY <1>10, HandlersLocal DEF InputError, At, provider, JobStatus
<1>11. CASE MarkSubmitting(w, j)
  BY <1>11, PartsLocal DEF MarkSubmitting, Local, At, provider
<1>12. CASE ClaimSlot(w, j)
  BY <1>12, PartsLocal DEF ClaimSlot, Local, At, provider
<1>13. CASE SlotFull(w, j)
  BY <1>13, PartsLocal DEF SlotFull, Local, At, provider
<1>14. CASE AuthorityStale(w, j)
  <2>1. CASE GoStale(w, j, Resubmittable(job[j])) /\ UNCHANGED reserve
    BY <1>14, <2>1, PartsLocal
       DEF AuthorityStale, BeforeTheCall, Local, At, provider, GoStale
  <2>2. CASE Finish(w, j, Resubmittable(job[j]), version[j], "failed")
    BY <1>14, <2>2, HandlersLocal
       DEF AuthorityStale, BeforeTheCall, At, provider, JobStatus
  <2>. QED BY <1>14, <2>1, <2>2 DEF AuthorityStale
<1>15. CASE Send(w, j)
  BY <1>15, PartsLocal DEF Send, Local, At, provider, rows
<1>16. CASE ReplyAccepted(w, j)
  <2>1. worker'[w].job = j /\ \A x \in Workers \ {w} : worker'[x] = worker[x]
    BY <1>16 DEF ReplyAccepted, At, WorkerState
  <2>. QED BY <1>16, <2>1 DEF ReplyAccepted, Local, provider
<1>17. CASE ReplyRejected(w, j)
  <2>. DEFINE r == Resubmittable(job[j])
  <2>1. \/ RetryOrHandOver(w, j, r, version[j])
        \/ Finish(w, j, r, version[j], "waiting_human")
        \/ \E c \in {"not_started", "model_rejected"} :
             Finish(w, j, [r EXCEPT !.createState = c], version[j], "failed")
    BY <1>17 DEF ReplyRejected
  <2>2. UNCHANGED <<tasks, late, calls>> /\ \A k \in Jobs \ {j} : claim'[k] = claim[k]
    BY <1>17 DEF ReplyRejected, provider
  <2>. HIDE DEF r
  <2>. QED BY <1>17, <2>1, <2>2, HandlersLocal DEF ReplyRejected, At, JobStatus
<1>18. CASE ReplyUnknown(w, j)
  BY <1>18, PartsLocal DEF ReplyUnknown, HandOver, GiveUp, Local, At
<1>19. CASE CommitAcceptance(w, j)
  BY <1>19, PartsLocal DEF CommitAcceptance, Local, At, provider
<1>20. CASE UnexpectedError(w, j)
  <2>1. /\ \A k \in Jobs \ {j} : job'[k] = job[k] /\ version'[k] = version[k]
        /\ Idle(w) \/ \E pay \in {"settled", "released"} : ThenSettle(w, pay)
    BY <1>20 DEF UnexpectedError, DeferPoll, Finish
  <2>. QED BY <1>20, <2>1, PartsLocal DEF UnexpectedError, GiveUp, Local
<1>21. CASE PollRunning(w, j)
  BY <1>21, HandlersLocal DEF PollRunning, At, provider, JobStatus, Polled
<1>22. CASE PollError(w, j)
  BY <1>22, HandlersLocal DEF PollError, At, provider, JobStatus
<1>23. CASE PollTimeout(w, j)
  BY <1>23, HandlersLocal DEF PollTimeout, At, provider, JobStatus, Polled
<1>24. CASE PollFailed(w, j)
  BY <1>24, HandlersLocal DEF PollFailed, At, provider, JobStatus, Polled
<1>25. CASE PollFailedManual(w, j)
  BY <1>25, HandlersLocal DEF PollFailedManual, At, provider, JobStatus, Polled
<1>26. CASE FetchLost(w, j)
  BY <1>26, HandlersLocal DEF FetchLost, At, provider, JobStatus
<1>27. CASE QaError(w, j)
  BY <1>27, HandlersLocal DEF QaError, At, provider, JobStatus
<1>28. CASE FetchFailed(w, j)
  <2>1. CASE Owns(w, j)
    BY <1>28, <2>1, HandlersLocal DEF FetchFailed, At, provider
  <2>2. CASE ~Owns(w, j)
    BY <1>28, <2>2, PartsLocal DEF FetchFailed, Local, At, provider
  <2>. QED BY <2>1, <2>2
<1>29. CASE PollRejected(w, j)
  BY <1>29, PartsLocal DEF PollRejected, Local, At, provider, Polled
<1>30. CASE PollSucceeded(w, j)
  BY <1>30, PartsLocal DEF PollSucceeded, Local, At, provider, Polled
<1>31. CASE CheckpointCandidate(w, j)
  BY <1>31, PartsLocal DEF CheckpointCandidate, Local, At, provider
<1>32. CASE CheckpointQuarantined(w, j)
  BY <1>32, PartsLocal DEF CheckpointQuarantined, Local, At, provider
<1>33. CASE SupervisorFence(w, j)
  BY <1>33, PartsLocal DEF SupervisorFence, Local, At, provider, RequestCancel, IsolateResult, CancelJob
<1>34. CASE Downgrade(w, j)
  BY <1>34, PartsLocal DEF Downgrade, Local, At, provider
<1>35. CASE KeepCandidate(w, j)
  BY <1>35, PartsLocal DEF KeepCandidate, Local, At, provider
<1>36. CASE QaPassed(w, j)
  BY <1>36, PartsLocal DEF QaPassed, Local, At, provider
<1>37. CASE Adopt(w, j)
  BY <1>37, PartsLocal DEF Adopt, Local, At, provider
<1>38. CASE Settle(w, j)
  BY <1>38, PartsLocal DEF Settle, Local, At, provider
<1>39. CASE Interrupt(w, j)
  BY <1>39, PartsLocal DEF Interrupt, Local, GiveUp
<1>40. CASE \E t \in Tasks : ProviderAccepts(w, j, t)
  <2>1. worker'[w].job = j /\ \A x \in Workers \ {w} : worker'[x] = worker[x]
    BY <1>40 DEF ProviderAccepts, At, WorkerState
  <2>. QED BY <1>40, <2>1 DEF ProviderAccepts, StartsTask, Local, rows
<1>41. CASE ReleaseRefused(w, j)
  BY <1>41, PartsLocal DEF ReleaseRefused, Local, At, provider, rows
<1>42. CASE InterruptAtSlot(w, j)
  BY <1>42, PartsLocal DEF InterruptAtSlot, BeforeTheCall, Local, At, provider
<1>. QED BY <1>1, <1>2, <1>3, <1>4, <1>5, <1>6, <1>7, <1>8, <1>9, <1>10,
            <1>11, <1>12, <1>13, <1>14, <1>15, <1>16, <1>17, <1>18, <1>19,
            <1>20, <1>21, <1>22, <1>23, <1>24, <1>25, <1>26, <1>27, <1>28,
            <1>29, <1>30, <1>31, <1>32, <1>33, <1>34, <1>35, <1>36, <1>37,
            <1>38, <1>39, <1>40, <1>41, <1>42
     DEF WorkerEvent, WorkerStep, LoopStep, ThreadStep

LEMMA EventLocal ==
  ASSUME TypeOK, NEW j \in Jobs, JobEvent(j), NEW w
  PROVE  Local(w, j)
<1>. /\ job \in [Jobs -> JobRow] /\ version \in [Jobs -> VersionRow]
     /\ claim \in [Jobs -> ClaimStatus] /\ tasks \in [Jobs -> [Tasks -> TaskStatus]]
  BY DEF TypeOK
<1>1. CASE StopShot(j)
  BY <1>1 DEF StopShot, RequestCancel, IsolateResult, CancelJob, Local, provider
<1>2. CASE RecoverStale(j)
  BY <1>2 DEF RecoverStale, Local, provider
<1>3. CASE LeaseExpires(j) \/ OrphanLeaseExpires(j)
  BY <1>3 DEF LeaseExpires, OrphanLeaseExpires, Local, provider
<1>4. CASE \E t \in Tasks : ProviderFinishes(j, t)
  BY <1>4 DEF ProviderFinishes, Local, rows
<1>5. CASE \E t \in Tasks : ProviderAcceptsLate(j, t)
  BY <1>5 DEF ProviderAcceptsLate, StartsTask, Local, rows
<1>. QED BY <1>1, <1>2, <1>3, <1>4, <1>5 DEF JobEvent

-----------------------------------------------------------------------------
(* The steps at j that leave no work behind.                                 *)

\* The protected fields of a row, through the writes of the operations.
LEMMA FreedFields ==
  ASSUME NEW r \in JobRow, NEW s \in JobStatus
  PROVE  /\ Freed(r).nonCancellable = r.nonCancellable
         /\ [Freed(r) EXCEPT !.status = s].nonCancellable = r.nonCancellable
         /\ [Freed(r) EXCEPT !.status = s].status = s
  BY DEF JobRow, Freed

LEMMA EndedFields ==
  ASSUME NEW r \in JobRow, NEW s \in JobStatus
  PROVE  Ended(r, s).status = s /\ Ended(r, s).nonCancellable = r.nonCancellable
  BY DEF JobRow, Freed, Ended

LEMMA RenewedFields ==
  ASSUME NEW r \in JobRow
  PROVE  /\ Renewed(r).nonCancellable = r.nonCancellable
         /\ Renewed(r).status = r.status
         /\ Renewed(r).leaseOwner = r.leaseOwner
         /\ Renewed(r).cancelRequested = r.cancelRequested
  BY DEF JobRow, Renewed

LEMMA ProtectedFields ==
  ASSUME NEW r \in JobRow
  PROVE  /\ Unbound(r).nonCancellable = FALSE
         /\ Unknown(r).nonCancellable = TRUE
         /\ Isolated(r).nonCancellable = r.nonCancellable
         /\ Isolated(r).status = "waiting_provider"
         /\ RecoveredRow(r).nonCancellable = r.nonCancellable
         /\ RecoveredRow(r).status # "running"
  BY DEF JobRow, Freed, Unbound, Unknown, Isolated, RecoveredRow

\* j runs no longer and no protection of its row is lost.
Released(j) ==
    /\ job'[j].status # "running"
    /\ job[j].nonCancellable => job'[j].nonCancellable

LEMMA PartsLeave ==
  ASSUME TypeOK, NEW w \in Workers,
         Idle(w) \/ \E pay \in {"settled", "released"} : ThenSettle(w, pay)
  PROVE  /\ worker'[w].pc \notin Engaging
         /\ \A x \in Workers \ {w} : worker'[x] = worker[x]
<1>. worker \in [Workers -> WorkerState]
  BY DEF TypeOK
<1>1. CASE Idle(w)
  BY <1>1 DEF Idle, IdleWorker, Engaging, Before
<1>2. ASSUME NEW pay \in {"settled", "released"}, ThenSettle(w, pay)
      PROVE  /\ worker'[w].pc \notin Engaging
             /\ \A x \in Workers \ {w} : worker'[x] = worker[x]
  <2>1. [IdleWorker EXCEPT !.pc = "settle", !.job = worker[w].job, !.pay = pay].pc
          = "settle"
    BY DEF IdleWorker
  <2>. QED BY <1>2, <2>1 DEF ThenSettle, Engaging, Before
<1>. QED BY <1>1, <1>2

LEMMA HandlersRelease ==
  ASSUME TypeOK, NEW w \in Workers, NEW j \in Jobs, NEW r \in JobRow,
         NEW v \in VersionRow,
         \/ RetryOrHandOver(w, j, r, v)
         \/ \E s \in JobStatus \ {"running"} : Finish(w, j, r, v, s)
         \/ DeferPoll(w, j) /\ r = job[j] /\ v = version[j]
  PROVE  /\ job'[j].status # "running"
         /\ job'[j].nonCancellable = r.nonCancellable
         /\ version'[j].task = v.task
         /\ Idle(w) \/ \E pay \in {"settled", "released"} : ThenSettle(w, pay)
<1>. job \in [Jobs -> JobRow] /\ version \in [Jobs -> VersionRow]
  BY DEF TypeOK
<1>1. CASE Retry(w, j, r, v)
  <2>1. /\ [Freed(r) EXCEPT !.status = "queued", !.retryCount = @ + 1].status = "queued"
        /\ [Freed(r) EXCEPT !.status = "queued", !.retryCount = @ + 1].nonCancellable
             = r.nonCancellable
    BY DEF Freed, JobRow
  <2>2. [v EXCEPT !.status = "queued"].task = v.task
    BY DEF VersionRow
  <2>. QED BY <1>1, <2>1, <2>2 DEF Retry
<1>2. CASE \E s \in JobStatus \ {"running"} : Finish(w, j, r, v, s)
  <2>1. PICK s \in JobStatus \ {"running"} : Finish(w, j, r, v, s)
    BY <1>2
  <2>2. [v EXCEPT !.status = s].task = v.task
    BY DEF VersionRow
  <2>3. job'[j] = Ended(r, s) /\ version'[j] = [v EXCEPT !.status = s]
    BY <2>1 DEF Finish
  <2>4. Ended(r, s).status = s /\ Ended(r, s).nonCancellable = r.nonCancellable
    BY EndedFields
  <2>5. Idle(w) \/ \E pay \in {"settled", "released"} : ThenSettle(w, pay)
    BY <2>1 DEF Finish
  <2>. QED BY <2>2, <2>3, <2>4, <2>5
<1>3. CASE DeferPoll(w, j) /\ r = job[j] /\ v = version[j]
  <2>1. /\ job'[j] = [Freed(r) EXCEPT !.status = "waiting_provider"]
        /\ Idle(w) /\ version' = version
    BY <1>3 DEF DeferPoll
  <2>2. "waiting_provider" \in JobStatus
    BY DEF JobStatus
  <2>3. /\ [Freed(r) EXCEPT !.status = "waiting_provider"].status = "waiting_provider"
        /\ [Freed(r) EXCEPT !.status = "waiting_provider"].nonCancellable
             = r.nonCancellable
    BY <2>2, FreedFields
  <2>. QED BY <1>3, <2>1, <2>3
<1>. QED BY <1>1, <1>2, <1>3 DEF RetryOrHandOver, JobStatus

\* A worker that releases its job and leaves disturbs nothing.
LEMMA LeaveCalm ==
  ASSUME TypeOK, NEW w \in Workers, NEW j \in Jobs,
         Released(j) \/ job'[j] = job[j],
         Idle(w) \/ \E pay \in {"settled", "released"} : ThenSettle(w, pay),
         UNCHANGED tasks, j \in late' <=> j \in late,
         calls'[j] \in {calls[j], DeadCalls(j)},
         version'[j].task \in {version[j].task, NoTask},
         \/ claim'[j] = claim[j] \/ claim'[j] \in {"reserved", "accepted", "settled"}
         \/ ~job[j].nonCancellable
  PROVE  Calm(j)
<1>1. /\ Live(j)' \subseteq Live(j) /\ Logged(j)' \subseteq Logged(j)
      /\ Unlogged(j)' \subseteq Unlogged(j)
      /\ \A t \in Tasks : calls[j][t] # "none" => calls'[j][t] # "none"
  BY DEF Live, Logged, Unlogged, DeadCalls
<1>2. \A x \in Workers : Owns(x, j)' => Owns(x, j)
  BY DEF Released, Owns
<1>3. \A x \in Workers : CalmWorker(x, j)
  BY <1>2, PartsLeave DEF CalmWorker
<1>. QED BY <1>1, <1>3 DEF Calm, Released

\* ... through the longer writes.
LEMMA WrittenFields ==
  ASSUME NEW r \in JobRow, NEW s \in JobStatus, NEW c, NEW b
  PROVE  /\ [Ended(r, s) EXCEPT !.pollRequired = FALSE, !.resultAdoptable = FALSE,
                                !.createState = c].status = s
         /\ [Ended(r, s) EXCEPT !.pollRequired = FALSE, !.resultAdoptable = FALSE,
                !.createState = c].nonCancellable = r.nonCancellable
         /\ [Ended(r, s) EXCEPT !.pollRequired = FALSE].status = s
         /\ [Ended(r, s) EXCEPT !.pollRequired = FALSE].nonCancellable = r.nonCancellable
         /\ [Freed(r) EXCEPT !.status = s, !.createState = c].status = s
         /\ [Freed(r) EXCEPT !.status = s, !.createState = c].nonCancellable
              = r.nonCancellable
         /\ [r EXCEPT !.status = s].status = s
         /\ [r EXCEPT !.status = s].nonCancellable = r.nonCancellable
  BY DEF JobRow, Freed, Ended

LEMMA CancelledFields ==
  ASSUME NEW r \in JobRow, NEW s \in JobStatus, NEW b
  PROVE  /\ [Ended(r, s) EXCEPT !.cancelRequested = TRUE,
                !.createState = IF b THEN "not_started" ELSE @].status = s
         /\ [Ended(r, s) EXCEPT !.cancelRequested = TRUE,
                !.createState = IF b THEN "not_started" ELSE @].nonCancellable
              = r.nonCancellable
  BY DEF JobRow, Freed, Ended

LEMMA CancelReleases ==
  ASSUME TypeOK, NEW j \in Jobs, RequestCancel(j)
  PROVE  /\ Released(j)
         /\ version'[j].task = version[j].task
         /\ claim'[j] = claim[j] \/ ~job[j].nonCancellable
<1>. job \in [Jobs -> JobRow] /\ version \in [Jobs -> VersionRow]
     /\ claim \in [Jobs -> ClaimStatus] /\ job[j] \in JobRow
  BY DEF TypeOK
<1>1. CASE IsolateResult(j)
  <2>1. job'[j] = Isolated(job[j]) /\ claim' = claim
    BY <1>1 DEF IsolateResult
  <2>2. version'[j].task = version[j].task
    BY <1>1 DEF IsolateResult, VersionRow
  <2>3. /\ Isolated(job[j]).status = "waiting_provider"
        /\ Isolated(job[j]).nonCancellable = job[j].nonCancellable
    BY ProtectedFields
  <2>. QED BY <2>1, <2>2, <2>3 DEF Released
<1>2. CASE CancelJob(j)
  <2>1. PICK s \in {"abandoned", "cancelled"} :
          job' = [job EXCEPT ![j] = [Ended(job[j], s) EXCEPT !.cancelRequested = TRUE,
                    !.createState = IF PreTransport(j) THEN "not_started" ELSE @]]
    BY <1>2, Zenon DEF CancelJob
  <2>2. job'[j] = [Ended(job[j], s) EXCEPT !.cancelRequested = TRUE,
                     !.createState = IF PreTransport(j) THEN "not_started" ELSE @]
    BY <2>1
  <2>3. s \in JobStatus /\ s # "running"
    BY DEF JobStatus
  <2>4. Released(j)
    BY <2>2, <2>3, CancelledFields DEF Released
  <2>5. version'[j].task = version[j].task
    BY <1>2 DEF CancelJob, VersionRow
  <2>6. claim'[j] = claim[j] \/ ~job[j].nonCancellable
    BY <1>2 DEF CancelJob, PreTransport
  <2>. QED BY <2>4, <2>5, <2>6
<1>. QED BY <1>1, <1>2 DEF RequestCancel

LEMMA HandlersCalm ==
  ASSUME TypeOK, NEW w \in Workers, NEW j \in Jobs,
         UNCHANGED <<tasks, late, calls, claim>>,
         \/ RetryOrHandOver(w, j, job[j], version[j])
         \/ \E s \in JobStatus \ {"running"} : Finish(w, j, job[j], version[j], s)
         \/ DeferPoll(w, j)
  PROVE  Calm(j)
<1>1. job[j] \in JobRow /\ version[j] \in VersionRow
  BY DEF TypeOK
<1>2. /\ Released(j) /\ version'[j].task = version[j].task
      /\ Idle(w) \/ \E pay \in {"settled", "released"} : ThenSettle(w, pay)
  BY <1>1, HandlersRelease DEF Released
<1>. QED BY <1>2, LeaveCalm

\* w gives the job up without a paid request or task of it in its hands.
Leaving(w, j) ==
    \/ LoadUnresolved(w, j) \/ ReviewFence(w, j) \/ Defer(w, j)
    \/ InputRepair(w, j) \/ PlanStale(w, j) \/ InputError(w, j) \/ SlotFull(w, j)
    \/ ReleaseRefused(w, j) \/ PollRunning(w, j) \/ PollError(w, j)
    \/ PollTimeout(w, j) \/ PollFailedManual(w, j) \/ PollRejected(w, j)
    \/ FetchLost(w, j) \/ (FetchFailed(w, j) /\ ~Owns(w, j))
    \/ CheckpointQuarantined(w, j) \/ SupervisorFence(w, j)
    \/ Downgrade(w, j) \/ KeepCandidate(w, j) \/ QaError(w, j)
    \/ Adopt(w, j) \/ Settle(w, j)

LEMMA LeavingCalm ==
  ASSUME TypeOK, NEW w \in Workers, NEW j \in Jobs, Leaving(w, j)
  PROVE  Calm(j)
<1>. /\ job \in [Jobs -> JobRow] /\ version \in [Jobs -> VersionRow]
     /\ claim \in [Jobs -> ClaimStatus] /\ calls \in [Jobs -> [Tasks -> CallStatus]]
     /\ job[j] \in JobRow /\ version[j] \in VersionRow
  BY DEF TypeOK
<1>0. JobStatus \ {"running"} = {"queued", "waiting_provider", "waiting_human",
        "paused", "succeeded", "failed", "cancelled", "abandoned", "stale"}
     /\ "waiting_human" \in JobStatus \ {"running"}
     /\ "failed" \in JobStatus \ {"running"}
  BY DEF JobStatus
<1>1. CASE LoadUnresolved(w, j)
  <2>1. job'[j] = Ended(job[j], "waiting_human")
    BY <1>1 DEF LoadUnresolved, HandOver
  <2>2. Released(j)
    BY <1>0, <2>1, EndedFields DEF Released
  <2>3. version'[j].task = version[j].task
    BY <1>1 DEF LoadUnresolved, HandOver, VersionRow
  <2>. QED BY <1>1, <2>2, <2>3, LeaveCalm DEF LoadUnresolved, HandOver, provider
<1>2. CASE ReviewFence(w, j)
  <2>1. job'[j] = Ended(job[j], "failed")
    BY <1>2 DEF ReviewFence
  <2>2. Released(j)
    BY <1>0, <2>1, EndedFields DEF Released
  <2>3. version'[j].task = version[j].task
    BY <1>2 DEF ReviewFence, VersionRow
  <2>. QED BY <1>2, <2>2, <2>3, LeaveCalm DEF ReviewFence, provider
<1>3. CASE Defer(w, j)
  <2>1. \/ job'[j] = job[j]
        \/ \E s \in {"queued", "waiting_human"} :
             job'[j] = [Freed(job[j]) EXCEPT !.status = s]
    <3>1. CASE job[j].leaseOwner = w
      <4>1. PICK s \in {"queued", "waiting_human"} :
              job' = [job EXCEPT ![j] = [Freed(job[j]) EXCEPT !.status = s]]
        BY <1>3, <3>1 DEF Defer
      <4>2. job'[j] = [Freed(job[j]) EXCEPT !.status = s]
        BY <4>1
      <4>. QED BY <4>2, Zenon
    <3>. QED BY <1>3, <3>1 DEF Defer
  <2>2. Released(j) \/ job'[j] = job[j]
    <3>1. ASSUME NEW s \in {"queued", "waiting_human"},
                 job'[j] = [Freed(job[j]) EXCEPT !.status = s]
          PROVE  Released(j)
      <4>1. s \in JobStatus /\ s # "running"
        BY <1>0
      <4>. QED BY <3>1, <4>1, FreedFields DEF Released
    <3>. QED BY <2>1, <3>1
  <2>. QED BY <1>3, <2>2, LeaveCalm DEF Defer, provider
<1>4. CASE InputRepair(w, j)
  <2>1. job'[j] = Ended(job[j], "waiting_human")
    BY <1>4 DEF InputRepair
  <2>2. Released(j)
    BY <1>0, <2>1, EndedFields DEF Released
  <2>3. version'[j].task = version[j].task
    BY <1>4 DEF InputRepair, VersionRow
  <2>. QED BY <1>4, <2>2, <2>3, LeaveCalm DEF InputRepair, provider
<1>5. CASE PlanStale(w, j)
  <2>1. job'[j] = [job[j] EXCEPT !.status = "stale"]
    BY <1>5 DEF PlanStale, GoStale
  <2>2. Released(j)
    BY <1>0, <2>1, WrittenFields DEF Released
  <2>3. version'[j].task = version[j].task
    BY <1>5 DEF PlanStale, GoStale, VersionRow
  <2>. QED BY <1>5, <2>2, <2>3, LeaveCalm DEF PlanStale, GoStale, provider
<1>6. CASE InputError(w, j)
  BY <1>6, <1>0, HandlersCalm DEF InputError, provider
<1>7. CASE SlotFull(w, j)
  <2>1. job'[j] = [Freed(job[j]) EXCEPT !.status = "queued",
                                        !.createState = "not_started"]
    BY <1>7 DEF SlotFull
  <2>2. "queued" \in JobStatus
    BY <1>0
  <2>3. Released(j)
    BY <2>1, <2>2, WrittenFields DEF Released
  <2>. QED BY <1>7, <2>3, LeaveCalm DEF SlotFull, provider
<1>8. CASE ReleaseRefused(w, j)
  BY <1>8, LeaveCalm DEF ReleaseRefused, rows, provider
<1>9. CASE PollRunning(w, j)
  BY <1>9, <1>0, HandlersCalm DEF PollRunning, provider
<1>10. CASE PollError(w, j)
  BY <1>10, <1>0, HandlersCalm DEF PollError, provider
<1>11. CASE PollTimeout(w, j)
  BY <1>11, <1>0, HandlersCalm DEF PollTimeout, provider
<1>12. CASE PollFailedManual(w, j)
  BY <1>12, <1>0, HandlersCalm DEF PollFailedManual, provider
<1>13. CASE PollRejected(w, j)
  <2>1. PICK c \in {job[j].createState, "model_rejected"} :
          job' = [job EXCEPT ![j] = [Ended(job[j], "failed") EXCEPT
                    !.pollRequired = FALSE, !.resultAdoptable = FALSE,
                    !.createState = c]]
    BY <1>13, Zenon DEF PollRejected
  <2>2. job'[j] = [Ended(job[j], "failed") EXCEPT !.pollRequired = FALSE,
                     !.resultAdoptable = FALSE, !.createState = c]
    BY <2>1
  <2>3. Released(j)
    BY <1>0, <2>2, WrittenFields DEF Released
  <2>4. version'[j].task = version[j].task
    BY <1>13 DEF PollRejected, VersionRow
  <2>. QED BY <1>13, <2>3, <2>4, LeaveCalm DEF PollRejected, provider
<1>14. CASE FetchLost(w, j)
  BY <1>14, <1>0, HandlersCalm DEF FetchLost, provider
<1>15. CASE FetchFailed(w, j) /\ ~Owns(w, j)
  <2>1. version'[j].task = NoTask
    BY <1>15 DEF FetchFailed, VersionRow
  <2>. QED BY <1>15, <2>1, LeaveCalm DEF FetchFailed, provider
<1>16. CASE CheckpointQuarantined(w, j)
  <2>1. job'[j] = [Ended(job[j], "succeeded") EXCEPT !.pollRequired = FALSE]
    BY <1>16 DEF CheckpointQuarantined
  <2>2. Released(j)
    BY <1>0, <2>1, WrittenFields DEF Released
  <2>3. version'[j].task = version[j].task
    BY <1>16 DEF CheckpointQuarantined, VersionRow
  <2>. QED BY <1>16, <2>2, <2>3, LeaveCalm DEF CheckpointQuarantined, provider
<1>17. CASE SupervisorFence(w, j)
  BY <1>17, CancelReleases, LeaveCalm DEF SupervisorFence, provider
<1>18. CASE Downgrade(w, j)
  <2>1. job'[j] = Ended(job[j], "waiting_human")
    BY <1>18 DEF Downgrade
  <2>2. Released(j)
    BY <1>0, <2>1, EndedFields DEF Released
  <2>3. version'[j].task = version[j].task
    BY <1>18 DEF Downgrade, VersionRow
  <2>. QED BY <1>18, <2>2, <2>3, LeaveCalm DEF Downgrade, provider
<1>19. CASE KeepCandidate(w, j)
  <2>1. job'[j] = Ended(job[j], "succeeded")
    BY <1>19 DEF KeepCandidate
  <2>2. Released(j)
    BY <1>0, <2>1, EndedFields DEF Released
  <2>3. version'[j].task = version[j].task
    BY <1>19 DEF KeepCandidate, VersionRow
  <2>. QED BY <1>19, <2>2, <2>3, LeaveCalm DEF KeepCandidate, provider
<1>20. CASE QaError(w, j)
  BY <1>20, <1>0, HandlersCalm DEF QaError, provider
<1>21. CASE Adopt(w, j)
  <2>1. job'[j] = job[j] \/ job'[j] = Ended(job[j], "succeeded")
    BY <1>21 DEF Adopt
  <2>2. Released(j) \/ job'[j] = job[j]
    BY <1>0, <2>1, EndedFields DEF Released
  <2>. QED BY <1>21, <2>2, LeaveCalm DEF Adopt, provider
<1>22. CASE Settle(w, j)
  BY <1>22, LeaveCalm DEF Settle, provider
<1>. QED BY <1>1, <1>2, <1>3, <1>4, <1>5, <1>6, <1>7, <1>8, <1>9, <1>10,
            <1>11, <1>12, <1>13, <1>14, <1>15, <1>16, <1>17, <1>18, <1>19,
            <1>20, <1>21, <1>22 DEF Leaving

LEMMA StayingCalm ==
  ASSUME TypeOK, NEW w \in Workers, NEW j \in Jobs, JobInv(j),
         \/ Claim(w, j) \/ Heartbeat(w, j) \/ MarkSubmitting(w, j)
         \/ Load(w, j) /\ KnownTask(j) = NoTask
         \/ CheckpointCandidate(w, j) \/ QaPassed(w, j)
  PROVE  Calm(j)
<1>. /\ job \in [Jobs -> JobRow] /\ version \in [Jobs -> VersionRow]
     /\ claim \in [Jobs -> ClaimStatus] /\ worker \in [Workers -> WorkerState]
     /\ job[j] \in JobRow /\ worker[w] \in WorkerState
  BY DEF TypeOK
<1>. DEFINE Rest == /\ UNCHANGED <<tasks, late, calls>>
                    /\ version'[j].task = version[j].task
                    /\ \/ claim'[j] = claim[j]
                       \/ claim'[j] \in {"reserved", "accepted", "settled"}
                    /\ job[j].nonCancellable => job'[j].nonCancellable
                    /\ \A x \in Workers : CalmWorker(x, j)
<1>1. ASSUME Rest PROVE Calm(j)
  BY <1>1 DEF Calm, Live, Logged, Unlogged
<1>2. CASE Claim(w, j)
  <2>1. /\ worker'[w].pc = "load"
        /\ job'[j].leaseOwner = w /\ job'[j].nonCancellable = job[j].nonCancellable
    BY <1>2 DEF Claim, IdleWorker, JobRow
  <2>2. \A x \in Workers : CalmWorker(x, j)
    BY <1>2, <2>1 DEF Claim, CalmWorker, Owns, Engaging, Before
  <2>. QED BY <1>1, <1>2, <2>1, <2>2 DEF Claim, provider
<1>3. ASSUME NEW pc \in PC \ {"slot", "sending", "accept", "poll", "fetch"},
             GoTo(w, pc), worker[w].job = j,
             pc \in Before => worker[w].task = NoTask,
             \A x \in Workers : Owns(x, j)' => Owns(x, j)
      PROVE  \A x \in Workers : CalmWorker(x, j)
  BY <1>3 DEF GoTo, CalmWorker, WorkerState, Engaging
<1>4. ASSUME job'[j].nonCancellable = Renewed(job[j]).nonCancellable,
             job'[j].status = Renewed(job[j]).status,
             job'[j].leaseOwner = Renewed(job[j]).leaseOwner,
             job'[j].cancelRequested = Renewed(job[j]).cancelRequested
      PROVE  /\ job'[j].nonCancellable = job[j].nonCancellable
             /\ \A x \in Workers : Owns(x, j)' => Owns(x, j)
  BY <1>4, RenewedFields DEF Owns
<1>5. Renewed(job[j]) \in JobRow
  BY RowTypes
<1>6. CASE Heartbeat(w, j)
  <2>1. job'[j] = Renewed(job[j])
    BY <1>6 DEF Heartbeat
  <2>. QED BY <1>1, <1>4, <1>6, <2>1 DEF Heartbeat, CalmWorker, provider
<1>7. CASE MarkSubmitting(w, j)
  <2>1. job'[j] = [Renewed(job[j]) EXCEPT !.createState = "submitting",
                                            !.operation = TRUE]
    BY <1>7 DEF MarkSubmitting
  <2>2. /\ job'[j].nonCancellable = job[j].nonCancellable
        /\ \A x \in Workers : Owns(x, j)' => Owns(x, j)
    BY <1>4, <1>5, <2>1 DEF JobRow
  <2>3. worker[w].task = NoTask /\ worker[w].job = j /\ GoTo(w, "submit")
    BY <1>7 DEF MarkSubmitting, JobInv, KnowsItsTask, At
  <2>4. \A x \in Workers : CalmWorker(x, j)
    BY <1>3, <2>2, <2>3 DEF PC, Await
  <2>. QED BY <1>1, <1>7, <2>2, <2>4 DEF MarkSubmitting, provider
<1>8. CASE Load(w, j) /\ KnownTask(j) = NoTask
  <2>1. worker'[w].pc = "prepare" /\ worker'[w].task = NoTask
    BY <1>8 DEF Load, WorkerState
  <2>2. \A x \in Workers : CalmWorker(x, j)
    BY <1>8, <2>1 DEF Load, CalmWorker, Before, Owns, rows
  <2>. QED BY <1>1, <1>8, <2>2 DEF Load, rows, provider
<1>9. CASE CheckpointCandidate(w, j)
  <2>1. job'[j] = [Renewed(job[j]) EXCEPT !.pollRequired = FALSE]
    BY <1>9 DEF CheckpointCandidate
  <2>2. /\ job'[j].nonCancellable = job[j].nonCancellable
        /\ \A x \in Workers : Owns(x, j)' => Owns(x, j)
    BY <1>4, <1>5, <2>1 DEF JobRow
  <2>3. \A x \in Workers : CalmWorker(x, j)
    BY <1>3, <1>9, <2>2 DEF CheckpointCandidate, At, PC, Await, Before
  <2>4. version'[j].task = version[j].task
    BY <1>9 DEF CheckpointCandidate, VersionRow
  <2>. QED BY <1>1, <1>9, <2>2, <2>3, <2>4 DEF CheckpointCandidate, provider
<1>10. CASE QaPassed(w, j)
  <2>1. job'[j] = Renewed(job[j])
    BY <1>10 DEF QaPassed
  <2>2. \A x \in Workers : CalmWorker(x, j)
    BY <1>3, <1>4, <1>10, <2>1 DEF QaPassed, At, PC, Await, Before
  <2>. QED BY <1>1, <1>4, <1>10, <2>1, <2>2 DEF QaPassed, provider
<1>. QED BY <1>2, <1>6, <1>7, <1>8, <1>9, <1>10

-----------------------------------------------------------------------------
(* A worker stops waiting for the reply to a create.                         *)

LEMMA GiveUpSafe ==
  ASSUME TypeOK, NEW w \in Workers, NEW j \in Jobs, JobInv(j),
         Idle(w) \/ \E pay \in {"settled", "released"} : ThenSettle(w, pay),
         GiveUp(w, j), Released(j) \/ job'[j] = job[j],
         UNCHANGED <<tasks, calls, claim>>, version'[j].task = version[j].task
  PROVE  JobInv(j)'
<1>1. CASE At(w, "sending", j) /\ worker[w].task = NoTask
  <2>. w \in Submitting(j) /\ late' = late \cup {j}
    BY <1>1 DEF Submitting, GiveUp
  <2>1. Bound(j)' = Bound(j) /\ Bound(j) = {} /\ Logged(j)' = {}
    BY <1>1
       DEF JobInv, OneSubmission, Bound, Live, Logged, Unlogged, NoTask, Tasks
  <2>2. Submitting(j)' = {} /\ Engaged(j)' \subseteq Engaged(j)
    BY PartsLeave DEF JobInv, OneSubmission, Submitting, Engaged, At, Engaging, Before
  <2>3. job'[j].nonCancellable
    BY DEF JobInv, OneSubmission, Released
  <2>4. \A x \in Engaged(j)' : worker'[x] = worker[x] /\ ~Owns(x, j)'
    <3>1. \A x \in Engaged(j) : ~Owns(x, j)
      BY DEF JobInv, OwnerHasTheTask
    <3>. QED BY <2>2, <3>1, PartsLeave DEF Released, Owns, Engaged, Engaging, Before
  <2>5. OneSubmission(j)' /\ LateAlone(j)' /\ OneBound(j)' /\ OwnerHasTheTask(j)'
    BY <2>1, <2>2, <2>3, <2>4 DEF OneSubmission, LateAlone, OneBound, OwnerHasTheTask
  <2>6. KnowsItsTask(j)'
    BY <2>2, <2>4, PartsLeave DEF JobInv, KnowsItsTask, Engaging, Before
  <2>7. ClaimHeld(j)'
    BY DEF JobInv, ClaimHeld
  <2>. QED BY <2>5, <2>6, <2>7 DEF JobInv
<1>2. CASE ~(At(w, "sending", j) /\ worker[w].task = NoTask)
  BY <1>2, LeaveCalm, CalmStep DEF GiveUp
<1>. QED BY <1>1, <1>2

LEMMA GivingUp ==
  ASSUME TypeOK, NEW w \in Workers, NEW j \in Jobs, JobInv(j),
         \/ LeaseLost(w, j) \/ ReplyUnknown(w, j) \/ UnexpectedError(w, j)
         \/ Interrupt(w, j)
  PROVE  JobInv(j)'
<1>. /\ job \in [Jobs -> JobRow] /\ version \in [Jobs -> VersionRow]
     /\ job[j] \in JobRow /\ Unknown(job[j]) \in JobRow
  BY RowTypes DEF TypeOK
<1>1. CASE LeaseLost(w, j)
  BY <1>1, GiveUpSafe DEF LeaseLost, rows
<1>2. CASE ReplyUnknown(w, j)
  <2>1. job'[j] = Ended(Unknown(job[j]), "waiting_human")
    BY <1>2 DEF ReplyUnknown, HandOver
  <2>2. /\ Unknown(job[j]).nonCancellable = TRUE
        /\ "waiting_human" \in JobStatus
    BY ProtectedFields DEF JobStatus
  <2>3. Released(j)
    BY <2>1, <2>2, EndedFields DEF Released
  <2>4. version'[j].task = version[j].task
    BY <1>2 DEF ReplyUnknown, HandOver, VersionRow
  <2>. QED BY <1>2, <2>3, <2>4, GiveUpSafe DEF ReplyUnknown, HandOver
<1>3. CASE Interrupt(w, j)
  <2>1. \/ job'[j] = job[j]
        \/ \E s \in {"waiting_provider", "queued"} :
             job'[j] = [Freed(job[j]) EXCEPT !.status = s]
    <3>1. CASE job[j].status = "running" /\ job[j].leaseOwner = w
      <4>1. PICK s \in {"waiting_provider", "queued"} :
              job' = [job EXCEPT ![j] = [Freed(job[j]) EXCEPT !.status = s]]
        BY <1>3, <3>1, Zenon DEF Interrupt
      <4>2. job'[j] = [Freed(job[j]) EXCEPT !.status = s]
        BY <4>1
      <4>. QED BY <4>2, Zenon
    <3>. QED BY <1>3, <3>1 DEF Interrupt
  <2>2. Released(j) \/ job'[j] = job[j]
    <3>1. ASSUME NEW s \in {"waiting_provider", "queued"},
                 job'[j] = [Freed(job[j]) EXCEPT !.status = s]
          PROVE  Released(j)
      <4>1. s \in JobStatus /\ s # "running"
        BY DEF JobStatus
      <4>. QED BY <3>1, <4>1, FreedFields DEF Released
    <3>. QED BY <2>1, <3>1
  <2>. QED BY <1>3, <2>2, GiveUpSafe DEF Interrupt
<1>4. CASE UnexpectedError(w, j)
  <2>1. \/ Finish(w, j, job[j], version[j], "failed")
        \/ DeferPoll(w, j)
    BY <1>4 DEF UnexpectedError
  <2>2. version[j] \in VersionRow /\ "failed" \in JobStatus \ {"running"}
    BY DEF TypeOK, JobStatus
  <2>3. /\ Released(j) /\ version'[j].task = version[j].task
        /\ Idle(w) \/ \E pay \in {"settled", "released"} : ThenSettle(w, pay)
    BY <2>1, <2>2, HandlersRelease DEF Released
  <2>. QED BY <1>4, <2>3, GiveUpSafe DEF UnexpectedError
<1>. QED BY <1>1, <1>2, <1>3, <1>4

-----------------------------------------------------------------------------
(* From the task that is known to the submit slot and the request.             *)

\* Nothing of j is under way or bound, and nobody runs it.
LEMMA NothingPending ==
  ASSUME NEW j \in Jobs, Bound(j)' = {}, Submitting(j)' = {}, j \notin late',
         \A x \in Workers : ~Owns(x, j)', KnowsItsTask(j)'
  PROVE  JobInv(j)'
<1>1. Live(j)' = {}
  BY DEF Bound
<1>2. OneSubmission(j)' /\ LateAlone(j)' /\ OneBound(j)'
  BY DEF OneSubmission, LateAlone, OneBound
<1>3. OwnerHasTheTask(j)'
  BY DEF OwnerHasTheTask, Engaged
<1>4. ClaimHeld(j)'
  BY <1>1 DEF ClaimHeld
<1>. QED BY <1>2, <1>3, <1>4 DEF JobInv

LEMMA LeavingKnows ==
  ASSUME TypeOK, NEW w \in Workers, NEW j \in Jobs, JobInv(j),
         Idle(w) \/ \E pay \in {"settled", "released"} : ThenSettle(w, pay),
         UNCHANGED tasks, calls'[j] \in {calls[j], DeadCalls(j)},
         version'[j].task \in {version[j].task, NoTask}
  PROVE  KnowsItsTask(j)'
<1>. version[j].task \in Tasks \cup {NoTask}
  BY DEF TypeOK, VersionRow
<1>1. \A t \in Tasks : calls[j][t] # "none" => calls'[j][t] # "none"
  BY DEF DeadCalls
<1>2. /\ \A x \in Workers \ {w} : worker'[x] = worker[x]
      /\ worker'[w].pc \notin Engaging /\ Engaged(j)' \subseteq Engaged(j) \ {w}
  BY PartsLeave DEF Engaged, Engaging
<1>3. \A x \in Workers : worker'[x].job = j
        => (worker'[x].pc \in {"prepare", "submit", "slot"} => worker'[x].task = NoTask)
  BY <1>2 DEF JobInv, KnowsItsTask, Engaging, Before
<1>4. \A x \in Engaged(j)' :
        /\ worker'[x].task \in Tasks /\ calls'[j][worker'[x].task] # "none"
        /\ worker'[x].pc = "fetch" => tasks'[j][worker'[x].task] = "succeeded"
  BY <1>1, <1>2 DEF JobInv, KnowsItsTask, Engaged
<1>5. version'[j].task # NoTask => calls'[j][version'[j].task] # "none"
  BY <1>1 DEF JobInv, KnowsItsTask
<1>. QED BY <1>3, <1>4, <1>5 DEF KnowsItsTask

LEMMA TaskIsKnown ==
  ASSUME TypeOK, NEW w \in Workers, NEW j \in Jobs, JobInv(j),
         Load(w, j), KnownTask(j) # NoTask
  PROVE  JobInv(j)'
<1>. DEFINE t == KnownTask(j)
<1>1. t \in Bound(j) /\ t \in Tasks /\ calls[j][t] # "none"
  <2>1. CASE version[j].task # NoTask
    BY <2>1 DEF KnownTask, Bound, TypeOK, VersionRow, JobInv, KnowsItsTask
  <2>2. CASE version[j].task = NoTask
    BY <2>2, HandleType DEF KnownTask, Bound, Logged
  <2>. QED BY <2>1, <2>2
<1>2. Submitting(j) = {}
  BY HandleType DEF JobInv, OneSubmission, KnownTask
<1>3. Bound(j) \subseteq {t} /\ j \notin late
  BY <1>1 DEF JobInv, OneBound, LateAlone
<1>. HIDE DEF t
<1>4. worker' = [worker EXCEPT ![w] = [worker[w] EXCEPT !.pc = "accept", !.task = t,
                                         !.recovery = RecoveryOnly(j)]]
  BY DEF Load, t
<1>5. /\ worker'[w].pc = "accept" /\ worker'[w].task = t
      /\ \A x \in Workers \ {w} : worker'[x] = worker[x]
  BY <1>4 DEF TypeOK, WorkerState
<1>6. UNCHANGED <<job, version, claim, calls, tasks, late>>
  BY DEF Load, rows, provider
<1>7. Bound(j)' = Bound(j) /\ Logged(j)' = Logged(j) /\ Live(j)' = Live(j)
  BY <1>6 DEF Bound, Live, Logged, Unlogged
<1>8. Submitting(j)' = {} /\ Engaged(j)' \subseteq Engaged(j) \cup {w}
  BY <1>2, <1>5 DEF Submitting, Engaged, At
<1>9. OneSubmission(j)' /\ LateAlone(j)' /\ OneBound(j)' /\ ClaimHeld(j)'
  BY <1>3, <1>6, <1>7, <1>8
     DEF JobInv, OneSubmission, LateAlone, OneBound, ClaimHeld
<1>10. OwnerHasTheTask(j)'
  BY <1>3, <1>5, <1>6, <1>7, <1>8 DEF OwnerHasTheTask, Load, Owns
<1>11. KnowsItsTask(j)'
  <2>1. \A x \in Workers : worker'[x].job = j
          => (worker'[x].pc \in {"prepare", "submit", "slot"} => worker'[x].task = NoTask)
    BY <1>5 DEF JobInv, KnowsItsTask
  <2>2. \A x \in Engaged(j)' :
          /\ worker'[x].task \in Tasks /\ calls'[j][worker'[x].task] # "none"
          /\ worker'[x].pc = "fetch" => tasks'[j][worker'[x].task] = "succeeded"
    BY <1>1, <1>5, <1>6, <1>8 DEF JobInv, KnowsItsTask, Engaged
  <2>3. version'[j].task # NoTask => calls'[j][version'[j].task] # "none"
    BY <1>6 DEF JobInv, KnowsItsTask
  <2>. QED BY <2>1, <2>2, <2>3 DEF KnowsItsTask
<1>. QED BY <1>9, <1>10, <1>11 DEF JobInv

LEMMA SlotIsClaimed ==
  ASSUME TypeOK, NEW w \in Workers, NEW j \in Jobs, JobInv(j), ClaimSlot(w, j)
  PROVE  JobInv(j)'
<1>1. Submitting(j) = {} /\ j \notin late /\ Bound(j) = {}
  BY DEF ClaimSlot, JobInv, OneSubmission, LateAlone, OneBound
<1>2. worker[w].task = NoTask /\ worker[w].job = j
  BY DEF ClaimSlot, At, JobInv, KnowsItsTask
<1>3. /\ worker'[w].pc = "slot" /\ worker'[w].task = NoTask /\ worker'[w].job = j
      /\ \A x \in Workers \ {w} : worker'[x] = worker[x]
  BY <1>2 DEF ClaimSlot, GoTo, TypeOK, WorkerState
<1>4. job'[j].nonCancellable /\ job'[j].leaseOwner = w
  <2>1. job'[j] = [Renewed(job[j]) EXCEPT !.nonCancellable = TRUE]
    BY DEF ClaimSlot, TypeOK
  <2>2. Renewed(job[j]) \in JobRow /\ Renewed(job[j]).leaseOwner = w
    BY RowTypes, RenewedFields DEF TypeOK, ClaimSlot, Owns
  <2>. QED BY <2>1, <2>2 DEF JobRow
<1>5. claim'[j] \in {"reserved", "accepted", "settled"}
  BY DEF ClaimSlot, Billed, TypeOK, ClaimStatus
<1>6. UNCHANGED <<version, calls, tasks, late>>
  BY DEF ClaimSlot, provider
<1>7. Bound(j)' = {} /\ Logged(j)' = {} /\ version[j].task = NoTask
  BY <1>1, <1>6 DEF Bound, Live, Logged, Unlogged
<1>8. Submitting(j)' = {w} /\ Engaged(j)' \subseteq Engaged(j) \ {w}
  BY <1>1, <1>3 DEF Submitting, Engaged, At
<1>9. OneSubmission(j)' /\ LateAlone(j)' /\ OneBound(j)' /\ ClaimHeld(j)'
  BY <1>1, <1>3, <1>4, <1>5, <1>6, <1>7, <1>8
     DEF OneSubmission, LateAlone, OneBound, ClaimHeld
<1>10. OwnerHasTheTask(j)'
  BY <1>4, <1>8 DEF OwnerHasTheTask, Owns
<1>11. KnowsItsTask(j)'
  <2>1. \A x \in Workers : worker'[x].job = j
          => (worker'[x].pc \in {"prepare", "submit", "slot"} => worker'[x].task = NoTask)
    BY <1>3 DEF JobInv, KnowsItsTask
  <2>2. \A x \in Engaged(j)' :
          /\ worker'[x].task \in Tasks /\ calls'[j][worker'[x].task] # "none"
          /\ worker'[x].pc = "fetch" => tasks'[j][worker'[x].task] = "succeeded"
    BY <1>3, <1>6, <1>8 DEF JobInv, KnowsItsTask, Engaged
  <2>3. version'[j].task # NoTask => calls'[j][version'[j].task] # "none"
    BY <1>6 DEF JobInv, KnowsItsTask
  <2>. QED BY <2>1, <2>2, <2>3 DEF KnowsItsTask
<1>. QED BY <1>9, <1>10, <1>11 DEF JobInv

LEMMA SlotIsGivenBack ==
  ASSUME TypeOK, NEW w \in Workers, NEW j \in Jobs, JobInv(j),
         AuthorityStale(w, j) \/ InterruptAtSlot(w, j) \/ ReplyRejected(w, j)
  PROVE  JobInv(j)'
<1>1. w \in Submitting(j) /\ worker[w].task = NoTask
  BY DEF AuthorityStale, InterruptAtSlot, BeforeTheCall, ReplyRejected, Submitting,
         At, JobInv, KnowsItsTask
<1>2. /\ Bound(j) = {} /\ Submitting(j) = {w} /\ j \notin late
  BY <1>1 DEF JobInv, OneSubmission, Bound, Live, Logged, Unlogged, NoTask, Tasks
<1>3. UNCHANGED <<calls, tasks, late>>
  BY DEF AuthorityStale, InterruptAtSlot, ReplyRejected, provider
<1>. DEFINE r == Resubmittable(job[j])
<1>4. /\ job'[j].status # "running" /\ version'[j].task = version[j].task
      /\ Idle(w) \/ \E pay \in {"settled", "released"} : ThenSettle(w, pay)
  <2>. job[j] \in JobRow /\ version[j] \in VersionRow
    BY DEF TypeOK
  <2>. r \in JobRow /\ \A c \in CreateState : [r EXCEPT !.createState = c] \in JobRow
    BY ResubmittableFields, RowTypes
  <2>. HIDE DEF r
  <2>1. CASE GoStale(w, j, r)
    <3>1. /\ job' = [job EXCEPT ![j] = [r EXCEPT !.status = "stale"]]
          /\ version' = [version EXCEPT ![j].status = "stale"]
          /\ ThenSettle(w, "released")
      BY <2>1 DEF GoStale
    <3>2. job'[j].status = "stale"
      BY <3>1, WrittenFields DEF TypeOK, JobStatus
    <3>. QED BY <3>1, <3>2 DEF TypeOK, VersionRow
  <2>2. CASE InterruptAtSlot(w, j)
    <3>1. job' = [job EXCEPT ![j] = [Freed(r) EXCEPT !.status = "queued"]]
      BY <2>2 DEF InterruptAtSlot, r
    <3>2. job'[j] = [Freed(r) EXCEPT !.status = "queued"]
      BY <3>1 DEF TypeOK
    <3>3. "queued" \in JobStatus
      BY DEF JobStatus
    <3>4. job'[j].status = "queued"
      BY <3>2, <3>3, FreedFields
    <3>. QED BY <2>2, <3>4 DEF InterruptAtSlot
  <2>3. CASE \/ RetryOrHandOver(w, j, r, version[j])
             \/ \E s \in {"waiting_human", "failed"} : Finish(w, j, r, version[j], s)
             \/ \E c \in {"not_started", "model_rejected"} :
                  Finish(w, j, [r EXCEPT !.createState = c], version[j], "failed")
    BY <2>3, HandlersRelease DEF JobStatus, CreateState
  <2>. QED BY <2>1, <2>2, <2>3 DEF AuthorityStale, ReplyRejected, r
<1>5. Bound(j)' = {}
  BY <1>2, <1>3, <1>4 DEF Bound, Live, Logged, Unlogged
<1>6. Submitting(j)' = {}
  BY <1>2, <1>4, PartsLeave DEF Submitting, At, Engaging
<1>7. KnowsItsTask(j)'
  BY <1>3, <1>4, LeavingKnows
<1>. QED BY <1>2, <1>3, <1>4, <1>5, <1>6, <1>7, NothingPending DEF Owns

LEMMA RequestIsSent ==
  ASSUME TypeOK, NEW w \in Workers, NEW j \in Jobs, JobInv(j), Send(w, j)
  PROVE  JobInv(j)'
<1>1. w \in Submitting(j) /\ worker[w].task = NoTask /\ worker[w].job = j
  BY DEF Send, Submitting, At, JobInv, KnowsItsTask
<1>2. /\ worker'[w].pc = "sending" /\ worker'[w].task = NoTask /\ worker'[w].job = j
      /\ \A x \in Workers \ {w} : worker'[x] = worker[x]
  BY <1>1 DEF Send, GoTo, TypeOK, WorkerState
<1>3. UNCHANGED <<job, version, claim, calls, tasks, late>>
  BY DEF Send, rows, provider
<1>4. Bound(j)' = Bound(j) /\ Logged(j)' = Logged(j) /\ Live(j)' = Live(j)
  BY <1>3 DEF Bound, Live, Logged, Unlogged
<1>5. Submitting(j)' = Submitting(j) /\ Engaged(j)' = Engaged(j) /\ w \notin Engaged(j)
  BY <1>1, <1>2 DEF Submitting, Engaged, At, Send
<1>6. OneSubmission(j)' /\ LateAlone(j)' /\ OneBound(j)' /\ ClaimHeld(j)'
  BY <1>1, <1>2, <1>3, <1>4, <1>5
     DEF JobInv, OneSubmission, LateAlone, OneBound, ClaimHeld
<1>7. OwnerHasTheTask(j)'
  BY <1>1, <1>2, <1>3, <1>4, <1>5 DEF JobInv, OwnerHasTheTask, Owns
<1>8. KnowsItsTask(j)'
  BY <1>2, <1>3, <1>5 DEF JobInv, KnowsItsTask, Engaged
<1>. QED BY <1>6, <1>7, <1>8 DEF JobInv

-----------------------------------------------------------------------------
(* The provider and the reply.                                               *)

\* A task starts that no trace was there of: it is the only one.
LEMMA TaskStarts ==
  ASSUME TypeOK, NEW j \in Jobs, NEW t \in Tasks, StartsTask(j, t),
         UNCHANGED <<calls, version>>
  PROVE  /\ Bound(j)' \subseteq Bound(j) \cup {t}
         /\ Logged(j)' = Logged(j)
         /\ \A u \in Tasks : tasks[j][u] = "succeeded" => tasks'[j][u] = "succeeded"
  BY DEF StartsTask, TypeOK, Bound, Live, Logged, Unlogged

LEMMA RequestIsAccepted ==
  ASSUME TypeOK, NEW w \in Workers, NEW j \in Jobs, JobInv(j),
         NEW t \in Tasks, ProviderAccepts(w, j, t)
  PROVE  JobInv(j)'
<1>1. w \in Submitting(j) /\ worker[w].task = NoTask /\ worker[w].job = j
  BY DEF ProviderAccepts, Submitting, At
<1>2. Bound(j) = {} /\ Submitting(j) = {w} /\ j \notin late /\ job[j].nonCancellable
  BY <1>1 DEF JobInv, OneSubmission, Bound, Live, Logged, Unlogged, NoTask, Tasks
<1>3. /\ worker'[w].pc = "sending" /\ worker'[w].task = t /\ worker'[w].job = j
      /\ \A x \in Workers \ {w} : worker'[x] = worker[x]
  BY <1>1 DEF ProviderAccepts, At, TypeOK, WorkerState
<1>4. UNCHANGED <<job, version, claim, calls, late>>
  BY DEF ProviderAccepts, rows
<1>5. /\ Bound(j)' \subseteq {t} /\ Logged(j)' = {} /\ version[j].task = NoTask
      /\ \A u \in Tasks : tasks[j][u] = "succeeded" => tasks'[j][u] = "succeeded"
  BY <1>2, <1>4, TaskStarts DEF ProviderAccepts, Bound
<1>6. Submitting(j)' = {w} /\ Engaged(j)' = Engaged(j) /\ w \notin Engaged(j)
  BY <1>1, <1>2, <1>3 DEF Submitting, Engaged, At, ProviderAccepts
<1>7. OneSubmission(j)' /\ LateAlone(j)' /\ OneBound(j)'
  BY <1>2, <1>3, <1>4, <1>5, <1>6 DEF OneSubmission, LateAlone, OneBound
<1>8. ClaimHeld(j)'
  BY <1>2, <1>4 DEF JobInv, ClaimHeld
<1>9. OwnerHasTheTask(j)'
  BY <1>2, <1>3, <1>4, <1>6 DEF JobInv, OwnerHasTheTask, Owns
<1>10. KnowsItsTask(j)'
  <2>1. \A x \in Workers : worker'[x].job = j
          => (worker'[x].pc \in {"prepare", "submit", "slot"} => worker'[x].task = NoTask)
    BY <1>3 DEF JobInv, KnowsItsTask
  <2>2. \A x \in Engaged(j)' :
          /\ worker'[x].task \in Tasks /\ calls'[j][worker'[x].task] # "none"
          /\ worker'[x].pc = "fetch" => tasks'[j][worker'[x].task] = "succeeded"
    BY <1>3, <1>4, <1>5, <1>6 DEF JobInv, KnowsItsTask, Engaged
  <2>3. version'[j].task # NoTask => calls'[j][version'[j].task] # "none"
    BY <1>4 DEF JobInv, KnowsItsTask
  <2>. QED BY <2>1, <2>2, <2>3 DEF KnowsItsTask
<1>. QED BY <1>7, <1>8, <1>9, <1>10 DEF JobInv

LEMMA LateIsAccepted ==
  ASSUME TypeOK, NEW j \in Jobs, JobInv(j), NEW t \in Tasks, ProviderAcceptsLate(j, t)
  PROVE  JobInv(j)'
<1>1. Bound(j) = {} /\ Submitting(j) = {} /\ job[j].nonCancellable
  BY DEF ProviderAcceptsLate, JobInv, OneSubmission, LateAlone
<1>2. UNCHANGED <<job, version, claim, calls, worker>> /\ j \in late /\ j \notin late'
  BY DEF ProviderAcceptsLate, rows
<1>3. /\ Bound(j)' \subseteq {t}
      /\ \A u \in Tasks : tasks[j][u] = "succeeded" => tasks'[j][u] = "succeeded"
  BY <1>1, <1>2, TaskStarts DEF ProviderAcceptsLate
<1>4. Submitting(j)' = {} /\ Engaged(j)' = Engaged(j)
  BY <1>1, <1>2 DEF Submitting, Engaged, At
<1>5. OneSubmission(j)' /\ LateAlone(j)' /\ OneBound(j)'
  BY <1>1, <1>2, <1>3, <1>4 DEF OneSubmission, LateAlone, OneBound
<1>6. OwnerHasTheTask(j)' /\ ClaimHeld(j)'
  BY <1>2, <1>4 DEF JobInv, OwnerHasTheTask, ClaimHeld, Owns
<1>7. KnowsItsTask(j)'
  <2>1. \A x \in Workers : worker'[x].job = j
          => (worker'[x].pc \in {"prepare", "submit", "slot"} => worker'[x].task = NoTask)
    BY <1>2 DEF JobInv, KnowsItsTask
  <2>2. \A x \in Engaged(j)' :
          /\ worker'[x].task \in Tasks /\ calls'[j][worker'[x].task] # "none"
          /\ worker'[x].pc = "fetch" => tasks'[j][worker'[x].task] = "succeeded"
    BY <1>2, <1>3, <1>4 DEF JobInv, KnowsItsTask, Engaged
  <2>3. version'[j].task # NoTask => calls'[j][version'[j].task] # "none"
    BY <1>2 DEF JobInv, KnowsItsTask
  <2>. QED BY <2>1, <2>2, <2>3 DEF KnowsItsTask
<1>. QED BY <1>5, <1>6, <1>7 DEF JobInv

LEMMA ReplyIsLogged ==
  ASSUME TypeOK, NEW w \in Workers, NEW j \in Jobs, JobInv(j), ReplyAccepted(w, j)
  PROVE  JobInv(j)'
<1>. DEFINE t == worker[w].task
<1>1. w \in Submitting(j) /\ t \in Tasks /\ worker[w].job = j
  BY DEF ReplyAccepted, Submitting, At, TypeOK, WorkerState
<1>2. /\ Bound(j) \subseteq {t} /\ Submitting(j) = {w} /\ j \notin late
      /\ job[j].nonCancellable /\ version[j].task = NoTask
  BY <1>1 DEF JobInv, OneSubmission
<1>3. /\ worker'[w].pc = "accept" /\ worker'[w].task = t /\ worker'[w].job = j
      /\ \A x \in Workers \ {w} : worker'[x] = worker[x]
  <2>1. worker[w] \in WorkerState
    BY DEF TypeOK
  <2>2. LET u == [worker[w] EXCEPT !.pc = "accept", !.fresh = TRUE]
        IN  u.pc = "accept" /\ u.task = worker[w].task /\ u.job = worker[w].job
    BY <2>1 DEF WorkerState
  <2>. QED BY <1>1, <2>2 DEF ReplyAccepted, TypeOK
<1>4. UNCHANGED <<job, version, claim, tasks, late>>
  BY DEF ReplyAccepted, provider
<1>5. /\ calls'[j][t] = "OK"
      /\ \A u \in Tasks : calls[j][u] # "none" => calls'[j][u] # "none"
      /\ \A u \in Tasks \ {t} : calls'[j][u] = calls[j][u]
  BY <1>1 DEF ReplyAccepted, TypeOK
<1>6. Bound(j)' \subseteq {t} /\ Live(j)' = Live(j)
  BY <1>2, <1>4, <1>5 DEF Bound, Live, Logged, Unlogged
<1>7. Submitting(j)' = {} /\ Engaged(j)' = Engaged(j) \cup {w}
  BY <1>2, <1>3 DEF Submitting, Engaged, At
<1>8. OneSubmission(j)' /\ LateAlone(j)' /\ OneBound(j)'
  BY <1>2, <1>4, <1>6, <1>7 DEF OneSubmission, LateAlone, OneBound
<1>9. ClaimHeld(j)'
  BY <1>1, <1>4 DEF JobInv, ClaimHeld
<1>10. OwnerHasTheTask(j)'
  BY <1>1, <1>2, <1>3, <1>4, <1>6, <1>7 DEF JobInv, OwnerHasTheTask, Owns
<1>11. KnowsItsTask(j)'
  <2>1. \A x \in Workers : worker'[x].job = j
          => (worker'[x].pc \in {"prepare", "submit", "slot"} => worker'[x].task = NoTask)
    BY <1>3 DEF JobInv, KnowsItsTask
  <2>2. \A x \in Engaged(j)' :
          /\ worker'[x].task \in Tasks /\ calls'[j][worker'[x].task] # "none"
          /\ worker'[x].pc = "fetch" => tasks'[j][worker'[x].task] = "succeeded"
    BY <1>1, <1>3, <1>4, <1>5, <1>7 DEF JobInv, KnowsItsTask, Engaged
  <2>3. version'[j].task # NoTask => calls'[j][version'[j].task] # "none"
    BY <1>2, <1>4 DEF JobInv, KnowsItsTask
  <2>. QED BY <2>1, <2>2, <2>3 DEF KnowsItsTask
<1>. QED BY <1>8, <1>9, <1>10, <1>11 DEF JobInv

-----------------------------------------------------------------------------
(* From the acceptance to the result.                                        *)

LEMMA AcceptanceIsCommitted ==
  ASSUME TypeOK, NEW w \in Workers, NEW j \in Jobs, JobInv(j), CommitAcceptance(w, j)
  PROVE  JobInv(j)'
<1>. DEFINE t == worker[w].task
<1>1. /\ w \in Engaged(j) /\ Owns(w, j) /\ t \in Tasks /\ calls[j][t] # "none"
      /\ worker[w].job = j
  BY DEF CommitAcceptance, At, Engaged, JobInv, KnowsItsTask
<1>2. Bound(j) \subseteq {t} /\ j \notin late /\ Submitting(j) = {}
  BY <1>1 DEF JobInv, OwnerHasTheTask
<1>3. /\ worker'[w].pc = "poll" /\ worker'[w].task = t /\ worker'[w].job = j
      /\ \A x \in Workers \ {w} : worker'[x] = worker[x]
  BY <1>1 DEF CommitAcceptance, GoTo, TypeOK, WorkerState
<1>4. UNCHANGED <<calls, tasks, late>>
  BY DEF CommitAcceptance, provider
<1>5. job'[j].nonCancellable /\ job'[j].leaseOwner = w
  <2>1. job'[j] = [Renewed(job[j]) EXCEPT
                     !.createState = "accepted", !.operation = TRUE,
                     !.nonCancellable = TRUE,
                     !.pollRequired = TRUE, !.resultAdoptable = TRUE]
    BY DEF CommitAcceptance, TypeOK
  <2>2. Renewed(job[j]) \in JobRow /\ Renewed(job[j]).leaseOwner = w
    BY <1>1, RowTypes, RenewedFields DEF TypeOK, Owns
  <2>. QED BY <2>1, <2>2 DEF JobRow
<1>6. version'[j].task = t
  BY DEF CommitAcceptance, TypeOK, VersionRow
<1>7. claim'[j] = claim[j] \/ claim'[j] = "accepted"
  BY DEF CommitAcceptance, TypeOK
<1>8. Bound(j)' \subseteq {t} /\ Live(j)' = Live(j)
  BY <1>2, <1>4, <1>6 DEF Bound, Live, Logged, Unlogged
<1>9. Submitting(j)' = {} /\ Engaged(j)' = Engaged(j)
  BY <1>1, <1>2, <1>3 DEF Submitting, Engaged, At
<1>10. OneSubmission(j)' /\ LateAlone(j)' /\ OneBound(j)'
  BY <1>2, <1>4, <1>5, <1>8, <1>9 DEF OneSubmission, LateAlone, OneBound
<1>11. ClaimHeld(j)'
  BY <1>2, <1>4, <1>7, <1>8, <1>9 DEF JobInv, ClaimHeld
<1>12. OwnerHasTheTask(j)'
  BY <1>2, <1>3, <1>4, <1>5, <1>8, <1>9 DEF OwnerHasTheTask, Owns
<1>13. KnowsItsTask(j)'
  <2>1. \A x \in Workers : worker'[x].job = j
          => (worker'[x].pc \in {"prepare", "submit", "slot"} => worker'[x].task = NoTask)
    BY <1>3 DEF JobInv, KnowsItsTask
  <2>2. \A x \in Engaged(j)' :
          /\ worker'[x].task \in Tasks /\ calls'[j][worker'[x].task] # "none"
          /\ worker'[x].pc = "fetch" => tasks'[j][worker'[x].task] = "succeeded"
    BY <1>1, <1>3, <1>4, <1>9 DEF JobInv, KnowsItsTask, Engaged
  <2>3. version'[j].task # NoTask => calls'[j][version'[j].task] # "none"
    BY <1>1, <1>4, <1>6 DEF JobInv, KnowsItsTask
  <2>. QED BY <2>1, <2>2, <2>3 DEF KnowsItsTask
<1>. QED BY <1>10, <1>11, <1>12, <1>13 DEF JobInv

LEMMA ResultIsReady ==
  ASSUME TypeOK, NEW w \in Workers, NEW j \in Jobs, JobInv(j), PollSucceeded(w, j)
  PROVE  JobInv(j)'
<1>1. w \in Engaged(j) /\ worker[w].job = j /\ tasks[j][worker[w].task] = "succeeded"
  BY DEF PollSucceeded, Polled, At, Engaged
<1>2. /\ worker'[w].pc = "fetch" /\ worker'[w].task = worker[w].task
      /\ worker'[w].job = j /\ \A x \in Workers \ {w} : worker'[x] = worker[x]
  BY <1>1 DEF PollSucceeded, GoTo, TypeOK, WorkerState
<1>3. UNCHANGED <<version, claim, calls, tasks, late>>
  BY DEF PollSucceeded, provider
<1>4. /\ job'[j].nonCancellable = job[j].nonCancellable
      /\ \A x \in Workers : Owns(x, j)' => Owns(x, j)
  <2>1. job'[j] = Renewed(job[j]) /\ job[j] \in JobRow
    BY DEF PollSucceeded, TypeOK
  <2>. QED BY <2>1, RenewedFields DEF Owns
<1>5. Bound(j)' = Bound(j) /\ Logged(j)' = Logged(j) /\ Live(j)' = Live(j)
  BY <1>3 DEF Bound, Live, Logged, Unlogged
<1>6. Submitting(j)' = Submitting(j) /\ Engaged(j)' = Engaged(j) /\ w \notin Submitting(j)
  BY <1>1, <1>2 DEF Submitting, Engaged, At
<1>7. OneSubmission(j)' /\ LateAlone(j)' /\ OneBound(j)' /\ ClaimHeld(j)'
  BY <1>2, <1>3, <1>4, <1>5, <1>6
     DEF JobInv, OneSubmission, LateAlone, OneBound, ClaimHeld, Submitting
<1>8. OwnerHasTheTask(j)'
  BY <1>2, <1>3, <1>4, <1>5, <1>6 DEF JobInv, OwnerHasTheTask, Engaged
<1>9. KnowsItsTask(j)'
  <2>1. \A x \in Workers : worker'[x].job = j
          => (worker'[x].pc \in {"prepare", "submit", "slot"} => worker'[x].task = NoTask)
    BY <1>2 DEF JobInv, KnowsItsTask
  <2>2. \A x \in Engaged(j)' :
          /\ worker'[x].task \in Tasks /\ calls'[j][worker'[x].task] # "none"
          /\ worker'[x].pc = "fetch" => tasks'[j][worker'[x].task] = "succeeded"
    BY <1>1, <1>2, <1>3, <1>6 DEF JobInv, KnowsItsTask, Engaged
  <2>3. version'[j].task # NoTask => calls'[j][version'[j].task] # "none"
    BY <1>3 DEF JobInv, KnowsItsTask
  <2>. QED BY <2>1, <2>2, <2>3 DEF KnowsItsTask
<1>. QED BY <1>7, <1>8, <1>9 DEF JobInv

\* The owner gives up a task that has ended: nothing of it is left.
LEMMA TaskIsUnbound ==
  ASSUME TypeOK, NEW w \in Workers, NEW j \in Jobs, JobInv(j),
         PollFailed(w, j) \/ (FetchFailed(w, j) /\ Owns(w, j))
  PROVE  JobInv(j)'
<1>. DEFINE t == worker[w].task
<1>1. /\ w \in Engaged(j) /\ Owns(w, j) /\ t \in Tasks /\ calls[j][t] # "none"
      /\ tasks[j][t] \in {"succeeded", "failed"}
  BY DEF PollFailed, Polled, FetchFailed, At, Engaged, JobInv, KnowsItsTask
<1>2. Bound(j) \subseteq {t} /\ j \notin late /\ Submitting(j) = {}
  BY <1>1 DEF JobInv, OwnerHasTheTask
<1>3. UNCHANGED <<tasks, late>> /\ calls'[j] = DeadCalls(j)
  BY DEF PollFailed, FetchFailed, provider, TypeOK
<1>4. RetryOrHandOver(w, j, Unbound(job[j]), [version[j] EXCEPT !.task = NoTask])
  BY DEF PollFailed, FetchFailed
<1>5. /\ job'[j].status # "running" /\ version'[j].task = NoTask
      /\ Idle(w) \/ \E pay \in {"settled", "released"} : ThenSettle(w, pay)
  <2>1. /\ Unbound(job[j]) \in JobRow
        /\ [version[j] EXCEPT !.task = NoTask] \in VersionRow
        /\ [version[j] EXCEPT !.task = NoTask].task = NoTask
    BY RowTypes DEF TypeOK, VersionRow
  <2>. QED BY <1>4, <2>1, HandlersRelease
<1>6. Bound(j)' = {}
  BY <1>1, <1>2, <1>3, <1>5 DEF Bound, Live, Logged, Unlogged, DeadCalls
<1>7. Submitting(j)' = {}
  BY <1>2, <1>5, PartsLeave DEF Submitting, At, Engaging
<1>8. KnowsItsTask(j)'
  BY <1>3, <1>5, LeavingKnows
<1>. QED BY <1>2, <1>3, <1>5, <1>6, <1>7, <1>8, NothingPending DEF Owns

-----------------------------------------------------------------------------
(* The user, the leases and the restart.                                     *)

LEMMA EventCalm ==
  ASSUME NEW j \in Jobs, UNCHANGED <<worker, late, tasks, calls>>,
         job[j].nonCancellable => job'[j].nonCancellable,
         \A x \in Workers : Owns(x, j)' => Owns(x, j),
         version'[j].task = version[j].task,
         claim'[j] = claim[j] \/ ~job[j].nonCancellable
  PROVE  Calm(j)
  BY DEF Calm, CalmWorker, Live, Logged, Unlogged

LEMMA EventSafe ==
  ASSUME TypeOK, NEW j \in Jobs, JobInv(j), JobEvent(j)
  PROVE  JobInv(j)'
<1>. /\ job \in [Jobs -> JobRow] /\ version \in [Jobs -> VersionRow]
     /\ job[j] \in JobRow /\ version[j] \in VersionRow
  BY DEF TypeOK
<1>1. CASE StopShot(j)
  <2>1. /\ Released(j) \/ job'[j] = job[j]
        /\ version'[j].task = version[j].task
        /\ claim'[j] = claim[j] \/ ~job[j].nonCancellable
    BY <1>1, CancelReleases DEF StopShot
  <2>2. Calm(j)
    BY <1>1, <2>1, EventCalm DEF StopShot, Released, Owns, provider
  <2>. QED BY <2>2, CalmStep
<1>2. CASE RecoverStale(j)
  <2>1. job'[j] = [Freed(job[j]) EXCEPT !.status = "waiting_provider",
                                        !.createState = "accepted"]
    BY <1>2 DEF RecoverStale
  <2>2. Released(j)
    BY <2>1, WrittenFields DEF Released, JobStatus
  <2>3. version'[j].task = version[j].task
    BY <1>2 DEF RecoverStale, VersionRow
  <2>4. Calm(j)
    BY <1>2, <2>2, <2>3, EventCalm DEF RecoverStale, Released, Owns, provider
  <2>. QED BY <2>4, CalmStep
<1>3. CASE LeaseExpires(j) \/ OrphanLeaseExpires(j)
  <2>1. job'[j] = [job[j] EXCEPT !.leaseExpired = TRUE]
    BY <1>3 DEF LeaseExpires, OrphanLeaseExpires
  <2>2. /\ job'[j].nonCancellable = job[j].nonCancellable
        /\ \A x \in Workers : Owns(x, j)' => Owns(x, j)
    BY <2>1 DEF Owns, JobRow
  <2>3. Calm(j)
    BY <1>3, <2>2, EventCalm DEF LeaseExpires, OrphanLeaseExpires, provider
  <2>. QED BY <2>3, CalmStep
<1>4. CASE \E t \in Tasks : ProviderFinishes(j, t)
  <2>1. PICK t \in Tasks, s \in {"succeeded", "failed"} :
          /\ tasks[j][t] = "running" /\ tasks' = [tasks EXCEPT ![j][t] = s]
          /\ UNCHANGED <<job, version, claim, calls, late, worker>>
    BY <1>4 DEF ProviderFinishes, rows
  <2>2. /\ Live(j)' \subseteq Live(j) /\ Unlogged(j)' \subseteq Unlogged(j)
        /\ Logged(j)' = Logged(j)
        /\ \A u \in Tasks : tasks[j][u] = "succeeded" => tasks'[j][u] = "succeeded"
    BY <2>1 DEF TypeOK, Live, Logged, Unlogged
  <2>3. Calm(j)
    BY <2>1, <2>2 DEF Calm, CalmWorker, Owns
  <2>. QED BY <2>3, CalmStep
<1>5. CASE \E t \in Tasks : ProviderAcceptsLate(j, t)
  BY <1>5, LateIsAccepted
<1>. QED BY <1>1, <1>2, <1>3, <1>4, <1>5 DEF JobEvent

LEMMA SweepSafe ==
  ASSUME TypeOK, NEW j \in Jobs, JobInv(j), SweepSelect \/ SweepRecover
  PROVE  JobInv(j)'
<1>1. CASE SweepSelect
  <2>1. Calm(j)
    BY <1>1, EventCalm DEF SweepSelect, rows, provider, Owns
  <2>. QED BY <2>1, CalmStep
<1>2. CASE SweepRecover
  <2>1. job'[j] = job[j] \/ job'[j] = RecoveredRow(job[j])
    BY <1>2 DEF SweepRecover
  <2>2. /\ RecoveredRow(job[j]).status # "running"
        /\ RecoveredRow(job[j]).nonCancellable = job[j].nonCancellable
    BY ProtectedFields DEF TypeOK
  <2>3. job'[j] = job[j] \/ Released(j)
    BY <2>1, <2>2 DEF Released
  <2>4. Calm(j)
    BY <1>2, <2>3, EventCalm DEF SweepRecover, Released, Owns, provider
  <2>. QED BY <2>4, CalmStep
<1>. QED BY <1>1, <1>2

LEMMA PauseSafe ==
  ASSUME TypeOK, NEW j \in Jobs, JobInv(j), PauseEpisode
  PROVE  JobInv(j)'
<1>. job[j] \in JobRow /\ version[j] \in VersionRow
  BY DEF TypeOK
<1>1. job'[j] = job[j] \/ job'[j] = [Freed(job[j]) EXCEPT !.status = "paused"]
  BY DEF PauseEpisode
<1>2. Released(j) \/ job'[j] = job[j]
  <2>1. "paused" \in JobStatus
    BY DEF JobStatus
  <2>2. /\ [Freed(job[j]) EXCEPT !.status = "paused"].status = "paused"
        /\ [Freed(job[j]) EXCEPT !.status = "paused"].nonCancellable
             = job[j].nonCancellable
    BY <2>1, FreedFields
  <2>. QED BY <1>1, <2>2 DEF Released
<1>3. version'[j].task = version[j].task
  BY DEF PauseEpisode, VersionRow
<1>4. Calm(j)
  BY <1>2, <1>3, EventCalm DEF PauseEpisode, Released, Owns, provider
<1>. QED BY <1>4, CalmStep

\* A handle that is found in the ledger is bound, and protected, at once.
LEMMA ResumeSafe ==
  ASSUME TypeOK, NEW j \in Jobs, JobInv(j), ResumeEpisode
  PROVE  JobInv(j)'
<1>. job[j] \in JobRow /\ version[j] \in VersionRow /\ Handle(j) \in Tasks \cup {NoTask}
  BY HandleType DEF TypeOK
<1>. DEFINE b == [job[j] EXCEPT !.createState = "accepted", !.nonCancellable = TRUE]
<1>0. b \in JobRow /\ b.nonCancellable /\ b.status = job[j].status
  BY DEF JobRow, CreateState
<1>1. PICK found \in BOOLEAN, in \in BOOLEAN, s \in {"waiting_provider", "queued"} :
        /\ found => /\ version[j].task = NoTask /\ Handle(j) # NoTask
                    /\ job[j].status = "paused"
        /\ job'[j] = IF in THEN [Freed(IF found THEN b ELSE job[j]) EXCEPT
                                   !.status = s, !.slotActive = TRUE]
                     ELSE IF found THEN b ELSE job[j]
        /\ version'[j].task = IF found THEN Handle(j) ELSE version[j].task
  <2>. DEFINE S == {k \in Jobs : job[k].status = "paused" /\ ~job[k].cancelRequested}
              lost == {k \in S : version[k].task = NoTask /\ MayHaveAccepted(job[k])}
              found == {k \in lost : Handle(k) # NoTask}
              R == IF lost \subseteq found THEN S ELSE {}
              task(k) == IF k \in found THEN Handle(k) ELSE version[k].task
              bound(k) == IF k \in found
                            THEN [job[k] EXCEPT !.createState = "accepted",
                                                !.nonCancellable = TRUE]
                            ELSE job[k]
              st == IF task(j) # NoTask THEN "waiting_provider" ELSE "queued"
  <2>1. /\ job' = [k \in Jobs |->
             IF k \in R
               THEN [Freed(bound(k)) EXCEPT
                       !.status = IF task(k) # NoTask THEN "waiting_provider"
                                                      ELSE "queued",
                       !.slotActive = TRUE]
               ELSE bound(k)]
        /\ version' = [k \in Jobs |->
             [version[k] EXCEPT !.task = task(k),
                !.status = IF k \in R /\ @ = "paused" THEN "queued" ELSE @]]
    BY Zenon DEF ResumeEpisode
  <2>2. job'[j] = IF j \in R THEN [Freed(IF j \in found THEN b ELSE job[j]) EXCEPT
                                     !.status = st, !.slotActive = TRUE]
                  ELSE IF j \in found THEN b ELSE job[j]
    <3>. HIDE DEF found, R
    <3>. QED BY <2>1, Zenon
  <2>3. version'[j].task = IF j \in found THEN Handle(j) ELSE version[j].task
    <3>. HIDE DEF found, R
    <3>. QED BY <2>1 DEF VersionRow
  <2>4. j \in found => /\ version[j].task = NoTask /\ Handle(j) # NoTask
                       /\ job[j].status = "paused"
    OBVIOUS
  <2>5. st \in {"waiting_provider", "queued"}
    OBVIOUS
  <2>. HIDE DEF found, R, st
  <2>. QED BY <2>2, <2>3, <2>4, <2>5, Zenon
<1>2. /\ Released(j) \/ job'[j] = job[j]
      /\ found => job'[j].nonCancellable
  <2>. HIDE DEF b
  <2>1. CASE in
    <3>1. \A r \in JobRow : LET q == [Freed(r) EXCEPT !.status = s, !.slotActive = TRUE]
                             IN  q.status = s /\ q.nonCancellable = r.nonCancellable
      BY DEF Freed, JobRow
    <3>. QED BY <1>0, <1>1, <2>1, <3>1 DEF Released
  <2>2. CASE ~in
    BY <1>0, <1>1, <2>2 DEF Released
  <2>. QED BY <2>1, <2>2
<1>3. \A x \in Workers : Owns(x, j)' => Owns(x, j)
  BY <1>2 DEF Released, Owns
<1>4. UNCHANGED <<worker, late, tasks, calls, claim>>
  BY DEF ResumeEpisode, provider
<1>5. CASE ~found
  <2>1. Calm(j)
    BY <1>1, <1>2, <1>3, <1>4, <1>5, EventCalm DEF Released
  <2>. QED BY <2>1, CalmStep
<1>6. CASE found
  <2>1. Handle(j) \in Logged(j) /\ Logged(j) \subseteq Bound(j)
    BY <1>1, <1>6, HandleType DEF Bound
  <2>2. Submitting(j) = {} /\ j \notin late
    BY <2>1 DEF JobInv, OneSubmission, LateAlone
  <2>3. Bound(j)' \subseteq Bound(j) /\ Live(j)' = Live(j)
    BY <1>1, <1>4, <1>6, <2>1 DEF Bound, Live, Logged, Unlogged
  <2>4. Submitting(j)' = {} /\ Engaged(j)' = Engaged(j)
    BY <1>4, <2>2 DEF Submitting, Engaged, At
  <2>5. OneSubmission(j)' /\ LateAlone(j)' /\ OneBound(j)' /\ ClaimHeld(j)'
    BY <1>2, <1>4, <1>6, <2>2, <2>3, <2>4
       DEF JobInv, OneSubmission, LateAlone, OneBound, ClaimHeld
  <2>6. OwnerHasTheTask(j)'
    BY <1>3, <1>4, <2>3, <2>4 DEF JobInv, OwnerHasTheTask, Engaged
  <2>7. KnowsItsTask(j)'
    BY <1>1, <1>4, <1>6, <2>1, <2>4 DEF JobInv, KnowsItsTask, Logged
  <2>. QED BY <2>5, <2>6, <2>7 DEF JobInv
<1>. QED BY <1>5, <1>6

LEMMA CrashSafe ==
  ASSUME TypeOK, NEW j \in Jobs, JobInv(j), CrashAndRestart
  PROVE  JobInv(j)'
<1>1. /\ Submitting(j)' = {} /\ Engaged(j)' = {}
      /\ \A x \in Workers : worker'[x].pc = "idle"
  BY DEF CrashAndRestart, IdleWorker, Submitting, Engaged, At
<1>2. UNCHANGED <<version, claim, calls, tasks>>
  BY DEF CrashAndRestart
<1>3. Bound(j)' = Bound(j) /\ Live(j)' = Live(j)
  BY <1>2 DEF Bound, Live, Logged, Unlogged
<1>4. job'[j].nonCancellable = job[j].nonCancellable
  <2>1. job'[j] = job[j] \/ job'[j] = RecoveredRow(job[j])
    BY DEF CrashAndRestart
  <2>. QED BY <2>1, ProtectedFields DEF TypeOK
<1>5. OneSubmission(j)' /\ OneBound(j)' /\ OwnerHasTheTask(j)' /\ KnowsItsTask(j)'
  BY <1>1, <1>2, <1>3, <1>4
     DEF JobInv, OneSubmission, OneBound, OwnerHasTheTask, KnowsItsTask
<1>6. CASE \E w \in Workers : At(w, "sending", j) /\ worker[w].task = NoTask
  <2>1. PICK w \in Submitting(j) : worker[w].task = NoTask
    BY <1>6 DEF Submitting
  <2>2. Bound(j) = {} /\ job[j].nonCancellable
    BY <2>1 DEF JobInv, OneSubmission, Bound, Live, Logged, Unlogged, NoTask, Tasks
  <2>3. claim[j] \in {"reserved", "accepted", "settled"}
    BY <2>1 DEF JobInv, ClaimHeld
  <2>4. LateAlone(j)' /\ ClaimHeld(j)'
    BY <1>2, <1>3, <1>4, <2>2, <2>3 DEF LateAlone, ClaimHeld
  <2>. QED BY <1>5, <2>4 DEF JobInv
<1>7. CASE ~\E w \in Workers : At(w, "sending", j) /\ worker[w].task = NoTask
  <2>1. j \in late' <=> j \in late
    BY <1>7 DEF CrashAndRestart
  <2>2. LateAlone(j)' /\ ClaimHeld(j)'
    BY <1>1, <1>2, <1>3, <1>4, <2>1 DEF JobInv, LateAlone, ClaimHeld
  <2>. QED BY <1>5, <2>2 DEF JobInv
<1>. QED BY <1>6, <1>7

-----------------------------------------------------------------------------
(* The theorems.                                                             *)

LEMMA InitSafe == Init => SafetyInv
<1>. SUFFICES ASSUME Init, NEW j \in Jobs PROVE JobInv(j)
  BY DEF SafetyInv
<1>1. /\ Bound(j) = {} /\ Submitting(j) = {} /\ Engaged(j) = {} /\ j \notin late
      /\ version[j].task = NoTask /\ Live(j) = {}
  BY DEF Init, Bound, Live, Logged, Unlogged, Submitting, Engaged, At, IdleWorker
<1>2. \A w \in Workers : worker[w].pc = "idle"
  BY DEF Init, IdleWorker
<1>. QED BY <1>1, <1>2 DEF JobInv, OneSubmission, LateAlone, OneBound,
            OwnerHasTheTask, KnowsItsTask, ClaimHeld

LEMMA WorkerSafe ==
  ASSUME TypeOK, NEW w \in Workers, NEW j \in Jobs, JobInv(j), WorkerEvent(w, j)
  PROVE  JobInv(j)'
<1>1. ASSUME Calm(j) PROVE JobInv(j)'
  BY <1>1, CalmStep
<1>2. CASE Leaving(w, j)
  BY <1>1, <1>2, LeavingCalm
<1>3. CASE \/ Claim(w, j) \/ Heartbeat(w, j) \/ MarkSubmitting(w, j)
           \/ CheckpointCandidate(w, j) \/ QaPassed(w, j)
  BY <1>1, <1>3, StayingCalm
<1>4. CASE \/ LeaseLost(w, j) \/ ReplyUnknown(w, j) \/ UnexpectedError(w, j)
           \/ Interrupt(w, j)
  BY <1>4, GivingUp
<1>5. CASE Load(w, j)
  BY <1>1, <1>5, StayingCalm, TaskIsKnown
<1>6. CASE \/ ClaimSlot(w, j) \/ AuthorityStale(w, j) \/ InterruptAtSlot(w, j)
           \/ Send(w, j)
           \/ ReplyRejected(w, j) \/ ReplyAccepted(w, j) \/ CommitAcceptance(w, j)
  BY <1>6, SlotIsClaimed, SlotIsGivenBack, RequestIsSent, ReplyIsLogged,
     AcceptanceIsCommitted
<1>7. CASE PollSucceeded(w, j)
  BY <1>7, ResultIsReady
<1>8. CASE PollFailed(w, j) \/ (FetchFailed(w, j) /\ Owns(w, j))
  BY <1>8, TaskIsUnbound
<1>9. CASE \E t \in Tasks : ProviderAccepts(w, j, t)
  BY <1>9, RequestIsAccepted
<1>. QED BY <1>2, <1>3, <1>4, <1>5, <1>6, <1>7, <1>8, <1>9
     DEF WorkerEvent, WorkerStep, LoopStep, ThreadStep, Leaving

LEMMA StepSafe == TypeOK /\ SafetyInv /\ [Next]_vars => SafetyInv'
<1>. SUFFICES ASSUME TypeOK, SafetyInv, [Next]_vars, NEW k \in Jobs PROVE JobInv(k)'
  BY DEF SafetyInv
<1>. \A j \in Jobs : JobInv(j)
  BY DEF SafetyInv
<1>1. ASSUME NEW w \in Workers, NEW j \in Jobs, WorkerEvent(w, j)
      PROVE  JobInv(k)'
  <2>1. CASE k = j
    BY <1>1, <2>1, WorkerSafe
  <2>2. CASE k # j
    BY <1>1, <2>2, WorkerLocal, LocalCalm, CalmStep
  <2>. QED BY <2>1, <2>2
<1>2. ASSUME NEW j \in Jobs, JobEvent(j)
      PROVE  JobInv(k)'
  <2>1. CASE k = j
    BY <1>2, <2>1, EventSafe
  <2>2. CASE k # j
    BY <1>2, <2>2, EventLocal, LocalCalm, CalmStep
  <2>. QED BY <2>1, <2>2
<1>3. CASE \/ PauseEpisode \/ ResumeEpisode \/ CrashAndRestart
           \/ SweepSelect \/ SweepRecover
  BY <1>3, PauseSafe, ResumeSafe, CrashSafe, SweepSafe
<1>4. CASE UNCHANGED vars
  <2>1. Calm(k)
    BY <1>4 DEF vars, provider, Calm, CalmWorker, Live, Logged, Unlogged, Owns
  <2>. QED BY <2>1, CalmStep
<1>. QED BY <1>1, <1>2, <1>3, <1>4 DEF Next

\* The invariant that carries the properties below: for every number of jobs,
\* workers, tasks, retries and faults, all traces of a paid task of a job (the
\* version's task id, the ledger, the provider) are traces of one task, a single
\* submission is under way and protected by provider_non_cancellable, and the
\* lease owner of _run_job works on that one task.
THEOREM Safe == Spec => []SafetyInv
<1>1. Init => SafetyInv
  BY InitSafe
<1>2. TypeOK /\ SafetyInv /\ [Next]_vars => SafetyInv'
  BY StepSafe
<1>. QED BY <1>1, <1>2, TypeCorrect, PTL DEF Spec

\* _run_job and the recovery paths never have the provider run two paid tasks of
\* one job at once.
THEOREM LiveTaskIsSingle == Spec => []OneLiveTask
<1>1. SafetyInv => OneLiveTask
  BY DEF SafetyInv, JobInv, OneBound, Bound, OneLiveTask
<1>. QED BY <1>1, Safe, PTL

\* A paid task, or a request still unanswered, is always recorded on the jobs row
\* where _assert_provider_create_resolved finds it, whoever crashed or gave up.
THEOREM PaidTaskIsRemembered == Spec => []NoPaidTaskForgotten
<1>1. ASSUME SafetyInv, NEW j \in Jobs, Live(j) # {} \/ Requested(j)
      PROVE  job[j].nonCancellable
  <2>. JobInv(j)
    BY <1>1 DEF SafetyInv
  <2>1. CASE Live(j) # {}
    BY <2>1 DEF JobInv, OneBound, Bound
  <2>2. CASE Requested(j)
    BY <2>2 DEF JobInv, OneSubmission, LateAlone, Requested, Submitting
  <2>. QED BY <1>1, <2>1, <2>2
<1>2. SafetyInv => NoPaidTaskForgotten
  BY <1>1 DEF NoPaidTaskForgotten, MayHaveAccepted
<1>. QED BY <1>2, Safe, PTL

\* provider_video_budget_claims holds the amount as long as a task runs or a
\* request may start one: no handler gives it back too early.
THEOREM ClaimIsKept == Spec => []ClaimCoversTask
<1>1. ASSUME SafetyInv, NEW j \in Jobs, Live(j) # {} \/ Requested(j)
      PROVE  claim[j] \in {"reserved", "accepted", "settled"}
  BY <1>1 DEF SafetyInv, JobInv, ClaimHeld, Requested, Submitting
<1>2. SafetyInv => ClaimCoversTask
  BY <1>1 DEF ClaimCoversTask
<1>. QED BY <1>2, Safe, PTL

\* create_video_task is called only when every earlier task of the operation was
\* logged and declared dead, and no earlier request can still be accepted:
\* neither two workers nor a restart get a create past claim_video_submit_slot.
THEOREM NoCreateIsRepeated == Spec => NoBlindRecreate
<1>1. ASSUME TypeOK, SafetyInv, NEW w \in Workers, NEW j \in Jobs, At(w, "slot", j)
      PROVE  /\ Live(j) = {} /\ ~Requested(j)
             /\ \A t \in Tasks : tasks[j][t] # "none" => calls[j][t] = "TASK_FAILED"
  <2>. JobInv(j) /\ w \in Submitting(j) /\ worker[w].task = NoTask
    BY <1>1 DEF SafetyInv, JobInv, KnowsItsTask, Submitting, At
  <2>1. /\ Submitting(j) = {w} /\ j \notin late
        /\ Live(j) = {} /\ Logged(j) = {} /\ Unlogged(j) = {}
    BY DEF JobInv, OneSubmission, Bound, Live, Logged, Unlogged, NoTask, Tasks
  <2>2. ~Requested(j)
    BY <1>1, <2>1 DEF Requested, Submitting, At
  <2>3. \A t \in Tasks : tasks[j][t] # "none" => calls[j][t] = "TASK_FAILED"
    BY <1>1, <2>1 DEF Logged, Unlogged, TypeOK, CallStatus
  <2>. QED BY <2>1, <2>2, <2>3
<1>2. TypeOK /\ SafetyInv /\ [Next]_vars
        => [\A w \in Workers, j \in Jobs :
              At(w, "slot", j) /\ At(w, "sending", j)'
                => /\ Live(j) = {} /\ ~Requested(j)
                   /\ \A t \in Tasks : tasks[j][t] # "none"
                                         => calls[j][t] = "TASK_FAILED"]_vars
  BY <1>1
<1>. QED BY <1>2, TypeCorrect, Safe, PTL DEF Spec, NoBlindRecreate

-----------------------------------------------------------------------------
(* Who may write a jobs row.                                                 *)

\* Every handler of a worker asks for the lease before it writes the row.
LEMMA OnlyTheOwnerWrites ==
  ASSUME NEW w \in Workers, NEW j \in Jobs, WorkerStep(w, j)
  PROVE  Owns(w, j) \/ job[j].leaseOwner = w \/ UNCHANGED job
<1>1. CASE Owns(w, j)
  BY <1>1
<1>2. CASE ~Owns(w, j)
  <2>1. CASE LeaseLost(w, j) \/ ReleaseRefused(w, j) \/ Send(w, j)
    BY <2>1 DEF LeaseLost, ReleaseRefused, Send, rows
  <2>2. CASE Load(w, j) \/ LoadUnresolved(w, j) \/ ReviewFence(w, j)
    BY <1>2, <2>2 DEF Load, LoadUnresolved, ReviewFence
  <2>3. CASE InputRepair(w, j) \/ PlanStale(w, j) \/ InputError(w, j)
    BY <1>2, <2>3 DEF InputRepair, PlanStale, InputError
  <2>4. CASE Defer(w, j)
    BY <2>4 DEF Defer
  <2>5. CASE MarkSubmitting(w, j) \/ ClaimSlot(w, j) \/ SlotFull(w, j)
    BY <1>2, <2>5 DEF MarkSubmitting, ClaimSlot, SlotFull
  <2>6. CASE AuthorityStale(w, j) \/ ReplyRejected(w, j) \/ ReplyUnknown(w, j)
    BY <1>2, <2>6 DEF AuthorityStale, BeforeTheCall, ReplyRejected, ReplyUnknown
  <2>7. CASE ReplyAccepted(w, j)
    BY <2>7 DEF ReplyAccepted
  <2>8. CASE CommitAcceptance(w, j) \/ UnexpectedError(w, j)
    BY <1>2, <2>8 DEF CommitAcceptance, UnexpectedError
  <2>9. CASE PollRunning(w, j) \/ PollTimeout(w, j) \/ PollFailed(w, j)
             \/ PollFailedManual(w, j) \/ PollRejected(w, j) \/ PollSucceeded(w, j)
    BY <1>2, <2>9 DEF PollRunning, PollTimeout, PollFailed, PollFailedManual,
                      PollRejected, PollSucceeded, Polled
  <2>10. CASE PollError(w, j) \/ FetchLost(w, j) \/ SupervisorFence(w, j)
    BY <1>2, <2>10 DEF PollError, FetchLost, SupervisorFence
  <2>11. CASE FetchFailed(w, j)
    BY <1>2, <2>11 DEF FetchFailed
  <2>12. CASE CheckpointCandidate(w, j) \/ CheckpointQuarantined(w, j)
    BY <1>2, <2>12 DEF CheckpointCandidate, CheckpointQuarantined
  <2>13. CASE Downgrade(w, j) \/ KeepCandidate(w, j)
    BY <1>2, <2>13 DEF Downgrade, KeepCandidate
  <2>14. CASE QaError(w, j) \/ QaPassed(w, j)
    BY <1>2, <2>14 DEF QaError, QaPassed
  <2>15. CASE Adopt(w, j)
    BY <2>15 DEF Adopt
  <2>16. CASE Settle(w, j)
    BY <2>16 DEF Settle
  <2>. QED BY <2>1, <2>2, <2>3, <2>4, <2>5, <2>6, <2>7, <2>8, <2>9, <2>10, <2>11,
              <2>12, <2>13, <2>14, <2>15, <2>16 DEF WorkerStep, LoopStep, ThreadStep
<1>. QED BY <1>1, <1>2

LEMMA StaleWorkerIsMute ==
  ASSUME NEW w \in Workers, NEW j \in Jobs, WorkerStep(w, j) \/ Interrupt(w, j),
         job[j].leaseOwner # w
  PROVE  job'[j] = job[j]
<1>1. CASE WorkerStep(w, j)
  BY <1>1, OnlyTheOwnerWrites DEF Owns
<1>2. CASE Interrupt(w, j)
  BY <1>2 DEF Interrupt
<1>. QED BY <1>1, <1>2

\* Whichever await of _run_job a worker wakes up from, and in whichever handler,
\* a lease that has passed to another owner, the sweeper or the user keeps it
\* from writing the jobs row, its release on cancellation included.
THEOREM StaleWorkerIsFenced == Spec => StaleWorkerLeavesJob
<1>1. [Next]_vars
        => [\A w \in Workers, j \in Jobs :
              /\ WorkerStep(w, j) \/ Interrupt(w, j)
              /\ job[j].leaseOwner # w
              => job'[j] = job[j]]_vars
  BY StaleWorkerIsMute
<1>. QED BY <1>1, PTL DEF Spec, StaleWorkerLeavesJob

-----------------------------------------------------------------------------
(* Cancellation is final.                                                    *)

\* request_cancel takes slot and lease with the status it writes.
CancelledAndFree(r) ==
    r.cancelRequested => /\ r.status \in {"cancelled", "abandoned"}
                         /\ r.leaseOwner = None

CancelInv == \A j \in Jobs : CancelledAndFree(job[j])

SameRequest(j) == job'[j].cancelRequested = job[j].cancelRequested

\* No write of the operations but request_cancel's touches the request.
LEMMA RequestFields ==
  ASSUME NEW r \in JobRow, NEW s, NEW c
  PROVE  /\ Freed(r).cancelRequested = r.cancelRequested
         /\ Renewed(r).cancelRequested = r.cancelRequested
         /\ Unbound(r).cancelRequested = r.cancelRequested
         /\ Unknown(r).cancelRequested = r.cancelRequested
         /\ Resubmittable(r).cancelRequested = r.cancelRequested
         /\ Isolated(r).cancelRequested = r.cancelRequested
         /\ RecoveredRow(r).cancelRequested = r.cancelRequested
         /\ Ended(r, s).cancelRequested = r.cancelRequested
         /\ [r EXCEPT !.status = s].cancelRequested = r.cancelRequested
         /\ [r EXCEPT !.createState = c].cancelRequested = r.cancelRequested
         /\ [Freed(r) EXCEPT !.status = s].cancelRequested = r.cancelRequested
         /\ [Freed(r) EXCEPT !.status = s, !.createState = c].cancelRequested
              = r.cancelRequested
         /\ [Ended(r, s) EXCEPT !.pollRequired = FALSE].cancelRequested = r.cancelRequested
         /\ [Ended(r, s) EXCEPT !.pollRequired = FALSE, !.resultAdoptable = FALSE,
               !.createState = c].cancelRequested = r.cancelRequested
<1>1. /\ Freed(r).cancelRequested = r.cancelRequested
      /\ Renewed(r).cancelRequested = r.cancelRequested
      /\ Unbound(r).cancelRequested = r.cancelRequested
      /\ Unknown(r).cancelRequested = r.cancelRequested
      /\ Resubmittable(r).cancelRequested = r.cancelRequested
  BY DEF JobRow, Freed, Renewed, Unbound, Unknown, Resubmittable
<1>2. /\ Isolated(r).cancelRequested = r.cancelRequested
      /\ RecoveredRow(r).cancelRequested = r.cancelRequested
      /\ Ended(r, s).cancelRequested = r.cancelRequested
  BY DEF JobRow, Freed, Isolated, RecoveredRow, Ended
<1>3. /\ [r EXCEPT !.status = s].cancelRequested = r.cancelRequested
      /\ [r EXCEPT !.createState = c].cancelRequested = r.cancelRequested
      /\ [Freed(r) EXCEPT !.status = s].cancelRequested = r.cancelRequested
      /\ [Freed(r) EXCEPT !.status = s, !.createState = c].cancelRequested
           = r.cancelRequested
  BY DEF JobRow, Freed
<1>4. /\ [Ended(r, s) EXCEPT !.pollRequired = FALSE].cancelRequested = r.cancelRequested
      /\ [Ended(r, s) EXCEPT !.pollRequired = FALSE, !.resultAdoptable = FALSE,
            !.createState = c].cancelRequested = r.cancelRequested
  BY DEF JobRow, Freed, Ended
<1>. QED BY <1>1, <1>2, <1>3, <1>4

LEMMA HandlersKeepRequest ==
  ASSUME TypeOK, NEW w \in Workers, NEW j \in Jobs, NEW r \in JobRow, NEW v,
         r.cancelRequested = job[j].cancelRequested,
         \/ RetryOrHandOver(w, j, r, v)
         \/ \E s \in JobStatus : Finish(w, j, r, v, s)
         \/ HandOver(w, j, r)
         \/ GoStale(w, j, r)
         \/ DeferPoll(w, j)
  PROVE  SameRequest(j)
<1>. job \in [Jobs -> JobRow] /\ job[j] \in JobRow
  BY DEF TypeOK
<1>1. ASSUME NEW s, Finish(w, j, r, v, s) PROVE SameRequest(j)
  BY <1>1, RequestFields DEF Finish, SameRequest
<1>2. CASE Retry(w, j, r, v)
  <2>1. job'[j] = [Freed(r) EXCEPT !.status = "queued", !.retryCount = @ + 1]
    BY <1>2 DEF Retry
  <2>. QED BY <2>1 DEF Freed, SameRequest, JobRow
<1>3. CASE RetryOrHandOver(w, j, r, v)
  BY <1>1, <1>2, <1>3 DEF RetryOrHandOver
<1>4. CASE HandOver(w, j, r)
  BY <1>4, RequestFields DEF HandOver, SameRequest
<1>5. CASE GoStale(w, j, r)
  BY <1>5, RequestFields DEF GoStale, SameRequest
<1>6. CASE DeferPoll(w, j)
  BY <1>6, RequestFields DEF DeferPoll, SameRequest
<1>. QED BY <1>1, <1>3, <1>4, <1>5, <1>6

LEMMA CancelWritesFreeRow ==
  ASSUME TypeOK, NEW j \in Jobs, RequestCancel(j)
  PROVE  ~job[j].cancelRequested => CancelledAndFree(job'[j])
<1>. job \in [Jobs -> JobRow] /\ job[j] \in JobRow
  BY DEF TypeOK
<1>1. CASE IsolateResult(j)
  BY <1>1, RequestFields DEF IsolateResult, CancelledAndFree
<1>2. CASE CancelJob(j)
  <2>1. PICK s \in {"abandoned", "cancelled"} :
          job' = [job EXCEPT ![j] = [Ended(job[j], s) EXCEPT !.cancelRequested = TRUE,
                    !.createState = IF PreTransport(j) THEN "not_started" ELSE @]]
    BY <1>2, Zenon DEF CancelJob
  <2>2. job'[j] = [Ended(job[j], s) EXCEPT !.cancelRequested = TRUE,
                     !.createState = IF PreTransport(j) THEN "not_started" ELSE @]
    BY <2>1
  <2>. QED BY <2>2 DEF Ended, Freed, JobRow, CancelledAndFree
<1>. QED BY <1>1, <1>2 DEF RequestCancel

\* The handlers of a worker keep the request; the supervisor fence is a stop.
LEMMA WorkerKeepsRequest ==
  ASSUME TypeOK, NEW w \in Workers, NEW j \in Jobs, WorkerEvent(w, j),
         ~SupervisorFence(w, j)
  PROVE  SameRequest(j)
<1>. job \in [Jobs -> JobRow] /\ job[j] \in JobRow
  BY DEF TypeOK
<1>0. {"waiting_human", "failed"} \subseteq JobStatus
  BY DEF JobStatus
<1>1. CASE \/ LeaseLost(w, j) \/ ReleaseRefused(w, j) \/ Send(w, j) \/ Load(w, j)
           \/ ReplyAccepted(w, j) \/ Settle(w, j)
           \/ \E t \in Tasks : ProviderAccepts(w, j, t)
  BY <1>1 DEF LeaseLost, ReleaseRefused, Send, Load, ReplyAccepted, Settle,
              ProviderAccepts, rows, SameRequest
<1>2. CASE Claim(w, j) \/ Heartbeat(w, j)
  BY <1>2, RequestFields DEF Claim, Heartbeat, SameRequest, JobRow
<1>3. CASE LoadUnresolved(w, j) \/ ReplyUnknown(w, j)
  <2>1. Unknown(job[j]) \in JobRow
    BY RowTypes
  <2>. QED BY <1>3, <2>1, RequestFields, HandlersKeepRequest
       DEF LoadUnresolved, ReplyUnknown
<1>4. CASE \/ ReviewFence(w, j) \/ InputRepair(w, j) \/ Downgrade(w, j)
           \/ KeepCandidate(w, j)
  BY <1>4, RequestFields DEF ReviewFence, InputRepair, Downgrade, KeepCandidate,
                             SameRequest
<1>5. CASE Defer(w, j) \/ Interrupt(w, j)
  <2>1. \/ job' = job
        \/ \E s : job' = [job EXCEPT ![j] = [Freed(job[j]) EXCEPT !.status = s]]
    BY <1>5, Zenon DEF Defer, Interrupt
  <2>2. ASSUME NEW s, job' = [job EXCEPT ![j] = [Freed(job[j]) EXCEPT !.status = s]]
        PROVE  SameRequest(j)
    BY <2>2 DEF Freed, JobRow, SameRequest
  <2>. QED BY <2>1, <2>2 DEF SameRequest
<1>6. CASE PlanStale(w, j)
  BY <1>6, HandlersKeepRequest DEF PlanStale
<1>7. CASE \/ InputError(w, j) \/ PollRunning(w, j) \/ PollError(w, j)
           \/ PollTimeout(w, j) \/ PollFailedManual(w, j) \/ FetchLost(w, j)
           \/ QaError(w, j)
  BY <1>0, <1>7, HandlersKeepRequest
     DEF InputError, PollRunning, PollError, PollTimeout, PollFailedManual,
         FetchLost, QaError
<1>8. CASE UnexpectedError(w, j)
  BY <1>0, <1>8, HandlersKeepRequest DEF UnexpectedError
<1>9. CASE MarkSubmitting(w, j) \/ ClaimSlot(w, j)
  BY <1>9 DEF MarkSubmitting, ClaimSlot, Renewed, SameRequest, JobRow
<1>10. CASE SlotFull(w, j)
  BY <1>10, RequestFields DEF SlotFull, SameRequest
<1>11. CASE AuthorityStale(w, j) \/ ReplyRejected(w, j)
  <2>. DEFINE r == Resubmittable(job[j])
  <2>0. r \in JobRow /\ r.cancelRequested = job[j].cancelRequested
    BY ResubmittableFields, RequestFields
  <2>. HIDE DEF r
  <2>1. \A c \in {"not_started", "model_rejected"} :
          /\ [r EXCEPT !.createState = c] \in JobRow
          /\ [r EXCEPT !.createState = c].cancelRequested = job[j].cancelRequested
    BY <2>0 DEF JobRow, CreateState
  <2>2. CASE AuthorityStale(w, j)
    BY <1>0, <2>0, <2>2, HandlersKeepRequest DEF AuthorityStale, r
  <2>3. CASE ReplyRejected(w, j)
    <3>1. \/ RetryOrHandOver(w, j, r, version[j])
          \/ Finish(w, j, r, version[j], "waiting_human")
          \/ \E c \in {"not_started", "model_rejected"} :
               Finish(w, j, [r EXCEPT !.createState = c], version[j], "failed")
      BY <2>3, Zenon DEF ReplyRejected, r
    <3>. QED BY <1>0, <2>0, <2>1, <3>1, HandlersKeepRequest, Zenon
  <2>. QED BY <1>11, <2>2, <2>3
<1>12. CASE CommitAcceptance(w, j)
  BY <1>12 DEF CommitAcceptance, Renewed, SameRequest, JobRow
<1>13. CASE PollFailed(w, j) \/ (FetchFailed(w, j) /\ Owns(w, j))
  <2>1. Unbound(job[j]) \in JobRow
    BY RowTypes
  <2>. QED BY <1>13, <2>1, RequestFields, HandlersKeepRequest DEF PollFailed, FetchFailed
<1>14. CASE FetchFailed(w, j) /\ ~Owns(w, j)
  BY <1>14 DEF FetchFailed, SameRequest
<1>15. CASE PollRejected(w, j) \/ CheckpointQuarantined(w, j)
  <2>1. \/ \E c : job' = [job EXCEPT ![j] = [Ended(job[j], "failed") EXCEPT
              !.pollRequired = FALSE, !.resultAdoptable = FALSE, !.createState = c]]
        \/ job' = [job EXCEPT ![j] = [Ended(job[j], "succeeded") EXCEPT
              !.pollRequired = FALSE]]
    BY <1>15, Zenon DEF PollRejected, CheckpointQuarantined
  <2>2. ASSUME NEW c, job' = [job EXCEPT ![j] = [Ended(job[j], "failed") EXCEPT
              !.pollRequired = FALSE, !.resultAdoptable = FALSE, !.createState = c]]
        PROVE  SameRequest(j)
    BY <2>2 DEF Ended, Freed, JobRow, SameRequest
  <2>3. CASE job' = [job EXCEPT ![j] = [Ended(job[j], "succeeded") EXCEPT
               !.pollRequired = FALSE]]
    BY <2>3 DEF Ended, Freed, JobRow, SameRequest
  <2>. QED BY <2>1, <2>2, <2>3, Zenon
<1>16. CASE PollSucceeded(w, j) \/ QaPassed(w, j) \/ CheckpointCandidate(w, j)
  BY <1>16 DEF PollSucceeded, QaPassed, CheckpointCandidate, Renewed, SameRequest,
               JobRow
<1>17. CASE Adopt(w, j)
  BY <1>17, RequestFields DEF Adopt, SameRequest
<1>18. CASE InterruptAtSlot(w, j)
  <2>1. job'[j] = [Freed(Resubmittable(job[j])) EXCEPT !.status = "queued"]
    BY <1>18 DEF InterruptAtSlot
  <2>2. Resubmittable(job[j]) \in JobRow
    BY ResubmittableFields
  <2>. QED BY <2>1, <2>2, RequestFields DEF SameRequest
<1>. QED BY <1>1, <1>2, <1>3, <1>4, <1>5, <1>6, <1>7, <1>8, <1>9, <1>10, <1>11,
            <1>12, <1>13, <1>14, <1>15, <1>16, <1>17, <1>18
     DEF WorkerEvent, WorkerStep, LoopStep, ThreadStep

LEMMA WorkerCancels ==
  ASSUME TypeOK, CancelInv, NEW w \in Workers, NEW j \in Jobs, WorkerEvent(w, j)
  PROVE  /\ job[j].cancelRequested => job'[j] = job[j]
         /\ ~job[j].cancelRequested => CancelledAndFree(job'[j])
<1>1. ASSUME job[j].cancelRequested PROVE job'[j] = job[j]
  <2>. job[j].leaseOwner = None /\ job[j].status \in {"cancelled", "abandoned"}
       /\ ~Owns(w, j) /\ None # w
    BY <1>1, VideoJobAssumption DEF CancelInv, CancelledAndFree, Owns
  <2>1. CASE Claim(w, j) \/ Heartbeat(w, j)
    BY <1>1, <2>1 DEF Claim, Heartbeat, Owns
  <2>2. CASE WorkerStep(w, j) \/ Interrupt(w, j)
    BY <2>2, StaleWorkerIsMute
  <2>3. CASE InterruptAtSlot(w, j)
    BY <2>3 DEF InterruptAtSlot, BeforeTheCall
  <2>4. CASE \E t \in Tasks : ProviderAccepts(w, j, t)
    BY <2>4 DEF ProviderAccepts, rows
  <2>. QED BY <2>1, <2>2, <2>3, <2>4 DEF WorkerEvent
<1>2. ASSUME ~job[j].cancelRequested PROVE CancelledAndFree(job'[j])
  <2>1. CASE SupervisorFence(w, j)
    BY <1>2, <2>1, CancelWritesFreeRow DEF SupervisorFence
  <2>2. CASE ~SupervisorFence(w, j)
    BY <1>2, <2>2, WorkerKeepsRequest DEF SameRequest, CancelledAndFree
  <2>. QED BY <2>1, <2>2
<1>. QED BY <1>1, <1>2

LEMMA EventCancels ==
  ASSUME TypeOK, CancelInv, NEW j \in Jobs, JobEvent(j)
  PROVE  /\ job[j].cancelRequested => job'[j] = job[j]
         /\ ~job[j].cancelRequested => CancelledAndFree(job'[j])
<1>. job \in [Jobs -> JobRow] /\ job[j] \in JobRow
  BY DEF TypeOK
<1>0. job[j].cancelRequested => job[j].status \in {"cancelled", "abandoned"}
  BY DEF CancelInv, CancelledAndFree
<1>1. CASE StopShot(j)
  <2>1. CASE RequestCancel(j)
    BY <1>0, <2>1, CancelWritesFreeRow DEF RequestCancel, Cancellable
  <2>2. CASE UNCHANGED job
    BY <2>2 DEF CancelledAndFree
  <2>. QED BY <1>1, <2>1, <2>2 DEF StopShot
<1>2. CASE RecoverStale(j)
  BY <1>2, RequestFields DEF RecoverStale, CancelledAndFree
<1>3. CASE LeaseExpires(j) \/ OrphanLeaseExpires(j)
  <2>1. job' = [job EXCEPT ![j].leaseExpired = TRUE] /\ job[j].status = "running"
    BY <1>3 DEF LeaseExpires, OrphanLeaseExpires
  <2>2. job'[j].cancelRequested = job[j].cancelRequested
    BY <2>1 DEF JobRow
  <2>. QED BY <1>0, <2>1, <2>2 DEF CancelledAndFree
<1>4. CASE \E t \in Tasks : ProviderFinishes(j, t) \/ ProviderAcceptsLate(j, t)
  BY <1>4 DEF ProviderFinishes, ProviderAcceptsLate, rows, CancelledAndFree
<1>. QED BY <1>1, <1>2, <1>3, <1>4 DEF JobEvent

\* The user and the recovery over all jobs: they list no cancelled row.
LEMMA EpisodeCancels ==
  ASSUME TypeOK, CancelInv, NEW k \in Jobs,
         PauseEpisode \/ ResumeEpisode \/ CrashAndRestart \/ SweepSelect \/ SweepRecover
  PROVE  /\ job[k].cancelRequested => job'[k] = job[k]
         /\ ~job[k].cancelRequested => CancelledAndFree(job'[k])
<1>. job \in [Jobs -> JobRow] /\ job[k] \in JobRow
  BY DEF TypeOK
<1>1. CASE PauseEpisode
  <2>1. \/ job'[k] = job[k]
        \/ /\ ~job[k].cancelRequested
           /\ job'[k] = [Freed(job[k]) EXCEPT !.status = "paused"]
    BY <1>1 DEF PauseEpisode
  <2>. QED BY <2>1 DEF Freed, JobRow, CancelledAndFree
<1>2. CASE ResumeEpisode
  <2>. DEFINE b == [job[k] EXCEPT !.createState = "accepted", !.nonCancellable = TRUE]
  <2>1. \/ job'[k] = job[k]
        \/ /\ ~job[k].cancelRequested
           /\ \/ job'[k] = b
              \/ \E r \in {job[k], b} : \E s :
                   job'[k] = [Freed(r) EXCEPT !.status = s, !.slotActive = TRUE]
    BY <1>2, Zenon DEF ResumeEpisode
  <2>. HIDE DEF b
  <2>2. b \in JobRow /\ b.cancelRequested = job[k].cancelRequested
    BY DEF b, JobRow, CreateState
  <2>3. ASSUME NEW r \in JobRow, NEW s
        PROVE  [Freed(r) EXCEPT !.status = s, !.slotActive = TRUE].cancelRequested
                 = r.cancelRequested
    BY DEF JobRow, Freed
  <2>4. \/ job'[k] = job[k]
        \/ ~job[k].cancelRequested /\ ~job'[k].cancelRequested
    BY <2>1, <2>2, <2>3, Zenon
  <2>. QED BY <2>4 DEF CancelledAndFree
<1>3. CASE CrashAndRestart
  <2>1. \/ job'[k] = job[k]
        \/ ~job[k].cancelRequested /\ job'[k] = RecoveredRow(job[k])
    BY <1>3 DEF CrashAndRestart, Recoverable
  <2>. QED BY <2>1, RequestFields DEF CancelledAndFree
<1>4. CASE SweepSelect
  BY <1>4 DEF SweepSelect, rows, CancelledAndFree
<1>5. CASE SweepRecover
  BY <1>5, RequestFields DEF SweepRecover, Recoverable, CancelledAndFree
<1>. QED BY <1>1, <1>2, <1>3, <1>4, <1>5

LEMMA StepCancels ==
  ASSUME TypeOK, CancelInv, [Next]_vars, NEW k \in Jobs
  PROVE  /\ job[k].cancelRequested => job'[k] = job[k]
         /\ CancelledAndFree(job'[k])
<1>0. CancelledAndFree(job[k])
  BY DEF CancelInv
<1>1. ASSUME NEW w \in Workers, NEW j \in Jobs, WorkerEvent(w, j)
      PROVE  /\ job[k].cancelRequested => job'[k] = job[k]
             /\ CancelledAndFree(job'[k])
  <2>1. CASE k = j
    BY <1>0, <1>1, <2>1, WorkerCancels
  <2>2. CASE k # j
    BY <1>0, <1>1, <2>2, WorkerLocal DEF Local
  <2>. QED BY <2>1, <2>2
<1>2. ASSUME NEW j \in Jobs, JobEvent(j)
      PROVE  /\ job[k].cancelRequested => job'[k] = job[k]
             /\ CancelledAndFree(job'[k])
  <2>1. CASE k = j
    BY <1>0, <1>2, <2>1, EventCancels
  <2>2. CASE k # j
    BY <1>0, <1>2, <2>2, EventLocal DEF Local
  <2>. QED BY <2>1, <2>2
<1>3. CASE PauseEpisode \/ ResumeEpisode \/ CrashAndRestart \/ SweepSelect \/ SweepRecover
  BY <1>0, <1>3, EpisodeCancels
<1>4. CASE UNCHANGED vars
  BY <1>0, <1>4 DEF vars
<1>. QED BY <1>1, <1>2, <1>3, <1>4 DEF Next

\* A row whose cancellation request_cancel has recorded has no lease owner.
THEOREM CancelledIsFree == Spec => []CancelInv
<1>1. Init => CancelInv
  BY DEF Init, CancelInv, CancelledAndFree
<1>2. TypeOK /\ CancelInv /\ [Next]_vars => CancelInv'
  BY StepCancels DEF CancelInv
<1>. QED BY <1>1, <1>2, TypeCorrect, PTL DEF Spec

\* What request_cancel has ended stays ended: no handler of a worker that still
\* runs, no sweeper, restart, pause or resume writes the row again.
THEOREM CancellationIsFinal == Spec => CancelledStaysCancelled
<1>1. TypeOK /\ CancelInv /\ [Next]_vars
        => [\A j \in Jobs : job[j].cancelRequested
              => /\ job'[j].cancelRequested
                 /\ job'[j].status = job[j].status]_vars
  BY StepCancels
<1>. QED BY <1>1, TypeCorrect, CancelledIsFree, PTL DEF Spec, CancelledStaysCancelled

-----------------------------------------------------------------------------
(* A stop stands: the slot and the result.                                   *)

\* A stopped job has no slot of its shot, and its version has not succeeded.
StopInv ==
    \A j \in Jobs : stopped[j] = "stopped"
                      => ~job[j].slotActive /\ version[j].status # "succeeded"

\* The slot is not given back, and without it no result becomes a candidate.
NoSlotNoResult(j) ==
    /\ job'[j].slotActive => job[j].slotActive
    /\ version'[j].status = "succeeded"
         => version[j].status = "succeeded" \/ job[j].slotActive

\* The slot through the writes of the operations.
LEMMA SlotFields ==
  ASSUME NEW r \in JobRow, NEW s, NEW c
  PROVE  /\ Freed(r).slotActive = r.slotActive
         /\ Renewed(r).slotActive = r.slotActive
         /\ Unbound(r).slotActive = r.slotActive
         /\ Unknown(r).slotActive = r.slotActive
         /\ Resubmittable(r).slotActive = r.slotActive
         /\ RecoveredRow(r).slotActive = r.slotActive
         /\ ~Isolated(r).slotActive
         /\ ~Ended(r, s).slotActive
         /\ [r EXCEPT !.status = s].slotActive = r.slotActive
         /\ [r EXCEPT !.createState = c].slotActive = r.slotActive
         /\ [Freed(r) EXCEPT !.status = s].slotActive = r.slotActive
         /\ [Freed(r) EXCEPT !.status = s, !.createState = c].slotActive = r.slotActive
         /\ ~[Ended(r, s) EXCEPT !.pollRequired = FALSE].slotActive
         /\ ~[Ended(r, s) EXCEPT !.pollRequired = FALSE, !.resultAdoptable = FALSE,
               !.createState = c].slotActive
<1>1. /\ Freed(r).slotActive = r.slotActive
      /\ Renewed(r).slotActive = r.slotActive
      /\ Unbound(r).slotActive = r.slotActive
      /\ Unknown(r).slotActive = r.slotActive
      /\ Resubmittable(r).slotActive = r.slotActive
  BY DEF JobRow, Freed, Renewed, Unbound, Unknown, Resubmittable
<1>2. /\ RecoveredRow(r).slotActive = r.slotActive
      /\ ~Isolated(r).slotActive
      /\ ~Ended(r, s).slotActive
  BY DEF JobRow, Freed, Isolated, RecoveredRow, Ended
<1>3. /\ [r EXCEPT !.status = s].slotActive = r.slotActive
      /\ [r EXCEPT !.createState = c].slotActive = r.slotActive
      /\ [Freed(r) EXCEPT !.status = s].slotActive = r.slotActive
      /\ [Freed(r) EXCEPT !.status = s, !.createState = c].slotActive = r.slotActive
  BY DEF JobRow, Freed
<1>4. /\ ~[Ended(r, s) EXCEPT !.pollRequired = FALSE].slotActive
      /\ ~[Ended(r, s) EXCEPT !.pollRequired = FALSE, !.resultAdoptable = FALSE,
             !.createState = c].slotActive
  BY DEF JobRow, Freed, Ended
<1>. QED BY <1>1, <1>2, <1>3, <1>4

\* ... and the status of the version.
LEMMA ResultFields ==
  ASSUME NEW v \in VersionRow, NEW s, NEW t
  PROVE  /\ [v EXCEPT !.status = s].status = s
         /\ [v EXCEPT !.task = t].status = v.status
         /\ [v EXCEPT !.task = t, !.status = s].status = s
         /\ [v EXCEPT !.status = s, !.produced = TRUE].status = s
  BY DEF VersionRow

LEMMA HandlersKeepSlot ==
  ASSUME TypeOK, NEW w \in Workers, NEW j \in Jobs, NEW r \in JobRow,
         NEW v \in VersionRow, r.slotActive = job[j].slotActive,
         \/ RetryOrHandOver(w, j, r, v)
         \/ \E s \in JobStatus \ {"succeeded"} : Finish(w, j, r, v, s)
         \/ HandOver(w, j, r)
         \/ GoStale(w, j, r)
         \/ DeferPoll(w, j)
  PROVE  NoSlotNoResult(j)
<1>. /\ job \in [Jobs -> JobRow] /\ job[j] \in JobRow
     /\ version \in [Jobs -> VersionRow] /\ version[j] \in VersionRow
  BY DEF TypeOK
<1>1. ASSUME NEW s \in JobStatus \ {"succeeded"}, Finish(w, j, r, v, s)
      PROVE  NoSlotNoResult(j)
  BY <1>1, SlotFields, ResultFields DEF Finish, NoSlotNoResult
<1>2. CASE Retry(w, j, r, v)
  <2>1. job'[j] = [Freed(r) EXCEPT !.status = "queued", !.retryCount = @ + 1]
    BY <1>2 DEF Retry
  <2>2. job'[j].slotActive = r.slotActive
    BY <2>1 DEF Freed, JobRow
  <2>. QED BY <1>2, <2>2, ResultFields DEF Retry, NoSlotNoResult
<1>3. CASE RetryOrHandOver(w, j, r, v)
  BY <1>1, <1>2, <1>3 DEF RetryOrHandOver, JobStatus
<1>4. CASE HandOver(w, j, r)
  <2>1. job'[j] = Ended(r, "waiting_human")
    BY <1>4 DEF HandOver
  <2>2. version'[j].status = "waiting_human"
    BY <1>4 DEF HandOver, VersionRow
  <2>. QED BY <2>1, <2>2, SlotFields DEF NoSlotNoResult
<1>5. CASE GoStale(w, j, r)
  <2>1. job'[j] = [r EXCEPT !.status = "stale"]
    BY <1>5 DEF GoStale
  <2>2. version'[j].status = "stale"
    BY <1>5 DEF GoStale, VersionRow
  <2>. QED BY <2>1, <2>2, SlotFields DEF NoSlotNoResult
<1>6. CASE DeferPoll(w, j)
  BY <1>6, SlotFields DEF DeferPoll, NoSlotNoResult
<1>. QED BY <1>1, <1>3, <1>4, <1>5, <1>6

\* request_cancel takes the slot away.
LEMMA CancelTakesSlot ==
  ASSUME TypeOK, NEW j \in Jobs, RequestCancel(j)
  PROVE  ~job'[j].slotActive /\ version'[j].status # "succeeded"
<1>. /\ job \in [Jobs -> JobRow] /\ job[j] \in JobRow
     /\ version \in [Jobs -> VersionRow] /\ version[j] \in VersionRow
  BY DEF TypeOK
<1>1. CASE IsolateResult(j)
  <2>1. job'[j] = Isolated(job[j])
    BY <1>1 DEF IsolateResult
  <2>2. version'[j].status = "waiting_provider"
    BY <1>1 DEF IsolateResult, VersionRow
  <2>. QED BY <2>1, <2>2, SlotFields
<1>2. CASE CancelJob(j)
  <2>1. PICK s \in {"abandoned", "cancelled"} :
          /\ job' = [job EXCEPT ![j] = [Ended(job[j], s) EXCEPT !.cancelRequested = TRUE,
                       !.createState = IF PreTransport(j) THEN "not_started" ELSE @]]
          /\ version' = [version EXCEPT ![j].status = s]
    BY <1>2, Zenon DEF CancelJob
  <2>2. job'[j] = [Ended(job[j], s) EXCEPT !.cancelRequested = TRUE,
                     !.createState = IF PreTransport(j) THEN "not_started" ELSE @]
    BY <2>1
  <2>3. ~job'[j].slotActive
    BY <2>2 DEF Ended, Freed, JobRow
  <2>4. version'[j].status = s
    BY <2>1 DEF VersionRow
  <2>. QED BY <2>3, <2>4
<1>. QED BY <1>1, <1>2 DEF RequestCancel

\* No handler of a worker gives the slot back; a result becomes a candidate
\* only at the checkpoint that finds the slot.
LEMMA WorkerKeepsSlot ==
  ASSUME TypeOK, NEW w \in Workers, NEW j \in Jobs, WorkerEvent(w, j)
  PROVE  NoSlotNoResult(j)
<1>. /\ job \in [Jobs -> JobRow] /\ job[j] \in JobRow
     /\ version \in [Jobs -> VersionRow] /\ version[j] \in VersionRow
  BY DEF TypeOK
<1>0. {"waiting_human", "failed"} \subseteq JobStatus \ {"succeeded"}
  BY DEF JobStatus
<1>1. CASE \/ LeaseLost(w, j) \/ ReleaseRefused(w, j) \/ Send(w, j) \/ Load(w, j)
           \/ ReplyAccepted(w, j) \/ Settle(w, j)
           \/ \E t \in Tasks : ProviderAccepts(w, j, t)
  BY <1>1 DEF LeaseLost, ReleaseRefused, Send, Load, ReplyAccepted, Settle,
              ProviderAccepts, rows, NoSlotNoResult
<1>2. CASE Claim(w, j) \/ Heartbeat(w, j)
  <2>1. version' = version /\ job'[j].slotActive = job[j].slotActive
    BY <1>2 DEF Claim, Heartbeat, Renewed, JobRow
  <2>. QED BY <2>1 DEF NoSlotNoResult
<1>3. CASE LoadUnresolved(w, j) \/ ReplyUnknown(w, j)
  <2>1. Unknown(job[j]) \in JobRow
    BY RowTypes
  <2>. QED BY <1>3, <2>1, SlotFields, HandlersKeepSlot DEF LoadUnresolved, ReplyUnknown
<1>4. CASE ReviewFence(w, j) \/ InputRepair(w, j) \/ Downgrade(w, j)
  <2>1. PICK s \in {"failed", "waiting_human"} :
          /\ job' = [job EXCEPT ![j] = Ended(job[j], s)]
          /\ version' = [version EXCEPT ![j].status = s]
    BY <1>4, Zenon DEF ReviewFence, InputRepair, Downgrade
  <2>2. job'[j] = Ended(job[j], s)
    BY <2>1
  <2>3. version'[j].status = s
    BY <2>1 DEF VersionRow
  <2>. QED BY <2>2, <2>3, SlotFields DEF NoSlotNoResult
<1>5. CASE KeepCandidate(w, j) \/ Adopt(w, j)
  BY <1>5, SlotFields DEF KeepCandidate, Adopt, NoSlotNoResult
<1>6. CASE Defer(w, j) \/ Interrupt(w, j)
  <2>1. /\ version' = version
        /\ \/ job' = job
           \/ \E s : job' = [job EXCEPT ![j] = [Freed(job[j]) EXCEPT !.status = s]]
    BY <1>6, Zenon DEF Defer, Interrupt
  <2>2. ASSUME NEW s, job' = [job EXCEPT ![j] = [Freed(job[j]) EXCEPT !.status = s]]
        PROVE  job'[j].slotActive = job[j].slotActive
    BY <2>2 DEF Freed, JobRow
  <2>. QED BY <2>1, <2>2 DEF NoSlotNoResult
<1>7. CASE PlanStale(w, j)
  BY <1>7, HandlersKeepSlot DEF PlanStale
<1>8. CASE \/ InputError(w, j) \/ PollRunning(w, j) \/ PollError(w, j)
           \/ PollTimeout(w, j) \/ PollFailedManual(w, j) \/ FetchLost(w, j)
           \/ QaError(w, j)
  BY <1>0, <1>8, HandlersKeepSlot
     DEF InputError, PollRunning, PollError, PollTimeout, PollFailedManual,
         FetchLost, QaError
<1>9. CASE UnexpectedError(w, j)
  BY <1>0, <1>9, HandlersKeepSlot DEF UnexpectedError
<1>10. CASE MarkSubmitting(w, j) \/ ClaimSlot(w, j)
  BY <1>10 DEF MarkSubmitting, ClaimSlot, Renewed, NoSlotNoResult, JobRow
<1>11. CASE SlotFull(w, j)
  BY <1>11, SlotFields DEF SlotFull, NoSlotNoResult
<1>12. CASE AuthorityStale(w, j) \/ ReplyRejected(w, j)
  <2>. DEFINE r == Resubmittable(job[j])
  <2>0. r \in JobRow /\ r.slotActive = job[j].slotActive
    BY ResubmittableFields, SlotFields
  <2>. HIDE DEF r
  <2>1. \A c \in {"not_started", "model_rejected"} :
          /\ [r EXCEPT !.createState = c] \in JobRow
          /\ [r EXCEPT !.createState = c].slotActive = job[j].slotActive
    BY <2>0 DEF JobRow, CreateState
  <2>2. CASE AuthorityStale(w, j)
    BY <1>0, <2>0, <2>2, HandlersKeepSlot DEF AuthorityStale, r
  <2>3. CASE ReplyRejected(w, j)
    <3>1. \/ RetryOrHandOver(w, j, r, version[j])
          \/ Finish(w, j, r, version[j], "waiting_human")
          \/ \E c \in {"not_started", "model_rejected"} :
               Finish(w, j, [r EXCEPT !.createState = c], version[j], "failed")
      BY <2>3, Zenon DEF ReplyRejected, r
    <3>. QED BY <1>0, <2>0, <2>1, <3>1, HandlersKeepSlot, Zenon
  <2>. QED BY <1>12, <2>2, <2>3
<1>13. CASE CommitAcceptance(w, j)
  <2>1. job'[j].slotActive = job[j].slotActive
    BY <1>13 DEF CommitAcceptance, Renewed, JobRow
  <2>2. version'[j].status = "running"
    BY <1>13 DEF CommitAcceptance, VersionRow
  <2>. QED BY <2>1, <2>2 DEF NoSlotNoResult
<1>14. CASE PollFailed(w, j) \/ (FetchFailed(w, j) /\ Owns(w, j))
  <2>1. Unbound(job[j]) \in JobRow /\ [version[j] EXCEPT !.task = NoTask] \in VersionRow
    BY RowTypes DEF VersionRow
  <2>. QED BY <1>14, <2>1, SlotFields, HandlersKeepSlot DEF PollFailed, FetchFailed
<1>15. CASE FetchFailed(w, j) /\ ~Owns(w, j)
  BY <1>15 DEF FetchFailed, VersionRow, NoSlotNoResult
<1>16. CASE PollRejected(w, j)
  <2>1. PICK c : job' = [job EXCEPT ![j] = [Ended(job[j], "failed") EXCEPT
              !.pollRequired = FALSE, !.resultAdoptable = FALSE, !.createState = c]]
    BY <1>16, Zenon DEF PollRejected
  <2>2. ~job'[j].slotActive
    BY <2>1, SlotFields
  <2>3. version'[j].status = "failed"
    BY <1>16 DEF PollRejected, VersionRow
  <2>. QED BY <2>2, <2>3 DEF NoSlotNoResult
<1>17. CASE CheckpointQuarantined(w, j)
  <2>1. ~job'[j].slotActive
    BY <1>17, SlotFields DEF CheckpointQuarantined
  <2>2. version'[j].status = "quarantined"
    BY <1>17 DEF CheckpointQuarantined, VersionRow
  <2>. QED BY <2>1, <2>2 DEF NoSlotNoResult
<1>18. CASE CheckpointCandidate(w, j)
  BY <1>18 DEF CheckpointCandidate, Adoptable, Renewed, NoSlotNoResult, JobRow
<1>19. CASE PollSucceeded(w, j) \/ QaPassed(w, j)
  BY <1>19, SlotFields DEF PollSucceeded, QaPassed, NoSlotNoResult
<1>20. CASE InterruptAtSlot(w, j)
  <2>1. /\ job'[j] = [Freed(Resubmittable(job[j])) EXCEPT !.status = "queued"]
        /\ version' = version
    BY <1>20 DEF InterruptAtSlot
  <2>2. Resubmittable(job[j]) \in JobRow
    BY ResubmittableFields
  <2>. QED BY <2>1, <2>2, SlotFields DEF NoSlotNoResult
<1>21. CASE SupervisorFence(w, j)
  BY <1>21, CancelTakesSlot DEF SupervisorFence, NoSlotNoResult
<1>. QED BY <1>1, <1>2, <1>3, <1>4, <1>5, <1>6, <1>7, <1>8, <1>9, <1>10, <1>11,
            <1>12, <1>13, <1>14, <1>15, <1>16, <1>17, <1>18, <1>19, <1>20, <1>21
     DEF WorkerEvent, WorkerStep, LoopStep, ThreadStep

\* No worker touches the stop, and one adopts only what has succeeded.
LEMMA WorkerAdopts ==
  ASSUME TypeOK, NEW w \in Workers, NEW j \in Jobs, WorkerEvent(w, j)
  PROVE  /\ stopped' = stopped
         /\ \A k \in Jobs : adopted'[k] = adopted[k] \/ version[k].status = "succeeded"
<1>. adopted \in [Jobs -> BOOLEAN]
  BY DEF TypeOK
<1>1. \A k \in Jobs : Selected(j)[k] = adopted[k] \/ version[k].status = "succeeded"
  BY DEF Selected
<1>2. CASE Adopt(w, j) \/ UnexpectedError(w, j)
  BY <1>1, <1>2 DEF Adopt, UnexpectedError
<1>3. CASE ~(Adopt(w, j) \/ UnexpectedError(w, j))
  <2>1. UNCHANGED <<adopted, stopped>>
    BY <1>3 DEF WorkerEvent, WorkerStep, LoopStep, ThreadStep, Claim, Heartbeat,
     LeaseLost, Load, LoadUnresolved, HandOver, ReviewFence, Defer, InputRepair,
     PlanStale, InputError, MarkSubmitting, ClaimSlot, SlotFull, AuthorityStale,
     ReleaseRefused, Send, ReplyAccepted, ReplyRejected, ReplyUnknown, PollRunning,
     PollError, PollTimeout, PollFailed, PollFailedManual, PollSucceeded,
     FetchFailed, FetchLost, SupervisorFence, Downgrade, KeepCandidate, QaError,
     QaPassed, CommitAcceptance, PollRejected, CheckpointCandidate,
     CheckpointQuarantined, Settle, InterruptAtSlot, Interrupt, ProviderAccepts, rows
  <2>. QED BY <2>1
<1>. QED BY <1>2, <1>3

\* The stop itself takes the slot, and nobody else records one.
LEMMA EventStops ==
  ASSUME TypeOK, NEW j \in Jobs, JobEvent(j)
  PROVE  /\ adopted' = adopted
         /\ \A k \in Jobs \ {j} : stopped'[k] = stopped[k]
         /\ \/ /\ NoSlotNoResult(j)
               /\ stopped'[j] = "stopped" => stopped[j] = "stopped"
            \/ ~job'[j].slotActive /\ version'[j].status # "succeeded"
<1>. /\ job \in [Jobs -> JobRow] /\ job[j] \in JobRow
     /\ version \in [Jobs -> VersionRow] /\ version[j] \in VersionRow
     /\ stopped \in [Jobs -> {"no", "stopped", "refused", "resumed"}]
  BY DEF TypeOK
<1>1. CASE StopShot(j)
  <2>1. CASE RequestCancel(j)
    BY <1>1, <2>1, CancelTakesSlot DEF StopShot, provider
  <2>2. CASE ~RequestCancel(j)
    BY <1>1, <2>2 DEF StopShot, NoSlotNoResult
  <2>. QED BY <2>1, <2>2
<1>2. CASE RecoverStale(j)
  <2>1. job'[j] = [Freed(job[j]) EXCEPT !.status = "waiting_provider",
                                        !.createState = "accepted"]
    BY <1>2 DEF RecoverStale
  <2>2. version'[j].status = "running" /\ UNCHANGED <<adopted, stopped>>
    BY <1>2 DEF RecoverStale, VersionRow
  <2>. QED BY <2>1, <2>2, SlotFields DEF NoSlotNoResult
<1>3. CASE LeaseExpires(j) \/ OrphanLeaseExpires(j)
  <2>1. /\ job'[j].slotActive = job[j].slotActive
        /\ UNCHANGED <<version, adopted, stopped>>
    BY <1>3 DEF LeaseExpires, OrphanLeaseExpires, JobRow
  <2>. QED BY <2>1 DEF NoSlotNoResult
<1>4. CASE \E t \in Tasks : ProviderFinishes(j, t) \/ ProviderAcceptsLate(j, t)
  BY <1>4 DEF ProviderFinishes, ProviderAcceptsLate, rows, NoSlotNoResult
<1>. QED BY <1>1, <1>2, <1>3, <1>4 DEF JobEvent

\* Only the resumption of the episode gives slots back, and it ends the stop.
LEMMA EpisodeStops ==
  ASSUME TypeOK, NEW k \in Jobs,
         PauseEpisode \/ ResumeEpisode \/ CrashAndRestart \/ SweepSelect \/ SweepRecover
  PROVE  /\ adopted' = adopted
         /\ stopped'[k] = "stopped" => stopped[k] = "stopped" /\ NoSlotNoResult(k)
<1>. /\ job \in [Jobs -> JobRow] /\ job[k] \in JobRow
     /\ version \in [Jobs -> VersionRow] /\ version[k] \in VersionRow
  BY DEF TypeOK
<1>1. CASE PauseEpisode
  <2>1. /\ job'[k] = job[k] \/ job'[k] = [Freed(job[k]) EXCEPT !.status = "paused"]
        /\ \/ version'[k] = version[k]
           \/ version'[k] = [version[k] EXCEPT !.status = "paused"]
        /\ UNCHANGED <<adopted, stopped>>
    BY <1>1 DEF PauseEpisode
  <2>2. version'[k].status \in {version[k].status, "paused"}
    BY <2>1 DEF VersionRow
  <2>3. job'[k].slotActive = job[k].slotActive
    BY <2>1 DEF Freed, JobRow
  <2>. QED BY <2>1, <2>2, <2>3 DEF NoSlotNoResult
<1>2. CASE ResumeEpisode
  <2>. DEFINE b == [job[k] EXCEPT !.createState = "accepted", !.nonCancellable = TRUE]
  <2>1. /\ stopped'[k] = "stopped"
             => stopped[k] = "stopped" /\ (job'[k] = job[k] \/ job'[k] = b)
        /\ adopted' = adopted
    BY <1>2, Zenon DEF ResumeEpisode
  <2>2. version'[k].status \in {version[k].status, "queued"}
    <3>. DEFINE S == {j \in Jobs : job[j].status = "paused" /\ ~job[j].cancelRequested}
                lost == {j \in S : version[j].task = NoTask /\ MayHaveAccepted(job[j])}
                found == {j \in lost : Handle(j) # NoTask}
                R == IF lost \subseteq found THEN S ELSE {}
                task(j) == IF j \in found THEN Handle(j) ELSE version[j].task
    <3>1. version' = [j \in Jobs |->
            [version[j] EXCEPT !.task = task(j),
               !.status = IF j \in R /\ @ = "paused" THEN "queued" ELSE @]]
      BY <1>2, Zenon DEF ResumeEpisode
    <3>. HIDE DEF R, task
    <3>. QED BY <3>1 DEF VersionRow
  <2>3. b.slotActive = job[k].slotActive
    BY DEF JobRow
  <2>. HIDE DEF b
  <2>. QED BY <2>1, <2>2, <2>3 DEF NoSlotNoResult
<1>3. CASE CrashAndRestart
  <2>1. /\ job'[k] = job[k] \/ job'[k] = RecoveredRow(job[k])
        /\ UNCHANGED <<version, adopted, stopped>>
    BY <1>3 DEF CrashAndRestart
  <2>. QED BY <2>1, SlotFields DEF NoSlotNoResult
<1>4. CASE SweepSelect
  BY <1>4 DEF SweepSelect, rows, NoSlotNoResult
<1>5. CASE SweepRecover
  <2>1. /\ job'[k] = job[k] \/ job'[k] = RecoveredRow(job[k])
        /\ UNCHANGED <<version, adopted, stopped>>
    BY <1>5 DEF SweepRecover
  <2>. QED BY <2>1, SlotFields DEF NoSlotNoResult
<1>. QED BY <1>1, <1>2, <1>3, <1>4, <1>5

LEMMA StepStops ==
  ASSUME TypeOK, StopInv, [Next]_vars, NEW k \in Jobs
  PROVE  /\ stopped'[k] = "stopped"
              => ~job'[k].slotActive /\ version'[k].status # "succeeded"
         /\ stopped[k] = "stopped" /\ stopped'[k] = "stopped" => adopted'[k] = adopted[k]
<1>. adopted[k] \in BOOLEAN
  BY DEF TypeOK
<1>0. stopped[k] = "stopped" => ~job[k].slotActive /\ version[k].status # "succeeded"
  BY DEF StopInv
<1>1. ASSUME NoSlotNoResult(k), stopped'[k] = "stopped" => stopped[k] = "stopped"
      PROVE  stopped'[k] = "stopped"
               => ~job'[k].slotActive /\ version'[k].status # "succeeded"
  BY <1>0, <1>1 DEF NoSlotNoResult
<1>2. ASSUME NEW w \in Workers, NEW j \in Jobs, WorkerEvent(w, j)
      PROVE  /\ NoSlotNoResult(k) /\ stopped'[k] = stopped[k]
             /\ stopped[k] = "stopped" => adopted'[k] = adopted[k]
  <2>1. NoSlotNoResult(k)
    <3>1. CASE k = j
      BY <1>2, <3>1, WorkerKeepsSlot
    <3>2. CASE k # j
      BY <1>2, <3>2, WorkerLocal DEF Local, NoSlotNoResult
    <3>. QED BY <3>1, <3>2
  <2>2. stopped' = stopped /\ (adopted'[k] = adopted[k] \/ version[k].status = "succeeded")
    BY <1>2, WorkerAdopts
  <2>. QED BY <1>0, <2>1, <2>2
<1>3. ASSUME NEW j \in Jobs, JobEvent(j)
      PROVE  /\ adopted' = adopted
             /\ \/ NoSlotNoResult(k) /\ (stopped'[k] = "stopped" => stopped[k] = "stopped")
                \/ ~job'[k].slotActive /\ version'[k].status # "succeeded"
  <2>1. CASE k = j
    BY <1>3, <2>1, EventStops
  <2>2. CASE k # j
    <3>1. NoSlotNoResult(k)
      BY <1>3, <2>2, EventLocal DEF Local, NoSlotNoResult
    <3>. QED BY <1>3, <2>2, <3>1, EventStops
  <2>. QED BY <2>1, <2>2
<1>4. CASE PauseEpisode \/ ResumeEpisode \/ CrashAndRestart \/ SweepSelect \/ SweepRecover
  BY <1>1, <1>4, EpisodeStops
<1>5. CASE UNCHANGED vars
  BY <1>0, <1>5 DEF vars
<1>. QED BY <1>1, <1>2, <1>3, <1>4, <1>5 DEF Next

\* stop_shot_video_tasks takes the shot's slot, and only the resumption of the
\* episode gives it back: until then no checkpoint makes the result a candidate.
THEOREM StoppedHasNoSlot == Spec => []StopInv
<1>1. Init => StopInv
  BY DEF Init, StopInv
<1>2. TypeOK /\ StopInv /\ [Next]_vars => StopInv'
  BY StepStops DEF StopInv
<1>. QED BY <1>1, <1>2, TypeCorrect, PTL DEF Spec

\* A worker that was polling, downloading or reviewing when the shot was stopped
\* does not have its result adopted while the stop stands, in whichever order
\* its commits, the crash and the recovery come.
THEOREM StoppedIsNotAdopted == Spec => StoppedResultQuarantined
<1>1. TypeOK /\ StopInv /\ [Next]_vars
        => [\A j \in Jobs : stopped[j] = "stopped" /\ stopped'[j] = "stopped"
                              => adopted'[j] = adopted[j]]_vars
  BY StepStops
<1>. QED BY <1>1, TypeCorrect, StoppedHasNoSlot, PTL DEF Spec, StoppedResultQuarantined

-----------------------------------------------------------------------------
(* The cap of the episode: who becomes in flight.                            *)

\* The lease of the row and its protection stay as they are.
SameLease(j) ==
    /\ job'[j].status = job[j].status
    /\ job'[j].leaseOwner = job[j].leaseOwner
    /\ job'[j].cancelRequested = job[j].cancelRequested
    /\ job'[j].nonCancellable = job[j].nonCancellable

\* ... or the job runs no more, and waits for the provider only if it did.
NotSubmitted(j) ==
    \/ SameLease(j)
    \/ /\ job'[j].status # "running"
       /\ job'[j].nonCancellable
            => job[j].nonCancellable \/ job'[j].status # "waiting_provider"

LEMMA LeaseFields ==
  ASSUME NEW j \in Jobs, job[j] \in JobRow,
         \/ job'[j] = job[j]
         \/ job'[j] = Renewed(job[j])
         \/ job'[j] = [Renewed(job[j]) EXCEPT !.createState = "submitting",
                                              !.operation = TRUE]
         \/ job'[j] = [Renewed(job[j]) EXCEPT !.pollRequired = FALSE]
         \/ job'[j] = [job[j] EXCEPT !.leaseExpired = TRUE]
  PROVE  SameLease(j)
  BY DEF JobRow, Renewed, SameLease

LEMMA HandlersEnd ==
  ASSUME TypeOK, NEW w \in Workers, NEW j \in Jobs, NEW r \in JobRow,
         NEW v \in VersionRow, r.nonCancellable => job[j].nonCancellable,
         \/ RetryOrHandOver(w, j, r, v)
         \/ \E s \in JobStatus \ {"running"} : Finish(w, j, r, v, s)
         \/ DeferPoll(w, j) /\ r = job[j] /\ v = version[j]
  PROVE  NotSubmitted(j)
  BY HandlersRelease DEF NotSubmitted

LEMMA CancelEnds ==
  ASSUME TypeOK, NEW j \in Jobs, RequestCancel(j)
  PROVE  NotSubmitted(j)
<1>. job \in [Jobs -> JobRow] /\ job[j] \in JobRow
  BY DEF TypeOK
<1>1. CASE IsolateResult(j)
  <2>1. job'[j] = Isolated(job[j])
    BY <1>1 DEF IsolateResult
  <2>. QED BY <2>1, ProtectedFields DEF NotSubmitted
<1>2. CASE CancelJob(j)
  <2>1. PICK s \in {"abandoned", "cancelled"} :
          job' = [job EXCEPT ![j] = [Ended(job[j], s) EXCEPT !.cancelRequested = TRUE,
                    !.createState = IF PreTransport(j) THEN "not_started" ELSE @]]
    BY <1>2, Zenon DEF CancelJob
  <2>2. job'[j] = [Ended(job[j], s) EXCEPT !.cancelRequested = TRUE,
                     !.createState = IF PreTransport(j) THEN "not_started" ELSE @]
    BY <2>1
  <2>3. s \in JobStatus /\ s # "running"
    BY DEF JobStatus
  <2>. QED BY <2>2, <2>3, CancelledFields DEF NotSubmitted
<1>. QED BY <1>1, <1>2 DEF RequestCancel

\* Only the submit slot and the acceptance make a row non-cancellable.
LEMMA WorkerMoves ==
  ASSUME TypeOK, NEW w \in Workers, NEW j \in Jobs, WorkerEvent(w, j),
         ~Claim(w, j), ~ClaimSlot(w, j), ~CommitAcceptance(w, j)
  PROVE  NotSubmitted(j)
<1>. /\ job \in [Jobs -> JobRow] /\ job[j] \in JobRow
     /\ version \in [Jobs -> VersionRow] /\ version[j] \in VersionRow
  BY DEF TypeOK
<1>0. /\ {"queued", "waiting_provider", "waiting_human", "failed", "succeeded", "stale"}
            \subseteq JobStatus
      /\ {"waiting_human", "failed"} \subseteq JobStatus \ {"running"}
  BY DEF JobStatus
<1>1. CASE \/ LeaseLost(w, j) \/ ReleaseRefused(w, j) \/ Send(w, j) \/ Load(w, j)
           \/ ReplyAccepted(w, j) \/ Settle(w, j)
           \/ \E t \in Tasks : ProviderAccepts(w, j, t)
  <2>1. job'[j] = job[j]
    BY <1>1 DEF LeaseLost, ReleaseRefused, Send, Load, ReplyAccepted, Settle,
                ProviderAccepts, rows
  <2>. QED BY <2>1, LeaseFields DEF NotSubmitted
<1>2. CASE \/ Heartbeat(w, j) \/ MarkSubmitting(w, j) \/ PollSucceeded(w, j)
           \/ QaPassed(w, j) \/ CheckpointCandidate(w, j)
  <2>1. \/ job'[j] = Renewed(job[j])
        \/ job'[j] = [Renewed(job[j]) EXCEPT !.createState = "submitting",
                                             !.operation = TRUE]
        \/ job'[j] = [Renewed(job[j]) EXCEPT !.pollRequired = FALSE]
    BY <1>2 DEF Heartbeat, MarkSubmitting, PollSucceeded, QaPassed,
                CheckpointCandidate
  <2>. QED BY <2>1, LeaseFields DEF NotSubmitted
<1>3. CASE \/ LoadUnresolved(w, j) \/ ReviewFence(w, j) \/ InputRepair(w, j)
           \/ Downgrade(w, j) \/ KeepCandidate(w, j) \/ (Adopt(w, j) /\ job' # job)
  <2>1. PICK s \in {"waiting_human", "failed", "succeeded"} :
          job' = [job EXCEPT ![j] = Ended(job[j], s)]
    BY <1>3, Zenon DEF LoadUnresolved, HandOver, ReviewFence, InputRepair, Downgrade,
                       KeepCandidate, Adopt
  <2>2. job'[j] = Ended(job[j], s)
    BY <2>1
  <2>. QED BY <1>0, <2>2, EndedFields DEF NotSubmitted
<1>4. CASE Adopt(w, j) /\ job' = job
  BY <1>4, LeaseFields DEF NotSubmitted
<1>5. CASE ReplyUnknown(w, j)
  <2>1. job'[j] = Ended(Unknown(job[j]), "waiting_human") /\ Unknown(job[j]) \in JobRow
    BY <1>5, RowTypes DEF ReplyUnknown, HandOver
  <2>. QED BY <1>0, <2>1, EndedFields DEF NotSubmitted
<1>6. CASE Defer(w, j) \/ Interrupt(w, j)
  <2>1. \/ job'[j] = job[j]
        \/ \E s \in {"queued", "waiting_human", "waiting_provider"} :
             job' = [job EXCEPT ![j] = [Freed(job[j]) EXCEPT !.status = s]]
    BY <1>6, Zenon DEF Defer, Interrupt
  <2>2. ASSUME NEW s \in {"queued", "waiting_human", "waiting_provider"},
               job' = [job EXCEPT ![j] = [Freed(job[j]) EXCEPT !.status = s]]
        PROVE  NotSubmitted(j)
    <3>1. job'[j] = [Freed(job[j]) EXCEPT !.status = s]
      BY <2>2
    <3>. QED BY <1>0, <3>1, FreedFields DEF NotSubmitted
  <2>. QED BY <2>1, <2>2, LeaseFields DEF NotSubmitted
<1>7. CASE PlanStale(w, j)
  <2>1. job'[j] = [job[j] EXCEPT !.status = "stale"]
    BY <1>7 DEF PlanStale, GoStale
  <2>. QED BY <1>0, <2>1, WrittenFields DEF NotSubmitted
<1>8. CASE \/ InputError(w, j) \/ PollRunning(w, j) \/ PollError(w, j)
           \/ PollTimeout(w, j) \/ PollFailedManual(w, j) \/ FetchLost(w, j)
           \/ QaError(w, j) \/ UnexpectedError(w, j)
  <2>1. \/ RetryOrHandOver(w, j, job[j], version[j])
        \/ \E s \in {"waiting_human", "failed"} : Finish(w, j, job[j], version[j], s)
        \/ DeferPoll(w, j)
    BY <1>8 DEF InputError, PollRunning, PollError, PollTimeout, PollFailedManual,
                FetchLost, QaError, UnexpectedError
  <2>. QED BY <1>0, <2>1, HandlersEnd
<1>9. CASE SlotFull(w, j)
  <2>1. job'[j] = [Freed(job[j]) EXCEPT !.status = "queued", !.createState = "not_started"]
    BY <1>9 DEF SlotFull
  <2>. QED BY <1>0, <2>1, WrittenFields DEF NotSubmitted
<1>10. CASE AuthorityStale(w, j) \/ ReplyRejected(w, j)
  <2>. DEFINE r == Resubmittable(job[j])
  <2>0. r \in JobRow /\ ~r.nonCancellable
    BY ResubmittableFields
  <2>. HIDE DEF r
  <2>1. \A c \in {"not_started", "model_rejected"} :
          /\ [r EXCEPT !.createState = c] \in JobRow
          /\ ~[r EXCEPT !.createState = c].nonCancellable
    BY <2>0 DEF JobRow, CreateState
  <2>2. CASE GoStale(w, j, r)
    <3>1. job'[j] = [r EXCEPT !.status = "stale"]
      BY <2>2 DEF GoStale
    <3>. QED BY <1>0, <2>0, <3>1, WrittenFields DEF NotSubmitted
  <2>3. CASE \/ RetryOrHandOver(w, j, r, version[j])
             \/ \E s \in {"waiting_human", "failed"} : Finish(w, j, r, version[j], s)
             \/ \E c \in {"not_started", "model_rejected"} :
                  Finish(w, j, [r EXCEPT !.createState = c], version[j], "failed")
    <3>1. CASE \/ RetryOrHandOver(w, j, r, version[j])
               \/ \E s \in {"waiting_human", "failed"} : Finish(w, j, r, version[j], s)
      BY <1>0, <2>0, <3>1, HandlersEnd
    <3>2. ASSUME NEW c \in {"not_started", "model_rejected"},
                 Finish(w, j, [r EXCEPT !.createState = c], version[j], "failed")
          PROVE  NotSubmitted(j)
      <4>. DEFINE q == [r EXCEPT !.createState = c]
      <4>1. q \in JobRow /\ ~q.nonCancellable /\ Finish(w, j, q, version[j], "failed")
        BY <2>1, <3>2
      <4>. HIDE DEF q
      <4>. QED BY <1>0, <4>1, HandlersEnd
    <3>. QED BY <2>3, <3>1, <3>2
  <2>. QED BY <1>10, <2>2, <2>3 DEF AuthorityStale, ReplyRejected, r
<1>11. CASE PollFailed(w, j) \/ (FetchFailed(w, j) /\ Owns(w, j))
  <2>1. /\ Unbound(job[j]) \in JobRow /\ ~Unbound(job[j]).nonCancellable
        /\ [version[j] EXCEPT !.task = NoTask] \in VersionRow
    BY RowTypes, ProtectedFields DEF VersionRow
  <2>. QED BY <1>11, <2>1, HandlersEnd DEF PollFailed, FetchFailed
<1>12. CASE FetchFailed(w, j) /\ ~Owns(w, j)
  <2>1. job'[j] = job[j]
    BY <1>12 DEF FetchFailed
  <2>. QED BY <2>1, LeaseFields DEF NotSubmitted
<1>13. CASE PollRejected(w, j) \/ CheckpointQuarantined(w, j)
  <2>1. \/ \E c : job' = [job EXCEPT ![j] = [Ended(job[j], "failed") EXCEPT
              !.pollRequired = FALSE, !.resultAdoptable = FALSE, !.createState = c]]
        \/ job' = [job EXCEPT ![j] = [Ended(job[j], "succeeded") EXCEPT
              !.pollRequired = FALSE]]
    BY <1>13, Zenon DEF PollRejected, CheckpointQuarantined
  <2>2. ASSUME NEW c, job' = [job EXCEPT ![j] = [Ended(job[j], "failed") EXCEPT
              !.pollRequired = FALSE, !.resultAdoptable = FALSE, !.createState = c]]
        PROVE  NotSubmitted(j)
    BY <1>0, <2>2, WrittenFields DEF NotSubmitted
  <2>3. CASE job' = [job EXCEPT ![j] = [Ended(job[j], "succeeded") EXCEPT
               !.pollRequired = FALSE]]
    BY <1>0, <2>3, WrittenFields DEF NotSubmitted
  <2>. QED BY <2>1, <2>2, <2>3, Zenon
<1>14. CASE InterruptAtSlot(w, j)
  <2>1. job'[j] = [Freed(Resubmittable(job[j])) EXCEPT !.status = "queued"]
    BY <1>14 DEF InterruptAtSlot
  <2>2. Resubmittable(job[j]) \in JobRow /\ ~Resubmittable(job[j]).nonCancellable
    BY ResubmittableFields
  <2>. QED BY <1>0, <2>1, <2>2, FreedFields DEF NotSubmitted
<1>15. CASE SupervisorFence(w, j)
  BY <1>15, CancelEnds DEF SupervisorFence
<1>. QED BY <1>1, <1>2, <1>3, <1>4, <1>5, <1>6, <1>7, <1>8, <1>9, <1>10, <1>11,
            <1>12, <1>13, <1>14, <1>15
     DEF WorkerEvent, WorkerStep, LoopStep, ThreadStep

LEMMA EventMoves ==
  ASSUME TypeOK, NEW j \in Jobs, JobEvent(j)
  PROVE  NotSubmitted(j) /\ UNCHANGED worker
<1>. job \in [Jobs -> JobRow] /\ job[j] \in JobRow
  BY DEF TypeOK
<1>1. CASE StopShot(j)
  BY <1>1, CancelEnds DEF StopShot, NotSubmitted, SameLease
<1>2. CASE RecoverStale(j)
  <2>1. job'[j] = [Freed(job[j]) EXCEPT !.status = "waiting_provider",
                                        !.createState = "accepted"]
    BY <1>2 DEF RecoverStale
  <2>2. "waiting_provider" \in JobStatus
    BY DEF JobStatus
  <2>. QED BY <1>2, <2>1, <2>2, WrittenFields DEF RecoverStale, NotSubmitted
<1>3. CASE LeaseExpires(j) \/ OrphanLeaseExpires(j)
  <2>1. job'[j] = [job[j] EXCEPT !.leaseExpired = TRUE] /\ worker' = worker
    BY <1>3 DEF LeaseExpires, OrphanLeaseExpires
  <2>. QED BY <2>1, LeaseFields DEF NotSubmitted
<1>4. CASE \E t \in Tasks : ProviderFinishes(j, t) \/ ProviderAcceptsLate(j, t)
  BY <1>4 DEF ProviderFinishes, ProviderAcceptsLate, rows, NotSubmitted, SameLease
<1>. QED BY <1>1, <1>2, <1>3, <1>4 DEF JobEvent

\* A handle that the resumption finds belongs to a row that is protected already.
LEMMA EpisodeMoves ==
  ASSUME TypeOK, NEW k \in Jobs, JobInv(k),
         PauseEpisode \/ ResumeEpisode \/ CrashAndRestart \/ SweepSelect \/ SweepRecover
  PROVE  /\ NotSubmitted(k)
         /\ \A x \in Workers : worker'[x] = worker[x] \/ worker'[x].pc = "idle"
<1>. job \in [Jobs -> JobRow] /\ job[k] \in JobRow
  BY DEF TypeOK
<1>0. {"paused", "waiting_provider", "queued"} \subseteq JobStatus
  BY DEF JobStatus
<1>1. CASE PauseEpisode
  <2>1. /\ job'[k] = job[k] \/ job'[k] = [Freed(job[k]) EXCEPT !.status = "paused"]
        /\ worker' = worker
    BY <1>1 DEF PauseEpisode
  <2>. QED BY <1>0, <2>1, FreedFields DEF NotSubmitted, SameLease
<1>2. CASE ResumeEpisode
  <2>. DEFINE b == [job[k] EXCEPT !.createState = "accepted", !.nonCancellable = TRUE]
  <2>1. b \in JobRow /\ b.status = job[k].status
    BY DEF JobRow, CreateState
  <2>2. /\ worker' = worker
        /\ \/ job'[k] = job[k]
           \/ /\ job[k].status = "paused" /\ Handle(k) # NoTask
              /\ job'[k] = b
           \/ \E s \in {"waiting_provider", "queued"} :
                \/ job'[k] = [Freed(job[k]) EXCEPT !.status = s, !.slotActive = TRUE]
                \/ /\ Handle(k) # NoTask
                   /\ job'[k] = [Freed(b) EXCEPT !.status = s, !.slotActive = TRUE]
    BY <1>2, Zenon DEF ResumeEpisode
  <2>3. Handle(k) # NoTask => job[k].nonCancellable
    BY HandleType DEF JobInv, OneBound, Bound
  <2>. HIDE DEF b
  <2>4. ASSUME NEW r \in JobRow, NEW s
        PROVE  /\ [Freed(r) EXCEPT !.status = s, !.slotActive = TRUE].status = s
               /\ [Freed(r) EXCEPT !.status = s, !.slotActive = TRUE].nonCancellable
                    = r.nonCancellable
    BY DEF Freed, JobRow
  <2>5. \/ job'[k] = job[k]
        \/ /\ job'[k].status \in {"paused", "waiting_provider", "queued"}
           /\ job'[k].nonCancellable => job[k].nonCancellable
    <3>1. CASE job[k].status = "paused" /\ Handle(k) # NoTask /\ job'[k] = b
      BY <2>1, <2>3, <3>1
    <3>2. ASSUME NEW s \in {"waiting_provider", "queued"},
                 \/ job'[k] = [Freed(job[k]) EXCEPT !.status = s, !.slotActive = TRUE]
                 \/ /\ Handle(k) # NoTask
                    /\ job'[k] = [Freed(b) EXCEPT !.status = s, !.slotActive = TRUE]
          PROVE  /\ job'[k].status \in {"paused", "waiting_provider", "queued"}
                 /\ job'[k].nonCancellable => job[k].nonCancellable
      <4>1. CASE job'[k] = [Freed(job[k]) EXCEPT !.status = s, !.slotActive = TRUE]
        BY <2>4, <4>1
      <4>2. CASE /\ Handle(k) # NoTask
                 /\ job'[k] = [Freed(b) EXCEPT !.status = s, !.slotActive = TRUE]
        BY <2>1, <2>3, <2>4, <4>2
      <4>. QED BY <3>2, <4>1, <4>2
    <3>3. CASE \E s \in {"waiting_provider", "queued"} :
                 \/ job'[k] = [Freed(job[k]) EXCEPT !.status = s, !.slotActive = TRUE]
                 \/ /\ Handle(k) # NoTask
                    /\ job'[k] = [Freed(b) EXCEPT !.status = s, !.slotActive = TRUE]
      BY <3>2, <3>3, Zenon
    <3>. QED BY <2>2, <3>1, <3>3
  <2>. QED BY <2>2, <2>5 DEF NotSubmitted, SameLease
<1>3. CASE CrashAndRestart \/ SweepRecover
  <2>1. /\ job'[k] = job[k] \/ job'[k] = RecoveredRow(job[k])
        /\ \A x \in Workers : worker'[x] = worker[x] \/ worker'[x].pc = "idle"
    BY <1>3 DEF CrashAndRestart, SweepRecover, IdleWorker
  <2>. QED BY <2>1, ProtectedFields DEF NotSubmitted, SameLease
<1>4. CASE SweepSelect
  BY <1>4 DEF SweepSelect, rows, NotSubmitted, SameLease
<1>. QED BY <1>1, <1>2, <1>3, <1>4

\* The owner that commits an acceptance finds the row already protected: it has
\* loaded a bound task, or submitted this one.
AcceptHeld(j) ==
    \A w \in Workers : At(w, "accept", j) /\ Owns(w, j) => job[j].nonCancellable

AcceptInv == \A j \in Jobs : AcceptHeld(j)

LEMMA AcceptStays ==
  ASSUME NEW j \in Jobs, AcceptHeld(j), NotSubmitted(j),
         \A x \in Workers : worker'[x] = worker[x] \/ ~At(x, "accept", j)'
  PROVE  AcceptHeld(j)'
  BY DEF AcceptHeld, NotSubmitted, SameLease, At, Owns

\* A worker comes to the acceptance from the task it has loaded, or the reply.
LEMMA WorkerMovesOn ==
  ASSUME TypeOK, NEW w \in Workers, NEW j \in Jobs, WorkerEvent(w, j),
         ~ReplyAccepted(w, j), ~(Load(w, j) /\ KnownTask(j) # NoTask)
  PROVE  worker'[w] = worker[w] \/ worker'[w].pc # "accept"
<1>. worker \in [Workers -> WorkerState] /\ worker[w] \in WorkerState
  BY DEF TypeOK
<1>1. CASE Idle(w) \/ \E pay \in {"settled", "released"} : ThenSettle(w, pay)
  BY <1>1, PartsLeave DEF Engaging
<1>2. CASE \E pc \in PC \ {"accept"} : GoTo(w, pc)
  BY <1>2 DEF GoTo, WorkerState
<1>3. CASE Claim(w, j) \/ Load(w, j) \/ \E t \in Tasks : ProviderAccepts(w, j, t)
  <2>1. CASE Claim(w, j)
    BY <2>1 DEF Claim, IdleWorker
  <2>2. CASE Load(w, j)
    BY <2>2 DEF Load, WorkerState
  <2>3. CASE \E t \in Tasks : ProviderAccepts(w, j, t)
    <3>1. PICK t \in Tasks : worker' = [worker EXCEPT ![w] = [worker[w] EXCEPT !.task = t]]
      BY <2>3 DEF ProviderAccepts
    <3>2. worker'[w].pc = worker[w].pc
      BY <3>1 DEF WorkerState
    <3>. QED BY <2>3, <3>2 DEF ProviderAccepts, At
  <2>. QED BY <1>3, <2>1, <2>2, <2>3
<1>4. CASE Heartbeat(w, j)
  BY <1>4 DEF Heartbeat
<1>5. CASE ~(\/ Claim(w, j) \/ Heartbeat(w, j) \/ Load(w, j)
             \/ \E t \in Tasks : ProviderAccepts(w, j, t))
  <2>1. {"submit", "slot", "sending", "poll", "fetch", "qa", "adopt"}
          \subseteq PC \ {"accept"}
    BY DEF PC, Await
  <2>2. \/ Idle(w) \/ \E pay \in {"settled", "released"} : ThenSettle(w, pay)
        \/ \E pc \in {"submit", "slot", "sending", "poll", "fetch", "qa", "adopt"} :
             GoTo(w, pc)
    BY <1>5 DEF WorkerEvent, WorkerStep, LoopStep, ThreadStep, LeaseLost,
       LoadUnresolved, HandOver, ReviewFence, Defer, InputRepair, PlanStale, GoStale,
       InputError, RetryOrHandOver, Retry, Finish, DeferPoll, MarkSubmitting,
       ClaimSlot, SlotFull, AuthorityStale, ReleaseRefused, Send, ReplyRejected,
       ReplyUnknown, UnexpectedError, PollRunning, PollError, PollTimeout, PollFailed,
       PollFailedManual, PollSucceeded, FetchFailed, FetchLost, SupervisorFence,
       Downgrade, KeepCandidate, QaError, QaPassed, Adopt, CommitAcceptance,
       PollRejected, CheckpointCandidate, CheckpointQuarantined, Settle,
       InterruptAtSlot, Interrupt
  <2>. QED BY <1>1, <1>2, <2>1, <2>2
<1>. QED BY <1>3, <1>4, <1>5

LEMMA WorkerAccepts ==
  ASSUME TypeOK, NEW w \in Workers, NEW j \in Jobs, JobInv(j), AcceptHeld(j),
         WorkerEvent(w, j)
  PROVE  AcceptHeld(j)'
<1>. /\ job \in [Jobs -> JobRow] /\ job[j] \in JobRow
     /\ worker \in [Workers -> WorkerState] /\ worker[w] \in WorkerState
  BY DEF TypeOK
<1>1. CASE Claim(w, j)
  <2>1. job'[j].leaseOwner = w
    BY <1>1 DEF Claim, JobRow
  <2>2. worker'[w].pc = "load"
    BY <1>1 DEF Claim, IdleWorker
  <2>. QED BY <2>1, <2>2 DEF AcceptHeld, Owns, At
<1>2. CASE ClaimSlot(w, j) \/ CommitAcceptance(w, j)
  <2>1. job'[j].nonCancellable
    BY <1>2 DEF ClaimSlot, CommitAcceptance, Renewed, JobRow
  <2>. QED BY <2>1 DEF AcceptHeld
<1>3. CASE Load(w, j) /\ KnownTask(j) # NoTask
  <2>1. Bound(j) # {}
    BY <1>3, HandleType DEF KnownTask, Bound, TypeOK, VersionRow
  <2>2. job'[j].nonCancellable
    BY <1>3, <2>1 DEF JobInv, OneBound, Load, rows
  <2>. QED BY <2>2 DEF AcceptHeld
<1>4. CASE ReplyAccepted(w, j)
  <2>1. job'[j].nonCancellable
    BY <1>4 DEF ReplyAccepted, JobInv, OneSubmission, Submitting
  <2>. QED BY <2>1 DEF AcceptHeld
<1>5. CASE /\ ~Claim(w, j) /\ ~ClaimSlot(w, j) /\ ~CommitAcceptance(w, j)
           /\ ~ReplyAccepted(w, j) /\ ~(Load(w, j) /\ KnownTask(j) # NoTask)
  <2>1. NotSubmitted(j)
    BY <1>5, WorkerMoves
  <2>2. \A x \in Workers \ {w} : worker'[x] = worker[x]
    BY WorkerLocal DEF Local
  <2>3. worker'[w] = worker[w] \/ worker'[w].pc # "accept"
    BY <1>5, WorkerMovesOn
  <2>. QED BY <2>1, <2>2, <2>3, AcceptStays DEF At
<1>. QED BY <1>1, <1>2, <1>3, <1>4, <1>5

LEMMA StepAccepts ==
  ASSUME TypeOK, SafetyInv, AcceptInv, [Next]_vars, NEW k \in Jobs
  PROVE  AcceptHeld(k)'
<1>0. JobInv(k) /\ AcceptHeld(k)
  BY DEF SafetyInv, AcceptInv
<1>1. ASSUME NEW w \in Workers, NEW j \in Jobs, WorkerEvent(w, j)
      PROVE  AcceptHeld(k)'
  <2>1. CASE k = j
    BY <1>0, <1>1, <2>1, WorkerAccepts
  <2>2. CASE k # j
    <3>1. job'[k] = job[k]
          /\ \A x \in Workers : worker'[x] = worker[x] \/ ~At(x, "accept", k)'
      BY <1>1, <2>2, WorkerLocal, VideoJobAssumption DEF Local, At
    <3>. QED BY <1>0, <3>1, AcceptStays DEF NotSubmitted, SameLease
  <2>. QED BY <2>1, <2>2
<1>2. ASSUME NEW j \in Jobs, JobEvent(j)
      PROVE  AcceptHeld(k)'
  <2>1. NotSubmitted(k) /\ UNCHANGED worker
    <3>1. CASE k = j
      BY <1>2, <3>1, EventMoves
    <3>2. CASE k # j
      BY <1>2, <3>2, EventMoves, EventLocal DEF Local, NotSubmitted, SameLease
    <3>. QED BY <3>1, <3>2
  <2>. QED BY <1>0, <2>1, AcceptStays
<1>3. CASE PauseEpisode \/ ResumeEpisode \/ CrashAndRestart \/ SweepSelect \/ SweepRecover
  <2>1. /\ NotSubmitted(k)
        /\ \A x \in Workers : worker'[x] = worker[x] \/ worker'[x].pc = "idle"
    BY <1>0, <1>3, EpisodeMoves
  <2>. QED BY <1>0, <2>1, AcceptStays DEF At
<1>4. CASE UNCHANGED vars
  BY <1>0, <1>4, AcceptStays DEF vars, NotSubmitted, SameLease
<1>. QED BY <1>1, <1>2, <1>3, <1>4 DEF Next

\* _commit_provider_acceptance never makes a row non-cancellable that was not:
\* the owner that reaches it has loaded a bound task or submitted this one.
THEOREM AcceptanceIsHeld == Spec => []AcceptInv
<1>1. Init => AcceptInv
  BY DEF Init, AcceptInv, AcceptHeld, At, IdleWorker
<1>2. TypeOK /\ SafetyInv /\ AcceptInv /\ [Next]_vars => AcceptInv'
  BY StepAccepts DEF AcceptInv
<1>. QED BY <1>1, <1>2, TypeCorrect, Safe, PTL DEF Spec

\* One more job is within the cap if there was room.
LEMMA RoomForOne ==
  ASSUME NEW S \in SUBSET Jobs, NEW j \in Jobs, NEW T \in SUBSET (S \cup {j}),
         Cardinality(S) < InflightCap
  PROVE  Cardinality(T) <= InflightCap
<1>1. IsFiniteSet(S)
  BY VideoJobAssumption, FS_Subset
<1>2. IsFiniteSet(S \cup {j}) /\ Cardinality(S \cup {j}) <= Cardinality(S) + 1
  <2>1. Cardinality(S) \in Nat
    BY <1>1, FS_CardinalityType
  <2>2. /\ IsFiniteSet(S \cup {j})
        /\ Cardinality(S \cup {j}) = IF j \in S THEN Cardinality(S) ELSE Cardinality(S) + 1
    BY <1>1, FS_AddElement
  <2>. QED BY <2>1, <2>2
<1>3. Cardinality(T) <= Cardinality(S \cup {j}) /\ IsFiniteSet(T)
  BY <1>2, FS_Subset
<1>4. /\ Cardinality(S) \in Nat /\ Cardinality(S \cup {j}) \in Nat
      /\ Cardinality(T) \in Nat /\ InflightCap \in Nat
  BY <1>1, <1>2, <1>3, FS_CardinalityType, VideoJobAssumption
<1>. QED BY <1>2, <1>3, <1>4

\* A job that was not submitted becomes in flight only with what it had.
LEMMA BecomesInflight ==
  ASSUME NEW j \in Jobs, NotSubmitted(j), j \in Inflight', j \notin Inflight
  PROVE  job[j].nonCancellable
  BY DEF NotSubmitted, SameLease, Inflight

LEMMA StepWithinCap ==
  ASSUME TypeOK, SafetyInv, AcceptInv, [Next]_vars,
         NEW k \in Inflight' \ Inflight, ~job[k].nonCancellable
  PROVE  Cardinality(Inflight') <= InflightCap
<1>. k \in Jobs /\ job \in [Jobs -> JobRow]
  BY DEF Inflight, TypeOK
<1>0. JobInv(k) /\ AcceptHeld(k)
  BY DEF SafetyInv, AcceptInv
<1>1. ~NotSubmitted(k)
  BY BecomesInflight
<1>2. ASSUME NEW w \in Workers, NEW j \in Jobs, WorkerEvent(w, j)
      PROVE  ClaimSlot(w, j)
  <2>1. k = j
    BY <1>1, <1>2, WorkerLocal DEF Local, NotSubmitted, SameLease
  <2>2. ~Claim(w, j)
    <3>1. ASSUME Claim(w, j) PROVE job'[j].nonCancellable = job[j].nonCancellable
      BY <3>1 DEF Claim, JobRow
    <3>. QED BY <2>1, <3>1 DEF Inflight
  <2>3. ~CommitAcceptance(w, j)
    BY <1>0, <2>1 DEF AcceptHeld, CommitAcceptance
  <2>. QED BY <1>1, <1>2, <2>1, <2>2, <2>3, WorkerMoves
<1>3. ASSUME NEW j \in Jobs, JobEvent(j)
      PROVE  FALSE
  BY <1>1, <1>3, EventMoves, EventLocal DEF Local, NotSubmitted, SameLease
<1>4. ~(PauseEpisode \/ ResumeEpisode \/ CrashAndRestart \/ SweepSelect \/ SweepRecover)
  BY <1>0, <1>1, EpisodeMoves
<1>5. ~UNCHANGED vars
  BY <1>1 DEF vars, NotSubmitted, SameLease
<1>6. PICK w \in Workers, j \in Jobs : WorkerEvent(w, j) /\ ClaimSlot(w, j)
  BY <1>2, <1>3, <1>4, <1>5 DEF Next
<1>7. \A i \in Jobs \ {j} : job'[i] = job[i]
  BY <1>6, WorkerLocal DEF Local
<1>8. Inflight \in SUBSET Jobs /\ Inflight' \in SUBSET (Inflight \cup {j})
  BY <1>7 DEF Inflight
<1>9. Cardinality(Inflight) < InflightCap
  BY <1>6 DEF ClaimSlot, HasRoom
<1>. QED BY <1>8, <1>9, RoomForOne

\* claim_video_submit_slot counts and takes the room in one transaction: however
\* many workers passed can_admit_video_submit, for every cap and any number of
\* jobs, only a job whose create may already be paid takes the episode over it.
THEOREM CapIsKept == Spec => SubmitWithinCap
<1>1. TypeOK /\ SafetyInv /\ AcceptInv /\ [Next]_vars
        => [Cardinality(Inflight') > InflightCap
              => \A j \in Inflight' \ Inflight : job[j].nonCancellable]_vars
  <2>. SUFFICES ASSUME TypeOK, SafetyInv, AcceptInv, [Next]_vars,
                       NEW k \in Inflight' \ Inflight, ~job[k].nonCancellable
                PROVE  ~(Cardinality(Inflight') > InflightCap)
    OBVIOUS
  <2>1. Cardinality(Inflight') <= InflightCap
    BY StepWithinCap
  <2>2. Cardinality(Inflight') \in Nat /\ InflightCap \in Nat
    <3>1. Inflight' \in SUBSET Jobs
      BY DEF Inflight
    <3>. QED BY <3>1, VideoJobAssumption, FS_Subset, FS_CardinalityType
  <2>. QED BY <2>1, <2>2
<1>. QED BY <1>1, TypeCorrect, Safe, AcceptanceIsHeld, PTL DEF Spec, SubmitWithinCap

-----------------------------------------------------------------------------
(* The job implements PaidOperation.                                         *)

Held(j) == claim[j] \notin {"none", "released"}

SameHeld(j) == Held(j)' <=> Held(j)
SameSent(j) == Requested(j)' <=> Requested(j)
SameLive(j) == Live(j)' = {} <=> Live(j) = {}

\* What an action of PaidOperation, or a stutter, does to its operation.
PaidMove(j) ==
    \/ SameHeld(j) /\ SameSent(j) /\ SameLive(j)
    \/ ~Held(j) /\ Held(j)' /\ SameSent(j) /\ SameLive(j)
    \/ /\ Held(j) /\ ~Held(j)' /\ ~Requested(j) /\ Live(j) = {}
       /\ SameSent(j) /\ SameLive(j)
    \/ /\ Held(j) /\ ~Requested(j) /\ Live(j) = {}
       /\ Requested(j)' /\ SameHeld(j) /\ SameLive(j)
    \/ /\ Requested(j) /\ ~Requested(j)' /\ Live(j)' # {}
       /\ SameHeld(j)
    \/ /\ Requested(j) /\ ~Requested(j)' /\ ~Held(j)' /\ SameLive(j)
    \/ Live(j) # {} /\ Live(j)' = {} /\ SameHeld(j) /\ SameSent(j)

Untouched(k) == SameHeld(k) /\ SameSent(k) /\ SameLive(k)

AbsHeld == {j \in Jobs : Held(j)}
AbsSent == {j \in Jobs : Requested(j)}
AbsLive == {j \in Jobs : Live(j) # {}}

LEMMA MoveIsAllowed ==
  ASSUME NEW j \in Jobs, PaidMove(j), \A k \in Jobs \ {j} : Untouched(k)
  PROVE  PaidOp!Next \/ UNCHANGED PaidOp!vars
<1>1. CASE SameHeld(j) /\ SameSent(j) /\ SameLive(j)
  <2>1. \A k \in Jobs : Untouched(k)
    BY <1>1 DEF Untouched
  <2>2. AbsHeld' = AbsHeld /\ AbsSent' = AbsSent /\ AbsLive' = AbsLive
    BY <2>1 DEF Untouched, SameHeld, SameSent, SameLive, AbsHeld, AbsSent, AbsLive
  <2>. QED BY <2>2 DEF PaidOp!vars, AbsHeld, AbsSent, AbsLive, Held
<1>2. CASE ~Held(j) /\ Held(j)' /\ SameSent(j) /\ SameLive(j)
  <2>1. AbsHeld' = AbsHeld \cup {j} /\ AbsSent' = AbsSent /\ AbsLive' = AbsLive
        /\ j \notin AbsHeld
    BY <1>2 DEF Untouched, SameHeld, SameSent, SameLive, AbsHeld, AbsSent, AbsLive
  <2>2. PaidOp!Hold(j)
    BY <2>1 DEF PaidOp!Hold, AbsHeld, AbsSent, AbsLive, Held
  <2>. QED BY <2>2 DEF PaidOp!Next
<1>3. CASE /\ Held(j) /\ ~Held(j)' /\ ~Requested(j) /\ Live(j) = {}
           /\ SameSent(j) /\ SameLive(j)
  <2>1. AbsHeld' = AbsHeld \ {j} /\ AbsSent' = AbsSent /\ AbsLive' = AbsLive
        /\ j \in AbsHeld \ (AbsSent \cup AbsLive)
    BY <1>3 DEF Untouched, SameHeld, SameSent, SameLive, AbsHeld, AbsSent, AbsLive
  <2>2. PaidOp!Release(j)
    BY <2>1 DEF PaidOp!Release, AbsHeld, AbsSent, AbsLive, Held
  <2>. QED BY <2>2 DEF PaidOp!Next
<1>4. CASE /\ Held(j) /\ ~Requested(j) /\ Live(j) = {}
           /\ Requested(j)' /\ SameHeld(j) /\ SameLive(j)
  <2>1. AbsHeld' = AbsHeld /\ AbsSent' = AbsSent \cup {j} /\ AbsLive' = AbsLive
        /\ j \in AbsHeld \ (AbsSent \cup AbsLive)
    BY <1>4 DEF Untouched, SameHeld, SameSent, SameLive, AbsHeld, AbsSent, AbsLive
  <2>2. PaidOp!Submit(j)
    BY <2>1 DEF PaidOp!Submit, AbsHeld, AbsSent, AbsLive, Held
  <2>. QED BY <2>2 DEF PaidOp!Next
<1>5. CASE /\ Requested(j) /\ ~Requested(j)' /\ Live(j)' # {}
           /\ SameHeld(j)
  <2>1. AbsHeld' = AbsHeld /\ AbsSent' = AbsSent \ {j} /\ AbsLive' = AbsLive \cup {j}
        /\ j \in AbsSent
    BY <1>5 DEF Untouched, SameHeld, SameSent, SameLive, AbsHeld, AbsSent, AbsLive
  <2>2. PaidOp!Accept(j)
    BY <2>1 DEF PaidOp!Accept, AbsHeld, AbsSent, AbsLive, Held
  <2>. QED BY <2>2 DEF PaidOp!Next
<1>6. CASE /\ Requested(j) /\ ~Requested(j)' /\ ~Held(j)' /\ SameLive(j)
  <2>1. AbsHeld' = AbsHeld \ {j} /\ AbsSent' = AbsSent \ {j} /\ AbsLive' = AbsLive
        /\ j \in AbsSent
    BY <1>6 DEF Untouched, SameHeld, SameSent, SameLive, AbsHeld, AbsSent, AbsLive
  <2>2. PaidOp!Refuse(j)
    BY <2>1 DEF PaidOp!Refuse, AbsHeld, AbsSent, AbsLive, Held
  <2>. QED BY <2>2 DEF PaidOp!Next
<1>7. CASE Live(j) # {} /\ Live(j)' = {} /\ SameHeld(j) /\ SameSent(j)
  <2>1. AbsHeld' = AbsHeld /\ AbsSent' = AbsSent /\ AbsLive' = AbsLive \ {j}
        /\ j \in AbsLive
    BY <1>7 DEF Untouched, SameHeld, SameSent, SameLive, AbsHeld, AbsSent, AbsLive
  <2>2. PaidOp!Finish(j)
    BY <2>1 DEF PaidOp!Finish, AbsHeld, AbsSent, AbsLive, Held
  <2>. QED BY <2>2 DEF PaidOp!Next
<1>. QED BY <1>1, <1>2, <1>3, <1>4, <1>5, <1>6, <1>7 DEF PaidMove

\* A row that is not protected has no request and no paid task.
LEMMA NothingAtStake ==
  ASSUME NEW j \in Jobs, JobInv(j), ~job[j].nonCancellable
  PROVE  ~Requested(j) /\ Live(j) = {}
  BY DEF JobInv, OneSubmission, LateAlone, OneBound, Bound, Requested, Submitting

\* A step that neither sends nor answers keeps the claim, or nothing is at stake.
LEMMA QuietMove ==
  ASSUME NEW j \in Jobs, SameSent(j), SameLive(j),
         \/ Held(j) => Held(j)'
         \/ ~Requested(j) /\ Live(j) = {}
  PROVE  PaidMove(j)
  BY DEF PaidMove, SameHeld

\* The step of a worker at one job is no step at another.
LEMMA WorkerIsHere ==
  ASSUME NEW w \in Workers, NEW j \in Jobs, WorkerEvent(w, j)
  PROVE  worker[w].job = j \/ worker[w].pc = "idle"
  BY DEF WorkerEvent, WorkerStep, LoopStep, ThreadStep, Claim, Heartbeat, LeaseLost,
     Load, LoadUnresolved, ReviewFence, Defer, InputRepair, PlanStale, InputError,
     MarkSubmitting, ClaimSlot, SlotFull, AuthorityStale, BeforeTheCall,
     ReleaseRefused, Send, ReplyAccepted, ReplyRejected, ReplyUnknown,
     UnexpectedError, PollRunning, PollError, PollTimeout, PollFailed,
     PollFailedManual, PollSucceeded, PollRejected, Polled, FetchFailed, FetchLost,
     SupervisorFence, Downgrade, KeepCandidate, QaError, QaPassed, Adopt,
     CommitAcceptance, CheckpointCandidate, CheckpointQuarantined, Settle,
     InterruptAtSlot, Interrupt, ProviderAccepts, At

LEMMA OthersUntouched ==
  ASSUME NEW w \in Workers, NEW j \in Jobs, Local(w, j),
         worker'[w] = worker[w] \/ worker[w].job = j \/ worker[w].pc = "idle",
         NEW k \in Jobs \ {j}
  PROVE  Untouched(k)
<1>1. SameHeld(k) /\ SameLive(k)
  BY DEF Local, SameHeld, SameLive, Held, Live
<1>2. \A x \in Workers : (At(x, "sending", k) /\ worker[x].task = NoTask)
                           <=> (At(x, "sending", k) /\ worker[x].task = NoTask)'
  BY VideoJobAssumption DEF Local, At
<1>3. SameSent(k)
  BY <1>2 DEF Local, SameSent, Requested
<1>. QED BY <1>1, <1>3 DEF Untouched

\* A worker that stops waiting hands its request over to nobody, not to oblivion.
LEMMA RequestStays ==
  ASSUME NEW w \in Workers, NEW j \in Jobs, Local(w, j), GiveUp(w, j),
         worker'[w].pc # "sending"
  PROVE  SameSent(j)
<1>1. \A x \in Workers \ {w} : (At(x, "sending", j) /\ worker[x].task = NoTask)
                                 <=> (At(x, "sending", j) /\ worker[x].task = NoTask)'
  BY DEF Local, At
<1>2. CASE At(w, "sending", j) /\ worker[w].task = NoTask
  BY <1>2 DEF GiveUp, SameSent, Requested
<1>3. CASE ~(At(w, "sending", j) /\ worker[w].task = NoTask)
  <2>1. late' = late /\ ~At(w, "sending", j)'
    BY <1>3 DEF GiveUp, At
  <2>. QED BY <1>1, <1>3, <2>1 DEF SameSent, Requested
<1>. QED BY <1>2, <1>3

\* The steps of a worker that neither send nor learn the provider's verdict.
Speechless(w, j) ==
    /\ WorkerEvent(w, j)
    /\ ~Send(w, j) /\ ~ReplyRejected(w, j)
    /\ ~\E t \in Tasks : ProviderAccepts(w, j, t)

LEMMA SpeechlessWaits ==
  ASSUME TypeOK, NEW w \in Workers, NEW j \in Jobs, Speechless(w, j)
  PROVE  UNCHANGED tasks /\ GiveUp(w, j)
<1>1. CASE \/ LeaseLost(w, j) \/ ReplyUnknown(w, j) \/ UnexpectedError(w, j)
           \/ Interrupt(w, j)
  BY <1>1 DEF LeaseLost, ReplyUnknown, UnexpectedError, Interrupt
<1>2. CASE ReplyAccepted(w, j)
  BY <1>2 DEF ReplyAccepted, provider, GiveUp
<1>3. CASE ~(\/ LeaseLost(w, j) \/ ReplyUnknown(w, j) \/ UnexpectedError(w, j)
             \/ Interrupt(w, j) \/ ReplyAccepted(w, j))
  <2>1. UNCHANGED <<tasks, late>> /\ worker[w].pc # "sending"
    BY <1>3
       DEF Speechless, WorkerEvent, WorkerStep, LoopStep, ThreadStep, Claim, Heartbeat,
       Load, LoadUnresolved, ReviewFence, Defer, InputRepair, PlanStale, InputError,
       MarkSubmitting, ClaimSlot, SlotFull, AuthorityStale, BeforeTheCall,
       ReleaseRefused, PollRunning, PollError, PollTimeout, PollFailed,
       PollFailedManual, PollSucceeded, PollRejected, Polled, FetchFailed, FetchLost,
       SupervisorFence, Downgrade, KeepCandidate, QaError, QaPassed, Adopt,
       CommitAcceptance, CheckpointCandidate, CheckpointQuarantined, Settle,
       InterruptAtSlot, At, provider
  <2>. QED BY <2>1 DEF GiveUp, At
<1>. QED BY <1>1, <1>2, <1>3

LEMMA SpeechlessLeaves ==
  ASSUME TypeOK, NEW w \in Workers, NEW j \in Jobs, Speechless(w, j)
  PROVE  worker'[w].pc # "sending"
<1>. worker \in [Workers -> WorkerState] /\ worker[w] \in WorkerState
  BY DEF TypeOK
<1>1. CASE Idle(w) \/ \E pay \in {"settled", "released"} : ThenSettle(w, pay)
  BY <1>1, PartsLeave DEF Engaging
<1>2. CASE \E pc \in PC \ {"sending"} : GoTo(w, pc)
  BY <1>2 DEF GoTo, WorkerState
<1>3. CASE Claim(w, j)
  BY <1>3 DEF Claim, IdleWorker
<1>4. CASE Load(w, j)
  BY <1>4 DEF Load, WorkerState
<1>5. CASE ReplyAccepted(w, j)
  <2>1. [worker[w] EXCEPT !.pc = "accept", !.fresh = TRUE].pc = "accept"
    BY DEF WorkerState
  <2>. QED BY <1>5, <2>1 DEF ReplyAccepted
<1>6. CASE Heartbeat(w, j)
  BY <1>6 DEF Heartbeat, At
<1>7. CASE ~(Claim(w, j) \/ Heartbeat(w, j) \/ Load(w, j) \/ ReplyAccepted(w, j))
  <2>1. {"submit", "slot", "poll", "fetch", "qa", "adopt"} \subseteq PC \ {"sending"}
    BY DEF PC, Await
  <2>2. \/ Idle(w) \/ \E pay \in {"settled", "released"} : ThenSettle(w, pay)
        \/ \E pc \in {"submit", "slot", "poll", "fetch", "qa", "adopt"} : GoTo(w, pc)
    BY <1>7
       DEF Speechless, WorkerEvent, WorkerStep, LoopStep, ThreadStep, LeaseLost,
       LoadUnresolved, HandOver, ReviewFence, Defer, InputRepair, PlanStale, GoStale,
       InputError, RetryOrHandOver, Retry, Finish, DeferPoll, MarkSubmitting,
       ClaimSlot, SlotFull, AuthorityStale, ReleaseRefused,
       ReplyUnknown, UnexpectedError, PollRunning, PollError, PollTimeout, PollFailed,
       PollFailedManual, PollSucceeded, FetchFailed, FetchLost, SupervisorFence,
       Downgrade, KeepCandidate, QaError, QaPassed, Adopt, CommitAcceptance,
       PollRejected, CheckpointCandidate, CheckpointQuarantined, Settle,
       InterruptAtSlot, Interrupt
  <2>. QED BY <1>1, <1>2, <2>1, <2>2
<1>. QED BY <1>3, <1>4, <1>5, <1>6, <1>7

\* request_cancel gives the amount back only before the transport.
LEMMA CancelMoves ==
  ASSUME TypeOK, NEW j \in Jobs, JobInv(j), RequestCancel(j)
  PROVE  \/ Held(j) => Held(j)'
         \/ ~Requested(j) /\ Live(j) = {}
<1>1. claim'[j] = claim[j] \/ ~job[j].nonCancellable
  BY CancelReleases
<1>. QED BY <1>1, NothingAtStake DEF Held

LEMMA SpeechlessMoves ==
  ASSUME TypeOK, NEW w \in Workers, NEW j \in Jobs, JobInv(j), Speechless(w, j)
  PROVE  PaidMove(j)
<1>. claim \in [Jobs -> ClaimStatus]
  BY DEF TypeOK
<1>1. SameSent(j) /\ SameLive(j)
  <2>1. Local(w, j)
    BY WorkerLocal DEF Speechless
  <2>2. UNCHANGED tasks /\ GiveUp(w, j) /\ worker'[w].pc # "sending"
    BY SpeechlessWaits, SpeechlessLeaves
  <2>. QED BY <2>1, <2>2, RequestStays DEF SameLive, Live
<1>2. CASE AuthorityStale(w, j) \/ InterruptAtSlot(w, j)
  <2>1. At(w, "slot", j) /\ w \in Submitting(j) /\ worker[w].task = NoTask
    BY <1>2 DEF AuthorityStale, InterruptAtSlot, BeforeTheCall, Submitting, At,
                JobInv, KnowsItsTask
  <2>2. Submitting(j) = {w} /\ j \notin late /\ Live(j) = {}
    BY <2>1 DEF JobInv, OneSubmission, Bound, Live, NoTask, Tasks
  <2>3. ~Requested(j)
    BY <2>1, <2>2 DEF Requested, Submitting, At
  <2>. QED BY <1>1, <2>2, <2>3, QuietMove
<1>3. CASE SupervisorFence(w, j)
  BY <1>1, <1>3, CancelMoves, QuietMove DEF SupervisorFence
<1>4. CASE ~(AuthorityStale(w, j) \/ InterruptAtSlot(w, j) \/ SupervisorFence(w, j))
  <2>1. Held(j) => Held(j)'
    <3>1. CASE ClaimSlot(w, j)
      BY <3>1 DEF ClaimSlot, Billed, Held
    <3>2. CASE \/ CommitAcceptance(w, j) \/ PollRejected(w, j)
               \/ CheckpointCandidate(w, j) \/ CheckpointQuarantined(w, j)
      BY <3>2 DEF CommitAcceptance, PollRejected, CheckpointCandidate,
                  CheckpointQuarantined, Held
    <3>3. CASE ~(\/ ClaimSlot(w, j) \/ CommitAcceptance(w, j) \/ PollRejected(w, j)
                 \/ CheckpointCandidate(w, j) \/ CheckpointQuarantined(w, j))
      <4>1. UNCHANGED claim
        BY <1>4, <3>3
           DEF Speechless, WorkerEvent, WorkerStep, LoopStep, ThreadStep, Claim,
           Heartbeat, LeaseLost, Load, LoadUnresolved, HandOver, ReviewFence, Defer,
           InputRepair, PlanStale, InputError, MarkSubmitting, SlotFull,
           ReleaseRefused, ReplyAccepted, ReplyUnknown, UnexpectedError, PollRunning,
           PollError, PollTimeout, PollFailed, PollFailedManual, PollSucceeded,
           FetchFailed, FetchLost, Downgrade, KeepCandidate, QaError, QaPassed, Adopt,
           Settle, Interrupt, rows
      <4>. QED BY <4>1 DEF Held
    <3>. QED BY <3>1, <3>2, <3>3
  <2>. QED BY <1>1, <2>1, QuietMove
<1>. QED BY <1>2, <1>3, <1>4

\* The request: sent from the slot, refused, or accepted.
LEMMA SendMoves ==
  ASSUME TypeOK, NEW w \in Workers, NEW j \in Jobs, JobInv(j), Send(w, j)
  PROVE  PaidMove(j)
<1>1. At(w, "slot", j) /\ w \in Submitting(j) /\ worker[w].task = NoTask
  BY DEF Send, Submitting, At, JobInv, KnowsItsTask
<1>2. Submitting(j) = {w} /\ j \notin late /\ Live(j) = {}
  BY <1>1 DEF JobInv, OneSubmission, Bound, Live, NoTask, Tasks
<1>3. ~Requested(j) /\ Held(j)
  BY <1>1, <1>2 DEF Requested, Submitting, At, JobInv, ClaimHeld, Held
<1>4. Requested(j)'
  <2>1. worker'[w].pc = "sending" /\ worker'[w].task = NoTask /\ worker'[w].job = j
    BY <1>1 DEF Send, GoTo, At, TypeOK, WorkerState
  <2>. QED BY <2>1 DEF Requested, At
<1>5. SameHeld(j) /\ SameLive(j)
  BY DEF Send, rows, provider, SameHeld, SameLive, Held, Live
<1>. QED BY <1>2, <1>3, <1>4, <1>5 DEF PaidMove

LEMMA RefusalMoves ==
  ASSUME TypeOK, NEW w \in Workers, NEW j \in Jobs, JobInv(j),
         WorkerEvent(w, j), ReplyRejected(w, j)
  PROVE  PaidMove(j)
<1>1. At(w, "sending", j) /\ worker[w].task = NoTask /\ w \in Submitting(j)
  BY DEF ReplyRejected, Submitting
<1>2. Submitting(j) = {w} /\ j \notin late /\ Requested(j)
  BY <1>1 DEF JobInv, OneSubmission, Requested
<1>3. Local(w, j)
  BY WorkerLocal
<1>4. UNCHANGED <<tasks, late>> /\ ~Held(j)'
  BY DEF ReplyRejected, provider, TypeOK, Held
<1>5. worker'[w].pc # "sending"
  <2>1. Idle(w) \/ \E pay \in {"settled", "released"} : ThenSettle(w, pay)
    BY DEF ReplyRejected, RetryOrHandOver, Retry, Finish
  <2>. QED BY <2>1, PartsLeave DEF Engaging
<1>6. ~Requested(j)'
  BY <1>2, <1>3, <1>4, <1>5 DEF Requested, Submitting, At, Local
<1>7. SameLive(j)
  BY <1>4 DEF SameLive, Live
<1>. QED BY <1>2, <1>4, <1>6, <1>7 DEF PaidMove

LEMMA AcceptanceMoves ==
  ASSUME TypeOK, NEW w \in Workers, NEW j \in Jobs, JobInv(j),
         NEW t \in Tasks, ProviderAccepts(w, j, t)
  PROVE  PaidMove(j)
<1>1. At(w, "sending", j) /\ worker[w].task = NoTask /\ w \in Submitting(j)
  BY DEF ProviderAccepts, Submitting
<1>2. Submitting(j) = {w} /\ j \notin late /\ Requested(j)
  BY <1>1 DEF JobInv, OneSubmission, Requested
<1>3. worker'[w].task = t /\ t # NoTask /\ \A x \in Workers \ {w} : worker'[x] = worker[x]
  BY DEF ProviderAccepts, TypeOK, WorkerState, Tasks, NoTask
<1>4. late' = late /\ SameHeld(j)
  BY DEF ProviderAccepts, rows, SameHeld, Held
<1>5. ~Requested(j)'
  BY <1>2, <1>3, <1>4 DEF Requested, Submitting, At
<1>6. t \in Live(j)'
  BY DEF ProviderAccepts, StartsTask, TypeOK, Live
<1>. QED BY <1>2, <1>4, <1>5, <1>6 DEF PaidMove

LEMMA EventPaidMoves ==
  ASSUME TypeOK, NEW j \in Jobs, JobInv(j), JobEvent(j)
  PROVE  PaidMove(j)
<1>1. CASE StopShot(j)
  <2>1. SameSent(j) /\ SameLive(j)
    BY <1>1 DEF StopShot, provider, SameSent, SameLive, Requested, Live, At
  <2>2. \/ Held(j) => Held(j)'
        \/ ~Requested(j) /\ Live(j) = {}
    BY <1>1, CancelMoves DEF StopShot, Held
  <2>. QED BY <2>1, <2>2, QuietMove
<1>2. CASE RecoverStale(j) \/ LeaseExpires(j) \/ OrphanLeaseExpires(j)
  <2>1. SameSent(j) /\ SameLive(j) /\ SameHeld(j)
    BY <1>2 DEF RecoverStale, LeaseExpires, OrphanLeaseExpires, provider, SameSent,
                SameLive, SameHeld, Requested, Live, At, Held
  <2>. QED BY <2>1 DEF PaidMove
<1>3. ASSUME NEW t \in Tasks, ProviderFinishes(j, t) PROVE PaidMove(j)
  <2>1. Live(j) = {t}
    BY <1>3 DEF ProviderFinishes, JobInv, OneBound, Bound, Live
  <2>2. Live(j)' = {}
    BY <1>3, <2>1 DEF ProviderFinishes, TypeOK, Live
  <2>3. SameHeld(j) /\ SameSent(j)
    BY <1>3 DEF ProviderFinishes, rows, SameHeld, Held, SameSent, Requested, At
  <2>. QED BY <2>1, <2>2, <2>3 DEF PaidMove
<1>4. ASSUME NEW t \in Tasks, ProviderAcceptsLate(j, t) PROVE PaidMove(j)
  <2>1. Submitting(j) = {} /\ Requested(j)
    BY <1>4 DEF ProviderAcceptsLate, JobInv, OneSubmission, Requested
  <2>2. ~Requested(j)'
    BY <1>4, <2>1 DEF ProviderAcceptsLate, Requested, Submitting, At
  <2>3. t \in Live(j)'
    BY <1>4 DEF ProviderAcceptsLate, StartsTask, TypeOK, Live
  <2>4. SameHeld(j)
    BY <1>4 DEF ProviderAcceptsLate, rows, SameHeld, Held
  <2>. QED BY <2>1, <2>2, <2>3, <2>4 DEF PaidMove
<1>. QED BY <1>1, <1>2, <1>3, <1>4 DEF JobEvent

LEMMA EventUntouched ==
  ASSUME TypeOK, NEW j \in Jobs, JobEvent(j), NEW k \in Jobs \ {j}
  PROVE  Untouched(k)
<1>1. \A w : Local(w, j)
  BY EventLocal
<1>2. SameHeld(k) /\ SameLive(k)
  BY <1>1 DEF Local, SameHeld, SameLive, Held, Live
<1>3. UNCHANGED worker /\ (k \in late' <=> k \in late)
  BY <1>1, EventMoves DEF Local
<1>. QED BY <1>2, <1>3 DEF Untouched, SameSent, Requested, At

LEMMA EpisodePaidMoves ==
  ASSUME TypeOK, NEW k \in Jobs,
         PauseEpisode \/ ResumeEpisode \/ CrashAndRestart \/ SweepSelect \/ SweepRecover
  PROVE  Untouched(k)
<1>1. UNCHANGED <<claim, tasks>>
  BY DEF PauseEpisode, ResumeEpisode, CrashAndRestart, SweepSelect, SweepRecover, rows,
         provider
<1>2. SameHeld(k) /\ SameLive(k)
  BY <1>1 DEF SameHeld, Held, SameLive, Live
<1>3. CASE CrashAndRestart
  <2>1. \A x \in Workers : ~At(x, "sending", k)'
    BY <1>3 DEF CrashAndRestart, IdleWorker, At
  <2>2. k \in late' <=> Requested(k)
    BY <1>3 DEF CrashAndRestart, Requested
  <2>. QED BY <1>2, <2>1, <2>2 DEF Untouched, SameSent, Requested
<1>4. CASE PauseEpisode \/ ResumeEpisode \/ SweepSelect \/ SweepRecover
  <2>1. UNCHANGED <<worker, late>>
    BY <1>4 DEF PauseEpisode, ResumeEpisode, SweepSelect, SweepRecover, provider
  <2>. QED BY <1>2, <2>1 DEF Untouched, SameSent, Requested, At
<1>. QED BY <1>3, <1>4

LEMMA StepImplements ==
  ASSUME TypeOK, SafetyInv, [Next]_vars
  PROVE  PaidOp!Next \/ UNCHANGED PaidOp!vars
<1>. \A j \in Jobs : JobInv(j)
  BY DEF SafetyInv
<1>1. ASSUME NEW w \in Workers, NEW j \in Jobs, WorkerEvent(w, j)
      PROVE  PaidOp!Next \/ UNCHANGED PaidOp!vars
  <2>1. PaidMove(j)
    <3>1. CASE Send(w, j) \/ ReplyRejected(w, j)
      BY <1>1, <3>1, SendMoves, RefusalMoves
    <3>2. CASE \E t \in Tasks : ProviderAccepts(w, j, t)
      BY <3>2, AcceptanceMoves
    <3>3. CASE Speechless(w, j)
      BY <3>3, SpeechlessMoves
    <3>. QED BY <1>1, <3>1, <3>2, <3>3 DEF Speechless
  <2>2. \A k \in Jobs \ {j} : Untouched(k)
    BY <1>1, WorkerLocal, WorkerIsHere, OthersUntouched
  <2>. QED BY <2>1, <2>2, MoveIsAllowed
<1>2. ASSUME NEW j \in Jobs, JobEvent(j)
      PROVE  PaidOp!Next \/ UNCHANGED PaidOp!vars
  <2>1. PaidMove(j)
    BY <1>2, EventPaidMoves
  <2>2. \A k \in Jobs \ {j} : Untouched(k)
    BY <1>2, EventUntouched
  <2>. QED BY <2>1, <2>2, MoveIsAllowed
<1>3. ASSUME \A k \in Jobs : Untouched(k)
      PROVE  PaidOp!Next \/ UNCHANGED PaidOp!vars
  <2>1. CASE Jobs = {}
    BY <2>1 DEF PaidOp!vars
  <2>2. CASE Jobs # {}
    BY <1>3, <2>2, MoveIsAllowed DEF Untouched, PaidMove
  <2>. QED BY <2>1, <2>2
<1>4. CASE PauseEpisode \/ ResumeEpisode \/ CrashAndRestart \/ SweepSelect \/ SweepRecover
  BY <1>3, <1>4, EpisodePaidMoves
<1>5. CASE UNCHANGED vars
  <2>1. \A k \in Jobs : Untouched(k)
    BY <1>5 DEF vars, provider, Untouched, SameHeld, SameSent, SameLive, Held,
                Requested, Live, At
  <2>. QED BY <1>3, <2>1
<1>. QED BY <1>1, <1>2, <1>4, <1>5 DEF Next

\* The rows, leases, workers, crashes and late answers of media_exec implement
\* PaidOperation: each step is one action of its ledger, or none.
THEOREM JobImplementsPaidOperation == Spec => ImplementsPaidOperation
<1>1. Init => PaidOp!Init
  BY DEF Init, PaidOp!Init, Requested, Live, At, IdleWorker
<1>2. TypeOK /\ SafetyInv /\ [Next]_vars => [PaidOp!Next]_(PaidOp!vars)
  BY StepImplements
<1>. QED BY <1>1, <1>2, TypeCorrect, Safe, PTL DEF Spec, ImplementsPaidOperation, PaidOp!Spec

\* No action of PaidOperation pays twice at a time or for what it does not hold.
LEMMA PromiseStays ==
  ASSUME PaidOp!Promise, [PaidOp!Next]_(PaidOp!vars)
  PROVE  PaidOp!Promise'
<1>1. AbsSent \cap AbsLive = {} /\ AbsSent \cup AbsLive \subseteq AbsHeld
      /\ AbsHeld \subseteq Jobs
  BY DEF PaidOp!Promise, AbsHeld, AbsSent, AbsLive, Held
<1>2. /\ AbsSent' \cap AbsLive' = {} /\ AbsSent' \cup AbsLive' \subseteq AbsHeld'
      /\ AbsHeld' \subseteq Jobs
  <2>1. CASE UNCHANGED PaidOp!vars
    <3>1. AbsHeld' = AbsHeld /\ AbsSent' = AbsSent /\ AbsLive' = AbsLive
      BY <2>1 DEF PaidOp!vars, AbsHeld, AbsSent, AbsLive, Held
    <3>. QED BY <1>1, <3>1
  <2>2. CASE PaidOp!Next
    <3>1. PICK j \in Jobs :
            \/ AbsHeld' = AbsHeld \cup {j} /\ AbsSent' = AbsSent /\ AbsLive' = AbsLive
            \/ /\ AbsHeld' = AbsHeld \ {j} /\ AbsSent' = AbsSent /\ AbsLive' = AbsLive
               /\ j \notin AbsSent \cup AbsLive
            \/ /\ AbsHeld' = AbsHeld /\ AbsSent' = AbsSent \cup {j} /\ AbsLive' = AbsLive
               /\ j \in AbsHeld \ AbsLive
            \/ /\ AbsHeld' = AbsHeld /\ AbsSent' = AbsSent \ {j}
               /\ AbsLive' = AbsLive \cup {j} /\ j \in AbsSent
            \/ /\ AbsHeld' = AbsHeld \ {j} /\ AbsSent' = AbsSent \ {j}
               /\ AbsLive' = AbsLive /\ j \in AbsSent
            \/ AbsHeld' = AbsHeld /\ AbsSent' = AbsSent /\ AbsLive' = AbsLive \ {j}
      BY <2>2 DEF PaidOp!Next, PaidOp!Hold, PaidOp!Release, PaidOp!Submit, PaidOp!Accept,
                  PaidOp!Refuse, PaidOp!Finish, AbsHeld, AbsSent, AbsLive, Held
    <3>. QED BY <1>1, <3>1
  <2>. QED BY <2>1, <2>2
<1>. QED BY <1>2 DEF PaidOp!Promise, AbsHeld, AbsSent, AbsLive, Held

\* What the refinement is for: no job ever has a request open beside a running
\* task, and whatever may cost has its claim in the budget ledger.
THEOREM JobKeepsThePromise == Spec => []PaidOp!Promise
<1>1. PaidOp!Init => PaidOp!Promise
  BY DEF PaidOp!Init, PaidOp!Promise
<1>2. PaidOp!Promise /\ [PaidOp!Next]_(PaidOp!vars) => PaidOp!Promise'
  BY PromiseStays
<1>. QED BY <1>1, <1>2, JobImplementsPaidOperation, PTL
         DEF ImplementsPaidOperation, PaidOp!Spec

=============================================================================
