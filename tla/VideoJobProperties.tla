------------------------ MODULE VideoJobProperties ------------------------
(***************************************************************************)
(* What the video job must never do, what it must eventually do, the       *)
(* abstract specification it implements, and what the repository's         *)
(* documentation says of it that the code does not do.                     *)
(***************************************************************************)
EXTENDS VideoJob

(* Safety.                                                                   *)

Live(j) == {t \in Tasks : tasks[j][t] = "running"}

Logged(j) == {t \in Tasks : calls[j][t] = "OK"}

\* The workers that hold the submit slot of j or wait for the provider's reply.
Submitting(j) == {w \in Workers : At(w, "slot", j) \/ At(w, "sending", j)}

\* A request of j is under way: sent, and neither accepted nor refused yet.
Requested(j) ==
    \/ j \in late
    \/ \E w \in Workers : At(w, "sending", j) /\ worker[w].task = NoTask

\* However workers, leases, crashes and late answers interleave, a job never
\* has two paid tasks running at the provider at once: "video tasks with a
\* provider task id only resume polling" (docs/HARNESS_RUNBOOK.md).
OneLiveTask == \A j \in Jobs : \A t, u \in Live(j) : t = u

\* A paid task or an unanswered request always leaves a durable trace on the
\* jobs row that _assert_provider_create_resolved stops at, whoever died.
NoPaidTaskForgotten ==
    \A j \in Jobs : Live(j) # {} \/ Requested(j) => MayHaveAccepted(job[j])

\* provider_video_budget_claims: the amount of a task that runs, or that a
\* request may yet start, is never back in the budget.
ClaimCoversTask ==
    \A j \in Jobs : Live(j) # {} \/ Requested(j)
                      => claim[j] \in {"reserved", "accepted", "settled"}

\* create_video_task is called only when no earlier request of the operation
\* can still be accepted and every earlier task was logged and declared dead.
NoBlindRecreate ==
    [][\A w \in Workers, j \in Jobs :
         At(w, "slot", j) /\ At(w, "sending", j)'
           => /\ Live(j) = {} /\ ~Requested(j)
              /\ \A t \in Tasks : tasks[j][t] # "none"
                                    => calls[j][t] = "TASK_FAILED"]_vars

\* request_cancel, "a late result only enters the isolated audit": while the
\* stop stands, no worker that was under way adopts the result.
StoppedResultQuarantined ==
    [][\A j \in Jobs : stopped[j] = "stopped" /\ stopped'[j] = "stopped"
                         => adopted'[j] = adopted[j]]_vars

\* A cancelled or abandoned row is never revived: not by the worker that held
\* it, the sweeper, the restart, or pause and resume of the episode.
CancelledStaysCancelled ==
    [][\A j \in Jobs : job[j].cancelRequested
         => /\ job'[j].cancelRequested
            /\ job'[j].status = job[j].status]_vars

\* A worker that has lost its lease never changes the jobs row of the next
\* owner ("can no longer finish, requeue or rewrite", docs/HARNESS_RUNBOOK.md).
StaleWorkerLeavesJob ==
    [][\A w \in Workers, j \in Jobs :
         /\ WorkerStep(w, j) \/ Interrupt(w, j)
         /\ job[j].leaseOwner # w
         => job'[j] = job[j]]_vars

\* Two submissions that both passed can_admit_video_submit never take the
\* episode over its cap: only a job that comes back with a create it may already
\* have paid for does.
SubmitWithinCap ==
    [][Cardinality(Inflight') > InflightCap
         => \A j \in Inflight' \ Inflight : job[j].nonCancellable]_vars

-----------------------------------------------------------------------------
(* The inductive invariant behind the safety properties.                     *)

\* A task whose reply was lost with the worker that waited for it.
Unlogged(j) == {t \in Tasks : tasks[j][t] # "none" /\ calls[j][t] = "none"}

\* The traces a task leaves until it is declared dead.
Bound(j) ==
    Live(j) \cup Logged(j) \cup Unlogged(j) \cup ({version[j].task} \ {NoTask})

\* A single submission of a job is under way, and then nothing else is known.
OneSubmission(j) ==
    \A w \in Submitting(j) :
      /\ \A x \in Submitting(j) : x = w
      /\ job[j].nonCancellable /\ j \notin late
      /\ version[j].task = NoTask /\ Logged(j) = {}
      /\ Bound(j) \subseteq {worker[w].task}

\* A request nobody waits for: the same, without the worker.
LateAlone(j) ==
    j \in late => job[j].nonCancellable /\ Bound(j) = {}

\* All traces of a task are traces of the same task.
OneBound(j) ==
    /\ \A t, u \in Bound(j) : t = u
    /\ Bound(j) # {} => job[j].nonCancellable

Engaged(j) ==
    {w \in Workers : worker[w].pc \in {"accept", "poll", "fetch"} /\ worker[w].job = j}

\* The lease owner past the submission works on the one task there can be.
OwnerHasTheTask(j) ==
    \A w \in Engaged(j) :
      Owns(w, j) => /\ Bound(j) \subseteq {worker[w].task}
                    /\ j \notin late /\ Submitting(j) = {}

\* A worker has no task before the reply, and later one that was logged; it
\* downloads only what the provider has finished.
KnowsItsTask(j) ==
    /\ \A w \in Workers : worker[w].job = j
         => (worker[w].pc \in {"prepare", "submit", "slot"} => worker[w].task = NoTask)
    /\ \A w \in Engaged(j) :
         /\ worker[w].task \in Tasks /\ calls[j][worker[w].task] # "none"
         /\ worker[w].pc = "fetch" => tasks[j][worker[w].task] = "succeeded"
    /\ version[j].task # NoTask => calls[j][version[j].task] # "none"

\* The claim is there as soon as a worker holds the submit slot.
ClaimHeld(j) ==
    Live(j) # {} \/ Submitting(j) # {} \/ j \in late
      => claim[j] \in {"reserved", "accepted", "settled"}

JobInv(j) ==
    /\ OneSubmission(j)
    /\ LateAlone(j)
    /\ OneBound(j)
    /\ OwnerHasTheTask(j)
    /\ KnowsItsTask(j)
    /\ ClaimHeld(j)

SafetyInv == \A j \in Jobs : JobInv(j)

-----------------------------------------------------------------------------
(* Refinement: the whole machinery implements PaidOperation.                 *)

PaidOp == INSTANCE PaidOperation WITH
    Ops  <- Jobs,
    held <- {j \in Jobs : claim[j] \notin {"none", "released"}},
    sent <- {j \in Jobs : Requested(j)},
    live <- {j \in Jobs : Live(j) # {}}

\* Whatever crashes, expires, is stopped, paused, retried or answered late, the
\* budget claim, the requests and the provider's tasks behave as PaidOperation.
ImplementsPaidOperation == PaidOp!Spec

-----------------------------------------------------------------------------
(* Liveness.                                                                 *)

\* A paid task that is owed a poll is polled until it is settled, or a human,
\* a pause or a fence takes the job: no crash, lost lease, stop or provider
\* error strands it (the sweeper, the restart and the retry timers).
PollOwedResolved ==
    \A j \in Jobs :
      job[j].pollRequired /\ job[j].status \in ActiveStatus
        ~> ~job[j].pollRequired \/ job[j].status \notin ActiveStatus

-----------------------------------------------------------------------------
(* What the documentation says and the code does not do.                     *)

\* "Polling of the original task goes on, a late result only enters the
\* audit": a stopped job makes no new paid create.
NoCreateAfterStop ==
    [][\A w \in Workers, j \in Jobs :
         At(w, "submit", j) /\ At(w, "slot", j)' => stopped[j] # "stopped"]_vars
=============================================================================
