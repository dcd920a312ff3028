--------------------------- MODULE VideoSupervisor --------------------------
(***************************************************************************)
(* The video supervisor of one episode (app/video_supervisor and its       *)
(* endpoints): who owns the completion, the checkpoint it works from, the  *)
(* closeout that stops its paid jobs, and what a cancellation, a crash and *)
(* the watchdog do to it.                                                  *)
(*                                                                         *)
(* Handlers and supervisor tasks share one event loop; a step below lies   *)
(* between two awaits.  A closeout and an enqueue run in a thread: its     *)
(* transactions are steps of their own, and a cancellation waits for it.   *)
(***************************************************************************)
EXTENDS Naturals

CONSTANTS Shots,     \* the shots of the episode
          NoShot,
          MaxRuns,   \* bound: rows of workflow_runs
          MaxStarts, \* bound: the runs the user may start or resume
          MaxFaults  \* bound: crashes, exceptions and jobs that do not stop

ASSUME SupervisorAssumption ==
    /\ NoShot \notin Shots
    /\ MaxRuns \in Nat
    /\ MaxStarts \in Nat
    /\ MaxFaults \in Nat

VARIABLES
    owner,   \* episodes.active_video_run_id
    mode,    \* episodes.video_completion_mode is 'complete'
    control, \* the pause or handoff the next tick will find
    cp,      \* the latest checkpoint of the episode
    status,  \* workflow_runs.status
    origin,  \* the run whose work a run continues; itself for a fresh one
    pc,      \* where the task of a run stands, "none" without one
    local,   \* the checkpoint in the memory of the task
    watch,   \* the run under which the watchdog closes; it blocks the loop
    cancel,  \* the run whose task a cancellation waits for
    ending,  \* that task has ended, the handler has still to go on
    jobs,    \* the run whose video job is active for a shot
    adopted, \* the shots with an adopted version
    due,     \* the deadline of the work has passed
    left,    \* history: shots whose job the last stop passed over
    faults

ownerVars   == <<owner, mode>>
rowVars     == <<ownerVars, control>>
jobVars     == <<jobs, adopted, left>>
vars == <<rowVars, cp, status, origin, pc, local, watch, cancel, ending, jobVars, due,
          faults>>

Runs  == 1..MaxRuns
NoRun == 0

\* "active" stands for the phases of the tick loop, "human" for WAITING_HUMAN
\* and WAITING_AUTHORIZATION, "closed" for both outcomes of a closeout and
\* "failed" for FAILED_CLOSED.
Unfinished == {"active", "recovering", "closing"}
Terminal   == {"covered", "closed", "failed", "cancelled"}
Phases     == Unfinished \cup Terminal \cup {"none", "paused", "human"}

\* "WAITING" stands for the waiting statuses and PAUSED_EXTERNAL, "ENDED" for
\* SUCCEEDED, PARTIAL and FAILED.
ActiveStatus == {"CREATED", "RUNNING", "WAITING"}
RunStatus    == ActiveStatus \cup {"none", "ENDED", "CANCELLED"}

InThread == {"enqueue", "stop", "conclude", "release"}
PC == InThread \cup {"none", "spawned", "load", "plan", "tick", "work", "fence", "final", "end"}

\* last: the closeout that follows has no second chance; shot: under dispatch
NoLocal == [phase |-> "none", fenced |-> FALSE, last |-> FALSE, shot |-> NoShot]

Init ==
    /\ owner = NoRun
    /\ mode = FALSE
    /\ control = "none"
    /\ cp = [run |-> NoRun, phase |-> "none", fenced |-> FALSE]
    /\ status = [r \in Runs |-> "none"]
    /\ origin = [r \in Runs |-> r]
    /\ pc = [r \in Runs |-> "none"]
    /\ local = NoLocal
    /\ watch = NoRun
    /\ cancel = NoRun
    /\ ending = FALSE
    /\ jobs = [s \in Shots |-> NoRun]
    /\ adopted = {}
    /\ due = FALSE
    /\ left = {}
    /\ faults = 0

-----------------------------------------------------------------------------

Live(r) == pc[r] # "none"

\* Mutation: only the owner's task is looked for.
ActiveOwner == owner # NoRun /\ Live(owner)

\* task_registry.active
Active == \E r \in Runs : Live(r)

\* the next id
Unused(r) == status[r] = "none" /\ \A q \in Runs : status[q] = "none" => r <= q

Goes(r, at) == pc' = [pc EXCEPT ![r] = at]

\* save_checkpoint, and the copy in memory
Save(r, phase, fenced) ==
    /\ cp' = [run |-> r, phase |-> phase, fenced |-> fenced]
    /\ local' = [local EXCEPT !.phase = phase, !.fenced = fenced]

\* the task is not being cancelled, or is in a thread that is waited for
Steps(r, at) == pc[r] = at /\ (cancel = r => at \in InThread)

Faulty == faults < MaxFaults /\ faults' = faults + 1

OwnerStatus == IF owner = NoRun THEN "none" ELSE status[owner]

Install(r) ==
    /\ owner' = r
    /\ mode' = TRUE
    /\ Goes(r, "spawned")
    /\ due' = FALSE
    /\ UNCHANGED <<control, cp, local, watch, cancel, ending, jobVars, faults>>

-----------------------------------------------------------------------------
(* Starting.                                                               *)

\* A fresh start; the same request again finds the run it has created.
Start(r) ==
    /\ watch = NoRun
    /\ ~Active
    /\ \/ Unused(r) /\ r <= MaxStarts /\ OwnerStatus \notin ActiveStatus
       \/ owner = r /\ status[r] = "CREATED" /\ origin[r] = r
    /\ status' = [status EXCEPT ![r] = "CREATED"]
    /\ origin' = [origin EXCEPT ![r] = r]
    /\ Install(r)

\* A resume with the grant of the work: over a waiting owner when its own
\* checkpoint is the latest, or when nobody owns the episode.  The grant of a
\* closed, covered or cancelled completion is consumed or revoked.
Resume(r) ==
    /\ watch = NoRun
    /\ ~Active
    /\ Unused(r) /\ r <= MaxStarts
    /\ cp.phase \notin {"none", "covered", "closed", "cancelled"}
    /\ OwnerStatus \in ActiveStatus => OwnerStatus = "WAITING" /\ cp.run = owner
    /\ status' = [status EXCEPT ![r] = "CREATED"]
    /\ origin' = [origin EXCEPT ![r] = origin[cp.run]]
    /\ Install(r)

-----------------------------------------------------------------------------
(* The task: _recorded_video_completion_task and the tick loop.            *)

\* a checkpoint that has ended is returned at once
Loaded(r) ==
    /\ local' = [NoLocal EXCEPT !.phase = cp.phase, !.fenced = cp.fenced]
    /\ Goes(r, IF cp.phase \in Terminal THEN "end" ELSE "plan")

Begin(r) ==
    /\ Steps(r, "spawned")
    /\ status' = [status EXCEPT ![r] = "RUNNING"]
    /\ IF origin[r] = r
       THEN /\ local' = [NoLocal EXCEPT !.phase = "active"]
            /\ Goes(r, "plan")
       ELSE Loaded(r)
    /\ UNCHANGED <<rowVars, cp, origin, watch, cancel, ending, jobVars, due, faults>>

Load(r) ==
    /\ Steps(r, "load")
    /\ Loaded(r)
    /\ UNCHANGED <<rowVars, cp, status, origin, watch, cancel, ending, jobVars, due, faults>>

taskFrame == <<status, origin, watch, cancel, ending, due>>

\* the video plan is there; the first checkpoint of the run
Planned(r) ==
    /\ Steps(r, "plan")
    /\ Save(r, local.phase, local.fenced)
    /\ Goes(r, "tick")
    /\ left' = {}
    /\ UNCHANGED <<taskFrame, rowVars, jobs, adopted, faults>>

\* _resolve_grant_failure: the plan is broken, the grant revoked or missing
GrantFails(r) ==
    /\ \/ Steps(r, "plan") /\ \E phase \in {"failed", "cancelled", "human"} : Save(r, phase, local.fenced)
       \/ Steps(r, "tick") /\ \E phase \in {"cancelled", "human"} : Save(r, phase, local.fenced)
       \/ Steps(r, "work") /\ \E phase \in {"cancelled", "human"} : Save(r, phase, local.fenced)
    /\ Goes(r, "end")
    /\ UNCHANGED <<taskFrame, rowVars, jobVars, faults>>

TimeUp(r) ==
    /\ due
    /\ Steps(r, "plan") \/ Steps(r, "tick")
    /\ Goes(r, "fence")
    /\ UNCHANGED <<taskFrame, rowVars, cp, local, jobVars, faults>>

Obey(r) ==
    /\ Steps(r, "tick")
    /\ ~due
    /\ control # "none"
    /\ control' = "none"
    /\ Save(r, IF control = "pause" THEN "paused" ELSE "human", local.fenced)
    /\ Goes(r, "end")
    /\ UNCHANGED <<taskFrame, ownerVars, jobVars, faults>>

Tick(r) ==
    /\ Steps(r, "tick")
    /\ ~due
    /\ control = "none"
    /\ Save(r, "active", local.fenced)
    /\ Goes(r, "work")
    /\ UNCHANGED <<taskFrame, rowVars, jobVars, faults>>

\* After a tick: everything is covered, the repairs or the time are used up,
\* or the shots have been seen to and the task sleeps until the next tick.
Decides(r) ==
    /\ Steps(r, "work")
    /\ \E at \in {"final", "fence", "tick"} : Goes(r, at)
    /\ UNCHANGED <<taskFrame, rowVars, cp, local, jobVars, faults>>

\* the repair plan needs a person
HandsOver(r) ==
    /\ Steps(r, "work")
    /\ \E phase \in {"human", "paused"} : Save(r, phase, local.fenced)
    /\ Goes(r, "end")
    /\ UNCHANGED <<taskFrame, rowVars, jobVars, faults>>

MayDispatch(r) ==
    /\ owner = r /\ mode
    /\ ~cp.fenced
    /\ cp.phase \notin Terminal

\* _dispatch reads the shot, the episode and the latest checkpoint, compiles
\* the shot and enqueues it in a transaction of its own, which looks for
\* another active job but not at the adoption again.
Check(r, s) ==
    /\ Steps(r, "work")
    /\ s \notin adopted
    /\ MayDispatch(r)
    /\ local' = [local EXCEPT !.shot = s]
    /\ Goes(r, "enqueue")
    /\ UNCHANGED <<taskFrame, rowVars, cp, jobVars, faults>>

Enqueue(r) ==
    /\ Steps(r, "enqueue")
    /\ \/ UNCHANGED jobs
       \/ jobs[local.shot] = NoRun /\ jobs' = [jobs EXCEPT ![local.shot] = r]
    /\ local' = [local EXCEPT !.shot = NoShot]
    /\ Goes(r, "work")
    /\ UNCHANGED <<taskFrame, rowVars, cp, adopted, left, faults>>

-----------------------------------------------------------------------------
(* Closing: _deadline_closeout, _finalize_covered, _mark_failed_closed.    *)

Fence(r) ==
    /\ Steps(r, "fence")
    /\ Save(r, "closing", TRUE)
    /\ Goes(r, "stop")
    /\ left' = {}
    /\ UNCHANGED <<taskFrame, rowVars, jobs, adopted, faults>>

Busy == {s \in Shots : jobs[s] # NoRun}

\* the jobs of some shots run on, the others are cancelled, or cut off from
\* their shot where the provider has accepted a task
PassOver(rest) ==
    /\ jobs' = [s \in Shots |-> IF s \in rest THEN jobs[s] ELSE NoRun]
    /\ left' = rest

\* Mutation: only the run's own jobs are stopped.
StopOwn ==
    /\ jobs' = [s \in Shots |-> IF jobs[s] = owner THEN NoRun ELSE jobs[s]]
    /\ left' = Busy \cap adopted
    /\ UNCHANGED faults

\* _stop_supervised_video_jobs: every active job of a shot without an adopted
\* version, whoever dispatched it; a job that does not let itself be cancelled
\* is passed over
Stopped ==
    \/ PassOver(Busy \cap adopted) /\ UNCHANGED faults
    \/ /\ Faulty
       /\ \E stubborn \in SUBSET (Busy \ adopted) \ {{}} :
             PassOver((Busy \cap adopted) \cup stubborn)

Stop(r) ==
    /\ Steps(r, "stop")
    /\ Stopped
    /\ Goes(r, "conclude")
    /\ UNCHANGED <<taskFrame, rowVars, cp, local, adopted>>

\* the best candidates are adopted, where there is one, the outcome is saved
Conclude(r) ==
    /\ Steps(r, "conclude")
    /\ \E found \in SUBSET (Shots \ adopted) : adopted' = adopted \cup found
    /\ Save(r, "closed", TRUE)
    /\ Goes(r, "release")
    /\ UNCHANGED <<taskFrame, rowVars, jobs, left, faults>>

Finalize(r) ==
    /\ Steps(r, "final")
    /\ Save(r, "covered", local.fenced)
    /\ Goes(r, "release")
    /\ UNCHANGED <<taskFrame, rowVars, jobVars, faults>>

\* _release_episode_supervisor: only what is still this run's, or nobody's
Release(r) ==
    /\ Steps(r, "release")
    /\ IF owner \in {r, NoRun}
       THEN owner' = NoRun /\ mode' = FALSE
       ELSE UNCHANGED ownerVars
    /\ Goes(r, "end")
    /\ UNCHANGED <<taskFrame, control, cp, local, jobVars, faults>>

\* the task returns its checkpoint, and the run is recorded
End(r) ==
    /\ Steps(r, "end")
    /\ status' = [status EXCEPT ![r] = IF local.phase = "cancelled" THEN "CANCELLED" ELSE "ENDED"]
    /\ Goes(r, "none")
    /\ local' = NoLocal
    /\ watch' = IF watch = r THEN NoRun ELSE watch
    /\ UNCHANGED <<rowVars, cp, origin, cancel, ending, jobVars, due, faults>>

\* An exception of the supervisor: it goes on from its own latest checkpoint,
\* never from one of another run, or closes for good.
Fails(r) ==
    /\ \E at \in {"plan", "tick", "work", "fence", "stop", "conclude", "final"} : Steps(r, at)
    /\ ~local.last
    /\ Faulty
    /\ LET fenced == cp.run = r /\ cp.fenced
       IN  cp' = [run |-> r, phase |-> "recovering", fenced |-> fenced]
    /\ \/ Goes(r, "load") /\ UNCHANGED local
       \/ /\ Goes(r, "fence")
          /\ local' = [local EXCEPT !.last = TRUE]
    /\ UNCHANGED <<taskFrame, rowVars, jobVars>>

\* the closeout that had to succeed fails as well
FailsClosed(r) ==
    /\ \E at \in {"fence", "stop", "conclude"} : Steps(r, at)
    /\ local.last
    /\ Faulty
    /\ \E stubborn \in SUBSET (Busy \ adopted) : PassOver((Busy \cap adopted) \cup stubborn)
    /\ Save(r, "failed", TRUE)
    /\ Goes(r, "release")
    /\ UNCHANGED <<taskFrame, rowVars, adopted>>

-----------------------------------------------------------------------------
(* Handlers.                                                               *)

\* cancel_run and reset: the checkpoint is cancelled (reset leaves a covered
\* one) and the episode is nobody's, whoever owns it by now.  cancel_run clears
\* the column of the control: what was asked for since the process started
\* stays in its memory.
Cancelled ==
    /\ \/ /\ cp' = [cp EXCEPT !.phase = IF @ = "none" THEN @ ELSE "cancelled"]
          /\ control' \in {"none", control}
       \/ /\ cp' = [cp EXCEPT !.phase = IF @ \in {"none", "covered"} THEN @ ELSE "cancelled"]
          /\ control' = "none"
    /\ owner' = NoRun
    /\ mode' = FALSE

\* Mutation: the handler does not wait for the task.
CancelAtOnce(r) ==
    /\ watch = NoRun /\ cancel = NoRun /\ ~ending
    /\ status[r] \in ActiveStatus
    /\ Cancelled
    /\ status' = [status EXCEPT ![r] = "CANCELLED"]
    /\ UNCHANGED <<origin, pc, local, watch, cancel, ending, jobVars, due, faults>>

\* The task of the episode is cancelled and waited for, whichever run the user
\* named; without one, or for a run that has ended, it is done at once.
Cancel(r) ==
    /\ watch = NoRun /\ cancel = NoRun /\ ~ending
    /\ status[r] # "none"
    /\ \/ /\ status[r] \in ActiveStatus
          /\ \E q \in Runs : Live(q) /\ cancel' = q
          /\ UNCHANGED <<rowVars, cp, status>>
       \/ /\ status[r] \in ActiveStatus => ~Active
          /\ Cancelled
          /\ status' = [status EXCEPT ![r] = IF @ \in ActiveStatus THEN "CANCELLED" ELSE @]
          /\ UNCHANGED cancel
    /\ UNCHANGED <<origin, pc, local, watch, ending, jobVars, due, faults>>

\* CancelledError at an await; a task that has not begun leaves its run alone
TaskStops(r) ==
    /\ cancel = r
    /\ Live(r) /\ pc[r] \notin InThread
    /\ status' = [status EXCEPT ![r] = IF pc[r] = "spawned" THEN @ ELSE "CANCELLED"]
    /\ Goes(r, "none")
    /\ local' = NoLocal
    /\ cancel' = NoRun
    /\ ending' = TRUE
    /\ UNCHANGED <<rowVars, cp, origin, watch, jobVars, due, faults>>

\* the handler goes on; another one may have run since the task ended
CancelEnds ==
    /\ watch = NoRun
    /\ ending
    /\ Cancelled
    /\ ending' = FALSE
    /\ UNCHANGED <<status, origin, pc, local, watch, cancel, jobVars, due, faults>>

Pause(r) ==
    /\ watch = NoRun
    /\ status[r] \in ActiveStatus
    /\ control' = "pause"
    /\ UNCHANGED <<ownerVars, cp, status, origin, pc, local, watch, cancel, ending, jobVars, due, faults>>

\* without a task the checkpoint is written here, and the request stays
Handoff(r) ==
    /\ watch = NoRun
    /\ status[r] # "none"
    /\ control' = "handoff"
    /\ IF (status[r] = "WAITING" \/ ~Active) /\ cp.phase # "none"
       THEN cp' = [cp EXCEPT !.phase = "human"]
       ELSE UNCHANGED cp
    /\ UNCHANGED <<ownerVars, status, origin, pc, local, watch, cancel, ending, jobVars, due, faults>>

\* the screenplay is published anew, or the storyboard cleared
Detach ==
    /\ owner # NoRun
    /\ owner' = NoRun
    /\ control' \in {"none", control}
    /\ UNCHANGED <<mode, cp, status, origin, pc, local, watch, cancel, ending, jobVars, due, faults>>

-----------------------------------------------------------------------------
(* Crashes, the watchdog, and the rest of the world.                       *)

Interrupted == [r \in Runs |-> IF status[r] = "RUNNING" THEN "WAITING" ELSE status[r]]

\* The process dies and starts again.  init_db pauses the running rows;
\* recover_video_completion_runs then resumes an unfinished or paused
\* completion under a new run, leaves it to a person, or fails.
Crash ==
    /\ Faulty
    /\ control' \in {"none", control}
    /\ watch' = NoRun
    /\ cancel' = NoRun
    /\ ending' = FALSE
    /\ local' = NoLocal
    /\ \/ /\ status' = Interrupted
          /\ pc' = [r \in Runs |-> "none"]
          /\ cp' \in {cp} \cup (IF mode /\ cp.phase \in Unfinished \cup {"paused"}
                                THEN {[cp EXCEPT !.phase = "human"]} ELSE {})
          /\ UNCHANGED <<owner, origin>>
       \/ /\ mode
          /\ cp.phase \in Unfinished \cup {"paused"}
          /\ \E r \in Runs :
                /\ Unused(r)
                /\ status' = [Interrupted EXCEPT ![r] = "CREATED"]
                /\ origin' = [origin EXCEPT ![r] = origin[cp.run]]
                /\ owner' = r
                /\ pc' = [q \in Runs |-> IF q = r THEN "spawned" ELSE "none"]
          /\ UNCHANGED cp
    /\ UNCHANGED <<mode, jobVars, due>>

\* Mutation: only a completion still in its tick loop is looked at.
StaleActive == watch = NoRun /\ ~Active /\ mode /\ owner # NoRun /\ cp.phase = "active"

\* an owner without a task, whose heartbeat is over
Stale == watch = NoRun /\ ~Active /\ mode /\ owner # NoRun /\ cp.phase \in Unfinished

\* reconcile_stale_video_supervisors: it closes under a run of its own, or
\* leaves a completion without authority to a person.
Watchdog(r) ==
    /\ Stale
    /\ \/ /\ Unused(r)
          /\ owner' = r
          /\ status' = [status EXCEPT ![r] = "RUNNING"]
          /\ origin' = [origin EXCEPT ![r] = origin[cp.run]]
          /\ local' = [NoLocal EXCEPT !.phase = "recovering", !.fenced = cp.fenced, !.last = TRUE]
          /\ watch' = r
          /\ Goes(r, "fence")
          /\ UNCHANGED cp
       \/ /\ cp' = [cp EXCEPT !.phase = "human"]
          /\ UNCHANGED <<owner, status, origin, local, watch, pc>>
    /\ UNCHANGED <<mode, control, cancel, ending, jobVars, due, faults>>

worldFrame == <<rowVars, cp, status, origin, pc, local, watch, cancel, ending>>

\* a job ends, is paused or cancelled by the user, or its worker finds the run
\* superseded
JobEnds(s) ==
    /\ jobs[s] # NoRun
    /\ jobs' = [jobs EXCEPT ![s] = NoRun]
    /\ UNCHANGED <<worldFrame, adopted, due, left, faults>>

\* The user adopts a candidate of the shot, or a tick or a worker the first one
\* that is ready; a job that makes another candidate goes on.
Adopt(s) ==
    /\ s \notin adopted
    /\ adopted' = adopted \cup {s}
    /\ UNCHANGED <<worldFrame, jobs, due, left, faults>>

\* the adoption is cancelled, or the version lost
Unadopt(s) ==
    /\ s \in adopted
    /\ adopted' = adopted \ {s}
    /\ UNCHANGED <<worldFrame, jobs, due, left, faults>>

\* the deadline passes; it is extended a few times at most
Clock ==
    /\ ~due
    /\ due' = TRUE
    /\ UNCHANGED <<worldFrame, jobVars, faults>>

-----------------------------------------------------------------------------

Ticking(r) ==
    \/ Begin(r) \/ Load(r) \/ Planned(r) \/ GrantFails(r) \/ TimeUp(r) \/ Obey(r) \/ Tick(r)
    \/ Decides(r) \/ HandsOver(r) \/ (\E s \in Shots : Check(r, s)) \/ Enqueue(r)

Closing(r) ==
    \/ Fence(r) \/ Stop(r) \/ Conclude(r) \/ Finalize(r) \/ Release(r) \/ End(r)

\* While the watchdog closes, it alone runs on the loop.
TaskStep(r) == Closing(r) \/ Ticking(r)

Next ==
    \/ \E r \in Runs :
          \/ Start(r) \/ Resume(r)
          \/ TaskStep(r) \/ Fails(r) \/ FailsClosed(r)
          \/ Cancel(r) \/ TaskStops(r) \/ Pause(r) \/ Handoff(r)
          \/ Watchdog(r)
    \/ \E s \in Shots : JobEnds(s) \/ Adopt(s) \/ Unadopt(s)
    \/ CancelEnds \/ Detach \/ Crash \/ Clock

\* The event loop runs what is ready, a thread ends, a tick dispatches for
\* finitely many shots, the deadline comes, and the watchdog looks at every
\* episode twice a minute.
Fairness ==
    /\ WF_vars(\E r \in Runs : TaskStep(r))
    /\ SF_vars(\E r \in Runs : Decides(r))
    /\ WF_vars(\E r \in Runs : Watchdog(r))
    /\ WF_vars(\E r \in Runs : TaskStops(r))
    /\ WF_vars(CancelEnds)
    /\ WF_vars(Clock)

Spec == Init /\ [][Next]_vars /\ Fairness

=============================================================================
