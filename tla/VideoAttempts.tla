---------------------------- MODULE VideoAttempts ----------------------------
(***************************************************************************)
(* The video attempts (rows of jobs with kind='video') of one account: the *)
(* slot an attempt holds on its shot, the seconds it is charged when it is *)
(* born, and the passes that refund an attempt that ended without a usable *)
(* video.  What a worker does inside an attempt is the business of         *)
(* VideoJob; here it is persisted, delivers, is settled or fails.  Pass    *)
(* and handlers run in the event loop, in the request threads and in two   *)
(* processes: a pass is interrupted between its SELECT and its refunds.    *)
(***************************************************************************)
EXTENDS Integers, FiniteSets

CONSTANTS Jobs,
          Shot,        \* Shot[j]: the shot attempt j is for
          Seconds,     \* SECONDS_PER_SHOT, what an attempt costs
          Limit,       \* video_seconds of the tier, per period
          Pack,        \* seconds of an add-on pack
          Cap,         \* concurrency of the tier
          Passes,      \* refund passes that may run at once
          MaxPeriod,   \* bound: periods
          MaxPacks     \* bound: packs granted

ASSUME AttemptsAssumption ==
    /\ IsFiniteSet(Jobs)
    /\ {Seconds, Limit, Pack, Cap, MaxPacks} \subseteq Nat
    /\ MaxPeriod \in Nat \ {0}

VARIABLES
    status,     \* jobs.status, "active" for the four of ACTIVE_JOB_STATUSES
    slot,       \* attempts with video_slot_active=1
    adoptable,  \* attempts with provider_result_adoptable=1
    version,    \* status of the attempt's version, "none" before it has one
    period,     \* index of the running 30 day period
    packs,      \* grant rows of the add-on
    charge,     \* the charge rows of the attempt, by resource
    refund,     \* the period its refund rows are booked in, 0 without them
    reading,    \* passes between their SELECT and their refunds
    found,      \* what the SELECT of a pass found
    reopened    \* history: attempts that got their slot back, or whose video
                \* became usable, after they had given the slot up

ledgerVars == <<period, packs, charge, refund>>
passVars   == <<reading, found>>
vars       == <<status, slot, adoptable, version, ledgerVars, passVars, reopened>>

Status  == {"none", "active", "paused", "human", "over"}
Version == {"none", "pending", "succeeded", "review", "quarantined", "stale"}
Charge  == [period : 0..MaxPeriod, sub : 0..Seconds, addon : 0..Seconds]
Uncharged == [period |-> 0, sub |-> 0, addon |-> 0]

Init ==
    /\ status = [j \in Jobs |-> "none"]
    /\ slot = {}
    /\ adoptable = Jobs
    /\ version = [j \in Jobs |-> "none"]
    /\ period = 1
    /\ packs = 0
    /\ charge = [j \in Jobs |-> Uncharged]
    /\ refund = [j \in Jobs |-> 0]
    /\ reading = {}
    /\ found = [r \in Passes |-> {}]
    /\ reopened = {}

Rivals(j) == {k \in Jobs \ {j} : Shot[k] = Shot[j]}

-----------------------------------------------------------------------------
(* The ledger.                                                             *)

\* the seconds that attempts were charged, one element each
SubUnits(attempts) == {u \in attempts \X (1..Seconds) : u[2] <= charge[u[1]].sub}
AddonUnits(attempts) == {u \in attempts \X (1..Seconds) : u[2] <= charge[u[1]].addon}

\* usage_for: the rows of the period, a refund's delta is negative
Used(p) ==
    Cardinality(SubUnits({j \in Jobs : charge[j].period = p}))
    - Cardinality(SubUnits({j \in Jobs : refund[j] = p}))

\* the charges of the add-on that were not refunded, in whatever period
AddonUsed == Cardinality(AddonUnits({j \in Jobs : refund[j] = 0}))

\* addon_video_seconds_balance
AddonLeft == IF AddonUsed > packs * Pack THEN 0 ELSE packs * Pack - AddonUsed

SubLeft == IF Used(period) > Limit THEN 0 ELSE Limit - Used(period)

Lesser(a, b) == IF a < b THEN a ELSE b

\* Mutation: the balance of the add-on is not compared.
ReserveUncovered(j) ==
    \E sub \in 0..Seconds :
        /\ sub = Lesser(Seconds, SubLeft)
        /\ charge' = [charge EXCEPT ![j] =
               [period |-> period, sub |-> sub, addon |-> Seconds - sub]]

\* reserve_video_seconds: the subscription first, the rest from the add-on
Reserve(j) ==
    \E sub \in 0..Seconds :
        /\ sub = Lesser(Seconds, SubLeft)
        /\ Seconds - sub <= AddonLeft
        /\ charge' = [charge EXCEPT ![j] =
               [period |-> period, sub |-> sub, addon |-> Seconds - sub]]

NextPeriod ==
    /\ period < MaxPeriod
    /\ period' = period + 1
    /\ UNCHANGED <<status, slot, adoptable, version, packs, charge, refund,
                   passVars, reopened>>

\* grant_video_addon_seconds
Grant ==
    /\ packs < MaxPacks
    /\ packs' = packs + 1
    /\ UNCHANGED <<status, slot, adoptable, version, period, charge, refund,
                   passVars, reopened>>

-----------------------------------------------------------------------------
(* An attempt is born, works and ends.                                     *)

\* count_active_video_jobs
Counted == {j \in Jobs : status[j] = "active"}

\* _begin_video_preflight_job: one transaction admits, charges and inserts
Begin(j) ==
    /\ status[j] = "none"
    /\ Rivals(j) \cap slot = {}
    /\ Cardinality(Counted) < Cap
    /\ Reserve(j)
    /\ status' = [status EXCEPT ![j] = "active"]
    /\ slot' = slot \cup {j}
    /\ UNCHANGED <<adoptable, version, period, packs, refund, passVars, reopened>>

\* the branch of _begin_video_preflight_job that takes over an attempt without
\* a version, at no charge
Reclaim(j) ==
    /\ j \in slot
    /\ version[j] = "none"
    /\ status' = [status EXCEPT ![j] = "active"]
    /\ UNCHANGED <<slot, adoptable, version, ledgerVars, passVars, reopened>>

\* persist_new_video_version
Persist(j) ==
    /\ status[j] = "active"
    /\ j \in slot
    /\ version[j] = "none"
    /\ version' = [version EXCEPT ![j] = "pending"]
    /\ UNCHANGED <<status, slot, adoptable, ledgerVars, passVars, reopened>>

\* _commit_video_result_checkpoint: a result nobody may adopt is quarantined
CommitResult(j) ==
    /\ status[j] = "active"
    /\ version[j] = "pending"
    /\ IF j \in slot \cap adoptable
       THEN /\ version' = [version EXCEPT ![j] = "succeeded"]
            /\ UNCHANGED <<status, slot>>
       ELSE /\ version' = [version EXCEPT ![j] = "quarantined"]
            /\ slot' = slot \ {j}
            /\ status' = [status EXCEPT ![j] = "over"]
    /\ UNCHANGED <<adoptable, ledgerVars, passVars, reopened>>

\* _set_job: the attempt ends and gives its slot back, as failed (over), for a
\* person to look at (human), or with its video
End(j, as) ==
    /\ status[j] = "active"
    /\ version[j] \in {"none", "pending"} \/ as = "over"
    /\ status' = [status EXCEPT ![j] = as]
    /\ slot' = slot \ {j}
    /\ UNCHANGED <<adoptable, version, ledgerVars, passVars, reopened>>

\* downgrade_to_waiting_human_if_stale: a delivered video is left to a person
Downgrade(j) ==
    /\ status[j] = "active"
    /\ version[j] = "succeeded"
    /\ status' = [status EXCEPT ![j] = "human"]
    /\ slot' = slot \ {j}
    /\ version' = [version EXCEPT ![j] = "review"]
    /\ UNCHANGED <<adoptable, ledgerVars, passVars, reopened>>

-----------------------------------------------------------------------------
(* What users and operators do to attempts.                                *)

\* request_cancel before the provider has the task
Cancel(j) ==
    /\ status[j] \in {"active", "human"}
    /\ version[j] \in {"none", "pending"}
    /\ status' = [status EXCEPT ![j] = "over"]
    /\ slot' = slot \ {j}
    /\ UNCHANGED <<adoptable, version, ledgerVars, passVars, reopened>>

\* the provider has the task: it is polled on, in isolation
Isolate(j) ==
    /\ status' = [status EXCEPT ![j] = "active"]
    /\ slot' = slot \ {j}
    /\ adoptable' = adoptable \ {j}
    /\ version' = [version EXCEPT ![j] = "pending"]
    /\ UNCHANGED <<ledgerVars, passVars, reopened>>

StopAccepted(j) ==
    /\ status[j] \in {"active", "human"}
    /\ version[j] \in {"pending", "succeeded", "review"}
    /\ Isolate(j)

\* pause_episode_video_tasks; the shots are those of one episode
Pause ==
    /\ \E j \in Jobs : status[j] \in {"active", "human"}
    /\ status' = [j \in Jobs |-> IF status[j] \in {"active", "human"} THEN "paused" ELSE status[j]]
    /\ version' = [j \in Jobs |-> IF version[j] = "review" /\ status[j] = "human"
                                  THEN "pending"
                                  ELSE version[j]]
    /\ UNCHANGED <<slot, adoptable, ledgerVars, passVars, reopened>>

Paused == {j \in Jobs : status[j] = "paused"}

\* every paused attempt takes its slot again: uq_jobs_active_video_shot
Fits(more) == \A j \in more : Rivals(j) \cap (slot \cup more) = {}

\* resume_episode_video_tasks: all of them or, on a conflict, none
Resume ==
    /\ Paused # {}
    /\ Fits(Paused)
    /\ status' = [j \in Jobs |-> IF j \in Paused THEN "active" ELSE status[j]]
    /\ slot' = slot \cup Paused
    /\ reopened' = reopened \cup (Paused \ slot)
    /\ UNCHANGED <<adoptable, version, ledgerVars, passVars>>

\* Mutation: the unique index is missing.
RetryUnindexed(j) ==
    /\ status[j] \in {"over", "paused", "human"}
    /\ version[j] = "pending"
    /\ j \in adoptable
    /\ status' = [status EXCEPT ![j] = "active"]
    /\ slot' = slot \cup {j}
    /\ reopened' = reopened \cup ({j} \ slot)
    /\ UNCHANGED <<adoptable, version, ledgerVars, passVars>>

\* retry_job: the same attempt goes on, or its task is submitted anew
Retry(j) ==
    /\ status[j] \in {"over", "paused", "human"}
    /\ version[j] = "pending"
    /\ j \in adoptable
    /\ Fits({j})
    /\ status' = [status EXCEPT ![j] = "active"]
    /\ slot' = slot \cup {j}
    /\ reopened' = reopened \cup ({j} \ slot)
    /\ UNCHANGED <<adoptable, version, ledgerVars, passVars>>

\* retry_job for a task whose result must stay in isolation
RetryIsolated(j) ==
    /\ status[j] \in {"over", "paused", "human"}
    /\ version[j] = "pending"
    /\ Isolate(j)

\* _settle_waiting_human: a person adopts the video that was left to them
Adopt(j) ==
    /\ version[j] = "review"
    /\ version' = [version EXCEPT ![j] = "succeeded"]
    /\ reopened' = reopened \cup {j}
    /\ UNCHANGED <<status, slot, adoptable, ledgerVars, passVars>>

\* save_identity_candidate: the shot is revised and no attempt is under way;
\* the adopted version may be retained
Revise(shot, retained) ==
    LET outdated == {j \in Jobs \ retained :
                        Shot[j] = shot /\ version[j] \in {"succeeded", "quarantined"}}
    IN  /\ \A j \in Jobs : Shot[j] = shot => status[j] \in {"none", "over"}
        /\ outdated # {}
        /\ version' = [j \in Jobs |-> IF j \in outdated THEN "stale" ELSE version[j]]
        /\ UNCHANGED <<status, slot, adoptable, ledgerVars, passVars, reopened>>

\* release_orphan_quarantined_versions
ReleaseQuarantined(j) ==
    /\ version[j] = "quarantined"
    /\ \A k \in Rivals(j) : version[k] # "succeeded" /\ (k \in slot => version[k] = "none")
    /\ version' = [version EXCEPT ![j] = "succeeded"]
    /\ reopened' = reopened \cup {j}
    /\ UNCHANGED <<status, slot, adoptable, ledgerVars, passVars>>

-----------------------------------------------------------------------------
(* reconcile_video_seconds_refunds.                                        *)

\* Mutation: only the version is looked at.
WithoutVideoAnySlot == {j \in Jobs : status[j] # "none" /\ version[j] # "succeeded"}

\* the attempt has given its slot back and its version is not usable
WithoutVideo ==
    {j \in Jobs \ slot : status[j] # "none" /\ version[j] # "succeeded"}

ReadEnded(r) ==
    /\ r \notin reading
    /\ reading' = reading \cup {r}
    /\ found' = [found EXCEPT ![r] = WithoutVideo]
    /\ UNCHANGED <<status, slot, adoptable, version, ledgerVars, reopened>>

\* Mutation: the refund is booked in the period it is made in.
RefundNow(r) ==
    /\ r \in reading
    /\ refund' = [j \in Jobs |-> IF j \in found[r] /\ refund[j] = 0 THEN period ELSE refund[j]]
    /\ reading' = reading \ {r}
    /\ found' = [found EXCEPT ![r] = {}]
    /\ UNCHANGED <<status, slot, adoptable, version, period, packs, charge, reopened>>

\* refund_video_seconds for each: once, in the period of the charge
Refund(r) ==
    /\ r \in reading
    /\ refund' = [j \in Jobs |-> IF j \in found[r] /\ refund[j] = 0
                                  THEN charge[j].period
                                  ELSE refund[j]]
    /\ reading' = reading \ {r}
    /\ found' = [found EXCEPT ![r] = {}]
    /\ UNCHANGED <<status, slot, adoptable, version, period, packs, charge, reopened>>

Next ==
    \/ NextPeriod
    \/ Grant
    \/ Pause
    \/ Resume
    \/ \E j \in Jobs :
          \/ Begin(j)
          \/ Reclaim(j)
          \/ Persist(j)
          \/ CommitResult(j)
          \/ \E as \in {"over", "human"} : End(j, as)
          \/ Downgrade(j)
          \/ Cancel(j)
          \/ StopAccepted(j)
          \/ Retry(j)
          \/ RetryIsolated(j)
          \/ \E retained \in {{}, {j}} : Revise(Shot[j], retained)
          \/ Adopt(j)
          \/ ReleaseQuarantined(j)
    \/ \E r \in Passes : ReadEnded(r) \/ Refund(r)

Spec == Init /\ [][Next]_vars
=============================================================================
