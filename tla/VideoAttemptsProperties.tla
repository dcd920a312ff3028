----------------------- MODULE VideoAttemptsProperties -----------------------
(* What must hold of the attempts of an account and of its seconds.        *)
EXTENDS VideoAttempts

\* The variables keep their types.
TypeOK ==
    /\ status \in [Jobs -> Status]
    /\ slot \subseteq Jobs
    /\ adoptable \subseteq Jobs
    /\ version \in [Jobs -> Version]
    /\ period \in 1..MaxPeriod
    /\ packs \in 0..MaxPacks
    /\ charge \in [Jobs -> Charge]
    /\ refund \in [Jobs -> 0..MaxPeriod]
    /\ reading \subseteq Passes
    /\ found \in [Passes -> SUBSET Jobs]
    /\ reopened \subseteq Jobs

\* A shot has one slot (uq_jobs_active_video_shot): whoever begins, resumes or
\* retries, two attempts of one shot never work for it at the same time.
OneSlotPerShot == \A j, k \in slot : Shot[j] = Shot[k] => j = k

\* The subscription of every period, a past one too, is spent within its limit
\* and never below zero: overlapping passes and late refunds included
\* (reserve_video_seconds, refund_video_seconds).
PeriodWithinLimit == \A p \in 1..MaxPeriod : Used(p) \in 0..Limit

\* The add-on never pays more seconds than were granted; the balance the code
\* computes is cut at zero and would hide it (addon_video_seconds_balance).
AddonCovered == AddonUsed <= packs * Pack

\* A pass that works on what it read earlier never refunds an attempt that is
\* at work on its shot, or that has delivered its video, as long as the attempt
\* did not come back after its end (reconcile_video_seconds_refunds).
AttemptIsPaid ==
    \A j \in Jobs \ reopened :
        j \in slot \/ version[j] = "succeeded" => charge[j].period # 0 /\ refund[j] = 0

\* "Unlike single-shot cancellation this is reversible" (docstring of
\* pause_episode_video_tasks): what is paused can be resumed.
PauseIsReversible == Fits(Paused)
=============================================================================
