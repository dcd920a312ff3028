---------------------- MODULE VideoSupervisorProperties ---------------------
(* What the completion of one episode promises.                            *)
EXTENDS VideoSupervisor

TypeOK ==
    /\ owner \in Runs \cup {NoRun}
    /\ mode \in BOOLEAN
    /\ control \in {"none", "pause", "handoff"}
    /\ cp \in [run : Runs \cup {NoRun}, phase : Phases, fenced : BOOLEAN]
    /\ cp.phase # "none" => cp.run \in Runs
    /\ status \in [Runs -> RunStatus]
    /\ origin \in [Runs -> Runs]
    /\ pc \in [Runs -> PC]
    /\ local \in [phase : Phases, fenced : BOOLEAN, last : BOOLEAN,
                 shot : Shots \cup {NoShot}]
    /\ watch \in Runs \cup {NoRun}
    /\ cancel \in Runs \cup {NoRun}
    /\ ending \in BOOLEAN
    /\ jobs \in [Shots -> Runs \cup {NoRun}]
    /\ adopted \subseteq Shots
    /\ due \in BOOLEAN
    /\ left \subseteq Shots
    /\ faults \in Nat

\* One supervisor at a time: while a task or the watchdog works for the
\* episode there is no second one, and nobody else owns the episode (a
\* handler may have taken the ownership away, but never given it to another).
OneSupervisor ==
    \A r \in Runs : Live(r) =>
        /\ \A q \in Runs : Live(q) => q = r
        /\ owner \in {r, NoRun}

\* A run that is recorded as over, or as paused by a restart, works no more:
\* cancel_run answers only after its task has let go.
EndedRunIsSilent ==
    \A r \in Runs : Live(r) => status[r] \in {"CREATED", "RUNNING"}

\* A closeout that has concluded leaves no video job of a run active, whichever
\* run dispatched it and whichever attempt at the closeout this is, but for the
\* jobs its stop passes over: those that could not be cancelled, and those of a
\* shot that had an adopted version by then (a retake in flight when an older
\* candidate was adopted is not stopped).
CloseoutStopsAll ==
    cp.phase = "closed" => \A s \in Shots : jobs[s] # NoRun => s \in left

\* A completion somebody owns does not stay unfinished without anyone at work:
\* its task, the recovery at startup or the watchdog brings it to an end or to
\* a person, whatever was interrupted on the way.
Halfway ==
    /\ mode /\ owner # NoRun
    /\ cp.phase \in Unfinished
HalfwaySettles == []<>~Halfway

=============================================================================
