\* Two runs the user may start, three with those of the recovery and the
\* watchdog, one shot, one fault.
\* The bounds on runs and faults end behaviours: deadlock is not checked.
CONSTANTS
    Shots = {s1}
    NoShot = NoShot
    MaxRuns = 3
    MaxStarts = 2
    MaxFaults = 1
SPECIFICATION Spec
INVARIANTS OneSupervisor EndedRunIsSilent CloseoutStopsAll
PROPERTY HalfwaySettles
CHECK_DEADLOCK FALSE
