SPECIFICATION Spec
CONSTANTS
    first = first
    again = again
    other = other
    Jobs = {first, again}
    Shot <- ShotOf
    Seconds = 2
    Limit = 3
    Pack = 2
    Cap = 2
    Passes = {r1, r2}
    r1 = r1
    r2 = r2
    MaxPeriod = 2
    MaxPacks = 1
INVARIANT PauseIsReversible
CHECK_DEADLOCK FALSE
