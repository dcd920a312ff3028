\* One package and one restart; temporal, so without symmetry.
SPECIFICATION Spec
CONSTANTS
    Packages = {p1}
    Requests = {r1, r2}
    NoOne = NoOne
    MaxVersion = 0
    MaxChanges = 0
    MaxLapses = 0
    MaxCrashes = 1
PROPERTY InterruptedBuildResumes
CHECK_DEADLOCK FALSE
