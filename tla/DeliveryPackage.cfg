SPECIFICATION Spec
CONSTANTS
    Packages = {p1, p2}
    Requests = {r1, r2, r3}
    NoOne = NoOne
    MaxVersion = 1
    MaxChanges = 1
    MaxLapses = 1
    MaxCrashes = 1
SYMMETRY Symmetry
INVARIANTS TypeOK FilesMatchRow  EpisodeFollowsPackage
CHECK_DEADLOCK FALSE
