CONSTANTS
    first = first
    retry = retry
    again = again
    other = other
    probe = probe
    Requests = {first, retry, other, probe}
    NoRequest = NoRequest
    Body <- MCBody
    Core <- MCCore
    DryRun = {probe}
    MaxLapses = 1
SPECIFICATION Spec
INVARIANTS ExecutedOnce ReplaysOwnResult ApprovalsOneShot NoOrphanReceipt
PROPERTY ResultsStay
CHECK_DEADLOCK FALSE
