CONSTANTS
    r1 = r1
    r2 = r2
    r3 = r3
    Requests <- MCRequests
    Batch <- MCBatch
    Priority <- MCPriority
    HardLimits <- MCHardLimits
    MaxLimit = 3
    StartLimit = 1
SPECIFICATION Spec
INVARIANTS TypeOK SlotsCounted NoIdleSlot
PROPERTIES AdmitsWithinLimit NoOvertaking NoStartAfterAbort EveryWaiterLeaves
CHECK_DEADLOCK FALSE
