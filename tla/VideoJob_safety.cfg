SPECIFICATION Spec
CONSTANTS
  Jobs = {j1}
  Workers = {w1, w2}
  None = None
  MaxTasks = 2
  MaxRetries = 1
  InflightCap = 1
  MaxFaults = 2
SYMMETRY WorkerSymmetry
INVARIANTS
  OneLiveTask
  NoPaidTaskForgotten
  ClaimCoversTask
  SafetyInv
PROPERTIES
  NoBlindRecreate
  StoppedResultQuarantined
  CancelledStaysCancelled
  StaleWorkerLeavesJob
  ImplementsPaidOperation
CHECK_DEADLOCK FALSE
