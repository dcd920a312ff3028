SPECIFICATION Spec
CONSTANTS
  Jobs = {j1}
  Workers = {w1, w2}
  None = None
  MaxTasks = 2
  MaxRetries = 1
  InflightCap = 1
  MaxFaults = 1
SYMMETRY WorkerSymmetry
PROPERTY NoCreateAfterStop
CHECK_DEADLOCK FALSE
