SPECIFICATION Spec
CONSTANTS
  Jobs = {j1, j2}
  Workers = {w1, w2}
  None = None
  MaxTasks = 1
  MaxRetries = 0
  InflightCap = 1
  MaxFaults = 0
SYMMETRY Symmetry
PROPERTY SubmitWithinCap
CHECK_DEADLOCK FALSE
