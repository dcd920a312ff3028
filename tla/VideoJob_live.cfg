SPECIFICATION FairSpec
CONSTANTS
  Jobs = {j1}
  Workers = {w1, w2}
  None = None
  MaxTasks = 1
  MaxRetries = 0
  InflightCap = 1
  MaxFaults = 2
PROPERTY PollOwedResolved
CHECK_DEADLOCK FALSE
