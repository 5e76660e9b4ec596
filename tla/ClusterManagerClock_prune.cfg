CONSTANTS
  Clusters = {a}
  MaxTries = 1
  CheckPeriod = 1
  Threshold = 2
SPECIFICATION ClockFairSpec
PROPERTIES UnavailablePruned
CHECK_DEADLOCK FALSE
