CONSTANTS
  Clusters = {a}
  MaxTries = 1
  CheckPeriod = 1
  Threshold = 2
SPECIFICATION ClockSpec
PROPERTIES OnlyStalePruned
CHECK_DEADLOCK FALSE
