CONSTANTS
  Clusters = {a}
  MaxTries = 3
SPECIFICATION ManagerFairSpec
INVARIANTS ManagerTypeOK EnginesMatchClients NoGhostData
PROPERTIES AvailableNotPruned QuietAfterStop EngineStops StopReturns
CHECK_DEADLOCK FALSE
