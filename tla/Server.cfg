SPECIFICATION FairSpec
CONSTANTS
  Requests = {r1, r2}
  CommandLines <- MCCommandLines
  Environments <- MCEnvironments
  Files <- MCFiles
  Offered <- MCOffered
  MaxRequests = 2
  Window = 2
  PingTicks = 2
  WriteTicks = 1
  DrainTicks = 2
  WorkTicks = 1
CHECK_DEADLOCK FALSE
INVARIANTS ServerTypeOK ServesAsAsked StoreOutlivesUsers
PROPERTIES StatusKnown RefusedWhenBusy CutsLateStreams ShutdownEnds
