CONSTANTS
  c1 = c1
  w1 = w1
  Clusters = {c1}
  Writers = {w1}
  ClusterOf <- OneWriter
  Subs = {s1}
  Filters <- AllOnly
  BufferCap = 1
  MaxVersion = 2
  MaxClients = 2
SPECIFICATION SSEFairSpec
INVARIANTS SSETypeOK MapsAgree NothingLeftBehind LiveStreamsFollow
PROPERTIES HandlersReturn PingersStop
CHECK_DEADLOCK FALSE
