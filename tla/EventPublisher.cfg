CONSTANTS
  c1 = c1
  c2 = c2
  w1 = w1
  w2 = w2
  Clusters = {c1, c2}
  Writers = {w1, w2}
  ClusterOf <- OneWriterEach
  Subs = {s1}
  Filters <- AllAndFirst
  BufferCap = 2
  MaxVersion = 2
SPECIFICATION FairSpec
INVARIANTS TypeOK ChannelOwnership WriterOrder NoGap
PROPERTIES EventuallyCaughtUp
CHECK_DEADLOCK FALSE
