CONSTANTS
  Tokens = {t1}
  Clients = {r1}
  Clusters = {c1}
  Callers = {w1, w2}
  Readers = {q1}
SPECIFICATION StoreSpec
INVARIANTS StoreTypeOK IdsMatchData
PROPERTIES KeepsPromise MissesOnlyDeleted
