SPECIFICATION AuthSpec
CONSTANTS
  SessionIDs = {s1}
  Users = {u1}
  Requests = {r1, r2}
  Clients = {r1, r2}
  Tokens = {t1}
  States = {st1}
  None = None
SYMMETRY RequestSymmetry
INVARIANTS
  AuthTypeOK
  MapMatchesHistory
  AdmittedWithCredential
  EndedStaysEnded
  OnlyExpiredLost
  ReturnedWasLive
  SpentStateRefused
PROPERTIES
  KeepsPromise
CHECK_DEADLOCK FALSE
