\* A client with a key that is revoked, a worker and a watcher of a list.
SPECIFICATION IntakeFairSpec
CONSTANTS
  v = v
  c = c
  k1 = k1
  Targets = {v, c}
  BadTarget = BadTarget
  Requests <- MCRequests
  Keys = {k1}
  Allowance <- MCAllowance
  NoKey = NoKey
  RequireKey = TRUE
  MAXIMUM_BATCH = 2
  Lists <- MCLists
  Unreadable = Unreadable
  MaxEach = 1
  MaxFaults = 1
INVARIANTS
  SubmissionIsWhole
  RevokedIsRefused
PROPERTIES
  LinesKeepBeingObserved
