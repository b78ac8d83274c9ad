\* One job, two processes whose leases never lapse while they live, one crash.
SPECIFICATION Spec
CONSTANTS
  j1 = j1
  j2 = j2
  t1 = t1
  t2 = t2
  w1 = w1
  w2 = w2
  NoJob = NoJob
  Jobs = {j1}
  Workers = {w1, w2}
  Threads = {t1, t2}
  Home <- TwoHomes
  Clients = {}
  MaxAttempts <- TwoAttempts
  FollowUps <- NoFollowUps
  Unknown = {}
  Faults = 1
  Punctual = TRUE
INVARIANTS Exclusive
