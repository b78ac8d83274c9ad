\* One worker process of two threads, a listing and its follow-up, under fairness.
SPECIFICATION FairSpec
CONSTANTS
  j1 = j1
  j2 = j2
  t1 = t1
  t2 = t2
  w1 = w1
  w2 = w2
  NoJob = NoJob
  Jobs = {j1, j2}
  Workers = {w1}
  Threads = {t1, t2}
  Home <- OneHome
  Clients = {c1}
  MaxAttempts <- TwoAttempts
  FollowUps <- Listing
  Unknown = {}
  Faults = 1
  Punctual = FALSE
INVARIANTS
  Exclusive
  TriesAreCharged
  QueuedHasAttemptLeft
  RunningCanBeReaped
  FollowUpsHaveAParent
PROPERTIES
  FinishedStays
  LifecycleIsKept
  EveryJobFinishes
