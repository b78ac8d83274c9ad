\* Two threads that report on one source.
SPECIFICATION HealthFairSpec
CONSTANTS
  Threads = {t1, t2}
  BROKEN_AFTER = 3
  MaxRefusals = 1
INVARIANT
  FailuresAreEarned
PROPERTY
  StatusFollowsTheSource
