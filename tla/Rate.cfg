\* Four threads under a ceiling of three slots, quarantines of 2 to 6 ticks.
SPECIFICATION FairSpec
CONSTANTS
  Threads = {t1, t2, t3, t4}
  Scale = 4
  Ceiling = 3
  Recovery = 3
  Base = 2
  Longest = 6
  MinInterval = 0
  Slow = 1
  MaxInterval = 3
  MaxStreak = 3
INVARIANTS
  PermitsAreHeld
  StreakOutlastsQuarantine
PROPERTIES QuarantineIsServed AdmitsAgain
