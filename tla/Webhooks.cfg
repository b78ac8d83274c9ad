\* Three processes, one job, three attempts; two answers are lost, and
\* one sweep dies.  Everything may have been announced: no deadlock check.
SPECIFICATION FairSpec
CONSTANTS
  Jobs = {j1}
  Senders = {s1, s2, s3}
  MaxAttempts = 3
  NoJob = NoJob
  MaxUnheard = 2
  MaxFaults = 1
CHECK_DEADLOCK FALSE
INVARIANT DuplicatesHaveAReason
PROPERTY EveryJobIsAnnounced
