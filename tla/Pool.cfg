\* Two pumps (one expensive slot), three jobs, serving or started with --once.
SPECIFICATION FairSpec
CONSTANTS
  e1 = e1
  e2 = e2
  c1 = c1
  youtube = youtube
  sponsorblock = sponsorblock
  NoJob = NoJob
  NoLimit = NoLimit
  Jobs = {e1, e2, c1}
  Pumps = {p1, p2}
  Lanes = {youtube, sponsorblock}
  Cost <- Costing
  LaneOf <- Routing
  Limits <- ServeOrOnce
  MaxRetries = 1
  MaxErrors = 1
  MaxTurns = 1
CHECK_DEADLOCK FALSE
INVARIANTS SharesAreKept LimitIsKept StopIsPrompt
PROPERTIES DrainsDry QueuedIsClaimed
