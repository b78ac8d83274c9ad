\* Two artifacts, one pass, a payload put again, one fault.
SPECIFICATION FairSpec
CONSTANTS
  Ids = {1, 2}
  Comments = {"c"}
  Snapshots = {1}
  Harvest <- OneHarvest
  Broken = {}
  Refusable = {}
  MaximumAge = 2
  Expiring = {}
  Rehearsers = {}
  Passes = {"p1"}
  Lag = 1
  CommitWithin = 1
  BatchSize = 2
  Limit <- Unlimited
  Horizon = 2
  Rewritten = {1}
  MaxPuts = 1
  MaxFaults = 1
PROPERTY NothingIsFatal
