\* Three artifacts, of which one is put again, two passes, one of them limited, one
\* fault.
SPECIFICATION FairSpec
CONSTANTS
  Ids = {1, 2, 3}
  Comments = {"c"}
  Snapshots = {1}
  Harvest <- BundleAndHarvest
  Broken = {3}
  Refusable = {1}
  MaximumAge = 2
  Expiring = {1}
  Rehearsers = {"p2"}
  Passes = {"p1", "p2"}
  Lag = 1
  CommitWithin = 1
  BatchSize = 2
  Limit <- OneLimited
  Horizon = 2
  MaxPuts = 1
  Rewritten = {1}
  MaxFaults = 1
INVARIANTS TypeOK CursorIsHonest CommentsFollowNewest BundlesAreWhole
PROPERTIES PassesEnd EveryArtifactIsUnpacked
