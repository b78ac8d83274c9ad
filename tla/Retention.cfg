\* Two digests, two rows, two collectors, a prune and a crash at any time.
SPECIFICATION FairSpec
CONSTANTS
  Digests = {d1, d2}
  Ids = {a1, a2}
  Collectors = {c1, c2}
  NoDigest = NoDigest
  Forced = FALSE
  MaxFaults = 1
INVARIANTS RowsKeepPayloads SweepIsProportionate
PROPERTIES OrphansGo
