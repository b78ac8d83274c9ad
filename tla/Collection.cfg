\* A bundle of two parts and a kind with a retracted version, one worker.
SPECIFICATION CollectionSpec
CONSTANTS
  a = a
  b = b
  old = old
  m = m
  t = t
  NoKind = NoKind
  NoDigest = NoDigest
  Unrecorded = Unrecorded
  Ids = {1, 2, 3}
  Old = {2}
  Workers = {w1}
  Kinds = {"about", "meta", "text", "bundle"}
  Asked = {"about", "bundle"}
  Parts <- MCParts
  Current <- MCCurrent
  Previous <- MCPrevious
  Retracted <- MCRetracted
  Yields <- MCYields
  Misfits = {old}
  Freshness = 1
  MaximumAge = 1
  BATCH = 1
  MAXIMUM_PAGE = 1
  Horizon = 2
INVARIANTS
  WithdrawnIsNotServed
  WalkIsExact
  
  VersionsAreTrue
