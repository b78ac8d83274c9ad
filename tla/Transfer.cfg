\* Two transfers, a table of five artifacts in batches of two, and one of jobs.
SPECIFICATION Spec
CONSTANTS
  Runs = {r1, r2}
  Artifacts = {a1, a2, a3, old, new}
  Jobs = {j}
  Old = {old}
  Late = {new}
  BATCH = 2
  MaxFaults = 2
SYMMETRY Symmetry
INVARIANT
  SuccessIsWhole
PROPERTY
  SweepSparesTheMoved
CHECK_DEADLOCK FALSE
