SPECIFICATION Spec
CONSTANTS
  r1 = r1  r2 = r2  r3 = r3  r4 = r4
  Records = {r1, r2, r3}
  Corrupt = {}
  MaxInFlight = 2
  Batch = 2
  MaxCrashes = 0
  MaxFailures = 0
  Workloads <- Overlapping
SYMMETRY Symmetric
CHECK_DEADLOCK FALSE
INVARIANTS NothingEverLost
