SPECIFICATION FairSpec
CONSTANTS
  r1 = r1  r2 = r2  r3 = r3  r4 = r4
  Records = {r1, r2, r3}
  Corrupt = {r3}
  MaxInFlight = 2
  Batch = 2
  MaxCrashes = 2
  MaxFailures = 2
  Workloads <- Workload
CHECK_DEADLOCK FALSE
INVARIANTS ChainIntact SealedOnce NothingLost
PROPERTIES EventuallySealed
