SPECIFICATION FairSpec
CONSTANTS
  s1 = s1  s2 = s2
  Slots = {s1, s2}
  MaxBatch = 2
  RetainMax = 1
  QueueCap = 2
  Workloads <- Workload
  MaxApprovals = 2
  MaxConns = 2
  MaxRestarts = 1
  MaxFaults = 1
  MaxExpired = 1
CHECK_DEADLOCK FALSE
INVARIANTS LaneSound 
PROPERTIES EventuallyHeld
