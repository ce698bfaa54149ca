SPECIFICATION SpecChains
CONSTANTS
  c1 = c1  c2 = c2  i1 = i1  i2 = i2
  Chains = {c1, c2}
  Default = c1
  Workloads <- Workload
  CheckpointKey = TRUE
  MaxAccessLogRows = 1
  TrimBatch = 2
  MaxId = 4
  MaxRbacId = 4
CHECK_DEADLOCK FALSE
INVARIANTS Verifiable NoFalseAlarm
PROPERTIES BreakGlassResumes 
