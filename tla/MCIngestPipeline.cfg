SPECIFICATION Spec
CONSTANTS
  p1 = p1
  i1 = i1
  i2 = i2
  p2 = p2
  None = None
  Gone = Gone
  ParseWorkers = {p1, p2}
  IngestWorkers = {i1, i2}
  Chunks = 2
  MaxShort = 1
  MaxRecovery = 1
  MaxCopies = 2
  MaxFaults = 1
  MaxOps = 2
  MaxHasty = 1
CONSTRAINT ThreeAtATime
SYMMETRY WorkerSymmetry
INVARIANTS TypeOK SuccessIsComplete RewritesArePaidFor CheckpointIsInTable PublishedIsRecoverable ParseWorkIsKept
CHECK_DEADLOCK FALSE
