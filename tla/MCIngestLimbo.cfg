SPECIFICATION PromptSpec
CONSTANTS
  p1 = p1
  i1 = i1
  i2 = i2
  p2 = p2
  None = None
  Gone = Gone
  ParseWorkers = {p1}
  IngestWorkers = {}
  Chunks = 1
  MaxShort = 0
  MaxRecovery = 3
  MaxCopies = 1
  MaxFaults = 0
  MaxOps = 2
  MaxHasty = 0
PROPERTY LimboHeals
CHECK_DEADLOCK FALSE
