SPECIFICATION Spec
CONSTANTS
  Scheduled = {1, 2}
  Explicit = {}
  Callers = {c1, c2}
  Instances = {i1}
  MaxRetry = 1
  MaxFaults = 1
  MaxOps = 0
  None = None
INVARIANTS TypeOK CompletedHasRun NothingDropped
SYMMETRY Symmetry
CHECK_DEADLOCK FALSE
