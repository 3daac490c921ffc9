SPECIFICATION FairSpec
CONSTANTS
  Scheduled = {1}
  Explicit = {}
  Callers = {c1}
  Instances = {i1, i2}
  MaxRetry = 1
  MaxFaults = 1
  MaxOps = 1
  None = None
INVARIANT BlockedIsDriven
PROPERTY DueIsAnswered
CHECK_DEADLOCK FALSE
