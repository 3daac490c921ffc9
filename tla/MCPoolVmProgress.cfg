SPECIFICATION FairSpec
CONSTANTS
  v1 = v1
  v2 = v2
  b1 = b1
  b2 = b2
  a1 = a1
  a2 = a2
  None = None
  Vms = {v1}
  Bindings = {b1, b2}
  Assistants = {a1, a2}
  Owners <- OneOrTwoAssistants
  Fresh = {}
  TargetIdle = 0
  MaxGeneration = 2
  MaxFaults = 1
INVARIANTS TypeOK
PROPERTIES  GivesBack 
CHECK_DEADLOCK FALSE
