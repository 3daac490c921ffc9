SPECIFICATION Spec
CONSTANTS
  v1 = v1
  v2 = v2
  b1 = b1
  b2 = b2
  a1 = a1
  a2 = a2
  None = None
  Vms = {v1, v2}
  Bindings = {b1, b2}
  Assistants = {a1}
  Owners <- OneAssistant
  Fresh = {}
  TargetIdle = 0
  MaxGeneration = 1
  MaxFaults = 1
SYMMETRY VmSymmetry
INVARIANTS  InUseKeepsDisk
 
CHECK_DEADLOCK FALSE
