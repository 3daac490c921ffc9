\* Stopping a session with a desktop, a worker and a sweeper, under fairness.
SPECIFICATION FairSpec
CONSTANTS
  r1 = r1
  r2 = r2
  Reconcilers <- OneReconciler
  Desktops <- DesktopOnly
  MaxBootstrapRetries = 0
  MaxVmRetries = 0
  LivenessThreshold = 2
  MaxBinding = 1
  MaxActivation = 1
  MaxFaults = 1
INVARIANTS
  TypeOK
PROPERTIES
  StopConverges
  StrayVmReturns
  VmRefIsKept
