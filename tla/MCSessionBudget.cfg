\* The budget of VM retries, while a release takes its time.
SPECIFICATION Spec
CONSTANTS
  r1 = r1
  r2 = r2
  Reconcilers <- OneReconciler
  Desktops <- DesktopOnly
  MaxBootstrapRetries = 0
  MaxVmRetries = 0
  LivenessThreshold = 1
  MaxBinding = 2
  MaxActivation = 1
  MaxFaults = 0
INVARIANTS
  BudgetHolds
