\* A session that loses its desktop while the VM is being assigned.
SPECIFICATION Spec
CONSTANTS
  r1 = r1
  r2 = r2
  Reconcilers <- OneReconciler
  Desktops <- AnyDesktop
  MaxBootstrapRetries = 0
  MaxVmRetries = 0
  LivenessThreshold = 1
  MaxBinding = 1
  MaxActivation = 2
  MaxFaults = 0
INVARIANTS
  NoStrandedVm
