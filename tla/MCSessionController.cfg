\* Sessions without a desktop: two bindings, two activations, one fault.
SPECIFICATION FairSpec
CONSTANTS
  r1 = r1
  r2 = r2
  Reconcilers <- OneReconciler
  Desktops <- ContainerOnly
  MaxBootstrapRetries = 1
  MaxVmRetries = 1
  LivenessThreshold = 1
  MaxBinding = 2
  MaxActivation = 2
  MaxFaults = 1
PROPERTIES
  StopConverges
  ReplacementConverges
