\* Two passes side by side over a session without a desktop.
SPECIFICATION Spec
CONSTANTS
  r1 = r1
  r2 = r2
  Reconcilers <- TwoReconcilers
  Desktops <- ContainerOnly
  MaxBootstrapRetries = 1
  MaxVmRetries = 0
  LivenessThreshold = 1
  MaxBinding = 2
  MaxActivation = 1
  MaxFaults = 0
SYMMETRY Symmetry
CONSTRAINT FewRequests
INVARIANTS
  OneLiveContainer
  ReleasedIsCleanUnlessFaults
  QuietWhenReleased
PROPERTIES
  ParkedStaysParked
