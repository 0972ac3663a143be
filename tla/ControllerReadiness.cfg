SPECIFICATION Spec
CONSTANTS
  Objects = {o1, o2, o3}
  Concurrency = 2
  LeaderElection = TRUE
  GracefulShutdown = TRUE
  ReconcileTimeout = TRUE
INVARIANTS NotReadyAfterSignal
