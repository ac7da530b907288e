SPECIFICATION Spec
CONSTANTS
  d1 = d1
  d2 = d2
  Deployments <- One
  Devices <- ThreeDevices
  None = None
  Phases <- CanaryFirst
  Threshold = 50
  DefaultThreshold = 5
  MaxInFlight = 1
  Deliverers = {"poller", "supervisor"}
  Overlap = FALSE
  Operations = {"resume"}
  Callers = {1}
  MaxWrites = 1
  MaxAge = 0
  AcksLost = FALSE
  WireVersions = TRUE
INVARIANTS CanaryPassed FinishedMeansDone
PROPERTY KeepsRollout
CHECK_DEADLOCK FALSE
