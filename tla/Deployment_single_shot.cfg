SPECIFICATION Spec
CONSTANTS
  d1 = d1
  d2 = d2
  Deployments <- Two
  Devices <- OneDevice
  None = None
  Phases <- SingleShot
  Threshold = 50
  DefaultThreshold = 5
  MaxInFlight = 1
  Deliverers = {"poller","supervisor"}
  Overlap = FALSE
  Operations = {"create", "override", "progress"}
  Callers = {}
  MaxWrites = 1
  MaxAge = 0
  AcksLost = FALSE
  WireVersions = TRUE
INVARIANTS TypeOK NotifiedOnce
PROPERTY StatusTransitions
CHECK_DEADLOCK FALSE
