SPECIFICATION FairSpec
CONSTANTS
  d1 = d1
  d2 = d2
  Deployments <- One
  Devices <- TwoDevices
  None = None
  Phases <- HalfThenAll
  Threshold = 50
  DefaultThreshold = 5
  MaxInFlight = 1
  Deliverers = {"poller", "supervisor"}
  Overlap = FALSE
  Operations = {}
  Callers = {}
  MaxWrites = 1
  MaxAge = 1
  AcksLost = TRUE
  WireVersions = TRUE
PROPERTY RolloutEnds
CHECK_DEADLOCK FALSE
