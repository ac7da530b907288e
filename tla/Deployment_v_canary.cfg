SPECIFICATION FairSpec
CONSTANTS
  d1 = d1
  d2 = d2
  Deployments <- One
  Devices <- TwoDevices
  None = None
  Phases <- TinyCanary
  Threshold = 50
  DefaultThreshold = 5
  MaxInFlight = 1
  Deliverers = {"poller", "supervisor"}
  Overlap = FALSE
  Operations = {}
  Callers = {}
  MaxWrites = 1
  MaxAge = 0
  AcksLost = FALSE
  WireVersions = TRUE
PROPERTY RolloutStarts
CHECK_DEADLOCK FALSE
