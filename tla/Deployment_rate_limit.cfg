SPECIFICATION Spec
CONSTANTS
  d1 = d1
  d2 = d2
  Deployments <- Two
  Devices <- OneDevice
  None = None
  Phases <- SingleShot
  Threshold = 50
  DefaultThreshold = 5
  MaxInFlight = 1
  Deliverers = {"poller", "starter"}
  Overlap = FALSE
  Operations = {}
  Callers = {}
  MaxWrites = 1
  MaxAge = 2
  AcksLost = FALSE
  WireVersions = TRUE
INVARIANT OneUpdateAtATime
SYMMETRY SwapTwo
CHECK_DEADLOCK FALSE
