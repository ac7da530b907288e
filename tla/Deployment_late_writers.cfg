SPECIFICATION Spec
CONSTANTS
  d1 = d1
  d2 = d2
  Deployments <- One
  Devices <- OneDevice
  None = None
  Phases <- SingleShot
  Threshold = 50
  DefaultThreshold = 5
  MaxInFlight = 1
  Deliverers = {"poller"}
  Overlap = FALSE
  Operations = {"progress", "report"}
  Callers = {}
  MaxWrites = 2
  MaxAge = 1
  AcksLost = TRUE
  WireVersions = TRUE
PROPERTY OutcomeStays
CHECK_DEADLOCK FALSE
