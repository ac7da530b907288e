SPECIFICATION Spec
CONSTANTS
  d1 = d1
  d2 = d2
  Deployments <- One
  Devices <- TwoDevices
  None = None
  Phases <- HalfThenAll
  Threshold = 50
  DefaultThreshold = 5
  MaxInFlight = 1
  Deliverers = {"starter", "supervisor"}
  Overlap = TRUE
  Operations = {"abort"}
  Callers = {1}
  MaxWrites = 1
  MaxAge = 0
  AcksLost = TRUE
  WireVersions = TRUE
INVARIANTS WaveInv CohortBound SuccessMeansInstalled
PROPERTY OutcomeStays
CHECK_DEADLOCK FALSE
