SPECIFICATION DeviceSpec
CONSTANTS
  Versions = {1, 2, 3}
  Factory = 1
  MaxTrialBoots = 3
  Soak = 1
  Deadline = 2
  AdoptedConfig = FALSE
  ResetPoints <- SafePoints
  Ports = {"events", "polled"}
  o1 = o1
  o2 = o2
  Orders = {o1, o2}
  NoOrder = NoOrder
  v1 = v1
  v2 = v2
  Servers = {v1, v2}
  cX = cX
  cY = cY
  Crashes = {cX, cY}
  Tools = {"compile", "flash", "serial_read"}
  Learned <- EarlierSessions
  MinSupport = 2
  MaxToolCalls = 4
  MaxBreaks = 1
  MaxClears = 1
  Healthy = Healthy
  NoCrash = NoCrash
INVARIANT SessionSound
INVARIANT BenchSound
INVARIANT ResultsTruthful
INVARIANT AdoptedNamesRunning
INVARIANT SettledOnConfirmed
PROPERTY KeepsPromise
PROPERTY TrialEnds
PROPERTY SessionHears
