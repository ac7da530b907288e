SPECIFICATION BenchSpec
CONSTANTS
  c1 = c1
  c2 = c2
  b1 = b1
  Calls = {c1, c2}
  Boards = {b1}
  Target <- ToB1
  Reboots = {c2}
  Overlapping = FALSE
  RingSize = 2
  LateSubscribers = {b1}
  MaxDrops = 1
  MaxRouterLosses = 1
  NoCall = NoCall
  MockVersions = {1, 2, 3}
  FirstVersion = 1
  BuggyVersions = {3}
  MaxMockCrashes = 2
  MaxMockUpdates = 3
  MaxMockDrops = 1
  Nothing = Nothing
  h1 = h1
  Hwids = {h1}
  MaxBatches = 2
  proj = proj
  OwnProject = proj
  HandProjects = {proj}
  FailingCalls = {"create", "issue", "sweep", "provision", "publish", "mark", "announce", "save"}
  MaxEnrolFailures = 1
  MaxEnrolDrops = 1
  MaxFleetRestarts = 1
  Absent = Absent
  d1 = d1
  Members = {d1}
  MaxRowFailures = 1
  MaxReconnects = 1
  MaxPresenceRestarts = 1
  MaxFallSilent = 2
  MaxBacklog = 2
  f1 = f1
  Fixes = {f1}
  FixVersions = {2}
  Sources = {1}
  w1 = w1
  w2 = w2
  FixWorkers = {w1, w2}
  MaxAttempts = 2
  NoFix = NoFix
  m1 = m1
  Mocks = {m1}
  MockProjects = {proj}
  r1 = r1
  Seeders = {r1}
  ProjectCap = 1
  TotalCap = 1
  MaxControlFaults = 1
  MaxControlRestarts = 1
  NoMock = NoMock
INVARIANTS OncePerBoot CallsSound MockSound EnrolmentSound PresenceSound
PROPERTIES CommandLands AcceptedGetsClaimed SilentGoesOffline FixJobEnds MocksEnd
CHECK_DEADLOCK FALSE
