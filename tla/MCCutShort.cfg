SPECIFICATION CutShortSpec
CONSTANTS
  Versions = {1, 2}
  Factory = 1
  MaxTrialBoots = 2
  Soak = 1
  Deadline = 2
  AdoptedConfig = TRUE
  ResetPoints <- AnyPoint
  u1 = u1
  u2 = u2
  Updaters = {u1, u2}
  s1 = s1
  Commands = {s1}
  Newest = 3
  Nobody = Nobody
  f1 = f1
  f2 = f2
  Fixes = {f1, f2}
  FixVersions = {1, 2}
  Sources = {1, 2}
  w1 = w1
  w2 = w2
  FixWorkers = {w1, w2}
  MaxAttempts = 2
  NoFix = NoFix
  m1 = m1
  m2 = m2
  m3 = m3
  Mocks = {m1, m2, m3}
  proj = proj
  MockProjects = {proj}
  r1 = r1
  r2 = r2
  Seeders = {r1, r2}
  ProjectCap = 2
  TotalCap = 2
  MaxControlFaults = 1
  MaxControlRestarts = 1
  NoMock = NoMock
  ow1 = ow1
  ow2 = ow2
  Owners = {ow1, ow2}
  Published <- OwnersPublish
  ur1 = ur1
  Uris = {ur1}
  UriVersion <- UriLeadsTo
  Requests <- PackageRequests
  t1 = t1
  t2 = t2
  Terminals = {t1, t2}
  MaxCommands = 4
  Mirrors = 2
  MaxIoFailures = 1
  MaxKills = 1
  Plain = Plain
  NoDir = NoDir
  Nothing = Nothing
  Torn = Torn
SYMMETRY Alike
INVARIANTS TypeOK NeverBricked ProbationInv UpdaterSound FixJobsSound MocksSound StoreSound
PROPERTIES TrialKeepsSlots EmulatedVersionMonotone
