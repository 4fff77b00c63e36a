SPECIFICATION KeepSpec
CONSTANTS
  Procs = {p1, p2, p3}
  None = None
  Absent = Absent
  MaxFailures = 1
  MaxStops = 1
  MaxUnits = 8
  MaxEntries = 5
  MaxChanges = 2
  MaxCrashes = 1
  w1 = w1
  w2 = w2
  r1 = r1
  Schema = 3
  MaxOpenStops = 3
  Backups = {k1, k2}
  NoBackup = NoBackup
  MaxMutations = 3
  MaxHalts = 2
  Attempts = {w1, w2}
  Repos = {r1}
  RepoOf <- MCRepoOf
  NoLock = NoLock
  MaxLocks = 3
  MaxUpsets = 2
  PageLimit = 3
  FrameLimit = 4
  Tokens = {t1, t2}
  Updaters = {u1, u2}
  Documents = {d1}
  BootstrapTtl = 1
  SessionTtl = 2
  MaxTime = 2
  MaxConfig = 2
  Viewed = {a1, a2}
  LoadPages = 2
  ViewPage = 1
  KeptEvents = 2
  MaxLoads = 2
  MaxSeq = 4
SYMMETRY Symmetry
INVARIANTS
  LockIsExclusive
  SuccessMeansAudited
  NormalMeansReserve
  AdminOperationsExclude
  TimelineHasNoHoles
PROPERTIES
  SettingsStayWhole
  RestoreLosesNothing
CHECK_DEADLOCK FALSE
