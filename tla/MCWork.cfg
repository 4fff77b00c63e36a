SPECIFICATION WorkSpec
CONSTANTS
  Agents = {"grok", "claude"}
  Surfaces <- MCOffers
  Lines <- MCLines
  MaxLines = 3
  FlushSize = 2
  Unassigned = Unassigned
  NoSetting = NoSetting
  Tasks = {1, 2, 3}
  Adapters = {a1, a2}
  DefaultGlobal = 2
  DefaultPerAdapter = 1
  MaxGlobal = 2
  MaxPerAdapter = 2
  MaxBypassBound = 2
  MaxPriority = 1
  MaxCreatedAt = 1
  MaxOccupied = 2
  Blobs = {b1}
  KeptTasks = {t1}
  Leases = {l1}
  Collectors = {g1, g2}
  Unset = Unset
  Grace = 1
  BlobAfterTerminal = 2
  BlobAfterAck = 1
  WorktreeAfterAck = 1
  WorktreeAfterTerminal = 2
  CompactAfter = 2
  LeaseTtl = 2
  LeaseHeartbeat = 1
  BatchRows = 1
  MaxNow = 2
  MaxFaults = 1
SYMMETRY Symmetry
INVARIANTS
  PlanFits
  DecidedByFirstFrame
  EveryPieceIsRecorded
PROPERTIES
  LeasedPathsAreKept
CHECK_DEADLOCK FALSE
