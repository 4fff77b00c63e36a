SPECIFICATION ClientsSpec
CONSTANTS
  ToolCall = {x1, x2, x3}
  MaxPending = 2
  MaxGeneration = 2
  Deadline = 17
  WaitMs = 12
  LastTime = 20
  Callers = {c1, c2, c3}
  Stoppers = {s1, s2}
  Capacity = 1
  Shutdown = Shutdown
  PageLimit = 3
  FrameLimit = 4
  ConsolePage = 2
  RecentTasks = 1
  MaxEvents = 5
  MaxBusy = 1
  EventSize <- Sizes
INVARIANTS
  RefusedHadNoEffect
  ShutdownDrains
  PrintedInOrder
PROPERTIES
  EveryRequestSettles
  EveryRequestAnswered
  EveryCallReturns
CHECK_DEADLOCK FALSE
