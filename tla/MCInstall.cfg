CONSTANTS
  Cmds = {c1, c2}
  Daemon = daemon
  None = None
  MaxId = 1
  MaxRev = 9
  MaxFaults = 1
SPECIFICATION InstallSpec
INVARIANTS
  EvidenceIsBacked
PROPERTIES
  ImplementsLifecycle
  IdentityDeletedLast
  RemovalDrains
