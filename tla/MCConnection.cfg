SPECIFICATION PipeSpec
CONSTANTS
    r1 = r1
    r2 = r2
    r3 = r3
    h1 = h1
    Request <- MCRequest
    Health <- MCHealth
    MaxInFlight = 2
    ClientBound = 4
    Client = {c1, c2}
    Profile <- MCProfile
    Nonce = {n1, n2}
    ServerKey = "key"
    InstallId = "id"
    MinFrame = 1
    MaxFrame = 2
    MaxConnections = 1
    PipeInstances = 2
    ReplayCapacity = 1
INVARIANTS
    SlotsAreReleased
    FenceIsNotHeldByAFullChannel
    PipeStaysOwned
    HandshakesAgree
PROPERTIES
    ConnectionEnds
    ServerReturns
CHECK_DEADLOCK FALSE
