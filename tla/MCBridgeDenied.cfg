CONSTANTS
    ToolCall = {x1, x2, x3}
    MaxPending = 2
    MaxGeneration = 2
SPECIFICATION BridgeSpec
INVARIANTS
    DeniedHadNoEffect
CHECK_DEADLOCK FALSE
