SPECIFICATION VerifySpec
CONSTANTS
    Procs = {"a"}
    Threads = {"t1", "t2"}
    Count = 2
    MaxAttempts = 2
    Span = 5
    MaxTurns = 1
    AllowCancel = TRUE
INVARIANTS PoolInv StageInv PassedThroughOwnChild
PROPERTIES RunEnds TunnelEnds
