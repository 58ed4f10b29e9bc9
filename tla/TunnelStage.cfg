CONSTANTS
    Procs = {"a", "b"}
    Threads = {"t1"}
    Count = 1
    MaxAttempts = 1
    Span = 2
    MaxTurns = 1
    AllowCancel = FALSE
SPECIFICATION Spec
INVARIANTS RaceIsNoSuccess
