CONSTANTS
    Typed = {0, 300}
    Limit = 200000
    Order <- Lines
    Args <- FileArgs
    MaxInputs = 9
    MaxEdits = 0
    NoRequest = NoRequest
SPECIFICATION LaunchSpec
INVARIANTS LinkFileWorks
