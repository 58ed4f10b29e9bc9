CONSTANTS
    Configs <- AllSessions
SPECIFICATION Spec
INVARIANTS AppInv OutcomeIsTrue
PROPERTIES StopStops
