\* Two turns of a session with two attempts each, and an abandoned attempt that still speaks.
SPECIFICATION GuardsFairSpec
CONSTANTS
    Window = 2
    Ceilings = {0, 3}
    MaxRefusals = 1
    MaxTurns = 2
    MaxUpdates = 2
    MaxStale = 1
    MaxFires = 2
INVARIANTS
    OnlyTheVerdictIsDelivered
PROPERTIES
    CutsAreTrue
    TurnsEnd
CHECK_DEADLOCK FALSE
