\* Two callers, Reset and GC at any time, and a restart.
SPECIFICATION Spec
CONSTANTS
    c1 = c1
    c2 = c2
    Creators = {c1, c2}
    MaxSessions = 3
    MaxRestarts = 1
SYMMETRY Symmetry
INVARIANTS
    SessionIsShared
    ResetSticks
CHECK_DEADLOCK FALSE
