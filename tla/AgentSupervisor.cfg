\* Two faults, a Close, the end of the context and a caller, at any time.
SPECIFICATION FairSpec
CONSTANTS
    c1 = c1
    k1 = k1
    MaxFaults = 2
    Closers = {c1}
    Callers = {k1}
INVARIANTS
    OneSupervisor
    VerdictIsTrue
PROPERTIES
    CloseIsTheEnd
    EverybodyReturns
CHECK_DEADLOCK FALSE
