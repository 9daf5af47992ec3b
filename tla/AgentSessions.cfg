\* Two goroutines and a child that is replaced.
SPECIFICATION Spec
CONSTANTS
    k1 = k1
    k2 = k2
    Callers = {k1, k2}
    Agents = {{"resume", "load", "stable"}, {"load", "stable"}, {"fork"}, {"fork", "stable"}}
    MaxWires = 3
    MaxGens = 3
    MaxCalls = 3
INVARIANTS
    RestoredOnItsChild
PROPERTIES
    WireFollowsChild
    StopsOnlyTheStopped
CHECK_DEADLOCK FALSE
