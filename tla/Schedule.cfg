\* Two conversations, one-shot and repeating items, turns that arm items, failed saves and a restart.
SPECIFICATION FairSpec
CONSTANTS
    a = a
    b = b
    Convs = {a, b}
    MaxItems = 2
    MaxNow = 2
    MaxDepth = 1
    MaxPerConv = 2
    MaxTotal = 2
    Repeats = {0, 2}
    MaxFailures = 1
    MaxRestarts = 1
INVARIANTS
    SavedAndFiredOnce
    ChainBounded
PROPERTIES
    RepeatsOnGrid
    DueIsClaimed
CHECK_DEADLOCK FALSE
