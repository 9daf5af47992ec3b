\* One session, initialize and a call, three connections, two hand-overs or deaths.
SPECIFICATION FairSpec
CONSTANTS
    k1 = k1
    None = None
    Keys = {k1}
    Key = k1
    Calls = 1
    MaxTokens = 2
    MaxConns = 3
    MaxHandOvers = 2
INVARIANTS
    SessionSurvives
PROPERTIES
    AnsweredOnce
    HandOverEnds
CHECK_DEADLOCK FALSE
