\* Two requests, two reloads or deaths, a job that outlives its watcher.
SPECIFICATION FlowFairSpec
CONSTANTS
    Nil = Nil
    Fleets = {TRUE, FALSE}
    MaxRequests = 2
    MaxDeaths = 2
    MaxTimeouts = 1
    MaxAgent = 1
INVARIANTS
    JobsAreOrderly
    PrevIsLast
PROPERTIES
    UpdatesEnd
CHECK_DEADLOCK FALSE
