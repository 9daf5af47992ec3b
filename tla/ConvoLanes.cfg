\* Three jobs over two lanes, a claimed turn and a waiter that may give up.
SPECIFICATION FairSpec
CONSTANTS
    c1 = c1
    c2 = c2
    w1 = w1
    NoConv = NoConv
    Convs = {c1, c2}
    MaxJobs = 3
    MaxClaims = 1
    Waiters = {w1}
    Impatient = {w1}
INVARIANTS
    LaneDiscipline
PROPERTIES
    JobsAreCovered
CHECK_DEADLOCK FALSE
