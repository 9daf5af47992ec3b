\* Three turns, with a goroutine of every other kind.
SPECIFICATION FairSpec
CONSTANTS
    c1 = c1
    k1 = k1
    p1 = p1
    w1 = w1
    NoConv = NoConv
    Convs = {c1}
    MaxTurns = 3
    Cancellers = {k1}
    Claimers = {p1}
    Waiters = {w1}
    Impatient = {p1}
INVARIANTS
    TypeOK
    OneTurnAtATime
    ChainEndsInOrder
    NoOrphan
PROPERTIES
    SupersedeCancelsNoSuccessor
    WaitersAreServed
    DisplacedTurnsUnwind
CHECK_DEADLOCK FALSE
