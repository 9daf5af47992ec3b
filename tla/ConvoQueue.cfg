\* Six items, every second one sheddable, around a cap of two.
SPECIFICATION QueueFairSpec
CONSTANTS
    w1 = w1
    MaxItems = 6
    Sheddable = {1, 3, 5}
    Cap = 2
    QueueWaiters = {w1}
INVARIANTS
    NothingStranded
    UserTurnsAreKept
PROPERTIES
    AcceptedItemsLeave
CHECK_DEADLOCK FALSE
