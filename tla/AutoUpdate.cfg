\* Two releases, the second unhealthy and needing the new agent; crashes and failing operations at every step.
SPECIFICATION FairSpec
CONSTANTS
    None = None
    MaxVersion = 2
    Unhealthy = {2}
    NeedsAgent = {2}
    Modes = {"auto", "notify"}
    Fleet = {TRUE, FALSE}
    GateBoots = 2
    MaxCrashes = 2
    MaxFaults = 4
INVARIANTS
    RollbackIsWhole
PROPERTIES
    RolledBackStaysOut
    BackInService
CHECK_DEADLOCK FALSE
