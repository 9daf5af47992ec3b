\* Two messages handled at once, three in all, and one upset: a renaming, a failed save or push, a restart or a reaped session.
SPECIFICATION ControlSpec
CONSTANTS
    t1 = t1
    t2 = t2
    m1 = m1
    m2 = m2
    h1 = h1
    h2 = h2
    None = None
    Tokens = {t1, t2}
    Models = {m1, m2}
    Handlers = {h1, h2}
    MaxConvs = 2
    MaxSessions = 3
    MaxLogins = 2
    MaxMessages = 3
    MaxUpsets = 1
SYMMETRY Symmetry
INVARIANTS
    ChoiceIsKept
    LoginSlotIsTrue
PROPERTIES
    DeferredIsAsked
CHECK_DEADLOCK FALSE
