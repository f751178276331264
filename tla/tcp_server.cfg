SPECIFICATION FairSpec
CONSTANTS
    Base = Base Observer = Observer None = None u1 = u1 u2 = u2 l1 = l1 l2 = l2
    Users = {u1, u2}
    IoLoops <- TwoLoops
    Mapped = TRUE
    Modifies = TRUE
    Capacity = 1
    MaxConns = 2
    MaxRequests = 2
    MaxSends = 2
    MaxLosses = 1
    MaxCloses = 2
INVARIANTS TypeOK NoDangling InOrder CloseOnce EndsForAReason
PROPERTIES ClosedAreDestroyed OutputDrains
CHECK_DEADLOCK FALSE
