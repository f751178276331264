SPECIFICATION FairSpec
CONSTANTS
    None = None t1 = t1 t2 = t2 k1 = k1 k2 = k2
    Threads = {t1, t2}
    Connections = {k1, k2}
    Registered = 1
    MaxRequests = 3
    MaxFaults = 1
INVARIANTS OwnId CreatorEntered InSync
PROPERTIES RequestsEnd
CHECK_DEADLOCK FALSE
