SPECIFICATION FairSpec
CONSTANTS
    NoObject = NoObject
    t1 = t1 t2 = t2 t3 = t3 o1 = o1 o2 = o2 o3 = o3 o4 = o4
    Threads = {t1, t2, t3}
    Objects = {o1, o2, o3, o4}
    initSize = 1
    maxSize = 3
    MaxCalls = 8
    MaxScans = 2
INVARIANTS NoSharing Accounting ProducerAwake
PROPERTIES CallsReturn OnlyCrowdsWait
CHECK_DEADLOCK FALSE
