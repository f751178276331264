SPECIFICATION ThreadFairSpec
CONSTANTS
    None = None
    t1 = t1 t2 = t2 f1 = f1 f2 = f2 f3 = f3 f4 = f4
    Threads = {t1, t2}
    Owner = t1
    Functors = {f1, f2, f3, f4}
    Then <- Follow
    Quitters = {f3}
    Reported = TRUE
    Modifies = TRUE
    MaxQuits = 1
INVARIANTS NoSleepOnWork EndsOnlyOnceTold
PROPERTIES ImplementsExecutor QueuedIsRun StartLoopReturns DestructorReturns
CHECK_DEADLOCK FALSE
