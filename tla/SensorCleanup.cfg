SPECIFICATION Spec
CONSTANTS
    t1 = t1
    t2 = t2
    t3 = t3
    Threads = {t1, t2}
    WindowThreads = {t1}
    Nobody = Nobody
INVARIANT
    DevicesCleanedUp
CHECK_DEADLOCK FALSE
