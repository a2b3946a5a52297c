SPECIFICATION FairSpec
CONSTANTS
    t1 = t1
    t2 = t2
    t3 = t3
    Threads = {t1, t2}
    WindowThreads = {t1}
    Nobody = Nobody
INVARIANTS
    TypeOK
    UndisturbedMeasurementIsFresh
    SensorsOffUnlessRearmed
PROPERTIES
    ShutdownCompletes
    MeasurementEnds
CHECK_DEADLOCK FALSE
