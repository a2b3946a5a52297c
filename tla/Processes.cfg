SPECIFICATION Spec
CONSTANTS
    p1 = p1
    p2 = p2
    p3 = p3
    p4 = p4
    r1 = r1
    r2 = r2
    Peers = {p1, p2, p3, p4}
    Quitting = {p3}
    Leaving = {p4}
    MaxEvent = 4
    Runs = {r1, r2}
    Rounds = 2
    ThreadValue = 1
    PosixValue = 2
INVARIANTS
    TypeOK
    CountIsRight
    NoEdgeLost
    CountTracksSemaphore
PROPERTIES
    MessagesEchoed
    RunsEnd
CHECK_DEADLOCK FALSE
