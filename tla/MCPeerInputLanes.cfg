SPECIFICATION Spec
CONSTANTS
    p1 = p1
    p2 = p2
    Peers = {p1}
    ConnMax = 2
    EpochMax = 2
    SendMax = 3
    QueueCap = 2
    Overload = FALSE
    None = None
CONSTRAINT LaneBound
INVARIANTS NoGapReachesActor SessionAnswered
PROPERTIES LateReleaseSparesNewer
CHECK_DEADLOCK FALSE
