SPECIFICATION RouterSpec
CONSTANTS
    p1 = p1
    p2 = p2
    left = left
    right = right
    key = key
    button = button
    None = None
    Peers = {p1, p2}
    Edges = {left, right}
    Keys = {key}
    Buttons = {button}
    Layouts <- MCLayouts
    EpochMax = 2
    SeqMax = 3
    GenMax = 3
    TokenMax = 3
    RouteGenMax = 3
INVARIANTS
    RouterTypeOK
    ActiveTargetReachable
    ActiveOwesNothing
    PendingCoversHeld
    HeldIsOwed
    RecoveryIsDriven
PROPERTIES
    ReleaseBeforeHandback
    ReliableSequencesAdvance
    ImplementsControlSession
CHECK_DEADLOCK FALSE
