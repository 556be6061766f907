SPECIFICATION RuntimeSpec
CONSTANTS
    p1 = p1
    left = left
    key = key
    None = None
    Peers = {p1}
    Edges = {left}
    Keys = {key}
    Buttons = {}
    Layouts <- MCLayouts
    EpochMax = 2
    SeqMax = 3
    GenMax = 2
    TokenMax = 3
    RouteGenMax = 3
    ConnMax = 2
INVARIANTS
    RuntimeTypeOK
    LocalViewFollowsSession
    LanesFollowSession
    OneCarrierPerEpoch
CHECK_DEADLOCK FALSE
CONSTRAINT MCBound
