SPECIFICATION ActorSpec
CONSTANTS
    o1 = o1
    o2 = o2
    key = key
    k2 = k2
    button = button
    None = None
    Owners = {o1, o2}
    Keys = {key, k2}
    Buttons = {}
    Classes = {}
    EpochMax = 2
    SeqMax = 1
    ReliableCapacity = 1
    ControlCapacity = 2
    SegmentCapacity = 1
    ComponentCapacity = 1
INVARIANTS
    ActorTypeOK
    HeldIsAccounted
SYMMETRY ActorSymmetry
CHECK_DEADLOCK FALSE
