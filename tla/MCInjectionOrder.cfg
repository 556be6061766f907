SPECIFICATION FairActorSpec
CONSTANTS
    o1 = o1
    o2 = o2
    key = key
    k2 = k2
    button = button
    None = None
    Owners = {o1}
    Keys = {}
    Buttons = {button}
    Classes = {"Relative", "Axes"}
    EpochMax = 1
    SeqMax = 1
    ReliableCapacity = 1
    ControlCapacity = 2
    SegmentCapacity = 2
    ComponentCapacity = 2
INVARIANTS
    AdmissionMatchesGate
PROPERTIES
    
    LeaseEnforced
CHECK_DEADLOCK FALSE
