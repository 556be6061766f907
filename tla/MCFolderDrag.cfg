SPECIFICATION Spec
CONSTANTS
    ChannelCap = 2
    ReceiptCap = 1
    PressMax = 2
    ReleaseMax = 3
    EpochMax = 2
    ConnMax = 2
    GenMax = 6
INVARIANTS DropFollowsDrag PlacedWhereReleased
CHECK_DEADLOCK FALSE
