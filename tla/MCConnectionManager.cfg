SPECIFICATION Spec
CONSTANTS
    EventCapacity = 1
    NetworkCapacity = 1
    GenMax = 2
    ApprovalMax = 1
INVARIANTS TablesAgree EventsInOrder DaemonAgrees
PROPERTIES ApprovalStands
CHECK_DEADLOCK FALSE
