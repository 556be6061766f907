SPECIFICATION Spec
CONSTANTS
    t1 = t1
    t2 = t2
    Ids = {t1, t2}
    Size = 2
    MaxActive = 2
    MaxPending = 1
    MaxPublished = 3
    InboxCap = 2
    MaxGen = 2
    MaxCrash = 1
CONSTRAINT MCBound
INVARIANTS QuotaKept
PROPERTIES ImplementsHandover
CHECK_DEADLOCK FALSE
SYMMETRY MCSymmetry
