SPECIFICATION Spec
CONSTANTS
    Motions = {"relative", "absolute"}
    Replacing = {"absolute"}
    RingCapacity = 2
    IngressCapacity = 2
    CaptureMax = 4
    CallbackMax = 2
    CrashMax = 1
INVARIANTS InCaptureOrder LossAnnounced NoMissedWakeup
PROPERTIES StopEndsCapture
CHECK_DEADLOCK FALSE
