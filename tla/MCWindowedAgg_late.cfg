SPECIFICATION Spec
CONSTANTS
    Times <- MCTimes
    Sizes <- MCSizes
    Window = 3
    Step = 2
    MaxBuffer = 4
    MaxEvents = 6
INVARIANT WindowsReachNewest
CHECK_DEADLOCK FALSE
