SPECIFICATION Spec
CONSTANTS
    Times <- MCTimes
    Sizes <- MCSizes
    Window = 3
    Step = 2
    MaxBuffer = 4
    MaxEvents = 6
INVARIANT TypeOK
INVARIANT TumblingExact
INVARIANT RecentWindowsExact
INVARIANT WindowsExact
INVARIANT MemoryBounded
CHECK_DEADLOCK FALSE
