SPECIFICATION BatchSpec
CONSTANTS
    u1 = u1
    u2 = u2
    c1 = c1
    c2 = c2
    Today = 10
    Samples <- MCSamples
    Contents <- MCContents
    NoRow = NoRow
    Durable = FALSE
    MaxRuns = 2
    MaxSnapshots = 2
    MaxInterruptions = 1
INVARIANT BatchTypeOK
INVARIANT TableIsExact
INVARIANT SnapshotsDescribeFiles
CHECK_DEADLOCK FALSE
