SPECIFICATION Spec
CONSTANTS
    scanned = scanned
    empty = empty
    Contents <- MCContents
    NoRow = NoRow
    Durable = TRUE
    MaxSnapshots = 2
    MaxInterruptions = 1
INVARIANT CurrentHasManifest
