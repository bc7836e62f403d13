SPECIFICATION Spec
CONSTANTS
    scanned = scanned
    empty = empty
    Contents <- MCContents
    NoRow = NoRow
    Durable = FALSE
    MaxSnapshots = 4
    MaxInterruptions = 3
INVARIANT TypeOK
INVARIANT AtMostOneCurrent
INVARIANT ReturnedIsCurrent
INVARIANT LineageIsOlder
INVARIANT RootsComeFromInterruptions
INVARIANT ManifestsMatchRows
PROPERTY ImplementsHistory
