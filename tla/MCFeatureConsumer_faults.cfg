SPECIFICATION FairSpec
CONSTANTS
    c1 = c1
    c2 = c2
    Consumers = {c1, c2}
    Partitions <- OnePartition
    Keys <- MCKeys
    PartitionOf <- HashedOne
    Malformed = Malformed
    NoOwner = NoOwner
    Ghost = Ghost
    NoEvent = NoEvent
    MaxLog = 2
    Budget <- EachOnce
INVARIANT TypeOK
INVARIANT IInv
INVARIANT CommittedIsHandled
INVARIANT OneUncommitted
INVARIANT NewestWins
PROPERTY OnlyZombiesGoBack
PROPERTY RedeliveryNeedsDisruption
PROPERTY EventuallyDrained
PROPERTY StopTerminates
