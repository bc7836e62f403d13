SPECIFICATION Spec
CONSTANTS
    c1 = c1
    c2 = c2
    Consumers = {c1, c2}
    Partitions <- MCPartitions
    Keys <- MCKeys
    PartitionOf <- HashedTwo
    Malformed = Malformed
    NoOwner = NoOwner
    Ghost = Ghost
    NoEvent = NoEvent
    MaxLog = 2
    Budget <- Rebalances
SYMMETRY ConsumerSymmetry
INVARIANT CommittedIsWritten
PROPERTY ImplementsDelivery
