SPECIFICATION Spec
CONSTANTS
    c1 = c1
    Consumers = {c1}
    Partitions <- OnePartition
    Keys <- MCKeys
    PartitionOf <- HashedOne
    Malformed = Malformed
    NoOwner = NoOwner
    Ghost = Ghost
    NoEvent = NoEvent
    MaxLog = 1
    Budget <- RedisFails
INVARIANT CommittedIsWritten
