SPECIFICATION Spec
CONSTANTS
    t1 = t1
    t2 = t2
    Threads <- MCThreads
    Partitions = {p1, p2}
    Capacity = 2
    MaxRetries = 1
    Calls <- MCCalls
    MaxRaises = 1
INVARIANT EachEventOnce
