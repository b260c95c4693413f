SPECIFICATION HistSpec
CONSTANTS
    q1 = q1
    q2 = q2
    q3 = q3
    a = a
    b = b
    i = i
    j = j
    Ptr = {q1, q2, q3}
    Dst = {a, b}
    Id = {i, j}
    Null = Null
    Packets <- MCPackets
    HighThresh = 1000
    LowThresh = 400
    QueueSize = 160
    FragSize = 48
    MaxLen = 56
    FragTime = 1
    IntLimit = 100
    MaxTime = 3
SYMMETRY Places
INVARIANTS
    TimersLinked
    HostsHoldQueues
    MemoryAccounting
    FragmentsApart
    LifetimeKept
PROPERTIES
    ServiceSpec
    CompleteIsDelivered
    CallAdvances
