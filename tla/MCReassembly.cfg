SPECIFICATION HistSpec
CONSTANTS
    p1 = p1
    c1 = c1
    web = web
    Ptr = {p1}
    Endpoint <- MCEndpoint
    SeqSpace = 16
    Null = Null
    TcpTimeout = 3
    FinTimeout = 1
    RmemMax = 4
    MaxTime = 1
    Packets <- MCPackets
    Garbage <- MCGarbage
INVARIANTS
    DeliveredInOrder
    DeliveredPromptly
    RmemAccounting
PROPERTIES
    ClosedWhenComplete
    CallReturns
