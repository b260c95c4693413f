SPECIFICATION HttpSpec
CONSTANTS
    p1 = p1
    p2 = p2
    c1 = c1
    c2 = c2
    c3 = c3
    web = web
    Ptr = {p1, p2}
    Endpoint <- MCEndpoint
    HttpServer = {web}
    SeqSpace = 8
    Null = Null
    TcpTimeout = 2
    FinTimeout = 1
    RmemMax = 2
    MaxTime = 2
    Packets <- MCPackets
    Garbage <- MCGarbage
PROPERTY
    NoEntryBefore
