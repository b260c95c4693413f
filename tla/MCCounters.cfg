SPECIFICATION FairSpec
CONSTANTS
    w1 = w1
    w2 = w2
    Worker = {w1, w2}
    Free = Free
    TcpPorts = {80}
    MaxPackets = 4
    MaxSecond = 2
INVARIANTS
    CountedExactlyOnce
    OneReportPerSecond
PROPERTIES
    TimerGivenBack
CHECK_DEADLOCK FALSE
