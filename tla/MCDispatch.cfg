SPECIFICATION FairSpec
CONSTANTS
    pa = pa
    pb = pb
    pc = pc
    s1 = s1
    s2 = s2
    NWorkers = 2
    MaxSize = 1
    EmptyTask = EmptyTask
    Packet = {pa, pb, pc}
    Garbled = Garbled
    Refused = Refused
    Shard <- MCShard
    LinkType = "LINUX_SLL"
    Frames <- SllFileFrames
    Signals = {s1}
    MaxFrames = 3
INVARIANTS
    CopiesAccounted
    QueueBounded
    RegisteredBeforeCapture
    CaptureOutlivesHandlers
    EndedWorkersAreDrained
PROPERTIES
    ServiceSpec
    SignalStops
    LoopEndStops
