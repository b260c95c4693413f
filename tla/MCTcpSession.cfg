SPECIFICATION Spec
CONSTANTS
    d1 = d1
    d2 = d2
    e1 = e1
    e2 = e2
    c1 = c1
    c2 = c2
    web = web
    Ptr = {d1, d2}
    Entry = {e1, e2}
    Endpoint = {c1, c2, web}
    Null = Null
    Packets <- MCPackets
    TimeoutSeconds = 3
    MaxTime = 5
    MaxPackets = 3
SYMMETRY Places
INVARIANTS
    SessionsHaveEntries
    EntriesFindTheirOwn
PROPERTIES
    ServiceSpec
