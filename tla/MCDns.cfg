SPECIFICATION FairSpec
CONSTANT Packets <- MCPackets
INVARIANTS
    SecondWalkFits
    BlocksOwned
    NamesAlive
PROPERTIES
    Returns
CHECK_DEADLOCK FALSE
