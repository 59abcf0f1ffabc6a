\* Two-entry rings, 3-bit indices: both rings and both counters wrap.
CONSTANTS
    Depth = 2
    IdxMod = 8
    CtrMod = 4
    MaxPackets = 10
SPECIFICATION FairSpec
INVARIANTS
    TypeInv
    PollTruthful
    PacketInHand
    CqOverrunBounded
    InFlightIntact
PROPERTIES
    ImplementsFifo
    EverythingForwarded
CHECK_DEADLOCK FALSE
