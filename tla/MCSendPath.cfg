\* A first packet against two packets of the handler, on two WQEs.
CONSTANTS
    Depth = 2
    Macs = {mac, peer}
    Mac = mac
    FirstPackets = 1
    MaxPackets = 2
SPECIFICATION Spec
INVARIANTS
    TypeInv
    AnnouncedIntact
    NothingUnposted
    ErrorsExplained
    SendsMatchRules
PROPERTY
    SkewOnlyInOverlap
CHECK_DEADLOCK FALSE
