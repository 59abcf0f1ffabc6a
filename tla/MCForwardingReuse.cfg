CONSTANTS
    Depth = 2
    IdxMod = 8
    CtrMod = 4
    MaxPackets = 4
SPECIFICATION Spec
INVARIANT SendsBackWhatItReceived
CHECK_DEADLOCK FALSE
