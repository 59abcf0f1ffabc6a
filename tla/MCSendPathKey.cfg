\* The program as main runs it: no scheduler, so only first packets are sent.
CONSTANTS
    Depth = 2
    Macs = {mac, peer}
    Mac = mac
    FirstPackets = 1
    MaxPackets = 0
SPECIFICATION Spec
INVARIANT FirstPacketSendable
CHECK_DEADLOCK FALSE
