CONSTANTS
    FirstSeq = 7
    HbSend = 1
    HbTimeout = 2
    MaxPackets = 1
    MaxWrites = 3
SPECIFICATION Spec
INVARIANT WireInOrder
