CONSTANTS
    FirstSeq = 7
    HbSend = 1
    HbTimeout = 2
    MaxPackets = 3
    MaxWrites = 3
SPECIFICATION FairSpec
INVARIANTS
    TypeOK
    SequenceAgreement
    EveryByteOnce
PROPERTIES
    SilentPeerDetected
