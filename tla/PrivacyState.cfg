SPECIFICATION FairSpec
CONSTANTS
    ClientId = {w1, w2}
    Anonymous = Anonymous
    LivenessTimeout = 1
    MaxLag = 1
    MaxConnections = 3
    MaxSequence = 1
INVARIANTS
    TypeOK
    UniqueClient
    LostAtMostOnce
PROPERTIES
    UncoverNeedsWord
    LossCovers
    KeepsLedger
    SilentClientDropped
