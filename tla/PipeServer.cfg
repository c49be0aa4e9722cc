SPECIFICATION FairSpec
CONSTANTS
    w1 = w1
    ClientId = {w1}
    Anonymous = Anonymous
    LivenessTimeout = 0
    MaxLag = 0
    MaxSequence = 1
    MaxConnections = 2
    SentFrames <- Vocabulary
    MaxUnread = 2
    MaxMoves = 8
    WakeAttempts = 2
    PromptAcceptor = TRUE
INVARIANTS
    TypeOK
    EveryEntryIsKept
    NothingOutlivesStop
PROPERTIES
    LossIsRecorded
    SensitiveArrives
    HangupIsNoticed
    StopReturns
