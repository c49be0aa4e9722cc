SPECIFICATION FairSpec
CONSTANTS
    w1 = w1
    ClientId = {w1}
    Anonymous = Anonymous
    LivenessTimeout = 0
    MaxLag = 0
    MaxSequence = 0
    MaxConnections = 1
    SentFrames = {}
    MaxUnread = 0
    MaxMoves = 0
    WakeAttempts = 2
    PromptAcceptor = FALSE
PROPERTIES
    StopReturns
