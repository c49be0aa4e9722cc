SPECIFICATION FairSpec
CONSTANTS
    MaxFrameSize = 2
    SequenceLimit = 100
    BufferSize = 4
    Streams <- Conversations
    Claimed <- Others
INVARIANTS
    TypeOK
    BufferIsBounded
PROPERTIES
    ReadsLineByLine
CHECK_DEADLOCK FALSE
