SPECIFICATION Spec
CONSTANTS
    SelfPosts = {"atOnce", "inTurn"}
    MaxChanges = 3
INVARIANTS
    TypeOK
    TextureIsKnown
    FrameIsFresh
    NothingDangles
    NothingLeft
CHECK_DEADLOCK FALSE
