SPECIFICATION Spec
CONSTANTS
    Live = Live
    BreakOne = BreakOne
    BreakTwo = BreakTwo
    Scene = {Live, BreakOne, BreakTwo}
    NoScene = NoScene
    NoData = NoData
    HomeScene = Live
    ModeChoice <- ThreeModes
    SettingsChoice <- NoChoice
    StoredChoice <- NoFile
    WatermarkAvailable = TRUE
    UserAction = {}
    MaxModeChanges = 4
    MaxUserActions = 0
INVARIANTS
    NoExposedFrame
