SPECIFICATION Spec
CONSTANTS
    Live = Live
    BreakOne = BreakOne
    BreakTwo = BreakTwo
    Scene = {Live, BreakOne, BreakTwo}
    NoScene = NoScene
    NoData = NoData
    HomeScene = Live
    ModeChoice <- ThreeModes
    SettingsChoice <- DefaultChoice
    StoredChoice <- NoFile
    WatermarkAvailable = TRUE
    UserAction = {"dialog"}
    MaxModeChanges = 2
    MaxUserActions = 1
INVARIANTS
    NoLastingExposure
