SPECIFICATION FairSpec
CONSTANTS
    Live = Live
    BreakOne = BreakOne
    BreakTwo = BreakTwo
    Scene = {Live, BreakOne, BreakTwo}
    NoScene = NoScene
    NoData = NoData
    HomeScene = Live
    ModeChoice <- ThreeModes
    SettingsChoice <- ImageChoice
    StoredChoice <- DamagedFile
    WatermarkAvailable = TRUE
    UserAction = {"dialog", "load", "remove", "switch"}
    MaxModeChanges = 2
    MaxUserActions = 2
INVARIANTS
    TypeOK
    Settled
    RightImage
    ReturnsHome
    SettingsSurvive
    ExposureIsRepaired
PROPERTIES
    ProtectionTakesHold
