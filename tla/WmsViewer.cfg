SPECIFICATION FairSpec
CONSTANTS
    First = First
    Ocean = Ocean
    Ice = Ice
    NoTime = NoTime
    NoLayer = NoLayer
    NoSlider = NoSlider
    MaxPlays = 2
    Layers <- MCLayers
    Times <- MCTimes
    Contexts <- MCContexts
INVARIANTS
    TypeOK
    LayersFollowSlider
    LayersKeepOwnTimes
    StopMissesOnlyOvertaken
PROPERTY
    ShowsAllTimes
CHECK_DEADLOCK FALSE
