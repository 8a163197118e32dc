SPECIFICATION FairSpec
CONSTANTS
    d1 = d1
    d2 = d2
    h1 = h1
    none = none
    Devices <- MCDevices
    NoDevice = none
    EpochWidth = 3
    Levels <- MCLevels
    PressThreshold = 50
    ReleaseThreshold = 25
    Heroes <- OneHero
    NoHero = none
INVARIANTS
    OneHolder
    RequestIsHold
    NoStuckShift
    SwingCovered
PROPERTIES
    EdgesAreReal
    OneRope
    EffectsComplete
    TriggerWithdrawn
