SPECIFICATION Spec
CONSTANTS
    d1 = d1
    d2 = d2
    h1 = h1
    none = none
    Devices <- OneDevice
    NoDevice = none
    EpochWidth = 3
    Levels <- MCLevels
    PressThreshold = 50
    ReleaseThreshold = 25
    Heroes <- OneHero
    NoHero = none
INVARIANT
    FocusForcesUp
