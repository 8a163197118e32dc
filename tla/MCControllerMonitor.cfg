SPECIFICATION MonitorSpec
CONSTANTS
    Values <- MCValues
    PressThreshold <- MCPress
    ReleaseThreshold <- MCRelease
    Epochs <- MCEpochs
INVARIANTS
    HoldJustified
    CaptureConsistent
    TieStartsNothing
PROPERTIES
    FreshPressOnly
    QuarantineUntilNeutral
    EdgesReportedOnce
