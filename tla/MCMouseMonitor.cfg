SPECIFICATION MonitorSpec
INVARIANTS
    NoUnmatchedUp
    NoLeakedDown
    HoldHasButton
PROPERTIES
    OneRope
