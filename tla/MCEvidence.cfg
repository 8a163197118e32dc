SPECIFICATION Spec
CONSTANTS
    m1 = m1
    m2 = m2
    NoMachine = NoMachine
    Machines <- MCMachines
    Capacity = 2
    SequenceWidth = 1
    MaxTokens = 2
    MaxQueued = 2
SYMMETRY Symmetry
INVARIANTS
    EvidenceOfHeldOnly
PROPERTIES
    OwnEvidenceOnly
    ReleasedIsRejected
    OneEnterPerTransition
