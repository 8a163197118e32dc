SPECIFICATION Spec
CONSTANTS
    m1 = m1
    m2 = m2
    NoMachine = NoMachine
    Machines <- OneMachine
    Capacity = 2
    SequenceWidth = 4
    MaxTokens = 1
    MaxQueued = 2
PROPERTIES
    ReturnedIsRejected
