SPECIFICATION Spec
CONSTANTS
    w1 = w1
    w2 = w2
    r1 = r1
    r2 = r2
    Writers <- MCWriters
    Readers <- MCReaders
    FieldCount = 2
    Attempts = 2
    MaxSequence = 6
SYMMETRY MCSymmetry
INVARIANTS
    NoTornSnapshot
PROPERTIES
    ProofCurrent
    AtomicRegister
