SPECIFICATION Spec
CONSTANTS
    h1 = h1
    h2 = h2
    g1 = g1
    g2 = g2
    a1 = a1
    a2 = a2
    Margin = 1
    Hunters = {h1, h2}
    NoHunter = NoHunter
    Managers = {g1, g2}
    Addresses = {a1, a2}
    NoMover = NoMover
    Registries <- MCRegistries
    Banks <- MCBanks
    MaxCandidates = 2
    GenerationWidth = 3
    MaximumAge = 1
    MaxSpawns <- MCMaxSpawns
SYMMETRY Symmetry
INVARIANTS
    RopeOfProvedMover
    RopeWithinLease
    ChoiceIsBest
