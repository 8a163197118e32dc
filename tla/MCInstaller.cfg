SPECIFICATION Spec
CONSTANTS
    Installers = {i1, i2}
    NoInstaller = NoInstaller
    Order <- ThreeFiles
    Dlls <- TwoDlls
    i1 = i1
    i2 = i2
SYMMETRY Symmetry
INVARIANTS
    OneCommitter
PROPERTIES
    NothingLost
    RollBackRestores
    ListedIsInstalled
    UndisturbedIsComplete
