SPECIFICATION Spec
CONSTANTS
    Installers = {i1, i2}
    NoInstaller = NoInstaller
    Order <- MCOrder
    Dlls <- MCDlls
    i1 = i1
    i2 = i2
SYMMETRY Symmetry
PROPERTIES
    SuccessIsComplete
