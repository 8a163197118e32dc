SPECIFICATION DisturbedSpec
CONSTANTS
    Installers = {i1}
    NoInstaller = NoInstaller
    Order <- MCOrder
    Dlls <- MCDlls
    i1 = i1
PROPERTIES
    ReplacedWereBackedUp
