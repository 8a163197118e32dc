SPECIFICATION Spec
CONSTANTS
    HookCount = 4
    MaxHeaps = 2
    loader = loader
    export = export
    mod = mod
    other = other
    broken = broken
    Starters = {loader, export}
    Threads = {t1}
    Executables <- MCExecutables
    Exports <- MCExports
    Hosts <- MCHosts
    Loader = loader
    Mod = mod
    ScriptLists <- MCScriptLists
    Loadable = {mod, other}
    Scripts = {mod, other, broken}
    Directories <- MCDirectories
    MaxParses = 2
CHECK_DEADLOCK FALSE
INVARIANTS
    ReadyMeansInstalled
    PatchedIsCallable
    FailedStartIsUndone
    NoDanglingCall
    ListedAreEnabled
PROPERTIES
    StartsOnce
