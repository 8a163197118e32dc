------------------------------ MODULE MCModStart ------------------------------
EXTENDS ScriptsProxy

CONSTANTS loader, export, mod, other, broken

Exact ==
    [readable |-> TRUE, wholeFileHash |-> "expected", header |-> "PE64",
     timestamp |-> "expected", imageSize |-> "expected", sections |-> "valid",
     textHash |-> "expected", signatures |-> "expected"]
MCExecutables ==
    {Exact, [Exact EXCEPT !.wholeFileHash = "other"],
     [Exact EXCEPT !.signatures = "other"]}
MCExports == {"timeGetTime", "joyGetPosEx"}
MCHosts ==
    {[pathFits |-> TRUE, basename |-> "spider-man.exe"],
     [pathFits |-> TRUE, basename |-> "crs-handler.exe"]}
MCScriptLists == {<<mod>>, <<broken, mod, other>>}
\* Never set, set to a path that fits the proxy's buffer, and to a longer one.
MCDirectories == {"unset", "short", "long"}
=============================================================================
