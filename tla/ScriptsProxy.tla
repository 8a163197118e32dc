----------------------------- MODULE ScriptsProxy -----------------------------
(***************************************************************************)
(* The winmm proxy (ScriptsProxy/dllmain.cpp): forwards to the real DLL,   *)
(* and in the game itself hooks ParseArgs to load and enable the scripts   *)
(* of scripts.txt, of which the mod is one.  Enabling the mod is the start *)
(* of ModStart, on the thread that parses the arguments; others may start  *)
(* the mod at the same time through its exports.                           *)
(***************************************************************************)
EXTENDS ModStart, Sequences, Functions

CONSTANTS
    Exports,        \* kWinmmExportNames
    Hosts,          \* processes the proxy may be loaded into
    Directories,    \* DLL directories the process may have had
    Loader,         \* the starter that calls ParseArgs
    Scripts,        \* names of scripts
    Mod,            \* the script that is the mod
    ScriptLists,    \* what scripts.txt may hold
    Loadable,       \* scripts that are in the scripts' folder, and load
    MaxParses       \* bound: calls of ParseArgs

ASSUME ProxyAssumption ==
    /\ Loader \in Starters
    /\ Loadable \subseteq Scripts /\ Mod \in Loadable
    /\ \A file \in ScriptLists : file \in Seq(Scripts)
    /\ MaxParses \in Nat

VARIABLES
    proxy,          \* absent, forwarding, hooked, detached or refused
    host,           \* the process
    step,           \* of the thread that calls ParseArgs
    parses,         \* calls of ParseArgs so far
    dllDirectory,   \* of the process, where LoadLibrary looks for scripts
    pre,            \* the buffer of that name
    lines,          \* of scripts.txt, still to be loaded
    scripts,        \* the vector of loaded scripts
    index,          \* of the script to be enabled
    listed,         \* history: scripts of the scripts.txt of this call
    enabled         \* history: scripts this call has enabled

loadVars == <<dllDirectory, pre, lines, scripts, index, listed, enabled>>
proxyVars == <<proxy, host, step, parses, loadVars>>
vars == <<modVars, proxyVars>>

Init ==
    /\ StartInit
    /\ proxy = "absent" /\ host \in Hosts
    /\ step = "game" /\ parses = 0
    /\ dllDirectory \in Directories /\ pre = "empty"
    /\ lines = <<>> /\ scripts = <<>> /\ index = 1
    /\ listed = {} /\ enabled = {}
-----------------------------------------------------------------------------
(* DllMain.                                                                *)
\* Every export is found in the real DLL, or none is forwarded.
SetupFunctions(exports) == Exports \subseteq exports

\* A path that does not fit the buffer is no host's; case does not matter.
IsMsmrHostProcess == host.pathFits /\ host.basename = "spider-man.exe"

\* InitSM2, or else InitOther: the first pattern found in the image.
Patterns == {"SM2", "Other"}
NativeParseArgs(found) == IF "SM2" \in found THEN {"SM2"} ELSE found

\* Only in the game is ParseArgs looked for and hooked, if it can be.
Attach ==
    /\ proxy = "absent"
    /\ \E exports \in SUBSET Exports, found \in SUBSET Patterns, hooks \in BOOLEAN :
         proxy' = IF ~SetupFunctions(exports) THEN "refused"
                  ELSE IF IsMsmrHostProcess /\ NativeParseArgs(found) # {} /\ hooks
                    THEN "hooked" ELSE "forwarding"
    /\ UNCHANGED <<modVars, host, step, parses, loadVars>>

\* The process ends.
Detach ==
    /\ proxy \in {"forwarding", "hooked"} /\ step = "game"
    /\ proxy' = "detached"
    /\ UNCHANGED <<modVars, host, step, parses, loadVars>>
-----------------------------------------------------------------------------
(* The hook of ParseArgs, after the native call.                           *)
ParseArgs(injectScripts) ==
    /\ proxy = "hooked" /\ step = "game" /\ parses < MaxParses
    /\ parses' = parses + 1
    /\ step' = IF injectScripts THEN "inject" ELSE "game"
    /\ listed' = {} /\ enabled' = {}
    /\ UNCHANGED <<modVars, proxy, host, dllDirectory, pre, lines, scripts,
                   index>>

\* What GetDllDirectoryA leaves in the buffer: the empty string for a
\* directory that was never set, and for one that does not fit it whatever
\* the buffer held before; the result that would tell is not looked at.
DirectoryBuffer(directory) ==
    IF directory = "long" THEN {"empty", "junk"}
    ELSE {IF directory = "unset" THEN "empty" ELSE directory}

\* InjectSelectedScripts up to its loop.  It returns when the directory
\* cannot be set; and, from the scripts' folder, when there is no scripts.txt.
OpenScripts ==
    /\ step = "inject"
    /\ pre' \in DirectoryBuffer(dllDirectory)
    /\ \/ /\ step' = "game"
          /\ dllDirectory' \in {dllDirectory, "scripts"}
          /\ UNCHANGED <<lines, listed>>
       \/ \E file \in ScriptLists :
            /\ step' = "load" /\ dllDirectory' = "scripts"
            /\ lines' = file /\ listed' = Range(file)
    /\ UNCHANGED <<modVars, proxy, host, parses, scripts, index, enabled>>

Loads(script) == script \in Loadable /\ dllDirectory = "scripts"

\* A script that does not load ends the call (mutant).
LoadScriptOrReturn ==
    /\ step = "load" /\ lines # <<>>
    /\ step' = IF Loads(Head(lines)) THEN "load" ELSE "game"
    /\ lines' = Tail(lines)
    /\ scripts' = IF Loads(Head(lines)) THEN Append(scripts, Head(lines))
                  ELSE scripts
    /\ UNCHANGED <<modVars, proxy, host, parses, dllDirectory, pre, index,
                   listed, enabled>>

\* What does not load is reported and passed over.
LoadScript ==
    /\ step = "load" /\ lines # <<>>
    /\ lines' = Tail(lines)
    /\ scripts' = IF Loads(Head(lines)) THEN Append(scripts, Head(lines))
                  ELSE scripts
    /\ UNCHANGED <<modVars, proxy, host, step, parses, dllDirectory, pre,
                   index, listed, enabled>>

\* The buffer is set as it is, the empty string too, which is not the unset
\* directory; nobody looks whether that has failed.
RestoreDirectory ==
    /\ step = "load" /\ lines = <<>>
    /\ dllDirectory' \in {pre, dllDirectory}
    /\ step' = "enable" /\ index' = 1
    /\ UNCHANGED <<modVars, proxy, host, parses, pre, lines, scripts, listed,
                   enabled>>

\* All scripts loaded so far are enabled, those of earlier calls again; the
\* thread is in the script until it returns.
EnableScript ==
    /\ step = "enable" /\ index <= Len(scripts)
    /\ IF scripts[index] = Mod
         THEN ScriptEnable(Loader) /\ step' = "inScript"
         ELSE UNCHANGED modVars /\ step' = "enable"
    /\ index' = index + 1
    /\ enabled' = enabled \cup {scripts[index]}
    /\ UNCHANGED <<proxy, host, parses, dllDirectory, pre, lines, scripts,
                   listed>>

ScriptReturns ==
    /\ step = "inScript" /\ pc[Loader] = "out"
    /\ step' = "enable"
    /\ UNCHANGED <<modVars, proxy, host, parses, loadVars>>

AllEnabled ==
    /\ step = "enable" /\ index > Len(scripts)
    /\ step' = "game"
    /\ UNCHANGED <<modVars, proxy, host, parses, loadVars>>

Load ==
    \/ \E injectScripts \in BOOLEAN : ParseArgs(injectScripts)
    \/ OpenScripts \/ LoadScript \/ RestoreDirectory
    \/ EnableScript \/ ScriptReturns \/ AllEnabled

\* Only a process in which the mod is loaded can call its exports.
Loaded == Mod \in Range(scripts)
Run ==
    /\ proxy # "detached"
    /\ \/ \E s \in Starters \ {Loader} : Loaded /\ StartMod(s)
       \/ \E s \in Starters : Step(s)
       \/ \E t \in Threads : GameStep(t)
    /\ UNCHANGED proxyVars

Next == Attach \/ Detach \/ Load \/ Run

Spec == Init /\ [][Next]_vars
-----------------------------------------------------------------------------
(* When ParseArgs returns, every script that scripts.txt has listed and    *)
(* that loads has been enabled by this very call, whatever scripts before  *)
(* it in the list did not load, whatever was loaded by earlier calls, and  *)
(* whatever DLL directory the process had.                                 *)
ListedAreEnabled == step = "game" => listed \cap Loadable \subseteq enabled
=============================================================================
