------------------------------- MODULE MCShell -------------------------------
(* The shell's side and the bridge it drives, one component at a time:     *)
(* `part` names the one that moves, the others stay in their initial       *)
(* state.                                                                  *)
(*                                                                         *)
(* The session is checked in two halves, which share every action but one: *)
(* the capture without scripts, and the scripts without a capture.         *)
EXTENDS PageConsole, RuntimeLog, EngineSession, Navigator, FeederLifecycle,
        PausePolicy, H5Sessions, DebugTools, PageHooks, FridaRuntime, TargetProbe

VARIABLE part

engineVars == <<consoleVars, logVars, sessionVars, navVars, vars>>
bridgeVars == <<pauseVars, h5Vars, sourceVars, debugVars>>
outerVars == <<hookVars, fridaVars, probeVars>>
shellVars == <<engineVars, bridgeVars, outerVars, part>>

Parts == {"console", "log", "capture", "scripts", "navigator", "lifecycle",
          "pauses", "windows", "sources", "debugger", "hooks", "frida", "probes"}

ShellInit ==
    /\ ConsoleInit /\ LogInit /\ SessionInit /\ NavInit /\ Init
    /\ PauseInit /\ H5Init /\ SourcesInit /\ DebugInit
    /\ part \in Parts
    /\ HooksInit /\ (part # "hooks" => surface = "wxapi")
    /\ FridaInit /\ ProbeInit

CaptureNext == UNCHANGED inject /\ SessionNext
ScriptsNext == UNCHANGED presses /\ SessionNext

EngineNext ==
    \/ /\ part = "console" /\ ConsoleNext
       /\ UNCHANGED <<logVars, sessionVars, navVars, vars>>
    \/ /\ part = "log" /\ LogNext
       /\ UNCHANGED <<consoleVars, sessionVars, navVars, vars>>
    \/ /\ part = "capture" /\ CaptureNext
       /\ UNCHANGED <<consoleVars, logVars, navVars, vars>>
    \/ /\ part = "scripts" /\ ScriptsNext
       /\ UNCHANGED <<consoleVars, logVars, navVars, vars>>
    \/ /\ part = "navigator" /\ NavNext
       /\ UNCHANGED <<consoleVars, logVars, sessionVars, vars>>
    \/ /\ part = "lifecycle" /\ Next
       /\ UNCHANGED <<consoleVars, logVars, sessionVars, navVars>>

BridgeNext ==
    \/ /\ part = "pauses" /\ PauseNext
       /\ UNCHANGED <<h5Vars, sourceVars, debugVars>>
    \/ /\ part = "windows" /\ H5Next
       /\ UNCHANGED <<pauseVars, sourceVars, debugVars>>
    \/ /\ part = "sources" /\ SourcesNext
       /\ UNCHANGED <<pauseVars, h5Vars, debugVars>>
    \/ /\ part = "debugger" /\ DebugNext
       /\ UNCHANGED <<pauseVars, h5Vars, sourceVars>>

OuterNext ==
    \/ part = "hooks" /\ HooksNext /\ UNCHANGED <<fridaVars, probeVars>>
    \/ part = "frida" /\ FridaNext /\ UNCHANGED <<hookVars, probeVars>>
    \/ part = "probes" /\ ProbeNext /\ UNCHANGED <<hookVars, fridaVars>>

ShellNext ==
    \/ EngineNext /\ UNCHANGED <<bridgeVars, outerVars, part>>
    \/ BridgeNext /\ UNCHANGED <<engineVars, outerVars, part>>
    \/ OuterNext /\ UNCHANGED <<engineVars, bridgeVars, part>>

ShellSpec == ShellInit /\ [][ShellNext]_shellVars

\* Every variable of every part has its type.
ShellTypeOK ==
    /\ ConsoleTypeOK /\ LogTypeOK /\ SessionTypeOK /\ NavTypeOK /\ TypeOK
    /\ PauseTypeOK /\ H5TypeOK /\ SourcesTypeOK /\ DebugTypeOK
    /\ HooksTypeOK /\ FridaTypeOK /\ ProbeTypeOK
==============================================================================
