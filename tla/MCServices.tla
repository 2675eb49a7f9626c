----------------------------- MODULE MCServices -----------------------------
(* The services that must come to an end, one at a time: `part` names the  *)
(* one that moves, the others stay in their initial state, in which none   *)
(* of their fair actions can be taken.                                     *)
(*                                                                         *)
(* The update is three entries in the code's order: the executable and the *)
(* Core, both required, and one a release may omit; two are directories.   *)
(* It is checked in two halves: all the faults with one version to change  *)
(* to, and one crash with all of them.                                     *)
EXTENDS CoreProcess, ShellShutdown, ScanJobs, UpdateApply

VARIABLE part

servicesVars == <<coreVars, shutdownVars, scanVars, vars, part>>

Parts == {"core", "shutdown", "scan", "faults", "versions"}

ServicesInit ==
    CoreInit /\ ShutdownInit /\ ScanInit /\ Init /\ part \in Parts

ManyFaults == Next /\ staged'[MaxVersion] = {}
ManyVersions == Next /\ faults' = 0

ServicesNext ==
    \/ part = "core" /\ CoreNext /\ UNCHANGED <<shutdownVars, scanVars, vars, part>>
    \/ part = "shutdown" /\ ShutdownNext /\ UNCHANGED <<coreVars, scanVars, vars, part>>
    \/ part = "scan" /\ ScanNext /\ UNCHANGED <<coreVars, shutdownVars, vars, part>>
    \/ part = "faults" /\ ManyFaults /\ UNCHANGED <<coreVars, shutdownVars, scanVars, part>>
    \/ part = "versions" /\ ManyVersions /\ UNCHANGED <<coreVars, shutdownVars, scanVars, part>>

ServicesSpec ==
    /\ ServicesInit /\ [][ServicesNext]_servicesVars
    /\ CoreFairness /\ ShutdownFairness /\ ScanFairness /\ WF_vars(Startup)

\* Every variable of every part has its type.
ServicesTypeOK == CoreTypeOK /\ ShutdownTypeOK /\ ScanTypeOK /\ TypeOK

\* What was begun comes to its end: an abandoned Core is killed, the shutdown
\* closes the storage, an accepted scan is handed on, a launch comes up.
ServicesSettle ==
    AbandonedCoresDie /\ ShutdownEnds /\ AcceptedScansSettle /\ LaunchSettles
=============================================================================
