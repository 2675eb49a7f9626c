---------------------------- MODULE AssetInventory ----------------------------
(* The asset inventory and the settings it is found again by: the build,   *)
(* archive and restoration of AuditService                                 *)
(* (src/desktop/internal/api/ipc/audit.go) over the ConfigStore            *)
(* (src/desktop/internal/api/ipc/extractsvc.go), which the settings page   *)
(* and the status poller (App.rememberAppName) write too.                  *)
(*                                                                         *)
(* An inventory is the app it was built for and the number of its build.   *)
(* config.json is replaced by a rename under the store's mutex: one step.  *)
EXTENDS Naturals

CONSTANTS
    Targets,    \* mini programs with an appid
    NoApp,      \* the empty appid
    MaxBuilds,  \* bound: builds accepted
    MaxSaves,   \* bound: settings saved, and names learned
    MaxStarts   \* bound: restarts of the shell

ASSUME NoAppIsNone == NoApp \notin Targets
ASSUME InventoryBounds == MaxBuilds \in Nat /\ MaxSaves \in Nat /\ MaxStarts \in Nat

VARIABLES
    config,     \* config.json: the asset target, a learned name, a setting
    archive,    \* assets/<appid>.json
    inventory,  \* AuditService.inventory, with builtAppID and builtAt
    building,   \* the accepted build, with assetsRun
    taskPhase,  \* the task of each build
    learner,    \* RememberAppName: the config it loaded
    saved,      \* what each key was last saved as
    straddled,  \* keys saved between a learner's load and its save
    starts      \* restarts so far

inventoryVars == <<config, archive, inventory, building, taskPhase,
                   learner, saved, straddled, starts>>

Keys == {"target", "name", "setting"}
Nothing == [app |-> NoApp, at |-> 0]
Inventories == [app : Targets \cup {NoApp}, at : 0 .. MaxBuilds]
NoBuild == [pc |-> "idle", built |-> Nothing]
NoLearner == [pc |-> "idle", loaded |-> [target |-> NoApp, name |-> 0, setting |-> 0]]

InventoryInit ==
    /\ config = NoLearner.loaded /\ saved = config /\ straddled = {}
    /\ archive = [a \in Targets |-> 0]
    /\ inventory = Nothing
    /\ building = NoBuild /\ taskPhase = [b \in 1 .. MaxBuilds |-> "none"]
    /\ learner = NoLearner /\ starts = 0

-----------------------------------------------------------------------------
\* ConfigStore.Save merges a patch under the store's mutex.
SaveKey(k, v) ==
    /\ config' = [config EXCEPT ![k] = v] /\ saved' = [saved EXCEPT ![k] = v]
    /\ straddled' = IF learner.pc = "loaded" THEN straddled \cup {k} ELSE straddled

\* config.save of the settings page.
SaveSetting ==
    /\ saved.setting < MaxSaves
    /\ SaveKey("setting", saved.setting + 1)
    /\ UNCHANGED <<archive, inventory, building, taskPhase, learner, starts>>

\* RememberAppName loads the whole config in a lock section of its own ...
LoadNames ==
    /\ learner.pc = "idle"
    /\ learner' = [pc |-> "loaded", loaded |-> config]
    /\ UNCHANGED <<config, archive, inventory, building, taskPhase, saved, straddled, starts>>

\* Mutant: the registry keeps the one learned name, and nothing else.
SaveNameAlone ==
    /\ learner.pc = "loaded" /\ learner.loaded.name < MaxSaves
    /\ config' = [NoLearner.loaded EXCEPT !.name = learner.loaded.name + 1]
    /\ saved' = [saved EXCEPT !.name = learner.loaded.name + 1]
    /\ learner' = NoLearner
    /\ UNCHANGED <<archive, inventory, building, taskPhase, straddled, starts>>

\* ... and saves all of it back, with the name merged in.
SaveName ==
    /\ learner.pc = "loaded" /\ learner.loaded.name < MaxSaves
    /\ config' = [learner.loaded EXCEPT !.name = @ + 1]
    /\ saved' = [saved EXCEPT !.name = learner.loaded.name + 1]
    /\ learner' = NoLearner
    /\ UNCHANGED <<archive, inventory, building, taskPhase, straddled, starts>>

\* A name the registry has already needs no write.
NameIsKnown ==
    /\ learner.pc = "loaded" /\ learner' = NoLearner
    /\ UNCHANGED <<config, archive, inventory, building, taskPhase, saved, straddled, starts>>

-----------------------------------------------------------------------------
\* AssetsScan accepts one build at a time; the empty appid is every app.
AssetsScan(a) ==
    /\ building = NoBuild
    /\ \E b \in 1 .. MaxBuilds :
         /\ taskPhase[b] = "none" /\ \A c \in 1 .. MaxBuilds : c < b => taskPhase[c] # "none"
         /\ taskPhase' = [taskPhase EXCEPT ![b] = "running"]
         /\ building' = [pc |-> "reading", built |-> [app |-> a, at |-> b]]
    /\ UNCHANGED <<config, archive, inventory, learner, saved, straddled, starts>>

EndBuild(phase) ==
    /\ taskPhase' = [taskPhase EXCEPT ![building.built.at] = phase]
    /\ building' = NoBuild

\* The records cannot be read, the build fails or was cancelled.
BuildFails ==
    /\ building.pc = "reading" /\ EndBuild("failed")
    /\ UNCHANGED <<config, archive, inventory, learner, saved, straddled, starts>>

\* The inventory and what identifies it are replaced in one lock section ...
BuildLands ==
    /\ building.pc = "reading"
    /\ inventory' = building.built
    /\ building' = [building EXCEPT !.pc = "remember"]
    /\ UNCHANGED <<config, archive, taskPhase, learner, saved, straddled, starts>>

\* ... the target is remembered ...
RememberTarget ==
    /\ building.pc = "remember"
    /\ building' = [building EXCEPT !.pc = "archive"]
    /\ IF building.built.app = NoApp THEN UNCHANGED <<config, saved, straddled>>
       ELSE SaveKey("target", building.built.app)
    /\ UNCHANGED <<archive, inventory, taskPhase, learner, starts>>

\* ... and the inventory archived under the target's appid.
SaveArchive ==
    /\ building.pc = "archive" /\ EndBuild("done")
    /\ archive' = IF building.built.app = NoApp THEN archive
                  ELSE [archive EXCEPT ![building.built.app] = building.built.at]
    /\ UNCHANGED <<config, inventory, learner, saved, straddled, starts>>

-----------------------------------------------------------------------------
\* What NewAuditService restores: the archive of the remembered target.
RestoredFor(target) ==
    IF target = NoApp \/ archive[target] = 0 THEN Nothing
    ELSE [app |-> target, at |-> archive[target]]

\* The process dies, at any point, and the shell is started again.
RestartShell ==
    /\ starts < MaxStarts /\ starts' = starts + 1
    /\ inventory' = RestoredFor(config.target)
    /\ taskPhase' = IF building = NoBuild THEN taskPhase
                    ELSE [taskPhase EXCEPT ![building.built.at] = "died"]
    /\ building' = NoBuild /\ learner' = NoLearner
    /\ UNCHANGED <<config, archive, saved, straddled>>

InventoryNext ==
    \/ SaveSetting \/ LoadNames \/ SaveName \/ NameIsKnown
    \/ \E a \in Targets \cup {NoApp} : AssetsScan(a)
    \/ BuildFails \/ BuildLands \/ RememberTarget \/ SaveArchive
    \/ RestartShell

InventorySpec == InventoryInit /\ [][InventoryNext]_inventoryVars

-----------------------------------------------------------------------------
\* Every variable has its type.
InventoryTypeOK ==
    /\ config \in [target : Targets \cup {NoApp}, name : 0 .. MaxSaves, setting : 0 .. MaxSaves]
    /\ saved \in [target : Targets \cup {NoApp}, name : 0 .. MaxSaves, setting : 0 .. MaxSaves]
    /\ archive \in [Targets -> 0 .. MaxBuilds]
    /\ inventory \in Inventories
    /\ building \in [pc : {"idle", "reading", "remember", "archive"}, built : Inventories]
    /\ taskPhase \in [1 .. MaxBuilds -> {"none", "running", "done", "failed", "died"}]
    /\ learner.pc \in {"idle", "loaded"}
    /\ straddled \subseteq Keys /\ starts \in 0 .. MaxStarts

(* A restart finds the inventory the page shows: with no build under way,  *)
(* the target and its archive are those of the loaded inventory, after any *)
(* deaths and failed builds, unless a learned name put an older config     *)
(* back (audit.go: "a restart restores the matching inventory").           *)
RestartFindsInventory ==
    building = NoBuild /\ inventory.app # NoApp /\ "target" \notin straddled =>
        /\ config.target = inventory.app
        /\ archive[inventory.app] = inventory.at

(* A saved key stays saved, unless it was saved between the load and the   *)
(* save of a learned name, which puts the whole loaded config back.        *)
OnlyStraddledSavesAreLost ==
    \A k \in Keys : k \notin straddled => config[k] = saved[k]

\* The two together: what survives a restart.
InventoryIsKept == RestartFindsInventory /\ OnlyStraddledSavesAreLost

==============================================================================
