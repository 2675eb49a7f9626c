------------------------------- MODULE MCAgent -------------------------------
(* What agents and pages of the shell work on, one component at a time:    *)
(* `part` names the one that moves, the others stay in an initial state.   *)
EXTENDS McpSession, UpdateDownload, AssetInventory, Extraction, CodeSearch,
        AgentStream, MiniappTools, PageStream, TrafficStore, StoreOpen

VARIABLE part

workVars ==
    <<mcpVars, downloadVars, inventoryVars, extractionVars, searchVars>>
dataVars == <<readsVars, toolVars, vars, trafficVars, openVars>>
agentVars == <<workVars, dataVars, part>>

Parts == {"session", "update", "inventory", "outputs", "search",
          "reads", "tools", "stream", "history", "open"}

Old == [numbers |-> <<2, 9>>, pre |-> 0]
Candidate == [numbers |-> <<2, 10>>, pre |-> 1]
New == [numbers |-> <<2, 10, 0>>, pre |-> 0]
MCReleases == {Old, Candidate, New}
MCShards == <<"core", "runtime">>
MCRequired == {"core"}

\* Two programs capture a call in one millisecond with one number.
MCCaptured ==
    [c \in 1..3 |-> [at |-> IF c = 3 THEN 2 ELSE 1, seq |-> 1,
                     owner |-> IF c = 2 THEN "cloud" ELSE "wxapi"]]
MCScripts == <<"001", "002", "003">>

AgentInit ==
    /\ McpInit /\ InventoryInit /\ ExtractionInit
    /\ part \in Parts
    /\ DownloadInit /\ (part # "update" => manifest.build = 1)
    /\ SearchInit /\ (part # "search" => files = <<>> /\ match.runes = 1)
    /\ ToolsInit /\ (part # "tools" => TopRoute = CHOOSE r \in Routes : TRUE)
    /\ ReadsInit /\ Init /\ TrafficInit /\ OpenInit

WorkNext ==
    \/ /\ part = "session" /\ McpNext
       /\ UNCHANGED <<downloadVars, inventoryVars, extractionVars, searchVars>>
    \/ /\ part = "update" /\ DownloadNext
       /\ UNCHANGED <<mcpVars, inventoryVars, extractionVars, searchVars>>
    \/ /\ part = "inventory" /\ InventoryNext
       /\ UNCHANGED <<mcpVars, downloadVars, extractionVars, searchVars>>
    \/ /\ part = "outputs" /\ ExtractionNext
       /\ UNCHANGED <<mcpVars, downloadVars, inventoryVars, searchVars>>
    \/ /\ part = "search" /\ SearchNext
       /\ UNCHANGED <<mcpVars, downloadVars, inventoryVars, extractionVars>>

DataNext ==
    \/ /\ part = "reads" /\ ReadsNext
       /\ UNCHANGED <<toolVars, vars, trafficVars, openVars>>
    \/ /\ part = "tools" /\ ToolsNext
       /\ UNCHANGED <<readsVars, vars, trafficVars, openVars>>
    \/ /\ part = "stream" /\ Next
       /\ UNCHANGED <<readsVars, toolVars, trafficVars, openVars>>
    \/ /\ part = "history" /\ TrafficNext
       /\ UNCHANGED <<readsVars, toolVars, vars, openVars>>
    \/ /\ part = "open" /\ StoreOpenNext
       /\ UNCHANGED <<readsVars, toolVars, vars, trafficVars>>

AgentNext ==
    \/ WorkNext /\ UNCHANGED <<dataVars, part>>
    \/ DataNext /\ UNCHANGED <<workVars, part>>

AgentSpec == AgentInit /\ [][AgentNext]_agentVars

\* Every variable of every part has its type.
AgentTypeOK ==
    /\ McpTypeOK /\ DownloadTypeOK /\ InventoryTypeOK
    /\ ExtractionTypeOK /\ SearchTypeOK
    /\ AgentStreamTypeOK /\ ToolsTypeOK /\ TypeOK
    /\ TrafficTypeOK /\ StoreOpenTypeOK
==============================================================================
