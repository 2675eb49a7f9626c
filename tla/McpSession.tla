----------------------------- MODULE McpSession -----------------------------
(* The capture as the agent's tools keep it (src/desktop/internal/mcp/     *)
(* session_tools.go; hook_start and hook_stop in server.go): ensureHook,   *)
(* the generation recorded when a hook was installed, and the health check *)
(* stamped on the replies of a session whose capture is broken.  The tools *)
(* reach the feeder through the router's wxapi.start and wxapi.stop        *)
(* (ipc_bridge.go), as the panel does, and nothing orders them.            *)
(*                                                                         *)
(* One hook, since nothing relates the two.  The page keeps the audit      *)
(* object for as long as its realm lives, hooked or not.                   *)
EXTENDS Naturals, FiniteSets

CONSTANTS
    Agents,         \* requests the server handles at once
    MaxPageRealms,  \* bound: page realms
    MaxRenumberings,\* bound: how often the Core begins to number anew
    MaxSwitches     \* bound: requests of each agent and presses of the panel

ASSUME McpSessionBounds ==
    /\ MaxPageRealms \in Nat /\ MaxRenumberings \in Nat /\ MaxSwitches \in Nat

VARIABLES
    site,       \* the page: realm, generation, numbering, audit object, hooked
    feeding,    \* the feeder's running flag
    rehook,     \* autoInjectHooks still has to look at the realm
    installGen, \* installGen of the hook: Unwatched, or the recorded generation
    pinned,     \* history: [realm, numbering] the recorded hook was seen in
    req,        \* what each actor is doing
    answer,     \* the last answer of a tool, and what was true when it was given
    used        \* bound

mcpVars == <<site, feeding, rehook, installGen, pinned, req, answer, used>>

ThePanel == "panel"
Actors == Agents \cup {ThePanel}

Unwatched == [on |-> FALSE, gen |-> 0]
NowherePinned == [realm |-> 0, numbering |-> 0]
NoAnswer == [says |-> "nothing", object |-> FALSE, hooked |-> FALSE, excused |-> FALSE, alone |-> FALSE]
NoReq == [pc |-> "idle", tool |-> "none", forced |-> FALSE, gen |-> 0, seen |-> 0, at |-> 0,
          alone |-> TRUE]

McpInit ==
    /\ site = [realm |-> 1, gen |-> 1, numbering |-> 1, object |-> FALSE, hooked |-> FALSE]
    /\ feeding = FALSE /\ rehook = FALSE
    /\ installGen = Unwatched /\ pinned = NowherePinned
    /\ req = [a \in Actors |-> NoReq]
    /\ answer = NoAnswer
    /\ used = [a \in Actors |-> 0]

Go(a, pc) == req' = [req EXCEPT ![a].pc = pc]
End(a) == req' = [req EXCEPT ![a] = NoReq]
Here == [realm |-> site.realm, numbering |-> site.numbering]

Says(what, excused, alone) ==
    answer' = [says |-> what, object |-> site.object, hooked |-> site.hooked,
               excused |-> excused, alone |-> alone]

\* currentGeneration: a failed read is 0.
CurrentGeneration == {0, site.gen}

-----------------------------------------------------------------------------
(* The page and the connect-time injection.                                *)

NewPageRealm ==
    /\ site.realm < MaxPageRealms
    /\ site' = [site EXCEPT !.realm = @ + 1, !.gen = @ + 1, !.object = FALSE, !.hooked = FALSE]
    /\ rehook' = TRUE
    /\ UNCHANGED <<feeding, installGen, pinned, req, answer, used>>

\* A new Core, or a restarted engine, counts from one again.
Renumbered ==
    /\ site.numbering < MaxRenumberings /\ site.realm < MaxPageRealms
    /\ site' = [realm |-> site.realm + 1, gen |-> 1, numbering |-> site.numbering + 1,
                object |-> FALSE, hooked |-> FALSE]
    /\ rehook' = TRUE
    /\ UNCHANGED <<feeding, installGen, pinned, req, answer, used>>

\* autoInjectHooks: a running feeder gets its hook back, unless the evaluation
\* failed (no object) or the page refused (an object that hooks nothing).
Rehook ==
    /\ rehook /\ rehook' = FALSE
    /\ \/ feeding /\ \E hooked \in {TRUE, site.hooked} :
            site' = [site EXCEPT !.object = TRUE, !.hooked = hooked]
       \/ UNCHANGED site
    /\ UNCHANGED <<feeding, installGen, pinned, req, answer, used>>

-----------------------------------------------------------------------------
(* wxapi.start and wxapi.stop, for whoever asks.                           *)

\* What an actor does once start has succeeded.
AfterStart(a) == IF req[a].tool = "ensure" THEN "record" ELSE "done"

\* One actor switches the capture: no other at work has had it alone.
Crowd(a) == [b \in Actors |-> [req[b] EXCEPT !.alone = @ /\ b = a]]

\* A running feeder makes start a success at once.
StartFlag(a) ==
    /\ req[a].pc = "start"
    /\ IF feeding
       THEN Go(a, AfterStart(a)) /\ UNCHANGED feeding
       ELSE /\ feeding' = TRUE
            /\ req' = [Crowd(a) EXCEPT ![a].pc = "install"]
    /\ UNCHANGED <<site, rehook, installGen, pinned, answer, used>>

StartInstall(a) ==
    /\ req[a].pc = "install"
    /\ site' = [site EXCEPT !.object = TRUE, !.hooked = TRUE]
    /\ req' = [Crowd(a) EXCEPT ![a].pc = AfterStart(a), ![a].seen = site.realm]
    /\ UNCHANGED <<feeding, rehook, installGen, pinned, answer, used>>

StartFails(a) ==
    /\ req[a].pc = "install"
    /\ feeding' = FALSE
    /\ req' = [Crowd(a) EXCEPT ![a] = NoReq]
    /\ UNCHANGED <<site, rehook, installGen, pinned, answer, used>>

\* Stop ends the loop, and waits for an installation under way and for a loop
\* that was started before it got there; both handlers go on to the page.
StopFlag(a) ==
    /\ req[a].pc = "stop"
    /\ feeding' = FALSE
    /\ req' = [Crowd(a) EXCEPT ![a].pc = IF feeding THEN "wait" ELSE "uninstall"]
    /\ UNCHANGED <<site, rehook, installGen, pinned, answer, used>>

StopWait(a) ==
    /\ req[a].pc = "wait"
    /\ ~feeding /\ \A b \in Actors : req[b].pc # "install"
    /\ Go(a, "uninstall")
    /\ UNCHANGED <<site, feeding, rehook, installGen, pinned, answer, used>>

\* The uninstallation's failure is ignored.
StopUninstall(a) ==
    /\ req[a].pc = "uninstall"
    /\ site' \in {site, [site EXCEPT !.hooked = FALSE]}
    /\ req' = [Crowd(a) EXCEPT ![a].pc = CASE req[a].tool = "ensure" -> "start"
                                           [] req[a].tool = "hook_stop" -> "unwatch"
                                           [] OTHER -> "done"]
    /\ UNCHANGED <<feeding, rehook, installGen, pinned, answer, used>>

PanelPress ==
    /\ req[ThePanel].pc = "idle" /\ used[ThePanel] < MaxSwitches
    /\ used' = [used EXCEPT ![ThePanel] = @ + 1]
    /\ \E pc \in {"start", "stop"} : req' = [req EXCEPT ![ThePanel].pc = pc]
    /\ UNCHANGED <<site, feeding, rehook, installGen, pinned, answer>>

Done(a) ==
    /\ req[a].pc = "done" /\ End(a)
    /\ UNCHANGED <<site, feeding, rehook, installGen, pinned, answer, used>>

-----------------------------------------------------------------------------
(* ensureHook.                                                             *)

Tools == {"ensure", "hook_stop", "health"}

AskTool(a, tool) ==
    /\ req[a].pc = "idle" /\ used[a] < MaxSwitches
    /\ used' = [used EXCEPT ![a] = @ + 1]
    /\ \E forced \in {FALSE, tool = "ensure"} :
         req' = [req EXCEPT ![a] = [NoReq EXCEPT
                   !.tool = tool, !.forced = forced, !.at = site.realm,
                   !.alone = \A b \in Actors : req[b].pc \notin {"install", "wait", "uninstall"},
                   !.pc = CASE tool = "ensure" -> "stats" [] tool = "hook_stop" -> "stop"
                            [] OTHER -> "watches"]]
    /\ UNCHANGED <<site, feeding, rehook, installGen, pinned, answer>>

Restart(ran) == IF ran THEN "stop" ELSE "start"

\* <hook>.stats, which asks the shell alone and does not fail.
EnsureStats(a) ==
    /\ req[a].pc = "stats"
    /\ Go(a, IF feeding /\ ~req[a].forced THEN "current" ELSE Restart(feeding))
    /\ UNCHANGED <<site, feeding, rehook, installGen, pinned, answer, used>>

\* hookCurrent: the record, then the generation ...
EnsureCurrent(a) ==
    /\ req[a].pc = "current"
    /\ \E now \in CurrentGeneration :
         Go(a, IF installGen.on /\ installGen.gen = now THEN "alive" ELSE Restart(TRUE))
    /\ UNCHANGED <<site, feeding, rehook, installGen, pinned, answer, used>>

\* ... then the page: already running and installed, nothing to do.
EnsureAlive(a) ==
    /\ req[a].pc = "alive"
    /\ \E alive \in {site.object, FALSE} : Go(a, IF alive THEN "done" ELSE Restart(TRUE))
    /\ UNCHANGED <<site, feeding, rehook, installGen, pinned, answer, used>>

\* recordInstall, under installMu: the generation of the moment is the record.
\* It ends the request of ensureHook and of a health check alike.
RecordInstall(a) ==
    /\ req[a].pc = "record"
    /\ \E now \in CurrentGeneration : installGen' = [on |-> TRUE, gen |-> now]
    /\ pinned' = IF req[a].seen = site.realm THEN Here ELSE NowherePinned
    /\ IF req[a].tool = "ensure"
       THEN Says("started", req[a].at # site.realm, req[a].alone)
       ELSE UNCHANGED answer
    /\ End(a)
    /\ UNCHANGED <<site, feeding, rehook, used>>

\* hook_stop forgets the record when the capture has stopped.
Unwatch(a) ==
    /\ req[a].pc = "unwatch"
    /\ installGen' = Unwatched /\ pinned' = NowherePinned
    /\ End(a)
    /\ UNCHANGED <<site, feeding, rehook, answer, used>>

-----------------------------------------------------------------------------
(* captureHealth.                                                          *)

\* Nothing is reported of a hook nobody watches.
HealthWatches(a) ==
    /\ req[a].pc = "watches"
    /\ IF installGen.on
       THEN \E now \in CurrentGeneration :
              req' = [req EXCEPT ![a].pc = "running", ![a].gen = now]
       ELSE End(a)
    /\ UNCHANGED <<site, feeding, rehook, installGen, pinned, answer, used>>

HealthRunning(a) ==
    /\ req[a].pc = "running"
    /\ IF feeding
       THEN Go(a, "compare") /\ UNCHANGED answer
       ELSE Says("abnormal", FALSE, FALSE) /\ End(a)
    /\ UNCHANGED <<site, feeding, rehook, installGen, pinned, used>>

\* Mutant: a feeder that runs is healthy.
WhateverGeneration(now) == TRUE
SameGeneration(now) == installGen.gen = now

\* Two equal generations are health enough; a record that went missing is 0.
\* A page that moved while the check ran, a failed read and a record of another
\* numbering or of no known realm excuse the answer.
HealthCompare(a) ==
    /\ req[a].pc = "compare"
    /\ IF SameGeneration(req[a].gen)
       THEN /\ Says("healthy",
                    \/ req[a].gen = 0 \/ req[a].at # site.realm
                    \/ pinned = NowherePinned \/ pinned.numbering # site.numbering, FALSE)
            /\ End(a)
       ELSE Go(a, "probe") /\ UNCHANGED answer
    /\ UNCHANGED <<site, feeding, rehook, installGen, pinned, used>>

\* The page answers: autoInjectHooks got there first, and the record follows.
HealthProbe(a) ==
    /\ req[a].pc = "probe"
    /\ \/ /\ site.object
          /\ req' = [req EXCEPT ![a].pc = "record", ![a].seen = site.realm]
          /\ UNCHANGED answer
       \/ Says("abnormal", FALSE, FALSE) /\ End(a)
    /\ UNCHANGED <<site, feeding, rehook, installGen, pinned, used>>

-----------------------------------------------------------------------------
EnsureStep(a) == EnsureStats(a) \/ EnsureCurrent(a) \/ EnsureAlive(a)
SwitchStep(a) ==
    \/ StartFlag(a) \/ StartInstall(a) \/ StartFails(a)
    \/ StopFlag(a) \/ StopWait(a) \/ StopUninstall(a) \/ Done(a)
RecordStep(a) == RecordInstall(a) \/ Unwatch(a)
HealthStep(a) ==
    \/ HealthWatches(a) \/ HealthRunning(a) \/ HealthCompare(a) \/ HealthProbe(a)

McpNext ==
    \/ NewPageRealm \/ Renumbered \/ Rehook \/ PanelPress
    \/ \E a \in Agents, tool \in Tools : AskTool(a, tool)
    \/ \E a \in Actors : SwitchStep(a)
    \/ \E a \in Agents : EnsureStep(a) \/ RecordStep(a) \/ HealthStep(a)

McpSpec == McpInit /\ [][McpNext]_mcpVars

-----------------------------------------------------------------------------
McpTypeOK ==
    /\ site.realm \in 1 .. MaxPageRealms /\ site.gen \in 1 .. MaxPageRealms
    /\ site.numbering \in 1 .. MaxRenumberings
    /\ site.hooked => site.object
    /\ feeding \in BOOLEAN /\ rehook \in BOOLEAN
    /\ installGen.gen \in 0 .. MaxPageRealms /\ (installGen.gen > 0 => installGen.on)

(* A capture whose audit object is gone from the page is called healthy    *)
(* only over a collision: a generation that was read as 0, recorded for    *)
(* another realm than the hook's, or counted by another Core.              *)
OnlyCollisionsHideALoss == answer.says = "healthy" => answer.object \/ answer.excused

(* What ensureHook started is hooked, if nobody else was switching the     *)
(* capture and the page stayed: a feeder that believes it runs over a dead *)
(* hook is stopped first, so that start cannot succeed at once             *)
(* (server.go, hook_start).                                                *)
SoleEnsureHooks == answer.says = "started" /\ answer.alone => answer.hooked \/ answer.excused

\* The two together: what an agent is told about its capture.
AgentIsToldTheTruth == OnlyCollisionsHideALoss /\ SoleEnsureHooks

=============================================================================
