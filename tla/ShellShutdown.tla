---------------------------- MODULE ShellShutdown ----------------------------
(* How the shell ends: App.shutdown (src/desktop/app.go) against its three *)
(* ways in - the GUI's calls, the MCP listener (internal/mcp/sse.go) and   *)
(* the cloud API listener (internal/cloudapi/cloudapi.go) - the tracked    *)
(* background tasks they start, the status poller, and the asset build     *)
(* with its cancellation (internal/api/ipc/audit.go).                      *)
(*                                                                         *)
(* The GUI's calls and the MCP handlers are waited for by nobody; a cloud  *)
(* API handler is, for a bounded time.  A caller is late once the shutdown *)
(* has passed the point that was to end it.                                *)
EXTENDS Naturals, FiniteSets

CONSTANTS
    Calls,     \* requests, each made at most once
    MaxTasks,  \* bound: tracked tasks started
    MaxOpens   \* bound: times a listener is opened

ASSUME ShutdownBounds == MaxTasks \in Nat /\ MaxOpens \in Nat

VARIABLES
    stage,    \* how far App.shutdown is
    poller,   \* the status poller
    open,     \* the listeners that accept
    opens,    \* listeners opened so far
    late,     \* the ways in whose callers are late
    call,     \* each request: the way it came in, and whether it is handled
    task,     \* the tracked tasks
    build,    \* the task AuditService.assetsCancel cancels, 0 for none
    feeder,   \* the capture loop: whether it runs, and a late caller started it
    core      \* the Core: whether it is up, and a late caller spawned it

shutdownVars == <<stage, poller, open, opens, late, call, task, build, feeder, core>>

Listeners == {"mcp", "http"}
Ways == Listeners \cup {"gui"}
Tasks == 1 .. MaxTasks
NoCall == [way |-> "none", state |-> "unborn"]
NoTask == [state |-> "unborn", late |-> FALSE, cancelled |-> FALSE]
Off == [on |-> FALSE, late |-> FALSE]

ShutdownInit ==
    /\ stage = "running" /\ poller = "running"
    /\ open = {} /\ opens = 0 /\ late = {}
    /\ call = [c \in Calls |-> NoCall]
    /\ task = [t \in Tasks |-> NoTask] /\ build = 0
    /\ feeder = Off /\ core = Off

-----------------------------------------------------------------------------
\* Mutant: the tasks are drained while the MCP listener still accepts.
FollowingDrainFirst ==
    [running |-> "poller", poller |-> "http", http |-> "answering", answering |-> "audit",
     audit |-> "drain", drain |-> "mcp", mcp |-> "feeders", feeders |-> "core", core |-> "closed"]

\* The order of App.shutdown; each stage names what it is about to end.
Following ==
    [running |-> "poller", poller |-> "mcp", mcp |-> "http", http |-> "answering",
     answering |-> "audit", audit |-> "drain", drain |-> "feeders", feeders |-> "core", core |-> "closed"]

Advance == stage' = Following[stage]

\* Wails calls shutdown; the GUI makes no new call after that.
QuitShell ==
    /\ stage = "running" /\ Advance /\ late' = late \cup {"gui"}
    /\ UNCHANGED <<poller, open, opens, call, task, build, feeder, core>>

\* The poller is cancelled, and waited for.
CancelPoller ==
    /\ stage = "poller" /\ poller = "running" /\ poller' = "cancelled"
    /\ UNCHANGED <<stage, open, opens, late, call, task, build, feeder, core>>

EndPoller ==
    /\ stage = "poller" /\ poller = "gone" /\ Advance
    /\ UNCHANGED <<poller, open, opens, late, call, task, build, feeder, core>>

\* SSEServer.Stop closes the listener and forgets its handlers.
StopMcp ==
    /\ stage = "mcp" /\ Advance
    /\ open' = open \ {"mcp"} /\ late' = late \cup {"mcp"}
    /\ UNCHANGED <<poller, opens, call, task, build, feeder, core>>

Handling(way) == \E c \in Calls : call[c] = [way |-> way, state |-> "handled"]

\* cloudapi.Stop closes the listener ...
StopHttp ==
    /\ stage = "http" /\ Advance /\ open' = open \ {"http"}
    /\ UNCHANGED <<poller, opens, late, call, task, build, feeder, core>>

\* ... waits for its handlers ...
HttpAnswered ==
    /\ stage = "answering" /\ ~ Handling("http") /\ Advance
    /\ UNCHANGED <<poller, open, opens, late, call, task, build, feeder, core>>

\* ... but not for a wedged one.
GiveUpHttp ==
    /\ stage = "answering" /\ Handling("http") /\ Advance
    /\ late' = late \cup {"http"}
    /\ UNCHANGED <<poller, open, opens, call, task, build, feeder, core>>

\* AuditService.Close cancels the running build.
CloseAudit ==
    /\ stage = "audit" /\ Advance
    /\ task' = IF build = 0 THEN task ELSE [task EXCEPT ![build].cancelled = TRUE]
    /\ UNCHANGED <<poller, open, opens, late, call, build, feeder, core>>

\* waitBackground returns when the tracked tasks are done.
WaitBackground ==
    /\ stage = "drain" /\ \A t \in Tasks : task[t].state # "running"
    /\ Advance
    /\ UNCHANGED <<poller, open, opens, late, call, task, build, feeder, core>>

\* The feeders are stopped, which waits for their loops ...
StopFeeders ==
    /\ stage = "feeders" /\ Advance /\ feeder' = Off
    /\ UNCHANGED <<poller, open, opens, late, call, task, build, core>>

\* ... then the Core, then the storage.
StopCore ==
    /\ stage = "core" /\ Advance /\ core' = Off
    /\ UNCHANGED <<poller, open, opens, late, call, task, build, feeder>>

-----------------------------------------------------------------------------
\* A request comes in: from the GUI until the end, or at an open listener.
Request(c, way) ==
    /\ call[c] = NoCall
    /\ IF way = "gui" THEN stage = "running" ELSE way \in open
    /\ call' = [call EXCEPT ![c] = [way |-> way, state |-> "handled"]]
    /\ UNCHANGED <<stage, poller, open, opens, late, task, build, feeder, core>>

IsLate(c) == call[c].way \in late
Answer(c) == /\ call[c].state = "handled"
             /\ call' = [call EXCEPT ![c].state = "answered"]

\* goBackground: the handler starts a tracked task before it returns.
Track(t, isLate) ==
    /\ task[t] = NoTask /\ \A u \in Tasks : u < t => task[u] # NoTask
    /\ task' = [task EXCEPT ![t] = [state |-> "running", late |-> isLate,
                                    cancelled |-> FALSE]]

StartTask(c) ==
    /\ Answer(c) /\ call[c].way = "gui"
    /\ \E t \in Tasks : Track(t, IsLate(c))
    /\ UNCHANGED <<stage, poller, open, opens, late, build, feeder, core>>

\* AssetsScan, from the GUI or an agent: one build at a time.
AssetsScan(c) ==
    /\ Answer(c) /\ call[c].way \in {"gui", "mcp"}
    /\ IF build # 0 THEN UNCHANGED <<task, build>>
       ELSE \E t \in Tasks : Track(t, IsLate(c)) /\ build' = t
    /\ UNCHANGED <<stage, poller, open, opens, late, feeder, core>>

\* A call that needs the Core spawns one if there is none.
NeedsCore(c) == core' = IF core.on THEN core ELSE [on |-> TRUE, late |-> IsLate(c)]

UseCore(c) ==
    /\ Answer(c) /\ NeedsCore(c)
    /\ UNCHANGED <<stage, poller, open, opens, late, task, build, feeder>>

\* wxapi.start and cloud.start: the feeder's loop needs the Core.
StartFeeder(c) ==
    /\ Answer(c) /\ call[c].way \in {"gui", "mcp"}
    /\ NeedsCore(c)
    /\ feeder' = IF feeder.on THEN feeder ELSE [on |-> TRUE, late |-> IsLate(c)]
    /\ UNCHANGED <<stage, poller, open, opens, late, task, build>>

\* The stages after cloudapi.Stop has closed the listener.
HttpIsPast == stage \in {"answering", "audit", "drain", "feeders", "core", "closed"}

\* mcp.start and cloudapi.start; nothing keeps a late one from opening.
OpenListener(c, way) ==
    /\ Answer(c) /\ call[c].way = "gui" /\ opens < MaxOpens
    /\ open' = open \cup {way} /\ opens' = opens + 1
    /\ late' = IF way = "http" /\ HttpIsPast THEN late \cup {way} ELSE late
    /\ UNCHANGED <<stage, poller, task, build, feeder, core>>

\* mcp.stop and cloudapi.stop.
CloseListener(c, way) ==
    /\ Answer(c) /\ call[c].way = "gui"
    /\ open' = open \ {way}
    /\ UNCHANGED <<stage, poller, opens, late, task, build, feeder, core>>

Handle(c) ==
    \/ StartTask(c) \/ AssetsScan(c) \/ UseCore(c) \/ StartFeeder(c)
    \/ \E way \in Listeners : OpenListener(c, way) \/ CloseListener(c, way)

\* The poller sees a new page generation and injects the hooks.
PollerInjects ==
    /\ poller # "gone" /\ core.on /\ \E t \in Tasks : Track(t, FALSE)
    /\ UNCHANGED <<stage, poller, open, opens, late, call, build, feeder, core>>

PollerEnds ==
    /\ poller = "cancelled" /\ poller' = "gone"
    /\ UNCHANGED <<stage, open, opens, late, call, task, build, feeder, core>>

TaskEnds(t) ==
    /\ task[t].state = "running"
    /\ task' = [task EXCEPT ![t].state = "done"]
    /\ build' = IF build = t THEN 0 ELSE build
    /\ UNCHANGED <<stage, poller, open, opens, late, call, feeder, core>>

ShutdownStep ==
    \/ QuitShell \/ CancelPoller \/ EndPoller \/ StopMcp \/ StopHttp
    \/ HttpAnswered \/ GiveUpHttp \/ CloseAudit \/ WaitBackground \/ StopFeeders \/ StopCore

ShutdownNext ==
    \/ ShutdownStep \/ PollerInjects \/ PollerEnds
    \/ \E c \in Calls : Handle(c) \/ \E way \in Ways : Request(c, way)
    \/ \E t \in Tasks : TaskEnds(t)

\* The shutdown goes on when it can, the poller sees its context end, and a
\* tracked task is finite (the comment of goBackground).
ShutdownFairness ==
    /\ WF_shutdownVars(CancelPoller) /\ WF_shutdownVars(EndPoller)
    /\ WF_shutdownVars(StopMcp) /\ WF_shutdownVars(StopHttp)
    /\ WF_shutdownVars(HttpAnswered \/ GiveUpHttp) /\ WF_shutdownVars(CloseAudit)
    /\ WF_shutdownVars(WaitBackground) /\ WF_shutdownVars(StopFeeders)
    /\ WF_shutdownVars(StopCore) /\ WF_shutdownVars(PollerEnds)
    /\ \A t \in Tasks : WF_shutdownVars(TaskEnds(t))

ShutdownSpec == ShutdownInit /\ [][ShutdownNext]_shutdownVars /\ ShutdownFairness

-----------------------------------------------------------------------------
\* Every variable has its type.
ShutdownTypeOK ==
    /\ stage \in DOMAIN Following \cup {"closed"}
    /\ poller \in {"running", "cancelled", "gone"}
    /\ open \subseteq Listeners /\ opens \in 0 .. MaxOpens /\ late \subseteq Ways
    /\ call \in [Calls -> [way : Ways \cup {"none"},
                           state : {"unborn", "handled", "answered"}]]
    /\ task \in [Tasks -> [state : {"unborn", "running", "done"},
                           late : BOOLEAN, cancelled : BOOLEAN]]
    /\ build \in 0 .. MaxTasks
    /\ feeder \in [on : BOOLEAN, late : BOOLEAN]
    /\ core \in [on : BOOLEAN, late : BOOLEAN]

(* Once the storage is closed, only a late caller's work still runs: its   *)
(* task, the capture it started, the Core it spawned and nobody ends       *)
(* (app.go: "closing storage under them would race or truncate results").  *)
ClosedUnderLateWorkOnly ==
    stage = "closed" =>
        /\ \A t \in Tasks : task[t].state = "running" => task[t].late
        /\ feeder.on => feeder.late
        /\ core.on => core.late

(* A build that the drain waits for has been cancelled, unless a late      *)
(* caller started it: the replays do not go on against a closing database. *)
DrainedBuildIsCancelled ==
    stage = "drain" /\ build # 0 => task[build].cancelled \/ task[build].late

\* The two together: what the order of the shutdown is for.
ShutdownIsOrderly == ClosedUnderLateWorkOnly /\ DrainedBuildIsCancelled

(* The shutdown ends, whatever is in flight: no wedged handler, cancelled  *)
(* build or late task keeps it from closing the storage.                   *)
ShutdownEnds == stage = "poller" ~> stage = "closed"
==============================================================================
