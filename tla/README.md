# A TLA+ model of wxtap

wxtap is a desktop workbench for WeChat mini programs. A Go shell (Wails)
drives a Node "Core" over stdio RPC; the Core attaches to WeChat with Frida,
relays the Chrome DevTools protocol and injects hook scripts into the page;
what the hooks capture travels back through the shell into an SQLite store, a
Vue panel and, over MCP, to agents. This directory specifies the parts of it
that keep state several parties change, checks them with TLC and proves the
central ones with TLAPS.

## 1. The system

| Component | State | Operations | Module |
|---|---|---|---|
| Page capture hooks (`core/hooks/wxapi.js`, `cloud.js`; reference queue `core/src/hooks/drain.ts`) | two bounded buffers, two sequences, drop counters; what is wrapped in which frame | capture, settle, drain, clear, install, uninstall | `PageStream`, `HookFeeder`, `PageHooks` |
| Page hooks console and navigator (`console.js`, `nav.js`) | coverage of a realm, `window.nav` | install | `ConsoleSources`, `Navigator` |
| Hook feeder (`desktop/internal/api/ipc/hookfeeder.go`) | cursors, generation, poll buffer, dedup FIFO, wait group | Start, Stop, drainOnce, PollLimit, Clear, ResetAck | `HookFeeder`, `FeederLifecycle`, `PageStream` |
| Application wiring (`ipc_bridge.go`, `app.go`) | what is captured, injected and installed in the present realm | handlers, status poller, connect-time injection | `EngineSession` and those of the components |
| Core process supervision (`app.go`, `internal/engine`) | the current client, its stderr buffer | ensureEngine, replacement, callbacks | `CoreProcess` |
| Shutdown (`app.go`, `cloudapi.go`, `sse.go`) | what was closed so far | App.shutdown against late callers | `ShellShutdown` |
| Core RPC client (`internal/rpc/client.go`) | pending calls, event channel, closed flag | Call, Close, read loop, teardown | `CoreRpc` |
| Traffic store (`internal/traffic`) | a row a call, the migrations' records | migrate, insert, apply, list, delete, clear, trim | `TrafficStore`, `Evidence`, `StoreOpen` |
| Capture panel (`WxApiView.vue`) | rows by rid, orphan outcomes, poll epoch | events, polls, clear, start | `CapturePanel` |
| Engine store and run log (`engine.ts`, `runtime_log.go`) | a ring, the panel's lines | emit, replay, merge, clear | `RuntimeLog` |
| Console log (`console_log.go`) | ring, epoch | append, list, tail, clear | `ConsoleLog` |
| MCP sessions and transports (`internal/mcp/server.go`, `sse.go`, `http.go`, `session_tools.go`) | streams and their inboxes, the agents' cursors, the hook generation | hook_start/stop/drain/wait, ensureHook, health | `McpSession`, `AgentStream` |
| MCP drives and debugger (`miniapp_tools.go`, `debug_tools.go`, `scanjob.go`) | cached context, breakpoints, jobs and their cache | evaluate, navigate, step, resume, scan | `MiniappTools`, `DebugTools`, `ScanJobs` |
| CDP bridge (`core/src/bridge`) | connections, lock, generation, sessions, debug state | register, switch, lock, forward, probe | `PausePolicy`, `H5Sessions`, `TargetProbe`, `ConsoleSources`, `DebugTools` |
| Core engine (`core/src/engine`) | Frida session and script, two servers | start, stop, status | `FridaRuntime` |
| Navigator (`internal/navigator`, `util.go`) | injection cache, page list, a walk | inject, fetch, auto-visit, stop | `Navigator` |
| Package extraction (`internal/extract/packages.go`, `extractsvc.go`) | outputs on disk | decompile, swap in, restore, format, delete | `Extraction` |
| Code search (`codeservice.go`) | - | SearchCode | `CodeSearch` |
| Asset inventory and settings (`audit.go`, `extractsvc.go`) | inventory, archive, config.json | build, cancel, restore, save | `AssetInventory` |
| Self-update (`internal/update`, `main.go`) | staged trees, marker, entries and their `.old` copies | fetch, stage, apply, roll back, clean up | `UpdateDownload`, `UpdateApply` |
| Replay and export; session keys; other views; Frida offsets | - | requests, files, presentation, data | - |

What is hard here, and what makes each component correct:

* **A capture crosses five parties and no acknowledgement is atomic.** What a
  cursor acknowledges is stored; what the user cleared stays cleared; nothing
  is handed out twice; an outcome reaches the row it belongs to. Two streams,
  two cursors and one generation carry it, and the sequence space dies with
  the page realm while the cursors live in the shell.
* **Losses must be counted, not hidden**: by the page to its readers, by the
  console and the run log to the panel, by a search to its caller.
* **The realm is rebuilt under everybody.** Whatever describes a realm - a
  running capture, the registry of scripts, `window.nav`, an agent's hook, a
  pause setting, console coverage, a cached execution context - is read before
  an await and used after it, and has to follow.
* **A socket hands over several frames before a continuation runs**, and the
  targets of the bridge answer late: an answer belongs to a session, a lock or
  a connection that may be gone.
* **Start and stop overlap.** A feeder's wait group has to balance, the hook
  has to come off, a Core that was given up has to die, and the shutdown has to
  end without closing the storage under its own tasks.
* **Things fail half-way**: a Core wedges in the middle of a line, the process
  dies between two renames, a shard is of another build, a migration is run by
  two processes.

`PROJECT.json` lists the hazards one by one at their lines. Four more were met
and left out of it. `deliver` checks the generation and emits after the unlock
(hookfeeder.go:652), so a clear in between still gets the cleared rows' event;
`HookFeeder` treats the two as one step. A poll that asked before the clear can
be answered after the shell was cleared (WxApiView.vue:415). A drain with the
cursor of an earlier realm moves the accounting mark past records of this one
(wxapi.js:103). An optional entry consumed by a rolled back attempt looks like
one the release omits (apply.go:273).

## 2. Modules

```
HookFeeder            page + drain loop + store + clear + injection
  CapturePanel          EXTENDS HookFeeder: the panel on top of it
  HookFeeder_proofs
PageStream            one stream: ring, accounting, two readers' cursors
CoreRpc               concurrent calls over the pipe to the Core

MCShell               the shell's side and the bridge it drives
  PageConsole           the console of a page: ConsoleSources ConsoleLog
  RuntimeLog EngineSession Navigator FeederLifecycle PausePolicy
  H5Sessions DebugTools PageHooks FridaRuntime TargetProbe
MCAgent               what agents and pages of the shell work on
  McpSession AgentStream MiniappTools UpdateDownload AssetInventory
  Extraction CodeSearch PageStream TrafficStore (implements Evidence) StoreOpen
MCServices            what has to come to an end
  CoreProcess ShellShutdown ScanJobs UpdateApply

Selection             what a filter keeps of a sequence, and its lemmas
Services_proofs       CoreProcess ShellShutdown ScanJobs UpdateApply
                      TargetProbe
Engine_proofs         FeederLifecycle EngineSession Navigator RuntimeLog
                      PausePolicy DebugTools
Agent_proofs          McpSession Extraction AssetInventory StoreOpen
                      TrafficStore UpdateDownload
Bridge_proofs         FridaRuntime PageHooks CodeSearch PageConsole
Core_proofs           CoreRpc H5Sessions
Tools_proofs          MiniappTools AgentStream PageStream
```

A module is one protocol with all the parties that take part in it, whatever
file they live in: `HookFeeder` reaches from the hook in the page to the rows
of the store, `ConsoleSources` from `console.js` to the bridge and the socket.
`MCShell`, `MCAgent` and `MCServices` put independent protocols into one run: a
variable `part` names the one that moves, the others keep their initial state,
so the state space is the sum of the parts and not their product. `MCCapturePanel`
uses `part` to choose what crosses the loop. Every module writes a
round trip as its two or three steps, cut where the code gives up a lock, waits
for the network or lets another goroutine run; what runs under one lock, or
between two awaits of the single-threaded Core, is one step. Histories (what a
reader saw, what was cleared, what an overtaken request left) are variables or
record fields of their own, named as such in the module.

`Selection` is the loop that appends what it keeps to a fresh slice, which the
feeder, the scans, the logs and the panel share. `Pick(s, at)` takes the
elements at a set of positions; `PickEnumerates` and `PickOf` prove that it is
an increasing enumeration of them, which is what the proofs below use of it.

### The capture: HookFeeder, PageStream, CapturePanel, FeederLifecycle

`drainOnce` is cut where it gives up the lock or waits: `TickStart`,
`RoundStart`, `HookDrain` (the page evaluates and answers; `HookDrainFails`
covers an offline engine, a page without hook and a lost answer), `StalePage`,
`Persist` / `PersistFails` (ingest and apply; nothing else writes the store or
the FIFO in between, so they stand as one step with their partial failure as
an alternative), `StaleWriteBack` / `WriteBack`, `Deliver`, `Emit`. Handlers
that run against it are cut the same way: `HookClear` then `FeederClear`
(wxapi.clear: page first, then shell), `InstallHook` then `ResetAck`
(autoInjectHooks). A record is known by `<<realm, seq>>`, which is what its
rid stands for; payloads, timestamps and app ids are left out, so is the
storage-less mode (`repo == nil`). The feeder is taken to be running: Start
and Stop are `FeederLifecycle`'s. The assumption on `DeliveredCap` is the
relation between the code's constants the dedup FIFO rests on, see `feeder_rebuilt` in section 3.

`PageStream` looks at one stream from the page's side and makes its counters
exact, which `HookFeeder` leaves out. Sequence numbers are dense, so its ring
is the interval `base+1 .. seq`; a cursor carries the realm it was learnt from,
the code's cursor is the number.

| TLA+ | code |
|---|---|
| `seq`, `base`, `accounted`, `dropped` | `hookState.seq`, oldest buffered seq - 1, `accountedSeq`, `droppedRecords` |
| `Push`, `Account`, `PageLo/PageHi/NextSeq`, `ClearHookedCalls` | `pushRecord`, the head and the loop of `drainRecords`, `clearHookedCalls` |
| `ack`, `gen`, `Ask` / `Answer` / `Ingest` / `WriteBack` / `Abandon` | `HookFeeder.ack`, `.gen`, one round of `drainOnce` cut at its lock boundaries |
| `McpHookDrain`, `McpHookDrainLost` | the MCP tool `hook_drain`, its answer received or lost |

`CapturePanel`: `shown`, `settled`, `orphans` are the rows, those with an
outcome and `orphanUpdates`. `pollOnce` is `PollAsk` / `PollTake` or
`PollEmpty` / `PollLand`, each run with the epoch it remembered;
`performClear` is `ClearAsk` / `ClearDone`. Every clear disowns the run it
finds, so two runs can be in flight (`Runs`). The batch queue is merged into
the step that fills it; the limits on rows and orphans and a panel that is
closed and opened again are left out.

`FeederLifecycle` has one program counter per calling goroutine; `installing`
is the unlocked `InstallHookReport`, `failing` the gap between `wg.Done()` and
the second critical section of Start, `waiting` is `wg.Wait()`. A context is a
number.

### The shell: CoreRpc, CoreProcess, ShellShutdown, EngineSession, Navigator, ConsoleLog, RuntimeLog

In `CoreRpc` a call is known by its id and has one program counter; `writer` is
`writeMu`, `box` the number of responses in the call's channel (which holds
one), `handed` and `victims` what the read loop and each `failAll` took out of
`pending` under the lock and have not answered yet. `failAll` runs at most
twice, in the teardown and at the end of the read loop. `CutWrite` /
`CutReturns` are the branch of `writeLine` in which the context ends during
the write, the lock held from one to the other. `Unbounded` are the calls made
with `context.Background()`. The Core is external: it may block the pipe,
answer late or never, exit, and push events; an event matters only when the
channel is closed.

`CoreProcess`: several goroutines need a Core, find it gone or its pipe torn,
spawn another and wire its callbacks while the old one is killed in the
background; stderr lines captured before the callback is set are replayed.
`ShellShutdown`: the stages of `App.shutdown` against the GUI's calls, the MCP
and cloud API handlers, the tasks they start and the asset build; a caller is
*late* once the stage that was to end it has passed.

`EngineSession`: the poller asks for the status and injects hooks and scripts
when the Core's generation moved; the Core may be replaced and numbers realms
from one again. It is checked in two halves that share every action but one:
the capture without scripts (`capture`) and the scripts without a capture
(`scripts`). `Navigator`: the injection cache is read under its lock and acted
on outside it, a walk is stopped and joined, a realm is rebuilt under both.
`ConsoleLog` and `RuntimeLog`: a bounded ring, its producers, and a panel that
reads it by sequence number (console) or replays it once and merges the events
that arrived meanwhile (run log). A record is the number of its birth.

### The Core: FridaRuntime, PageHooks and the bridge

`FridaRuntime` is `start`/`stop` of the runtime with each await a step at which
the target may die, a port be taken or a mini program connect; sessions are
numbered by attachment. `PageHooks` counts, for every frame, the recording
layers around a method and a bridge while frames come and go and captures are
installed, installed again and taken off; `surface` says whether it is wxapi's
or cloud's hook, which mark and wrap differently.

The bridge is modelled one concern a module, each with the connections, the
lock and the generation it needs. A connection keeps its order both ways: `out`
holds the commands its target has not executed, `in` the frames the bridge has
not read. `PausePolicy`: which pauses the locked target skips, as it was last
acknowledged. `H5Sessions`: a debugging window's session on an H5 page, from
attach to detach, and frames that come after. `TargetProbe`: the bridge's own
temporary sessions by which a target is verified. `ConsoleSources`: whether the
hook in the page or the CDP events report the console of a connection.
`DebugTools`: the debugger tools over the bridge's snapshot of pauses; a stop
has a number, its frames.

### Agents: McpSession, AgentStream, MiniappTools, ScanJobs, CodeSearch

`McpSession`: ensureHook, hook_start and hook_stop against each other, the panel
and realms that come and go; the reply of a session whose hook was lost must
say so. `AgentStream`: hook_drain and hook_wait over stdio, SSE and HTTP: what
an agent that feeds its cursors back is shown, and when an answer may be lost.
`MiniappTools`: the context a tool finds, from its cache or by a scan, what it
evaluates there, and the verification of a navigation against the page stack.
`ScanJobs`: one goroutine per accepted job queues for the only slot; a
directory is the number of its contents. `CodeSearch`: the walk of SearchCode
with its caps, a line being a match, a miss or too long; the property compares
an unmarked answer with the reference set of all matches, and the excerpt with
the line it came from.

### What is kept: TrafficStore, Evidence, StoreOpen, AssetInventory, Extraction

`TrafficStore`: each SQLite transaction is a step; the updates carry what the
code's `UPDATE` writes (a frame without a body leaves the stored one alone), a
reader asks page by page while rows arrive, settle and go, a deletion commits
and then hands space back. `Evidence` is its abstract specification: of each
call unknown, waiting, settled or answered is known, and it only grows until
someone has it forgotten; `History == INSTANCE Evidence WITH evidence <- shown`
is the refinement. `StoreOpen`: several processes look a migration up outside
the transaction that runs it, and may die between two statements.
`AssetInventory`: build, archive, restore and cancel over the settings file,
which a learned app name loads and saves back as a whole. `Extraction`:
outputs put aside, swapped in, restored, read and formatted by concurrent
handlers; a tree is the version of the package and the version its files show.

### Self-update: UpdateDownload, UpdateApply

`UpdateDownload`: what is published may change at any time, a request claims
the update slot after it has looked at the marker, shards are downloaded,
verified and unpacked one after the other, and a tree is named by the marker at
the end; the process may die at any step. A shard's bytes are the number of the
build they belong to. Versions are compared as the code does, by numbers and
then by the pre-release suffix.

In `UpdateApply` an entry is its position in the order `swapInto` visits;
`Required` are those `validateStagedTree` demands, `Exe` the one the process
runs from, `Trees` the directories, which a failing copy leaves `Torn`.
`target` and `aside` hold the version each path and its `.old` were built from,
`staged` the entries left in each version's tree, `pending` the marker.
`before`, `slipped` and `clean` are histories: the install when the swap began,
a call of its undoing that failed, and whether any swap was cut short so far.

| TLA+ | code |
|---|---|
| `StageVersion`, `StageAbandoned` | `stageVersionFor`: the tree is built, then the marker is written; or only part of the tree is (in detail: `UpdateDownload`) |
| `Launch`, `Restart`, `Relaunch`, `RelaunchFails` | a start by the user or by the shell itself, `applyStagedUpdate` and `relaunch` in `main.go` |
| `DiscardStaged`, `ApplyPending`, `Attempted` | `applyPendingFor` up to the swap; the record it keeps |
| `SkipEntry`, `PutAside`, `MovePath`, `SwapDone` and their failures | the loop of `swapInto`, one file-system call a step |
| `RestoreEntry`, `RestoreEntryFails`, `RollbackDone` | `restoreEntry` in reverse order |
| `ClearMarker`, `RecordApplied`, `CleanupAfterLaunch` | the end of `applyPendingFor`, the sweep of a later launch |
| `Crash` | the process dies between any two calls |

`MovePath` is a rename when it can and a copy when it cannot (another volume,
a locked file), which leaves the staged entry where it was. Left out: two
processes at once; a record that cannot be written; an executable whose path
cannot be resolved.

## 3. Runs

| Run | Shows | Size |
|---|---|---|
| `feeder` | `NoDuplicate`, `AcknowledgedIsStored`, `ClearedStaysGone`, `PanelKeepsRows` | 3.8 M states |
| `feeder_reload` | `EverythingArrives` | 113 k |
| `feeder_rebuilt` | `ReplaysAreCovered` violated | - |
| `panel_outcome` | `OutcomeReachesPanel` violated | - |
| `rpc` | `CallsAreAnsweredOnce`, `NothingAfterACutWrite`, `EveryCallReturns` | 629 k |
| `rpc_panic` | `ReaderNeverPanics` violated | - |
| `shell` | the types; 12 properties, below | 1.2 M |
| `agent` | the types; 12 properties, below | 867 k |
| `agent_updates` | `FedBackUpdatesArrive` violated | - |
| `debug_repin` | `WantedIsEnabled` violated | - |
| `services` | 6 properties, below | 143 k |
| `update_cleanup` | `CleanupAfterSuccess` violated | - |

What the composed runs check of each part:

| Run, `part` | Property | It says |
|---|---|---|
| shell, console / sources | `ConsoleIsHonest` | no console event goes unreported, and one reported twice is noticed by the generation (`ConsoleHeard`); the ring is the newest of what was born, a cleared row does not come back, what the panel misses it is told (`ConsoleKeepsItsWord`) |
| shell, log | `LogReplayMerges` | replay and live lines miss none, and repeat only a line whose event was under way when the replay took it |
| shell, capture / scripts | `SettledSessionIsTrue` | once injection is over, a running capture is hooked into the present realm, and the registry lies only about a script answered after its realm had gone |
| shell, navigator | `NavigatorIsHonest` | a stopped walk visits nothing more; the cache does not claim a `window.nav` that died with its realm |
| shell, lifecycle | `WaitGroupBalanced`, `StopMeansStopped` | the wait group counts loops and installations; Stop leaves nothing running |
| shell, pauses | `PausePolicyIsTrue` | the policy shown is the one in force on the locked target; a busy one has a call that will settle it |
| shell, windows | `H5IsIsolated` | a session of an H5 window has one owner, is given back, and none of its frames reaches the main channel |
| shell, probes | `ProbesComeOff` | the session a probe attaches is held or awaited until it is released, never comes back then, and no session of the DevTools is released for it |
| shell, debugger | `DebugToolsAreTrue` | a tool tells the stop it caused from the one it started in |
| shell, hooks | `HooksComeOff` | a running capture records every call once, and a stopped one leaves the page bare |
| shell, frida | `AttachIsClean` | a runtime that is off holds neither script, session nor port |
| agent, session | `AgentIsToldTheTruth` | a lost hook is reported, except where the numbering of realms collides |
| agent, update | `OnlyOverlapBreaksMarker`, `NeverInstallsOlder` | a marker names one whole published build; no launch goes back |
| agent, inventory | `InventoryIsKept` | a restart finds the inventory and the saved settings, except one saved inside RememberAppName |
| agent, outputs | `OutputsAreKept` | what was decompiled survives a failed or interrupted swap |
| agent, search | `SearchIsHonest` | an answer that is not marked as truncated is complete; the excerpt shows the match |
| agent, reads | `AgentReadsWell` | following the cursors skips nothing unannounced; an awaited answer is dropped only by a transport that may |
| agent, tools | `DrivesAreHonest` | a tool drives the context it looked for; a navigation reported as landed was seen |
| agent, stream | `StreamIsHonest` | the drop count never understates, and no cursor skips a record uncounted |
| agent, history | `HistoryIsHonest`, `KeepsTheEvidence` | pages skip no row and every call is stored; the store implements `Evidence` |
| agent, open | `SchemaIsWhole` | the migrations take effect once each, in order |
| services, core | `CoreOutputInOrder`, `ServicesSettle` | stderr reaches the shell once and in order; a Core given up dies |
| services, shutdown | `ShutdownIsOrderly`, `ServicesSettle` | the storage is closed only under work of late callers; the shutdown ends |
| services, scan | `ScanAnswersHold`, `ServicesSettle` | a cached answer is of the present contents unless the scan was raced; an accepted job leaves the registry |
| services, faults / versions | `SwapIsSound`, `AppliedIsInstalled`, `ServicesSettle` | a swap is whole or undone; *applied* means installed; a launch comes up |

Several properties have an exception in their statement (`raced`, `overtaken`,
`straddled`, `mistaken`, `late`, `excused`). Each is a history that is set in
one action only, at the race the code has and section 3 or the module names;
the property then says that nothing else goes wrong.

**Bounds.** Only the constants named `Max...`, and the sets, bound the models;
the others are limits of the code made small. In the feeder a page of one
record out of a ring of two makes "full page with more behind it", eviction
below a cursor and eviction of a read record happen within three captures, and
the FIFO of six keys (which covers a replay as narrowly as 16384 does) forgets
one at the fourth. So `feeder` runs a refresh with four captures, a refresh and
a clear with three, and either with the panel and two; `feeder_reload` two
captures in each of two realms; and `feeder_rebuilt` four in each of two, with
nothing failing and a page that acts between the ticks. One generation bump
crosses every step a round can be in. Three calls in `rpc` are one that is
cut, one queued behind it and one awaiting its answer. Three entries in the update
are the executable, the Core and an optional one, so that a swap can fail or die
before, between and after the two that must match; its two halves are two
faults with one version to change to, and a death with two (the second over the
leftovers of the first). `UpdateDownload` has three versions, one a pre-release
that precedes its release and one whose numbers order unlike their text
(2.9 < 2.10), two shards and two builds of each. Elsewhere: rings and pages of two and one; two
realms and one more rebuild, so that an answer can come from a realm before
the last; two connections, so that the lock can move; two windows and three
sessions, so that one is retired while two are in use; two handlers, agents or
processes, so that one overtakes the other, and three where two must overlap
around a third (`Callers`, `MaxPeers` with a foreign debugger). Every action
of every module is taken in the run it belongs to.

**Deadlock** checking is off where a system may really stop: `rpc` and
`rpc_panic` (all calls may have returned), `update_cleanup` (an install without
its executable cannot be launched), `shell`, `agent`, `services`,
`agent_updates` and `debug_repin` (the bounded component has used up its
bounds).

**Fairness.** In `HookFeeder` the ticker fires every 500 ms and every step of a
tick ends by itself or by its context: weak fairness of `Rounds \/ Emit`.
Handlers in progress finish: weak fairness of `InstallHook`, `ResetAck`,
`FeederClear`. The engine and the store may fail any number of times but not
for ever: strong fairness of `HookDrain` and `Persist`, without which no
delivery can be promised at all. Nothing is assumed of the user, the page,
reloads or polls, except in `CapturePanel`, whose timer polls every two
seconds. In `UpdateApply` a launch that has begun goes on (`Startup`): it is
straight-line code, and failures and deaths are bounded. In `CoreRpc` the
shell's goroutines run and a deadline passes (`CallStep`, `FailStep`); nothing
is assumed of the Core. `CoreFairness` is the background goroutine that
kills a Core it was handed. `ShutdownFairness` lets the stages of the shutdown,
their timeouts and the tasks they wait for go on, but no handler answer.
`ScanFairness` lets the goroutine of each accepted job run; its scan ends.

### Disagreements the runs show

* `panel_outcome`: the frame is registered as delivered, then a reset drops
  the event, then the replay is filtered. The store has the outcome, a row
  polled earlier while pending does not get it.
* `update_cleanup`: the process dies after the executable was renamed out of
  the staging tree. The next launch finds the tree incomplete and discards it
  together with the marker; the one after finds nothing pending and sweeps the
  `.old` files away, the last copy of an entry among them. `CleanupAfterLaunch`
  takes "nothing pending" to mean that a swap succeeded.
* `rpc_panic`: a teardown closes the events channel and leaves the read loop
  of a live Core running; its next event is a send on a closed channel. The
  `default` of the select does not help, and `eventsOnce` guards only a second
  close.
* `agent_updates`: hook_drain applies its default `updateLimit` only when
  `afterUpdateSeq` is 0 too, so an agent that feeds the cursor back and leaves
  the limit out, as the tool's description suggests, gets no updates at all.
* `feeder_rebuilt`: the dedup FIFO is smaller than what it must cover.
  hookfeeder.go:110-120 and its test (944-953) take records + updates, 10000, to
  be the window of a replay. Within one realm it is up to 3 x 5000 + 200 - 2
  keys, since the page goes on capturing: 16384 covers that, and a smaller FIFO
  makes `NoDuplicate` fail (its mutant). But in a rebuilt realm a tick that runs
  between the hook's installation and ResetAck drains with the old realm's
  cursors and registers a record ahead of its elders and their outcomes. Up to
  5 x 5000 - 3 keys can then follow, the record's own is evicted while the page
  still buffers it, and the next ResetAck in that realm hands it out again
  (`NoDuplicate` is violated under `RebuiltSpec` as well). More than a thousand
  captures must fall between the installation and the reset, so it is rare.
* `debug_repin`: locking again without a target pins the newest connection
  without enabling the debugger there; the snapshot says enabled. (The console
  has the same gap.)

### Disagreements met without a run of their own

The capture:

* A rewound cursor recounts: after ResetAck, or when an agent reads from 0,
  stored records show up as dropped (hookfeeder.go:66-68, drain.ts:18-19 say
  only unread ones do).
* Start (installing), Stop, Start again, then the first Start fails and clears
  `running` and `cancel` of the second: a third Start launches a second loop
  (hookfeeder.go:258).
* `updateMore` alone continues a tick (hookfeeder.go:605), so one event may
  carry more than `maxRecordRounds x feedDrainLimit` records, which 587-590
  rules out.
* `cloud.js` wraps every frame's bridge and remembers only the last
  (644-655); its direct hook and proxied database handles never come off;
  `wxapi.js` restores the first frame's originals into every frame; what a page
  put in place after an install is lost at uninstall. A start that overtakes a
  stop's uninstall ends running with no hook.
* A page that wraps the console hook and is hooked again records each call
  twice, and the uninstall leaves the inner recorder behind (`console.js`).

The shell:

* `writeLine` waits for `writeMu` outside the context: a caller queued behind
  the wedged write of a call without a deadline hangs for ever, which is the
  exception `EveryCallReturns` names.
* The comments of `seedLogs` (engine.ts:188-190: no line repeats), of the
  registry (app.go:60-63: never claims what a realm lost), of the auto-visit
  (util.go:281-300: a walk of another app's pages is possible after a switch),
  of the late callers (app.go:238-242) and of the operation log (silent for
  good once a rotation or a reopen failed) hold except for the races named in
  the modules.
* `RememberAppName` puts back a setting saved between its load and its save
  (extractsvc.go, near 550); AssetsList reads items and label in two critical
  sections (audit.go:344-388).
* Listed outputs include trees that are no app (codeservice.go:53); a restored
  package that already holds app.json loses its unpacked original; SearchCode
  marks as complete an answer in which an unreadable file was skipped.

Agents:

* `CachedIsCurrent` (scanjob.go:58): the payload is stored under the time read
  after the scan. A bridge that restarts numbers its realms anew, so a lost
  hook may look healthy (session_tools.go:314-317, server.go:946-947).
* The marker is said to mean a complete download (stage.go:41-43); an
  overlapping request may be rebuilding the tree it names.
* A cached page context may not be the newest webview's; a navigation to the
  route already on top is "landed" at once; `bodyRoute` may report a background
  page; an expression that threw a SyntaxError of its own is run twice.
* Excerpts are trimmed at the tail only (windowSnippet).
* Tool calls are not serialised over HTTP and SSE (debug_tools.go,
  trackBreakpoint), and a breakpoint is forgotten although its removal failed.
* mcp.start keeps the first tool profile (ipc_bridge.go near 1911).
* `RecentRecordsForAudit` orders by a sequence that restarts with every realm;
  `InsertBatch` never writes the duration of a record that came settled.

The Core:

* The status stays `frida: true` after the target died.
* Removing the locked peer leaves the lock on with no target; debugState keeps
  its frames across a rebuilt realm or a moved lock.
* A background mini program's context resets the page console's coverage
  without a new generation (cdp-bridge.ts:405-407), and a coverage answer can
  be applied for a realm that is gone, since ws delivers the frames of a chunk
  synchronously.
* An attachment the DevTools made meanwhile can be taken for the bridge's own
  (418-429): the exception `mistaken` of two modules.

## 4. Proofs

Eight modules hold the theorems. Nothing is assumed beyond the `ASSUME`s of the
constants, which say that bounds are naturals and limits positive, and:
`AppsAreNamedApart` (the directories of decompiled apps are named apart from
the temporary ones), `ToolsAreNotTheWalk` (a caller of the navigator is no
walk), `NoAppIsNone`, `CapsAreOrdered` (searchContextBefore is below
searchLineCap), and the relation between the feeder's constants explained in
section 3. One theorem has a hypothesis of its own, named there.

Each theorem follows from an inductive invariant whose named parts are in the
proof module; each action has a lemma. The invariants were checked with TLC on
the runs' constants before they were proved.

### HookFeeder_proofs

For all capacities, limits, budgets and bounds under
`HookFeederAssumption`: `AcknowledgedStaysStored`, `ClearedIsGone`, from
`FeederInvariant`. Neither property is inductive. Two arguments carry the
invariant. *An outcome is known once*: while a record is pending in the page no
frame of it exists (`SettledOnce`, `PageInOrder`), so a row ingested as pending
is settled by a frame that is still to come, and `FramesLanded` says of each
frame where it is. *An answer that counts has no gap*: it was asked from the
cursors as they stand (`CursorsStand`), of the page as it is, since whoever
moves the cursors or empties the page moves the generation too; so what it
skips was evicted or is acknowledged already (`AnswerCovers`). `NothingAhead`
keeps cursors and keys of realms yet to be out, `NothingComesBack` says of what
was cleared that no answer, buffer or event that still counts holds it. The
FIFO is what filters an outcome on its second coming, so that a filtered frame
must be a landed one.

The panel on top of the loop (`CapturePanel`): `PanelTypes`,
`PanelKeepsItsRows` (`PanelKeepsRows`, an action property). A row that shows
its outcome stays settled by the shape of upsert and patch alone, once rows and
orphans are known to be functions on disjoint sets. That no poll brings back
what was cleared needs two more facts. Outside a clear, a poll answered in the
present epoch holds nothing cleared (`AnswersAreCurrent`): the shell answered
after its own clear, and what it buffers was never cleared, which is
`NothingComesBack` of the feeder's invariant. And a clear moves the
epoch when it is done, so that whatever was answered before is dropped when it
lands.

### Engine_proofs

*FeederLifecycle*, for any finite set of callers: `WaitGroupIsBalanced`,
`StopKeepsItsPromise`. The count needs that contexts are never shared
(`Fresh`): adding a loop really adds one.

*EngineSession*, for any scripts, realms and failures:
`SessionFollowsTheRealm` (`SettledSessionIsTrue`). The property speaks of
settled states only. What holds in between is that whatever is not true of the
present realm is still *ahead* of the poller: an answer on its way ran in the
realm of its time (`AnswersAreOfTheirRealm`), a start's cursor is clear until
the feeder drains (`StartsClean`), and hook, cursor and registry follow unless
the step that makes them follow is to come (`FollowsTheRealm`).

*Navigator*, for any callers, pages and rebuilds: `NavigatorKeepsItsWord`
(`NavigatorIsHonest`). A walk keeps the slot while it runs
(`WalkHoldsTheSlot`), who was let go had waited for a walk that is over
(`WaitersAreOfAWalk`), and an answer that claims an injection is of a realm that
has it, or of one that is gone (`InstallsAreTrue`).

*RuntimeLog*, for any emitters and any ring: `ReplayAndStreamMerge`
(`LogReplayMerges`). A line that the panel has yet to show is in one place of
the stream (`EventsComeOnce`, `ShownIsOver`); from the moment of the request a
line that left the ring's copy is in the stream, and one that was not emitted
by then is in both (`NothingLost`, `SnapshotReaches`).

*PausePolicy*, for any peers, choices, stray commands and reloads:
`PausePolicyIsKept` (`PausePolicyIsTrue`). The invariant `PauseInv` says of a
peer and its realm what their frames say (`Tells`). From the moment the choice
is set, the setting of the realm is the choice unless a reload or a stray
command is on its way to the bridge (`InForce`); while the call waits for it,
no later command changes it (`LastWord`). A realm that stands still is one the
bridge shows as paused or will be told of (`StopIsHeard`), a call that skips
the resume has no pause behind its answer (`NoPauseBehind`), and behind
the acknowledgement of a resume the realm runs, or its next pause is announced
(`ResumeIsHeard`).
TLC checked it with two peers, five commands and five events, and with one
peer, eight and seven.

*DebugTools*, for any agents, connections and stops: `DebuggerTellsTheTruth`
(`DebugToolsAreTrue`). A stop is announced by one frame of one target
(`StopsAreOnce`), so a call that knew of it meets no other frame that brings it
again (`CallsAreOfTheirStop`); the last word of the frames on their way is
where the target stands, and without a word of that kind the snapshot is
(`EventsTell`); a mark is met by a command sent or performed (`MarksAreMet`).
TLC checked `DebugInv` with two agents, two connections and five uses.

### Services_proofs

*CoreProcess*: `CoreOutputKeepsItsOrder` (`CoreOutputInOrder`), for any number
of processes and lines. Only a client's creator has it to wire (`Wired`); the
lines replayed, written and still to come are consecutive (`NewestOf`,
`OutputOf`, `Pipes`), so a callback that is set in the middle neither repeats
one nor lets a later one overtake.

*ShellShutdown*: `ShutdownKeepsItsOrder` (`ShutdownIsOrderly`), for any calls.
What still runs at a stage belongs to a caller that came after the stage that
would have ended it (`CallersAreLate`, `WorkIsLate`).

*ScanJobs*: `ScanAnswersAreHonest` (`ScanAnswersHold`), for any directories,
jobs and cache: no entry of the cache is newer than its directory, and one that
shows other contents is of a directory that changed during its scan
(`CacheOK`); a job that may still leave the registry is in it (`JobsOK`).

*UpdateApply*, for every layout with an executable, every set of
required entries and every bound: `SwapStaysSound`, `AppliedMeansInstalled`,
from `UpdateInvariant`, which says where a swap stands (`Position`), what the
entries passed, at hand and still to come look like on the way forward
(`Forward`) and which are undone on the way back (`Backward`), that a swap
which reached its end put every required entry in place (`Whole`), and that the
required entries are of one version whenever no swap is under way (`Together`).
`Forward` carries the argument of the retry: a required entry still to come has
not left the staging tree, because the tree was checked before the swap. A swap
cut short by a death, or whose undoing failed, is outside `Together` (`clean`):
there the code does mix versions.

*TargetProbe*: `ProbesComeOffAlways` (`ProbesComeOff`), for any connections,
sessions, probes and troubles, from `ProbeInv`. It looks at each connection by
itself (`PeerView`: the bridge's record of it, the frames on the wire and the
page's end). There a number is one command's, and in one place (`PeerNumbers`);
a reply that makes a session known comes before what ends it (`PeerAnswers`,
`PeerOrder`); a probe waits for the one command of its stage (`PeerServes`,
`PeerStaged`); and until a DevTools session was taken for the bridge's own there
is at most one session, held or coming (`PeerFaithful`). Connections share no
number (`PeersApart`), and a step of one leaves the others alone (`Beside`,
`BridgeMoves`), so each step is a step of one view. Nothing is promised of a
connection on which the bridge was mistaken about a session. TLC checked
`ProbeInv` with one connection, three sessions, three probes and four troubles
(620,966 states).

### Agent_proofs

*McpSession*: `AgentHearsTheTruth` (`AgentIsToldTheTruth`), for any agents and
realms. What an actor found out is true as long as the realm of its answer
stands, or another actor excuses it (`RequestOK`), and the generation recorded
at a start is compared within one numbering of realms (`RecordOK`).

*Extraction*: `OutputsAreSafe` (`OutputsAreKept`), for any handlers and
programs. Every program that has an output has it in its directory or in a copy
that no run is about to remove (`CopiesOK`); each run's directories are its own
(`RunsOK`), what lies under the root is an unpacked version (`RootOK`), and a
reader that was not overtaken still sees what it began with (`ReadersOK`).

*AssetInventory*: `InventorySurvives` (`InventoryIsKept`), for any targets and
keys: of a saved key every later load knows, but for one that a learned name's
load and save straddle.

*TrafficStore*: `StoreKeepsTheEvidence`, the refinement of `Evidence`, one step
a writer; with `NothingStoredIsUnlearned`, which follows for the abstract
specification. `PagesAreWhole`: the rows a reader is still owed lie behind the
pages it has read (`OwedAreAhead`), by counting the rows that sort before one;
an announced body stays with its row (`BodiesAreStored`); a call is refused only
for another of the same key (`OnlyTwinsRefused`). `HistoryShowsItAll` gives all
of `HistoryIsHonest` under the hypothesis that no two calls share a key
(program, type, number and time), which a page's increasing numbers give within
a realm; without it two realms' records of one millisecond can collide, and the
run's `Calls` have no such pair.

*StoreOpen*, for any number of processes and any scripts:
`SchemaStaysWhole`: script and record commit together, so what took effect is
what is recorded, and no process is beyond it.

*UpdateDownload*, for any releases, builds, shards and windows:
`MarkerNamesAWhole`, `NoDowngrade`, from `DownloadInvariant`: whoever passed
the version check is newer than what is installed for as long as it stages, and
every shard passed is the manifest's. Versions are a strict order, proved from
the comparison of the code.

### Bridge_proofs

*FridaRuntime*: `AttachStaysClean` (`AttachIsClean`), for any targets,
connections and mishaps. The properties speak of an idle runtime, the
invariant of the session *held*, in force or being set up or let go of: the
target has no other, and has it as long as it lives (`TargetOK`); `StageOK`
says at each await what has been acquired already and what has not;
`NetworkOK` says which connections belong to which start.

*PageHooks*: `HooksComeOffAgain` (`HooksComeOff`), for any frames, captures and
incidents. The script remembers every method it wrapped in a frame that is
still there, and every bridge but those wrapped together with a later one
(`HooksAreKnown`); a capture has its hook unless a stop overtook it, and holds
only its own records once it cleared the page (`CaptureIsClean`). The frame
that is wrapped first, or remembered last, is a least or greatest number
(`LeastMember`, `GreatestMember`, from the well-foundedness of the naturals).

*CodeSearch*: `SearchStaysHonest` (`SearchIsHonest`), for any tree and caps.
The hits are exactly the matches the walk has passed, in order and once each
(`HitsArePassed`), it has met no line too long in the file it is in
(`ScanGoesOn`), and it ends behind the last file or with a full list
(`EndIsSaid`). `ExcerptIsTrue` is the arithmetic of the window.

*ConsoleLog*: `ConsoleHoldsItsWord` (`ConsoleKeepsItsWord`), for any producers,
clears, capacity and page size. A record is in one place on its way from the
page to the ring, and no place that still feeds the ring holds a discarded one
(`IdsOK`, `GoneOK`): a clear works in the direction of the flow, so what it has
emptied is refilled only by what is new, and what a producer holds meanwhile is
of an epoch or a generation that is over (`EpochsOK`). For the panel, all
numbers between the last clear and its marker were shown, told or cleared by
another (`PanelOK`), and an answer on its way fills the numbers from the marker
to its last row (`PollOK`), because the ring it was taken from is a window
without holes (`RingTakes`, `ListedPage`).

*ConsoleSources*: `ConsoleIsHeard` (`ConsoleHeard`), for any connections,
realms and failures. `Covered` says from which frame on the page records the
errors, and the calls, until its realm is set up anew. An answer to the install
covers what comes behind it (`AnswersCover`), because the target that answers
is the one whose hooks it speaks of; reading on moves the coverage to the front
of the inbox (`CoverageMoves`), adding a frame keeps it (`CoverageLasts`), and
so the coverage the bridge uses, or is about to use, is the locked page's
(`CoverTells`, `AnswerTells`). One that was given up shows in the generation,
unless the frame that moves it is on its way (`GivenUpIsNoticed`). TLC checked
`SourcesInv` with two connections and four occasions.

*PageConsole*, the two against one console: `ConsoleStaysHonest`
(`ConsoleIsHonest`).

### Tools_proofs

*MiniappTools*: `DrivesStayHonest` (`DrivesAreHonest`), for any pages, ids and
moves of the program. The properties compare a call with the history of the
program since it began; the invariant says that the history follows
(`HistoryFollows`: what is shown now is in it), and what each step has found
out: the page asked for was on top, the candidate of a scan bore the marker
(`StepsAreSound`), and nothing took effect before the step that sends it
(`EffectsByStep`).

*AgentStream*: `AgentsReadWell` (`AgentReadsWell`), for any rings, pages,
inboxes and requests. A request on its way asks from no further than where the
agent is, and is the one it awaits or was given up (`RequestsHold`); an answer
covers what lies between its request's cursor and its own but for what was
evicted (`SoundAnswer`), which growing rings keep true. An inbox holds one
answer of each request (`InboxHolds`): when it is full without the awaited one,
its positions map one to one to requests that were given up, hence `InboxSize`
of them.

*PageStream*: `StreamStaysHonest` (with `DropCountNeverUnderstates`
and `NoSilentSkip`), from `StreamInvariant`. That an accounting covers the
records it moves its mark over needs to know that whatever lies below the
cursor was read or accounted, for the cursor a request in flight carries, too
(`SkipsNothing(call.after)`); that needs what the answer may claim when it is
written back (`CallInOrder`), that no cursor comes from a realm yet to be
(`Past`) and where the marks stand (`Marks`). `AccountKeepsCount` is the heart.

### Core_proofs

*CoreRpc*, for any set of calls: `CallsStayAnsweredOnce`,
`CutPipeStaysSilent`, from `RpcInvariant`. A channel of one slot is safe
because a registered call is in one place only - pending, the read loop's
hand, the hand of one `failAll`, or its own channel - and in none before it
registers. For the cut pipe, the lock covers the write and its teardown.

*H5Sessions*, for any windows, sessions, requests and tombstones:
`H5Isolated` (`H5IsIsolated`), from `H5Inv`. Three orders carry it. A session
of ours has an owner, or the answer that makes one is still to be read
(`Coming`, in `SessionsOK`). What makes a session known comes before what ends
it, in the frames still unread, so no frame brings back what is given back
(`Unmakes`). And a session that is asked back is nobody else's (`Releases`).
Frames answer requests by number, so numbers must be one request's
(`Numbering`), and the flags of an entry fit its requests (`WindowOK`). What
closing may do, and nothing else, is said once (`Closes`), with the lemmas that
closing keeps each part; every handler is then a change of one entry followed
by a closing, read off a frame. A page with a window is owned by one, so the
fold over the owners is at most one closing (`OneOwned`). `H5Inv` promises
nothing once somebody else's session was taken for ours (`mistaken`), as
`H5IsIsolated` does. TLC checked `H5Inv` with two windows, three sessions, nine
requests and three happenings, tombstones at their limit included.

### Only model-checked

* Liveness (`EverythingArrives`, `EveryCallReturns`, `ServicesSettle`):
  fairness and ENABLED are out of the prover's reach.
* `NoDuplicate` of `HookFeeder`: no theorem for the constants the code has,
  since it is false once a realm is rebuilt (`feeder_rebuilt`). TLC checks it
  within one realm, where it holds.
* `ShellTypeOK` and `AgentTypeOK`, which put the type invariants of a run's
  parts together; the shapes of the parts proved about are in their invariants.

## 5. Plan

Done: everything in section 2. Worth doing next, in this order:

1. Proofs: `NoDuplicate` for one realm.
2. An abstract feeder (each capture stored at most once, handed out at most
   once, never after a clear) with `HookFeeder` shown to implement it.
3. `deliver`'s emission after the unlock, and a poll answered after the shell's
   clear, as steps of their own in `CapturePanel`.
4. Engine replacement on top of `CoreRpc` in one module: the overlong line that
   ends the read loop, after which nothing replaces the Core.
5. The identity probe's parsing; the storage-less mode of the feeder.

## 6. Not modelled

Replay, HAR and curl export, session keys and the open platform, the unpacking
and restoring of package sources, the static analysis behind an inventory, the
nuclei key patterns, the Frida scripts and offsets, and the views other than
the capture panel are sequential transformations, single requests, data or
presentation: no state of theirs is changed by several parties, and what they
compute is better tested than modelled. `Replay` and `Stats` of the feeder
change none of the modelled state. Of the modelled components, `PROJECT.json`
says what is left out of each ("partly").
