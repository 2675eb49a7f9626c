---------------------------- MODULE EngineSession ----------------------------
(* What the shell knows of the page realm: the status poller that notices  *)
(* a rebuilt realm (src/desktop/ipc_bridge.go), the connect-time injection *)
(* it starts, and the things that describe a realm and must follow it: the *)
(* hook of the running capture, its cursor and the registry of injected    *)
(* user scripts.  The processes behind the engine are in CoreProcess.      *)
(*                                                                         *)
(* A realm is the number of its birth.  The Core numbers the realms it     *)
(* sees on its own, from one, so a new Core repeats the generations of the *)
(* old one.                                                                *)
EXTENDS Naturals, FiniteSets

CONSTANTS
    Scripts,        \* user hook scripts
    GlobalScripts,  \* those marked global
    MaxNumberings,  \* bound: engines started, in one Core or in a new one
    MaxRealms,      \* bound: page realms
    MaxPresses      \* bound: presses of the capture switch

ASSUME GlobalScriptsAreScripts == GlobalScripts \subseteq Scripts
ASSUME EngineBounds == MaxNumberings \in Nat /\ MaxRealms \in Nat /\ MaxPresses \in Nat

VARIABLES
    engine,     \* App.engine: the process is running, exited or out of reach
    realm,      \* the page realm the engine's Core is attached to, 0 for none
    realms,     \* realms so far
    gen,        \* the Core's page generation
    hooked,     \* the wxapi hook is installed in the realm
    page,       \* user scripts evaluated in the realm
    capture,    \* the wxapi feeder: running, and the call that switches it
    cursor,     \* its ack: "zero", of this "realm", or of an "earlier" one
    registry,   \* App.injectedScripts
    inject,     \* the hook.inject in progress
    last,       \* the status the poller saw last
    asked,      \* the status answer the poller is about to look at
    jobs,       \* the autoInjectHooks goroutines, by the realm that started them
    refused,    \* history: the realm that refused the hook last
    overtaken,  \* history: scripts marked after the realm they ran in was gone
    numbering,  \* history: how often the Core began to number anew
    unseen,     \* history: the realm repeats the generation seen last
    presses     \* bound

pageState == <<realm, realms, gen, numbering, hooked, page>>
sessionVars == <<engine, pageState, capture, cursor, registry, inject, last, asked,
                 jobs, refused, overtaken, unseen, presses>>

Realms == 1 .. MaxRealms
NoScript == 0

Unseen == [miniapp |-> FALSE, gen |-> 0, numbering |-> 0]
NoAnswer == [pc |-> "idle", status |-> Unseen]
NoJob == [pc |-> "none", todo |-> {}, script |-> NoScript, ran |-> 0]
NoInject == [script |-> NoScript, ran |-> 0]

SessionInit ==
    /\ engine = "running"
    /\ realm = 0 /\ realms = 0 /\ gen = 0 /\ numbering = 1 /\ hooked = FALSE /\ page = {}
    /\ capture = [running |-> FALSE, call |-> "none"] /\ cursor = "zero"
    /\ registry = {} /\ inject = NoInject
    /\ last = Unseen /\ asked = NoAnswer
    /\ jobs = [r \in Realms |-> NoJob]
    /\ refused = 0 /\ overtaken = {} /\ unseen = FALSE /\ presses = 0

-----------------------------------------------------------------------------
(* The engine and its page.                                                *)

(* Any call that needs the Core finds it gone and spawns another, which    *)
(* numbers from one again.                                                 *)
EngineReplaced ==
    /\ engine # "running" /\ numbering < MaxNumberings
    /\ engine' = "running"
    /\ gen' = 0 /\ numbering' = numbering + 1
    /\ UNCHANGED <<realm, realms, hooked, page, capture, cursor, registry, inject,
                   last, asked, jobs, refused, overtaken, unseen, presses>>

(* The realm the Core was attached to is out of reach.                     *)
RealmLost ==
    /\ realm' = 0 /\ hooked' = FALSE /\ page' = {}
    /\ cursor' = IF cursor = "realm" THEN "earlier" ELSE cursor
    /\ UNCHANGED realms

(* The process dies, or its connection is torn.                            *)
EngineFails ==
    /\ engine = "running"
    /\ engine' \in {"exited", "broken"}
    /\ RealmLost
    /\ UNCHANGED <<gen, numbering, capture, registry, inject, last, asked,
                   jobs, refused, overtaken, unseen, presses>>

(* A miniapp connects, or its page is rebuilt: a new realm and a new       *)
(* generation.                                                             *)
NewRealm ==
    /\ engine = "running" /\ realms < MaxRealms
    /\ realms' = realms + 1 /\ realm' = realms + 1 /\ gen' = gen + 1
    /\ hooked' = FALSE /\ page' = {}
    /\ cursor' = IF cursor = "realm" THEN "earlier" ELSE cursor
    /\ UNCHANGED <<engine, numbering, capture, registry, inject, last, asked, jobs,
                   refused, overtaken, unseen, presses>>

-----------------------------------------------------------------------------
(* The status poller.                                                      *)

(* shouldAutoInjectHooks.                                                  *)
ShouldInject(seen, status) ==
    status.miniapp /\ IF status.gen > 0 THEN status.gen # seen.gen ELSE ~seen.miniapp

(* The status shows a realm of a new numbering under the generation that   *)
(* was seen last: nothing tells the two apart.                             *)
Repeats(status) ==
    /\ status.miniapp /\ ~ShouldInject(last, status)
    /\ unseen \/ last.numbering # status.numbering

(* A tick asks the client it read under the lock; the exit of its process  *)
(* is what makes the poller forget.                                        *)
PollAsk ==
    /\ asked.pc = "idle" /\ engine # "broken"
    /\ IF engine = "exited"
       THEN last' = Unseen /\ UNCHANGED asked
       ELSE /\ asked' = [pc |-> "answered",
                         status |-> [miniapp |-> realm # 0, gen |-> gen, numbering |-> numbering]]
            /\ UNCHANGED last
    /\ UNCHANGED <<engine, pageState, capture, cursor, registry, inject, jobs,
                   refused, overtaken, unseen, presses>>

\* Mutant: only the miniapp flag is compared.
PollTakeFlagOnly ==
    /\ asked.pc = "answered"
    /\ asked' = NoAnswer
    /\ last' = asked.status
    /\ IF asked.status.miniapp /\ ~last.miniapp
       THEN \E r \in Realms :
               /\ jobs[r].pc = "none" /\ \A q \in Realms : q < r => jobs[q].pc # "none"
               /\ jobs' = [jobs EXCEPT ![r].pc = "sleep"]
       ELSE UNCHANGED jobs
    /\ unseen' = Repeats(asked.status)
    /\ UNCHANGED <<engine, pageState, capture, cursor, registry, inject, refused,
                   overtaken, presses>>

(* The answer: a new generation starts an injection, in a goroutine of its *)
(* own; a failed call leaves everything for the next tick.                 *)
PollTake ==
    /\ asked.pc = "answered"
    /\ asked' = NoAnswer
    /\ last' = asked.status
    /\ IF ShouldInject(last, asked.status)
       THEN \E r \in Realms :
               /\ jobs[r].pc = "none" /\ \A q \in Realms : q < r => jobs[q].pc # "none"
               /\ jobs' = [jobs EXCEPT ![r].pc = "sleep"]
       ELSE UNCHANGED jobs
    /\ unseen' = Repeats(asked.status)
    /\ UNCHANGED <<engine, pageState, capture, cursor, registry, inject, refused,
                   overtaken, presses>>

PollFails ==
    /\ asked.pc = "answered" /\ asked' = NoAnswer
    /\ UNCHANGED <<engine, pageState, capture, cursor, registry, inject, last, jobs,
                   refused, overtaken, unseen, presses>>

-----------------------------------------------------------------------------
(* autoInjectHooks, step by step; its navigator step is in Navigator.      *)

(* Connecting is not a capture decision: the hook is installed again only  *)
(* for a capture that runs.                                                *)
JobWake(r) ==
    /\ jobs[r].pc = "sleep"
    /\ jobs' = [jobs EXCEPT ![r].pc = IF capture.running THEN "install" ELSE "reset"]
    /\ UNCHANGED <<engine, pageState, capture, cursor, registry, inject, last, asked,
                   refused, overtaken, unseen, presses>>

(* installHookForRealm: the realm at the end of the pipe takes the hook,   *)
(* or all three attempts are refused.                                      *)
JobInstall(r) ==
    /\ jobs[r].pc = "install"
    /\ \/ realm # 0 /\ hooked' = TRUE /\ UNCHANGED refused
       \/ refused' = realm /\ UNCHANGED hooked
    /\ jobs' = [jobs EXCEPT ![r].pc = "ack"]
    /\ UNCHANGED <<engine, realm, realms, gen, numbering, page, capture, cursor, registry,
                   inject, last, asked, overtaken, unseen, presses>>

(* ResetAck, whether the hook was taken or not.                            *)
JobResetAck(r) ==
    /\ jobs[r].pc = "ack"
    /\ cursor' = "zero"
    /\ jobs' = [jobs EXCEPT ![r].pc = "reset"]
    /\ UNCHANGED <<engine, pageState, capture, registry, inject, last, asked,
                   refused, overtaken, unseen, presses>>

(* resetInjectedHookScripts; the list of global scripts is read next.      *)
JobResetRegistry(r) ==
    /\ jobs[r].pc = "reset"
    /\ registry' = {} /\ overtaken' = {}
    /\ jobs' = [jobs EXCEPT ![r].pc = "scripts", ![r].todo = GlobalScripts]
    /\ UNCHANGED <<engine, pageState, capture, cursor, inject, last, asked, refused,
                   unseen, presses>>

(* injectGlobalHookScripts evaluates one script, which may fail ...        *)
JobEvaluate(r, s) ==
    /\ jobs[r].pc = "scripts" /\ s \in jobs[r].todo
    /\ \/ /\ realm # 0
          /\ page' = page \cup {s}
          /\ jobs' = [jobs EXCEPT ![r].pc = "mark", ![r].todo = @ \ {s},
                                  ![r].script = s, ![r].ran = realm]
       \/ /\ jobs' = [jobs EXCEPT ![r].todo = @ \ {s}]
          /\ UNCHANGED page
    /\ UNCHANGED <<engine, realm, realms, gen, numbering, hooked, capture, cursor, registry,
                   inject, last, asked, refused, overtaken, unseen, presses>>

(* ... and marks it when the answer is in.                                 *)
JobMark(r) ==
    /\ jobs[r].pc = "mark"
    /\ registry' = registry \cup {jobs[r].script}
    /\ overtaken' = IF jobs[r].ran = realm THEN overtaken
                    ELSE overtaken \cup {jobs[r].script}
    /\ jobs' = [jobs EXCEPT ![r].pc = "scripts", ![r].script = NoScript, ![r].ran = 0]
    /\ UNCHANGED <<engine, pageState, capture, cursor, inject, last, asked, refused,
                   unseen, presses>>

JobEnd(r) ==
    /\ jobs[r].pc = "scripts" /\ jobs[r].todo = {}
    /\ jobs' = [jobs EXCEPT ![r].pc = "ended"]
    /\ UNCHANGED <<engine, pageState, capture, cursor, registry, inject, last, asked,
                   refused, overtaken, unseen, presses>>

-----------------------------------------------------------------------------
(* hook.inject: the script runs in the realm of the moment, and is marked  *)
(* when the answer is in.                                                  *)
InjectEvaluate(s) ==
    /\ inject = NoInject /\ realm # 0 /\ engine = "running"
    /\ page' = page \cup {s}
    /\ inject' = [script |-> s, ran |-> realm]
    /\ UNCHANGED <<engine, realm, realms, gen, numbering, hooked, capture, cursor, registry,
                   last, asked, jobs, refused, overtaken, unseen, presses>>

InjectMark ==
    /\ inject # NoInject
    /\ registry' = registry \cup {inject.script}
    /\ overtaken' = IF inject.ran = realm THEN overtaken
                    ELSE overtaken \cup {inject.script}
    /\ inject' = NoInject
    /\ UNCHANGED <<engine, pageState, capture, cursor, last, asked, jobs, refused,
                   unseen, presses>>

-----------------------------------------------------------------------------
(* The capture switch.                                                     *)

(* wxapi.start: ResetAck, then HookFeeder.Start raises the flag before it  *)
(* asks the page.                                                          *)
StartCapture ==
    /\ ~capture.running /\ capture.call = "none" /\ presses < MaxPresses
    /\ presses' = presses + 1
    /\ cursor' = "zero"
    /\ capture' = [running |-> TRUE, call |-> "start"]
    /\ UNCHANGED <<engine, pageState, registry, inject, last, asked, jobs, refused,
                   overtaken, unseen>>

StartInstall ==
    /\ capture.call = "start"
    /\ \/ realm # 0 /\ hooked' = TRUE /\ capture' = [running |-> TRUE, call |-> "none"]
       \/ capture' = [running |-> FALSE, call |-> "none"] /\ UNCHANGED hooked
    /\ UNCHANGED <<engine, realm, realms, gen, numbering, page, cursor, registry, inject, last,
                   asked, jobs, refused, overtaken, unseen, presses>>

(* A tick of the drain loop moves the cursor into this realm's numbering.  *)
DrainTick ==
    /\ capture.running /\ capture.call = "none" /\ hooked /\ cursor = "zero"
    /\ cursor' = "realm"
    /\ UNCHANGED <<engine, pageState, capture, registry, inject, last, asked, jobs,
                   refused, overtaken, unseen, presses>>

(* wxapi.stop: the loop first, then the page, whose failure is ignored.    *)
StopCapture ==
    /\ capture = [running |-> TRUE, call |-> "none"]
    /\ capture' = [running |-> FALSE, call |-> "stop"]
    /\ UNCHANGED <<engine, pageState, cursor, registry, inject, last, asked, jobs,
                   refused, overtaken, unseen, presses>>

StopUninstall ==
    /\ capture.call = "stop"
    /\ hooked' \in {FALSE, hooked}
    /\ capture' = [capture EXCEPT !.call = "none"]
    /\ UNCHANGED <<engine, realm, realms, gen, numbering, page, cursor, registry, inject, last,
                   asked, jobs, refused, overtaken, unseen, presses>>

(* engine.stop: the debug engine leaves the page, then stopAuditCapture    *)
(* ends the capture, so that no later connection takes it up again.        *)
EngineStop ==
    /\ engine = "running" /\ capture.call = "none" /\ numbering < MaxNumberings
    /\ RealmLost /\ gen' = 0 /\ numbering' = numbering + 1
    /\ capture' = [running |-> FALSE, call |-> "none"]
    /\ UNCHANGED <<engine, registry, inject, last, asked, jobs, refused, overtaken,
                   unseen, presses>>

-----------------------------------------------------------------------------
SessionNext ==
    \/ EngineReplaced \/ EngineFails \/ NewRealm
    \/ PollAsk \/ PollTake \/ PollFails
    \/ \E r \in Realms : \/ JobWake(r) \/ JobInstall(r) \/ JobResetAck(r)
                         \/ JobResetRegistry(r) \/ JobMark(r) \/ JobEnd(r)
    \/ \E r \in Realms, s \in Scripts : JobEvaluate(r, s)
    \/ \E s \in Scripts : InjectEvaluate(s)
    \/ InjectMark
    \/ StartCapture \/ StartInstall \/ DrainTick \/ StopCapture \/ StopUninstall
    \/ EngineStop

SessionSpec == SessionInit /\ [][SessionNext]_sessionVars

-----------------------------------------------------------------------------
SessionTypeOK ==
    /\ engine \in {"running", "broken", "exited"}
    /\ realm \in 0 .. MaxRealms /\ gen \in Nat
    /\ hooked \in BOOLEAN /\ page \subseteq Scripts /\ registry \subseteq Scripts
    /\ cursor \in {"zero", "realm", "earlier"}
    /\ jobs \in [Realms -> [pc : {"none", "sleep", "install", "ack", "reset",
                                  "scripts", "mark", "ended"},
                            todo : SUBSET Scripts,
                            script : Scripts \cup {NoScript},
                            ran : 0 .. MaxRealms]]

(* The poller has seen the realm, and every injection it started is over.  *)
Settled ==
    /\ engine = "running" /\ realm # 0
    /\ last = [miniapp |-> TRUE, gen |-> gen, numbering |-> numbering] /\ asked = NoAnswer
    /\ \A r \in Realms : jobs[r].pc \in {"none", "ended"}

(* A running capture is hooked into the page realm it runs over and reads  *)
(* it from a cursor of that realm, unless the page refused the hook or the *)
(* poller took a new Core's realm for the old one's: a rebuilt realm never *)
(* leaves the panel "capturing" and dark (ipc_bridge.go:2869-2891).        *)
RunningCaptureIsHooked ==
    Settled /\ ~unseen /\ capture = [running |-> TRUE, call |-> "none"] =>
        /\ hooked \/ refused = realm
        /\ cursor # "earlier"

(* The registry claims a script of an earlier realm only when the script's *)
(* own answer came in after the realm had gone (app.go:60-63).             *)
OnlyOvertakenMarkersLie ==
    Settled /\ ~unseen => registry \ overtaken \subseteq page

\* The two together: what the panel is told of a settled session is so.
SettledSessionIsTrue == RunningCaptureIsHooked /\ OnlyOvertakenMarkersLie

=============================================================================
