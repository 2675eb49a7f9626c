---------------------------- MODULE FridaRuntime ----------------------------
(* Attaching to the WMPF process and letting go of it: WmpfFridaRuntime of  *)
(* wmpf-frida-runtime.ts with the two socket servers it starts             *)
(* (websocket-servers.ts).  The Core serves one request after the other     *)
(* (stdio.ts), so engine.start and engine.stop never overlap; the target    *)
(* may die, a port may be taken and mini programs may connect or go away at *)
(* any await of theirs.                                                     *)
(*                                                                          *)
(* Sessions are numbered by attachment and bridges by start; 0 is           *)
(* `undefined`.  Unloading and detaching fail only when the target is gone. *)
(* The shipped hook.js holds the placeholder of its config, so that check   *)
(* is left out.                                                             *)
EXTENDS Naturals, FiniteSets

CONSTANTS
    MaxAttaches,   \* bound: sessions attached
    MaxBoots,      \* bound: targets, one after the other
    MaxSockets,    \* bound: connections of mini programs
    MaxMishaps     \* bound: what fails or is taken

ASSUME FridaSizes ==
    /\ MaxAttaches \in Nat /\ MaxBoots \in Nat
    /\ MaxSockets \in Nat /\ MaxMishaps \in Nat

VARIABLES
    fields,    \* the fields of WmpfFridaRuntime
    request,   \* the start or stop that is served, and what it holds
    wmpf,      \* the process: the sessions and scripts in it
    network,   \* the ports we listen on, those others hold, the connections
    mishaps

fridaVars == <<fields, request, wmpf, network, mishaps>>

Ports == {"debug", "cdp"}
Sockets == 1 .. MaxSockets
Off == [session |-> 0, script |-> 0, bridge |-> 0, frida |-> FALSE]
Waiting == [stage |-> "idle", boot |-> 0, session |-> 0]

FridaInit ==
    /\ fields = Off /\ request = Waiting
    /\ wmpf = [boot |-> 0, alive |-> FALSE, attaches |-> 0, since |-> 0,
              sessions |-> {}, scripts |-> {}]
    /\ network = [starts |-> 0, listening |-> {}, taken |-> {},
                  socket |-> [k \in Sockets |-> [bridge |-> 0, state |-> "none"]]]
    /\ mishaps = 0

\* A failure that the death of the target does not explain is a mishap.
Mishap == mishaps < MaxMishaps /\ mishaps' = mishaps + 1
Found == wmpf.alive /\ request.boot \in {0, wmpf.boot}
Blamed(ok) == IF ok \/ ~ Found THEN UNCHANGED mishaps ELSE Mishap
Go(stage) == request' = [request EXCEPT !.stage = stage]

-----------------------------------------------------------------------------
(* engine.start                                                             *)

\* Of a runtime that is not attached; an attached one answers its status.
StartEngine ==
    /\ request.stage = "idle" /\ ~ fields.frida
    /\ Go("find") /\ UNCHANGED <<fields, wmpf, network, mishaps>>

\* The process is looked for and so is the address table of its build; with
\* none the offsets are detected, on builds the detector knows.
FindTarget(found) ==
    /\ request.stage = "find"
    /\ found # "none" => wmpf.alive
    /\ request' = CASE found = "table" -> [request EXCEPT !.stage = "attach", !.boot = wmpf.boot]
                    [] found = "detect" -> [request EXCEPT !.stage = "probe", !.boot = wmpf.boot]
                    [] found = "none" -> Waiting
    /\ Blamed(found # "none")
    /\ UNCHANGED <<fields, wmpf, network>>

\* attachTarget, for the detector or for the hook; a session of the detector
\* is used again.
Attach(ok) ==
    /\ request.stage \in {"attach", "probe"} /\ request.session = 0
    /\ ok => Found /\ wmpf.attaches < MaxAttaches
    /\ IF ok
       THEN LET s == wmpf.attaches + 1 IN
            /\ request' = [request EXCEPT !.session = s]
            /\ wmpf' = [wmpf EXCEPT !.attaches = s, !.sessions = @ \cup {s}]
       ELSE request' = Waiting /\ UNCHANGED wmpf
    /\ Blamed(ok)
    /\ UNCHANGED <<fields, network>>

\* detectWindowsConfig: the detector is loaded ...
LoadDetector ==
    /\ request.stage = "probe" /\ request.session \in wmpf.sessions
    /\ Go("detecting")
    /\ wmpf' = [wmpf EXCEPT !.scripts = @ \cup {request.session}]
    /\ UNCHANGED <<fields, network, mishaps>>

\* ... and unloaded when it answered, failed or timed out.
Detected(ok) ==
    /\ request.stage = "detecting" /\ (ok => Found)
    /\ Blamed(ok)
    /\ wmpf' = [wmpf EXCEPT !.scripts = @ \ {request.session}]
    /\ Go(IF ok THEN "attach" ELSE "detach")
    /\ UNCHANGED <<fields, network>>

ProbeLost ==
    /\ request.stage = "probe" /\ request.session \notin wmpf.sessions \cup {0}
    /\ Go("detach") /\ UNCHANGED <<fields, wmpf, network, mishaps>>

\* createScript; from here on the runtime holds both.
CreateScript(ok) ==
    /\ request.stage = "attach" /\ request.session # 0
    /\ ok => Found
    /\ Blamed(ok)
    /\ IF ok
       THEN /\ fields' = [fields EXCEPT !.session = request.session, !.script = request.session]
            /\ Go("load")
       ELSE Go("unload") /\ UNCHANGED fields
    /\ UNCHANGED <<wmpf, network>>

\* script.load, and the servers of a new bridge begin to listen.
LoadHook(ok) ==
    /\ request.stage = "load"
    /\ ok => Found /\ network.starts < MaxAttaches
    /\ Blamed(ok)
    /\ IF ok
       THEN /\ Go("listen")
            /\ wmpf' = [wmpf EXCEPT !.scripts = @ \cup {request.session}]
            /\ network' = [network EXCEPT !.starts = @ + 1]
       ELSE Go("unload") /\ UNCHANGED <<wmpf, network>>
    /\ UNCHANGED fields

\* closeServer: every client is terminated, no other gets in.
Closed(n) ==
    [n EXCEPT !.listening = {},
              !.socket = [k \in Sockets |->
                  IF n.socket[k].state = "open" THEN [n.socket[k] EXCEPT !.state = "terminated"]
                  ELSE n.socket[k]]]

\* One of the two ports: with both the start is done, with one that cannot be
\* had both servers are closed.
ListenOn(p) ==
    /\ request.stage = "listen" /\ p \notin network.listening
    /\ IF p \in network.taken
       THEN network' = Closed(network) /\ Go("unload") /\ UNCHANGED fields
       ELSE /\ network' = [network EXCEPT !.listening = @ \cup {p}]
            /\ IF network.listening \cup {p} = Ports
               THEN /\ fields' = [fields EXCEPT !.bridge = network.starts, !.frida = TRUE]
                    /\ request' = Waiting
               ELSE UNCHANGED <<fields, request>>
    /\ UNCHANGED <<wmpf, mishaps>>

-----------------------------------------------------------------------------
(* engine.stop, and release of a failed start                               *)

\* The bridge is gone before its servers are. Without anything to stop nothing
\* changes.
StopEngine ==
    /\ request.stage = "idle" /\ fields # Off
    /\ fields' = [fields EXCEPT !.bridge = 0]
    /\ request' = [request EXCEPT !.stage = "close", !.session = fields.session]
    /\ UNCHANGED <<wmpf, network, mishaps>>

CloseServers ==
    /\ request.stage = "close"
    /\ network' = Closed(network) /\ Go("unload")
    /\ UNCHANGED <<fields, wmpf, mishaps>>

Unload ==
    /\ request.stage = "unload"
    /\ wmpf' = [wmpf EXCEPT !.scripts = @ \ {fields.script}]
    /\ Go("detach") /\ UNCHANGED <<fields, network, mishaps>>

\* As a bug would have it: only what the runtime holds by now is let go of.
DetachHeld ==
    /\ request.stage = "detach"
    /\ wmpf' = [wmpf EXCEPT !.sessions = @ \ {fields.session}, !.scripts = @ \ {fields.session}]
    /\ fields' = Off /\ request' = Waiting
    /\ UNCHANGED <<network, mishaps>>

Detach ==
    /\ request.stage = "detach"
    /\ wmpf' = [wmpf EXCEPT !.sessions = @ \ {request.session}, !.scripts = @ \ {request.session}]
    /\ fields' = Off /\ request' = Waiting
    /\ UNCHANGED <<network, mishaps>>

-----------------------------------------------------------------------------
(* Around it                                                                *)

BootTarget ==
    /\ ~ wmpf.alive /\ wmpf.boot < MaxBoots
    /\ wmpf' = [wmpf EXCEPT !.alive = TRUE, !.boot = @ + 1, !.since = wmpf.attaches]
    /\ UNCHANGED <<fields, request, network, mishaps>>

TargetDies ==
    /\ wmpf.alive
    /\ wmpf' = [wmpf EXCEPT !.alive = FALSE, !.sessions = {}, !.scripts = {}]
    /\ UNCHANGED <<fields, request, network, mishaps>>

\* Another program takes a port, or gives it back.
TakePort(p) ==
    /\ p \notin network.listening \cup network.taken /\ Mishap
    /\ network' = [network EXCEPT !.taken = @ \cup {p}]
    /\ UNCHANGED <<fields, request, wmpf>>

GivePort(p) ==
    /\ p \in network.taken /\ network' = [network EXCEPT !.taken = @ \ {p}]
    /\ UNCHANGED <<fields, request, wmpf, mishaps>>

\* A mini program connects as soon as the port listens.
Connect(k) ==
    /\ "debug" \in network.listening /\ network.socket[k].state = "none"
    /\ network' = [network EXCEPT !.socket[k] = [bridge |-> network.starts, state |-> "open"]]
    /\ UNCHANGED <<fields, request, wmpf, mishaps>>

\* Its socket closes; the handler takes it out of the bridge it was added to.
SocketCloses(k) ==
    /\ network.socket[k].state \in {"open", "terminated"}
    /\ network' = [network EXCEPT !.socket[k].state = "closed"]
    /\ UNCHANGED <<fields, request, wmpf, mishaps>>

FridaNext ==
    \/ StartEngine \/ LoadDetector \/ ProbeLost
    \/ StopEngine \/ CloseServers \/ Unload \/ Detach \/ BootTarget \/ TargetDies
    \/ \E found \in {"table", "detect", "none"} : FindTarget(found)
    \/ \E ok \in BOOLEAN : Attach(ok) \/ Detected(ok) \/ CreateScript(ok) \/ LoadHook(ok)
    \/ \E p \in Ports : ListenOn(p) \/ TakePort(p) \/ GivePort(p)
    \/ \E k \in Sockets : Connect(k) \/ SocketCloses(k)

FridaSpec == FridaInit /\ [][FridaNext]_fridaVars

-----------------------------------------------------------------------------
(* Properties                                                               *)

\* Every variable has its type.
FridaTypeOK ==
    /\ fields.session \in 0 .. MaxAttaches /\ fields.script \in 0 .. MaxAttaches
    /\ fields.bridge \in 0 .. MaxAttaches /\ request.session \in 0 .. MaxAttaches
    /\ wmpf.sessions \subseteq 1 .. MaxAttaches /\ wmpf.scripts \subseteq wmpf.sessions
    /\ network.listening \subseteq Ports /\ network.taken \subseteq Ports
    /\ mishaps \in 0 .. MaxMishaps

\* What connectionStatus reads of a bridge.
Registered(b) == {k \in Sockets : network.socket[k].bridge = b
                                  /\ network.socket[k].state \in {"open", "terminated"}}

\* A start that failed anywhere, and a stop, leave nothing behind: no session
\* and no script in the target, no port, no open connection.
OffLeavesNothing ==
    request.stage = "idle" /\ ~ fields.frida =>
        /\ fields = Off
        /\ wmpf.sessions = {} /\ wmpf.scripts = {} /\ network.listening = {}
        /\ \A k \in Sockets : network.socket[k].state # "open"

\* An attached engine listens on both ports and, while its target lives,
\* keeps one session with one script in it.
OnHoldsEverything ==
    request.stage = "idle" /\ fields.frida =>
        /\ network.listening = Ports
        /\ wmpf.sessions \subseteq {fields.session} /\ wmpf.scripts = wmpf.sessions
        /\ wmpf.alive /\ fields.session > wmpf.since => wmpf.sessions = {fields.session}

\* The target never holds two of our scripts: the detector is gone before the
\* hook is loaded, and a hook before the next.
OneScript == Cardinality(wmpf.scripts) <= 1 /\ Cardinality(wmpf.sessions) <= 1

\* engine.status counts the connections made since this start, and no other's.
StatusCountsItsOwn ==
    fields.bridge # 0 => /\ fields.frida /\ fields.bridge = network.starts
                          /\ \A k \in Registered(fields.bridge) : network.socket[k].state = "open"

AttachIsClean == OffLeavesNothing /\ OnHoldsEverything /\ OneScript /\ StatusCountsItsOwn
=============================================================================
