------------------------ MODULE Bridge_proofs ------------------------
(* Proofs about what the shell has injected and collected, for any number  *)
(* of targets, frames, captures, files, records and clears: the attaching  *)
(* to the host process (FridaRuntime), the capture hooks of a page          *)
(* (PageHooks), code.search (CodeSearch), and the console: the two sources  *)
(* that report it (ConsoleSources) and what becomes of it (ConsoleLog).     *)
EXTENDS FridaRuntime, PageHooks, CodeSearch, PageConsole, SequenceTheorems,
        FiniteSetTheorems, WellFoundedInduction, TLAPS

-----------------------------------------------------------------------------
(* Attaching (FridaRuntime)                                                 *)

FridaStages == {"idle", "find", "attach", "probe", "detecting", "load", "listen", "close", "unload", "detach"}
SocketStates == {"none", "open", "terminated", "closed"}
FridaFields == [session : Nat, script : Nat, bridge : Nat, frida : BOOLEAN]
FridaRequests == [stage : FridaStages, boot : Nat, session : Nat]
Targets == [boot : Nat, alive : BOOLEAN, attaches : Nat, since : Nat,
            sessions : SUBSET Nat, scripts : SUBSET Nat]
Networks == [starts : Nat, listening : SUBSET Ports, taken : SUBSET Ports,
             socket : [Sockets -> [bridge : Nat, state : SocketStates]]]

FridaShapes ==
    fields \in FridaFields /\ request \in FridaRequests /\ wmpf \in Targets /\ network \in Networks

\* The session that is being set up, is in force or is let go of.
Held == IF request.stage = "idle" THEN fields.session ELSE request.session

\* The target holds no session but that one, and has it as long as it lives.
TargetOK ==
    /\ wmpf.since <= wmpf.attaches /\ Held <= wmpf.attaches /\ request.boot <= wmpf.boot
    /\ wmpf.sessions \subseteq {Held} \ {0} /\ wmpf.scripts \subseteq wmpf.sessions
    /\ wmpf.alive => wmpf.boot # 0
    /\ ~ wmpf.alive => wmpf.sessions = {}
    /\ wmpf.alive /\ Held > wmpf.since => wmpf.sessions = {Held}
    /\ wmpf.alive /\ request.boot = wmpf.boot /\ Held # 0 => Held > wmpf.since

\* A socket belongs to a start that was; none is open without a server, and
\* the servers of the bridge in force have not terminated one.
NetworkOK ==
    /\ \A k \in Sockets : network.socket[k].bridge <= network.starts
    /\ network.listening = {} => \A k \in Sockets : network.socket[k].state # "open"
    /\ request.stage = "listen" \/ (request.stage = "idle" /\ fields.frida) =>
          \A k \in Sockets : network.socket[k].bridge = network.starts =>
                                 network.socket[k].state # "terminated"

\* How far a start or a stop has got.
Setting == {"find", "attach", "probe", "detecting"}
StageOK ==
    /\ request.stage = "idle" =>
          /\ request = Waiting
          /\ ~ fields.frida => fields = Off /\ network.listening = {}
          /\ fields.frida => /\ fields.session # 0 /\ fields.bridge = network.starts
                             /\ network.listening = Ports /\ wmpf.scripts = wmpf.sessions
    /\ request.stage = "find" => request.session = 0 /\ request.boot = 0
    /\ request.stage \in Setting => fields = Off /\ network.listening = {}
    /\ request.stage \in {"attach", "probe", "load"} => request.boot # 0 /\ wmpf.scripts = {}
    /\ request.stage \in {"detecting", "load", "listen"} => request.boot # 0 /\ request.session # 0
    /\ request.stage \in {"load", "listen"} => /\ fields.session = request.session /\ ~ fields.frida
                                               /\ fields.bridge = 0
    /\ request.stage = "listen" => wmpf.scripts = wmpf.sessions
    /\ request.stage \in {"load", "unload", "detach"} => network.listening = {}
    /\ request.stage \in {"close", "unload", "detach"} => fields.bridge = 0

FridaInv == FridaShapes /\ TargetOK /\ NetworkOK /\ StageOK

LEMMA FridaInitially == FridaInit => FridaInv
<1> SUFFICES ASSUME FridaInit PROVE FridaInv
  OBVIOUS
<1>1. /\ fields = [session |-> 0, script |-> 0, bridge |-> 0, frida |-> FALSE]
      /\ request = [stage |-> "idle", boot |-> 0, session |-> 0]
      /\ wmpf = [boot |-> 0, alive |-> FALSE, attaches |-> 0, since |-> 0, sessions |-> {}, scripts |-> {}]
      /\ network = [starts |-> 0, listening |-> {}, taken |-> {},
                    socket |-> [k \in Sockets |-> [bridge |-> 0, state |-> "none"]]]
      /\ fields = Off /\ request = Waiting
  BY DEF FridaInit, Off, Waiting
<1>2. fields \in FridaFields /\ request \in FridaRequests /\ wmpf \in Targets
  BY <1>1 DEF FridaFields, FridaRequests, FridaStages, Targets
<1>3. network \in Networks
  BY <1>1 DEF Networks, SocketStates
<1>4. TargetOK /\ NetworkOK
  BY <1>1 DEF TargetOK, NetworkOK, Held
<1>5. StageOK
  BY <1>1 DEF StageOK, Setting
<1> QED
  BY <1>2, <1>3, <1>4, <1>5 DEF FridaInv, FridaShapes

\* What the updates of the record leave.
LEMMA StageSet ==
    ASSUME NEW r \in FridaRequests, NEW s \in FridaStages, NEW q, q = [r EXCEPT !.stage = s]
    PROVE  q \in FridaRequests /\ q.stage = s /\ q.boot = r.boot /\ q.session = r.session
  BY DEF FridaRequests

LEMMA SessionSet ==
    ASSUME NEW r \in FridaRequests, NEW n \in Nat, NEW q, q = [r EXCEPT !.session = n]
    PROVE  q \in FridaRequests /\ q.stage = r.stage /\ q.boot = r.boot /\ q.session = n
  BY DEF FridaRequests

LEMMA WaitingFields ==
    /\ Waiting \in FridaRequests /\ Waiting.stage = "idle" /\ Waiting.boot = 0 /\ Waiting.session = 0
    /\ Off \in FridaFields /\ Off.session = 0 /\ Off.script = 0 /\ Off.bridge = 0 /\ Off.frida = FALSE
  BY DEF Waiting, Off, FridaRequests, FridaFields, FridaStages

LEMMA GoFields ==
    ASSUME FridaShapes, NEW s \in FridaStages, Go(s)
    PROVE  /\ request' \in FridaRequests /\ request'.stage = s
           /\ request'.boot = request.boot /\ request'.session = request.session
  BY StageSet DEF FridaShapes, Go

LEMMA ClosedFields ==
    ASSUME NEW n \in Networks, NEW c, c = Closed(n)
    PROVE  /\ c \in Networks /\ c.listening = {} /\ c.starts = n.starts /\ c.taken = n.taken
           /\ \A k \in Sockets : c.socket[k].bridge = n.socket[k].bridge /\ c.socket[k].state # "open"
<1>1. PICK f : f = [k \in Sockets |-> IF n.socket[k].state = "open" THEN [n.socket[k] EXCEPT !.state = "terminated"]
                                      ELSE n.socket[k]]
  OBVIOUS
<1>2. c = [n EXCEPT !.listening = {}, !.socket = f]
  BY <1>1 DEF Closed
<1>3. \A k \in Sockets : n.socket[k] \in [bridge : Nat, state : SocketStates]
  BY DEF Networks
<1>4. \A k \in Sockets : /\ f[k] \in [bridge : Nat, state : SocketStates]
                         /\ f[k].bridge = n.socket[k].bridge /\ f[k].state # "open"
  BY <1>1, <1>3 DEF SocketStates
<1>5. f \in [Sockets -> [bridge : Nat, state : SocketStates]]
  BY <1>1, <1>4
<1>6. {} \in SUBSET Ports
  OBVIOUS
<1> QED
  BY <1>2, <1>4, <1>5, <1>6 DEF Networks

\* The network stays in order while nothing of it changes and no server starts.
LEMMA SameNetwork ==
    ASSUME FridaInv, UNCHANGED network, request'.stage # "listen", request'.stage = "idle" => ~ fields'.frida
    PROVE  network' \in Networks /\ NetworkOK'
  BY DEF FridaInv, FridaShapes, NetworkOK

LEMMA ClosedNetwork ==
    ASSUME FridaInv, network' = Closed(network), request'.stage \notin {"idle", "listen"}
    PROVE  network' \in Networks /\ NetworkOK' /\ network'.listening = {}
  BY ClosedFields DEF FridaInv, FridaShapes, NetworkOK

-----------------------------------------------------------------------------
LEMMA FindKeeps ==
    ASSUME FridaInv, StartEngine \/ \E found \in {"table", "detect", "none"} : FindTarget(found) PROVE FridaInv'
<1>1. UNCHANGED <<fields, wmpf, network>>
  BY DEF StartEngine, FindTarget
<1>2. request \in FridaRequests /\ fields \in FridaFields /\ wmpf \in Targets /\ wmpf.boot \in Nat
  BY DEF FridaInv, FridaShapes, Targets
<1>3. CASE StartEngine
  BY <1>1, <1>2, <1>3, GoFields, WaitingFields, SameNetwork DEF StartEngine, FridaInv, FridaStages,
     StageOK, Held, TargetOK, Setting, FridaShapes
<1>4. ASSUME NEW found \in {"table", "detect", "none"}, FindTarget(found) PROVE FridaInv'
  <2>1. /\ request.stage = "find" /\ fields = Off /\ network.listening = {} /\ request.session = 0 /\ Held = 0
        /\ found # "none" => wmpf.alive
    BY <1>4 DEF FindTarget, FridaInv, StageOK, Setting, Held
  <2>2. CASE found = "none"
    BY <1>1, <1>2, <1>4, <2>1, <2>2, WaitingFields, SameNetwork DEF FindTarget, Held, FridaInv,
       TargetOK, StageOK, Setting, FridaShapes
  <2>3. CASE found # "none"
    <3>1. PICK s \in {"attach", "probe"} : request' = [request EXCEPT !.stage = s, !.boot = wmpf.boot]
      BY <1>4, <2>3 DEF FindTarget
    <3>2. /\ request' \in FridaRequests /\ request'.stage = s /\ request'.boot = wmpf.boot /\ request'.session = 0
          /\ Held' = 0
      <4>1. s \in FridaStages
        BY DEF FridaStages
      <4>2. PICK b \in Nat : b = wmpf.boot
        BY <1>2
      <4>3. request' = [request EXCEPT !.stage = s, !.boot = b]
        BY <3>1, <4>2
      <4>4. request' \in FridaRequests /\ request'.stage = s /\ request'.boot = b /\ request'.session = request.session
        BY <1>2, <4>1, <4>2, <4>3 DEF FridaRequests
      <4> QED
        BY <1>1, <2>1, <4>2, <4>4, WaitingFields DEF Held
    <3>3. wmpf.alive /\ wmpf.boot # 0
      BY <2>1, <2>3 DEF FridaInv, TargetOK
    <3>4. TargetOK'
      BY <1>1, <1>2, <2>1, <3>2 DEF FridaInv, TargetOK
    <3>5. wmpf.scripts = {}
      BY <2>1 DEF FridaInv, TargetOK
    <3>6. StageOK'
      BY <1>1, <2>1, <3>2, <3>3, <3>5 DEF StageOK, Setting
    <3> QED
      BY <1>1, <1>2, <3>2, <3>4, <3>6, SameNetwork DEF FridaInv, FridaShapes
  <2> QED
    BY <2>2, <2>3
<1> QED
  BY <1>3, <1>4

LEMMA AttachKeeps == ASSUME FridaInv, NEW ok \in BOOLEAN, Attach(ok) PROVE FridaInv'
<1>1. /\ UNCHANGED <<fields, network>> /\ request.stage \in {"attach", "probe"} /\ request.session = 0
      /\ fields = Off /\ network.listening = {} /\ Held = 0 /\ request.boot # 0 /\ wmpf.scripts = {}
  BY DEF Attach, FridaInv, StageOK, Setting, Held
<1>2. /\ request \in FridaRequests /\ fields \in FridaFields /\ wmpf \in Targets /\ wmpf.boot \in Nat
      /\ wmpf.attaches \in Nat /\ wmpf.since \in Nat /\ wmpf.since <= wmpf.attaches /\ request.boot \in Nat
      /\ wmpf.sessions = {}
  BY <1>1 DEF FridaInv, FridaShapes, Targets, TargetOK, FridaRequests
<1>3. CASE ok
  <2>1. PICK s \in Nat : s = wmpf.attaches + 1
    BY <1>2
  <2>2. /\ request' = [request EXCEPT !.session = s]
        /\ wmpf' = [wmpf EXCEPT !.attaches = s, !.sessions = @ \cup {s}] /\ wmpf.alive
    BY <1>3, <2>1 DEF Attach, Found
  <2>3. /\ request' \in FridaRequests /\ request'.stage = request.stage /\ request'.boot = request.boot
        /\ request'.session = s
    BY <1>2, <2>1, <2>2, SessionSet
  <2>4. PICK held \in SUBSET Nat : held = wmpf.sessions \cup {s} /\ held = {s}
    BY <1>2, <2>1
  <2>5. /\ wmpf' \in Targets /\ wmpf'.attaches = s /\ wmpf'.sessions = {s} /\ wmpf'.boot = wmpf.boot
        /\ wmpf'.alive = wmpf.alive /\ wmpf'.since = wmpf.since /\ wmpf'.scripts = wmpf.scripts
    <3>1. wmpf' = [wmpf EXCEPT !.attaches = s, !.sessions = held]
      BY <2>2, <2>4
    <3> QED
      BY <1>2, <2>1, <2>4, <3>1 DEF Targets
  <2>6. Held' = s /\ s # 0
    BY <1>1, <1>2, <2>1, <2>3 DEF Held
  <2>7. TargetOK'
    BY <1>1, <1>2, <2>1, <2>3, <2>5, <2>6, <2>2 DEF FridaInv, TargetOK
  <2>8. StageOK'
    BY <1>1, <2>3, <2>5 DEF StageOK, Setting
  <2> QED
    BY <1>1, <1>2, <2>3, <2>5, <2>7, <2>8, SameNetwork DEF FridaInv, FridaShapes
<1>4. CASE ~ ok
  BY <1>1, <1>2, <1>4, WaitingFields, SameNetwork DEF Attach, Held, FridaInv, TargetOK, StageOK,
     Setting, FridaShapes
<1> QED
  BY <1>3, <1>4

\* A step of a start or stop that moves scripts of the session at hand.
LEMMA ScriptFields ==
    ASSUME NEW t \in Targets, NEW sc \in SUBSET Nat, NEW u, u = [t EXCEPT !.scripts = sc]
    PROVE  /\ u \in Targets /\ u.scripts = sc /\ u.sessions = t.sessions /\ u.boot = t.boot
           /\ u.alive = t.alive /\ u.since = t.since /\ u.attaches = t.attaches
  BY DEF Targets

LEMMA TargetStays ==
    ASSUME FridaInv, NEW sc \in SUBSET wmpf.sessions, wmpf' = [wmpf EXCEPT !.scripts = sc],
           Held' = Held, request'.boot = request.boot
    PROVE  wmpf' \in Targets /\ TargetOK' /\ wmpf'.scripts = sc /\ wmpf'.sessions = wmpf.sessions
<1>1. wmpf \in Targets /\ sc \in SUBSET Nat
  BY DEF FridaInv, FridaShapes, Targets
<1>2. /\ wmpf' \in Targets /\ wmpf'.scripts = sc /\ wmpf'.sessions = wmpf.sessions /\ wmpf'.boot = wmpf.boot
      /\ wmpf'.alive = wmpf.alive /\ wmpf'.since = wmpf.since /\ wmpf'.attaches = wmpf.attaches
  BY <1>1, ScriptFields
<1> QED
  BY <1>2 DEF FridaInv, TargetOK

LEMMA DetectorKeeps ==
    ASSUME FridaInv, LoadDetector \/ ProbeLost \/ \E ok \in BOOLEAN : Detected(ok) PROVE FridaInv'
<1>1. /\ UNCHANGED <<fields, network>> /\ request.stage \in {"probe", "detecting"} /\ fields = Off
      /\ network.listening = {} /\ Held = request.session
  BY DEF LoadDetector, ProbeLost, Detected, FridaInv, StageOK, Setting, Held
<1>2. request \in FridaRequests /\ fields \in FridaFields /\ wmpf \in Targets /\ FridaShapes
  BY DEF FridaInv, FridaShapes
<1>3. CASE LoadDetector
  <2>1. request.stage = "probe" /\ request.session \in wmpf.sessions /\ Go("detecting")
        /\ wmpf' = [wmpf EXCEPT !.scripts = @ \cup {request.session}]
    BY <1>3 DEF LoadDetector
  <2>2. /\ request' \in FridaRequests /\ request'.stage = "detecting" /\ request'.boot = request.boot
        /\ request'.session = request.session /\ Held' = Held
    BY <1>1, <1>2, <2>1, GoFields DEF FridaStages, Held
  <2>3. request.boot # 0 /\ wmpf.scripts = {} /\ request.session # 0
    BY <2>1 DEF FridaInv, StageOK, TargetOK
  <2>4. PICK sc \in SUBSET wmpf.sessions : sc = wmpf.scripts \cup {request.session}
    BY <2>1, <2>3
  <2>5. wmpf' \in Targets /\ TargetOK' /\ wmpf'.scripts = sc /\ wmpf'.sessions = wmpf.sessions
    BY <2>1, <2>2, <2>4, TargetStays
  <2>6. StageOK'
    BY <1>1, <2>2, <2>3 DEF StageOK, Setting
  <2> QED
    BY <1>1, <1>2, <2>2, <2>5, <2>6, SameNetwork DEF FridaInv, FridaShapes
<1>4. ASSUME NEW ok \in BOOLEAN, Detected(ok) PROVE FridaInv'
  <2>1. PICK s \in {"attach", "detach"} : request.stage = "detecting" /\ Go(s)
    BY <1>4 DEF Detected
  <2>2. /\ request' \in FridaRequests /\ request'.stage = s /\ request'.boot = request.boot
        /\ request'.session = request.session /\ Held' = Held
    BY <1>1, <1>2, <2>1, GoFields DEF FridaStages, Held
  <2>3. PICK sc \in SUBSET wmpf.sessions : sc = wmpf.scripts \ {request.session} /\ sc = {}
    BY <1>1 DEF FridaInv, TargetOK
  <2>4. wmpf' \in Targets /\ TargetOK' /\ wmpf'.scripts = {}
    BY <1>4, <2>2, <2>3, TargetStays DEF Detected
  <2>5. request.boot # 0
    BY <2>1 DEF FridaInv, StageOK
  <2>6. StageOK'
    BY <1>1, <2>2, <2>4, <2>5, WaitingFields DEF StageOK, Setting
  <2> QED
    BY <1>1, <1>2, <2>2, <2>4, <2>6, SameNetwork DEF FridaInv, FridaShapes
<1>5. CASE ProbeLost
  BY <1>1, <1>2, <1>5, GoFields, WaitingFields, SameNetwork DEF ProbeLost, FridaStages, Held,
     FridaInv, TargetOK, StageOK, Setting, FridaShapes
<1> QED
  BY <1>3, <1>4, <1>5

LEMMA CreateScriptKeeps == ASSUME FridaInv, NEW ok \in BOOLEAN, CreateScript(ok) PROVE FridaInv'
<1>1. /\ UNCHANGED <<wmpf, network>> /\ request.stage = "attach" /\ request.session # 0 /\ fields = Off
      /\ network.listening = {} /\ Held = request.session /\ request.boot # 0 /\ wmpf.scripts = {}
  BY DEF CreateScript, FridaInv, StageOK, Setting, Held
<1>2. request \in FridaRequests /\ fields \in FridaFields /\ wmpf \in Targets /\ FridaShapes
  BY DEF FridaInv, FridaShapes
<1>3. PICK s \in {"load", "unload"} :
        /\ Go(s) /\ fields' \in FridaFields /\ fields'.bridge = 0 /\ ~ fields'.frida
        /\ s = "load" => fields'.session = request.session
  <2>1. CASE ok
    <3>1. Go("load") /\ fields' = [fields EXCEPT !.session = request.session, !.script = request.session]
      BY <2>1 DEF CreateScript
    <3>2. PICK n \in Nat : n = request.session
      BY <1>2 DEF FridaRequests
    <3>3. fields' = [fields EXCEPT !.session = n, !.script = n]
      BY <3>1, <3>2
    <3>4. fields.bridge = 0 /\ fields.frida = FALSE
      BY <1>1, WaitingFields
    <3>5. fields' \in FridaFields /\ fields'.bridge = fields.bridge /\ fields'.frida = fields.frida /\ fields'.session = n
      BY <1>2, <3>2, <3>3 DEF FridaFields
    <3> QED
      BY <3>1, <3>2, <3>4, <3>5
  <2>2. CASE ~ ok
    BY <1>1, <1>2, <2>2, WaitingFields DEF CreateScript
  <2> QED
    BY <2>1, <2>2
<1>4. /\ request' \in FridaRequests /\ request'.stage = s /\ request'.boot = request.boot
      /\ request'.session = request.session /\ Held' = Held
  BY <1>1, <1>2, <1>3, GoFields DEF FridaStages, Held
<1>5. TargetOK'
  BY <1>1, <1>4 DEF FridaInv, TargetOK
<1>6. StageOK'
  BY <1>1, <1>3, <1>4 DEF StageOK, Setting
<1> QED
  BY <1>1, <1>2, <1>3, <1>4, <1>5, <1>6, SameNetwork DEF FridaInv, FridaShapes

LEMMA LoadHookKeeps == ASSUME FridaInv, NEW ok \in BOOLEAN, LoadHook(ok) PROVE FridaInv'
<1>1. /\ UNCHANGED fields /\ request.stage = "load" /\ request.session # 0 /\ fields.bridge = 0 /\ ~ fields.frida
      /\ network.listening = {} /\ Held = request.session /\ request.boot # 0 /\ wmpf.scripts = {}
      /\ fields.session = request.session
  BY DEF LoadHook, FridaInv, StageOK, Setting, Held
<1>2. request \in FridaRequests /\ fields \in FridaFields /\ wmpf \in Targets /\ network \in Networks /\ FridaShapes
  BY DEF FridaInv, FridaShapes
<1>3. CASE ~ ok
  BY <1>1, <1>2, <1>3, GoFields, SameNetwork DEF LoadHook, FridaStages, Held, FridaInv, TargetOK,
     StageOK, Setting, FridaShapes
<1>4. CASE ok
  <2>1. /\ Go("listen") /\ wmpf' = [wmpf EXCEPT !.scripts = @ \cup {request.session}]
        /\ network' = [network EXCEPT !.starts = @ + 1] /\ Found
    BY <1>4 DEF LoadHook
  <2>2. /\ request' \in FridaRequests /\ request'.stage = "listen" /\ request'.boot = request.boot
        /\ request'.session = request.session /\ Held' = Held
    BY <1>1, <1>2, <2>1, GoFields DEF FridaStages, Held
  <2>3. wmpf.sessions = {request.session}
    BY <1>1, <2>1 DEF Found, FridaInv, TargetOK
  <2>4. PICK sc \in SUBSET wmpf.sessions : sc = wmpf.scripts \cup {request.session} /\ sc = wmpf.sessions
    BY <1>1, <2>3
  <2>5. wmpf' \in Targets /\ TargetOK' /\ wmpf'.scripts = sc /\ wmpf'.sessions = wmpf.sessions
    BY <2>1, <2>2, <2>4, TargetStays
  <2>6. PICK n \in Nat : n = network.starts + 1
    BY <1>2 DEF Networks
  <2>7. /\ network' \in Networks /\ network'.starts = n /\ network'.listening = network.listening
        /\ network'.socket = network.socket
    BY <1>2, <2>1, <2>6 DEF Networks
  <2>8. \A k \in Sockets : network.socket[k].bridge \in Nat /\ network.socket[k].bridge <= network.starts
    BY <1>2 DEF Networks, FridaInv, NetworkOK
  <2>9. network.starts \in Nat
    BY <1>2 DEF Networks
  <2>10. NetworkOK'
    BY <1>1, <2>2, <2>6, <2>7, <2>8, <2>9 DEF FridaInv, NetworkOK
  <2>11. StageOK'
    BY <1>1, <2>2, <2>4, <2>5 DEF StageOK, Setting
  <2> QED
    BY <1>1, <1>2, <2>2, <2>5, <2>7, <2>10, <2>11 DEF FridaInv, FridaShapes
<1> QED
  BY <1>3, <1>4

LEMMA ListenKeepsClean == ASSUME FridaInv, NEW p \in Ports, ListenOn(p) PROVE FridaInv'
<1>1. /\ UNCHANGED wmpf /\ request.stage = "listen" /\ request.session # 0 /\ fields.bridge = 0 /\ ~ fields.frida
      /\ Held = request.session /\ fields.session = request.session /\ wmpf.scripts = wmpf.sessions
      /\ request.boot # 0
  BY DEF ListenOn, FridaInv, StageOK, Setting, Held
<1>2. request \in FridaRequests /\ fields \in FridaFields /\ wmpf \in Targets /\ network \in Networks /\ FridaShapes
  BY DEF FridaInv, FridaShapes
<1>3. CASE p \in network.taken
  BY <1>1, <1>2, <1>3, GoFields, ClosedNetwork DEF ListenOn, FridaStages, Held, FridaInv, TargetOK,
     StageOK, Setting, FridaShapes
<1>4. CASE p \notin network.taken
  <2> PICK ports : ports = network.listening \cup {p}
    OBVIOUS
  <2>1. network' = [network EXCEPT !.listening = ports]
    BY <1>4 DEF ListenOn
  <2>2. ports \in SUBSET Ports /\ ports # {}
    BY <1>2 DEF Networks
  <2>3. /\ network' \in Networks /\ network'.starts = network.starts /\ network'.listening = ports
        /\ network'.socket = network.socket
    BY <1>2, <2>1, <2>2 DEF Networks
  <2>4. /\ \A k \in Sockets : network.socket[k].bridge <= network.starts
        /\ \A k \in Sockets : network.socket[k].bridge = network.starts => network.socket[k].state # "terminated"
    BY <1>1 DEF FridaInv, NetworkOK
  <2>5. NetworkOK'
    BY <2>2, <2>3, <2>4 DEF NetworkOK
  <2>6. CASE ports = Ports
    <3>1. fields' = [fields EXCEPT !.bridge = network.starts, !.frida = TRUE] /\ request' = Waiting
      BY <1>4, <2>6 DEF ListenOn
    <3>2. PICK n \in Nat : n = network.starts
      BY <1>2 DEF Networks
    <3>3. fields' = [fields EXCEPT !.bridge = n, !.frida = TRUE]
      BY <3>1, <3>2
    <3>4. fields' \in FridaFields /\ fields'.bridge = n /\ fields'.frida = TRUE /\ fields'.session = fields.session
      BY <1>2, <3>2, <3>3 DEF FridaFields
    <3>5. request' \in FridaRequests /\ request'.stage = "idle" /\ request'.boot = 0 /\ Held' = Held
      BY <1>1, <3>1, <3>4, WaitingFields DEF Held
    <3>6. TargetOK'
      BY <1>1, <1>2, <3>5 DEF FridaInv, TargetOK, Targets
    <3>7. StageOK'
      BY <1>1, <2>3, <2>6, <3>1, <3>2, <3>4, <3>5 DEF StageOK, Setting
    <3> QED
      BY <1>1, <1>2, <2>3, <2>5, <3>4, <3>5, <3>6, <3>7 DEF FridaInv, FridaShapes
  <2>7. CASE ports # Ports
    BY <1>1, <1>2, <1>4, <2>3, <2>5, <2>7 DEF ListenOn, FridaInv, TargetOK, Held, StageOK, Setting,
       FridaShapes
  <2> QED
    BY <2>6, <2>7
<1> QED
  BY <1>3, <1>4

LEMMA StopKeepsClean == ASSUME FridaInv, StopEngine \/ CloseServers PROVE FridaInv'
<1>1. UNCHANGED wmpf /\ request \in FridaRequests /\ fields \in FridaFields /\ wmpf \in Targets
      /\ network \in Networks /\ FridaShapes
  BY DEF StopEngine, CloseServers, FridaInv, FridaShapes
<1>2. CASE StopEngine
  <2>1. /\ request.stage = "idle" /\ UNCHANGED network /\ fields' = [fields EXCEPT !.bridge = 0]
        /\ request' = [request EXCEPT !.stage = "close", !.session = fields.session]
    BY <1>2 DEF StopEngine
  <2>2. PICK n \in Nat : n = fields.session
    BY <1>1 DEF FridaFields
  <2>3. request' \in FridaRequests /\ request'.stage = "close" /\ request'.boot = request.boot /\ request'.session = n
    <3>1. request' = [request EXCEPT !.stage = "close", !.session = n] /\ "close" \in FridaStages
      BY <2>1, <2>2 DEF FridaStages
    <3> QED
      BY <1>1, <2>2, <3>1 DEF FridaRequests
  <2>4. fields' \in FridaFields /\ fields'.bridge = 0 /\ Held' = Held
    BY <1>1, <2>1, <2>2, <2>3 DEF FridaFields, Held
  <2>5. TargetOK'
    BY <1>1, <2>3, <2>4 DEF FridaInv, TargetOK
  <2>6. StageOK'
    BY <2>3, <2>4 DEF StageOK, Setting
  <2> QED
    BY <1>1, <2>1, <2>3, <2>4, <2>5, <2>6, SameNetwork DEF FridaInv, FridaShapes
<1>3. CASE CloseServers
  BY <1>1, <1>3, GoFields, ClosedNetwork DEF CloseServers, FridaStages, Held, FridaInv, TargetOK,
     StageOK, Setting, FridaShapes
<1> QED
  BY <1>2, <1>3

LEMMA LetGoKeeps == ASSUME FridaInv, Unload \/ Detach PROVE FridaInv'
<1>1. UNCHANGED network /\ request \in FridaRequests /\ fields \in FridaFields /\ wmpf \in Targets
      /\ network \in Networks /\ FridaShapes /\ network.listening = {} /\ Held = request.session
  BY DEF Unload, Detach, FridaInv, FridaShapes, StageOK, Held
<1>2. CASE Unload
  <2>1. request.stage = "unload" /\ UNCHANGED fields /\ Go("detach")
        /\ wmpf' = [wmpf EXCEPT !.scripts = @ \ {fields.script}]
    BY <1>2 DEF Unload
  <2>2. /\ request' \in FridaRequests /\ request'.stage = "detach" /\ request'.boot = request.boot
        /\ request'.session = request.session /\ Held' = Held
    BY <1>1, <2>1, GoFields DEF FridaStages, Held
  <2>3. PICK sc \in SUBSET wmpf.sessions : sc = wmpf.scripts \ {fields.script}
    BY DEF FridaInv, TargetOK
  <2>4. wmpf' \in Targets /\ TargetOK'
    BY <2>1, <2>2, <2>3, TargetStays
  <2>5. fields.bridge = 0
    BY <2>1 DEF FridaInv, StageOK
  <2>6. StageOK'
    BY <1>1, <2>1, <2>2, <2>5 DEF StageOK, Setting
  <2> QED
    BY <1>1, <2>1, <2>2, <2>4, <2>6, SameNetwork DEF FridaInv, FridaShapes
<1>3. CASE Detach
  <2>1. /\ wmpf' = [wmpf EXCEPT !.sessions = @ \ {request.session}, !.scripts = @ \ {request.session}]
        /\ fields' = Off /\ request' = Waiting
    BY <1>3 DEF Detach
  <2>2. wmpf.sessions \ {request.session} = {} /\ wmpf.scripts \ {request.session} = {}
    BY <1>1 DEF FridaInv, TargetOK
  <2>3. /\ wmpf' \in Targets /\ wmpf'.sessions = {} /\ wmpf'.scripts = {} /\ wmpf'.boot = wmpf.boot
        /\ wmpf'.alive = wmpf.alive /\ wmpf'.since = wmpf.since /\ wmpf'.attaches = wmpf.attaches
    <3>1. wmpf' = [wmpf EXCEPT !.sessions = {}, !.scripts = {}]
      BY <2>1, <2>2
    <3> QED
      BY <1>1, <3>1 DEF Targets
  <2>4. Held' = 0 /\ request'.boot = 0 /\ request'.stage = "idle" /\ request' \in FridaRequests
        /\ fields' \in FridaFields /\ ~ fields'.frida
    BY <2>1, WaitingFields DEF Held
  <2>5. TargetOK'
    BY <1>1, <2>3, <2>4 DEF FridaInv, TargetOK, Targets
  <2>6. StageOK'
    BY <1>1, <2>1, <2>4 DEF StageOK, Setting
  <2> QED
    BY <1>1, <2>3, <2>4, <2>5, <2>6, SameNetwork DEF FridaInv, FridaShapes
<1> QED
  BY <1>2, <1>3

LEMMA TargetLifeKeeps == ASSUME FridaInv, BootTarget \/ TargetDies PROVE FridaInv'
<1>1. /\ UNCHANGED <<fields, request, network>> /\ wmpf \in Targets /\ FridaShapes /\ Held' = Held
      /\ Held \in Nat /\ request.boot \in Nat
  BY DEF BootTarget, TargetDies, FridaInv, FridaShapes, Held, FridaRequests, FridaFields
<1>2. NetworkOK'
  BY <1>1 DEF FridaInv, NetworkOK
<1>3. CASE BootTarget
  <2>1. /\ ~ wmpf.alive /\ wmpf' = [wmpf EXCEPT !.alive = TRUE, !.boot = @ + 1, !.since = wmpf.attaches]
    BY <1>3 DEF BootTarget
  <2>2. PICK b \in Nat, n \in Nat : b = wmpf.boot + 1 /\ n = wmpf.attaches
    BY <1>1 DEF Targets
  <2>3. /\ wmpf' \in Targets /\ wmpf'.alive = TRUE /\ wmpf'.boot = b /\ wmpf'.since = n
        /\ wmpf'.attaches = n /\ wmpf'.sessions = wmpf.sessions /\ wmpf'.scripts = wmpf.scripts
    <3>1. wmpf' = [wmpf EXCEPT !.alive = TRUE, !.boot = b, !.since = n]
      BY <2>1, <2>2
    <3> QED
      BY <1>1, <2>2, <3>1 DEF Targets
  <2>4. wmpf.boot \in Nat
    BY <1>1 DEF Targets
  <2>5. TargetOK'
    BY <1>1, <2>1, <2>2, <2>3, <2>4 DEF FridaInv, TargetOK
  <2>6. StageOK'
    BY <1>1, <2>3 DEF FridaInv, StageOK, Setting
  <2> QED
    BY <1>1, <1>2, <2>3, <2>5, <2>6 DEF FridaInv, FridaShapes
<1>4. CASE TargetDies
  <2>1. wmpf' = [wmpf EXCEPT !.alive = FALSE, !.sessions = {}, !.scripts = {}]
    BY <1>4 DEF TargetDies
  <2>2. /\ wmpf' \in Targets /\ wmpf'.alive = FALSE /\ wmpf'.boot = wmpf.boot /\ wmpf'.since = wmpf.since
        /\ wmpf'.attaches = wmpf.attaches /\ wmpf'.sessions = {} /\ wmpf'.scripts = {}
    BY <1>1, <2>1 DEF Targets
  <2>3. TargetOK'
    BY <1>1, <2>2 DEF FridaInv, TargetOK
  <2>4. StageOK'
    BY <1>1, <2>2 DEF FridaInv, StageOK, Setting
  <2> QED
    BY <1>1, <1>2, <2>2, <2>3, <2>4 DEF FridaInv, FridaShapes
<1> QED
  BY <1>3, <1>4

LEMMA PortsAndSocketsKeep ==
    ASSUME FridaInv, (\E p \in Ports : TakePort(p) \/ GivePort(p)) \/ (\E k \in Sockets : Connect(k) \/ SocketCloses(k))
    PROVE  FridaInv'
<1>1. UNCHANGED <<fields, request, wmpf>> /\ FridaShapes /\ network \in Networks
  BY DEF TakePort, GivePort, Connect, SocketCloses, FridaInv, FridaShapes
<1>2. TargetOK'
  BY <1>1 DEF FridaInv, TargetOK, Held
<1>3. ASSUME NEW p \in Ports, TakePort(p) \/ GivePort(p) PROVE FridaInv'
  BY <1>1, <1>2, <1>3 DEF Networks, TakePort, GivePort, FridaInv, NetworkOK, StageOK, Setting,
     FridaShapes
<1>4. ASSUME NEW k \in Sockets, Connect(k) \/ SocketCloses(k) PROVE FridaInv'
  <2>1. network.socket \in [Sockets -> [bridge : Nat, state : SocketStates]] /\ network.starts \in Nat
        /\ network.socket[k] \in [bridge : Nat, state : SocketStates]
    BY <1>1 DEF Networks
  <2>2. PICK t \in [bridge : Nat, state : SocketStates] :
           /\ network' = [network EXCEPT !.socket[k] = t]
           /\ t.bridge <= network.starts /\ t.state # "terminated"
           /\ network.listening = {} => t.state # "open"
    <3>1. CASE Connect(k)
      <4>1. PICK t : t = [bridge |-> network.starts, state |-> "open"]
        OBVIOUS
      <4>2. t \in [bridge : Nat, state : SocketStates] /\ t.bridge = network.starts /\ t.state = "open"
        BY <2>1, <4>1 DEF SocketStates
      <4>3. network' = [network EXCEPT !.socket[k] = t] /\ "debug" \in network.listening
        BY <3>1, <4>1 DEF Connect
      <4>4. network.listening # {} /\ t.bridge <= network.starts /\ t.state # "terminated"
        BY <2>1, <4>2, <4>3
      <4> QED
        BY <4>2, <4>3, <4>4
    <3>2. CASE SocketCloses(k)
      <4>1. PICK t : t = [network.socket[k] EXCEPT !.state = "closed"]
        OBVIOUS
      <4>2. t \in [bridge : Nat, state : SocketStates] /\ t.bridge = network.socket[k].bridge /\ t.state = "closed"
        BY <2>1, <4>1 DEF SocketStates
      <4>3. network' = [network EXCEPT !.socket[k] = t]
        BY <1>1, <2>1, <3>2, <4>1 DEF SocketCloses, Networks
      <4>4. network.socket[k].bridge <= network.starts
        BY DEF FridaInv, NetworkOK
      <4> QED
        BY <4>2, <4>3, <4>4
    <3> QED
      BY <1>4, <3>1, <3>2
  <2>3. /\ network' \in Networks /\ network'.listening = network.listening /\ network'.starts = network.starts
        /\ network'.socket = [network.socket EXCEPT ![k] = t]
    BY <1>1, <2>1, <2>2 DEF Networks
  <2>4. network'.socket[k] = t /\ \A j \in Sockets \ {k} : network'.socket[j] = network.socket[j]
    BY <2>1, <2>3
  <2>5. NetworkOK'
    BY <1>1, <2>2, <2>3, <2>4 DEF FridaInv, NetworkOK
  <2>6. StageOK'
    BY <1>1, <2>3 DEF FridaInv, StageOK, Setting
  <2> QED
    BY <1>1, <1>2, <2>3, <2>5, <2>6 DEF FridaInv, FridaShapes
<1> QED
  BY <1>3, <1>4

LEMMA FridaKeeps == FridaInv /\ [FridaNext]_fridaVars => FridaInv'
<1> SUFFICES ASSUME FridaInv, [FridaNext]_fridaVars PROVE FridaInv'
  OBVIOUS
<1>1. CASE UNCHANGED fridaVars
  BY <1>1 DEF fridaVars, FridaInv, FridaShapes, TargetOK, Held, NetworkOK, StageOK, Setting
<1>2. CASE StartEngine \/ (\E found \in {"table", "detect", "none"} : FindTarget(found))
  BY <1>2, FindKeeps
<1>3. ASSUME NEW ok \in BOOLEAN, Attach(ok) \/ CreateScript(ok) \/ LoadHook(ok) PROVE FridaInv'
  BY <1>3, AttachKeeps, CreateScriptKeeps, LoadHookKeeps
<1>4. CASE LoadDetector \/ ProbeLost \/ (\E ok \in BOOLEAN : Detected(ok))
  BY <1>4, DetectorKeeps
<1>5. ASSUME NEW p \in Ports, ListenOn(p) PROVE FridaInv'
  BY <1>5, ListenKeepsClean
<1>6. CASE StopEngine \/ CloseServers \/ Unload \/ Detach \/ BootTarget \/ TargetDies
  BY <1>6, StopKeepsClean, LetGoKeeps, TargetLifeKeeps
<1>7. CASE (\E p \in Ports : TakePort(p) \/ GivePort(p)) \/ (\E k \in Sockets : Connect(k) \/ SocketCloses(k))
  BY <1>7, PortsAndSocketsKeep
<1> QED
  BY <1>1, <1>2, <1>3, <1>4, <1>5, <1>6, <1>7 DEF FridaNext

(* A start that failed and a stop leave nothing behind in the target or on *)
(* the ports, an attached engine holds all it needs, two of our scripts    *)
(* are never in the target, and the status counts its own connections      *)
(* (wmpf-frida-runtime.ts, websocket-servers.ts).                          *)
THEOREM AttachStaysClean == FridaSpec => []AttachIsClean
<1>1. FridaInv => AttachIsClean
  <2> SUFFICES ASSUME FridaInv PROVE AttachIsClean
    OBVIOUS
  <2>1. wmpf.sessions \subseteq {Held} \ {0} /\ wmpf.scripts \subseteq wmpf.sessions
    BY DEF FridaInv, TargetOK
  <2>2. OffLeavesNothing
    BY <2>1, WaitingFields DEF OffLeavesNothing, FridaInv, StageOK, Held, NetworkOK
  <2>3. OnHoldsEverything
    BY <2>1 DEF OnHoldsEverything, FridaInv, StageOK, Held, TargetOK
  <2>4. OneScript
    <3>1. \A s \in SUBSET {Held} : Cardinality(s) <= 1
      <4>1. IsFiniteSet({Held}) /\ Cardinality({Held}) = 1
        BY FS_Singleton
      <4> TAKE s \in SUBSET {Held}
      <4>2. Cardinality(s) <= Cardinality({Held})
        BY <4>1, FS_Subset
      <4> QED
        BY <4>1, <4>2
    <3> QED
      BY <2>1, <3>1 DEF OneScript
  <2>5. StatusCountsItsOwn
    BY WaitingFields DEF StatusCountsItsOwn, FridaInv, FridaShapes, FridaRequests, FridaStages, StageOK, Setting,
       NetworkOK, Registered
  <2> QED
    BY <2>2, <2>3, <2>4, <2>5 DEF AttachIsClean
<1> QED
  BY <1>1, FridaInitially, FridaKeeps, PTL DEF FridaSpec

-----------------------------------------------------------------------------
(* The capture hooks of a page (PageHooks)                                  *)

\* A set of naturals has a least member, and a bounded one a greatest.
LEMMA LeastMember ==
    ASSUME NEW S \in SUBSET Nat, S # {}
    PROVE  \E n \in S : \A m \in S : n <= m
<1>1. PICK R : R = {ss \in Nat \X Nat : ss[1] < ss[2]}
  OBVIOUS
<1>2. IsWellFoundedOn(R, Nat)
  BY <1>1, NatLessThanWellFounded DEF OpToRel
<1>3. PICK x \in S : \A y \in S : ~ (<<y, x>> \in R)
  BY <1>2, WFMin
<1>4. ASSUME NEW y \in S PROVE x <= y
  <2>1. x \in Nat /\ y \in Nat /\ ~ (<<y, x>> \in R)
    BY <1>3
  <2>2. ~ (y < x)
    BY <1>1, <2>1
  <2> QED
    BY <2>1, <2>2
<1> QED
  BY <1>4

LEMMA GreatestMember ==
    ASSUME NEW N \in Nat, NEW S \in SUBSET (0 .. N), S # {}
    PROVE  Max(S) \in S /\ \A m \in S : m <= Max(S)
<1>1. PICK T : T = {N - s : s \in S}
  OBVIOUS
<1>2. T \in SUBSET Nat /\ T # {}
  <2>1. \A s \in S : N - s \in Nat
    OBVIOUS
  <2>2. T # {}
    BY <1>1
  <2> QED
    BY <1>1, <2>1, <2>2
<1>3. PICK n \in T : \A m \in T : n <= m
  BY <1>2, LeastMember
<1>4. PICK s \in S : n = N - s
  BY <1>1
<1>5. \A m \in S : N - m \in T
  BY <1>1
<1>6. \A m \in S : s >= m
  BY <1>3, <1>4, <1>5
<1> QED
  BY <1>6 DEF Max

LEMMA LastOfBridges ==
    ASSUME NEW B \in SUBSET Scopes, B # {}
    PROVE  Max(B) \in B /\ Max(B \cup {1}) = Max(B)
<1>1. MaxScopes \in Nat /\ B \in SUBSET (0 .. MaxScopes) /\ B \cup {1} \in SUBSET (0 .. MaxScopes)
  BY PageHooksSizes DEF Scopes
<1>2. PICK a : a = Max(B)
  OBVIOUS
<1>3. PICK c : c = Max(B \cup {1})
  OBVIOUS
<1>4. a \in B /\ \A m \in B : m <= a
  BY <1>1, <1>2, GreatestMember
<1>5. c \in B \cup {1} /\ \A m \in B \cup {1} : m <= c
  BY <1>1, <1>3, GreatestMember
<1>6. \A m \in B : m \in Nat /\ m >= 1
  BY PageHooksSizes DEF Scopes
<1>7. a <= c /\ c <= a /\ a \in Nat /\ c \in Nat
  BY <1>4, <1>5, <1>6
<1> QED
  BY <1>2, <1>3, <1>4, <1>7

-----------------------------------------------------------------------------
Hooks == {[layers |-> 0, mark |-> FALSE], [layers |-> 1, mark |-> TRUE]}
ScopeRecords == [here : BOOLEAN, method : Hooks, bridge : Hooks, speaks : BOOLEAN, db : {0, 1}]
ScriptRecords == [there : BOOLEAN, hooked : SUBSET Scopes, target : Nat, bridged : BOOLEAN, scans : BOOLEAN]
Captures == [runs : BOOLEAN, number : Nat, start : {"no", "install", "clear"}, stop : {"no", "clear", "takeoff"}]
Trails == [spent : Nat, several : SUBSET Scopes, stale : BOOLEAN, twice : BOOLEAN,
           unclean : BOOLEAN, overlap : BOOLEAN]

\* Nothing is wrapped twice, and a mark is on what is wrapped.
HookShapes ==
    /\ surface \in {"wxapi", "cloud"} /\ scope \in [Scopes -> ScopeRecords]
    /\ script \in ScriptRecords /\ capturing \in Captures
    /\ trail \in Trails /\ ~ trail.twice /\ ~ trail.stale

\* Of a frame that is there the script remembers the method it wrapped, and
\* the bridge but for those wrapped together with a later one.
HooksAreKnown ==
    /\ \A f \in Scopes : scope[f].here => (scope[f].method.layers = 1 <=> f \in script.hooked)
    /\ \A f \in Scopes : scope[f].here /\ scope[f].bridge.layers = 1 => f = script.target \/ f \in trail.several
    /\ ~ script.bridged => script.target = 0

\* A capture that no stop overtook has its hook in the page, and once it
\* cleared the page only records of its own.
CaptureIsClean ==
    /\ capturing.runs /\ capturing.stop # "no" => trail.overlap
    /\ capturing.runs /\ capturing.start # "install" /\ script.there /\ ~ trail.overlap => script.scans
    /\ capturing.runs /\ capturing.start = "no" /\ ~ trail.unclean => buffered \subseteq {capturing.number}

HooksInv == HookShapes /\ HooksAreKnown /\ CaptureIsClean

LEMMA HooksInitially == HooksInit => HooksInv
<1> SUFFICES ASSUME HooksInit PROVE HooksInv
  OBVIOUS
<1>1. /\ scope = [f \in Scopes |-> NoScope] /\ script = Uninjected
      /\ capturing = [runs |-> FALSE, number |-> 0, start |-> "no", stop |-> "no"]
      /\ trail = [spent |-> 0, several |-> {}, stale |-> FALSE, twice |-> FALSE,
                unclean |-> FALSE, overlap |-> FALSE]
      /\ surface \in {"wxapi", "cloud"}
  BY DEF HooksInit
<1>2. NoScope \in ScopeRecords /\ NoScope.here = FALSE
  BY DEF NoScope, Bare, ScopeRecords, Hooks
<1>3. script \in ScriptRecords /\ script.target = 0
  BY <1>1 DEF Uninjected, ScriptRecords
<1>4. capturing \in Captures /\ trail \in Trails /\ ~ trail.twice /\ ~ trail.stale /\ ~ capturing.runs
  BY <1>1 DEF Captures, Trails
<1>5. HooksAreKnown
  BY <1>1, <1>2, <1>3 DEF HooksAreKnown
<1> QED
  BY <1>1, <1>2, <1>3, <1>4, <1>5 DEF HooksInv, HookShapes, CaptureIsClean

-----------------------------------------------------------------------------
LEMMA WrappedOnce ==
    ASSUME NEW h \in Hooks
    PROVE  /\ h.layers \in {0, 1} /\ (h.mark <=> h.layers = 1)
           /\ h.layers = 0 => Wrapped(h) \in Hooks /\ Wrapped(h).layers = 1
           /\ Bare \in Hooks /\ Bare.layers = 0
<1>1. h.layers \in {0, 1} /\ (h.mark <=> h.layers = 1)
  BY DEF Hooks
<1>2. h.layers = 0 => Wrapped(h) = [layers |-> 1, mark |-> TRUE]
  BY DEF Wrapped
<1>3. \A w : w = [layers |-> 1, mark |-> TRUE] => w \in Hooks /\ w.layers = 1
  BY DEF Hooks
<1>4. Bare \in Hooks /\ Bare.layers = 0
  BY DEF Bare, Hooks
<1> QED
  BY <1>1, <1>2, <1>3, <1>4

\* A pass wraps what was not wrapped and remembers it.
LEMMA PassKnows ==
    ASSUME HooksInv, Pass
    PROVE  /\ scope' \in [Scopes -> ScopeRecords] /\ script' \in ScriptRecords
           /\ script'.there /\ script'.scans
           /\ trail' \in Trails /\ trail'.twice = trail.twice /\ trail'.stale = trail.stale
           /\ trail'.overlap = trail.overlap /\ trail'.unclean = trail.unclean
           /\ HooksAreKnown'
<1>1. /\ scope \in [Scopes -> ScopeRecords] /\ script \in ScriptRecords /\ trail \in Trails
      /\ surface \in {"wxapi", "cloud"}
  BY DEF HooksInv, HookShapes
<1>2. \A f \in Scopes : scope[f] \in ScopeRecords /\ scope[f].method \in Hooks /\ scope[f].bridge \in Hooks
  BY <1>1 DEF ScopeRecords
<1>3. PICK B : B = Bridges
  OBVIOUS
<1>4. B \in SUBSET Unwrapped /\ B \in SUBSET Scopes /\ (script.bridged => B = {})
  BY <1>3 DEF Bridges, FirstBridge, EveryBridge, Unwrapped, Here
<1>5. PICK F : F = Fresh
  OBVIOUS
<1>6. F \in SUBSET Scopes
  BY <1>5 DEF Fresh, WxUnmarked, CloudUnknown, Here
<1>7. /\ script' = [there |-> TRUE, hooked |-> script.hooked \cup F,
                    target |-> IF B = {} THEN script.target ELSE Max(B),
                    bridged |-> script.bridged \/ B # {}, scans |-> TRUE]
      /\ trail' = [trail EXCEPT !.several = @ \cup (B \ {Max(B \cup {1})})]
      /\ scope' = [f \in Scopes |-> [scope[f] EXCEPT !.method = HookOne(f, @),
                                         !.bridge = IF f \in B THEN Wrapped(@) ELSE @]]
  BY <1>3, <1>5 DEF Pass
<1>8. ASSUME NEW f \in Scopes
      PROVE  /\ scope'[f] \in ScopeRecords /\ scope'[f].here = scope[f].here
             /\ scope'[f].method = HookOne(f, scope[f].method)
             /\ scope'[f].bridge = IF f \in B THEN Wrapped(scope[f].bridge) ELSE scope[f].bridge
  <2>1. HookOne(f, scope[f].method) \in Hooks
    BY <1>1, <1>2, WrappedOnce DEF HookOne, Fresh, WxUnmarked
  <2>2. (IF f \in B THEN Wrapped(scope[f].bridge) ELSE scope[f].bridge) \in Hooks
    BY <1>2, <1>4, WrappedOnce DEF Unwrapped
  <2>3. PICK m \in Hooks, b \in Hooks : m = HookOne(f, scope[f].method)
           /\ b = IF f \in B THEN Wrapped(scope[f].bridge) ELSE scope[f].bridge
    BY <2>1, <2>2
  <2>4. scope'[f] = [scope[f] EXCEPT !.method = m, !.bridge = b]
    BY <1>7, <2>3
  <2> QED
    BY <1>2, <2>3, <2>4 DEF ScopeRecords
<1>9. scope' \in [Scopes -> ScopeRecords]
  BY <1>7, <1>8
<1>10. B # {} => Max(B) \in B /\ Max(B \cup {1}) = Max(B)
  BY <1>4, LastOfBridges
<1>11. /\ script' \in ScriptRecords /\ script'.there /\ script'.scans /\ script'.hooked = script.hooked \cup F
       /\ script'.target = (IF B = {} THEN script.target ELSE Max(B))
       /\ script'.bridged <=> script.bridged \/ B # {}
  <2>1. Scopes \subseteq Nat /\ script.target \in Nat /\ script.hooked \cup F \in SUBSET Scopes
    <3>1. Scopes \subseteq Nat
      BY PageHooksSizes DEF Scopes
    <3>2. script.target \in Nat /\ script.hooked \in SUBSET Scopes
      BY <1>1 DEF ScriptRecords
    <3> QED
      BY <1>6, <3>1, <3>2
  <2>2. PICK t \in Nat : t = IF B = {} THEN script.target ELSE Max(B)
    BY <1>4, <1>10, <2>1
  <2>3. PICK d \in BOOLEAN : d <=> (script.bridged \/ B # {})
    OBVIOUS
  <2> QED
    BY <1>1, <1>7, <2>1, <2>2, <2>3 DEF ScriptRecords
<1>12. /\ trail' \in Trails /\ trail'.several = trail.several \cup (B \ {Max(B \cup {1})})
       /\ trail'.twice = trail.twice /\ trail'.stale = trail.stale
       /\ trail'.overlap = trail.overlap /\ trail'.unclean = trail.unclean
  <2>1. PICK t \in SUBSET Scopes : t = trail.several \cup (B \ {Max(B \cup {1})})
    BY <1>1, <1>4 DEF Trails
  <2>2. trail' = [trail EXCEPT !.several = t]
    BY <1>7, <2>1
  <2> QED
    BY <1>1, <2>1, <2>2 DEF Trails
<1>13. HooksAreKnown'
  <2>1. ASSUME NEW f \in Scopes, scope'[f].here PROVE scope'[f].method.layers = 1 <=> f \in script'.hooked
    <3>1. scope[f].here /\ f \in Here /\ (scope[f].method.layers = 1 <=> f \in script.hooked)
      BY <1>8, <2>1 DEF HooksInv, HooksAreKnown, Here
    <3>2. CASE f \in Fresh
      <4>1. scope[f].method.layers = 0
        BY <1>1, <1>2, <3>1, <3>2, WrappedOnce DEF Fresh, WxUnmarked, CloudUnknown
      <4>2. HookOne(f, scope[f].method) = Wrapped(scope[f].method)
        BY <3>2, <4>1 DEF HookOne
      <4> QED
        BY <1>2, <1>5, <1>8, <1>11, <3>2, <4>1, <4>2, WrappedOnce
    <3>3. CASE f \notin Fresh
      BY <1>5, <1>8, <1>11, <3>1, <3>3 DEF HookOne
    <3> QED
      BY <3>2, <3>3
  <2>2. ASSUME NEW f \in Scopes, scope'[f].here, scope'[f].bridge.layers = 1
        PROVE  f = script'.target \/ f \in trail'.several
    BY <1>4, <1>8, <1>10, <1>11, <1>12, <2>2 DEF HooksInv, HooksAreKnown, Scopes
  <2>3. ~ script'.bridged => script'.target = 0
    BY <1>11 DEF HooksInv, HooksAreKnown
  <2> QED
    BY <2>1, <2>2, <2>3 DEF HooksAreKnown
<1> QED
  BY <1>9, <1>11, <1>12, <1>13

\* What the bounds and marks of the trail leave.
LEMMA MarkedTrail ==
    ASSUME NEW t \in Trails, ~ t.twice, ~ t.stale
    PROVE  /\ Marked(t) \in Trails /\ ~ Marked(t).twice /\ ~ Marked(t).stale
           /\ Marked(t).several = t.several /\ Marked(t).overlap = t.overlap /\ Marked(t).unclean = t.unclean
<1>1. PICK n \in Nat : n = t.spent + 1
  BY DEF Trails
<1>2. Marked(t) = [t EXCEPT !.spent = n]
  BY <1>1 DEF Marked
<1> QED
  BY <1>1, <1>2 DEF Trails

LEMMA HooksParts ==
    ASSUME HooksInv
    PROVE  /\ scope \in [Scopes -> ScopeRecords] /\ \A f \in Scopes : scope[f] \in ScopeRecords
           /\ script \in ScriptRecords /\ capturing \in Captures /\ trail \in Trails
           /\ ~ trail.twice /\ ~ trail.stale /\ surface \in {"wxapi", "cloud"}
           /\ HooksAreKnown /\ CaptureIsClean
  BY DEF HooksInv, HookShapes

LEMMA PagesChange ==
    ASSUME HooksInv, NEW f \in Scopes,
           RemoveScope(f) \/ GetDatabase(f) \/ (\E b \in BOOLEAN : AddScope(f, b))
    PROVE  HooksInv'
<1>1. /\ scope \in [Scopes -> ScopeRecords] /\ scope[f] \in ScopeRecords
      /\ script \in ScriptRecords /\ trail \in Trails
      /\ UNCHANGED <<surface, capturing, buffered>>
  BY HooksParts DEF RemoveScope, GetDatabase, AddScope
<1>2. CASE RemoveScope(f) \/ GetDatabase(f)
  <2>1. UNCHANGED script /\ trail' = Marked(trail)
    BY <1>2 DEF RemoveScope, GetDatabase
  <2>2. PICK r \in ScopeRecords : /\ scope' = [scope EXCEPT ![f] = r]
                                  /\ r.method = scope[f].method /\ r.bridge = scope[f].bridge
                                  /\ r.here => scope[f].here
    <3>1. CASE RemoveScope(f)
      <4>1. PICK r : r = [scope[f] EXCEPT !.here = FALSE]
        OBVIOUS
      <4>2. scope' = [scope EXCEPT ![f] = r]
        BY <1>1, <3>1, <4>1 DEF RemoveScope
      <4>3. r \in ScopeRecords
        BY <1>1, <4>1 DEF ScopeRecords
      <4>4. r.method = scope[f].method /\ r.bridge = scope[f].bridge /\ ~ r.here
        BY <1>1, <4>1 DEF ScopeRecords
      <4> QED
        BY <4>2, <4>3, <4>4
    <3>2. CASE GetDatabase(f)
      <4>1. PICK d \in {0, 1} : d = IF f \in script.hooked THEN ProxyOnce(scope[f].db) ELSE scope[f].db
        BY <1>1 DEF ScopeRecords, ProxyOnce
      <4>2. PICK r : r = [scope[f] EXCEPT !.db = d]
        OBVIOUS
      <4>3. scope' = [scope EXCEPT ![f] = r]
        BY <1>1, <3>2, <4>1, <4>2 DEF GetDatabase
      <4> QED
        <5>1. r \in ScopeRecords
          BY <1>1, <4>1, <4>2 DEF ScopeRecords
        <5>2. r.method = scope[f].method /\ r.bridge = scope[f].bridge /\ r.here = scope[f].here
          BY <1>1, <4>2 DEF ScopeRecords
        <5> QED
          BY <4>3, <5>1, <5>2
    <3> QED
      BY <1>2, <3>1, <3>2
  <2>3. scope' \in [Scopes -> ScopeRecords] /\ scope'[f] = r /\ \A g \in Scopes \ {f} : scope'[g] = scope[g]
    BY <1>1, <2>2
  <2>4. /\ trail' \in Trails /\ ~ trail'.twice /\ ~ trail'.stale
        /\ trail'.several = trail.several /\ trail'.overlap = trail.overlap /\ trail'.unclean = trail.unclean
    BY HooksParts, <2>1, MarkedTrail
  <2>5. HooksAreKnown'
    BY <2>1, <2>2, <2>3, <2>4, HooksParts DEF HooksAreKnown
  <2>6. CaptureIsClean'
    BY <1>1, <2>1, <2>4, HooksParts DEF CaptureIsClean
  <2> QED
    BY <1>1, <2>1, <2>3, <2>4, <2>5, <2>6, HooksParts DEF HooksInv, HookShapes
<1>3. ASSUME NEW b \in BOOLEAN, AddScope(f, b) PROVE HooksInv'
  <2>1. PICK r : r = [NoScope EXCEPT !.here = TRUE, !.speaks = b]
    OBVIOUS
  <2>2. r \in ScopeRecords /\ r.method = Bare /\ r.bridge = Bare
    <3>1. NoScope \in ScopeRecords /\ NoScope.method = Bare /\ NoScope.bridge = Bare
      BY DEF NoScope, Bare, ScopeRecords, Hooks
    <3> QED
      BY <2>1, <3>1 DEF ScopeRecords
  <2>3. scope' = [scope EXCEPT ![f] = r]
    BY <1>3, <2>1 DEF AddScope
  <2>4. scope' \in [Scopes -> ScopeRecords] /\ scope'[f] = r /\ \A g \in Scopes \ {f} : scope'[g] = scope[g]
    BY <1>1, <2>2, <2>3
  <2>5. /\ script' \in ScriptRecords /\ script'.hooked = script.hooked \ {f}
        /\ script'.target = (IF script.target = f THEN 0 ELSE script.target)
        /\ script'.bridged = script.bridged /\ script'.there = script.there /\ script'.scans = script.scans
    <3>1. PICK h \in SUBSET Scopes, t \in Nat : h = script.hooked \ {f} /\ t = IF script.target = f THEN 0 ELSE script.target
      BY <1>1 DEF ScriptRecords
    <3>2. script' = [script EXCEPT !.hooked = h, !.target = t]
      BY <1>1, <1>3, <3>1 DEF AddScope
    <3> QED
      BY <1>1, <3>1, <3>2 DEF ScriptRecords
  <2>6. /\ trail' \in Trails /\ ~ trail'.twice /\ ~ trail'.stale
        /\ trail'.several = trail.several \ {f} /\ trail'.overlap = trail.overlap /\ trail'.unclean = trail.unclean
    <3>1. PICK t : t = Marked(trail)
      OBVIOUS
    <3>2. /\ t \in Trails /\ ~ t.twice /\ ~ t.stale
          /\ t.several = trail.several /\ t.overlap = trail.overlap /\ t.unclean = trail.unclean
      BY HooksParts, <3>1, MarkedTrail
    <3>3. PICK s \in SUBSET Scopes : s = t.several \ {f}
      BY <3>2 DEF Trails
    <3>4. trail' = [t EXCEPT !.several = s]
      BY <1>3, <3>1, <3>3 DEF AddScope
    <3> QED
      BY <3>2, <3>3, <3>4 DEF Trails
  <2>7. Bare.layers = 0
    BY DEF Bare
  <2>8. HooksAreKnown'
    BY <2>2, <2>4, <2>5, <2>6, <2>7, HooksParts DEF HooksAreKnown
  <2>9. CaptureIsClean'
    BY <1>1, <2>5, <2>6, HooksParts DEF CaptureIsClean
  <2> QED
    BY <1>1, <2>4, <2>5, <2>6, <2>8, <2>9, HooksParts DEF HooksInv, HookShapes
<1> QED
  BY <1>2, <1>3

LEMMA RebuildKeeps == ASSUME HooksInv, RebuildPage PROVE HooksInv'
<1>1. /\ scope' = [f \in Scopes |-> NoScope] /\ script' = Uninjected /\ buffered' = {}
      /\ UNCHANGED <<surface, capturing>>
  BY DEF RebuildPage
<1>2. NoScope \in ScopeRecords /\ NoScope.here = FALSE
  BY DEF NoScope, Bare, ScopeRecords, Hooks
<1>3. script' \in ScriptRecords /\ script'.target = 0 /\ ~ script'.there
  BY <1>1 DEF Uninjected, ScriptRecords
<1>4. /\ trail' \in Trails /\ ~ trail'.twice /\ ~ trail'.stale
      /\ trail'.overlap = trail.overlap /\ trail'.unclean = trail.unclean
  BY HooksParts, MarkedTrail DEF RebuildPage, Trails
<1>5. HooksAreKnown'
  BY <1>1, <1>2, <1>3 DEF HooksAreKnown
<1>6. CaptureIsClean'
  BY <1>1, <1>3, <1>4, HooksParts DEF CaptureIsClean
<1> QED
  BY <1>1, <1>2, <1>3, <1>4, <1>5, <1>6, HooksParts DEF HooksInv, HookShapes

\* No call is recorded twice; the record is the running capture's own.
LEMMA CallKeeps ==
    ASSUME HooksInv, NEW f \in Scopes, NEW what \in {"method", "bridge", "db"}, CallPage(f, what)
    PROVE  HooksInv'
<1>1. UNCHANGED <<surface, scope, script, capturing>> /\ scope[f] \in ScopeRecords
      /\ buffered' = buffered \cup {Owner}
  BY HooksParts DEF CallPage
<1>2. Layers(f)[what] \in {0, 1}
  BY <1>1, WrappedOnce DEF ScopeRecords, Layers
<1>3. /\ trail' \in Trails /\ ~ trail'.twice /\ ~ trail'.stale
      /\ trail'.several = trail.several /\ trail'.overlap = trail.overlap /\ trail'.unclean = trail.unclean
  BY <1>2, HooksParts, MarkedTrail DEF CallPage, Trails
<1>4. HooksAreKnown'
  BY <1>1, <1>3, HooksParts DEF HooksAreKnown
<1>5. CaptureIsClean'
  BY <1>1, <1>3, HooksParts DEF CaptureIsClean, Owner
<1> QED
  BY <1>1, <1>3, <1>4, <1>5, HooksParts DEF HooksInv, HookShapes

LEMMA ScansKeep == ASSUME HooksInv, ScanTick \/ InjectAgain PROVE HooksInv'
<1>1. Pass /\ UNCHANGED <<surface, capturing, buffered>>
  BY DEF ScanTick, InjectAgain
<1>2. CaptureIsClean'
  BY <1>1, PassKnows, HooksParts DEF CaptureIsClean
<1> QED
  BY <1>1, <1>2, PassKnows, HooksParts DEF HooksInv, HookShapes

-----------------------------------------------------------------------------
\* What a step of a handler makes of the capture.
LEMMA StartKeeps ==
    ASSUME HooksInv, BeginCapture \/ (\E ok \in BOOLEAN : InstallCapture(ok) \/ StartClears(ok)) PROVE HooksInv'
<1>1. UNCHANGED surface /\ capturing \in Captures /\ trail \in Trails
  BY HooksParts DEF BeginCapture, InstallCapture, StartClears
<1>2. CASE BeginCapture
  <2>1. PICK n \in Nat : n = capturing.number + 1
    BY <1>1 DEF Captures
  <2>2. capturing' = [capturing EXCEPT !.runs = TRUE, !.number = n, !.start = "install"]
    BY <1>2, <2>1 DEF BeginCapture
  <2>3. /\ capturing' \in Captures /\ capturing'.runs /\ capturing'.start = "install"
        /\ capturing'.stop = capturing.stop
    BY <1>1, <2>1, <2>2 DEF Captures
  <2>4. PICK w \in BOOLEAN : w <=> capturing.stop # "no"
    OBVIOUS
  <2>5. trail' = [trail EXCEPT !.overlap = w]
    BY <1>2, <2>4 DEF BeginCapture
  <2>6. /\ trail' \in Trails /\ trail'.twice = trail.twice /\ trail'.stale = trail.stale
        /\ trail'.several = trail.several /\ (trail'.overlap <=> capturing.stop # "no")
    BY <1>1, <2>4, <2>5 DEF Trails
  <2>7. UNCHANGED <<scope, script, buffered>>
    BY <1>2 DEF BeginCapture
  <2>8. HooksAreKnown'
    BY <2>6, <2>7, HooksParts DEF HooksAreKnown
  <2>9. CaptureIsClean'
    BY <2>3, <2>6, HooksParts DEF CaptureIsClean
  <2> QED
    BY <1>1, <2>3, <2>6, <2>7, <2>8, <2>9, HooksParts DEF HooksInv, HookShapes
<1>3. ASSUME NEW ok \in BOOLEAN, InstallCapture(ok) PROVE HooksInv'
  <2>1. UNCHANGED buffered
    BY <1>3 DEF InstallCapture
  <2>2. CASE ok /\ Here # {}
    BY <1>1, <1>3, <2>2, PassKnows, HooksParts DEF InstallCapture, Captures, CaptureIsClean,
       HooksInv, HookShapes
  <2>3. CASE ~ (ok /\ Here # {})
    <3>1. /\ capturing' = [capturing EXCEPT !.start = "no", !.runs = FALSE]
          /\ trail' = (IF ok THEN trail ELSE Marked(trail)) /\ UNCHANGED <<scope, script>>
      BY <1>3, <2>3 DEF InstallCapture
    <3>2. capturing' \in Captures /\ ~ capturing'.runs
      BY <1>1, <3>1 DEF Captures
    <3>3. trail' \in Trails /\ ~ trail'.twice /\ ~ trail'.stale /\ trail'.several = trail.several
      BY <3>1, HooksParts, MarkedTrail
    <3>4. HooksAreKnown' /\ CaptureIsClean'
      BY <3>1, <3>2, <3>3, HooksParts DEF HooksAreKnown, CaptureIsClean
    <3> QED
      BY <1>1, <3>1, <3>2, <3>3, <3>4, HooksParts DEF HooksInv, HookShapes
  <2> QED
    BY <2>2, <2>3
<1>4. ASSUME NEW ok \in BOOLEAN, StartClears(ok) PROVE HooksInv'
  <2>1. UNCHANGED <<scope, script>> /\ capturing' = [capturing EXCEPT !.start = "no"]
    BY <1>4 DEF StartClears
  <2>2. /\ capturing' \in Captures /\ capturing'.runs = capturing.runs /\ capturing'.start = "no"
        /\ capturing'.stop = capturing.stop /\ capturing.start = "clear"
    BY <1>1, <1>4, <2>1 DEF Captures, StartClears
  <2>3. PICK t \in Trails : /\ trail' = [t EXCEPT !.unclean = ~ ok] /\ ~ t.twice /\ ~ t.stale
                            /\ t.several = trail.several /\ t.overlap = trail.overlap
    <3>1. CASE ok
      BY <1>4, <3>1, HooksParts DEF StartClears
    <3>2. CASE ~ ok
      BY <1>4, <3>2, HooksParts, MarkedTrail DEF StartClears
    <3> QED
      BY <3>1, <3>2
  <2>4. /\ trail' \in Trails /\ ~ trail'.twice /\ ~ trail'.stale /\ trail'.several = trail.several
        /\ trail'.overlap = trail.overlap /\ (trail'.unclean <=> ~ ok)
    <3>1. PICK w \in BOOLEAN : w <=> ~ ok
      OBVIOUS
    <3>2. trail' = [t EXCEPT !.unclean = w]
      BY <2>3, <3>1
    <3> QED
      BY <2>3, <3>1, <3>2 DEF Trails
  <2>5. HooksAreKnown'
    BY <2>1, <2>4, HooksParts DEF HooksAreKnown
  <2>6. ok => buffered' = {}
    BY <1>4 DEF StartClears
  <2>7. CaptureIsClean'
    BY <2>1, <2>2, <2>4, <2>6, HooksParts DEF CaptureIsClean
  <2> QED
    BY <1>1, <2>1, <2>2, <2>4, <2>5, <2>7, HooksParts DEF HooksInv, HookShapes
<1> QED
  BY <1>2, <1>3, <1>4

\* What a running capture drains of a cleared page is its own.
LEMMA DrainKeepsOwn == ASSUME HooksInv, DrainPage PROVE HooksInv'
<1>1. UNCHANGED <<surface, scope, script, capturing>> /\ buffered' = {} /\ trail \in Trails
  BY HooksParts DEF DrainPage
<1>2. PICK w \in BOOLEAN : w <=> (trail.stale \/
          (capturing.start = "no" /\ ~ trail.unclean /\ buffered \ {capturing.number} # {}))
  OBVIOUS
<1>3. ~ w
  BY <1>2, HooksParts DEF DrainPage, CaptureIsClean
<1>4. trail' = [trail EXCEPT !.stale = w]
  BY <1>2 DEF DrainPage
<1>5. /\ trail' \in Trails /\ trail'.twice = trail.twice /\ ~ trail'.stale /\ trail'.several = trail.several
      /\ trail'.overlap = trail.overlap
  BY <1>1, <1>3, <1>4 DEF Trails
<1>6. HooksAreKnown' /\ CaptureIsClean'
  BY <1>1, <1>5, HooksParts DEF HooksAreKnown, CaptureIsClean
<1> QED
  BY <1>1, <1>5, <1>6, HooksParts DEF HooksInv, HookShapes

LEMMA StopKeepsHooks ==
    ASSUME HooksInv, BeginStop \/ (\E ok \in BOOLEAN : StopClears(ok)) PROVE HooksInv'
<1>1. UNCHANGED <<surface, scope, script>> /\ capturing \in Captures /\ trail \in Trails
  BY HooksParts DEF BeginStop, StopClears
<1>2. /\ trail' \in Trails /\ ~ trail'.twice /\ ~ trail'.stale /\ trail'.several = trail.several
      /\ trail'.overlap = trail.overlap /\ trail'.unclean = trail.unclean
  BY HooksParts, MarkedTrail DEF BeginStop, StopClears
<1>3. HooksAreKnown'
  BY <1>1, <1>2, HooksParts DEF HooksAreKnown
<1>4. CASE BeginStop
  <2>1. capturing' = [capturing EXCEPT !.runs = FALSE, !.stop = "clear"]
    BY <1>4 DEF BeginStop
  <2>2. capturing' \in Captures /\ ~ capturing'.runs
    BY <1>1, <2>1 DEF Captures
  <2> QED
    BY <1>1, <1>2, <1>3, <2>2, HooksParts DEF HooksInv, HookShapes, CaptureIsClean
<1>5. ASSUME NEW ok \in BOOLEAN, StopClears(ok) PROVE HooksInv'
  BY <1>1, <1>2, <1>3, <1>5, HooksParts DEF StopClears, Captures, CaptureIsClean, HooksInv,
     HookShapes
<1> QED
  BY <1>4, <1>5

\* A stop takes off all the script knows of.
LEMMA TakeOffKeeps == ASSUME HooksInv, NEW ok \in BOOLEAN, StopTakesOff(ok) PROVE HooksInv'
<1>1. /\ UNCHANGED <<surface, buffered>> /\ capturing \in Captures /\ trail \in Trails
      /\ script \in ScriptRecords /\ \A f \in Scopes : scope[f] \in ScopeRecords
  BY HooksParts DEF StopTakesOff
<1>2. capturing' = [capturing EXCEPT !.stop = "no"] /\ capturing.stop = "takeoff"
  BY DEF StopTakesOff
<1>3. /\ capturing' \in Captures /\ capturing'.runs = capturing.runs /\ capturing'.start = capturing.start
      /\ capturing'.number = capturing.number /\ (capturing.runs => trail.overlap)
  BY <1>1, <1>2, HooksParts DEF Captures, CaptureIsClean
<1>4. /\ trail' \in Trails /\ ~ trail'.twice /\ ~ trail'.stale /\ trail'.several = trail.several
      /\ trail'.overlap = trail.overlap /\ trail'.unclean = trail.unclean
  BY HooksParts, MarkedTrail DEF StopTakesOff
<1>5. CASE ok /\ script.there
  <2>1. scope' = [f \in Scopes |-> TakenOff(f, scope[f])] /\ script' = Uninstalled
    BY <1>5 DEF StopTakesOff, TakeOff
  <2>2. /\ script' \in ScriptRecords /\ script'.hooked = {} /\ script'.target = 0
    <3>1. script' = [script EXCEPT !.hooked = {}, !.scans = FALSE, !.target = 0, !.bridged = FALSE]
      BY <2>1 DEF Uninstalled
    <3>2. {} \in SUBSET Scopes /\ 0 \in Nat
      OBVIOUS
    <3> QED
      BY <1>1, <3>1, <3>2 DEF ScriptRecords
  <2>3. ASSUME NEW f \in Scopes
        PROVE  /\ scope'[f] \in ScopeRecords /\ scope'[f].here = scope[f].here
               /\ scope'[f].method = (IF f \in script.hooked THEN Bare ELSE scope[f].method)
               /\ scope'[f].bridge = (IF f = script.target THEN Bare ELSE scope[f].bridge)
    <3>1. PICK m \in Hooks, b \in Hooks : /\ m = (IF f \in script.hooked THEN Bare ELSE scope[f].method)
                                          /\ b = (IF f = script.target THEN Bare ELSE scope[f].bridge)
      BY <1>1, WrappedOnce DEF ScopeRecords
    <3>2. scope'[f] = [scope[f] EXCEPT !.method = m, !.bridge = b]
      BY <2>1, <3>1 DEF TakenOff
    <3> QED
      BY <1>1, <3>1, <3>2 DEF ScopeRecords
  <2>4. scope' \in [Scopes -> ScopeRecords]
    BY <2>1, <2>3
  <2>5. Bare.layers = 0
    BY DEF Bare
  <2>6. HooksAreKnown'
    BY <1>4, <2>2, <2>3, <2>5, HooksParts DEF HooksAreKnown
  <2>7. CaptureIsClean'
    BY <1>1, <1>2, <1>3, <1>4, HooksParts DEF CaptureIsClean
  <2> QED
    BY <1>1, <1>3, <1>4, <2>2, <2>4, <2>6, <2>7, HooksParts DEF HooksInv, HookShapes
<1>6. CASE ~ (ok /\ script.there)
  BY <1>1, <1>2, <1>3, <1>4, <1>6, HooksParts DEF StopTakesOff, HooksAreKnown, CaptureIsClean,
     HooksInv, HookShapes
<1> QED
  BY <1>5, <1>6

LEMMA HooksKeep == HooksInv /\ [HooksNext]_hookVars => HooksInv'
<1> SUFFICES ASSUME HooksInv, [HooksNext]_hookVars PROVE HooksInv'
  OBVIOUS
<1>1. CASE UNCHANGED hookVars
  BY <1>1 DEF hookVars, HooksInv, HookShapes, HooksAreKnown, CaptureIsClean
<1>2. CASE ScanTick \/ InjectAgain \/ RebuildPage \/ DrainPage
  BY <1>2, ScansKeep, RebuildKeeps, DrainKeepsOwn
<1>3. CASE BeginCapture \/ (\E ok \in BOOLEAN : InstallCapture(ok) \/ StartClears(ok))
  BY <1>3, StartKeeps
<1>4. CASE BeginStop \/ (\E ok \in BOOLEAN : StopClears(ok))
  BY <1>4, StopKeepsHooks
<1>5. CASE \E ok \in BOOLEAN : StopTakesOff(ok)
  BY <1>5, TakeOffKeeps
<1>6. ASSUME NEW f \in Scopes, RemoveScope(f) \/ GetDatabase(f) \/ (\E b \in BOOLEAN : AddScope(f, b))
      PROVE  HooksInv'
  BY <1>6, PagesChange
<1>7. ASSUME NEW f \in Scopes, NEW what \in {"method", "bridge", "db"}, CallPage(f, what) PROVE HooksInv'
  BY <1>7, CallKeeps
<1> QED
  BY <1>1, <1>2, <1>3, <1>4, <1>5, <1>6, <1>7 DEF HooksNext

(* A call is recorded once however the hook came and went; a capture that   *)
(* cleared the page drains only its own records; a hook that is off left no *)
(* wrapper but on bridges wrapped together with a later one; and a capture  *)
(* that no stop overtook stays hooked (core/hooks/wxapi.js, cloud.js and    *)
(* the start and stop handlers of ipc_bridge.go).                           *)
THEOREM HooksComeOffAgain == HooksSpec => []HooksComeOff
<1>1. HooksInv => HooksComeOff
  <2> SUFFICES ASSUME HooksInv PROVE HooksComeOff
    OBVIOUS
  <2>1. RecordedOnce /\ NothingFromBefore
    BY HooksParts DEF RecordedOnce, NothingFromBefore
  <2>2. \A f \in Scopes : scope[f].method.layers \in {0, 1} /\ scope[f].bridge.layers \in {0, 1}
    BY HooksParts, WrappedOnce DEF ScopeRecords
  <2>3. \A f \in Scopes : f # 0
    BY PageHooksSizes DEF Scopes
  <2>4. OffIsBare
    BY <2>2, <2>3, HooksParts DEF OffIsBare, HooksAreKnown, Here
  <2>5. RunningIsHooked
    BY HooksParts DEF RunningIsHooked, HooksAreKnown, CaptureIsClean, Here
  <2> QED
    BY <2>1, <2>4, <2>5 DEF HooksComeOff
<1> QED
  BY <1>1, HooksInitially, HooksKeep, PTL DEF HooksSpec

-----------------------------------------------------------------------------
(* The search of code (CodeSearch)                                          *)

Excerpts == [from : Nat, runes : Nat, column : Nat, lead : BOOLEAN, tail : BOOLEAN]
Hittable(f, l) == f \in DOMAIN files /\ l \in Reachable(f)
Passed(f, l) == f < spot[1] \/ (f = spot[1] /\ l < spot[2])

SearchShapes ==
    /\ \E n \in Nat : files \in [1 .. n -> Texts \cup {Binary}]
    /\ match \in [runes : Nat, start : Nat] /\ match.start < match.runes
    /\ spot \in (Nat \ {0}) \X (Nat \ {0})
    /\ hits \in Seq([file : Nat, line : Nat, excerpt : Excerpts])

\* The scanner has met no line too long for it, in the file it is in.
ScanGoesOn ==
    /\ InTree /\ spot[2] > 1 => CurrentFile.text
    /\ InTree => \A k \in DOMAIN CurrentFile.lines : k < spot[2] => CurrentFile.lines[k] # "huge"

\* The hits are the matches passed, each once and in order.
HitsArePassed ==
    /\ \A i \in DOMAIN hits : /\ Hittable(hits[i].file, hits[i].line) /\ Passed(hits[i].file, hits[i].line)
                              /\ hits[i].excerpt = Excerpt(match.runes, match.start)
    /\ \A f \in DOMAIN files : \A l \in Reachable(f) : Passed(f, l) =>
           \E i \in DOMAIN hits : hits[i].file = f /\ hits[i].line = l
    /\ \A i, j \in DOMAIN hits : i < j =>
         \/ hits[i].file < hits[j].file
         \/ hits[i].file = hits[j].file /\ hits[i].line < hits[j].line

\* The walk ends behind the last file, or at a full list.
EndIsSaid ==
    /\ Len(hits) <= HitCap
    /\ ~ walking /\ ~ truncated => ~ InTree
    /\ truncated => Len(hits) = HitCap

SearchInv == SearchShapes /\ ScanGoesOn /\ HitsArePassed /\ EndIsSaid

\* The excerpt of a match: it fits, and shows the match where it says.
LEMMA ExcerptIsTrue ==
    ASSUME NEW runes \in Nat, NEW start \in Nat, start < runes, NEW e, e = Excerpt(runes, start)
    PROVE  /\ e \in Excerpts
           /\ RuneAt(e, e.column) = start
           /\ start \in e.from .. e.from + e.runes - 1
           /\ e.from + e.runes <= runes /\ e.runes <= LineCap
           /\ e.lead = (e.from > 0) /\ e.tail = (e.from + e.runes < runes)
<1>1. CASE runes <= LineCap
  <2>1. e = [from |-> 0, runes |-> runes, column |-> start + 1, lead |-> FALSE, tail |-> FALSE]
    BY <1>1 DEF Excerpt
  <2>2. e \in Excerpts
    BY <2>1 DEF Excerpts
  <2>3. e.from = 0 /\ e.runes = runes /\ e.column = start + 1 /\ ~ e.lead /\ ~ e.tail
    BY <2>1
  <2>4. RuneAt(e, e.column) = start
    BY <2>3 DEF RuneAt
  <2>5. start \in e.from .. e.from + e.runes - 1 /\ e.from + e.runes <= runes /\ e.runes <= LineCap
    BY <1>1, <2>3
  <2>6. ~ (e.from > 0) /\ ~ (e.from + e.runes < runes)
    BY <2>3
  <2>7. e.lead \in BOOLEAN /\ e.tail \in BOOLEAN
    BY <2>2 DEF Excerpts
  <2>8. e.lead = (e.from > 0) /\ e.tail = (e.from + e.runes < runes)
    BY <2>3, <2>6, <2>7
  <2> QED
    BY <2>2, <2>4, <2>5, <2>8
<1>2. CASE ~ (runes <= LineCap)
  <2>1. LineCap \in Nat /\ ContextBefore \in Nat /\ ContextBefore < LineCap /\ runes > LineCap
    BY <1>2, CapsAreOrdered
  <2>2. PICK wanted \in Nat : wanted = IF start < ContextBefore THEN 0 ELSE start - ContextBefore
    BY <2>1
  <2>3. PICK from \in Nat : from = IF wanted + LineCap > runes THEN runes - LineCap ELSE wanted
    BY <2>1
  <2>4. PICK lead \in BOOLEAN, tail \in BOOLEAN : (lead <=> from > 0) /\ (tail <=> from + LineCap < runes)
    OBVIOUS
  <2>5. from <= start /\ start < from + LineCap /\ from + LineCap <= runes
    BY <2>1, <2>2, <2>3
  <2>6. PICK column \in Nat : column = start - from + 1 + (IF lead THEN 1 ELSE 0)
    BY <2>5
  <2>7. e = [from |-> from, runes |-> LineCap, column |-> column, lead |-> lead, tail |-> tail]
    BY <1>2, <2>2, <2>3, <2>4, <2>6 DEF Excerpt, Window
  <2>8. e \in Excerpts
    BY <2>1, <2>7 DEF Excerpts
  <2>9. e.from = from /\ e.runes = LineCap /\ e.column = column /\ e.lead = lead /\ e.tail = tail
    BY <2>7
  <2> QED
    BY <2>1, <2>4, <2>5, <2>6, <2>8, <2>9 DEF RuneAt
<1> QED
  BY <1>1, <1>2

\* A file that is read has lines, and no more than MaxLines.
LEMMA FileLines ==
    ASSUME NEW g \in Texts \cup {Binary}
    PROVE  \E n \in 0 .. MaxLines : DOMAIN g.lines = 1 .. n
<1>1. CASE g \in Texts
  BY <1>1 DEF Texts
<1>2. CASE g = Binary
  BY <1>2, CapsAreOrdered DEF Binary
<1> QED
  BY <1>1, <1>2

LEMMA LinesHaveLength ==
    ASSUME NEW g \in Texts \cup {Binary}, NEW m \in Nat, DOMAIN g.lines = 1 .. m
    PROVE  Len(g.lines) = m
  BY DEF Texts, Binary

LEMMA TreeLines ==
    ASSUME SearchShapes
    PROVE  /\ DOMAIN files = 1 .. Len(files) /\ Len(files) \in Nat
           /\ \A f \in DOMAIN files : f \in Nat /\ f >= 1 /\ files[f] \in Texts \cup {Binary}
           /\ \A f \in DOMAIN files : \A l \in DOMAIN files[f].lines : l \in 1 .. MaxLines
           /\ \A f \in DOMAIN files : \A l \in Reachable(f) : l \in 1 .. MaxLines
<1>1. PICK n \in Nat : files \in [1 .. n -> Texts \cup {Binary}]
  BY DEF SearchShapes
<1>2. DOMAIN files = 1 .. Len(files) /\ Len(files) \in Nat
  BY <1>1
<1>3. ASSUME NEW f \in DOMAIN files
      PROVE  f \in Nat /\ f >= 1 /\ files[f] \in Texts \cup {Binary}
  BY <1>1
<1>4. ASSUME NEW f \in DOMAIN files, NEW l \in DOMAIN files[f].lines PROVE l \in 1 .. MaxLines
  BY <1>3, FileLines, CapsAreOrdered
<1>5. ASSUME NEW f \in DOMAIN files, NEW l \in Reachable(f) PROVE l \in 1 .. MaxLines
  BY <1>4 DEF Reachable
<1> QED
  BY <1>2, <1>3, <1>4, <1>5

LEMMA SearchInitially == SearchInit => SearchInv
<1> SUFFICES ASSUME SearchInit PROVE SearchInv
  OBVIOUS
<1>1. PICK runes \in 1 .. MaxRunes : \E start \in 0 .. runes - 1 : match = [runes |-> runes, start |-> start]
  BY DEF SearchInit
<1>2. PICK start \in 0 .. runes - 1 : match = [runes |-> runes, start |-> start]
  BY <1>1
<1>3. match \in [runes : Nat, start : Nat] /\ match.start < match.runes
  BY <1>2, CapsAreOrdered
<1>4. spot = <<1, 1>> /\ hits = <<>> /\ truncated = FALSE /\ walking = TRUE
  BY DEF SearchInit
<1>5. \E n \in Nat : files \in [1 .. n -> Texts \cup {Binary}]
  BY CapsAreOrdered DEF SearchInit
<1>6. SearchShapes
  BY <1>3, <1>4, <1>5 DEF SearchShapes
<1>7. \A f \in DOMAIN files : \A l \in Reachable(f) : f \in Nat /\ f >= 1 /\ l \in Nat /\ l >= 1
  BY <1>6, TreeLines
<1>8. HitsArePassed
  BY <1>4, <1>7 DEF HitsArePassed, Passed
<1>9. ScanGoesOn
  BY <1>4, <1>6, TreeLines DEF InTree, CurrentFile, ScanGoesOn
<1> QED
  BY <1>4, <1>6, <1>8, <1>9, CapsAreOrdered DEF SearchInv, EndIsSaid


LEMMA PlaceOfScan ==
    ASSUME SearchShapes PROVE spot[1] \in Nat /\ spot[1] >= 1 /\ spot[2] \in Nat /\ spot[2] >= 1
<1>1. spot \in (Nat \ {0}) \X (Nat \ {0})
  BY DEF SearchShapes
<1>2. spot[1] \in Nat \ {0} /\ spot[2] \in Nat \ {0}
  BY <1>1
<1> QED
  BY <1>2

\* What a step that goes on to the next file, having skipped or scanned one,
\* leaves of the rest.
LEMMA NextFileKeeps ==
    ASSUME SearchInv, InTree, NextFile, UNCHANGED <<files, match, hits, truncated, walking>>, walking,
           \A l \in Reachable(spot[1]) : l < spot[2]
    PROVE  SearchInv'
<1>1. SearchShapes /\ HitsArePassed /\ EndIsSaid /\ spot[1] \in Nat /\ spot[2] \in Nat /\ spot[1] >= 1
  BY PlaceOfScan DEF SearchInv
<1>2. spot' \in (Nat \ {0}) \X (Nat \ {0}) /\ spot'[1] = spot[1] + 1 /\ spot'[2] = 1
  BY <1>1 DEF NextFile
<1>3. SearchShapes'
  BY <1>1, <1>2 DEF SearchShapes
<1>4. ScanGoesOn'
  BY <1>1, <1>2, TreeLines DEF InTree, CurrentFile, ScanGoesOn
<1>5. HitsArePassed'
  <2>1. \A f \in DOMAIN files : \A l \in Reachable(f) : f \in Nat /\ l \in Nat /\ (Passed(f, l)' <=> f <= spot[1])
    BY <1>1, <1>2, TreeLines DEF Passed
  <2>2. \A f \in DOMAIN files : \A l \in Reachable(f) : f <= spot[1] => Passed(f, l)
    BY <1>1, TreeLines DEF Passed
  <2>3. \A f \in DOMAIN files : Reachable(f)' = Reachable(f)
    BY DEF Reachable
  <2>4. ASSUME NEW f \in DOMAIN files, NEW l \in Reachable(f), Passed(f, l) PROVE Passed(f, l)'
    BY <1>1, <2>1, <2>4, TreeLines DEF Passed
  <2>5. \A i \in DOMAIN hits : /\ Hittable(hits[i].file, hits[i].line)' /\ Passed(hits[i].file, hits[i].line)'
                               /\ hits[i].excerpt = Excerpt(match.runes, match.start)
    BY <1>1, <2>3, <2>4 DEF HitsArePassed, Hittable
  <2>6. \A f \in DOMAIN files : \A l \in Reachable(f) : Passed(f, l)' =>
           \E i \in DOMAIN hits : hits[i].file = f /\ hits[i].line = l
    BY <1>1, <2>1, <2>2 DEF HitsArePassed
  <2> QED
    BY <1>1, <2>3, <2>5, <2>6 DEF HitsArePassed
<1> QED
  BY <1>1, <1>3, <1>4, <1>5 DEF SearchInv, EndIsSaid

\* Nor does the end of the walk change what was found.
LEMMA EndKeeps ==
    ASSUME SearchInv, UNCHANGED <<files, match, spot, hits>>, walking' = FALSE,
           \/ truncated' = TRUE /\ Len(hits) >= HitCap
           \/ UNCHANGED truncated /\ ~ InTree
    PROVE  SearchInv'
<1>1. SearchShapes' /\ ScanGoesOn'
  BY DEF SearchInv, SearchShapes, ScanGoesOn, InTree, CurrentFile
<1>2. HitsArePassed'
  BY DEF SearchInv, HitsArePassed, Hittable, Reachable, Passed
<1>3. EndIsSaid'
  BY CapsAreOrdered DEF SearchInv, SearchShapes, EndIsSaid, InTree
<1> QED
  BY <1>1, <1>2, <1>3 DEF SearchInv

LEMMA SkipKeeps == ASSUME SearchInv, SkipFile PROVE SearchInv'
<1>1. walking /\ InTree /\ UNCHANGED <<files, match>>
  BY DEF SkipFile
<1>2. CASE Len(hits) >= HitCap
  BY <1>1, <1>2, EndKeeps DEF SkipFile, Stops
<1>3. CASE ~ (Len(hits) >= HitCap)
  BY <1>1, <1>3, NextFileKeeps DEF SkipFile, Reachable, CurrentFile
<1> QED
  BY <1>2, <1>3

LEMMA LineKeeps == ASSUME SearchInv, SearchLine PROVE SearchInv'
<1>1. walking /\ InTree /\ UNCHANGED <<files, match>> /\ CurrentFile.text
  BY DEF SearchLine
<1>2. /\ SearchShapes /\ HitsArePassed /\ EndIsSaid /\ ScanGoesOn
      /\ spot[1] \in Nat /\ spot[2] \in Nat /\ spot[1] >= 1 /\ spot[2] >= 1 /\ spot[1] \in DOMAIN files
  BY <1>1, TreeLines, PlaceOfScan DEF SearchInv, InTree
<1>3. PICK m \in Nat : DOMAIN CurrentFile.lines = 1 .. m
  BY <1>2, TreeLines, FileLines, CapsAreOrdered DEF CurrentFile
<1>4. CASE EndsScan
  <2>1. NextFile /\ UNCHANGED <<hits, truncated, walking>>
    BY <1>4 DEF SearchLine
  <2>2. Len(CurrentFile.lines) = m
    BY <1>2, <1>3, TreeLines DEF CurrentFile
  <2>3. \A l \in Reachable(spot[1]) : l < spot[2]
    BY <1>2, <1>3, <1>4, <2>2 DEF Reachable, CurrentFile, EndsScan
  <2> QED
    BY <1>1, <2>1, <2>3, NextFileKeeps
<1>5. CASE ~ EndsScan /\ Len(hits) >= HitCap
  BY <1>1, <1>5, EndKeeps DEF SearchLine, Stops
<1>6. CASE ~ EndsScan /\ ~ (Len(hits) >= HitCap)
  <2>1. /\ spot' = <<spot[1], spot[2] + 1>> /\ UNCHANGED <<truncated, walking>>
        /\ hits' = IF CurrentFile.lines[spot[2]] = "match" THEN Append(hits, Hit) ELSE hits
    BY <1>6 DEF SearchLine
  <2>2. spot' \in (Nat \ {0}) \X (Nat \ {0}) /\ spot'[1] = spot[1] /\ spot'[2] = spot[2] + 1
    BY <1>2, <2>1
  <2>3. spot[2] \in DOMAIN CurrentFile.lines /\ CurrentFile.lines[spot[2]] # "huge"
    BY <1>2, <1>3, <1>6, TreeLines, LinesHaveLength DEF CurrentFile, EndsScan
  <2>4. ScanGoesOn'
    <3>1. CurrentFile' = CurrentFile /\ (InTree' <=> InTree)
      BY <1>1, <2>2 DEF CurrentFile, InTree
    <3>2. \A k \in DOMAIN CurrentFile.lines : k < spot[2] + 1 => CurrentFile.lines[k] # "huge"
      BY <1>1, <1>2, <1>3, <2>3 DEF ScanGoesOn
    <3> QED
      BY <1>1, <2>2, <3>1, <3>2 DEF ScanGoesOn
  <2>5. \A f \in DOMAIN files : Reachable(f)' = Reachable(f)
    BY <1>1 DEF Reachable
  <2>6. \A f \in DOMAIN files : \A l \in Reachable(f) :
           Passed(f, l)' <=> Passed(f, l) \/ (f = spot[1] /\ l = spot[2])
    BY <1>2, <2>2, TreeLines DEF Passed
  <2>7. spot[2] \in Reachable(spot[1]) <=> CurrentFile.lines[spot[2]] = "match"
    BY <1>1, <1>2, <1>3, <2>3 DEF ScanGoesOn, Reachable, CurrentFile
  <2>8. CASE CurrentFile.lines[spot[2]] # "match"
    <3>1. UNCHANGED hits
      BY <2>1, <2>8
    <3>2. HitsArePassed'
      BY <1>1, <1>2, <2>5, <2>6, <2>7, <2>8, <3>1 DEF HitsArePassed, Hittable
    <3> QED
      BY <1>1, <1>2, <2>1, <2>2, <2>4, <3>1, <3>2 DEF SearchInv, SearchShapes, EndIsSaid
  <2>9. CASE CurrentFile.lines[spot[2]] = "match"
    <3>1. PICK h : h = Hit
      OBVIOUS
    <3>2. PICK e : e = Excerpt(match.runes, match.start)
      OBVIOUS
    <3>3. e \in Excerpts
      BY <1>2, <3>2, ExcerptIsTrue DEF SearchShapes
    <3>4. h = [file |-> spot[1], line |-> spot[2], excerpt |-> e]
      BY <3>1, <3>2 DEF Hit
    <3>5. /\ h \in [file : Nat, line : Nat, excerpt : Excerpts]
          /\ h.file = spot[1] /\ h.line = spot[2] /\ h.excerpt = e
      BY <1>2, <3>3, <3>4
    <3>6. hits' = Append(hits, h) /\ hits \in Seq([file : Nat, line : Nat, excerpt : Excerpts])
      BY <1>2, <2>1, <2>9, <3>1 DEF SearchShapes
    <3>7. PICK new : new = hits'
      OBVIOUS
    <3>8. /\ new \in Seq([file : Nat, line : Nat, excerpt : Excerpts]) /\ Len(hits) \in Nat
          /\ Len(new) = Len(hits) + 1 /\ new[Len(hits) + 1] = h
          /\ DOMAIN hits = 1 .. Len(hits) /\ DOMAIN new = 1 .. Len(hits) + 1
          /\ \A i \in DOMAIN hits : new[i] = hits[i]
      BY <3>5, <3>6, <3>7
    <3>9. \A i \in DOMAIN new : i \in DOMAIN hits \/ i = Len(hits) + 1
      BY <3>8
    <3>10. ASSUME NEW i \in DOMAIN new
           PROVE  /\ Hittable(new[i].file, new[i].line)' /\ Passed(new[i].file, new[i].line)'
                  /\ new[i].excerpt = Excerpt(match.runes, match.start)
      <4>1. PICK f, l : f = new[i].file /\ l = new[i].line
        OBVIOUS
      <4>2. CASE i \in DOMAIN hits
        <5>1. Hittable(f, l) /\ Passed(f, l) /\ new[i].excerpt = Excerpt(match.runes, match.start)
          BY <1>2, <3>8, <4>1, <4>2 DEF HitsArePassed
        <5>2. Hittable(f, l)' /\ Passed(f, l)'
          BY <1>1, <2>5, <2>6, <5>1 DEF Hittable
        <5> QED
          BY <4>1, <5>1, <5>2
      <4>3. CASE i = Len(hits) + 1
        <5>1. f = spot[1] /\ l = spot[2] /\ new[i].excerpt = Excerpt(match.runes, match.start)
          BY <3>2, <3>5, <3>8, <4>1, <4>3
        <5>2. f \in DOMAIN files /\ l \in Reachable(f)
          BY <1>2, <2>7, <2>9, <5>1
        <5>3. Hittable(f, l)' /\ Passed(f, l)'
          BY <1>1, <2>5, <2>6, <5>1, <5>2 DEF Hittable
        <5> QED
          BY <4>1, <5>1, <5>3
      <4> QED
        BY <3>9, <4>2, <4>3
    <3>11. ASSUME NEW f \in DOMAIN files, NEW l \in Reachable(f), Passed(f, l)'
           PROVE  \E i \in DOMAIN new : new[i].file = f /\ new[i].line = l
      <4>1. CASE Passed(f, l)
        <5>1. PICK i \in DOMAIN hits : hits[i].file = f /\ hits[i].line = l
          BY <1>2, <4>1 DEF HitsArePassed
        <5>2. i \in DOMAIN new /\ new[i] = hits[i]
          BY <3>8
        <5> QED
          BY <5>1, <5>2
      <4>2. CASE f = spot[1] /\ l = spot[2]
        <5>1. Len(hits) + 1 \in DOMAIN new
          BY <3>8
        <5> QED
          BY <3>5, <3>8, <4>2, <5>1
      <4> QED
        BY <2>6, <3>11, <4>1, <4>2
    <3>12. ASSUME NEW i \in DOMAIN new, NEW j \in DOMAIN new, i < j
           PROVE  \/ new[i].file < new[j].file
                  \/ new[i].file = new[j].file /\ new[i].line < new[j].line
      <4>1. i \in DOMAIN hits
        BY <3>8, <3>12
      <4>2. CASE j \in DOMAIN hits
        <5>1. new[i] = hits[i] /\ new[j] = hits[j]
          BY <3>8, <4>1, <4>2
        <5>2. \/ hits[i].file < hits[j].file
              \/ hits[i].file = hits[j].file /\ hits[i].line < hits[j].line
          BY <1>2, <3>12, <4>1, <4>2 DEF HitsArePassed
        <5> QED
          BY <5>1, <5>2
      <4>3. CASE j = Len(hits) + 1
        BY <1>2, <3>5, <3>8, <4>1, <4>3 DEF HitsArePassed, Passed
      <4> QED
        BY <3>9, <4>2, <4>3
    <3>13. HitsArePassed'
      BY <1>1, <2>5, <3>7, <3>10, <3>11, <3>12 DEF HitsArePassed
    <3>14. EndIsSaid'
      BY <1>1, <1>2, <1>6, <2>1, <3>7, <3>8, CapsAreOrdered DEF EndIsSaid
    <3> QED
      BY <1>1, <1>2, <2>2, <2>4, <3>7, <3>8, <3>13, <3>14 DEF SearchInv, SearchShapes
  <2> QED
    BY <2>8, <2>9
<1> QED
  BY <1>4, <1>5, <1>6

LEMMA SearchKeeps == SearchInv /\ [SearchNext]_searchVars => SearchInv'
<1> SUFFICES ASSUME SearchInv, [SearchNext]_searchVars PROVE SearchInv'
  OBVIOUS
<1>1. CASE UNCHANGED searchVars
  <2>1. UNCHANGED <<files, match, spot, hits, truncated, walking>>
    BY <1>1 DEF searchVars
  <2>2. SearchShapes' /\ ScanGoesOn' /\ EndIsSaid'
    BY <2>1 DEF SearchInv, SearchShapes, ScanGoesOn, EndIsSaid, InTree, CurrentFile
  <2>3. HitsArePassed'
    BY <2>1 DEF SearchInv, HitsArePassed, Hittable, Reachable, Passed
  <2> QED
    BY <2>2, <2>3 DEF SearchInv
<1>2. CASE SkipFile
  BY <1>2, SkipKeeps
<1>3. CASE SearchLine
  BY <1>3, LineKeeps
<1>4. CASE EndWalk
  BY <1>4, EndKeeps DEF EndWalk
<1> QED
  BY <1>1, <1>2, <1>3, <1>4 DEF SearchNext

(* code.search without the mark answers every line of the tree that matches *)
(* and that its scanner reaches, once and in order, with the mark it answers *)
(* a full list; and every excerpt shows its match at the column it names     *)
(* (codeservice.go, SearchCode and excerptAround).                           *)
THEOREM SearchStaysHonest == SearchSpec => []SearchIsHonest
<1>1. SearchInv => SearchIsHonest
  <2> SUFFICES ASSUME SearchInv PROVE SearchIsHonest
    OBVIOUS
  <2>1. SearchShapes /\ HitsArePassed /\ EndIsSaid
    BY DEF SearchInv
  <2>2. ASSUME ~ walking, ~ truncated
        PROVE  {<<hits[i].file, hits[i].line>> : i \in DOMAIN hits} = AllHits
    BY <2>1, <2>2, TreeLines, PlaceOfScan DEF EndIsSaid, InTree, Passed, HitsArePassed, Hittable,
       AllHits
  <2>3. UnmarkedIsComplete
    BY <2>1, <2>2 DEF UnmarkedIsComplete, EndIsSaid, HitsArePassed
  <2>4. ExcerptShowsMatch
    <3> SUFFICES ASSUME NEW i \in DOMAIN hits, NEW e, e = hits[i].excerpt
                 PROVE  /\ RuneAt(e, e.column) = match.start
                        /\ match.start \in e.from .. e.from + e.runes - 1
                        /\ e.from + e.runes <= match.runes /\ e.runes <= LineCap
                        /\ e.lead = (e.from > 0) /\ e.tail = (e.from + e.runes < match.runes)
      BY DEF ExcerptShowsMatch
    <3>1. match.runes \in Nat /\ match.start \in Nat /\ match.start < match.runes
      BY <2>1 DEF SearchShapes
    <3>2. e = Excerpt(match.runes, match.start)
      BY <2>1 DEF HitsArePassed
    <3> QED
      BY <3>1, <3>2, ExcerptIsTrue
  <2> QED
    BY <2>3, <2>4 DEF SearchIsHonest
<1> QED
  BY <1>1, SearchInitially, SearchKeeps, PTL DEF SearchSpec

-----------------------------------------------------------------------------
(* The console (ConsoleLog)                                                 *)

Ids(recs) == {recs[i].id : i \in DOMAIN recs}
Seqs(recs) == {recs[i].seq : i \in DOMAIN recs}
Rising(recs) == \A i, j \in DOMAIN recs : i < j => recs[i].seq < recs[j].seq

\* What has left the buffers of page, feeder and Core.
Handled == IF handler.pc = "epoch" THEN {handler.id} ELSE {}
InRing == Ids(ring) \cup Elements(collector.batch) \cup Handled
\* A page in flight that a clear has not voided, and what a clear is discarding.
FreshDrain == IF drain.pc = "answered" /\ drain.gen = feederGen THEN Elements(drain.batch) ELSE {}
Clearing == IF clear.pc \in {"page", "feeder"} THEN clear.ids ELSE {}

ConsoleShapes ==
    /\ born \in Nat /\ buffer \in Seq(Nat) /\ pending \in Seq(Nat) /\ events \in Seq(Nat)
    /\ drain \in [pc : {"idle", "answered"}, batch : Seq(Nat), gen : Nat] /\ feederGen \in Nat
    /\ handler \in [pc : {"idle", "epoch"}, id : Nat, epoch : Nat]
    /\ collector \in [pc : {"idle", "epoch", "batch"}, batch : Seq(Nat), epoch : Nat]
    /\ ring \in Seq(RingRecord) /\ ringSeq \in Nat /\ ringEpoch \in Nat /\ clearedThrough \in Nat
    /\ clear \in [pc : {"idle", "page", "feeder", "answered"}, by : {"panel", "agent"}, ids : SUBSET Nat]
    /\ panel \in [marker : Nat, epoch : Nat, rows : Seq(RingRecord), dropped : Nat]
    /\ poll \in [pc : {"idle", "answered"}, epoch : Nat, rows : Seq(RingRecord), more : BOOLEAN, lost : SUBSET Nat]
    /\ told \in SUBSET Nat /\ wiped \in SUBSET Nat /\ doomed \in SUBSET Nat /\ base \in Nat /\ clears \in Nat

\* Each clear starts an epoch and a generation; what holds an older one is void.
EpochsOK ==
    /\ drain.gen <= feederGen /\ handler.epoch <= ringEpoch /\ collector.epoch <= ringEpoch
    /\ collector.pc # "batch" => collector.batch = <<>>
    /\ poll.epoch <= panel.epoch

\* A record is in one place only, and no place that still feeds the ring holds
\* a discarded one.
IdsOK ==
    /\ \A id \in Elements(buffer) \cup Elements(drain.batch) \cup Elements(pending) \cup Elements(events)
                  \cup InRing \cup doomed \cup clear.ids : id <= born
    /\ Elements(buffer) \cap (Elements(pending) \cup InRing \cup Clearing \cup doomed) = {}
    /\ Elements(pending) \cap (InRing \cup doomed) = {}
    /\ FreshDrain \cap (Elements(pending) \cup InRing \cup doomed) = {}
    /\ Elements(events) \cap (Elements(buffer) \cup Elements(drain.batch) \cup Elements(pending)
                                 \cup InRing \cup Clearing \cup doomed) = {}
    /\ \A i, j \in DOMAIN events : i # j => events[i] # events[j]
    /\ clear.pc = "feeder" => Clearing \cap (Elements(pending) \cup FreshDrain) = {}

GoneOK ==
    /\ Ids(ring) \cap doomed = {}
    /\ collector.epoch = ringEpoch => Elements(collector.batch) \cap doomed = {}
    /\ handler.epoch = ringEpoch => Handled \cap doomed = {}

\* What the panel shows, was told of and missed by another's clear.
PanelOK ==
    /\ Rising(panel.rows) /\ \A s \in Seqs(panel.rows) : s <= panel.marker
    /\ IsFiniteSet(told) /\ \A s \in told : s <= panel.marker
    /\ Seqs(panel.rows) \cap told = {} /\ panel.dropped = Cardinality(told)
    /\ \A s \in Nat : base < s /\ s <= panel.marker => s \in Seqs(panel.rows) \cup told \cup wiped
    /\ \A s \in Nat : base < s /\ panel.marker < s /\ s <= clearedThrough => s \in wiped

\* What an answer on its way brings: all that lies between the marker and its
\* last row is in it, or lost, or was cleared.
PollOK ==
    poll.pc = "answered" /\ poll.epoch = panel.epoch /\ poll.rows # <<>> =>
        /\ Rising(poll.rows) /\ \A s \in Seqs(poll.rows) : panel.marker < s
        /\ IsFiniteSet(poll.lost)
        /\ \A s \in poll.lost : panel.marker < s /\ \A r \in Seqs(poll.rows) : s < r
        /\ \A s \in Nat : base < s /\ panel.marker < s /\ s <= poll.rows[Len(poll.rows)].seq =>
               s \in poll.lost \cup Seqs(poll.rows) \cup wiped

ConsoleInv == ConsoleShapes /\ EpochsOK /\ RingIsWindow /\ IdsOK /\ GoneOK /\ PanelOK /\ PollOK

-----------------------------------------------------------------------------
LEMMA ElementsIn ==
    ASSUME NEW S, NEW s \in Seq(S)
    PROVE  Elements(s) \in SUBSET S /\ Elements(<<>>) = {} /\ \A x : Elements(<<x>>) = {x}
  BY DEF Elements

LEMMA ElementsAppended ==
    ASSUME NEW S, NEW s \in Seq(S), NEW x \in S
    PROVE  Append(s, x) \in Seq(S) /\ Elements(Append(s, x)) = Elements(s) \cup {x}
<1>1. PICK u : u = Append(s, x)
  OBVIOUS
<1>2. /\ u \in Seq(S) /\ DOMAIN u = 1 .. Len(s) + 1 /\ DOMAIN s = 1 .. Len(s) /\ Len(s) \in Nat
      /\ u[Len(s) + 1] = x /\ \A i \in 1 .. Len(s) : u[i] = s[i]
  BY <1>1
<1>3. Elements(u) = Elements(s) \cup {x}
  BY <1>2 DEF Elements
<1> QED
  BY <1>1, <1>2, <1>3

LEMMA ElementsJoined ==
    ASSUME NEW S, NEW s \in Seq(S), NEW t \in Seq(S)
    PROVE  s \o t \in Seq(S) /\ Elements(s \o t) = Elements(s) \cup Elements(t)
<1>1. PICK u : u = s \o t
  OBVIOUS
<1>2. /\ u \in Seq(S) /\ DOMAIN u = 1 .. Len(s) + Len(t)
      /\ DOMAIN s = 1 .. Len(s) /\ DOMAIN t = 1 .. Len(t) /\ Len(s) \in Nat /\ Len(t) \in Nat
      /\ \A i \in 1 .. Len(s) : u[i] = s[i]
      /\ \A i \in 1 .. Len(t) : u[Len(s) + i] = t[i]
  BY <1>1, ConcatProperties
<1>3. ASSUME NEW i \in DOMAIN u PROVE u[i] \in Elements(s) \cup Elements(t)
  <2>1. CASE i <= Len(s)
    BY <1>2, <2>1 DEF Elements
  <2>2. CASE i > Len(s)
    <3>1. PICK k \in 1 .. Len(t) : i = Len(s) + k
      <4>1. i - Len(s) \in 1 .. Len(t) /\ i = Len(s) + (i - Len(s))
        BY <1>2, <2>2
      <4> QED
        BY <4>1
    <3> QED
      BY <1>2, <3>1 DEF Elements
  <2> QED
    BY <1>2, <2>1, <2>2
<1>4. ASSUME NEW i \in DOMAIN s PROVE s[i] \in Elements(u)
  BY <1>2 DEF Elements
<1>5. ASSUME NEW i \in DOMAIN t PROVE t[i] \in Elements(u)
  <2>1. Len(s) + i \in DOMAIN u /\ u[Len(s) + i] = t[i]
    BY <1>2
  <2> QED
    BY <2>1 DEF Elements
<1> QED
  BY <1>1, <1>2, <1>3, <1>4, <1>5 DEF Elements

LEMMA ElementsTail ==
    ASSUME NEW s \in Seq(Nat), s # <<>>
    PROVE  /\ Tail(s) \in Seq(Nat) /\ Head(s) \in Nat /\ Head(s) \in Elements(s)
           /\ Elements(Tail(s)) \subseteq Elements(s)
           /\ (\A i, j \in DOMAIN s : i # j => s[i] # s[j]) =>
                  /\ \A i, j \in DOMAIN Tail(s) : i # j => Tail(s)[i] # Tail(s)[j]
                  /\ Head(s) \notin Elements(Tail(s))
<1> PICK t : t = Tail(s)
  OBVIOUS
<1>1. t \in Seq(Nat) /\ Len(s) \in Nat /\ Len(s) >= 1 /\ Head(s) = s[1] /\ Head(s) \in Nat
      /\ DOMAIN t = 1 .. Len(s) - 1 /\ DOMAIN s = 1 .. Len(s) /\ \A i \in 1 .. Len(s) - 1 : t[i] = s[i + 1]
  BY HeadTailProperties
<1>2. \A i \in DOMAIN t : i + 1 \in DOMAIN s /\ i + 1 # 1 /\ t[i] = s[i + 1]
  BY <1>1
<1>3. 1 \in DOMAIN s
  BY <1>1
<1>4. Head(s) \in Elements(s) /\ Elements(t) \subseteq Elements(s)
  BY <1>1, <1>2, <1>3 DEF Elements
<1>5. ASSUME \A i, j \in DOMAIN s : i # j => s[i] # s[j]
      PROVE  (\A i, j \in DOMAIN t : i # j => t[i] # t[j]) /\ Head(s) \notin Elements(t)
  BY <1>1, <1>2, <1>3, <1>5 DEF Elements
<1> QED
  BY <1>1, <1>4, <1>5

LEMMA ElementsPicked ==
    ASSUME NEW s \in Seq(Nat), NEW at \in SUBSET DOMAIN s
    PROVE  Pick(s, at) \in Seq(Nat) /\ Elements(Pick(s, at)) = {s[i] : i \in at}
<1>1. Pick(s, at) \in Seq(Nat) /\ \E f : Enumerates(f, Pick(s, at), s, at)
  BY PickOf
<1>2. PICK p : p = Pick(s, at)
  OBVIOUS
<1>3. PICK f : Enumerates(f, p, s, at)
  BY <1>1, <1>2
<1>4. /\ \A k \in DOMAIN p : f[k] \in at /\ p[k] = s[f[k]]
      /\ \A i \in at : \E k \in DOMAIN p : f[k] = i
  BY <1>3 DEF Enumerates
<1>5. Elements(p) = {s[i] : i \in at}
  BY <1>4 DEF Elements
<1> QED
  BY <1>1, <1>2, <1>5

-----------------------------------------------------------------------------
\* A ring that takes a batch remains the window of the newest records.
LEMMA RingTakes ==
    ASSUME ConsoleShapes, RingIsWindow, NEW batch \in Seq(Nat), NEW epoch \in Nat, AppendToRing(batch, epoch)
    PROVE  /\ ring' \in Seq(RingRecord) /\ ringSeq' \in Nat /\ ringSeq' >= ringSeq /\ RingIsWindow'
           /\ UNCHANGED <<ringEpoch, clearedThrough>>
           /\ epoch # ringEpoch => UNCHANGED ring
           /\ Ids(ring') \subseteq Ids(ring) \cup Elements(batch)
<1>1. /\ ring \in Seq(RingRecord) /\ ringSeq \in Nat /\ clearedThrough \in Nat
      /\ Len(ring) <= Capacity /\ clearedThrough + Len(ring) <= ringSeq /\ Len(ring) \in Nat /\ Len(batch) \in Nat
      /\ DOMAIN ring = 1 .. Len(ring) /\ DOMAIN batch = 1 .. Len(batch)
      /\ \A i \in 1 .. Len(ring) : ring[i].seq = ringSeq - Len(ring) + i /\ ring[i] \in RingRecord
  <2>1. ring \in Seq(RingRecord) /\ ringSeq \in Nat /\ clearedThrough \in Nat
    BY DEF ConsoleShapes
  <2>2. /\ Len(ring) \in Nat /\ DOMAIN ring = 1 .. Len(ring) /\ \A i \in 1 .. Len(ring) : ring[i] \in RingRecord
        /\ Len(batch) \in Nat /\ DOMAIN batch = 1 .. Len(batch)
    BY <2>1
  <2>3. /\ Len(ring) <= Capacity /\ clearedThrough + Len(ring) <= ringSeq
        /\ \A i \in 1 .. Len(ring) : ring[i].seq = ringSeq - Len(ring) + i
    BY DEF RingIsWindow
  <2> QED
    BY <2>1, <2>2, <2>3
<1>2. CASE batch = <<>> \/ epoch # ringEpoch
  BY <1>1, <1>2 DEF AppendToRing, log, RingIsWindow
<1>3. CASE ~ (batch = <<>> \/ epoch # ringEpoch)
  <2>1. ringSeq' = ringSeq + Len(batch) /\ ring' = Newest(ring \o Stamped(batch), Capacity)
        /\ UNCHANGED <<ringEpoch, clearedThrough>>
    BY <1>3 DEF AppendToRing
  <2>2. PICK t : t = Stamped(batch)
    OBVIOUS
  <2>3. /\ t \in Seq(RingRecord) /\ Len(t) = Len(batch)
        /\ \A i \in 1 .. Len(batch) : t[i].seq = ringSeq + i /\ t[i].id = batch[i]
    BY <1>1, <2>2 DEF Stamped, RingRecord
  <2>4. PICK u : u = ring \o t
    OBVIOUS
  <2>5. /\ u \in Seq(RingRecord) /\ Len(u) = Len(ring) + Len(batch)
        /\ \A i \in 1 .. Len(ring) : u[i] = ring[i]
        /\ \A i \in 1 .. Len(batch) : u[Len(ring) + i] = t[i]
    <3>1. /\ u \in Seq(RingRecord) /\ Len(u) = Len(ring) + Len(t)
          /\ \A i \in 1 .. Len(ring) : u[i] = ring[i]
          /\ \A i \in 1 .. Len(t) : u[Len(ring) + i] = t[i]
      <4>1. ring \in Seq(RingRecord) /\ t \in Seq(RingRecord)
        BY <1>1, <2>3
      <4> QED
        BY <2>4, <4>1, ConcatProperties
    <3>2. Len(t) = Len(batch)
      BY <2>3
    <3> QED
      BY <3>1, <3>2
  <2>6. ASSUME NEW i \in 1 .. Len(u)
        PROVE  /\ u[i] \in RingRecord /\ u[i].seq = ringSeq - Len(ring) + i
               /\ u[i].id \in Ids(ring) \cup Elements(batch)
    <3>1. CASE i <= Len(ring)
      <4>1. i \in 1 .. Len(ring)
        BY <1>1, <2>5, <3>1
      <4>2. u[i] = ring[i] /\ i \in DOMAIN ring
        BY <1>1, <2>5, <4>1
      <4>3. ring[i].id \in Ids(ring)
        BY <4>2 DEF Ids
      <4> QED
        BY <1>1, <4>1, <4>2, <4>3
    <3>2. CASE i > Len(ring)
      <4>1. PICK k \in 1 .. Len(batch) : i = Len(ring) + k
        <5>1. i - Len(ring) \in 1 .. Len(batch) /\ i = Len(ring) + (i - Len(ring))
          BY <1>1, <2>5, <3>2
        <5> QED
          BY <5>1
      <4>2. u[i] = t[k] /\ t[k].seq = ringSeq + k /\ t[k].id = batch[k] /\ t[k] \in RingRecord
        BY <2>3, <2>5, <4>1
      <4>3. batch[k] \in Elements(batch)
        BY <1>1 DEF Elements
      <4>4. ringSeq + k = ringSeq - Len(ring) + i
        BY <1>1, <4>1
      <4> QED
        BY <4>2, <4>3, <4>4
    <3> QED
      BY <1>1, <2>5, <3>1, <3>2
  <2>7. PICK d \in Nat : /\ Len(u) - d \in Nat /\ Len(u) - d <= Capacity
                         /\ ring' = SubSeq(u, d + 1, Len(u)) \/ (d = 0 /\ ring' = u)
    <3>1. CASE Len(u) > Capacity
      <4>1. ring' = SubSeq(u, Len(u) - Capacity + 1, Len(u))
        BY <2>1, <2>2, <2>4, <3>1 DEF Newest
      <4>2. Len(u) \in Nat /\ Capacity \in Nat
        BY <1>1, <2>5, ConsoleCapacity
      <4>3. PICK cut \in Nat : cut = Len(u) - Capacity
        BY <3>1, <4>2
      <4>4. ring' = SubSeq(u, cut + 1, Len(u))
        BY <4>1, <4>3
      <4>5. Len(u) - cut \in Nat /\ Len(u) - cut <= Capacity
        BY <4>2, <4>3
      <4> QED
        BY <4>3, <4>4, <4>5
    <3>2. CASE ~ (Len(u) > Capacity)
      <4>1. ring' = u
        BY <2>1, <2>2, <2>4, <3>2 DEF Newest
      <4> QED
        BY <1>1, <2>5, <3>2, <4>1, ConsoleCapacity
    <3> QED
      BY <3>1, <3>2
  <2>8. PICK v : v = ring'
    OBVIOUS
  <2>9. /\ v \in Seq(RingRecord) /\ Len(v) = Len(u) - d
        /\ \A i \in 1 .. Len(u) - d : v[i] = u[d + i] /\ d + i \in 1 .. Len(u)
    <3>1. CASE ring' = SubSeq(u, d + 1, Len(u))
      BY <1>1, <2>5, <2>7, <2>8, <3>1, SubSeqProperties
    <3>2. CASE d = 0 /\ ring' = u
      BY <1>1, <2>5, <2>8, <3>2
    <3> QED
      BY <2>7, <3>1, <3>2
  <2>10. RingIsWindow'
    <3>1. Len(v) <= Capacity
      BY <2>7, <2>9
    <3>2. clearedThrough + Len(v) <= ringSeq + Len(batch)
      BY <1>1, <2>5, <2>7, <2>9
    <3>3. ASSUME NEW i \in 1 .. Len(v) PROVE v[i].seq = ringSeq' - Len(v) + i
      <4>1. i \in 1 .. Len(u) - d /\ v[i] = u[d + i] /\ d + i \in 1 .. Len(u)
        BY <2>9
      <4>2. v[i].seq = ringSeq - Len(ring) + (d + i)
        BY <2>6, <4>1
      <4>3. i \in Int /\ d \in Int
        BY <2>7, <2>9
      <4>4. /\ Len(v) = Len(ring) + Len(batch) - d /\ ringSeq' = ringSeq + Len(batch)
            /\ Len(ring) \in Int /\ Len(batch) \in Int /\ ringSeq \in Int
        BY <1>1, <2>1, <2>5, <2>9
      <4> QED
        BY <4>1, <4>2, <4>3, <4>4
    <3>4. UNCHANGED clearedThrough /\ ringSeq' = ringSeq + Len(batch) /\ ring' = v
      BY <2>1, <2>8
    <3>5. Len(ring)' <= Capacity /\ clearedThrough' + Len(ring)' <= ringSeq'
      BY <3>1, <3>2, <3>4
    <3>6. \A i \in 1 .. Len(ring)' : ring'[i].seq = ringSeq' - Len(ring)' + i
      BY <2>8, <3>3, Zenon
    <3> QED
      BY <3>5, <3>6 DEF RingIsWindow
  <2>11. Ids(v) \subseteq Ids(ring) \cup Elements(batch)
    <3> SUFFICES ASSUME NEW i \in DOMAIN v PROVE v[i].id \in Ids(ring) \cup Elements(batch)
      BY DEF Ids
    <3>1. i \in 1 .. Len(u) - d
      BY <2>9
    <3> QED
      BY <2>6, <2>9, <3>1
  <2> QED
    BY <1>1, <1>3, <2>1, <2>8, <2>9, <2>10, <2>11
<1> QED
  BY <1>2, <1>3

\* What a page of the ring holds: the records behind a number, with no hole,
\* and the gap before them as far as no clear made it.
LEMMA ListedPage ==
    ASSUME ConsoleShapes, RingIsWindow, NEW after \in Nat, NEW page, page = List(after, PageSize)
    PROVE  /\ page.rows \in Seq(RingRecord) /\ page.more \in BOOLEAN
           /\ page.lost \in SUBSET Nat /\ IsFiniteSet(page.lost)
           /\ Rising(page.rows) /\ \A s \in Seqs(page.rows) : after < s
           /\ \A s \in page.lost : after < s /\ \A r \in Seqs(page.rows) : s < r
           /\ page.rows # <<>> =>
                  \A s \in Nat : after < s /\ clearedThrough < s /\ s <= page.rows[Len(page.rows)].seq =>
                      s \in page.lost \cup Seqs(page.rows)
<1>1. /\ ring \in Seq(RingRecord) /\ ringSeq \in Nat /\ clearedThrough \in Nat /\ Len(ring) \in Nat
      /\ DOMAIN ring = 1 .. Len(ring) /\ \A i \in 1 .. Len(ring) : ring[i] \in RingRecord
  <2>1. ring \in Seq(RingRecord) /\ ringSeq \in Nat /\ clearedThrough \in Nat
    BY DEF ConsoleShapes
  <2> QED
    BY <2>1
<1>2. PICK first \in Nat : /\ first = ringSeq - Len(ring)
                           /\ \A i \in 1 .. Len(ring) : ring[i].seq = first + i
  <2>1. clearedThrough + Len(ring) <= ringSeq /\ \A i \in 1 .. Len(ring) : ring[i].seq = ringSeq - Len(ring) + i
    BY DEF RingIsWindow
  <2>2. PICK low \in Nat : low = ringSeq - Len(ring)
    <3>1. Len(ring) \in Nat /\ ringSeq \in Nat /\ clearedThrough \in Nat /\ clearedThrough + Len(ring) <= ringSeq
      BY <1>1, <2>1
    <3>2. Len(ring) <= ringSeq
      BY <3>1
    <3>3. ringSeq - Len(ring) \in Nat
      BY <3>1, <3>2
    <3> QED
      BY <3>3
  <2>3. \A i \in 1 .. Len(ring) : ring[i].seq = low + i
    BY <2>1, <2>2
  <2> QED
    BY <2>2, <2>3
<1>3. PICK at \in SUBSET (1 .. Len(ring)) : at = {i \in DOMAIN ring : ring[i].seq > after}
  BY <1>1
<1>4. PICK fresh : fresh = Pick(ring, at)
  OBVIOUS
<1>5. fresh \in Seq(RingRecord)
  BY <1>1, <1>3, <1>4, PickOf
<1>6. PICK f : Enumerates(f, fresh, ring, at)
  BY <1>1, <1>3, <1>4, PickOf
<1>7. PICK n \in Nat : n = Len(fresh) /\ DOMAIN fresh = 1 .. n
  BY <1>5
<1>8. /\ \A k \in 1 .. n : f[k] \in at /\ f[k] \in 1 .. Len(ring) /\ fresh[k] = ring[f[k]] /\ fresh[k] \in RingRecord
      /\ \A k, l \in 1 .. n : k < l => f[k] < f[l]
      /\ \A i \in at : \E k \in 1 .. n : f[k] = i
  <2>1. /\ \A k \in 1 .. n : f[k] \in at /\ fresh[k] = ring[f[k]]
        /\ \A k, l \in 1 .. n : k < l => f[k] < f[l]
        /\ \A i \in at : \E k \in 1 .. n : f[k] = i
    BY <1>6, <1>7 DEF Enumerates
  <2>2. \A k \in 1 .. n : fresh[k] \in RingRecord
    BY <1>5, <1>7
  <2>3. \A k \in 1 .. n : f[k] \in 1 .. Len(ring)
    BY <1>3, <2>1
  <2> QED
    BY <2>1, <2>2, <2>3
<1>9. \A k \in 1 .. n : fresh[k].seq = first + f[k] /\ fresh[k].seq > after
  BY <1>2, <1>3, <1>8
<1>10. PICK m \in 0 .. n : /\ page.rows = Oldest(fresh, PageSize)
                           /\ page.rows \in Seq(RingRecord) /\ Len(page.rows) = m
                           /\ \A k \in 1 .. m : page.rows[k] = fresh[k]
  <2>1. page.rows = Oldest(fresh, PageSize)
    BY <1>3, <1>4 DEF List
  <2>2. PageSize \in Nat
    BY ConsolePageSize
  <2>3. CASE n > PageSize
    BY <1>7, <1>8, <2>1, <2>2, <2>3, SubSeqProperties DEF Oldest
  <2>4. CASE ~ (n > PageSize)
    BY <1>5, <1>7, <2>1, <2>4 DEF Oldest
  <2> QED
    BY <2>3, <2>4
<1>11. PICK rows : rows = page.rows
  OBVIOUS
<1>12. /\ rows \in Seq(RingRecord) /\ Len(rows) = m /\ DOMAIN rows = 1 .. m
       /\ \A k \in 1 .. m : k \in 1 .. n /\ rows[k].seq = first + f[k] /\ rows[k].seq > after
  BY <1>9, <1>10, <1>11
<1>13. \A k \in 1 .. n : f[k] \in Nat /\ f[k] >= 1 /\ f[k] <= Len(ring)
  BY <1>1, <1>8
<1>14. Rising(rows) /\ \A s \in Seqs(rows) : after < s /\ s > first
  <2>1. ASSUME NEW i \in 1 .. m, NEW j \in 1 .. m, i < j PROVE rows[i].seq < rows[j].seq
    <3>1. i \in 1 .. n /\ j \in 1 .. n /\ rows[i].seq = first + f[i] /\ rows[j].seq = first + f[j]
      BY <1>12
    <3>2. f[i] < f[j] /\ f[i] \in Nat /\ f[j] \in Nat
      BY <1>8, <1>13, <2>1, <3>1
    <3> QED
      BY <3>1, <3>2
  <2>2. \A i \in 1 .. m : rows[i].seq > after /\ rows[i].seq > first
    BY <1>12, <1>13
  <2> QED
    BY <1>12, <2>1, <2>2 DEF Rising, Seqs
<1>15. PICK floor \in Nat : floor = LaterOf(after, clearedThrough) /\ after <= floor
                            /\ (floor = after \/ floor = clearedThrough) /\ clearedThrough <= floor
  BY <1>1 DEF LaterOf
<1>16. page.lost = IF ring = <<>> THEN {} ELSE floor + 1 .. ring[1].seq - 1
  BY <1>15 DEF List
<1>17. CASE ring = <<>>
  <2>1. page.lost = {} /\ n = 0
    BY <1>8, <1>16, <1>17
  <2>2. rows = <<>>
    BY <1>12, <2>1
  <2> QED
    <3>1. page.more \in BOOLEAN
      BY DEF List
    <3>2. IsFiniteSet(page.lost) /\ page.lost \in SUBSET Nat
      BY <2>1, FS_EmptySet
    <3> QED
      BY <1>10, <1>11, <1>14, <2>1, <2>2, <3>1, <3>2
<1>18. CASE ring # <<>>
  <2>1. ring[1].seq = first + 1 /\ Len(ring) >= 1
    BY <1>1, <1>2, <1>18
  <2>2. page.lost = floor + 1 .. first
    BY <1>2, <1>16, <1>18, <2>1
  <2>3. page.lost \in SUBSET Nat /\ IsFiniteSet(page.lost)
    <3>1. floor + 1 \in Int /\ first \in Int /\ floor + 1 .. first \in SUBSET Nat
      BY <1>2, <1>15
    <3> QED
      BY <2>2, <3>1, FS_Interval
  <2>4. \A s \in page.lost : after < s /\ \A r \in Seqs(rows) : s < r
    <3>1. ASSUME NEW s \in page.lost, NEW r \in Seqs(rows) PROVE s < r
      <4>1. s \in Nat /\ s <= first
        BY <1>2, <1>15, <2>2
      <4>2. PICK k \in 1 .. m : r = first + f[k] /\ f[k] \in Nat /\ f[k] >= 1
        BY <1>12, <1>13 DEF Seqs
      <4> QED
        BY <1>2, <4>1, <4>2
    <3>2. ASSUME NEW s \in page.lost PROVE after < s
      BY <1>2, <1>15, <2>2
    <3> QED
      BY <3>1, <3>2
  <2>5. ASSUME rows # <<>>, NEW s \in Nat, after < s, clearedThrough < s, s <= rows[m].seq
        PROVE  s \in page.lost \cup Seqs(rows)
    <3>1. m >= 1 /\ m \in 1 .. m /\ rows[m].seq = first + f[m]
      BY <1>12, <2>5
    <3>2. CASE s <= first
      BY <1>2, <1>15, <2>2, <2>5, <3>2
    <3>3. CASE s > first
      <4>1. PICK j \in Nat : s = first + j /\ j >= 1
        <5>1. s - first \in Nat /\ s = first + (s - first) /\ s - first >= 1
          BY <1>2, <3>3
        <5> QED
          BY <5>1
      <4>2. j <= f[m] /\ f[m] <= Len(ring) /\ f[m] \in Nat
        BY <1>2, <1>12, <1>13, <2>5, <3>1, <4>1
      <4>3. j \in 1 .. Len(ring) /\ ring[j].seq = s
        BY <1>1, <1>2, <4>1, <4>2
      <4>4. j \in at
        BY <1>1, <1>3, <2>5, <4>3
      <4>5. PICK k \in 1 .. n : f[k] = j
        BY <1>8, <4>4
      <4>6. k <= m
        BY <1>8, <1>12, <1>13, <3>1, <4>2, <4>5
      <4>7. k \in DOMAIN rows /\ rows[k].seq = s
        BY <1>12, <4>1, <4>5, <4>6
      <4> QED
        BY <4>7 DEF Seqs
    <3> QED
      BY <1>2, <3>2, <3>3
  <2>6. page.more \in BOOLEAN
    BY DEF List
  <2> QED
    BY <1>10, <1>11, <1>12, <1>14, <2>3, <2>4, <2>5, <2>6
<1> QED
  BY <1>17, <1>18

-----------------------------------------------------------------------------
LEMMA EmptyHands ==
    /\ NoDrain \in [pc : {"idle", "answered"}, batch : Seq(Nat), gen : Nat]
    /\ NoDrain.pc = "idle" /\ NoDrain.batch = <<>> /\ NoDrain.gen = 0
    /\ NoEvent \in [pc : {"idle", "epoch"}, id : Nat, epoch : Nat] /\ NoEvent.pc = "idle" /\ NoEvent.epoch = 0
    /\ NoTick \in [pc : {"idle", "epoch", "batch"}, batch : Seq(Nat), epoch : Nat]
    /\ NoTick.pc = "idle" /\ NoTick.batch = <<>> /\ NoTick.epoch = 0
    /\ NoClear \in [pc : {"idle", "page", "feeder", "answered"}, by : {"panel", "agent"}, ids : SUBSET Nat]
    /\ NoClear.pc = "idle" /\ NoClear.ids = {}
    /\ NoPoll \in [pc : {"idle", "answered"}, epoch : Nat, rows : Seq(RingRecord), more : BOOLEAN, lost : SUBSET Nat]
    /\ NoPoll.pc = "idle" /\ NoPoll.epoch = 0
    /\ Elements(<<>>) = {}
<1>1. <<>> \in Seq(Nat) /\ <<>> \in Seq(RingRecord) /\ {} \in SUBSET Nat
  OBVIOUS
<1>2. NoDrain \in [pc : {"idle", "answered"}, batch : Seq(Nat), gen : Nat]
      /\ NoDrain.pc = "idle" /\ NoDrain.batch = <<>> /\ NoDrain.gen = 0
  BY <1>1 DEF NoDrain
<1>3. NoEvent \in [pc : {"idle", "epoch"}, id : Nat, epoch : Nat] /\ NoEvent.pc = "idle" /\ NoEvent.epoch = 0
  BY DEF NoEvent
<1>4. NoTick \in [pc : {"idle", "epoch", "batch"}, batch : Seq(Nat), epoch : Nat]
      /\ NoTick.pc = "idle" /\ NoTick.batch = <<>> /\ NoTick.epoch = 0
  BY <1>1 DEF NoTick
<1>5. NoClear \in [pc : {"idle", "page", "feeder", "answered"}, by : {"panel", "agent"}, ids : SUBSET Nat]
      /\ NoClear.pc = "idle" /\ NoClear.ids = {}
  BY <1>1 DEF NoClear
<1>6. NoPoll \in [pc : {"idle", "answered"}, epoch : Nat, rows : Seq(RingRecord), more : BOOLEAN, lost : SUBSET Nat]
      /\ NoPoll.pc = "idle" /\ NoPoll.epoch = 0
  BY <1>1 DEF NoPoll
<1>7. Elements(<<>>) = {}
  BY DEF Elements
<1> QED
  BY <1>2, <1>3, <1>4, <1>5, <1>6, <1>7

LEMMA ConsoleInitially == ConsoleInit => ConsoleInv
<1> SUFFICES ASSUME ConsoleInit PROVE ConsoleInv
  OBVIOUS
<1>1. /\ born = 0 /\ buffer = <<>> /\ drain = NoDrain /\ feederGen = 0
      /\ pending = <<>> /\ events = <<>> /\ handler = NoEvent /\ collector = NoTick
      /\ ring = <<>> /\ ringSeq = 0 /\ ringEpoch = 0 /\ clearedThrough = 0
      /\ clear = NoClear /\ poll = NoPoll
      /\ told = {} /\ wiped = {} /\ base = 0 /\ doomed = {} /\ clears = 0
  BY DEF ConsoleInit
<1>2. /\ panel \in [marker : Nat, epoch : Nat, rows : Seq(RingRecord), dropped : Nat]
      /\ panel.marker = 0 /\ panel.epoch = 0 /\ panel.rows = <<>> /\ panel.dropped = 0
  BY DEF ConsoleInit
<1>3. ConsoleShapes
  BY <1>1, <1>2, EmptyHands DEF ConsoleShapes
<1>4. EpochsOK /\ IdsOK
  BY <1>1, <1>2, EmptyHands DEF Ids, Handled, FreshDrain, Clearing, InRing, EpochsOK, IdsOK
<1>5. RingIsWindow
  BY <1>1, ConsoleCapacity DEF RingIsWindow
<1>6. GoneOK
  BY <1>1 DEF GoneOK
<1>7. PanelOK
  BY <1>1, <1>2, FS_EmptySet DEF Seqs, Rising, PanelOK
<1>8. PollOK
  BY <1>1, EmptyHands DEF PollOK
<1> QED
  BY <1>3, <1>4, <1>5, <1>6, <1>7, <1>8 DEF ConsoleInv

LEMMA ViewKept ==
    ASSUME ConsoleInv, UNCHANGED <<panel, poll, told, base, clearedThrough, wiped>>
    PROVE  PanelOK' /\ PollOK'
  BY DEF ConsoleInv, PanelOK, PollOK, Seqs, Rising

LEMMA Parts ==
    ASSUME ConsoleInv
    PROVE  ConsoleShapes /\ EpochsOK /\ RingIsWindow /\ IdsOK /\ GoneOK /\ PanelOK /\ PollOK
  BY DEF ConsoleInv

\* A record is born: it is where none of the others is.
LEMMA BirthKeeps == ASSUME ConsoleInv, PageRecord \/ CoreRecord PROVE ConsoleInv'
<1>1. /\ ConsoleShapes /\ EpochsOK /\ RingIsWindow /\ IdsOK /\ GoneOK
      /\ UNCHANGED <<drain, feederGen, pending, handler, collector, ring, ringSeq, ringEpoch, clearedThrough,
                     clear, panel, poll, told, base, wiped, doomed, clears>>
      /\ born' = born + 1 /\ born \in Nat
  BY Parts DEF PageRecord, CoreRecord, log, reader, ConsoleShapes
<1>2. PICK x \in Nat : x = born + 1 /\ ~ (x <= born)
  BY <1>1
<1>3. UNCHANGED <<InRing, FreshDrain, Clearing>> /\ Elements(drain.batch)' = Elements(drain.batch)
      /\ Elements(pending)' = Elements(pending) /\ RingIsWindow' /\ GoneOK' /\ EpochsOK'
  BY <1>1 DEF InRing, Ids, Handled, FreshDrain, Clearing, Elements, RingIsWindow, GoneOK, EpochsOK
<1>4. PanelOK' /\ PollOK'
  BY <1>1, ViewKept
<1>5. \A id \in Elements(buffer) \cup Elements(drain.batch) \cup Elements(pending) \cup Elements(events)
                  \cup InRing \cup doomed \cup clear.ids : id <= x /\ id # x
  <2>1. Elements(buffer) \cup Elements(drain.batch) \cup Elements(pending) \cup Elements(events)
                  \cup InRing \cup doomed \cup clear.ids \subseteq Nat
    <3>1. /\ buffer \in Seq(Nat) /\ drain.batch \in Seq(Nat) /\ pending \in Seq(Nat) /\ events \in Seq(Nat)
          /\ collector.batch \in Seq(Nat) /\ doomed \in SUBSET Nat /\ clear.ids \in SUBSET Nat
      BY <1>1 DEF ConsoleShapes
    <3>2. ring \in Seq(RingRecord) /\ handler.id \in Nat
      BY <1>1 DEF ConsoleShapes
    <3>3. Ids(ring) \subseteq Nat
      <4>1. \A i \in DOMAIN ring : ring[i] \in RingRecord
        BY <3>2
      <4> QED
        BY <4>1 DEF Ids, RingRecord
    <3>4. InRing \subseteq Nat
      BY <3>1, <3>2, <3>3, ElementsIn DEF InRing, Handled
    <3> QED
      BY <3>1, <3>4, ElementsIn
  <2> QED
    BY <1>1, <1>2, <2>1 DEF IdsOK
<1>6. Clearing \subseteq clear.ids /\ FreshDrain \subseteq Elements(drain.batch)
  BY DEF Clearing, FreshDrain
<1>7. CASE PageRecord
  <2>1. buffer' = Append(buffer, x) /\ UNCHANGED events
    BY <1>2, <1>7 DEF PageRecord
  <2>2. buffer' \in Seq(Nat) /\ Elements(buffer)' = Elements(buffer) \cup {x} /\ Elements(events)' = Elements(events)
    <3>1. buffer \in Seq(Nat)
      BY <1>1 DEF ConsoleShapes
    <3> QED
      BY <1>2, <2>1, <3>1, ElementsAppended
  <2>3. IdsOK'
    BY <1>1, <1>2, <1>3, <1>5, <1>6, <2>1, <2>2 DEF IdsOK
  <2>4. ConsoleShapes'
    BY <1>1, <1>2, <2>1, <2>2 DEF ConsoleShapes
  <2> QED
    BY <1>3, <1>4, <2>3, <2>4 DEF ConsoleInv
<1>8. CASE CoreRecord
  <2>1. events' = Append(events, x) /\ UNCHANGED buffer
    BY <1>2, <1>8 DEF CoreRecord
  <2>2. events' \in Seq(Nat) /\ Elements(events)' = Elements(events) \cup {x} /\ Elements(buffer)' = Elements(buffer)
    <3>1. events \in Seq(Nat)
      BY <1>1 DEF ConsoleShapes
    <3> QED
      BY <1>2, <2>1, <3>1, ElementsAppended
  <2>3. \A i, j \in DOMAIN events' : i # j => events'[i] # events'[j]
    <3>1. PICK u : u = events'
      OBVIOUS
    <3>2. /\ DOMAIN u = 1 .. Len(events) + 1 /\ DOMAIN events = 1 .. Len(events) /\ Len(events) \in Nat
          /\ u[Len(events) + 1] = x /\ \A i \in 1 .. Len(events) : u[i] = events[i]
      <4>1. events \in Seq(Nat)
        BY <1>1 DEF ConsoleShapes
      <4> QED
        BY <2>1, <3>1, <4>1
    <3>3. \A i \in DOMAIN events : events[i] # x
      BY <1>5 DEF Elements
    <3>4. \A i, j \in DOMAIN u : i # j => u[i] # u[j]
      BY <1>1, <3>2, <3>3 DEF IdsOK
    <3> QED
      BY <3>1, <3>4
  <2>4. IdsOK'
    BY <1>1, <1>2, <1>3, <1>5, <1>6, <2>1, <2>2, <2>3 DEF IdsOK
  <2>5. ConsoleShapes'
    BY <1>1, <1>2, <2>1, <2>2 DEF ConsoleShapes
  <2> QED
    BY <1>3, <1>4, <2>4, <2>5 DEF ConsoleInv
<1> QED
  BY <1>7, <1>8

\* The feeder's loop: a page asked for before a clear is not stored after it.
LEMMA DrainKeepsIds == ASSUME ConsoleInv, DrainAnswer \/ DrainStore PROVE ConsoleInv'
<1>1. /\ ConsoleShapes /\ EpochsOK /\ RingIsWindow /\ IdsOK /\ GoneOK
      /\ UNCHANGED <<born, feederGen, events, handler, collector, ring, ringSeq, ringEpoch, clearedThrough,
                     clear, panel, poll, told, base, wiped, doomed, clears>>
      /\ buffer \in Seq(Nat) /\ pending \in Seq(Nat) /\ drain.batch \in Seq(Nat) /\ drain.gen \in Nat /\ feederGen \in Nat
  BY Parts DEF DrainAnswer, DrainStore, log, reader, ConsoleShapes
<1>2. UNCHANGED <<InRing, Clearing>> /\ Elements(events)' = Elements(events)
      /\ RingIsWindow' /\ GoneOK'
  BY <1>1 DEF InRing, Ids, Handled, Clearing, Elements, RingIsWindow, GoneOK
<1>3. PanelOK' /\ PollOK'
  BY <1>1, ViewKept
<1>4. CASE DrainAnswer
  <2>1. UNCHANGED <<buffer, pending>> /\ drain' = [pc |-> "answered", batch |-> buffer, gen |-> feederGen]
    BY <1>4 DEF DrainAnswer
  <2>2. /\ drain' \in [pc : {"idle", "answered"}, batch : Seq(Nat), gen : Nat]
        /\ drain'.batch = buffer /\ drain'.gen = feederGen
    BY <1>1, <2>1
  <2>3. Elements(drain.batch)' = Elements(buffer) /\ FreshDrain' \subseteq Elements(buffer)
    BY <2>1, <2>2 DEF FreshDrain
  <2>4. Elements(buffer)' = Elements(buffer) /\ Elements(pending)' = Elements(pending)
    BY <2>1
  <2>5. IdsOK'
    BY <1>1, <1>2, <2>3, <2>4 DEF IdsOK
  <2>6. ConsoleShapes' /\ EpochsOK'
    <3>1. ConsoleShapes'
      BY <1>1, <2>1, <2>2 DEF ConsoleShapes
    <3>2. EpochsOK'
      BY <1>1, <2>2 DEF EpochsOK
    <3> QED
      BY <3>1, <3>2
  <2> QED
    BY <1>2, <1>3, <2>5, <2>6 DEF ConsoleInv
<1>5. CASE DrainStore
  <2>1. drain' = NoDrain /\ drain.pc = "answered"
    BY <1>5 DEF DrainStore
  <2>2. Elements(drain.batch)' = {} /\ FreshDrain' = {}
    BY <2>1, EmptyHands DEF FreshDrain
  <2>3. /\ buffer' \in Seq(Nat) /\ pending' \in Seq(Nat)
        /\ Elements(buffer)' \subseteq Elements(buffer)
        /\ Elements(pending)' \subseteq Elements(pending) \cup FreshDrain
        /\ Elements(buffer)' \cap Elements(pending)' = {}
    <3>1. CASE drain.gen = feederGen
      <4>1. FreshDrain = Elements(drain.batch)
        BY <2>1, <3>1 DEF FreshDrain
      <4>2. pending' = pending \o drain.batch
            /\ buffer' = Pick(buffer, {i \in DOMAIN buffer : buffer[i] \notin Elements(drain.batch)})
        BY <1>5, <3>1 DEF DrainStore
      <4>3. pending' \in Seq(Nat) /\ Elements(pending') = Elements(pending) \cup Elements(drain.batch)
        BY <1>1, <4>2, ElementsJoined
      <4>4. PICK at : at = {i \in DOMAIN buffer : buffer[i] \notin Elements(drain.batch)}
        OBVIOUS
      <4>5. buffer' \in Seq(Nat) /\ Elements(buffer') = {buffer[i] : i \in at}
        BY <1>1, <4>2, <4>4, ElementsPicked
      <4>6. Elements(buffer') \subseteq Elements(buffer) /\ Elements(buffer') \cap Elements(drain.batch) = {}
        <5>1. {buffer[i] : i \in at} \subseteq {buffer[i] : i \in DOMAIN buffer}
              /\ {buffer[i] : i \in at} \cap Elements(drain.batch) = {}
          BY <4>4
        <5> QED
          BY <4>5, <5>1 DEF Elements
      <4>7. Elements(buffer) \cap Elements(pending) = {}
        BY <1>1 DEF IdsOK
      <4> QED
        BY <4>1, <4>3, <4>5, <4>6, <4>7
    <3>2. CASE drain.gen # feederGen
      BY <1>1, <1>5, <3>2 DEF DrainStore, IdsOK
    <3> QED
      BY <3>1, <3>2
  <2>4. FreshDrain \subseteq Elements(drain.batch)
    BY DEF FreshDrain
  <2>5. IdsOK'
    BY <1>1, <1>2, <2>2, <2>3, <2>4 DEF IdsOK
  <2>6. ConsoleShapes' /\ EpochsOK'
    <3>1. ConsoleShapes'
      BY <1>1, <2>1, <2>3, EmptyHands DEF ConsoleShapes
    <3>2. EpochsOK'
      BY <1>1, <2>1, EmptyHands DEF EpochsOK
    <3> QED
      BY <3>1, <3>2
  <2> QED
    BY <1>2, <1>3, <2>5, <2>6 DEF ConsoleInv
<1> QED
  BY <1>4, <1>5

LEMMA CollectorTakeKeeps == ASSUME ConsoleInv, CollectorTake PROVE ConsoleInv'
<1>1. /\ ConsoleShapes /\ EpochsOK /\ RingIsWindow /\ IdsOK /\ GoneOK
      /\ UNCHANGED <<born, buffer, drain, feederGen, events, handler, ring, ringSeq, ringEpoch, clearedThrough,
                     clear, panel, poll, told, base, wiped, doomed, clears>>
      /\ pending \in Seq(Nat) /\ ringEpoch \in Nat
      /\ collector \in [pc : {"idle", "epoch", "batch"}, batch : Seq(Nat), epoch : Nat]
  BY Parts DEF CollectorTake, source, log, reader, ConsoleShapes
<1>2. UNCHANGED <<FreshDrain, Clearing, Handled, Ids(ring)>> /\ RingIsWindow'
      /\ Elements(buffer)' = Elements(buffer) /\ Elements(drain.batch)' = Elements(drain.batch)
      /\ Elements(events)' = Elements(events)
  BY <1>1 DEF Ids, Handled, FreshDrain, Clearing, Elements, RingIsWindow
<1>3. PanelOK' /\ PollOK'
  BY <1>1, ViewKept
<1>4. PICK new : new = collector'
  OBVIOUS
<1>5. CASE collector.pc = "idle"
  <2>1. UNCHANGED pending /\ new = [NoTick EXCEPT !.pc = "epoch", !.epoch = ringEpoch]
    BY <1>4, <1>5 DEF CollectorTake, source
  <2>2. new \in [pc : {"idle", "epoch", "batch"}, batch : Seq(Nat), epoch : Nat]
        /\ new.pc = "epoch" /\ new.batch = <<>> /\ new.epoch = ringEpoch
    <3>1. <<>> \in Seq(Nat)
      OBVIOUS
    <3> QED
      BY <1>1, <2>1, <3>1 DEF NoTick
  <2>3. Elements(collector.batch) = {} /\ Elements(new.batch) = {} /\ Elements(pending)' = Elements(pending)
    BY <1>1, <1>5, <2>1, <2>2, EmptyHands DEF EpochsOK
  <2>4. InRing' = InRing
    BY <1>2, <1>4, <2>3 DEF InRing
  <2>5. IdsOK'
    BY <1>1, <1>2, <2>3, <2>4 DEF IdsOK
  <2>6. GoneOK'
    BY <1>1, <1>2, <1>4, <2>3 DEF GoneOK
  <2>7. ConsoleShapes'
    <3>1. collector' \in [pc : {"idle", "epoch", "batch"}, batch : Seq(Nat), epoch : Nat]
      BY <1>4, <2>2
    <3> QED
      BY <1>1, <2>1, <3>1 DEF ConsoleShapes
  <2>8. EpochsOK'
    BY <1>1, <1>4, <2>2 DEF EpochsOK
  <2> QED
    BY <1>2, <1>3, <2>5, <2>6, <2>7, <2>8 DEF ConsoleInv
<1>6. CASE collector.pc = "epoch"
  <2>1. pending' = <<>> /\ new = [collector EXCEPT !.pc = "batch", !.batch = pending]
    BY <1>4, <1>6 DEF CollectorTake
  <2>2. new \in [pc : {"idle", "epoch", "batch"}, batch : Seq(Nat), epoch : Nat]
        /\ new.pc = "batch" /\ new.batch = pending /\ new.epoch = collector.epoch
    BY <1>1, <2>1
  <2>3. Elements(collector.batch) = {} /\ Elements(new.batch) = Elements(pending) /\ Elements(pending)' = {}
    BY <1>1, <1>6, <2>1, <2>2, EmptyHands DEF EpochsOK
  <2>4. InRing' = InRing \cup Elements(pending)
    BY <1>2, <1>4, <2>3 DEF InRing
  <2>5. IdsOK'
    BY <1>1, <1>2, <2>3, <2>4 DEF IdsOK
  <2>6. GoneOK'
    BY <1>1, <1>2, <1>4, <2>3 DEF GoneOK, IdsOK
  <2>7. ConsoleShapes'
    <3>1. collector' \in [pc : {"idle", "epoch", "batch"}, batch : Seq(Nat), epoch : Nat]
      BY <1>4, <2>2
    <3>2. pending' \in Seq(Nat)
      BY <2>1
    <3> QED
      BY <1>1, <3>1, <3>2 DEF ConsoleShapes
  <2>8. EpochsOK'
    BY <1>1, <1>4, <2>2 DEF EpochsOK
  <2> QED
    BY <1>2, <1>3, <2>5, <2>6, <2>7, <2>8 DEF ConsoleInv
<1> QED
  BY <1>5, <1>6 DEF CollectorTake

\* A producer that appends what it holds: nothing of an epoch that is over.
LEMMA CollectorAppendKeeps == ASSUME ConsoleInv, CollectorAppend PROVE ConsoleInv'
<1>1. /\ ConsoleShapes /\ EpochsOK /\ RingIsWindow /\ IdsOK /\ GoneOK
      /\ UNCHANGED <<born, buffer, drain, feederGen, pending, events, handler,
                     clear, panel, poll, told, base, wiped, doomed, clears>>
      /\ collector' = NoTick /\ AppendToRing(collector.batch, collector.epoch)
      /\ collector.batch \in Seq(Nat) /\ collector.epoch \in Nat
  BY Parts DEF CollectorAppend, source, reader, ConsoleShapes
<1>2. /\ ring' \in Seq(RingRecord) /\ ringSeq' \in Nat /\ RingIsWindow'
      /\ UNCHANGED <<ringEpoch, clearedThrough>>
      /\ collector.epoch # ringEpoch => UNCHANGED ring
      /\ Ids(ring') \subseteq Ids(ring) \cup Elements(collector.batch)
  BY <1>1, RingTakes
<1>3. UNCHANGED <<FreshDrain, Clearing, Handled>>
      /\ Elements(buffer)' = Elements(buffer) /\ Elements(drain.batch)' = Elements(drain.batch)
      /\ Elements(events)' = Elements(events) /\ Elements(pending)' = Elements(pending)
  BY <1>1 DEF Handled, FreshDrain, Clearing, Elements
<1>4. PanelOK' /\ PollOK'
  BY <1>1, <1>2, ViewKept
<1>5. Elements(collector.batch)' = {}
  BY <1>1, EmptyHands
<1>6. InRing' \subseteq InRing
  BY <1>2, <1>3, <1>5 DEF InRing
<1>7. IdsOK'
  BY <1>1, <1>3, <1>6 DEF IdsOK
<1>8. GoneOK'
  BY <1>1, <1>2, <1>3, <1>5 DEF GoneOK
<1>9. ConsoleShapes'
  BY <1>1, <1>2, EmptyHands DEF ConsoleShapes
<1>10. EpochsOK'
  BY <1>1, <1>2, EmptyHands DEF EpochsOK, ConsoleShapes
<1> QED
  BY <1>2, <1>4, <1>7, <1>8, <1>9, <1>10 DEF ConsoleInv

LEMMA EventTakeKeeps == ASSUME ConsoleInv, EventTake PROVE ConsoleInv'
<1>1. /\ ConsoleShapes /\ EpochsOK /\ RingIsWindow /\ IdsOK /\ GoneOK
      /\ UNCHANGED <<born, buffer, drain, feederGen, pending, collector, ring, ringSeq, ringEpoch, clearedThrough,
                     clear, panel, poll, told, base, wiped, doomed, clears>>
      /\ handler.pc = "idle" /\ events # <<>> /\ events' = Tail(events)
      /\ events \in Seq(Nat) /\ ringEpoch \in Nat
  BY Parts DEF EventTake, log, reader, ConsoleShapes
<1>2. PICK first : first = Head(events)
  OBVIOUS
<1>3. /\ events' \in Seq(Nat) /\ first \in Nat /\ first \in Elements(events)
      /\ Elements(events') \subseteq Elements(events)
      /\ \A i, j \in DOMAIN events' : i # j => events'[i] # events'[j]
      /\ first \notin Elements(events')
  <2>1. \A i, j \in DOMAIN events : i # j => events[i] # events[j]
    BY <1>1 DEF IdsOK
  <2>2. PICK t : t = Tail(events)
    OBVIOUS
  <2>3. /\ t \in Seq(Nat) /\ first \in Nat /\ first \in Elements(events)
        /\ Elements(t) \subseteq Elements(events)
        /\ \A i, j \in DOMAIN t : i # j => t[i] # t[j]
        /\ first \notin Elements(t)
    BY <1>1, <1>2, <2>1, <2>2, ElementsTail
  <2> QED
    BY <1>1, <2>2, <2>3
<1>4. /\ handler' \in [pc : {"idle", "epoch"}, id : Nat, epoch : Nat]
      /\ handler'.pc = "epoch" /\ handler'.id = first /\ handler'.epoch = ringEpoch
  BY <1>1, <1>2, <1>3 DEF EventTake
<1>5. UNCHANGED <<FreshDrain, Clearing, Ids(ring)>> /\ RingIsWindow'
      /\ Elements(buffer)' = Elements(buffer) /\ Elements(drain.batch)' = Elements(drain.batch)
      /\ Elements(pending)' = Elements(pending) /\ Elements(collector.batch)' = Elements(collector.batch)
  BY <1>1 DEF Ids, FreshDrain, Clearing, Elements, RingIsWindow
<1>6. Handled = {} /\ Handled' = {first}
  BY <1>1, <1>4 DEF Handled
<1>7. InRing' = InRing \cup {first}
  BY <1>5, <1>6 DEF InRing
<1>8. PanelOK' /\ PollOK'
  BY <1>1, ViewKept
<1>9. IdsOK'
  BY <1>1, <1>3, <1>5, <1>7 DEF IdsOK, FreshDrain
<1>10. GoneOK'
  BY <1>1, <1>3, <1>5, <1>6 DEF GoneOK, IdsOK
<1>11. ConsoleShapes'
  BY <1>1, <1>3, <1>4 DEF ConsoleShapes
<1>12. EpochsOK'
  BY <1>1, <1>4 DEF EpochsOK
<1> QED
  BY <1>5, <1>8, <1>9, <1>10, <1>11, <1>12 DEF ConsoleInv

LEMMA EventAppendKeeps == ASSUME ConsoleInv, EventAppend PROVE ConsoleInv'
<1>1. /\ ConsoleShapes /\ EpochsOK /\ RingIsWindow /\ IdsOK /\ GoneOK
      /\ UNCHANGED <<born, buffer, drain, feederGen, pending, events, collector,
                     clear, panel, poll, told, base, wiped, doomed, clears>>
      /\ handler' = NoEvent /\ handler.pc = "epoch" /\ handler.id \in Nat /\ handler.epoch \in Nat
  BY Parts DEF EventAppend, source, reader, ConsoleShapes
<1>2. PICK batch : batch = <<handler.id>>
  OBVIOUS
<1>3. batch \in Seq(Nat) /\ Elements(batch) = Handled /\ AppendToRing(batch, handler.epoch)
  <2>1. batch \in Seq(Nat) /\ AppendToRing(batch, handler.epoch)
    BY <1>1, <1>2 DEF EventAppend
  <2>2. Elements(batch) = {handler.id}
    BY <1>2, <2>1, ElementsIn
  <2> QED
    BY <1>1, <2>1, <2>2 DEF Handled
<1>4. /\ ring' \in Seq(RingRecord) /\ ringSeq' \in Nat /\ RingIsWindow'
      /\ UNCHANGED <<ringEpoch, clearedThrough>>
      /\ handler.epoch # ringEpoch => UNCHANGED ring
      /\ Ids(ring') \subseteq Ids(ring) \cup Handled
  BY <1>1, <1>3, RingTakes
<1>5. UNCHANGED <<FreshDrain, Clearing>> /\ Elements(collector.batch)' = Elements(collector.batch)
      /\ Elements(buffer)' = Elements(buffer) /\ Elements(drain.batch)' = Elements(drain.batch)
      /\ Elements(events)' = Elements(events) /\ Elements(pending)' = Elements(pending)
  BY <1>1 DEF FreshDrain, Clearing, Elements
<1>6. PanelOK' /\ PollOK'
  BY <1>1, <1>4, ViewKept
<1>7. Handled' = {}
  BY <1>1, EmptyHands DEF Handled
<1>8. InRing' \subseteq InRing
  BY <1>4, <1>5, <1>7 DEF InRing
<1>9. IdsOK'
  BY <1>1, <1>5, <1>8 DEF IdsOK
<1>10. GoneOK'
  BY <1>1, <1>4, <1>5, <1>7 DEF GoneOK
<1>11. ConsoleShapes'
  BY <1>1, <1>4, EmptyHands DEF ConsoleShapes
<1>12. EpochsOK'
  BY <1>1, <1>4, EmptyHands DEF EpochsOK, ConsoleShapes
<1> QED
  BY <1>4, <1>6, <1>9, <1>10, <1>11, <1>12 DEF ConsoleInv

\* console.clear empties the page, then the feeder, then the ring; what it has
\* emptied so far is in no place it has yet to empty.
LEMMA ClearPageKeeps ==
    ASSUME ConsoleInv, NEW by \in {"panel", "agent"}, NEW answered \in BOOLEAN, ClearPage(by, answered)
    PROVE  ConsoleInv'
<1>1. /\ ConsoleShapes /\ EpochsOK /\ RingIsWindow /\ IdsOK /\ GoneOK
      /\ UNCHANGED <<born, drain, feederGen, pending, events, handler, collector, ring, ringSeq, ringEpoch,
                     clearedThrough, panel, poll, told, base, wiped, doomed>>
      /\ clear.pc = "idle" /\ clears' \in Nat /\ buffer \in Seq(Nat)
  <2>1. ConsoleShapes /\ EpochsOK /\ RingIsWindow /\ IdsOK /\ GoneOK
    BY Parts
  <2>2. clears \in Nat /\ buffer \in Seq(Nat)
    BY <2>1 DEF ConsoleShapes
  <2> QED
    BY <2>1, <2>2 DEF ClearPage, log, reader
<1>2. PICK ids : ids = IF answered THEN Elements(buffer) ELSE {}
  OBVIOUS
<1>3. ids \in SUBSET Nat /\ ids \subseteq Elements(buffer)
  BY <1>1, <1>2, ElementsIn
<1>4. buffer' \in Seq(Nat) /\ Elements(buffer') \subseteq Elements(buffer) /\ Elements(buffer') \cap ids = {}
  BY <1>1, <1>2, EmptyHands DEF ClearPage
<1>5. /\ clear' \in [pc : {"idle", "page", "feeder", "answered"}, by : {"panel", "agent"}, ids : SUBSET Nat]
      /\ clear'.pc = "page" /\ clear'.ids = ids
  BY <1>2, <1>3 DEF ClearPage
<1>6. UNCHANGED <<FreshDrain, InRing, Handled>> /\ RingIsWindow'
      /\ Elements(events)' = Elements(events) /\ Elements(drain.batch)' = Elements(drain.batch)
      /\ Elements(pending)' = Elements(pending) /\ Elements(collector.batch)' = Elements(collector.batch)
  BY <1>1 DEF InRing, Handled, Ids, FreshDrain, Elements, RingIsWindow
<1>7. Clearing' = ids
  BY <1>5 DEF Clearing
<1>8. PanelOK' /\ PollOK'
  BY <1>1, ViewKept
<1>9. IdsOK'
  BY <1>1, <1>3, <1>4, <1>5, <1>6, <1>7 DEF IdsOK
<1>10. GoneOK'
  BY <1>1, <1>6 DEF GoneOK, Ids
<1>11. ConsoleShapes'
  BY <1>1, <1>4, <1>5 DEF ConsoleShapes
<1>12. EpochsOK'
  BY <1>1 DEF EpochsOK
<1> QED
  BY <1>6, <1>8, <1>9, <1>10, <1>11, <1>12 DEF ConsoleInv

LEMMA ClearFeederKeeps == ASSUME ConsoleInv, ClearFeeder PROVE ConsoleInv'
<1>1. /\ ConsoleShapes /\ EpochsOK /\ RingIsWindow /\ IdsOK /\ GoneOK
      /\ UNCHANGED <<born, buffer, drain, events, handler, collector, ring, ringSeq, ringEpoch,
                     clearedThrough, panel, poll, told, base, wiped, doomed, clears>>
      /\ clear.pc = "page" /\ pending' = <<>> /\ feederGen' = feederGen + 1
      /\ pending \in Seq(Nat) /\ feederGen \in Nat /\ drain.gen \in Nat
      /\ clear \in [pc : {"idle", "page", "feeder", "answered"}, by : {"panel", "agent"}, ids : SUBSET Nat]
  BY Parts DEF ClearFeeder, log, reader, ConsoleShapes
<1>2. PICK ids : ids = clear.ids \cup Elements(pending)
  OBVIOUS
<1>3. ids \in SUBSET Nat
  BY <1>1, <1>2, ElementsIn
<1>4. /\ clear' \in [pc : {"idle", "page", "feeder", "answered"}, by : {"panel", "agent"}, ids : SUBSET Nat]
      /\ clear'.pc = "feeder" /\ clear'.ids = ids
  <2>1. PICK new : new = clear'
    OBVIOUS
  <2>2. new = [clear EXCEPT !.pc = "feeder", !.ids = ids]
    BY <1>2, <2>1 DEF ClearFeeder
  <2>3. /\ new \in [pc : {"idle", "page", "feeder", "answered"}, by : {"panel", "agent"}, ids : SUBSET Nat]
        /\ new.pc = "feeder" /\ new.ids = ids
    BY <1>1, <1>3, <2>2
  <2> QED
    BY <2>1, <2>3
<1>5. UNCHANGED <<InRing, Handled>> /\ RingIsWindow'
      /\ Elements(buffer)' = Elements(buffer) /\ Elements(events)' = Elements(events)
      /\ Elements(drain.batch)' = Elements(drain.batch) /\ Elements(collector.batch)' = Elements(collector.batch)
  BY <1>1 DEF InRing, Handled, Ids, Elements, RingIsWindow
<1>6. Clearing = clear.ids /\ Clearing' = ids /\ Elements(pending)' = {}
  BY <1>1, <1>4, EmptyHands DEF Clearing
<1>7. FreshDrain' = {}
  BY <1>1 DEF EpochsOK, FreshDrain
<1>8. PanelOK' /\ PollOK'
  BY <1>1, ViewKept
<1>9. IdsOK'
  BY <1>1, <1>2, <1>4, <1>5, <1>6, <1>7 DEF IdsOK
<1>10. GoneOK'
  BY <1>1, <1>5 DEF GoneOK, Ids
<1>11. ConsoleShapes'
  <2>1. pending' \in Seq(Nat) /\ feederGen' \in Nat
    BY <1>1
  <2> QED
    BY <1>1, <1>4, <2>1 DEF ConsoleShapes
<1>12. EpochsOK'
  BY <1>1 DEF EpochsOK
<1> QED
  BY <1>5, <1>8, <1>9, <1>10, <1>11, <1>12 DEF ConsoleInv

LEMMA ClearRingKeeps == ASSUME ConsoleInv, ClearRing PROVE ConsoleInv'
<1>1. /\ ConsoleShapes /\ EpochsOK /\ RingIsWindow /\ IdsOK /\ GoneOK /\ PanelOK /\ PollOK
      /\ UNCHANGED <<born, buffer, drain, feederGen, pending, events, handler, collector, ringSeq,
                     panel, poll, told, base, clears>>
      /\ clear.pc = "feeder" /\ ring' = <<>> /\ clearedThrough' = ringSeq /\ ringEpoch' = ringEpoch + 1
      /\ ringSeq \in Nat /\ ringEpoch \in Nat
      /\ collector.batch \in Seq(Nat) /\ collector.epoch \in Nat /\ handler.epoch \in Nat /\ handler.id \in Nat
      /\ ring \in Seq(RingRecord) /\ panel.marker \in Nat
  BY Parts DEF ClearRing, source, reader, ConsoleShapes
<1>2. doomed' = doomed \cup clear.ids \cup InRing /\ Clearing = clear.ids
  BY <1>1 DEF ClearRing, InRing, Ids, Handled, Clearing
<1>3. PICK gone : gone = panel.marker + 1 .. ringSeq
  OBVIOUS
<1>4. gone \in SUBSET Nat /\ wiped' = wiped \cup gone
  BY <1>1, <1>3 DEF ClearRing
<1>5. /\ clear' \in [pc : {"idle", "page", "feeder", "answered"}, by : {"panel", "agent"}, ids : SUBSET Nat]
      /\ clear'.pc \in {"idle", "answered"} /\ clear'.ids \subseteq clear.ids
  <2>1. PICK new : new = clear'
    OBVIOUS
  <2>2. new = [clear EXCEPT !.pc = "answered"] \/ new = NoClear
    BY <2>1 DEF ClearRing
  <2>3. /\ new \in [pc : {"idle", "page", "feeder", "answered"}, by : {"panel", "agent"}, ids : SUBSET Nat]
        /\ new.pc \in {"idle", "answered"} /\ new.ids \subseteq clear.ids
    BY <1>1, <2>2, EmptyHands DEF ConsoleShapes
  <2> QED
    BY <2>1, <2>3
<1>6. UNCHANGED <<FreshDrain, Handled>>
      /\ Elements(buffer)' = Elements(buffer) /\ Elements(events)' = Elements(events)
      /\ Elements(drain.batch)' = Elements(drain.batch) /\ Elements(collector.batch)' = Elements(collector.batch)
      /\ Elements(pending)' = Elements(pending)
  BY <1>1 DEF Handled, FreshDrain, Elements
<1>7. Clearing' = {} /\ Ids(ring)' = {}
  BY <1>1, <1>5 DEF Clearing, Ids
<1>8. InRing' \subseteq InRing
  BY <1>6, <1>7 DEF InRing
<1>9. IdsOK'
  BY <1>1, <1>2, <1>5, <1>6, <1>7, <1>8 DEF IdsOK
<1>10. GoneOK'
  BY <1>1, <1>7 DEF EpochsOK, GoneOK
<1>11. ConsoleShapes'
  <2>1. InRing \subseteq Nat
    <3>1. \A i \in DOMAIN ring : ring[i] \in RingRecord
      BY <1>1
    <3>2. Ids(ring) \subseteq Nat
      BY <3>1 DEF Ids, RingRecord
    <3> QED
      BY <1>1, <3>2, ElementsIn DEF InRing, Handled
  <2>2. doomed' \in SUBSET Nat /\ wiped' \in SUBSET Nat
    BY <1>1, <1>2, <1>4, <2>1 DEF ConsoleShapes
  <2>3. ring' \in Seq(RingRecord) /\ ringEpoch' \in Nat /\ clearedThrough' \in Nat
    BY <1>1
  <2> QED
    BY <1>1, <1>5, <2>2, <2>3 DEF ConsoleShapes
<1>12. EpochsOK'
  BY <1>1 DEF EpochsOK
<1>13. RingIsWindow'
  BY <1>1, ConsoleCapacity DEF RingIsWindow
<1>14. PanelOK'
  BY <1>1, <1>3, <1>4 DEF PanelOK, Seqs, Rising
<1>15. PollOK'
  BY <1>1, <1>4 DEF PollOK, Seqs, Rising
<1> QED
  BY <1>9, <1>10, <1>11, <1>12, <1>13, <1>14, <1>15 DEF ConsoleInv

-----------------------------------------------------------------------------
LEMMA PlacesKept ==
    ASSUME ConsoleInv, UNCHANGED <<source, handler, collector, log, wiped, doomed, clears>>,
           clear'.pc \in {clear.pc, "idle"}, clear'.ids \subseteq clear.ids
    PROVE  IdsOK' /\ GoneOK' /\ RingIsWindow'
<1>1. UNCHANGED <<born, buffer, drain, feederGen, pending, events, handler, collector, ring, ringSeq, ringEpoch,
                  clearedThrough, doomed>> /\ IdsOK /\ GoneOK /\ RingIsWindow
  BY Parts DEF source, log
<1>2. UNCHANGED <<InRing, FreshDrain, Handled, Ids(ring)>>
      /\ Elements(buffer)' = Elements(buffer) /\ Elements(events)' = Elements(events)
      /\ Elements(drain.batch)' = Elements(drain.batch) /\ Elements(pending)' = Elements(pending)
      /\ Elements(collector.batch)' = Elements(collector.batch)
  BY <1>1 DEF InRing, Handled, Ids, FreshDrain, Elements
<1>3. Clearing' \subseteq Clearing
  BY DEF Clearing
<1>4. IdsOK'
  BY <1>1, <1>2, <1>3 DEF IdsOK
<1> QED
  BY <1>1, <1>2, <1>4 DEF GoneOK, RingIsWindow

LEMMA PanelAskKeeps == ASSUME ConsoleInv, PanelAsk PROVE ConsoleInv'
<1>1. /\ ConsoleShapes /\ EpochsOK /\ RingIsWindow /\ PanelOK
      /\ UNCHANGED <<source, handler, collector, log, clear, panel, told, base, wiped, doomed, clears>>
      /\ panel.marker \in Nat /\ panel.epoch \in Nat
  BY Parts DEF PanelAsk, ConsoleShapes
<1>2. PICK page : page = List(panel.marker, PageSize)
  OBVIOUS
<1>3. /\ page.rows \in Seq(RingRecord) /\ page.more \in BOOLEAN
      /\ page.lost \in SUBSET Nat /\ IsFiniteSet(page.lost)
      /\ Rising(page.rows) /\ \A s \in Seqs(page.rows) : panel.marker < s
      /\ \A s \in page.lost : panel.marker < s /\ \A r \in Seqs(page.rows) : s < r
      /\ page.rows # <<>> =>
             \A s \in Nat : panel.marker < s /\ clearedThrough < s /\ s <= page.rows[Len(page.rows)].seq =>
                 s \in page.lost \cup Seqs(page.rows)
  BY <1>1, <1>2, ListedPage
<1>4. /\ poll' \in [pc : {"idle", "answered"}, epoch : Nat, rows : Seq(RingRecord), more : BOOLEAN, lost : SUBSET Nat]
      /\ poll'.epoch = panel.epoch /\ poll'.rows = page.rows /\ poll'.lost = page.lost
  BY <1>1, <1>2, <1>3 DEF PanelAsk
<1>5. IdsOK' /\ GoneOK' /\ RingIsWindow'
  BY <1>1, PlacesKept
<1>6. PanelOK'
  BY <1>1 DEF PanelOK, Seqs, Rising, log
<1>7. PollOK'
  <2>1. UNCHANGED <<panel, base, wiped>>
    BY <1>1
  <2>2. PICK rows \in Seq(RingRecord) : rows = page.rows
    BY <1>3
  <2>3. ASSUME rows # <<>>, NEW s \in Nat, base < s, panel.marker < s, s <= rows[Len(rows)].seq
        PROVE  s \in page.lost \cup Seqs(rows) \cup wiped
    <3>1. CASE clearedThrough < s
      BY <1>3, <2>2, <2>3, <3>1
    <3>2. CASE ~ (clearedThrough < s)
      BY <1>1, <2>3, <3>2 DEF ConsoleShapes, PanelOK
    <3> QED
      BY <3>1, <3>2
  <2>4. /\ rows # <<>> =>
             \A s \in Nat : base < s /\ panel.marker < s /\ s <= rows[Len(rows)].seq =>
                 s \in page.lost \cup Seqs(rows) \cup wiped
        /\ Rising(rows) /\ \A s \in Seqs(rows) : panel.marker < s
        /\ \A s \in page.lost : panel.marker < s /\ \A r \in Seqs(rows) : s < r
    BY <1>3, <2>2, <2>3
  <2>5. poll'.rows = rows /\ poll'.lost = page.lost
    BY <1>4, <2>2
  <2> HIDE DEF Rising, Seqs
  <2> QED
    BY <1>3, <2>1, <2>4, <2>5 DEF PollOK
<1>8. ConsoleShapes'
  BY <1>1, <1>4 DEF ConsoleShapes, source, log
<1>9. EpochsOK'
  BY <1>1, <1>4 DEF EpochsOK, source, log
<1> QED
  BY <1>5, <1>6, <1>7, <1>8, <1>9 DEF ConsoleInv

LEMMA PanelClearedKeeps == ASSUME ConsoleInv, PanelCleared PROVE ConsoleInv'
<1>1. /\ ConsoleShapes /\ EpochsOK /\ RingIsWindow
      /\ UNCHANGED <<born, buffer, drain, feederGen, pending, events, handler, collector,
                     ring, ringSeq, ringEpoch, clearedThrough, poll, doomed, clears>>
      /\ clear' = NoClear /\ told' = {} /\ wiped' = {} /\ base' = clearedThrough
      /\ panel.epoch \in Nat /\ poll.epoch \in Nat /\ clearedThrough \in Nat
  BY Parts DEF PanelCleared, source, log, ConsoleShapes
<1>2. /\ panel' \in [marker : Nat, epoch : Nat, rows : Seq(RingRecord), dropped : Nat]
      /\ panel'.marker = 0 /\ panel'.epoch = panel.epoch + 1 /\ panel'.rows = <<>> /\ panel'.dropped = 0
  BY <1>1 DEF PanelCleared
<1>3. /\ ConsoleShapes' /\ EpochsOK' /\ RingIsWindow'
  <2>1. ConsoleShapes'
    BY <1>1, <1>2, EmptyHands DEF ConsoleShapes
  <2>2. EpochsOK'
    BY <1>1, <1>2 DEF EpochsOK
  <2> QED
    BY <1>1, <2>1, <2>2 DEF RingIsWindow
<1>4. IdsOK' /\ GoneOK'
  <2>1. /\ UNCHANGED <<InRing, FreshDrain, Handled, Ids(ring)>>
        /\ Elements(buffer)' = Elements(buffer) /\ Elements(events)' = Elements(events)
        /\ Elements(drain.batch)' = Elements(drain.batch) /\ Elements(pending)' = Elements(pending)
        /\ Elements(collector.batch)' = Elements(collector.batch)
    BY <1>1 DEF InRing, Handled, Ids, FreshDrain, Elements
  <2>2. Clearing' = {} /\ clear'.ids = {} /\ clear'.pc = "idle"
    BY <1>1, EmptyHands DEF Clearing
  <2>3. IdsOK /\ GoneOK
    BY Parts
  <2>4. IdsOK'
    BY <1>1, <2>1, <2>2, <2>3 DEF IdsOK
  <2> QED
    BY <1>1, <2>1, <2>3, <2>4 DEF GoneOK
<1>5. PanelOK'
  BY <1>1, <1>2, FS_EmptySet DEF Seqs, Rising, PanelOK
<1>6. PollOK'
  BY <1>1, <1>2 DEF EpochsOK, PollOK
<1> QED
  BY <1>3, <1>4, <1>5, <1>6 DEF ConsoleInv

\* All the rows of an answer are behind the marker, so the panel takes them all.
LEMMA AllTaken ==
    ASSUME NEW rows \in Seq(RingRecord), rows # <<>>, Rising(rows), NEW fresh, fresh = Pick(rows, DOMAIN rows)
    PROVE  /\ fresh \in Seq(RingRecord) /\ fresh # <<>> /\ Rising(fresh) /\ Seqs(fresh) = Seqs(rows)
           /\ fresh[Len(fresh)].seq = rows[Len(rows)].seq /\ fresh[Len(fresh)].seq \in Nat
<1>1. PICK n \in Nat : n = Len(rows) /\ DOMAIN rows = 1 .. n /\ n >= 1 /\ \A i \in 1 .. n : rows[i].seq \in Nat
  <2>1. Len(rows) \in Nat /\ DOMAIN rows = 1 .. Len(rows) /\ Len(rows) >= 1 /\ \A i \in 1 .. Len(rows) : rows[i] \in RingRecord
    OBVIOUS
  <2> QED
    BY <2>1 DEF RingRecord
<1>2. fresh \in Seq(RingRecord) /\ \E f : Enumerates(f, fresh, rows, DOMAIN rows)
  BY PickOf
<1>3. PICK m \in Nat : m = Len(fresh) /\ DOMAIN fresh = 1 .. m
  BY <1>2
<1>4. PICK f : Enumerates(f, fresh, rows, DOMAIN rows)
  BY <1>2
<1>5. /\ \A k \in 1 .. m : f[k] \in 1 .. n /\ fresh[k] = rows[f[k]]
      /\ \A k, l \in 1 .. m : k < l => f[k] < f[l]
      /\ \A i \in 1 .. n : \E k \in 1 .. m : f[k] = i
  BY <1>1, <1>3, <1>4 DEF Enumerates
<1>6. PICK top \in 1 .. m : f[top] = n
  BY <1>1, <1>5
<1>7. m >= 1 /\ m \in 1 .. m /\ f[m] = n
  BY <1>1, <1>3, <1>5, <1>6
<1>8. Rising(fresh)
  <2>1. ASSUME NEW k \in 1 .. m, NEW l \in 1 .. m, k < l PROVE fresh[k].seq < fresh[l].seq
    <3>1. f[k] \in 1 .. n /\ f[l] \in 1 .. n /\ f[k] < f[l] /\ fresh[k] = rows[f[k]] /\ fresh[l] = rows[f[l]]
      BY <1>5, <2>1
    <3> QED
      BY <1>1, <3>1 DEF Rising
  <2> QED
    BY <1>3, <2>1 DEF Rising
<1>9. Seqs(fresh) = Seqs(rows)
  <2>1. \A k \in 1 .. m : fresh[k].seq \in Seqs(rows)
    BY <1>1, <1>5 DEF Seqs
  <2>2. ASSUME NEW i \in 1 .. n PROVE rows[i].seq \in Seqs(fresh)
    <3>1. PICK k \in 1 .. m : f[k] = i
      BY <1>5
    <3>2. k \in DOMAIN fresh /\ fresh[k].seq = rows[i].seq
      BY <1>3, <1>5, <3>1
    <3> QED
      BY <3>2 DEF Seqs
  <2>3. Seqs(fresh) \subseteq Seqs(rows)
    <3>1. Seqs(fresh) = {fresh[k].seq : k \in 1 .. m}
      BY <1>3 DEF Seqs
    <3> HIDE DEF Seqs
    <3> QED
      BY <2>1, <3>1
  <2>4. Seqs(rows) \subseteq Seqs(fresh)
    <3>1. Seqs(rows) = {rows[i].seq : i \in 1 .. n}
      BY <1>1 DEF Seqs
    <3> HIDE DEF Seqs
    <3> QED
      BY <2>2, <3>1
  <2> QED
    BY <2>3, <2>4
<1>10. fresh[m].seq = rows[n].seq /\ rows[n].seq \in Nat
  BY <1>1, <1>5, <1>7
<1> QED
  BY <1>1, <1>2, <1>3, <1>7, <1>8, <1>9, <1>10

LEMMA PanelTakeKeeps == ASSUME ConsoleInv, PanelTake PROVE ConsoleInv'
<1>1. /\ ConsoleShapes /\ EpochsOK /\ RingIsWindow /\ PanelOK /\ PollOK
      /\ UNCHANGED <<source, handler, collector, log, clear, base, wiped, doomed, clears>>
      /\ poll.pc = "answered" /\ poll' = NoPoll
      /\ panel \in [marker : Nat, epoch : Nat, rows : Seq(RingRecord), dropped : Nat]
      /\ told \in SUBSET Nat /\ poll.lost \in SUBSET Nat /\ poll.rows \in Seq(RingRecord)
  BY Parts DEF PanelTake, ConsoleShapes
<1>2. IdsOK' /\ GoneOK' /\ RingIsWindow'
  BY <1>1, PlacesKept
<1>3. PollOK'
  BY <1>1, EmptyHands DEF PollOK
<1>4. PICK fresh : fresh = Pick(poll.rows, {i \in DOMAIN poll.rows : poll.rows[i].seq > panel.marker})
  OBVIOUS
<1>5. CASE poll.epoch = panel.epoch /\ fresh # <<>>
  <2>1. poll.rows # <<>>
    <3>1. CASE poll.rows = <<>>
      <4>1. {i \in DOMAIN poll.rows : poll.rows[i].seq > panel.marker} \in SUBSET DOMAIN poll.rows
        OBVIOUS
      <4>2. fresh \in Seq(RingRecord) /\ Len(fresh) <= Len(poll.rows)
        BY <1>1, <1>4, <4>1, PickOf
      <4> QED
        BY <1>1, <1>5, <3>1, <4>2
    <3> QED
      BY <3>1
  <2>2. /\ Rising(poll.rows) /\ \A s \in Seqs(poll.rows) : panel.marker < s
        /\ IsFiniteSet(poll.lost)
        /\ \A s \in poll.lost : panel.marker < s /\ \A r \in Seqs(poll.rows) : s < r
        /\ \A s \in Nat : base < s /\ panel.marker < s /\ s <= poll.rows[Len(poll.rows)].seq =>
               s \in poll.lost \cup Seqs(poll.rows) \cup wiped
    BY <1>1, <1>5, <2>1 DEF PollOK
  <2>3. fresh = Pick(poll.rows, DOMAIN poll.rows)
    <3>1. {i \in DOMAIN poll.rows : poll.rows[i].seq > panel.marker} = DOMAIN poll.rows
      BY <1>1, <2>2 DEF Seqs, RingRecord
    <3> QED
      BY <1>4, <3>1
  <2>4. /\ fresh \in Seq(RingRecord) /\ Rising(fresh) /\ Seqs(fresh) = Seqs(poll.rows)
        /\ fresh[Len(fresh)].seq = poll.rows[Len(poll.rows)].seq /\ fresh[Len(fresh)].seq \in Nat
    BY <1>1, <2>1, <2>2, <2>3, AllTaken
  <2>5. PICK last \in Nat : last = fresh[Len(fresh)].seq
    BY <2>4
  <2>6. PICK n \in Nat : n = Len(fresh) /\ DOMAIN fresh = 1 .. n /\ n >= 1 /\ \A i \in 1 .. n : fresh[i].seq \in Nat
    <3>1. Len(fresh) \in Nat /\ DOMAIN fresh = 1 .. Len(fresh) /\ Len(fresh) >= 1
          /\ \A i \in 1 .. Len(fresh) : fresh[i] \in RingRecord
      BY <1>5, <2>4
    <3> QED
      BY <3>1 DEF RingRecord
  <2>7. last \in Seqs(fresh) /\ \A s \in Seqs(fresh) : s \in Nat /\ panel.marker < s /\ s <= last
    <3>1. fresh[n].seq = last /\ n \in 1 .. n
      BY <2>5, <2>6
    <3>2. \A i \in 1 .. n : fresh[i].seq <= fresh[n].seq
      BY <2>4, <2>6, <3>1 DEF Rising
    <3>3. \A s \in Seqs(fresh) : panel.marker < s
      BY <2>2, <2>4
    <3> QED
      BY <2>6, <3>1, <3>2, <3>3 DEF Seqs
  <2>8. PICK rows : rows = panel.rows \o fresh
    OBVIOUS
  <2>9. PICK old \in Nat : old = Len(panel.rows) /\ DOMAIN panel.rows = 1 .. old
                           /\ \A i \in 1 .. old : panel.rows[i].seq \in Nat
    <3>1. panel.rows \in Seq(RingRecord)
      BY <1>1
    <3>2. Len(panel.rows) \in Nat /\ DOMAIN panel.rows = 1 .. Len(panel.rows)
          /\ \A i \in 1 .. Len(panel.rows) : panel.rows[i] \in RingRecord
      BY <3>1
    <3> QED
      BY <3>2 DEF RingRecord
  <2>10. /\ rows \in Seq(RingRecord) /\ DOMAIN rows = 1 .. old + n
         /\ \A i \in 1 .. old : rows[i] = panel.rows[i]
         /\ \A i \in 1 .. n : rows[old + i] = fresh[i]
    BY <1>1, <2>4, <2>6, <2>8, <2>9, ConcatProperties
  <2>11. \A i \in 1 .. old + n : i <= old \/ (i > old /\ i - old \in 1 .. n /\ rows[i] = fresh[i - old])
    <3>1. ASSUME NEW i \in 1 .. old + n, i > old PROVE i - old \in 1 .. n /\ rows[i] = fresh[i - old]
      <4>1. PICK k \in 1 .. n : i = old + k /\ k = i - old
        <5>1. i - old \in 1 .. n /\ i = old + (i - old)
          BY <2>6, <2>9, <3>1
        <5> QED
          BY <5>1
      <4> QED
        BY <2>10, <4>1
    <3> QED
      BY <2>6, <2>9, <3>1
  <2>12. Seqs(rows) = Seqs(panel.rows) \cup Seqs(fresh)
    <3>1. ASSUME NEW i \in 1 .. old + n PROVE rows[i].seq \in Seqs(panel.rows) \cup Seqs(fresh)
      <4>1. CASE i <= old
        BY <2>6, <2>9, <2>10, <4>1 DEF Seqs
      <4>2. CASE ~ (i <= old)
        BY <2>6, <2>11, <4>2 DEF Seqs
      <4> QED
        BY <4>1, <4>2
    <3>2. ASSUME NEW i \in 1 .. old PROVE panel.rows[i].seq \in Seqs(rows)
      <4>1. i \in DOMAIN rows /\ rows[i] = panel.rows[i]
        BY <2>6, <2>9, <2>10
      <4> QED
        BY <4>1 DEF Seqs
    <3>3. ASSUME NEW i \in 1 .. n PROVE fresh[i].seq \in Seqs(rows)
      <4>1. old + i \in DOMAIN rows /\ rows[old + i] = fresh[i]
        BY <2>6, <2>9, <2>10
      <4> QED
        BY <4>1 DEF Seqs
    <3>4. Seqs(rows) \subseteq Seqs(panel.rows) \cup Seqs(fresh)
      <4>1. Seqs(rows) = {rows[i].seq : i \in 1 .. old + n}
        BY <2>10 DEF Seqs
      <4> HIDE DEF Seqs
      <4> QED
        BY <3>1, <4>1
    <3>5. Seqs(panel.rows) \subseteq Seqs(rows)
      BY <2>9, <3>2 DEF Seqs
    <3>6. Seqs(fresh) \subseteq Seqs(rows)
      BY <2>6, <3>3 DEF Seqs
    <3> QED
      BY <3>4, <3>5, <3>6
  <2>13. Rising(rows)
    <3>1. ASSUME NEW i \in 1 .. old + n, NEW j \in 1 .. old + n, i < j PROVE rows[i].seq < rows[j].seq
      <4>1. CASE j <= old
        <5>1. i \in 1 .. old /\ j \in 1 .. old
          BY <2>6, <2>9, <3>1, <4>1
        <5> QED
          BY <1>1, <2>9, <2>10, <3>1, <5>1 DEF PanelOK, Rising
      <4>2. CASE ~ (j <= old) /\ i <= old
        <5>1. i \in 1 .. old
          BY <2>6, <2>9, <4>2
        <5>2. rows[i].seq <= panel.marker /\ rows[i].seq \in Nat
          BY <1>1, <2>9, <2>10, <5>1 DEF PanelOK, Seqs
        <5>3. panel.marker < rows[j].seq /\ rows[j].seq \in Nat
          BY <2>6, <2>7, <2>11, <4>2 DEF Seqs
        <5> QED
          BY <1>1, <5>2, <5>3
      <4>3. CASE ~ (j <= old) /\ ~ (i <= old)
        <5>1. i - old \in 1 .. n /\ rows[i] = fresh[i - old] /\ j - old \in 1 .. n /\ rows[j] = fresh[j - old]
          BY <2>11, <4>3
        <5>2. i - old < j - old
          BY <2>6, <2>9, <3>1
        <5> QED
          BY <2>4, <2>6, <5>1, <5>2 DEF Rising
      <4> QED
        BY <4>1, <4>2, <4>3
    <3> QED
      BY <2>10, <3>1 DEF Rising
  <2>14. /\ panel' \in [marker : Nat, epoch : Nat, rows : Seq(RingRecord), dropped : Nat]
         /\ panel'.marker = last /\ panel'.rows = rows /\ panel'.epoch = panel.epoch
         /\ panel'.dropped = panel.dropped + Cardinality(poll.lost)
         /\ told' = told \cup poll.lost
    <3>1. PICK new : new = panel'
      OBVIOUS
    <3>2. PICK count \in Nat : count = Cardinality(poll.lost)
      BY <2>2, FS_CardinalityType
    <3>3. /\ new = [panel EXCEPT !.marker = last, !.rows = rows, !.dropped = panel.dropped + count]
          /\ told' = told \cup poll.lost
      BY <1>1, <1>4, <1>5, <2>5, <2>8, <3>1, <3>2 DEF PanelTake
    <3>4. /\ new \in [marker : Nat, epoch : Nat, rows : Seq(RingRecord), dropped : Nat]
          /\ new.marker = last /\ new.rows = rows /\ new.epoch = panel.epoch
          /\ new.dropped = panel.dropped + count
      <4>1. panel.dropped + count \in Nat
        BY <1>1
      <4> QED
        BY <1>1, <2>10, <3>3, <4>1
    <3> QED
      BY <3>1, <3>2, <3>3, <3>4
  <2>15. PanelOK'
    <3>1. panel.marker \in Nat /\ base \in Nat /\ clearedThrough \in Nat
      BY <1>1 DEF ConsoleShapes
    <3>2. /\ \A s \in Seqs(panel.rows) : s <= panel.marker
          /\ IsFiniteSet(told) /\ \A s \in told : s <= panel.marker
          /\ Seqs(panel.rows) \cap told = {} /\ panel.dropped = Cardinality(told)
          /\ \A s \in Nat : base < s /\ s <= panel.marker => s \in Seqs(panel.rows) \cup told \cup wiped
          /\ \A s \in Nat : base < s /\ panel.marker < s /\ s <= clearedThrough => s \in wiped
      BY <1>1 DEF PanelOK
    <3>3. panel.marker < last
      BY <2>7
    <3>4. \A s \in Seqs(panel.rows) : s \in Nat
      BY <2>9 DEF Seqs
    <3>5. \A s \in Seqs(rows) : s <= last
      BY <2>7, <2>12, <3>1, <3>2, <3>3, <3>4
    <3>6. \A s \in poll.lost : s \in Nat /\ panel.marker < s /\ s <= last /\ s \notin Seqs(fresh)
      BY <1>1, <2>2, <2>4, <2>7
    <3>7. IsFiniteSet(told \cup poll.lost) /\ \A s \in told \cup poll.lost : s <= last
      <4>1. IsFiniteSet(told \cup poll.lost)
        BY <2>2, <3>2, FS_Union
      <4>2. \A s \in told : s \in Nat /\ s <= panel.marker
        BY <1>1, <3>2
      <4>3. \A s \in told : s <= last
        BY <3>1, <3>3, <4>2
      <4> QED
        BY <3>6, <4>1, <4>3
    <3>8. told \cap poll.lost = {} /\ Seqs(panel.rows) \cap poll.lost = {} /\ told \cap Seqs(fresh) = {}
      <4>1. \A s \in told \cup Seqs(panel.rows) : s \in Nat /\ ~ (panel.marker < s)
        BY <1>1, <3>1, <3>2, <3>4
      <4> QED
        BY <2>7, <3>6, <4>1
    <3>9. Seqs(rows) \cap (told \cup poll.lost) = {}
      BY <2>12, <3>2, <3>6, <3>8
    <3>10. Cardinality(told \cup poll.lost) = panel.dropped + Cardinality(poll.lost)
      <4>1. Cardinality(told \cup poll.lost) = Cardinality(told) + Cardinality(poll.lost) - Cardinality(told \cap poll.lost)
        BY <2>2, <3>2, FS_Union
      <4>2. Cardinality(told \cap poll.lost) = 0
        BY <3>8, FS_EmptySet
      <4>3. Cardinality(told) \in Nat /\ Cardinality(poll.lost) \in Nat
        BY <2>2, <3>2, FS_CardinalityType
      <4> QED
        BY <3>2, <4>1, <4>2, <4>3
    <3>11. ASSUME NEW s \in Nat, base < s, s <= last PROVE s \in Seqs(rows) \cup (told \cup poll.lost) \cup wiped
      BY <2>2, <2>4, <2>5, <2>12, <3>1, <3>2, <3>11
    <3>12. ASSUME NEW s \in Nat, base < s, last < s, s <= clearedThrough PROVE s \in wiped
      BY <3>1, <3>2, <3>3, <3>12
    <3>13. UNCHANGED <<base, wiped, clearedThrough>>
      BY <1>1 DEF log
    <3> HIDE DEF Seqs, Rising
    <3> QED
      BY <2>13, <2>14, <3>5, <3>7, <3>9, <3>10, <3>11, <3>12, <3>13 DEF PanelOK
  <2>16. ConsoleShapes'
    <3>1. told' \in SUBSET Nat
      BY <1>1, <2>14
    <3> QED
      BY <1>1, <2>14, <3>1, EmptyHands DEF ConsoleShapes, source, log
  <2>17. EpochsOK'
    BY <1>1, <2>14, EmptyHands DEF EpochsOK, source, log
  <2> QED
    BY <1>2, <1>3, <2>15, <2>16, <2>17 DEF ConsoleInv
<1>6. CASE ~ (poll.epoch = panel.epoch /\ fresh # <<>>)
  <2>1. UNCHANGED <<panel, told>>
    BY <1>4, <1>6 DEF PanelTake
  <2>2. PanelOK'
    BY <1>1, <2>1 DEF PanelOK, Seqs, Rising, log
  <2>3. ConsoleShapes'
    <3>1. UNCHANGED <<born, buffer, drain, feederGen, pending, events, ring, ringSeq, ringEpoch, clearedThrough>>
      BY <1>1 DEF source, log
    <3> QED
      BY <1>1, <2>1, <3>1, EmptyHands DEF ConsoleShapes
  <2>4. EpochsOK'
    BY <1>1, <2>1, EmptyHands DEF EpochsOK, source, log
  <2> QED
    BY <1>2, <1>3, <2>2, <2>3, <2>4 DEF ConsoleInv
<1> QED
  BY <1>5, <1>6

-----------------------------------------------------------------------------
LEMMA ConsoleKeeps == ConsoleInv /\ [ConsoleNext]_consoleVars => ConsoleInv'
<1> SUFFICES ASSUME ConsoleInv, [ConsoleNext]_consoleVars PROVE ConsoleInv'
  OBVIOUS
<1>1. CASE UNCHANGED consoleVars
  <2>1. UNCHANGED <<source, handler, collector, log, clear, panel, poll, told, base, wiped, doomed, clears>>
    BY <1>1 DEF consoleVars, reader
  <2>2. IdsOK' /\ GoneOK' /\ RingIsWindow'
    BY <2>1, PlacesKept
  <2>3. PanelOK' /\ PollOK'
    BY <2>1, ViewKept DEF log
  <2>4. ConsoleShapes'
    <3>1. UNCHANGED <<born, buffer, drain, feederGen, pending, events, ring, ringSeq, ringEpoch, clearedThrough>>
      BY <2>1 DEF source, log
    <3> QED
      BY <2>1, <3>1, Parts DEF ConsoleShapes
  <2>5. EpochsOK'
    BY <2>1, Parts DEF EpochsOK, source, log
  <2> QED
    BY <2>2, <2>3, <2>4, <2>5 DEF ConsoleInv
<1>2. CASE PageRecord \/ CoreRecord
  BY <1>2, BirthKeeps
<1>3. CASE DrainAnswer \/ DrainStore
  BY <1>3, DrainKeepsIds
<1>4. CASE CollectorTake
  BY <1>4, CollectorTakeKeeps
<1>5. CASE CollectorAppend
  BY <1>5, CollectorAppendKeeps
<1>6. CASE EventTake
  BY <1>6, EventTakeKeeps
<1>7. CASE EventAppend
  BY <1>7, EventAppendKeeps
<1>8. CASE \E by \in {"panel", "agent"}, answered \in BOOLEAN : ClearPage(by, answered)
  BY <1>8, ClearPageKeeps
<1>9. CASE ClearFeeder
  BY <1>9, ClearFeederKeeps
<1>10. CASE ClearRing
  BY <1>10, ClearRingKeeps
<1>11. CASE PanelAsk
  BY <1>11, PanelAskKeeps
<1>12. CASE PanelTake
  BY <1>12, PanelTakeKeeps
<1>13. CASE PanelCleared
  BY <1>13, PanelClearedKeeps
<1> QED
  BY <1>1, <1>2, <1>3, <1>4, <1>5, <1>6, <1>7, <1>8, <1>9, <1>10, <1>11, <1>12, <1>13 DEF ConsoleNext

\* Rows whose numbers rise are as many as their numbers: none is shown twice.
LEMMA NoneTwice ==
    ASSUME NEW rows \in Seq(RingRecord), Rising(rows)
    PROVE  Cardinality(Seqs(rows)) = Len(rows)
<1>1. PICK n \in Nat : n = Len(rows) /\ DOMAIN rows = 1 .. n
  OBVIOUS
<1>2. \A i \in 1 .. n : rows[i].seq \in Nat
  <2>1. \A i \in 1 .. n : rows[i] \in RingRecord
    BY <1>1
  <2> QED
    BY <2>1 DEF RingRecord
<1>3. PICK f : f = [i \in 1 .. n |-> rows[i].seq]
  OBVIOUS
<1>4. f \in [1 .. n -> Seqs(rows)] /\ \A i \in 1 .. n : f[i] = rows[i].seq
  BY <1>1, <1>3 DEF Seqs
<1>5. \A i, j \in 1 .. n : f[i] = f[j] => i = j
  BY <1>1, <1>2, <1>4 DEF Rising
<1>6. \A s \in Seqs(rows) : \E i \in 1 .. n : f[i] = s
  BY <1>1, <1>4 DEF Seqs
<1>7. f \in Bijection(1 .. n, Seqs(rows))
  BY <1>4, <1>5, <1>6 DEF Bijection, Injection, Surjection, IsInjective
<1>8. ExistsBijection(1 .. n, Seqs(rows))
  BY <1>7 DEF ExistsBijection
<1> QED
  BY <1>1, <1>8, FS_CountingElements

\* Whatever the producers, the clears and the panel do in between: the ring is
\* the window of the newest records since the last clear, no row that
\* console.clear discarded comes back to it, and the panel has seen, or was told
\* of, every number behind its marker, once (console_log.go, the console view).
THEOREM ConsoleHoldsItsWord == ConsoleSpec => []ConsoleKeepsItsWord
<1>1. ConsoleInv => ConsoleKeepsItsWord
  <2> SUFFICES ASSUME ConsoleInv PROVE ConsoleKeepsItsWord
    OBVIOUS
  <2>1. RingIsWindow /\ GoneOK /\ PanelOK /\ ConsoleShapes
    BY Parts
  <2>2. ClearedRowsStayGone
    BY <2>1 DEF ClearedRowsStayGone, GoneOK, Ids
  <2>3. GapsAreReported
    <3>1. panel.rows \in Seq(RingRecord) /\ panel.marker \in Nat /\ base \in Nat
      BY <2>1 DEF ConsoleShapes
    <3>2. Cardinality(Seqs(panel.rows)) = Len(panel.rows)
      BY <2>1, <3>1, NoneTwice DEF PanelOK
    <3>3. \A s \in base + 1 .. panel.marker : s \in Nat /\ base < s /\ s <= panel.marker
      BY <3>1
    <3>4. \A s \in base + 1 .. panel.marker : s \in Seqs(panel.rows) \cup told \cup wiped
      BY <2>1, <3>3 DEF PanelOK
    <3> QED
      BY <2>1, <3>2, <3>4 DEF GapsAreReported, PanelOK, Seqs
  <2> QED
    BY <2>1, <2>2, <2>3 DEF ConsoleKeepsItsWord
<1> QED
  BY <1>1, ConsoleInitially, ConsoleKeeps, PTL DEF ConsoleSpec

-----------------------------------------------------------------------------
(* The sources of the console (ConsoleSources)                              *)

\* What the records hold.
LinkShapes == [open : BOOLEAN, ready : BOOLEAN, mark : {"no", "asked", "yes"}]
Requests == [op : {"enable", "script", "surface"}, id : Nat]
Reports == [op : {"rebuilt"}] \cup [op : {"event"}, kind : {"call", "error"}, recorded : BOOLEAN]
           \cup [op : {"enable", "script", "surface"}, id : Nat, ok : BOOLEAN, full : BOOLEAN]
WorldShapes == [wraps : BOOLEAN, script : BOOLEAN, calls : BOOLEAN, errors : BOOLEAN,
                live : BOOLEAN, out : Seq(Requests), in : Seq(Reports)]
HookupShapes == [stage : {"none", "script", "surface", "answered"}, id : Nat, from : Nat,
                 full : BOOLEAN, gen : Nat, late : BOOLEAN]
TallyShapes == [links : Nat, spent : Nat, ids : Nat, gen : Nat, hookedAt : Nat,
                refreshed : BOOLEAN, lost : BOOLEAN]

\* In the realm that runs as of the kth frame, until the next is set up, the
\* page records the errors, and the calls if `full`.
Covered(w, k, errors, full) ==
    /\ \A i \in DOMAIN w.in :
          /\ i > k /\ w.in[i].op = "event"
          /\ \A j \in DOMAIN w.in : k < j /\ j < i => w.in[j].op # "rebuilt"
          => IF w.in[i].kind = "call" THEN full => w.in[i].recorded ELSE errors => w.in[i].recorded
    /\ (\A j \in DOMAIN w.in : k < j => w.in[j].op # "rebuilt") =>
          (errors => w.errors) /\ (full => w.calls)

\* The enabling of a connection, asked and answered, is its own.
EnablesItself(w, c) ==
    /\ \A i \in DOMAIN w.out : w.out[i].op = "enable" => w.out[i].id = c
    /\ \A i \in DOMAIN w.in : w.in[i].op = "enable" => w.in[i].id = c /\ (w.in[i].ok => w.live)

\* An installed hook covers what its answer says.
AnswersCover(w) ==
    \A i \in DOMAIN w.in :
        w.in[i].op = "surface" /\ w.in[i].ok => Covered(w, i, TRUE, w.in[i].full)

SourcesShape ==
    /\ pin \in [on : BOOLEAN, who : Nat]
    /\ pin.who = 0 \/ pin.who \in OpenLinks
    /\ ~ pin.on => pin.who = 0
    /\ link \in [Links -> LinkShapes] /\ world \in [Links -> WorldShapes]
    /\ cover \in [errors : BOOLEAN, full : BOOLEAN, stale : BOOLEAN]
    /\ hookup \in HookupShapes /\ tally \in TallyShapes
    /\ hookup.stage = "answered" => hookup.from \in Links
    /\ hookup.gen <= tally.gen /\ tally.hookedAt <= tally.gen
    /\ \A c \in Links : ~ link[c].open => link[c] = NoLink /\ world[c] = NoWorld
    /\ \A c \in Links : c > tally.links => ~ link[c].open

WorldsTell == \A c \in Links : EnablesItself(world[c], c) /\ AnswersCover(world[c])

\* The coverage that is gone by, now or as soon as the answer is used, is the
\* locked page's.
CoverTells ==
    \A c \in Links : Pinned(c) /\ ~ cover.stale => Covered(world[c], 0, cover.errors, cover.full)
AnswerTells ==
    hookup.stage = "answered" =>
        /\ \A c \in Links : Pinned(c) => c = hookup.from
        /\ ~ hookup.late => Covered(world[hookup.from], 0, TRUE, hookup.full)

\* A coverage that was given up for another realm is another generation.
GivenUpIsNoticed ==
    \/ cover.errors \/ tally.refreshed \/ tally.hookedAt = 0 \/ tally.gen > tally.hookedAt
    \/ pin.who = 0
    \/ \E i \in DOMAIN world[pin.who].in : world[pin.who].in[i].op = "rebuilt"

MarkedIsLive == \A c \in Links : link[c].mark = "yes" => world[c].live

SourcesInv ==
    /\ SourcesShape /\ WorldsTell /\ CoverTells /\ AnswerTells
    /\ GivenUpIsNoticed /\ MarkedIsLive /\ NothingUnreported

\* What a realm that goes from w to v, behind c, does not take back.
StillTells(w, v, c) ==
    /\ v \in WorldShapes /\ EnablesItself(v, c) /\ AnswersCover(v)
    /\ w.live => v.live
    /\ \A errors, full \in BOOLEAN : Covered(w, 0, errors, full) => Covered(v, 0, errors, full)
    /\ (\E i \in DOMAIN w.in : w.in[i].op = "rebuilt") => \E i \in DOMAIN v.in : v.in[i].op = "rebuilt"

USE ConsoleSourcesSizes

-----------------------------------------------------------------------------
\* Sequences of reports and of requests.
LEMMA FirstTaken ==
    ASSUME NEW S, NEW s \in Seq(S), s # <<>>
    PROVE  /\ Tail(s) \in Seq(S) /\ 1 \in DOMAIN s /\ Head(s) = s[1] /\ s[1] \in S
           /\ DOMAIN s \subseteq Nat \ {0}
           /\ \A i \in DOMAIN Tail(s) : i \in Nat \ {0} /\ i + 1 \in DOMAIN s /\ Tail(s)[i] = s[i + 1]
           /\ \A i \in DOMAIN s : i # 1 => i - 1 \in DOMAIN Tail(s) /\ Tail(s)[i - 1] = s[i]
<1>1. /\ Tail(s) \in Seq(S) /\ Len(Tail(s)) = Len(s) - 1
      /\ \A i \in 1 .. Len(Tail(s)) : Tail(s)[i] = s[i + 1]
  BY HeadTailProperties
<1>2. Len(s) \in Nat \ {0} /\ DOMAIN s = 1 .. Len(s) /\ Head(s) = s[1] /\ s[1] \in S
  BY LenProperties, EmptySeq, HeadTailProperties, ElementOfSeq
<1>3. DOMAIN Tail(s) = 1 .. Len(s) - 1
  BY <1>1, LenProperties
<1> QED
  BY <1>1, <1>2, <1>3

LEMMA LastAdded ==
    ASSUME NEW S, NEW s \in Seq(S), NEW x \in S
    PROVE  /\ Append(s, x) \in Seq(S) /\ Len(s) \in Nat
           /\ DOMAIN s = 1 .. Len(s) /\ DOMAIN Append(s, x) = 1 .. Len(s) + 1
           /\ \A i \in 1 .. Len(s) : Append(s, x)[i] = s[i]
           /\ Append(s, x)[Len(s) + 1] = x
<1>1. /\ Append(s, x) \in Seq(S) /\ Len(Append(s, x)) = Len(s) + 1
      /\ \A i \in 1 .. Len(s) : Append(s, x)[i] = s[i]
      /\ Append(s, x)[Len(s) + 1] = x
  BY AppendProperties
<1> QED
  BY <1>1, LenProperties

-----------------------------------------------------------------------------
\* One realm.

\* A report that is added says what the page records, and takes nothing back.
LEMMA CoverageLasts ==
    ASSUME NEW w \in WorldShapes, NEW v \in WorldShapes, NEW x \in Reports,
           v.in = Append(w.in, x), NEW k \in Nat, k <= Len(w.in),
           NEW errors \in BOOLEAN, NEW full \in BOOLEAN, Covered(w, k, errors, full),
           x.op # "rebuilt" => (w.errors => v.errors) /\ (w.calls => v.calls),
           x.op = "event" => x.recorded = IF x.kind = "call" THEN w.calls ELSE w.errors
    PROVE  Covered(v, k, errors, full)
<1>1. /\ Len(w.in) \in Nat /\ DOMAIN w.in = 1 .. Len(w.in) /\ DOMAIN v.in = 1 .. Len(w.in) + 1
      /\ \A i \in 1 .. Len(w.in) : v.in[i] = w.in[i]
      /\ v.in[Len(w.in) + 1] = x
  BY LastAdded DEF WorldShapes
<1>2. ASSUME NEW i \in DOMAIN v.in, i > k, v.in[i].op = "event",
             \A j \in DOMAIN v.in : k < j /\ j < i => v.in[j].op # "rebuilt"
      PROVE  IF v.in[i].kind = "call" THEN full => v.in[i].recorded ELSE errors => v.in[i].recorded
  <2>1. CASE i \in DOMAIN w.in
    BY <1>1, <1>2, <2>1 DEF Covered
  <2>2. CASE i \notin DOMAIN w.in
    BY <1>1, <1>2, <2>2 DEF Covered
  <2> QED
    BY <2>1, <2>2
<1>3. ASSUME \A j \in DOMAIN v.in : k < j => v.in[j].op # "rebuilt"
      PROVE  (errors => v.errors) /\ (full => v.calls)
  BY <1>1, <1>3 DEF Covered
<1> QED
  BY <1>2, <1>3 DEF Covered

\* A report that is read.
LEMMA CoverageMoves ==
    ASSUME NEW w \in WorldShapes, NEW v \in WorldShapes, w.in # <<>>, v.in = Tail(w.in),
           v.errors = w.errors, v.calls = w.calls, NEW k \in Nat,
           NEW errors \in BOOLEAN, NEW full \in BOOLEAN,
           Covered(w, k + 1, errors, full) \/ (k = 0 /\ Covered(w, 0, errors, full) /\ Head(w.in).op # "rebuilt")
    PROVE  Covered(v, k, errors, full)
<1>1. /\ 1 \in DOMAIN w.in /\ Head(w.in) = w.in[1] /\ DOMAIN w.in \subseteq Nat \ {0}
      /\ \A i \in DOMAIN v.in : i \in Nat \ {0} /\ i + 1 \in DOMAIN w.in /\ v.in[i] = w.in[i + 1]
      /\ \A i \in DOMAIN w.in : i # 1 => i - 1 \in DOMAIN v.in /\ v.in[i - 1] = w.in[i]
  BY FirstTaken DEF WorldShapes
<1>2. PICK m \in Nat :
        /\ Covered(w, m, errors, full) /\ m <= k + 1
        /\ \A j \in DOMAIN w.in : m < j /\ ~ (k + 1 < j) => w.in[j].op # "rebuilt"
  BY <1>1
<1>3. ASSUME NEW i \in DOMAIN v.in, i > k, v.in[i].op = "event",
             \A j \in DOMAIN v.in : k < j /\ j < i => v.in[j].op # "rebuilt"
      PROVE  IF v.in[i].kind = "call" THEN full => v.in[i].recorded ELSE errors => v.in[i].recorded
  <2>1. i \in Nat /\ i + 1 \in DOMAIN w.in /\ v.in[i] = w.in[i + 1] /\ i + 1 > m
    BY <1>1, <1>2, <1>3
  <2>2. ASSUME NEW j \in DOMAIN w.in, m < j, j < i + 1
        PROVE  w.in[j].op # "rebuilt"
    <3>1. j \in Nat
      BY <1>1
    <3>2. CASE k + 1 < j
      <4>2. j # 1 /\ j - 1 \in Nat \ {0} /\ (j - 1) + 1 = j /\ k < j - 1 /\ j - 1 < i
        BY <1>1, <2>1, <2>2, <3>1, <3>2
      <4>1. j # 1 /\ j - 1 \in DOMAIN v.in /\ v.in[j - 1] = w.in[j] /\ k < j - 1 /\ j - 1 < i
        BY <1>1, <2>2, <4>2
      <4> QED
        BY <1>3, <4>1
    <3>3. CASE ~ (k + 1 < j)
      BY <1>2, <2>2, <3>3
    <3> QED
      BY <3>2, <3>3
  <2> QED
    BY <1>2, <1>3, <2>1, <2>2 DEF Covered
<1>4. ASSUME \A j \in DOMAIN v.in : k < j => v.in[j].op # "rebuilt"
      PROVE  (errors => v.errors) /\ (full => v.calls)
  <2>1. ASSUME NEW j \in DOMAIN w.in, m < j
        PROVE  w.in[j].op # "rebuilt"
    <3>1. j \in Nat
      BY <1>1
    <3>2. CASE k + 1 < j
      <4>1. j # 1 /\ j - 1 \in DOMAIN v.in /\ v.in[j - 1] = w.in[j] /\ k < j - 1
        BY <1>1, <3>1, <3>2
      <4> QED
        BY <1>4, <4>1
    <3>3. CASE ~ (k + 1 < j)
      BY <1>2, <2>1, <3>3
    <3> QED
      BY <3>2, <3>3
  <2> QED
    BY <1>2, <2>1 DEF Covered
<1> QED
  BY <1>3, <1>4 DEF Covered

\* What remains as it is tells what it told.
LEMMA TellsItself ==
    ASSUME NEW w \in WorldShapes, NEW c, EnablesItself(w, c), AnswersCover(w)
    PROVE  StillTells(w, w, c)
BY DEF StillTells

LEMMA TellsFurther ==
    ASSUME NEW u, NEW w, NEW v, NEW c, StillTells(u, w, c), StillTells(w, v, c)
    PROVE  StillTells(u, v, c)
BY Zenon DEF StillTells

\* A realm that was never there has nothing to tell.
LEMMA NothingToTell ==
    NoWorld \in WorldShapes /\ \A c : EnablesItself(NoWorld, c) /\ AnswersCover(NoWorld)
<1>1. <<>> \in Seq(Requests) /\ <<>> \in Seq(Reports) /\ DOMAIN <<>> = {}
  BY EmptySeq
<1>2. NoWorld.out = <<>> /\ NoWorld.in = <<>>
  BY DEF NoWorld
<1>3. NoWorld \in WorldShapes
  BY <1>1 DEF NoWorld, WorldShapes
<1> QED
  BY <1>1, <1>2, <1>3 DEF EnablesItself, AnswersCover

\* A report that is added.
LEMMA AddedTells ==
    ASSUME NEW w \in WorldShapes, NEW v \in WorldShapes, NEW c, NEW x \in Reports,
           EnablesItself(w, c), AnswersCover(w),
           v.in = Append(w.in, x), v.live = w.live \/ v.live = TRUE,
           \A i \in DOMAIN v.out : v.out[i].op = "enable" => v.out[i].id = c,
           x.op # "rebuilt" => (w.errors => v.errors) /\ (w.calls => v.calls),
           x.op = "event" => x.recorded = IF x.kind = "call" THEN w.calls ELSE w.errors,
           x.op = "enable" => x.id = c /\ (x.ok => v.live),
           x.op = "surface" /\ x.ok => v.errors /\ (x.full => v.calls)
    PROVE  StillTells(w, v, c)
<1>1. /\ Len(w.in) \in Nat /\ DOMAIN w.in = 1 .. Len(w.in) /\ DOMAIN v.in = 1 .. Len(w.in) + 1
      /\ \A i \in 1 .. Len(w.in) : v.in[i] = w.in[i]
      /\ v.in[Len(w.in) + 1] = x
  BY LastAdded DEF WorldShapes
<1>2. w.live => v.live
  BY DEF WorldShapes
<1>3. \A k \in Nat : \A errors, full \in BOOLEAN :
        k <= Len(w.in) /\ Covered(w, k, errors, full) => Covered(v, k, errors, full)
  BY CoverageLasts
<1>4. EnablesItself(v, c)
  BY <1>1, <1>2 DEF EnablesItself
<1>5. ASSUME NEW i \in DOMAIN v.in, v.in[i].op = "surface", v.in[i].ok
      PROVE  Covered(v, i, TRUE, v.in[i].full)
  <2>1. CASE i \in DOMAIN w.in
    <3>1. v.in[i] = w.in[i] /\ i \in Nat /\ i <= Len(w.in)
      BY <1>1, <2>1
    <3>2. Covered(w, i, TRUE, w.in[i].full)
      BY <1>5, <2>1, <3>1 DEF AnswersCover
    <3>3. w.in[i] \in Reports
      BY <2>1, ElementOfSeq, LenProperties DEF WorldShapes
    <3>4. w.in[i].full \in BOOLEAN
      BY <1>5, <3>1, <3>3 DEF Reports
    <3> QED
      BY <1>3, <3>1, <3>2, <3>4
  <2>2. CASE i \notin DOMAIN w.in
    BY <1>1, <1>5, <2>2 DEF Covered
  <2> QED
    BY <2>1, <2>2
<1>6. AnswersCover(v)
  BY <1>5 DEF AnswersCover
<1>7. \A errors, full \in BOOLEAN : Covered(w, 0, errors, full) => Covered(v, 0, errors, full)
  BY <1>1, <1>3
<1>8. (\E i \in DOMAIN w.in : w.in[i].op = "rebuilt") => \E i \in DOMAIN v.in : v.in[i].op = "rebuilt"
  BY <1>1
<1> QED
  BY <1>2, <1>4, <1>6, <1>7, <1>8 DEF StillTells

\* A report that is read: the answers keep their word, and so does the realm
\* unless it was set up anew.
LEMMA ReadTells ==
    ASSUME NEW w \in WorldShapes, NEW c, EnablesItself(w, c), AnswersCover(w), w.in # <<>>,
           NEW v \in WorldShapes, v.in = Tail(w.in), v.out = w.out,
           v.live = w.live, v.errors = w.errors, v.calls = w.calls
    PROVE  /\ EnablesItself(v, c) /\ AnswersCover(v) /\ v.live = w.live
           /\ Head(w.in) \in Reports
           /\ Head(w.in).op # "rebuilt" => StillTells(w, v, c)
           /\ Head(w.in).op = "enable" => Head(w.in).id = c /\ (Head(w.in).ok => w.live)
           /\ Head(w.in).op = "surface" /\ Head(w.in).ok => Covered(v, 0, TRUE, Head(w.in).full)
           /\ Head(w.in).op = "event" => \A errors, full \in BOOLEAN : Covered(w, 0, errors, full) =>
                IF Head(w.in).kind = "call" THEN full => Head(w.in).recorded
                                            ELSE errors => Head(w.in).recorded
<1>1. /\ 1 \in DOMAIN w.in /\ Head(w.in) = w.in[1] /\ w.in[1] \in Reports
      /\ DOMAIN w.in \subseteq Nat \ {0}
      /\ \A i \in DOMAIN Tail(w.in) : i \in Nat \ {0} /\ i + 1 \in DOMAIN w.in /\ Tail(w.in)[i] = w.in[i + 1]
      /\ \A i \in DOMAIN w.in : i # 1 => i - 1 \in DOMAIN Tail(w.in) /\ Tail(w.in)[i - 1] = w.in[i]
  BY FirstTaken DEF WorldShapes
<1>2. v.in = Tail(w.in) /\ v.out = w.out /\ v.live = w.live /\ v.errors = w.errors /\ v.calls = w.calls
  OBVIOUS
<1>3. EnablesItself(v, c)
  BY <1>1, <1>2 DEF EnablesItself
<1>4. ASSUME NEW k \in Nat, NEW m, m = k + 1,
             NEW errors \in BOOLEAN, NEW full \in BOOLEAN, Covered(w, m, errors, full)
      PROVE  Covered(v, k, errors, full)
  BY <1>2, <1>4, CoverageMoves
<1>5. ASSUME NEW i \in DOMAIN v.in, v.in[i].op = "surface", v.in[i].ok
      PROVE  Covered(v, i, TRUE, v.in[i].full)
  <2>1. i \in Nat /\ i + 1 \in DOMAIN w.in /\ v.in[i] = w.in[i + 1]
    BY <1>1, <1>2
  <2>2. w.in[i + 1] \in Reports
    BY <2>1, ElementOfSeq, LenProperties DEF WorldShapes
  <2>3. w.in[i + 1].full \in BOOLEAN
    BY <1>5, <2>1, <2>2 DEF Reports
  <2>4. Covered(w, i + 1, TRUE, w.in[i + 1].full)
    BY <1>5, <2>1 DEF AnswersCover
  <2> QED
    BY <1>4, <2>1, <2>3, <2>4
<1>6. AnswersCover(v)
  BY <1>5 DEF AnswersCover
<1>7. Head(w.in).op # "rebuilt" => StillTells(w, v, c)
  <2> SUFFICES ASSUME Head(w.in).op # "rebuilt" PROVE StillTells(w, v, c)
    OBVIOUS
  <2>1. \A errors, full \in BOOLEAN : Covered(w, 0, errors, full) => Covered(v, 0, errors, full)
    BY <1>2, CoverageMoves
  <2>2. ASSUME NEW i \in DOMAIN w.in, w.in[i].op = "rebuilt"
        PROVE  \E j \in DOMAIN v.in : v.in[j].op = "rebuilt"
    <3>1. i # 1
      BY <1>1, <2>2
    <3>2. i - 1 \in DOMAIN v.in /\ v.in[i - 1] = w.in[i]
      BY <1>1, <1>2, <3>1
    <3> QED
      BY <2>2, <3>2
  <2> QED
    BY <1>2, <1>3, <1>6, <2>1, <2>2 DEF StillTells
<1>8. Head(w.in).op = "enable" => Head(w.in).id = c /\ (Head(w.in).ok => w.live)
  BY <1>1 DEF EnablesItself
<1>9. ASSUME Head(w.in).op = "surface", Head(w.in).ok
      PROVE  Covered(v, 0, TRUE, Head(w.in).full)
  <2>1. w.in[1].full \in BOOLEAN
    BY <1>1, <1>9 DEF Reports
  <2>2. Covered(w, 1, TRUE, w.in[1].full)
    BY <1>1, <1>9 DEF AnswersCover
  <2>3. 1 = 0 + 1
    OBVIOUS
  <2> QED
    BY <1>1, <1>4, <2>1, <2>2, <2>3
<1>10. ASSUME Head(w.in).op = "event", NEW errors \in BOOLEAN, NEW full \in BOOLEAN, Covered(w, 0, errors, full)
       PROVE  IF Head(w.in).kind = "call" THEN full => Head(w.in).recorded
                                          ELSE errors => Head(w.in).recorded
  BY <1>1, <1>10 DEF Covered
<1> QED
  BY <1>1, <1>2, <1>3, <1>6, <1>7, <1>8, <1>9, <1>10

\* A command that is sent.
LEMMA SentTells ==
    ASSUME NEW w \in WorldShapes, NEW c, EnablesItself(w, c), AnswersCover(w),
           NEW op \in {"enable", "script", "surface"}, NEW id \in Nat, op = "enable" => id = c
    PROVE  StillTells(w, Sent(w, op, id), c) /\ Sent(w, op, id).live = w.live
<1> DEFINE x == [op |-> op, id |-> id]
           v == Sent(w, op, id)
<1>1. x \in Requests
  BY DEF Requests
<1>2. /\ Append(w.out, x) \in Seq(Requests) /\ Len(w.out) \in Nat
      /\ DOMAIN w.out = 1 .. Len(w.out) /\ DOMAIN Append(w.out, x) = 1 .. Len(w.out) + 1
      /\ \A i \in 1 .. Len(w.out) : Append(w.out, x)[i] = w.out[i]
      /\ Append(w.out, x)[Len(w.out) + 1] = x
  BY <1>1, LastAdded DEF WorldShapes
<1>3. /\ v \in WorldShapes /\ v.out = Append(w.out, x) /\ v.in = w.in
      /\ v.live = w.live /\ v.errors = w.errors /\ v.calls = w.calls
  BY <1>2 DEF Sent, WorldShapes
<1> HIDE DEF v
<1>4. EnablesItself(v, c)
  BY <1>2, <1>3 DEF EnablesItself
<1>5. \A k, errors, full : Covered(w, k, errors, full) => Covered(v, k, errors, full)
  BY <1>3 DEF Covered
<1>6. AnswersCover(v)
  BY <1>3, <1>5 DEF AnswersCover
<1>7. StillTells(w, v, c) /\ v.live = w.live
  BY <1>3, <1>4, <1>5, <1>6 DEF StillTells
<1> QED
  BY <1>7 DEF v

\* A coverage that was given up claims nothing.
LEMMA NoClaim == \A w, k : Covered(w, k, FALSE, FALSE)
BY DEF Covered

-----------------------------------------------------------------------------
\* A step that leaves the lock and the coverage alone.
RealmsMove ==
    /\ world' \in [Links -> WorldShapes]
    /\ \A c \in Links : StillTells(world[c], world'[c], c)
    /\ \A c \in Links : ~ link[c].open => world'[c] = NoWorld
LinksStay ==
    /\ link' \in [Links -> LinkShapes]
    /\ \A c \in Links : /\ link'[c].open = link[c].open
                        /\ ~ link[c].open => link'[c] = NoLink
                        /\ link'[c].mark = "yes" => world'[c].live
HookupMoves ==
    \/ hookup' = hookup
    \/ /\ hookup' \in HookupShapes /\ hookup'.gen <= tally.gen
       /\ hookup'.stage = "answered" => hookup'.from \in Links
       /\ AnswerTells'
CountsMove ==
    /\ tally' \in TallyShapes /\ tally'.links = tally.links /\ tally'.gen = tally.gen
    /\ tally'.hookedAt = tally.hookedAt /\ tally'.refreshed = tally.refreshed
    /\ tally'.lost = FALSE

LEMMA RealmsStillTell ==
    ASSUME RealmsMove PROVE WorldsTell'
BY DEF RealmsMove, StillTells, WorldsTell

LEMMA WorldsMove ==
    ASSUME SourcesInv, RealmsMove, LinksStay, HookupMoves, CountsMove, UNCHANGED <<pin, cover>>
    PROVE  SourcesInv'
<1>1. WorldsTell'
  BY RealmsStillTell
<1>2. SourcesShape'
  BY DEF HookupMoves, SourcesInv, SourcesShape, OpenLinks, LinksStay, CountsMove, RealmsMove
<1>3. CoverTells'
  BY DEF SourcesInv, SourcesShape, Pinned, CoverTells, RealmsMove, StillTells
<1>4. AnswerTells'
  <2> SUFFICES ASSUME hookup' = hookup PROVE AnswerTells'
    BY DEF HookupMoves
  <2> SUFFICES ASSUME hookup.stage = "answered"
               PROVE  /\ \A c \in Links : Pinned(c)' => c = hookup.from
                      /\ ~ hookup.late => Covered(world'[hookup.from], 0, TRUE, hookup.full)
    BY DEF AnswerTells
  <2>1. hookup.from \in Links /\ hookup.full \in BOOLEAN
    BY DEF SourcesInv, SourcesShape, HookupShapes
  <2>2. \A c \in Links : Pinned(c)' => c = hookup.from
    BY DEF SourcesInv, AnswerTells, Pinned
  <2>3. ~ hookup.late => Covered(world[hookup.from], 0, TRUE, hookup.full)
    BY DEF SourcesInv, AnswerTells
  <2>4. StillTells(world[hookup.from], world'[hookup.from], hookup.from)
    BY <2>1 DEF RealmsMove
  <2> QED
    BY <2>1, <2>2, <2>3, <2>4 DEF StillTells
<1>5. GivenUpIsNoticed'
  BY DEF SourcesInv, GivenUpIsNoticed, CountsMove, SourcesShape, OpenLinks, RealmsMove, StillTells
<1>6. MarkedIsLive' /\ NothingUnreported'
  BY DEF LinksStay, CountsMove, MarkedIsLive, NothingUnreported
<1> QED
  BY <1>1, <1>2, <1>3, <1>4, <1>5, <1>6 DEF SourcesInv

\* Nothing moves, or one realm does.
LEMMA RealmsRest ==
    ASSUME SourcesInv, UNCHANGED world
    PROVE  RealmsMove
<1>1. /\ world \in [Links -> WorldShapes]
      /\ \A c \in Links : ~ link[c].open => world[c] = NoWorld
      /\ \A c \in Links : EnablesItself(world[c], c) /\ AnswersCover(world[c])
  BY DEF SourcesInv, SourcesShape, WorldsTell
<1>2. \A c \in Links : StillTells(world[c], world[c], c)
  BY <1>1, TellsItself
<1> QED
  BY <1>1, <1>2 DEF RealmsMove

LEMMA OneRealm ==
    ASSUME SourcesInv, NEW c \in OpenLinks, NEW v, StillTells(world[c], v, c),
           world' = [world EXCEPT ![c] = v]
    PROVE  RealmsMove
<1>1. /\ world \in [Links -> WorldShapes]
      /\ \A d \in Links : ~ link[d].open => world[d] = NoWorld
      /\ \A d \in Links : EnablesItself(world[d], d) /\ AnswersCover(world[d])
  BY DEF SourcesInv, SourcesShape, WorldsTell
<1>2. \A d \in Links : StillTells(world[d], world[d], d)
  BY <1>1, TellsItself
<1>3. c \in Links /\ link[c].open
  BY DEF OpenLinks
<1>4. v \in WorldShapes
  BY DEF StillTells
<1>5. /\ world' \in [Links -> WorldShapes] /\ world'[c] = v
      /\ \A d \in Links : d # c => world'[d] = world[d]
  BY <1>1, <1>3, <1>4
<1>6. \A d \in Links : StillTells(world[d], world'[d], d)
  BY <1>2, <1>5
<1> QED
  BY <1>1, <1>3, <1>5, <1>6 DEF RealmsMove

LEMMA LinksRest ==
    ASSUME SourcesInv, RealmsMove, UNCHANGED link
    PROVE  LinksStay
BY DEF SourcesInv, SourcesShape, MarkedIsLive, RealmsMove, StillTells, LinksStay

\* An occasion is used up.
LEMMA OccasionSpent ==
    ASSUME SourcesInv, tally' = tally \/ tally' = Spent(tally)
    PROVE  CountsMove
<1>1. tally \in TallyShapes /\ tally.lost = FALSE
  BY DEF SourcesInv, SourcesShape, NothingUnreported, TallyShapes
<1>2. Spent(tally) \in TallyShapes
  BY <1>1 DEF TallyShapes, Spent
<1>3. /\ Spent(tally).links = tally.links /\ Spent(tally).gen = tally.gen
      /\ Spent(tally).hookedAt = tally.hookedAt /\ Spent(tally).refreshed = tally.refreshed
      /\ Spent(tally).lost = tally.lost
  BY <1>1 DEF Spent, TallyShapes
<1> QED
  BY <1>1, <1>2, <1>3 DEF CountsMove

-----------------------------------------------------------------------------
\* What the target does.
Executed(w, ok) ==
    LET do == Head(w.out)
        works == ok /\ (do.op = "surface" => w.script)
        calls == w.calls \/ (do.op = "surface" /\ works /\ w.wraps)
    IN [w EXCEPT
            !.out = Tail(@),
            !.live = @ \/ (do.op = "enable" /\ ok),
            !.script = @ \/ (do.op = "script" /\ ok),
            !.calls = calls,
            !.errors = @ \/ (do.op = "surface" /\ works),
            !.in = Append(@, [op |-> do.op, id |-> do.id, ok |-> works, full |-> calls])]

LEMMA ExecutedTells ==
    ASSUME NEW w \in WorldShapes, NEW c, EnablesItself(w, c), AnswersCover(w), w.out # <<>>,
           NEW ok \in BOOLEAN
    PROVE  StillTells(w, Executed(w, ok), c)
<1>1. /\ Tail(w.out) \in Seq(Requests) /\ 1 \in DOMAIN w.out /\ Head(w.out) = w.out[1]
      /\ w.out[1] \in Requests
      /\ \A i \in DOMAIN Tail(w.out) : i + 1 \in DOMAIN w.out /\ Tail(w.out)[i] = w.out[i + 1]
  BY FirstTaken DEF WorldShapes
<1>2. PICK do \in Requests : do = Head(w.out)
  BY <1>1
<1>3. do.op \in {"enable", "script", "surface"} /\ do.id \in Nat
  BY DEF Requests
<1>4. PICK works \in BOOLEAN : works = (ok /\ (do.op = "surface" => w.script))
  OBVIOUS
<1>5. PICK calls \in BOOLEAN : calls = (w.calls \/ (do.op = "surface" /\ works /\ w.wraps))
  OBVIOUS
<1>6. PICK live \in BOOLEAN : live = (w.live \/ (do.op = "enable" /\ ok))
  OBVIOUS
<1>7. PICK loaded \in BOOLEAN : loaded = (w.script \/ (do.op = "script" /\ ok))
  OBVIOUS
<1>8. PICK errors \in BOOLEAN : errors = (w.errors \/ (do.op = "surface" /\ works))
  OBVIOUS
<1>9. PICK x \in Reports : x = [op |-> do.op, id |-> do.id, ok |-> works, full |-> calls]
  BY <1>3 DEF Reports
<1>10. Executed(w, ok) = [w EXCEPT !.out = Tail(w.out), !.live = live, !.script = loaded,
                                   !.calls = calls, !.errors = errors, !.in = Append(w.in, x)]
  BY <1>2, <1>4, <1>5, <1>6, <1>7, <1>8, <1>9 DEF Executed, WorldShapes
<1>11. Append(w.in, x) \in Seq(Reports)
  BY LastAdded DEF WorldShapes
<1>12. PICK v : v = [w EXCEPT !.out = Tail(w.out), !.live = live, !.script = loaded,
                              !.calls = calls, !.errors = errors, !.in = Append(w.in, x)]
  OBVIOUS
<1>13. /\ v \in WorldShapes /\ v.in = Append(w.in, x) /\ v.out = Tail(w.out)
       /\ v.live = live /\ v.calls = calls /\ v.errors = errors
  BY ZenonT(60), <1>1, <1>11, <1>12 DEF WorldShapes
<1>14. x.op = do.op /\ x.id = do.id /\ x.ok = works /\ x.full = calls
  BY <1>9
<1>15. v.live = w.live \/ v.live = TRUE
  BY <1>6, <1>13 DEF WorldShapes
<1>16. \A i \in DOMAIN v.out : v.out[i].op = "enable" => v.out[i].id = c
  BY <1>1, <1>13 DEF EnablesItself
<1>17. (w.errors => v.errors) /\ (w.calls => v.calls)
  BY <1>5, <1>8, <1>13
<1>18. x.op # "event"
  BY <1>3, <1>14
<1>19. x.op = "enable" => x.id = c /\ (x.ok => v.live)
  BY <1>1, <1>2, <1>4, <1>6, <1>13, <1>14 DEF EnablesItself
<1>20. x.op = "surface" /\ x.ok => v.errors /\ (x.full => v.calls)
  BY <1>8, <1>13, <1>14
<1>21. StillTells(w, v, c)
  BY <1>13, <1>15, <1>16, <1>17, <1>18, <1>19, <1>20, AddedTells
<1> QED
  BY <1>10, <1>12, <1>21

LEMMA EmittedTells ==
    ASSUME NEW w \in WorldShapes, NEW c, EnablesItself(w, c), AnswersCover(w),
           NEW kind \in {"call", "error"}, NEW recorded,
           recorded = IF kind = "call" THEN w.calls ELSE w.errors
    PROVE  StillTells(w, [w EXCEPT !.in = Append(@, [op |-> "event", kind |-> kind,
                                                     recorded |-> recorded])], c)
<1>1. recorded \in BOOLEAN
  BY DEF WorldShapes
<1>2. PICK x \in Reports : x = [op |-> "event", kind |-> kind, recorded |-> recorded]
  BY <1>1 DEF Reports
<1>3. PICK v : v = [w EXCEPT !.in = Append(w.in, x)]
  OBVIOUS
<1>4. Append(w.in, x) \in Seq(Reports)
  BY LastAdded DEF WorldShapes
<1>5. /\ v \in WorldShapes /\ v.in = Append(w.in, x) /\ v.out = w.out
      /\ v.live = w.live /\ v.calls = w.calls /\ v.errors = w.errors
  BY <1>3, <1>4 DEF WorldShapes
<1>6. x.op = "event" /\ x.recorded = IF x.kind = "call" THEN w.calls ELSE w.errors
  BY <1>2
<1>7. \A i \in DOMAIN v.out : v.out[i].op = "enable" => v.out[i].id = c
  BY <1>5 DEF EnablesItself
<1>8. x.op # "enable" /\ x.op # "surface"
  BY <1>6
<1>9. StillTells(w, v, c)
  BY <1>5, <1>6, <1>7, <1>8, AddedTells
<1>10. v = [w EXCEPT !.in = Append(@, [op |-> "event", kind |-> kind, recorded |-> recorded])]
  BY <1>2, <1>3
<1> QED
  BY <1>9, <1>10

LEMMA RebuiltTells ==
    ASSUME NEW w \in WorldShapes, NEW c, EnablesItself(w, c), AnswersCover(w),
           NEW wraps \in BOOLEAN
    PROVE  StillTells(w, [NoWorld EXCEPT !.wraps = wraps, !.live = w.live, !.out = w.out,
                             !.in = Append(w.in, [op |-> "rebuilt"])], c)
<1>1. PICK x \in Reports : x = [op |-> "rebuilt"]
  BY DEF Reports
<1>2. PICK v : v = [NoWorld EXCEPT !.wraps = wraps, !.live = w.live, !.out = w.out, !.in = Append(w.in, x)]
  OBVIOUS
<1>3. Append(w.in, x) \in Seq(Reports)
  BY LastAdded DEF WorldShapes
<1>4. /\ v \in WorldShapes /\ v.in = Append(w.in, x) /\ v.out = w.out /\ v.live = w.live
  BY <1>2, <1>3 DEF WorldShapes, NoWorld
<1>5. \A i \in DOMAIN v.out : v.out[i].op = "enable" => v.out[i].id = c
  BY <1>4 DEF EnablesItself
<1>6. x.op = "rebuilt"
  BY <1>1
<1>7. StillTells(w, v, c)
  BY <1>4, <1>5, <1>6, AddedTells
<1> QED
  BY <1>1, <1>2, <1>7

-----------------------------------------------------------------------------
\* One lemma for each step: the target.
LEMMA RealmTold ==
    ASSUME SourcesInv, NEW c \in OpenLinks
    PROVE  c \in Links /\ world[c] \in WorldShapes /\ EnablesItself(world[c], c) /\ AnswersCover(world[c])
BY DEF SourcesInv, SourcesShape, WorldsTell, OpenLinks

LEMMA HookupRests == ASSUME UNCHANGED hookup PROVE HookupMoves
BY DEF HookupMoves

LEMMA ExecuteKeeps ==
    ASSUME SourcesInv, NEW c \in Links, NEW ok \in BOOLEAN, ExecuteNext(c, ok)
    PROVE  SourcesInv'
<1>1. /\ c \in OpenLinks /\ world[c].out # <<>>
      /\ world' = [world EXCEPT ![c] = Executed(world[c], ok)]
      /\ tally' = tally \/ tally' = Spent(tally)
      /\ UNCHANGED <<pin, link, cover, hookup>>
  BY DEF ExecuteNext, Executed
<1>2. StillTells(world[c], Executed(world[c], ok), c)
  BY <1>1, RealmTold, ExecutedTells
<1>3. RealmsMove
  BY <1>1, <1>2, OneRealm
<1> QED
  BY <1>1, <1>3, LinksRest, OccasionSpent, HookupRests, WorldsMove

LEMMA EmitKeeps ==
    ASSUME SourcesInv, NEW c \in Links, NEW kind \in {"call", "error"}, Emit(c, kind)
    PROVE  SourcesInv'
<1>1. PICK recorded : recorded = IF kind = "call" THEN world[c].calls ELSE world[c].errors
  OBVIOUS
<1>2. /\ c \in OpenLinks
      /\ world' = [world EXCEPT ![c].in =
             Append(@, [op |-> "event", kind |-> kind, recorded |-> recorded])]
      /\ tally' = Spent(tally) /\ UNCHANGED <<pin, link, cover, hookup>>
  BY <1>1 DEF Emit
<1>3. StillTells(world[c], [world[c] EXCEPT !.in = Append(@, [op |-> "event", kind |-> kind,
                                                     recorded |-> recorded])], c)
  BY <1>1, <1>2, RealmTold, EmittedTells
<1>4. RealmsMove
  BY <1>2, <1>3, OneRealm
<1> QED
  BY <1>2, <1>4, LinksRest, OccasionSpent, HookupRests, WorldsMove

LEMMA RealmRebuildKeeps ==
    ASSUME SourcesInv, NEW c \in Links, NEW wraps \in BOOLEAN, RebuildWorld(c, wraps)
    PROVE  SourcesInv'
<1>1. /\ c \in OpenLinks
      /\ world' = [world EXCEPT ![c] = [NoWorld EXCEPT
           !.wraps = wraps, !.live = world[c].live, !.out = world[c].out,
           !.in = Append(world[c].in, [op |-> "rebuilt"])]]
      /\ tally' = Spent(tally) /\ UNCHANGED <<pin, link, cover, hookup>>
  BY DEF RebuildWorld
<1>2. StillTells(world[c], [NoWorld EXCEPT
           !.wraps = wraps, !.live = world[c].live, !.out = world[c].out,
           !.in = Append(world[c].in, [op |-> "rebuilt"])], c)
  BY <1>1, RealmTold, RebuiltTells
<1>3. RealmsMove
  BY <1>1, <1>2, OneRealm
<1> QED
  BY <1>1, <1>3, LinksRest, OccasionSpent, HookupRests, WorldsMove

-----------------------------------------------------------------------------
\* What the bridge reads.
ReadOff(w) == [w EXCEPT !.in = Tail(@)]

LEMMA ReadOffTells ==
    ASSUME NEW w \in WorldShapes, NEW c, EnablesItself(w, c), AnswersCover(w), w.in # <<>>,
           NEW v, v = ReadOff(w)
    PROVE  /\ v \in WorldShapes /\ EnablesItself(v, c) /\ AnswersCover(v) /\ v.live = w.live
           /\ Head(w.in) \in Reports
           /\ Head(w.in).op # "rebuilt" => StillTells(w, v, c)
           /\ Head(w.in).op = "enable" => Head(w.in).id = c /\ (Head(w.in).ok => w.live)
           /\ Head(w.in).op = "surface" /\ Head(w.in).ok => Covered(v, 0, TRUE, Head(w.in).full)
           /\ Head(w.in).op = "event" => \A errors, full \in BOOLEAN : Covered(w, 0, errors, full) =>
                IF Head(w.in).kind = "call" THEN full => Head(w.in).recorded
                                            ELSE errors => Head(w.in).recorded
<1>1. Tail(w.in) \in Seq(Reports)
  BY FirstTaken DEF WorldShapes
<1>2. /\ v \in WorldShapes /\ v.in = Tail(w.in) /\ v.out = w.out
      /\ v.live = w.live /\ v.errors = w.errors /\ v.calls = w.calls
  BY <1>1 DEF ReadOff, WorldShapes
<1> QED
  BY <1>2, ReadTells

LEMMA ReadableTells ==
    ASSUME SourcesInv, NEW c \in Links, Readable(c)
    PROVE  /\ c \in OpenLinks /\ world[c] \in WorldShapes /\ world[c].in # <<>>
           /\ EnablesItself(world[c], c) /\ AnswersCover(world[c])
           /\ Read(c) = [world EXCEPT ![c] = ReadOff(world[c])]
<1>1. /\ world \in [Links -> WorldShapes] /\ EnablesItself(world[c], c) /\ AnswersCover(world[c])
      /\ ~ link[c].open => world[c] = NoWorld
  BY DEF SourcesInv, SourcesShape, WorldsTell
<1>2. world[c].in # <<>>
  BY DEF Readable
<1>3. c \in OpenLinks
  BY <1>1, <1>2 DEF OpenLinks, NoWorld
<1>4. Read(c) = [world EXCEPT ![c] = ReadOff(world[c])]
  BY DEF Read, ReadOff
<1> QED
  BY <1>1, <1>2, <1>3, <1>4

\* A frame other than the set up of a context.
LEMMA ReadOnTells ==
    ASSUME SourcesInv, NEW c \in Links, Readable(c), Next1(c).op # "rebuilt", NEW w, w = Read(c)
    PROVE  /\ w \in [Links -> WorldShapes] /\ w[c] = ReadOff(world[c])
           /\ \A d \in Links : StillTells(world[d], w[d], d)
           /\ \A d \in Links : ~ link[d].open => w[d] = NoWorld
<1>1. /\ world \in [Links -> WorldShapes]
      /\ \A d \in Links : ~ link[d].open => world[d] = NoWorld
      /\ \A d \in Links : EnablesItself(world[d], d) /\ AnswersCover(world[d])
  BY DEF SourcesInv, SourcesShape, WorldsTell
<1>2. \A d \in Links : StillTells(world[d], world[d], d)
  BY <1>1, TellsItself
<1>3. PICK v : v = ReadOff(world[c])
  OBVIOUS
<1>4. StillTells(world[c], v, c) /\ v \in WorldShapes
  BY <1>3, ReadableTells, ReadOffTells DEF Next1
<1>5. w = [world EXCEPT ![c] = v] /\ link[c].open
  BY <1>3, ReadableTells DEF OpenLinks
<1>6. /\ w \in [Links -> WorldShapes] /\ w[c] = v
      /\ \A d \in Links : d # c => w[d] = world[d]
  BY <1>1, <1>4, <1>5
<1> QED
  BY <1>1, <1>2, <1>3, <1>4, <1>5, <1>6

LEMMA ReadOnMoves ==
    ASSUME SourcesInv, NEW c \in Links, Readable(c), Next1(c).op # "rebuilt", world' = Read(c)
    PROVE  RealmsMove /\ world'[c] = ReadOff(world[c])
BY ReadOnTells DEF RealmsMove

\* An evaluation goes out.
LEMMA Evaluated ==
    ASSUME SourcesInv, NEW w \in [Links -> WorldShapes], NEW op \in {"script", "surface"},
           \A d \in Links : StillTells(world[d], w[d], d),
           \A d \in Links : ~ link[d].open => w[d] = NoWorld,
           EvaluateAll(op, w, op)
    PROVE  RealmsMove /\ HookupMoves
<1>1. /\ tally.ids \in Nat /\ tally.gen \in Nat /\ hookup \in HookupShapes /\ hookup.gen <= tally.gen
      /\ pin.who = 0 \/ pin.who \in OpenLinks
  BY DEF SourcesInv, SourcesShape, TallyShapes
<1>2. PICK id \in Nat : id = tally.ids + 1
  BY <1>1
<1>3. ASSUME NEW d \in Links
      PROVE  /\ world'[d] = IF d \in Routed THEN Sent(w[d], op, id) ELSE w[d]
             /\ StillTells(world[d], world'[d], d)
             /\ ~ link[d].open => world'[d] = NoWorld
  <2>1. world'[d] = IF d \in Routed THEN Sent(w[d], op, id) ELSE w[d]
    BY <1>2 DEF EvaluateAll
  <2>2. w[d] \in WorldShapes /\ EnablesItself(w[d], d) /\ AnswersCover(w[d])
    BY DEF StillTells
  <2>3. StillTells(w[d], Sent(w[d], op, id), d)
    BY <2>2, SentTells
  <2>4. StillTells(world[d], world'[d], d)
    BY <2>1, <2>3, TellsFurther
  <2>5. ~ link[d].open => d \notin Routed
    BY DEF Routed, OpenLinks
  <2> QED
    BY <2>1, <2>4, <2>5
<1>4. world' \in [Links -> WorldShapes]
  <2>1. world' = [d \in Links |-> IF d \in Routed THEN Sent(w[d], op, id) ELSE w[d]]
    BY <1>2 DEF EvaluateAll
  <2>2. \A d \in Links : world'[d] \in WorldShapes
    BY <1>3 DEF StillTells
  <2> HIDE <1>3
  <2> QED
    BY <2>1, <2>2
<1>5. PICK gen \in Nat : gen = IF op = "script" THEN tally.gen ELSE hookup.gen
  BY <1>1 DEF HookupShapes
<1>6. hookup' = [hookup EXCEPT !.stage = op, !.id = id, !.gen = gen]
  BY <1>1, <1>2, <1>5 DEF EvaluateAll, HookupShapes
<1>7. hookup' \in HookupShapes /\ hookup'.stage = op /\ hookup'.gen = gen
  BY <1>1, <1>6 DEF HookupShapes
<1>8. HookupMoves
  <2>1. hookup'.stage # "answered"
    BY <1>7
  <2>2. hookup'.gen <= tally.gen
    BY <1>1, <1>5, <1>7
  <2>3. AnswerTells'
    BY <2>1 DEF AnswerTells
  <2> QED
    BY <1>7, <2>1, <2>2, <2>3 DEF HookupMoves
<1> QED
  BY <1>3, <1>4, <1>8 DEF RealmsMove

\* A count of evaluations.
LEMMA IdTaken ==
    ASSUME SourcesInv,
           \/ tally' = [tally EXCEPT !.ids = @ + 1]
           \/ tally' = Spent([tally EXCEPT !.ids = @ + 1])
    PROVE  CountsMove
<1>1. tally \in TallyShapes /\ tally.lost = FALSE
  BY DEF SourcesInv, SourcesShape, NothingUnreported, TallyShapes
<1>2. PICK n \in Nat : n = tally.ids + 1
  BY <1>1 DEF TallyShapes
<1>2a. PICK t : t = [tally EXCEPT !.ids = n]
  OBVIOUS
<1>2b. tally' = t \/ tally' = Spent(t)
  BY <1>1, <1>2, <1>2a DEF TallyShapes
<1>3. /\ t \in TallyShapes /\ t.spent \in Nat /\ t.links = tally.links /\ t.gen = tally.gen
      /\ t.hookedAt = tally.hookedAt /\ t.refreshed = tally.refreshed /\ t.lost = FALSE
  BY <1>1, <1>2a DEF TallyShapes
<1>4. PICK m \in Nat : m = t.spent + 1
  BY <1>3
<1>5. Spent(t) = [t EXCEPT !.spent = m]
  BY <1>3, <1>4 DEF Spent, TallyShapes
<1>6. /\ Spent(t) \in TallyShapes /\ Spent(t).links = t.links /\ Spent(t).gen = t.gen
      /\ Spent(t).hookedAt = t.hookedAt /\ Spent(t).refreshed = t.refreshed /\ Spent(t).lost = t.lost
  BY <1>3, <1>5 DEF TallyShapes
<1> QED
  BY <1>3, <1>6, <1>2b DEF CountsMove

LEMMA BeginKeeps == ASSUME SourcesInv, BeginInstall PROVE SourcesInv'
<1>1. /\ world \in [Links -> WorldShapes]
      /\ \A d \in Links : ~ link[d].open => world[d] = NoWorld
      /\ \A d \in Links : EnablesItself(world[d], d) /\ AnswersCover(world[d])
  BY DEF SourcesInv, SourcesShape, WorldsTell
<1>2. \A d \in Links : StillTells(world[d], world[d], d)
  BY <1>1, TellsItself
<1>3. /\ EvaluateAll("script", world, "script") /\ UNCHANGED <<pin, link, cover>>
      /\ tally' = Spent([tally EXCEPT !.ids = @ + 1])
  BY DEF BeginInstall
<1>4. RealmsMove /\ HookupMoves
  BY <1>1, <1>2, <1>3, Evaluated
<1> QED
  BY <1>3, <1>4, IdTaken, LinksRest, WorldsMove

LEMMA NoHookupMoves == ASSUME SourcesInv, hookup' = NoHookup PROVE HookupMoves
<1>1. NoHookup \in HookupShapes /\ NoHookup.stage = "none" /\ NoHookup.gen = 0 /\ tally.gen \in Nat
  BY DEF NoHookup, HookupShapes, SourcesInv, SourcesShape, TallyShapes
<1> QED
  BY <1>1 DEF HookupMoves, AnswerTells

LEMMA InstallExpiresKeeps == ASSUME SourcesInv, InstallExpires PROVE SourcesInv'
<1>1. hookup' = NoHookup /\ tally' = Spent(tally) /\ UNCHANGED <<pin, link, cover, world>>
  BY DEF InstallExpires
<1> QED
  BY <1>1, NoHookupMoves, RealmsRest, LinksRest, OccasionSpent, WorldsMove

LEMMA EnableExpiresKeeps == ASSUME SourcesInv, NEW c \in Links, EnableExpires(c) PROVE SourcesInv'
<1>1. /\ link[c].mark = "asked" /\ link' = [link EXCEPT ![c].mark = "no"]
      /\ tally' = Spent(tally) /\ UNCHANGED <<pin, cover, world, hookup>>
  BY DEF EnableExpires
<1>2. /\ link \in [Links -> LinkShapes] /\ (~ link[c].open => link[c] = NoLink)
      /\ \A d \in Links : ~ link[d].open => link[d] = NoLink
      /\ \A d \in Links : link[d].mark = "yes" => world[d].live
  BY DEF SourcesInv, SourcesShape, MarkedIsLive
<1>3. link[c].open
  BY <1>1, <1>2 DEF NoLink
<1>4. /\ link' \in [Links -> LinkShapes] /\ link'[c].open = link[c].open /\ link'[c].mark = "no"
      /\ \A d \in Links : d # c => link'[d] = link[d]
  BY <1>1, <1>2 DEF LinkShapes
<1>5. LinksStay
  BY <1>1, <1>2, <1>3, <1>4 DEF LinksStay
<1> QED
  BY <1>1, <1>5, RealmsRest, HookupRests, OccasionSpent, WorldsMove

LEMMA ReadEventKeeps == ASSUME SourcesInv, NEW c \in Links, ReadEvent(c) PROVE SourcesInv'
<1>1. /\ Readable(c) /\ Next1(c).op = "event" /\ world' = Read(c)
      /\ UNCHANGED <<pin, link, cover, hookup>>
  BY DEF ReadEvent
<1>2. RealmsMove
  BY <1>1, ReadOnMoves
<1>3. PICK covered : covered = IF Next1(c).kind = "call" THEN cover.full ELSE cover.errors
  OBVIOUS
<1>4. tally' = [tally EXCEPT !.lost = @ \/
             (Pinned(c) /\ covered /\ ~ Next1(c).recorded /\ ~ cover.stale)]
  BY <1>3 DEF ReadEvent
<1>5. /\ tally \in TallyShapes /\ tally.lost = FALSE
      /\ cover.errors \in BOOLEAN /\ cover.full \in BOOLEAN
  BY DEF SourcesInv, SourcesShape, NothingUnreported, TallyShapes
<1>6. ~ (Pinned(c) /\ covered /\ ~ Next1(c).recorded /\ ~ cover.stale)
  <2> SUFFICES ASSUME Pinned(c), ~ cover.stale, covered PROVE Next1(c).recorded
    OBVIOUS
  <2>1. Covered(world[c], 0, cover.errors, cover.full)
    BY DEF SourcesInv, CoverTells
  <2>2. PICK v : v = ReadOff(world[c])
    OBVIOUS
  <2>3. IF Next1(c).kind = "call" THEN cover.full => Next1(c).recorded
                                  ELSE cover.errors => Next1(c).recorded
    BY <1>1, <1>5, <2>1, <2>2, ReadableTells, ReadOffTells DEF Next1
  <2> QED
    BY <1>3, <2>3
<1>7. CountsMove
  BY <1>4, <1>5, <1>6 DEF CountsMove, TallyShapes
<1> QED
  BY <1>1, <1>2, <1>7, LinksRest, HookupRests, WorldsMove

\* What the reply in the inbox says.
LEMMA ReplyTells ==
    ASSUME SourcesInv, NEW c \in Links, Readable(c),
           Next1(c).op \in {"enable", "script", "surface"}
    PROVE  /\ Next1(c).id \in Nat /\ Next1(c).ok \in BOOLEAN /\ Next1(c).full \in BOOLEAN
           /\ Next1(c).op = "enable" => Next1(c).id = c /\ (Next1(c).ok => world[c].live)
           /\ Next1(c).op = "surface" /\ Next1(c).ok =>
                Covered(ReadOff(world[c]), 0, TRUE, Next1(c).full)
<1>1. PICK v : v = ReadOff(world[c])
  OBVIOUS
<1>2. /\ Next1(c) \in Reports
      /\ Next1(c).op = "enable" => Next1(c).id = c /\ (Next1(c).ok => world[c].live)
      /\ Next1(c).op = "surface" /\ Next1(c).ok => Covered(v, 0, TRUE, Next1(c).full)
  BY <1>1, ReadableTells, ReadOffTells DEF Next1
<1>3. Next1(c).id \in Nat /\ Next1(c).ok \in BOOLEAN /\ Next1(c).full \in BOOLEAN
  BY <1>2 DEF Reports
<1> QED
  BY <1>1, <1>2, <1>3

\* The enabling is acknowledged, or refused.
LEMMA EnableReadKeeps ==
    ASSUME SourcesInv, NEW c \in Links, Readable(c), Next1(c).op = "enable", world' = Read(c),
           link' = [link EXCEPT ![Next1(c).id].mark =
                        IF @ # "asked" THEN @ ELSE IF Next1(c).ok THEN "yes" ELSE "no"],
           UNCHANGED <<pin, cover, hookup, tally>>
    PROVE  SourcesInv'
<1>1. RealmsMove
  BY ReadOnMoves
<1>2. /\ Next1(c).id = c /\ (Next1(c).ok => world[c].live) /\ c \in OpenLinks
  BY ReplyTells, ReadableTells
<1>3. PICK mark \in {"no", "asked", "yes"} :
        /\ mark = IF link[c].mark # "asked" THEN link[c].mark ELSE IF Next1(c).ok THEN "yes" ELSE "no"
  BY DEF SourcesInv, SourcesShape, LinkShapes
<1>4. /\ link \in [Links -> LinkShapes] /\ link[c].open
      /\ \A d \in Links : ~ link[d].open => link[d] = NoLink
      /\ \A d \in Links : link[d].mark = "yes" => world[d].live
  BY <1>2 DEF SourcesInv, SourcesShape, MarkedIsLive, OpenLinks
<1>5. link' = [link EXCEPT ![c].mark = mark]
  BY <1>2, <1>3, <1>4 DEF LinkShapes
<1>6. /\ link' \in [Links -> LinkShapes] /\ link'[c].open = link[c].open /\ link'[c].mark = mark
      /\ \A d \in Links : d # c => link'[d] = link[d]
  <2>1. PICK l \in LinkShapes : l = link[c]
    BY <1>4
  <2>2. PICK m : m = [l EXCEPT !.mark = mark]
    OBVIOUS
  <2>3. m \in LinkShapes /\ m.open = l.open /\ m.mark = mark
    BY <2>2 DEF LinkShapes
  <2>4. link' = [link EXCEPT ![c] = m]
    BY <1>5, <2>1, <2>2
  <2> QED
    BY ZenonT(60), <1>4, <2>1, <2>3, <2>4
<1>7. \A d \in Links : world[d].live => world'[d].live
  BY <1>1 DEF RealmsMove, StillTells
<1>8. \A d \in Links : link'[d].mark = "yes" => world'[d].live
  BY <1>2, <1>3, <1>4, <1>6, <1>7
<1>9. LinksStay
  BY <1>4, <1>6, <1>8 DEF LinksStay
<1> QED
  BY <1>1, <1>9, OccasionSpent, HookupRests, WorldsMove

\* The hook is installed: the answer that comes back is the locked page's.
LEMMA SurfaceReadKeeps ==
    ASSUME SourcesInv, NEW c \in Links, Readable(c), ~ Excluded(c),
           Next1(c).op = "surface", Next1(c).ok, world' = Read(c),
           hookup' = [hookup EXCEPT !.stage = "answered", !.from = c, !.full = Next1(c).full],
           UNCHANGED <<pin, link, cover, tally>>
    PROVE  SourcesInv'
<1>1. RealmsMove /\ world'[c] = ReadOff(world[c])
  BY ReadOnMoves
<1>2. Next1(c).full \in BOOLEAN /\ Covered(ReadOff(world[c]), 0, TRUE, Next1(c).full)
  BY ReplyTells
<1>3. PICK full \in BOOLEAN : full = Next1(c).full
  BY <1>2
<1>4. hookup \in HookupShapes /\ hookup.gen <= tally.gen
  BY DEF SourcesInv, SourcesShape
<1>5. c \in Nat
  BY DEF Links
<1>6. /\ hookup' \in HookupShapes /\ hookup'.stage = "answered" /\ hookup'.from = c
      /\ hookup'.full = full /\ hookup'.gen = hookup.gen
  <2>1. hookup' = [hookup EXCEPT !.stage = "answered", !.from = c, !.full = full]
    BY <1>3
  <2> QED
    BY <1>4, <1>5, <2>1 DEF HookupShapes
<1>7. \A d \in Links : Pinned(d)' => d = c
  BY DEF Excluded, Pinned, Links
<1>8. Covered(world'[c], 0, TRUE, full)
  BY <1>1, <1>2, <1>3
<1>9. AnswerTells'
  BY <1>6, <1>7, <1>8 DEF AnswerTells
<1>10. HookupMoves
  BY <1>4, <1>6, <1>9 DEF HookupMoves
<1> QED
  BY <1>1, <1>10, LinksRest, OccasionSpent, WorldsMove

LEMMA ReadReplyKeeps == ASSUME SourcesInv, NEW c \in Links, ReadReply(c) PROVE SourcesInv'
<1>1. /\ Readable(c) /\ Next1(c).op \in {"enable", "script", "surface"} /\ UNCHANGED <<pin, cover>>
  BY DEF ReadReply
<1>2. Next1(c).op # "rebuilt"
  BY <1>1
<1>3. CASE world' = Read(c) /\ UNCHANGED <<link, hookup, tally>>
  BY <1>1, <1>2, <1>3, ReadOnMoves, LinksRest, OccasionSpent, HookupRests, WorldsMove
<1>4. CASE /\ Next1(c).op = "enable" /\ world' = Read(c) /\ UNCHANGED <<hookup, tally>>
           /\ link' = [link EXCEPT ![Next1(c).id].mark =
                        IF @ # "asked" THEN @ ELSE IF Next1(c).ok THEN "yes" ELSE "no"]
  BY <1>1, <1>4, EnableReadKeeps
<1>5. CASE hookup' = NoHookup /\ world' = Read(c) /\ UNCHANGED <<link, tally>>
  BY <1>1, <1>2, <1>5, ReadOnMoves, LinksRest, OccasionSpent, NoHookupMoves, WorldsMove
<1>6. CASE /\ EvaluateAll("surface", Read(c), "surface") /\ UNCHANGED link
           /\ tally' = [tally EXCEPT !.ids = @ + 1]
  <2>1. PICK w : w = Read(c)
    OBVIOUS
  <2>2. /\ w \in [Links -> WorldShapes]
        /\ \A d \in Links : StillTells(world[d], w[d], d)
        /\ \A d \in Links : ~ link[d].open => w[d] = NoWorld
    BY <1>1, <1>2, <2>1, ReadOnTells
  <2>3. EvaluateAll("surface", w, "surface")
    BY <1>6, <2>1
  <2>4. RealmsMove /\ HookupMoves
    BY <2>2, <2>3, Evaluated
  <2> QED
    BY <1>1, <1>6, <2>4, IdTaken, LinksRest, WorldsMove
<1>7. CASE /\ ~ Excluded(c) /\ Next1(c).op = "surface" /\ Next1(c).ok /\ world' = Read(c)
           /\ hookup' = [hookup EXCEPT !.stage = "answered", !.from = c, !.full = Next1(c).full]
           /\ UNCHANGED <<link, tally>>
  BY <1>1, <1>7, SurfaceReadKeeps
<1> QED
  BY <1>1, <1>3, <1>4, <1>5, <1>6, <1>7 DEF ReadReply

-----------------------------------------------------------------------------
\* One lemma for each step: connections, the lock and the coverage.
LEMMA NewestLink ==
    ASSUME NEW S \in SUBSET Links, S # {}
    PROVE  (CHOOSE c \in S : \A d \in S : d <= c) \in S
<1> DEFINE T == {MaxLinks - c : c \in S}
<1>1. \A c \in S : c \in Nat /\ MaxLinks - c \in Nat
  BY DEF Links
<1>2. T \in SUBSET Nat /\ T # {}
  BY <1>1
<1>3. PICK n \in T : \A m \in T : ~ (<<m, n>> \in OpToRel(<, Nat))
  <2> HIDE DEF T
  <2> QED
    BY <1>2, NatLessThanWellFounded, WFMin
<1>4. PICK c \in S : n = MaxLinks - c
  BY <1>3
<1>5. \A d \in S : d <= c
  <2> SUFFICES ASSUME NEW d \in S, ~ (d <= c) PROVE FALSE
    OBVIOUS
  <2>1. MaxLinks \in Nat /\ c \in Nat /\ d \in Nat /\ n \in Nat /\ MaxLinks - d \in Nat
    BY <1>1, <1>4
  <2>2. MaxLinks - d < n
    BY <1>4, <2>1
  <2>3. MaxLinks - d \in T
    OBVIOUS
  <2>4. <<MaxLinks - d, n>> \in OpToRel(<, Nat)
    BY <2>1, <2>2 DEF OpToRel
  <2> QED
    BY <1>3, <2>3, <2>4
<1> QED
  BY <1>4, <1>5

LEMMA SourcesTypes ==
    ASSUME SourcesInv
    PROVE  /\ pin \in [on : BOOLEAN, who : Nat] /\ (pin.who = 0 \/ pin.who \in OpenLinks)
           /\ ~ pin.on => pin.who = 0
           /\ link \in [Links -> LinkShapes] /\ world \in [Links -> WorldShapes]
           /\ cover \in [errors : BOOLEAN, full : BOOLEAN, stale : BOOLEAN]
           /\ hookup \in HookupShapes /\ tally \in TallyShapes /\ tally.lost = FALSE
           /\ hookup.gen <= tally.gen /\ tally.hookedAt <= tally.gen
           /\ tally.gen \in Nat /\ tally.hookedAt \in Nat /\ tally.spent \in Nat /\ tally.links \in Nat
           /\ OpenLinks \subseteq Links /\ Links \subseteq Nat \ {0}
BY DEF SourcesInv, SourcesShape, NothingUnreported, TallyShapes, OpenLinks, Links

\* Another generation, one occasion later.
LEMMA Counted ==
    ASSUME SourcesInv, NEW t, NEW gen \in Nat, t = Spent([tally EXCEPT !.gen = gen])
    PROVE  /\ t \in TallyShapes /\ t.gen = gen /\ t.links = tally.links /\ t.hookedAt = tally.hookedAt
           /\ t.refreshed = tally.refreshed /\ t.lost = FALSE
<1>1. tally \in TallyShapes /\ tally.lost = FALSE /\ tally.spent \in Nat
  BY SourcesTypes
<1>2. PICK m \in Nat : m = tally.spent + 1
  BY <1>1
<1>3. t = [[tally EXCEPT !.gen = gen] EXCEPT !.spent = m]
  BY <1>1, <1>2 DEF Spent, TallyShapes
<1> QED
  BY <1>1, <1>3 DEF TallyShapes

LEMMA SetPinKeeps == ASSUME SourcesInv, NEW on \in BOOLEAN, SetPin(on) PROVE SourcesInv'
<1>1. PICK pins \in BOOLEAN : pins = (on /\ pin.who = 0 /\ OpenLinks # {})
  OBVIOUS
<1>2. PICK who : who = IF ~ on THEN 0 ELSE IF pins
                       THEN CHOOSE c \in OpenLinks : \A d \in OpenLinks : d <= c ELSE pin.who
  OBVIOUS
<1>3. PICK gen \in Nat : gen = IF pins THEN tally.gen + 1 ELSE tally.gen
  BY SourcesTypes
<1>4. /\ hookup.stage = "none" /\ pin' = [on |-> on, who |-> who]
      /\ cover' = IF ~ on \/ pins THEN NoCover ELSE cover
      /\ UNCHANGED <<link, world, hookup>>
  <2> DEFINE takes == on /\ pin.who = 0 /\ OpenLinks # {}
             newest == CHOOSE c \in OpenLinks : \A d \in OpenLinks : d <= c
  <2>1. /\ hookup.stage = "none"
        /\ pin' = [on |-> on, who |-> IF ~ on THEN 0 ELSE IF takes THEN newest ELSE pin.who]
        /\ cover' = IF ~ on \/ takes THEN NoCover ELSE cover
        /\ UNCHANGED <<link, world, hookup>>
    BY Zenon DEF SetPin
  <2>2. takes <=> pins
    BY <1>1
  <2>3. who = IF ~ on THEN 0 ELSE IF takes THEN newest ELSE pin.who
    BY <1>2, <2>2
  <2> HIDE DEF takes, newest
  <2> QED
    BY <2>1, <2>2, <2>3
<1>5. tally' = Spent([tally EXCEPT !.gen = gen])
  BY <1>1, <1>3, SourcesTypes DEF SetPin, TallyShapes
<1>6. /\ tally' \in TallyShapes /\ tally'.gen = gen /\ tally'.links = tally.links
      /\ tally'.hookedAt = tally.hookedAt /\ tally'.refreshed = tally.refreshed /\ tally'.lost = FALSE
  BY <1>5, Counted
<1>7. /\ who \in Nat /\ (who = 0 \/ who \in OpenLinks) /\ (~ on => who = 0)
  BY <1>1, <1>2, NewestLink, SourcesTypes
<1>8. /\ pin' \in [on : BOOLEAN, who : Nat] /\ pin'.who = who /\ pin'.on = on
      /\ cover' \in [errors : BOOLEAN, full : BOOLEAN, stale : BOOLEAN]
  BY <1>4, <1>7, SourcesTypes DEF NoCover
<1>9. SourcesShape'
  <2>1. OpenLinks' = OpenLinks
    BY <1>4 DEF OpenLinks
  <2>2. tally'.hookedAt <= tally'.gen /\ hookup'.gen <= tally'.gen
    BY <1>3, <1>4, <1>6, SourcesTypes DEF HookupShapes
  <2>3. /\ \A c \in Links : ~ link'[c].open => link'[c] = NoLink /\ world'[c] = NoWorld
        /\ \A c \in Links : c > tally'.links => ~ link'[c].open
    BY <1>4, <1>6 DEF SourcesInv, SourcesShape
  <2> QED
    BY <1>4, <1>6, <1>7, <1>8, <2>1, <2>2, <2>3, SourcesTypes DEF SourcesShape
<1>10. WorldsTell' /\ MarkedIsLive' /\ NothingUnreported'
  BY <1>4, <1>6 DEF SourcesInv, WorldsTell, MarkedIsLive, NothingUnreported
<1>11. AnswerTells'
  BY <1>4 DEF AnswerTells
<1>12. CASE ~ on \/ pins
  <2>1. cover' = NoCover
    BY <1>4, <1>12
  <2>2. CoverTells'
    BY <2>1, NoClaim DEF CoverTells, NoCover
  <2>3. pin'.who = 0 \/ tally'.gen > tally'.hookedAt
    BY <1>3, <1>6, <1>7, <1>8, <1>12, SourcesTypes
  <2>4. GivenUpIsNoticed'
    BY <2>3 DEF GivenUpIsNoticed
  <2> QED
    BY <1>9, <1>10, <1>11, <2>2, <2>4 DEF SourcesInv
<1>13. CASE on /\ ~ pins
  <2>1. pin'.who = pin.who /\ cover' = cover /\ tally'.gen = tally.gen
    BY <1>2, <1>3, <1>4, <1>6, <1>8, <1>13
  <2>2. \A c \in Links : Pinned(c)' => Pinned(c)
    BY <2>1, SourcesTypes DEF Pinned
  <2>3. CoverTells'
    BY <1>4, <2>1, <2>2 DEF SourcesInv, CoverTells
  <2>4. GivenUpIsNoticed'
    BY <1>4, <1>6, <2>1 DEF SourcesInv, GivenUpIsNoticed
  <2> QED
    BY <1>9, <1>10, <1>11, <2>3, <2>4 DEF SourcesInv
<1> QED
  BY <1>12, <1>13

LEMMA FinishKeeps == ASSUME SourcesInv, FinishInstall PROVE SourcesInv'
<1>1. /\ hookup.stage = "answered"
      /\ cover' = [errors |-> TRUE, full |-> hookup.full, stale |-> hookup.late]
      /\ tally' = [tally EXCEPT !.hookedAt = hookup.gen, !.refreshed = FALSE]
      /\ hookup' = NoHookup /\ UNCHANGED <<pin, link, world>>
  BY DEF FinishInstall
<1>2. /\ hookup.full \in BOOLEAN /\ hookup.late \in BOOLEAN /\ hookup.gen \in Nat
  BY SourcesTypes DEF HookupShapes
<1>3. /\ tally' \in TallyShapes /\ tally'.gen = tally.gen /\ tally'.hookedAt = hookup.gen
      /\ tally'.links = tally.links /\ tally'.lost = FALSE
  BY <1>1, <1>2, SourcesTypes DEF TallyShapes
<1>4. /\ cover' \in [errors : BOOLEAN, full : BOOLEAN, stale : BOOLEAN]
      /\ cover'.errors = TRUE /\ cover'.full = hookup.full /\ cover'.stale = hookup.late
  BY <1>1, <1>2
<1>5. /\ hookup' \in HookupShapes /\ hookup'.stage = "none" /\ hookup'.gen = 0
  BY <1>1 DEF NoHookup, HookupShapes
<1>6. SourcesShape'
  <2>1. OpenLinks' = OpenLinks
    BY <1>1 DEF OpenLinks
  <2>2. /\ \A c \in Links : ~ link'[c].open => link'[c] = NoLink /\ world'[c] = NoWorld
        /\ \A c \in Links : c > tally'.links => ~ link'[c].open
    BY <1>1, <1>3 DEF SourcesInv, SourcesShape
  <2> QED
    BY <1>1, <1>3, <1>4, <1>5, <2>1, <2>2, SourcesTypes DEF SourcesShape
<1>7. WorldsTell' /\ MarkedIsLive' /\ NothingUnreported'
  BY <1>1, <1>3 DEF SourcesInv, WorldsTell, MarkedIsLive, NothingUnreported
<1>8. CoverTells'
  <2>1. /\ \A c \in Links : Pinned(c) => c = hookup.from
        /\ ~ hookup.late => Covered(world[hookup.from], 0, TRUE, hookup.full)
    BY <1>1 DEF SourcesInv, AnswerTells
  <2>2. ASSUME NEW c \in Links, Pinned(c)', ~ cover'.stale
        PROVE  Covered(world'[c], 0, cover'.errors, cover'.full)
    <3>1. c = hookup.from /\ world'[c] = world[hookup.from] /\ ~ hookup.late
      BY <1>1, <1>4, <2>1, <2>2 DEF Pinned
    <3> QED
      BY <1>4, <2>1, <3>1
  <2> QED
    BY <2>2 DEF CoverTells
<1>9. AnswerTells' /\ GivenUpIsNoticed'
  BY <1>4, <1>5 DEF AnswerTells, GivenUpIsNoticed
<1> QED
  BY <1>6, <1>7, <1>8, <1>9 DEF SourcesInv

LEMMA RemoveKeeps == ASSUME SourcesInv, NEW c \in Links, RemoveLink(c) PROVE SourcesInv'
<1>1. /\ hookup.stage # "answered" /\ c \in OpenLinks
      /\ link' = [link EXCEPT ![c] = NoLink] /\ world' = [world EXCEPT ![c] = NoWorld]
      /\ IF pin.who = c THEN pin' = [pin EXCEPT !.who = 0] /\ cover' = NoCover
         ELSE UNCHANGED <<pin, cover>>
      /\ tally' = Spent(tally) /\ UNCHANGED hookup
  BY DEF RemoveLink, Occasion, Idle
<1>2. NoLink \in LinkShapes /\ NoLink.open = FALSE /\ NoLink.mark = "no" /\ NoWorld \in WorldShapes
  BY NothingToTell DEF NoLink, LinkShapes
<1>3. /\ link' \in [Links -> LinkShapes] /\ world' \in [Links -> WorldShapes]
      /\ link'[c] = NoLink /\ world'[c] = NoWorld
      /\ \A d \in Links : d # c => link'[d] = link[d] /\ world'[d] = world[d]
  BY <1>1, <1>2, SourcesTypes
<1>4. CountsMove
  BY <1>1, OccasionSpent
<1>5. /\ pin' \in [on : BOOLEAN, who : Nat] /\ pin'.on = pin.on /\ pin'.who # c
      /\ pin'.who = 0 \/ (pin'.who = pin.who /\ pin.who # c /\ cover' = cover)
      /\ cover' \in [errors : BOOLEAN, full : BOOLEAN, stale : BOOLEAN]
      /\ ~ pin'.on => pin'.who = 0
  <2>1. pin \in [on : BOOLEAN, who : Nat] /\ (~ pin.on => pin.who = 0) /\ c # 0
    BY SourcesTypes
  <2>2. CASE pin.who = c
    <3>1. pin' = [pin EXCEPT !.who = 0] /\ cover' = NoCover
      BY <1>1, <2>2
    <3>2. NoCover \in [errors : BOOLEAN, full : BOOLEAN, stale : BOOLEAN]
      BY DEF NoCover
    <3>3. pin' \in [on : BOOLEAN, who : Nat] /\ pin'.on = pin.on /\ pin'.who = 0
      BY <2>1, <3>1
    <3> QED
      BY <2>1, <3>1, <3>2, <3>3
  <2>3. CASE pin.who # c
    BY <1>1, <2>1, <2>3, SourcesTypes
  <2> QED
    BY <2>2, <2>3
<1>6. SourcesShape'
  BY <1>1, <1>2, <1>3, <1>4, <1>5, SourcesTypes DEF OpenLinks, SourcesInv, SourcesShape, CountsMove
<1>7. WorldsTell'
  BY <1>3, NothingToTell DEF SourcesInv, WorldsTell
<1>8. MarkedIsLive' /\ NothingUnreported' /\ AnswerTells'
  BY <1>1, <1>2, <1>3, <1>4 DEF SourcesInv, MarkedIsLive, NothingUnreported, AnswerTells, CountsMove
<1>9. CoverTells'
  <2>1. ASSUME NEW d \in Links, Pinned(d)', ~ cover'.stale
        PROVE  Covered(world'[d], 0, cover'.errors, cover'.full)
    <3>1. d # 0 /\ pin'.who = d /\ pin'.on
      BY <2>1, SourcesTypes DEF Pinned
    <3>2. Pinned(d) /\ d # c /\ cover' = cover
      BY <1>5, <3>1 DEF Pinned
    <3> QED
      BY <1>3, <2>1, <3>2 DEF SourcesInv, CoverTells
  <2> QED
    BY <2>1 DEF CoverTells
<1>10. GivenUpIsNoticed'
  <2>1. CASE pin'.who = 0
    BY <2>1 DEF GivenUpIsNoticed
  <2>2. CASE pin'.who # 0
    <3>1. pin'.who = pin.who /\ pin.who \in Links /\ world'[pin.who] = world[pin.who] /\ cover' = cover
      BY <1>3, <1>5, <2>2, SourcesTypes
    <3> QED
      BY <1>4, <2>2, <3>1 DEF SourcesInv, GivenUpIsNoticed, CountsMove
  <2> QED
    BY <2>1, <2>2
<1> QED
  BY <1>6, <1>7, <1>8, <1>9, <1>10 DEF SourcesInv

\* The frame that sets a context up: nothing before it counts.
IsFresh(v, wraps) == v = [NoWorld EXCEPT !.wraps = wraps, !.in = <<[op |-> "rebuilt"]>>]

LEMMA FreshRealmTells ==
    ASSUME NEW c, NEW wraps \in BOOLEAN, NEW v, IsFresh(v, wraps)
    PROVE  /\ v \in WorldShapes /\ EnablesItself(v, c) /\ AnswersCover(v)
           /\ \A errors, full : Covered(v, 0, errors, full)
           /\ \E i \in DOMAIN v.in : v.in[i].op = "rebuilt"
<1>1. PICK x \in Reports : x = [op |-> "rebuilt"]
  BY DEF Reports
<1>2. <<x>> \in Seq(Reports) /\ DOMAIN <<x>> = {1} /\ <<x>>[1] = x /\ x.op = "rebuilt"
  BY <1>1
<1>3. <<>> \in Seq(Requests) /\ DOMAIN <<>> = {}
  BY EmptySeq
<1>4. v \in WorldShapes /\ v.in = <<x>> /\ v.out = <<>>
  BY <1>1, <1>2, <1>3 DEF IsFresh, NoWorld, WorldShapes
<1>5. EnablesItself(v, c) /\ AnswersCover(v)
  BY <1>2, <1>3, <1>4 DEF EnablesItself, AnswersCover
<1>6. \A errors, full : Covered(v, 0, errors, full)
  BY <1>2, <1>4 DEF Covered
<1> QED
  BY <1>2, <1>4, <1>5, <1>6

LEMMA AddKeeps == ASSUME SourcesInv, NEW wraps \in BOOLEAN, AddLink(wraps) PROVE SourcesInv'
<1>1. PICK c : c = tally.links + 1
  OBVIOUS
<1>2. /\ hookup.stage # "answered" /\ tally.links < MaxLinks
      /\ link' = [link EXCEPT ![c].open = TRUE]
      /\ world' = [world EXCEPT ![c].wraps = wraps, ![c].in = <<[op |-> "rebuilt"]>>]
      /\ pin' = IF pin.on /\ pin.who = 0 THEN [pin EXCEPT !.who = c] ELSE pin
      /\ tally' = [tally EXCEPT !.links = c] /\ UNCHANGED <<cover, hookup>>
  BY <1>1 DEF AddLink, Idle
<1>3. c \in Links /\ c \in Nat /\ c > tally.links
  BY <1>1, <1>2, SourcesTypes DEF Links
<1>4. link[c] = NoLink /\ world[c] = NoWorld /\ ~ link[c].open
  BY <1>3 DEF SourcesInv, SourcesShape
<1>5. PICK v : v = [NoWorld EXCEPT !.wraps = wraps, !.in = <<[op |-> "rebuilt"]>>]
  OBVIOUS
<1>6. /\ v \in WorldShapes /\ EnablesItself(v, c) /\ AnswersCover(v)
      /\ \A errors, full : Covered(v, 0, errors, full)
      /\ \E i \in DOMAIN v.in : v.in[i].op = "rebuilt"
  BY <1>5, FreshRealmTells DEF IsFresh
<1>7. /\ world' \in [Links -> WorldShapes] /\ world'[c] = v
      /\ \A d \in Links : d # c => world'[d] = world[d]
  BY <1>2, <1>3, <1>4, <1>5, <1>6, SourcesTypes DEF NoWorld, WorldShapes
<1>8. /\ link' \in [Links -> LinkShapes] /\ link'[c].open /\ link'[c].mark = "no"
      /\ \A d \in Links : d # c => link'[d] = link[d]
  <2>1. PICK l : l = [NoLink EXCEPT !.open = TRUE]
    OBVIOUS
  <2>2. link \in [Links -> LinkShapes]
    BY SourcesTypes
  <2>3. link' = [link EXCEPT ![c] = l]
    BY <1>2, <1>4, <2>1
  <2>4. l \in LinkShapes /\ l.open /\ l.mark = "no"
    BY <2>1 DEF LinkShapes, NoLink
  <2> QED
    BY <1>3, <2>2, <2>3, <2>4
<1>9. /\ tally' \in TallyShapes /\ tally'.links = c /\ tally'.gen = tally.gen
      /\ tally'.hookedAt = tally.hookedAt /\ tally'.refreshed = tally.refreshed /\ tally'.lost = FALSE
  BY <1>2, <1>3, SourcesTypes DEF TallyShapes
<1>10. /\ pin' \in [on : BOOLEAN, who : Nat] /\ pin'.on = pin.on
       /\ pin'.who = c \/ pin' = pin
       /\ ~ pin'.on => pin'.who = 0
  <2>1. pin \in [on : BOOLEAN, who : Nat] /\ (~ pin.on => pin.who = 0)
    BY SourcesTypes
  <2>2. CASE pin.on /\ pin.who = 0
    <3>1. pin' = [pin EXCEPT !.who = c]
      BY <1>2, <2>2
    <3> QED
      BY <1>3, <2>1, <2>2, <3>1
  <2>3. CASE ~ (pin.on /\ pin.who = 0)
    BY <1>2, <2>1, <2>3
  <2> QED
    BY <2>2, <2>3
<1>11. pin' = pin => pin.who # c
  BY <1>3, <1>4, SourcesTypes DEF OpenLinks
<1>12. SourcesShape'
  <2>1. pin'.who = 0 \/ pin'.who \in OpenLinks'
    BY <1>3, <1>8, <1>10, <1>11, SourcesTypes DEF OpenLinks
  <2>2. /\ \A d \in Links : ~ link'[d].open => link'[d] = NoLink /\ world'[d] = NoWorld
        /\ \A d \in Links : d > tally'.links => ~ link'[d].open
    <3>1. ASSUME NEW d \in Links
          PROVE  /\ ~ link'[d].open => link'[d] = NoLink /\ world'[d] = NoWorld
                 /\ d > tally'.links => ~ link'[d].open
      <4>1. CASE d = c
        BY <1>3, <1>8, <1>9, <4>1
      <4>2. CASE d # c
        <5>1. d > tally'.links => d > tally.links
          BY <1>1, <1>9, <3>1, SourcesTypes
        <5> QED
          BY <1>7, <1>8, <4>2, <5>1 DEF SourcesInv, SourcesShape
      <4> QED
        BY <4>1, <4>2
    <3> QED
      BY <3>1
  <2>3. /\ hookup' \in HookupShapes /\ hookup'.stage # "answered" /\ hookup'.gen <= tally'.gen
        /\ tally'.hookedAt <= tally'.gen
        /\ cover' \in [errors : BOOLEAN, full : BOOLEAN, stale : BOOLEAN]
    BY <1>2, <1>9, SourcesTypes
  <2> QED
    BY <1>7, <1>8, <1>9, <1>10, <2>1, <2>2, <2>3 DEF SourcesShape
<1>13. WorldsTell'
  BY <1>6, <1>7 DEF SourcesInv, WorldsTell
<1>14. MarkedIsLive' /\ NothingUnreported'
  BY <1>7, <1>8, <1>9 DEF SourcesInv, MarkedIsLive, NothingUnreported
<1>15. AnswerTells'
  BY <1>2 DEF AnswerTells
<1>16. CoverTells'
  BY <1>2, <1>6, <1>7, <1>10 DEF Pinned, SourcesInv, CoverTells
<1>17. GivenUpIsNoticed'
  <2>1. CASE pin'.who = c
    BY <1>6, <1>7, <2>1 DEF GivenUpIsNoticed
  <2>2. CASE pin' = pin /\ pin.who = 0
    BY <2>2 DEF GivenUpIsNoticed
  <2>3. CASE pin' = pin /\ pin.who # 0
    <3>1. pin.who \in Links /\ world'[pin.who] = world[pin.who]
      BY <1>7, <1>11, <2>3, SourcesTypes
    <3> QED
      BY <1>2, <1>9, <2>3, <3>1 DEF SourcesInv, GivenUpIsNoticed
  <2> QED
    BY <1>10, <2>1, <2>2, <2>3
<1> QED
  BY <1>12, <1>13, <1>14, <1>15, <1>16, <1>17 DEF SourcesInv

\* A connection is asked to send its events.
LEMMA EnableAsked ==
    ASSUME NEW l \in [Links -> LinkShapes], NEW w \in [Links -> WorldShapes], NEW c \in Links,
           EnablesItself(w[c], c), AnswersCover(w[c]), EnableConsoleEvents(c, l, w)
    PROVE  /\ link' \in [Links -> LinkShapes] /\ world' \in [Links -> WorldShapes]
           /\ StillTells(w[c], world'[c], c)
           /\ link'[c].open = l[c].open /\ (link'[c].mark = "yes" => l[c].mark = "yes")
           /\ \A d \in Links : d # c => link'[d] = l[d] /\ world'[d] = w[d]
<1>1. CASE l[c].mark # "no"
  BY <1>1, TellsItself DEF EnableConsoleEvents
<1>2. CASE l[c].mark = "no"
  <2>0. PICK k \in LinkShapes : k = l[c]
    OBVIOUS
  <2>1. PICK m : m = [k EXCEPT !.mark = "asked"]
    OBVIOUS
  <2>2. m \in LinkShapes /\ m.open = k.open /\ m.mark = "asked"
    BY <2>1 DEF LinkShapes
  <2>3. PICK v : v = Sent(w[c], "enable", c)
    OBVIOUS
  <2>4. c \in Nat
    BY DEF Links
  <2>5. StillTells(w[c], v, c) /\ v \in WorldShapes
    <3>1. PICK u \in WorldShapes : u = w[c]
      OBVIOUS
    <3>2. EnablesItself(u, c) /\ AnswersCover(u)
      BY <3>1
    <3>3. StillTells(u, Sent(u, "enable", c), c)
      BY <2>4, <3>2, SentTells
    <3>4. StillTells(u, v, c)
      BY <2>3, <3>1, <3>3
    <3> QED
      BY <3>1, <3>4 DEF StillTells
  <2>6. link' = [l EXCEPT ![c] = m] /\ world' = [w EXCEPT ![c] = v]
    BY <1>2, <2>0, <2>1, <2>3 DEF EnableConsoleEvents
  <2>7. /\ link' \in [Links -> LinkShapes] /\ link'[c] = m
        /\ \A d \in Links : d # c => link'[d] = l[d]
    BY <2>2, <2>6
  <2>8. /\ world' \in [Links -> WorldShapes] /\ world'[c] = v
        /\ \A d \in Links : d # c => world'[d] = w[d]
    BY <2>5, <2>6
  <2> QED
    BY <2>0, <2>2, <2>5, <2>7, <2>8
<1> QED
  BY <1>1, <1>2

LEMMA SwitchKeeps == ASSUME SourcesInv, NEW c \in Links, SwitchLink(c) PROVE SourcesInv'
<1>1. /\ hookup.stage = "none" /\ c \in OpenLinks /\ link[c].open
      /\ pin' = [on |-> TRUE, who |-> c]
      /\ cover' = IF pin.who # c THEN NoCover ELSE cover
      /\ EnableConsoleEvents(c, link, world)
      /\ UNCHANGED hookup
  BY DEF SwitchLink, OpenLinks
<1>2. PICK gen \in Nat : gen = IF pin.who # c THEN tally.gen + 1 ELSE tally.gen
  BY SourcesTypes
<1>3. tally' = Spent([tally EXCEPT !.gen = gen])
  BY <1>2, SourcesTypes DEF SwitchLink, TallyShapes
<1>4. /\ tally' \in TallyShapes /\ tally'.gen = gen /\ tally'.links = tally.links
      /\ tally'.hookedAt = tally.hookedAt /\ tally'.refreshed = tally.refreshed /\ tally'.lost = FALSE
  BY <1>3, Counted
<1>5. /\ link \in [Links -> LinkShapes] /\ world \in [Links -> WorldShapes]
      /\ \A d \in Links : EnablesItself(world[d], d) /\ AnswersCover(world[d])
      /\ \A d \in Links : ~ link[d].open => link[d] = NoLink /\ world[d] = NoWorld
      /\ \A d \in Links : link[d].mark = "yes" => world[d].live
  BY DEF SourcesInv, SourcesShape, WorldsTell, MarkedIsLive
<1>6. /\ link' \in [Links -> LinkShapes] /\ world' \in [Links -> WorldShapes]
      /\ StillTells(world[c], world'[c], c)
      /\ link'[c].open = link[c].open /\ (link'[c].mark = "yes" => link[c].mark = "yes")
      /\ \A d \in Links : d # c => link'[d] = link[d] /\ world'[d] = world[d]
  <2>1. EnableConsoleEvents(c, link, world)
    BY <1>1
  <2>2. EnablesItself(world[c], c) /\ AnswersCover(world[c])
    BY <1>5
  <2>3. link \in [Links -> LinkShapes] /\ world \in [Links -> WorldShapes]
    BY <1>5
  <2> QED
    BY <2>1, <2>2, <2>3, EnableAsked, Zenon
<1>7. \A d \in Links : StillTells(world[d], world'[d], d)
  BY <1>5, <1>6, TellsItself
<1>8. RealmsMove
  BY <1>1, <1>5, <1>6, <1>7 DEF RealmsMove
<1>9. LinksStay
  BY <1>1, <1>5, <1>6, <1>7 DEF LinksStay, StillTells
<1>10. CASE pin.who = c
  <2>1. pin' = pin
    BY <1>1, <1>10, SourcesTypes
  <2>2. CountsMove
    BY <1>2, <1>4, <1>10 DEF CountsMove
  <2> QED
    BY <1>1, <1>8, <1>9, <1>10, <2>1, <2>2, HookupRests, WorldsMove
<1>11. CASE pin.who # c
  <2>1. cover' = NoCover /\ tally'.gen = tally.gen + 1
    BY <1>1, <1>2, <1>4, <1>11
  <2>2. WorldsTell'
    BY <1>8, RealmsStillTell
  <2>3. MarkedIsLive' /\ NothingUnreported'
    BY <1>4, <1>9 DEF LinksStay, MarkedIsLive, NothingUnreported
  <2>4. AnswerTells'
    BY <1>1 DEF AnswerTells
  <2>5. CoverTells'
    BY <2>1, NoClaim DEF CoverTells, NoCover
  <2>6. tally'.gen > tally'.hookedAt
    BY <1>4, <2>1, SourcesTypes
  <2>7. GivenUpIsNoticed'
    BY <2>6 DEF GivenUpIsNoticed
  <2>8. SourcesShape'
    <3>1. /\ pin' \in [on : BOOLEAN, who : Nat] /\ pin'.on = TRUE /\ pin'.who = c
          /\ cover' \in [errors : BOOLEAN, full : BOOLEAN, stale : BOOLEAN]
      BY <1>1, <2>1, SourcesTypes DEF NoCover
    <3>2. pin'.who \in OpenLinks'
      BY <1>1, <1>6, <3>1 DEF OpenLinks
    <3>3. /\ \A d \in Links : ~ link'[d].open => link'[d] = NoLink /\ world'[d] = NoWorld
          /\ \A d \in Links : d > tally'.links => ~ link'[d].open
      BY <1>4, <1>8, <1>9 DEF SourcesInv, SourcesShape, RealmsMove, LinksStay
    <3>4. /\ hookup' \in HookupShapes /\ hookup'.stage = "none" /\ hookup'.gen <= tally'.gen
          /\ tally'.hookedAt <= tally'.gen
      BY <1>1, <1>4, <2>1, SourcesTypes DEF HookupShapes
    <3> QED
      BY <1>4, <1>6, <3>1, <3>2, <3>3, <3>4 DEF SourcesShape
  <2> QED
    BY <2>2, <2>3, <2>4, <2>5, <2>7, <2>8 DEF SourcesInv
<1> QED
  BY <1>10, <1>11

LEMMA RebuiltReadKeeps == ASSUME SourcesInv, NEW c \in Links, ReadRebuilt(c) PROVE SourcesInv'
<1>1. PICK l, w : l = [link EXCEPT ![c].ready = TRUE] /\ w = Read(c)
  OBVIOUS
<1>2. /\ Readable(c) /\ cover' = NoCover /\ pin' = pin /\ EnableConsoleEvents(c, l, w)
      /\ hookup' = [hookup EXCEPT !.late = hookup.stage = "answered"]
      /\ tally' = [tally EXCEPT !.gen = IF Excluded(c) THEN @ ELSE @ + 1,
                                !.refreshed = @ \/ Excluded(c)]
  BY <1>1 DEF ReadRebuilt
<1>3. /\ link \in [Links -> LinkShapes] /\ world \in [Links -> WorldShapes]
      /\ \A d \in Links : EnablesItself(world[d], d) /\ AnswersCover(world[d])
      /\ \A d \in Links : ~ link[d].open => link[d] = NoLink /\ world[d] = NoWorld
      /\ \A d \in Links : link[d].mark = "yes" => world[d].live
  BY DEF SourcesInv, SourcesShape, WorldsTell, MarkedIsLive
<1>4. PICK v : v = ReadOff(world[c])
  OBVIOUS
<1>5. /\ v \in WorldShapes /\ EnablesItself(v, c) /\ AnswersCover(v) /\ v.live = world[c].live
      /\ w = [world EXCEPT ![c] = v] /\ link[c].open
  BY <1>1, <1>2, <1>4, ReadableTells, ReadOffTells DEF OpenLinks
<1>6. /\ w \in [Links -> WorldShapes] /\ w[c] = v
      /\ \A d \in Links : d # c => w[d] = world[d]
  BY <1>3, <1>5
<1>7. /\ l \in [Links -> LinkShapes] /\ l[c].open = link[c].open /\ l[c].mark = link[c].mark
      /\ \A d \in Links : d # c => l[d] = link[d]
  <2>0. PICK k \in LinkShapes : k = link[c]
    BY <1>3
  <2>1. PICK m : m = [k EXCEPT !.ready = TRUE]
    OBVIOUS
  <2>2. m \in LinkShapes /\ m.open = k.open /\ m.mark = k.mark
    BY <2>1 DEF LinkShapes
  <2>3. l = [link EXCEPT ![c] = m]
    BY <1>1, <2>0, <2>1
  <2> QED
    BY <1>3, <2>0, <2>2, <2>3
<1>8. /\ link' \in [Links -> LinkShapes] /\ world' \in [Links -> WorldShapes]
      /\ StillTells(w[c], world'[c], c)
      /\ link'[c].open = l[c].open /\ (link'[c].mark = "yes" => l[c].mark = "yes")
      /\ \A d \in Links : d # c => link'[d] = l[d] /\ world'[d] = w[d]
  <2>1. EnableConsoleEvents(c, l, w)
    BY <1>2
  <2>2. EnablesItself(w[c], c) /\ AnswersCover(w[c])
    BY <1>5, <1>6
  <2> QED
    BY <1>6, <1>7, <2>1, <2>2, EnableAsked, Zenon
<1>9. WorldsTell'
  BY <1>3, <1>6, <1>8 DEF WorldsTell, StillTells
<1>10. MarkedIsLive'
  BY <1>3, <1>5, <1>6, <1>7, <1>8 DEF StillTells, MarkedIsLive
<1>11. PICK gen \in Nat : gen = IF Excluded(c) THEN tally.gen ELSE tally.gen + 1
  BY SourcesTypes
<1>11a. PICK refreshed \in BOOLEAN : refreshed = (tally.refreshed \/ Excluded(c))
  OBVIOUS
<1>12. tally' = [tally EXCEPT !.gen = gen, !.refreshed = refreshed]
  BY <1>2, <1>11, <1>11a, SourcesTypes DEF TallyShapes
<1>13. /\ tally' \in TallyShapes /\ tally'.gen = gen /\ tally'.refreshed = refreshed
       /\ tally'.links = tally.links /\ tally'.hookedAt = tally.hookedAt /\ tally'.lost = FALSE
  BY <1>12, SourcesTypes DEF TallyShapes
<1>14. PICK late \in BOOLEAN : late = (hookup.stage = "answered")
  OBVIOUS
<1>15. /\ hookup' \in HookupShapes /\ hookup'.stage = hookup.stage /\ hookup'.from = hookup.from
       /\ hookup'.late = late /\ hookup'.gen = hookup.gen /\ hookup'.full = hookup.full
  <2>1. hookup \in HookupShapes
    BY SourcesTypes
  <2>2. hookup' = [hookup EXCEPT !.late = late]
    BY <1>2, <1>14
  <2> QED
    BY <2>1, <2>2 DEF HookupShapes
<1>16. SourcesShape'
  <2>1. pin'.who = 0 \/ pin'.who \in OpenLinks'
    BY <1>2, <1>7, <1>8, SourcesTypes DEF OpenLinks
  <2>2. /\ \A d \in Links : ~ link'[d].open => link'[d] = NoLink /\ world'[d] = NoWorld
        /\ \A d \in Links : d > tally'.links => ~ link'[d].open
    <3>1. \A d \in Links : d > tally.links => ~ link[d].open
      BY DEF SourcesInv, SourcesShape
    <3>2. ASSUME NEW d \in Links
          PROVE  /\ ~ link'[d].open => link'[d] = NoLink /\ world'[d] = NoWorld
                 /\ d > tally'.links => ~ link'[d].open
      <4>1. CASE d = c
        BY <1>5, <1>7, <1>8, <1>13, <3>1, <4>1
      <4>2. CASE d # c
        BY <1>3, <1>6, <1>7, <1>8, <1>13, <3>1, <4>2
      <4> QED
        BY <4>1, <4>2
    <3> QED
      BY <3>2
  <2>3. hookup'.gen <= tally'.gen /\ tally'.hookedAt <= tally'.gen
    BY <1>11, <1>13, <1>15, SourcesTypes DEF HookupShapes
  <2>4. hookup'.stage = "answered" => hookup'.from \in Links
    BY <1>15 DEF SourcesInv, SourcesShape
  <2>5. /\ cover' \in [errors : BOOLEAN, full : BOOLEAN, stale : BOOLEAN]
        /\ pin' \in [on : BOOLEAN, who : Nat] /\ (~ pin'.on => pin'.who = 0)
    BY <1>2, SourcesTypes DEF NoCover
  <2> QED
    BY <1>8, <1>13, <1>15, <2>1, <2>2, <2>3, <2>4, <2>5 DEF SourcesShape
<1>17. CoverTells'
  BY <1>2, NoClaim DEF CoverTells, NoCover
<1>18. AnswerTells'
  <2> SUFFICES ASSUME hookup'.stage = "answered"
               PROVE  /\ \A d \in Links : Pinned(d)' => d = hookup'.from
                      /\ hookup'.late
    BY DEF AnswerTells
  <2>1. hookup.stage = "answered" /\ hookup'.late
    BY <1>14, <1>15
  <2> QED
    BY <1>2, <1>15, <2>1 DEF SourcesInv, AnswerTells, Pinned
<1>19. GivenUpIsNoticed'
  <2>1. tally'.refreshed \/ tally'.gen > tally'.hookedAt
    <3>1. CASE Excluded(c)
      BY <1>13, <1>11a, <3>1
    <3>2. CASE ~ Excluded(c)
      BY <1>11, <1>13, <3>2, SourcesTypes
    <3> QED
      BY <3>1, <3>2
  <2> QED
    BY <2>1 DEF GivenUpIsNoticed
<1>20. NothingUnreported'
  BY <1>13 DEF NothingUnreported
<1> QED
  BY <1>9, <1>10, <1>16, <1>17, <1>18, <1>19, <1>20 DEF SourcesInv

-----------------------------------------------------------------------------
\* Every step keeps it.
LEMMA SourcesKeep == ASSUME SourcesInv, SourcesNext PROVE SourcesInv'
<1>1. CASE \E b \in BOOLEAN : AddLink(b) \/ SetPin(b)
  BY <1>1, AddKeeps, SetPinKeeps
<1>2. CASE BeginInstall \/ InstallExpires \/ FinishInstall
  BY <1>2, BeginKeeps, InstallExpiresKeeps, FinishKeeps
<1>3. ASSUME NEW c \in Links, RemoveLink(c) \/ SwitchLink(c) \/ EnableExpires(c)
      PROVE  SourcesInv'
  BY <1>3, RemoveKeeps, SwitchKeeps, EnableExpiresKeeps
<1>4. ASSUME NEW c \in Links, ReadRebuilt(c) \/ ReadEvent(c) \/ ReadReply(c)
      PROVE  SourcesInv'
  BY <1>4, RebuiltReadKeeps, ReadEventKeeps, ReadReplyKeeps
<1>5. ASSUME NEW c \in Links, NEW b \in BOOLEAN, ExecuteNext(c, b) \/ RebuildWorld(c, b)
      PROVE  SourcesInv'
  BY <1>5, ExecuteKeeps, RealmRebuildKeeps
<1>6. ASSUME NEW c \in Links, NEW kind \in {"call", "error"}, Emit(c, kind)
      PROVE  SourcesInv'
  BY <1>6, EmitKeeps
<1> QED
  BY <1>1, <1>2, <1>3, <1>4, <1>5, <1>6 DEF SourcesNext

LEMMA SourcesInitially == SourcesInit => SourcesInv
<1> SUFFICES ASSUME SourcesInit PROVE SourcesInv
  OBVIOUS
<1>1. /\ pin = [on |-> TRUE, who |-> 0] /\ cover = NoCover /\ hookup = NoHookup
      /\ link = [c \in Links |-> NoLink] /\ world = [c \in Links |-> NoWorld]
      /\ tally = [links |-> 0, spent |-> 0, ids |-> 0, gen |-> 0, hookedAt |-> 0,
                  refreshed |-> FALSE, lost |-> FALSE]
  BY DEF SourcesInit
<1>2. /\ NoLink \in LinkShapes /\ NoLink.open = FALSE /\ NoLink.mark = "no"
      /\ NoHookup \in HookupShapes /\ NoHookup.stage = "none" /\ NoHookup.gen = 0
      /\ NoCover \in [errors : BOOLEAN, full : BOOLEAN, stale : BOOLEAN] /\ NoWorld \in WorldShapes
  BY NothingToTell DEF NoLink, LinkShapes, NoHookup, HookupShapes, NoCover
<1>3. tally \in TallyShapes /\ tally.gen = 0 /\ tally.hookedAt = 0 /\ tally.lost = FALSE
  BY <1>1 DEF TallyShapes
<1>4. SourcesShape
  BY <1>1, <1>2, <1>3 DEF SourcesShape
<1>5. WorldsTell
  BY <1>1, NothingToTell DEF WorldsTell
<1>6. CoverTells
  BY <1>1, NoClaim DEF CoverTells, NoCover
<1>7. AnswerTells /\ GivenUpIsNoticed /\ MarkedIsLive /\ NothingUnreported
  BY <1>1, <1>2, <1>3 DEF AnswerTells, GivenUpIsNoticed, MarkedIsLive, NothingUnreported
<1> QED
  BY <1>4, <1>5, <1>6, <1>7 DEF SourcesInv

LEMMA SourcesTellTheTruth == SourcesInv => ConsoleHeard
<1> SUFFICES ASSUME SourcesInv PROVE ConsoleHeard
  OBVIOUS
<1>1. NothingUnreported
  BY DEF SourcesInv
<1>2. EnabledIsLive
  BY DEF SourcesInv, MarkedIsLive, EnabledIsLive, OpenLinks
<1>3. ASSUME NEW c \in OpenLinks, Pinned(c), world[c].in = <<>>, ~ cover.errors,
             ~ tally.refreshed, tally.hookedAt # 0
      PROVE  tally.gen # tally.hookedAt
  <2>1. pin.who = c /\ pin.who # 0
    BY <1>3, SourcesTypes DEF Pinned
  <2>2. DOMAIN world[pin.who].in = {}
    BY <1>3, <2>1
  <2>3. tally.gen > tally.hookedAt
    BY <1>3, <2>1, <2>2 DEF SourcesInv, GivenUpIsNoticed
  <2> QED
    BY <2>3, SourcesTypes
<1>4. DoublesAreNoticed
  BY <1>3 DEF DoublesAreNoticed
<1> QED
  BY <1>1, <1>2, <1>4 DEF ConsoleHeard

\* No event of the locked miniapp is lost between the page's hook and the
\* connection's events, doubles last only until the shell installs again, and
\* a connection that acknowledged its enabling sends its events, for any
\* connections, realms, failures and moves of the lock.
THEOREM ConsoleIsHeard == SourcesSpec => []ConsoleHeard
<1>1. SourcesInv /\ UNCHANGED sourceVars => SourcesInv'
  BY RealmsRest, LinksRest, OccasionSpent, HookupRests, WorldsMove DEF sourceVars
<1>2. SourcesInv /\ [SourcesNext]_sourceVars => SourcesInv'
  BY <1>1, SourcesKeep
<1> QED
  BY <1>2, SourcesInitially, SourcesTellTheTruth, PTL DEF SourcesSpec

\* The console as a whole: nothing is lost or doubled unnoticed on the way from
\* the page to the ring, nor on the way from the ring to the panel.
THEOREM ConsoleStaysHonest == ConsoleSpec /\ SourcesSpec => []ConsoleIsHonest
<1>1. ConsoleHeard /\ ConsoleKeepsItsWord => ConsoleIsHonest
  BY DEF ConsoleIsHonest
<1> QED BY <1>1, ConsoleHoldsItsWord, ConsoleIsHeard, PTL

HIDE ConsoleSourcesSizes

=============================================================================
