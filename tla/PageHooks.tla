------------------------------ MODULE PageHooks ------------------------------
(* What a capture hook wraps in a page, and what a stop takes off again:    *)
(* core/hooks/wxapi.js and cloud.js, with the start and stop handlers of    *)
(* ipc_bridge.go that drive them. `surface` says which of the two it is:    *)
(* they differ in what marks a wrapped object and which bridges are wrapped.*)
(*                                                                          *)
(* A scope is a frame of the page, numbered in the order the hook finds     *)
(* them, 1 being the window it runs in. `layers` counts the recording       *)
(* wrappers around a function: a call leaves that many records. A record    *)
(* is known by the capture it belongs to, 0 when there was none. cloud.js's *)
(* direct hook of a wx that no frame has is left out.                       *)
EXTENDS Naturals, FiniteSets, FiniteSetsExt

CONSTANTS
    MaxScopes,     \* bound: frames of a page
    MaxCaptures,   \* bound: captures started
    MaxIncidents   \* bound: what pages do and what fails

ASSUME PageHooksSizes ==
    MaxScopes \in Nat \ {0} /\ MaxCaptures \in Nat /\ MaxIncidents \in Nat

VARIABLES
    surface,   \* "wxapi" or "cloud"
    scope,     \* the frames: methods, bridge and database handle of each
    script,    \* the state of the injected script
    capturing, \* the shell: whether the feeder runs, the capture's number,
               \* and how far a start and a stop have got
    buffered,  \* the captures whose records the page holds
    trail      \* the bounds, and what went wrong

hookVars == <<surface, scope, script, capturing, buffered, trail>>

Scopes == 1 .. MaxScopes
Bare == [layers |-> 0, mark |-> FALSE]
NoScope == [here |-> FALSE, method |-> Bare, bridge |-> Bare, speaks |-> FALSE, db |-> 0]
Uninjected == [there |-> FALSE, hooked |-> {}, target |-> 0, bridged |-> FALSE, scans |-> FALSE]

HooksInit ==
    /\ surface \in {"wxapi", "cloud"}
    /\ scope = [f \in Scopes |-> NoScope]
    /\ script = Uninjected
    /\ capturing = [runs |-> FALSE, number |-> 0, start |-> "no", stop |-> "no"]
    /\ buffered = {}
    /\ trail = [spent |-> 0, several |-> {}, stale |-> FALSE, twice |-> FALSE,
                unclean |-> FALSE, overlap |-> FALSE]

Here == {f \in Scopes : scope[f].here}
Incident == trail.spent < MaxIncidents
Marked(t) == [t EXCEPT !.spent = @ + 1]

-----------------------------------------------------------------------------
(* The script in the page                                                   *)

\* As a bug would have it: no mark is looked at.
EveryScope == Here

\* wxapi.js wraps every wx that carries no mark; cloud.js every cloud that is
\* not in _hookedClouds, and of that the methods that are not wrapped yet.
WxUnmarked == {f \in Here : ~ scope[f].method.mark}
CloudUnknown == {f \in Here : f \notin script.hooked}
Fresh == IF surface = "wxapi" THEN WxUnmarked ELSE CloudUnknown
Wrapped(m) == [layers |-> m.layers + 1, mark |-> TRUE]
HookOne(f, m) == IF f \notin Fresh \/ (surface = "cloud" /\ m.layers > 0) THEN m
                 ELSE Wrapped(m)

\* hookBridge, which does nothing once one is wrapped: wxapi.js takes the
\* window's own bridge or else the first, cloud.js goes on through all of them.
Unwrapped == {f \in Here : scope[f].speaks /\ ~ scope[f].bridge.mark}
FirstBridge ==
    LET speaking == {f \in Here : scope[f].speaks}
    IN  IF speaking = {} THEN {} ELSE {Min(speaking)} \cap Unwrapped
EveryBridge == Unwrapped
Bridges == IF script.bridged THEN {} ELSE IF surface = "wxapi" THEN FirstBridge ELSE EveryBridge

\* install, and the tick of the scan it starts. Only the bridge wrapped last
\* is remembered.
Pass ==
    /\ scope' = [f \in Scopes |-> [scope[f] EXCEPT
           !.method = HookOne(f, @),
           !.bridge = IF f \in Bridges THEN Wrapped(@) ELSE @]]
    /\ script' = [there |-> TRUE, hooked |-> script.hooked \cup Fresh,
                  target |-> IF Bridges = {} THEN script.target ELSE Max(Bridges),
                  bridged |-> script.bridged \/ Bridges # {}, scans |-> TRUE]
    /\ trail' = [trail EXCEPT !.several = @ \cup (Bridges \ {Max(Bridges \cup {1})})]

ScanTick ==
    /\ script.scans
    /\ Pass /\ scope' # scope
    /\ UNCHANGED <<surface, capturing, buffered>>

\* uninstall: what was wrapped is put back, and the remembered bridge.
TakenOff(f, hook) == [hook EXCEPT !.method = IF f \in script.hooked THEN Bare ELSE @,
                                  !.bridge = IF f = script.target THEN Bare ELSE @]
Uninstalled == [script EXCEPT !.hooked = {}, !.scans = FALSE, !.target = 0, !.bridged = FALSE]
TakeOff == scope' = [f \in Scopes |-> TakenOff(f, scope[f])] /\ script' = Uninstalled

-----------------------------------------------------------------------------
(* The page                                                                 *)

AddScope(f, speaks) ==
    /\ Incident /\ f \notin Here
    /\ scope' = [scope EXCEPT ![f] = [NoScope EXCEPT !.here = TRUE, !.speaks = speaks]]
    /\ trail' = [Marked(trail) EXCEPT !.several = @ \ {f}]
    /\ script' = [script EXCEPT !.hooked = @ \ {f}, !.target = IF @ = f THEN 0 ELSE @]
    /\ UNCHANGED <<surface, capturing, buffered>>

RemoveScope(f) ==
    /\ Incident /\ f \in Here
    /\ scope' = [scope EXCEPT ![f].here = FALSE]
    /\ trail' = Marked(trail) /\ UNCHANGED <<surface, script, capturing, buffered>>

\* The realm is set up anew: frames, script and buffers are gone.
RebuildPage ==
    /\ Incident /\ Here # {}
    /\ scope' = [f \in Scopes |-> NoScope] /\ script' = Uninjected
    /\ buffered' = {}
    /\ trail' = [Marked(trail) EXCEPT !.several = {}]
    /\ UNCHANGED <<surface, capturing>>

\* cloud.database() of a hooked cloud proxies the handle it returns, once per
\* instance: the page may get the same one again.
ProxyOnce(db) == IF db = 0 THEN 1 ELSE db

GetDatabase(f) ==
    /\ Incident /\ surface = "cloud" /\ f \in Here
    /\ scope' = [scope EXCEPT ![f].db = IF f \in script.hooked THEN ProxyOnce(@) ELSE @]
    /\ trail' = Marked(trail) /\ UNCHANGED <<surface, script, capturing, buffered>>

\* Whom a record belongs to: the capture, from the clear of its start on.
Owner == IF (capturing.runs /\ capturing.start = "no") \/ capturing.stop = "clear"
         THEN capturing.number ELSE 0

Layers(f) == [method |-> scope[f].method.layers, bridge |-> scope[f].bridge.layers,
              db |-> scope[f].db]

CallPage(f, what) ==
    /\ Incident /\ f \in Here
    /\ LET layers == Layers(f)[what] IN
       /\ layers > 0
       /\ buffered' = buffered \cup {Owner}
       /\ trail' = [Marked(trail) EXCEPT !.twice = @ \/ layers > 1]
    /\ UNCHANGED <<surface, scope, script, capturing>>

-----------------------------------------------------------------------------
(* The shell                                                                *)

(* The handlers of two requests run side by side: a start may begin while a *)
(* stop is still taking the hook off. (A stop during the installation is    *)
(* FeederLifecycle's.)                                                      *)

\* wxapi.start, cloud.start of a feeder that does not run; the cursors go
\* back to 0.
BeginCapture ==
    /\ ~ capturing.runs /\ capturing.start = "no" /\ capturing.number < MaxCaptures
    /\ capturing' = [capturing EXCEPT !.runs = TRUE, !.number = @ + 1, !.start = "install"]
    /\ trail' = [trail EXCEPT !.overlap = capturing.stop # "no"]
    /\ UNCHANGED <<surface, scope, script, buffered>>

\* HookFeeder.Start: the hook is installed and the loop runs, unless there is
\* nothing to hook or no answer.
InstallCapture(ok) ==
    /\ capturing.start = "install" /\ (ok \/ Incident)
    /\ IF ok /\ Here # {}
       THEN Pass /\ capturing' = [capturing EXCEPT !.start = "clear"]
       ELSE /\ capturing' = [capturing EXCEPT !.start = "no", !.runs = FALSE]
            /\ trail' = IF ok THEN trail ELSE Marked(trail)
            /\ UNCHANGED <<scope, script>>
    /\ UNCHANGED <<surface, buffered>>

\* Then the page's buffers are emptied; the error of that is not looked at.
StartClears(ok) ==
    /\ capturing.start = "clear" /\ (ok \/ Incident)
    /\ capturing' = [capturing EXCEPT !.start = "no"]
    /\ buffered' = IF ok THEN {} ELSE buffered
    /\ trail' = IF ok THEN [trail EXCEPT !.unclean = FALSE]
                ELSE [Marked(trail) EXCEPT !.unclean = TRUE]
    /\ UNCHANGED <<surface, scope, script>>

\* A drain of the loop; what was not captured since the start is stale.
DrainPage ==
    /\ capturing.runs /\ capturing.start # "install" /\ buffered # {}
    /\ buffered' = {}
    /\ trail' = [trail EXCEPT !.stale = @ \/
          (capturing.start = "no" /\ ~ trail.unclean /\ buffered \ {capturing.number} # {})]
    /\ UNCHANGED <<surface, scope, script, capturing>>

\* A new realm of a running capture gets the hook again.
InjectAgain ==
    /\ capturing.runs /\ capturing.start = "no" /\ ~ script.there /\ Here # {}
    /\ Pass /\ UNCHANGED <<surface, capturing, buffered>>

\* wxapi.stop, cloud.stop: the loop ends, then the page is cleared and the
\* hook taken off; neither answer is looked at.
BeginStop ==
    /\ capturing.runs /\ capturing.start # "install" /\ capturing.stop = "no"
    /\ capturing' = [capturing EXCEPT !.runs = FALSE, !.stop = "clear"]
    /\ UNCHANGED <<surface, scope, script, buffered, trail>>

StopClears(ok) ==
    /\ capturing.stop = "clear" /\ (ok \/ Incident)
    /\ capturing' = [capturing EXCEPT !.stop = "takeoff"]
    /\ buffered' = IF ok THEN {} ELSE buffered
    /\ trail' = IF ok THEN trail ELSE Marked(trail)
    /\ UNCHANGED <<surface, scope, script>>

StopTakesOff(ok) ==
    /\ capturing.stop = "takeoff" /\ (ok \/ Incident)
    /\ capturing' = [capturing EXCEPT !.stop = "no"]
    /\ IF ok /\ script.there THEN TakeOff /\ UNCHANGED trail
       ELSE trail' = (IF ok THEN trail ELSE Marked(trail)) /\ UNCHANGED <<scope, script>>
    /\ UNCHANGED <<surface, buffered>>

HooksNext ==
    \/ ScanTick \/ RebuildPage \/ BeginCapture \/ DrainPage \/ InjectAgain \/ BeginStop
    \/ \E f \in Scopes :
          \/ RemoveScope(f) \/ GetDatabase(f)
          \/ \E b \in BOOLEAN : AddScope(f, b)
          \/ \E what \in {"method", "bridge", "db"} : CallPage(f, what)
    \/ \E ok \in BOOLEAN : InstallCapture(ok) \/ StartClears(ok) \/ StopClears(ok) \/ StopTakesOff(ok)

HooksSpec == HooksInit /\ [][HooksNext]_hookVars

-----------------------------------------------------------------------------
(* Properties                                                               *)

\* Every variable has its type.
HooksTypeOK ==
    /\ surface \in {"wxapi", "cloud"}
    /\ script.hooked \subseteq Scopes /\ script.target \in 0 .. MaxScopes
    /\ capturing.start \in {"no", "install", "clear"}
    /\ capturing.stop \in {"no", "clear", "takeoff"}
    /\ buffered \subseteq 0 .. MaxCaptures
    /\ trail.spent \in 0 .. MaxIncidents

\* A call is recorded once, however often the hook was installed, scanned and
\* taken off around it ("wrapping it again would record every call twice").
RecordedOnce == ~ trail.twice

\* Once a start has cleared the page, its capture gets no record of an idle
\* page or of an earlier capture, whatever was left wrapped ("the next start
\* re-drained those stopped-period records as fresh traffic").
NothingFromBefore == ~ trail.stale

\* When the hook is off, no method and no bridge of a frame still there
\* records, but for the bridges wrapped together with a later one.
OffIsBare ==
    script.hooked = {} /\ ~ script.bridged =>
        \A f \in Here : /\ scope[f].method.layers = 0
                        /\ scope[f].bridge.layers > 0 => f \in trail.several

\* A capture that runs is hooked into the page it was installed in: install is
\* re-entered and reports "capturing" for what an earlier one did. Only a stop
\* it overtook takes the hook off under it.
RunningIsHooked ==
    capturing.runs /\ capturing.start # "install" /\ script.there /\ ~ trail.overlap
        => script.scans /\ \A f \in script.hooked \cap Here : scope[f].method.layers = 1

HooksComeOff == RunningIsHooked /\ RecordedOnce /\ NothingFromBefore /\ OffIsBare
=============================================================================
