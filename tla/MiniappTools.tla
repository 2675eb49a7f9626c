----------------------------- MODULE MiniappTools -----------------------------
(* The tools that drive the mini program:                                  *)
(* src/desktop/internal/mcp/miniapp_tools.go.  A tool finds the execution  *)
(* context it needs (the logic layer, or the webview of the current page), *)
(* from its cache or by a scan of the ids, and evaluates there; a          *)
(* navigation is dispatched and then verified against the page stack.      *)
(*                                                                         *)
(* The program moves between any two round trips: pages come and go, their *)
(* webviews come later and go earlier, and a restart deals the ids out     *)
(* anew.                                                                   *)
EXTENDS Naturals, Sequences, FiniteSets

CONSTANTS
    Routes,     \* the pages of the program
    MaxId,      \* contextProbeMaxID; (bound) ids stay within it
    Attempts,   \* pageContextAttempts
    MaxDepth,   \* bound: pages on the stack
    MaxMoves    \* bound: steps of the program

ASSUME ProbesAreBounded ==
    MaxId \in Nat \ {0} /\ Attempts \in Nat \ {0} /\ MaxMoves \in Nat
    /\ MaxDepth \in Nat \ {0} /\ "service" \notin Routes

VARIABLES
    stack,      \* the page stack: the route of a layer, and its webview (0: none)
    service,    \* the id of the logic layer
    fresh,      \* the next id
    moves,      \* steps the program took
    cache,      \* appServiceCtx, pageCtx and pageCtxRoute
    tool,       \* the call in progress
    tops,       \* history: routes on top since the call began
    marks,      \* history: <<id, marker>> that held since the call began
    low,        \* history: the lowest stack since the call began
    ran         \* history: times the expression of the call took effect

programVars == <<stack, service, fresh, moves>>
historyVars == <<tops, marks, low, ran>>
toolVars == <<programVars, cache, tool, historyVars>>

Ids == 1 .. MaxId
Depth == Len(stack)
Marker(id) ==
    IF id = service THEN {"service"}
    ELSE {stack[k].route : k \in {j \in DOMAIN stack : stack[j].view = id}}
Marked == UNION {{id} \X Marker(id) : id \in Ids}
TopRoute == stack[Depth].route

NoTool == [name |-> "none", pc |-> "idle", route |-> "", id |-> 0, at |-> 0,
           tries |-> 0, before |-> 0, delta |-> 1, guessed |-> FALSE, kind |-> "none", result |-> "none"]

ToolsInit ==
    /\ \E r \in Routes : stack = <<[route |-> r, view |-> 2]>>
    /\ service = 1 /\ fresh = 3 /\ moves = 0
    /\ cache = [service |-> 0, page |-> 0, route |-> ""]
    /\ tool = NoTool /\ tops = {} /\ marks = {} /\ low = 0 /\ ran = 0

-----------------------------------------------------------------------------
\* The mini program.
Shown(layers, logic) ==
    /\ stack' = layers /\ service' = logic /\ moves' = moves + 1 /\ moves < MaxMoves
    /\ UNCHANGED <<cache, tool, ran>>
    /\ IF tool.pc \in {"idle", "done"} THEN UNCHANGED <<tops, marks, low>>
       ELSE /\ tops' = tops \cup {layers[Len(layers)].route}
            /\ marks' = marks \cup {<<logic, "service">>}
                              \cup {<<l.view, l.route>> : l \in {layers[k] : k \in DOMAIN layers}}
            /\ low' = IF Len(layers) < low THEN Len(layers) ELSE low

\* A page is pushed: its layer is there before its webview is.
PushPage(r) ==
    Depth < MaxDepth /\ Shown(Append(stack, [route |-> r, view |-> 0]), service) /\ UNCHANGED fresh

\* The webview of the top layer shows up under the next id.
MountPage ==
    /\ stack[Depth].view = 0 /\ fresh <= MaxId
    /\ Shown([stack EXCEPT ![Depth].view = fresh], service) /\ fresh' = fresh + 1

\* The webview of the page on top is gone; its layer still is on the stack.
UnloadPage ==
    stack[Depth].view # 0 /\ Shown([stack EXCEPT ![Depth].view = 0], service) /\ UNCHANGED fresh

\* The layer leaves the stack, or another page takes its place.
PopPage ==
    Depth > 1 /\ stack[Depth].view = 0 /\ Shown(SubSeq(stack, 1, Depth - 1), service) /\ UNCHANGED fresh
ReplacePage(r) ==
    /\ stack[Depth].view = 0 /\ Shown([stack EXCEPT ![Depth].route = r], service) /\ UNCHANGED fresh

\* The program starts again on its first page; its ids begin at 1 again.
RestartProgram(logic) ==
    /\ Shown(<<[route |-> stack[1].route, view |-> 3 - logic]>>, logic) /\ fresh' = 3

ProgramMoves ==
    \/ \E r \in Routes : PushPage(r) \/ ReplacePage(r)
    \/ MountPage \/ UnloadPage \/ PopPage
    \/ \E logic \in {1, 2} : RestartProgram(logic)

-----------------------------------------------------------------------------
\* A step of the call.
ToolMoves(next) == tool' = next /\ UNCHANGED programVars
Goes(pc) == [tool EXCEPT !.pc = pc]
Answers(result) == [tool EXCEPT !.pc = "done", !.result = result, !.id = 0, !.at = 0, !.tries = 0]
NoEffect == UNCHANGED historyVars
Untouched == UNCHANGED <<cache, historyVars>>

PageTools == {"click", "type", "scroll"}
ServiceTools == {"storage", "call"}

\* A call begins: pages tools read the route, the others start with the cache.
BeginTool(name, pc) ==
    /\ tool.pc = "idle" /\ tool' = [NoTool EXCEPT !.name = name, !.pc = pc]
    /\ tops' = {TopRoute} /\ marks' = Marked /\ low' = Depth /\ ran' = 0
    /\ UNCHANGED <<programVars, cache>>

\* miniapp_click: a node or a selector in the current page, or a point.
Click == \E pc \in {"route", "input"} : BeginTool("click", pc)

\* miniapp_type: into a component or the focused field, or wherever the focus is.
Type == \E pc \in {"route", "input"} : BeginTool("type", pc)

\* miniapp_scroll: a wheel event at a point located in the current page.
Scroll == BeginTool("scroll", "route")

\* The storage tools, and miniapp_call.
Storage == BeginTool("storage", "cached")
CallMethod == BeginTool("call", "cached")

\* miniapp_evaluate: in the context the agent names.
DriveGiven(id) ==
    /\ tool.pc = "idle" /\ tool' = [NoTool EXCEPT !.name = "evaluate", !.pc = "drive", !.id = id]
    /\ tops' = {TopRoute} /\ marks' = Marked /\ low' = Depth /\ ran' = 0
    /\ UNCHANGED <<programVars, cache>>

EndTool ==
    /\ tool.pc = "done" /\ ToolMoves(NoTool)
    /\ tops' = {} /\ marks' = {} /\ low' = 0 /\ ran' = 0 /\ UNCHANGED cache

\* The answer of contextAnswers for an id, at this moment.
Yes(id) == tool.route \in Marker(id)

\* currentRoute: navigator.currentRoute fails, reads a layer that has no route
\* yet as "", or names the page on top.
ReadRoute ==
    /\ tool.pc = "route"
    /\ \/ ToolMoves(Answers("error"))
       \/ stack[Depth].view = 0 /\ ToolMoves(Answers("error"))
       \/ ToolMoves([Goes("cached") EXCEPT !.route = TopRoute])
    /\ Untouched

Cached == IF tool.name \in ServiceTools THEN cache.service
          ELSE IF cache.route = tool.route THEN cache.page ELSE 0

Want == IF tool.name \in ServiceTools THEN [tool EXCEPT !.route = "service"] ELSE tool

\* Mutant: a cached id is taken at its word.
TrustCached ==
    /\ tool.pc = "cached"
    /\ ToolMoves([Want EXCEPT !.pc = IF Cached # 0 THEN "drive" ELSE "scan", !.id = Cached, !.at = 1])
    /\ Untouched

\* pageContextID and appServiceContextID ask the cached context before they
\* use it; an answer that is not yes means a scan.
AskCached ==
    LET sure == Cached # 0 /\ Want.route \in Marker(Cached)
    IN  /\ tool.pc = "cached"
        /\ ToolMoves([Want EXCEPT !.pc = IF sure THEN "drive" ELSE "scan",
                             !.id = IF sure THEN Cached ELSE 0, !.at = 1])
        /\ Untouched

\* findContext: one round trip per id, and the highest that answers yes.
ScanNext ==
    /\ tool.pc = "scan" /\ tool.at <= MaxId
    /\ ToolMoves([tool EXCEPT !.at = @ + 1, !.id = IF Yes(tool.at) THEN tool.at ELSE @])
    /\ Untouched

\* The scan is over: the id is cached with its route and used, or the route
\* is read again, three times at most.
ScanEnds ==
    /\ tool.pc = "scan" /\ tool.at > MaxId
    /\ \/ /\ tool.id # 0 /\ ToolMoves(Goes("drive")) /\ NoEffect
          /\ cache' = IF tool.name \in ServiceTools THEN [cache EXCEPT !.service = tool.id]
                      ELSE [cache EXCEPT !.page = tool.id, !.route = tool.route]
       \/ /\ tool.id = 0 /\ Untouched
          /\ IF tool.name \in ServiceTools \/ tool.tries + 1 = Attempts
             THEN ToolMoves(Answers("error"))
             ELSE ToolMoves([Goes("route") EXCEPT !.tries = @ + 1])

-----------------------------------------------------------------------------
\* What an expression of an agent can be.
Expressions == {"value", "statements", "function", "throws", "throwsSyntax"}

\* evaluateDetail: only a SyntaxError is retried, and never of an expression
\* that opens as a function.
Retried(kind) == kind \in {"statements", "throwsSyntax"}

\* evaluateOnce: statements do not compile where an expression is expected
\* and have no effect; what throws had one.
Evaluate(kind) ==
    LET first == IF kind = "statements" THEN 0 ELSE 1
    IN  /\ ran' = ran + first + (IF Retried(kind) THEN 1 ELSE 0)
        /\ UNCHANGED <<tops, marks, low>>

\* The expression of the call lands in its context; the context may be gone,
\* and a command that timed out may have taken effect.
DriveContext(kind) ==
    /\ tool.pc = "drive" /\ UNCHANGED cache
    /\ tool.name \in {"call", "evaluate"} \/ kind \in {"function", "throws"}
    /\ \/ Marker(tool.id) = {} /\ ToolMoves(Answers("error")) /\ NoEffect
       \/ /\ Marker(tool.id) # {} /\ Evaluate(kind)
          /\ \/ /\ kind \in {"value", "function", "statements"}
                /\ \/ tool.name = "type" /\ ToolMoves(Goes("input"))
                   \/ tool.name # "scroll" /\ ToolMoves([Answers("ok") EXCEPT !.kind = kind])
                   \/ tool.name = "scroll" /\ ToolMoves(Goes("input"))
             \/ ToolMoves([Answers("error") EXCEPT !.kind = kind])
       \/ ToolMoves(Answers("error")) /\ NoEffect

\* Keys, clicks and wheel events go to whatever has the focus or is under the
\* point by then.
SendInput ==
    /\ tool.pc = "input" /\ Untouched
    /\ \E result \in {"ok", "error"} : ToolMoves(Answers(result))

-----------------------------------------------------------------------------
\* miniapp_navigate: stackShape first; a failed read is a depth of 0.
BeginNavigate(method, route, delta) ==
    /\ tool.pc = "idle"
    /\ \E before \in {0, Depth} :
         tool' = [NoTool EXCEPT !.name = method, !.pc = "dispatch", !.route = route,
                                !.before = before, !.delta = delta]
    /\ tops' = {TopRoute} /\ marks' = Marked /\ low' = Depth /\ ran' = 0
    /\ UNCHANGED <<programVars, cache>>

\* navigator.navigate: accepted, which says nothing of the stack, or refused.
\* A refused way back is tried again inside the webview of the page.
DispatchMove ==
    /\ tool.pc = "dispatch" /\ Untouched
    /\ \/ ToolMoves(Goes("verify"))
       \/ tool.name = "forward" /\ ToolMoves(Answers("error"))
       \/ tool.name = "back" /\ \E result \in {"inPage", "error"} : ToolMoves(Answers(result))

\* bodyRoute: the marker of the newest webview that has one (bound: read in
\* one step).
BodyRoute ==
    LET views == {id \in Ids : Marker(id) # {} /\ id # service}
    IN  IF views = {} THEN ""
        ELSE CHOOSE r \in Marker(CHOOSE id \in views : \A v \in views : v <= id) : TRUE

\* The way back has landed: by the depth, for two layers can show one route.
Shrunk == Depth + tool.delta <= tool.before

\* verifyNavigation: one poll of the stack.  A top layer without a route is
\* read from the webviews, once.
PollStack ==
    /\ tool.pc = "verify" /\ Untouched
    /\ \E guess \in BOOLEAN :
       LET observed == IF guess THEN BodyRoute ELSE TopRoute
           looked == [tool EXCEPT !.guessed = @ \/ guess]
       IN  /\ guess => stack[Depth].view = 0 /\ ~ tool.guessed
           /\ ToolMoves(IF tool.name = "back"
                   THEN IF tool.before = 0 \/ Shrunk
                        THEN Answers("ok") ELSE looked
                   ELSE IF observed = tool.route
                        THEN Answers(IF guess THEN "guess" ELSE "ok")
                        ELSE looked)

\* The five seconds are over.
VerifyTimesOut == tool.pc = "verify" /\ ToolMoves(Answers("notLanded")) /\ Untouched

ToolsNext ==
    \/ ProgramMoves
    \/ Click \/ Type \/ Scroll \/ Storage \/ CallMethod
    \/ EndTool \/ ReadRoute \/ AskCached \/ ScanNext \/ ScanEnds
    \/ \E kind \in Expressions : DriveContext(kind)
    \/ SendInput
    \/ \E r \in Routes : BeginNavigate("forward", r, 1)
    \/ \E delta \in {1, 2} : BeginNavigate("back", "", delta)
    \/ \E id \in Ids : DriveGiven(id)
    \/ DispatchMove \/ PollStack \/ VerifyTimesOut

(* The tools and the mini program, by themselves.                           *)
ToolsSpec == ToolsInit /\ [][ToolsNext]_toolVars

-----------------------------------------------------------------------------
ToolsTypeOK ==
    /\ stack \in Seq([route : Routes, view : 0 .. MaxId]) /\ Depth > 0
    /\ service \in Ids /\ fresh \in 1 .. MaxId + 1 /\ moves \in 0 .. MaxMoves
    /\ cache \in [service : 0 .. MaxId, page : 0 .. MaxId, route : Routes \cup {""}]
    /\ tool.id \in 0 .. MaxId /\ tool.at \in 0 .. MaxId + 1 /\ tool.tries \in 0 .. Attempts
    /\ tops \subseteq Routes /\ low \in Nat /\ ran \in 0 .. 2

\* A tool drives what it looked for: the context it is about to use showed, at
\* some moment of this very call, the page that was on top at some moment of
\* it (or was the logic layer), however the ids were dealt out since the
\* cache was filled.  Never just any webview that is alive.
DrivesWhatItFound ==
    tool.pc = "drive" /\ tool.name # "evaluate" =>
        /\ <<tool.id, tool.route>> \in marks
        /\ tool.name \in PageTools => tool.route \in tops

\* A navigation that is told to have landed was seen to: the page was on top,
\* or the stack was as much lower as was asked, since the call began.
LandedIsSeen ==
    tool.result = "ok" /\ tool.pc = "done" =>
        /\ tool.name = "forward" => tool.route \in tops
        /\ tool.name = "back" /\ tool.before # 0 => low + tool.delta <= tool.before

\* An expression takes effect twice only if it threw a SyntaxError of its own.
EffectsOnce == tool.kind # "throwsSyntax" => ran <= 1

\* The tools drive what they looked for, once, and report what they saw.
DrivesAreHonest == DrivesWhatItFound /\ LandedIsSeen /\ EffectsOnce
==============================================================================
