------------------------ MODULE Tools_proofs ------------------------
(* Proofs about the tools that work in the mini program, for any programs,  *)
(* requests and rings: the drives and evaluations (MiniappTools), the       *)
(* reading of captures by an agent (AgentStream), and the order and         *)
(* numbering of what is read (PageStream).                                  *)
EXTENDS MiniappTools, AgentStream, PageStream, SequenceTheorems, FiniteSetTheorems, TLAPS

-----------------------------------------------------------------------------
(* The tools of the mini program (MiniappTools)                             *)

\* The call is under way: the history follows the program.
Driving == tool.pc \notin {"idle", "done"}

Layers == Seq([route : Routes, view : Nat])
ToolNames == PageTools \cup ServiceTools \cup {"none", "evaluate", "forward", "back"}

RouteNames == Routes \cup {"", "service"}

ToolShapes ==
    [name : ToolNames,
     pc : {"idle", "route", "cached", "scan", "drive", "input", "dispatch", "verify", "done"},
     route : RouteNames, id : 0 .. MaxId, at : Nat, tries : Nat,
     before : Nat, delta : Nat, guessed : BOOLEAN,
     kind : Expressions \cup {"none"}, result : {"none", "ok", "guess", "error", "inPage", "notLanded"}]

ToolsShape ==
    /\ stack \in Layers /\ Len(stack) > 0 /\ service \in Nat /\ fresh \in Nat
    /\ tool \in ToolShapes
    /\ cache.service \in 0 .. MaxId /\ cache.page \in 0 .. MaxId
    /\ low \in Nat /\ ran \in Nat

\* The history of a call holds what the program shows now.
HistoryFollows ==
    Driving =>
        /\ \A id \in Ids : \A m \in Marker(id) : <<id, m>> \in marks
        /\ TopRoute \in tops /\ low <= Depth

\* What each step of a call has found out, and whose steps they are.
StepsAreSound ==
    /\ tool.pc \in {"route", "input"} => tool.name \in PageTools
    /\ tool.pc \in {"cached", "scan"} => tool.name \in PageTools \cup ServiceTools
    /\ tool.pc = "drive" => tool.name \in PageTools \cup ServiceTools \cup {"evaluate"}
    /\ tool.pc \in {"dispatch", "verify"} => tool.name \in {"forward", "back"}
    /\ tool.pc \in {"cached", "scan", "drive"} /\ tool.name \in PageTools => tool.route \in tops
    /\ tool.pc = "scan" => tool.at > 0 /\ (tool.id # 0 => <<tool.id, tool.route>> \in marks)

\* How often the expression took effect, by where the call is.
EffectsByStep ==
    /\ tool.pc # "done" => tool.kind = "none" /\ tool.result = "none"
    /\ tool.pc \notin {"done", "input"} => ran = 0
    /\ tool.pc = "input" => ran <= 1

ToolsInv ==
    /\ ToolsShape /\ HistoryFollows /\ StepsAreSound /\ EffectsByStep /\ DrivesAreHonest

USE ProbesAreBounded

LEMMA SomeNumbers == 0 \in 0 .. MaxId /\ (ToolsInv => Depth \in Nat /\ fresh \in Nat)
  BY DEF ToolsInv, ToolsShape, Layers, Depth

LEMMA ToolsInitially == ToolsInit => ToolsInv
<1> SUFFICES ASSUME ToolsInit PROVE ToolsInv
  OBVIOUS
<1>1. PICK r \in Routes : stack = <<[route |-> r, view |-> 2]>>
  BY DEF ToolsInit
<1>2. stack \in Layers /\ Len(stack) > 0
  BY <1>1 DEF Layers
<1>3. /\ tool \in ToolShapes /\ tool.pc = "idle" /\ tool.result = "none" /\ tool.kind = "none"
      /\ cache.service \in 0 .. MaxId /\ cache.page \in 0 .. MaxId
      /\ service \in Nat /\ fresh \in Nat /\ low \in Nat /\ ran = 0
  BY SomeNumbers DEF ToolsInit, NoTool, ToolShapes, ToolNames, RouteNames
<1>4. ToolsShape
  BY <1>2, <1>3 DEF ToolsShape
<1>5. StepsAreSound /\ EffectsByStep /\ HistoryFollows /\ DrivesAreHonest
  BY <1>3 DEF StepsAreSound, EffectsByStep, HistoryFollows, Driving,
      DrivesAreHonest, DrivesWhatItFound, LandedIsSeen, EffectsOnce
<1> QED
  BY <1>4, <1>5 DEF ToolsInv

\* The program moves: the history takes in what it shows now.
LEMMA ShownKeepsInv ==
    ASSUME ToolsInv, NEW layers \in Layers, Len(layers) > 0, NEW logic \in Nat,
           Shown(layers, logic), fresh' \in Nat
    PROVE  ToolsInv'
<1>1. ToolsShape'
  BY DEF ToolsInv, ToolsShape, Shown, Layers, Depth
<1>2. HistoryFollows'
  <2> SUFFICES ASSUME Driving' PROVE HistoryFollows!2'
    BY DEF HistoryFollows
  <2>1. /\ tops' = tops \cup {layers[Len(layers)].route}
        /\ marks' = marks \cup {<<logic, "service">>}
                          \cup {<<l.view, l.route>> : l \in {layers[k] : k \in DOMAIN layers}}
        /\ low' = IF Len(layers) < low THEN Len(layers) ELSE low
    BY DEF Shown, Driving
  <2>2. ASSUME NEW id \in Ids, NEW m \in Marker(id)' PROVE <<id, m>> \in marks'
    BY <2>1, <2>2 DEF Shown, Marker
  <2>3. TopRoute' \in tops' /\ low' <= Depth'
    BY <2>1 DEF Shown, TopRoute, Depth, ToolsInv, ToolsShape, Layers
  <2> QED
    BY <2>2, <2>3 DEF Ids
<1>3. tops \subseteq tops' /\ marks \subseteq marks' /\ low' <= low
  BY DEF Shown, ToolsInv, ToolsShape, Layers
<1>4. tool' = tool /\ ran' = ran /\ (tool.pc \in {"idle", "done"} => low' = low)
  BY DEF Shown
<1>5. StepsAreSound' /\ EffectsByStep'
  BY <1>3, <1>4 DEF ToolsInv, StepsAreSound, EffectsByStep
<1>6. DrivesAreHonest'
  BY <1>3, <1>4 DEF ToolsInv, DrivesAreHonest, DrivesWhatItFound, LandedIsSeen, EffectsOnce
<1> QED
  BY <1>1, <1>2, <1>5, <1>6 DEF ToolsInv

LEMMA ProgramKeepsInv ==
    ASSUME ToolsInv, ProgramMoves
    PROVE  ToolsInv'
<1>q. stack \in Layers /\ Len(stack) > 0 /\ service \in Nat
  BY DEF ToolsInv, ToolsShape
<1> USE DEF Layers, Depth
<1>d. /\ DOMAIN stack = 1 .. Len(stack)
      /\ \A k \in 1 .. Len(stack) : stack[k] \in [route : Routes, view : Nat]
  BY <1>q, LenProperties, ElementOfSeq
<1>s. /\ stack \in Layers /\ Len(stack) > 0 /\ service \in Nat
      /\ DOMAIN stack = 1 .. Len(stack)
      /\ \A k \in 1 .. Len(stack) : stack[k].route \in Routes /\ stack[k] \in [route : Routes, view : Nat]
  BY <1>q, <1>d
<1>n. fresh \in Nat
  BY SomeNumbers
<1>1. ASSUME NEW r \in Routes, PushPage(r) PROVE ToolsInv'
  <2> DEFINE layers == Append(stack, [route |-> r, view |-> 0])
  <2>1. layers \in Layers /\ Len(layers) > 0
    BY <1>s
  <2> QED
    BY <1>1, <1>s, <1>n, <2>1, ShownKeepsInv DEF PushPage
<1>2. ASSUME NEW r \in Routes, ReplacePage(r) PROVE ToolsInv'
  <2> DEFINE layers == [stack EXCEPT ![Len(stack)].route = r]
  <2>1. layers \in Layers /\ Len(layers) > 0
    BY <1>s
  <2> QED
    BY <1>2, <1>s, <1>n, <2>1, ShownKeepsInv DEF ReplacePage
<1>f. ASSUME NEW v \in Nat, Shown([stack EXCEPT ![Depth].view = v], service),
             fresh' \in Nat
      PROVE  ToolsInv'
  <2> DEFINE layers == [stack EXCEPT ![Len(stack)].view = v]
  <2>1. layers \in Layers /\ Len(layers) > 0
    BY <1>s
  <2> QED
    BY <1>f, <1>s, <2>1, ShownKeepsInv
<1>3. CASE MountPage
  BY <1>3, <1>n, <1>f DEF MountPage
<1>4. CASE UnloadPage
  BY <1>4, <1>n, <1>f DEF UnloadPage
<1>5. CASE PopPage
  <2> DEFINE layers == SubSeq(stack, 1, Len(stack) - 1)
  <2>1. layers \in Layers /\ Len(layers) > 0
    BY <1>5, <1>s DEF PopPage
  <2> QED
    BY <1>5, <1>s, <1>n, <2>1, ShownKeepsInv DEF PopPage
<1>6. ASSUME NEW logic \in {1, 2}, RestartProgram(logic) PROVE ToolsInv'
  <2> DEFINE layers == <<[route |-> stack[1].route, view |-> 3 - logic]>>
  <2>1. layers \in Layers /\ Len(layers) > 0 /\ logic \in Nat
    BY <1>s
  <2> QED
    BY <1>6, <2>1, ShownKeepsInv DEF RestartProgram
<1> QED
  BY <1>1, <1>2, <1>3, <1>4, <1>5, <1>6 DEF ProgramMoves

-----------------------------------------------------------------------------
\* A call begins with what the program shows now.
LEMMA BeginKeepsInv ==
    ASSUME ToolsInv, tool' \in ToolShapes,
           tool'.kind = "none" /\ tool'.result = "none" /\ tool'.at = 0,
           \/ tool'.pc \in {"route", "input"} /\ tool'.name \in PageTools
           \/ tool'.pc = "cached" /\ tool'.name \in ServiceTools
           \/ tool'.pc = "drive" /\ tool'.name = "evaluate"
           \/ tool'.pc = "dispatch" /\ tool'.name \in {"forward", "back"},
           tops' = {TopRoute} /\ marks' = Marked /\ low' = Depth /\ ran' = 0,
           UNCHANGED <<programVars, cache>>
    PROVE  ToolsInv'
<1>1. ToolsShape'
  BY DEF ToolsInv, ToolsShape, programVars, Depth, Layers
<1>2. HistoryFollows'
  <2>1. ASSUME NEW id \in Ids, NEW m \in Marker(id)' PROVE <<id, m>> \in marks'
    <3>1. Marker(id)' = Marker(id)
      BY DEF Marker, programVars
    <3> QED
      BY <2>1, <3>1 DEF Marked
  <2>2. TopRoute' \in tops' /\ low' <= Depth'
    BY <1>1 DEF TopRoute, Depth, programVars, ToolsShape, Layers
  <2> QED
    BY <2>1, <2>2 DEF HistoryFollows, Ids
<1>3. StepsAreSound' /\ EffectsByStep'
  BY DEF StepsAreSound, EffectsByStep, PageTools, ServiceTools
<1>4. DrivesAreHonest'
  BY DEF DrivesAreHonest, DrivesWhatItFound, LandedIsSeen, EffectsOnce, PageTools, ServiceTools
<1> QED
  BY <1>1, <1>2, <1>3, <1>4 DEF ToolsInv

LEMMA NoToolIsATool ==
    NoTool \in ToolShapes /\ NoTool.kind = "none" /\ NoTool.result = "none" /\ NoTool.at = 0
  BY SomeNumbers DEF NoTool, ToolShapes, ToolNames, RouteNames

LEMMA NavigateKeepsInv ==
    ASSUME ToolsInv, NEW name \in {"forward", "back"}, NEW r \in RouteNames,
           NEW delta \in {1, 2}, BeginNavigate(name, r, delta)
    PROVE  ToolsInv'
<1> USE DEF PageTools, ServiceTools, ToolNames
<1>1. PICK before :
        /\ before = 0 \/ before = Depth
        /\ tool' = [NoTool EXCEPT !.name = name, !.pc = "dispatch", !.route = r,
                                  !.before = before, !.delta = delta]
  BY DEF BeginNavigate
<1>2. before \in Nat
  <2>1. CASE before = 0
    BY <2>1
  <2>2. CASE before = Depth
    BY <2>2, SomeNumbers
  <2> QED
    BY <1>1, <2>1, <2>2
<1>3. tool' = [name |-> name, pc |-> "dispatch", route |-> r, id |-> 0, at |-> 0,
               tries |-> 0, before |-> before, delta |-> delta, guessed |-> FALSE,
               kind |-> "none", result |-> "none"]
  BY <1>1 DEF NoTool
<1>4. delta \in Nat /\ name \in ToolNames
  OBVIOUS
<1>5. tool' \in ToolShapes
  BY <1>2, <1>3, <1>4, SomeNumbers DEF ToolShapes
<1> QED
  BY <1>3, <1>5, BeginKeepsInv DEF BeginNavigate

LEMMA GivenKeepsInv ==
    ASSUME ToolsInv, NEW id \in Ids, DriveGiven(id)
    PROVE  ToolsInv'
<1> USE DEF PageTools, ServiceTools, ToolNames
<1>1. tool' = [NoTool EXCEPT !.name = "evaluate", !.pc = "drive", !.id = id]
  BY DEF DriveGiven
<1>2. tool' = [name |-> "evaluate", pc |-> "drive", route |-> "", id |-> id, at |-> 0,
               tries |-> 0, before |-> 0, delta |-> 1, guessed |-> FALSE,
               kind |-> "none", result |-> "none"]
  BY <1>1 DEF NoTool
<1>3. id \in 0 .. MaxId /\ "evaluate" \in ToolNames
  BY DEF Ids
<1>4. tool' \in ToolShapes
  BY <1>2, <1>3, SomeNumbers DEF ToolShapes, RouteNames
<1> QED
  <2>1. /\ tops' = {TopRoute} /\ marks' = Marked /\ low' = Depth /\ ran' = 0
        /\ UNCHANGED <<programVars, cache>>
    BY DEF DriveGiven
  <2>2. tool'.pc = "drive" /\ tool'.name = "evaluate" /\ tool'.kind = "none"
        /\ tool'.result = "none" /\ tool'.at = 0
    BY <1>2
  <2> QED
    BY <1>4, <2>1, <2>2, BeginKeepsInv

LEMMA BeginsKeepInv ==
    ASSUME ToolsInv,
           \/ Click \/ Type \/ Scroll \/ Storage \/ CallMethod
           \/ \E r \in Routes : BeginNavigate("forward", r, 1)
           \/ \E delta \in {1, 2} : BeginNavigate("back", "", delta)
           \/ \E id \in Ids : DriveGiven(id)
    PROVE  ToolsInv'
<1> USE DEF PageTools, ServiceTools, ToolNames
<1>2. ASSUME NEW name \in PageTools \cup ServiceTools, NEW pc \in {"route", "input", "cached"},
             BeginTool(name, pc),
             pc = "cached" <=> name \in ServiceTools
      PROVE  ToolsInv'
  <2>1. /\ tool' \in ToolShapes /\ tool'.kind = "none" /\ tool'.result = "none" /\ tool'.at = 0
        /\ tool'.name = name /\ tool'.pc = pc
    BY <1>2, NoToolIsATool DEF BeginTool, ToolShapes
  <2> QED
    BY <1>2, <2>1, BeginKeepsInv DEF BeginTool
<1>3. CASE Click \/ Type \/ Scroll \/ Storage \/ CallMethod
  BY <1>2, <1>3 DEF Click, Type, Scroll, Storage, CallMethod
<1>4. ASSUME NEW r \in Routes, BeginNavigate("forward", r, 1) PROVE ToolsInv'
  BY <1>4, NavigateKeepsInv DEF RouteNames
<1>5. ASSUME NEW delta \in {1, 2}, BeginNavigate("back", "", delta) PROVE ToolsInv'
  BY <1>5, NavigateKeepsInv DEF RouteNames
<1>6. ASSUME NEW id \in Ids, DriveGiven(id) PROVE ToolsInv'
  BY <1>6, GivenKeepsInv
<1> QED
  BY <1>3, <1>4, <1>5, <1>6

-----------------------------------------------------------------------------
\* A step of the call leaves the program and what it has shown alone.
LEMMA CallKeepsHistory ==
    ASSUME ToolsInv, Driving, UNCHANGED programVars, UNCHANGED <<tops, marks, low>>,
           tool' \in ToolShapes, ran' \in Nat,
           cache'.service \in 0 .. MaxId, cache'.page \in 0 .. MaxId
    PROVE  ToolsShape' /\ HistoryFollows'
<1>1. ToolsShape'
  BY DEF ToolsInv, ToolsShape, programVars, Layers
<1>2. \A id \in Ids : Marker(id)' = Marker(id)
  BY DEF Marker, programVars
<1>3. TopRoute' = TopRoute /\ Depth' = Depth
  BY DEF TopRoute, Depth, programVars
<1> QED
  BY <1>1, <1>2, <1>3 DEF ToolsInv, HistoryFollows, Ids

\* The call is over with this result.
LEMMA AnswerKeepsInv ==
    ASSUME ToolsInv, Driving, UNCHANGED <<programVars, cache, tops, marks, low>>,
           NEW result \in {"ok", "guess", "error", "inPage", "notLanded"},
           NEW kind \in Expressions \cup {"none"},
           tool' = [Answers(result) EXCEPT !.kind = kind],
           ran' \in Nat, kind # "throwsSyntax" => ran' <= 1,
           result = "ok" /\ tool.name = "forward" => tool.route \in tops,
           result = "ok" /\ tool.name = "back" /\ tool.before # 0 => low + tool.delta <= tool.before
    PROVE  ToolsInv'
<1>1. tool \in ToolShapes /\ cache.service \in 0 .. MaxId /\ cache.page \in 0 .. MaxId
  BY DEF ToolsInv, ToolsShape
<1>2. tool' = [tool EXCEPT !.pc = "done", !.result = result, !.id = 0, !.at = 0, !.tries = 0,
                           !.kind = kind]
  BY <1>1 DEF Answers, ToolShapes
<1>3. /\ tool' \in ToolShapes /\ tool'.pc = "done" /\ tool'.result = result /\ tool'.kind = kind
      /\ tool'.name = tool.name /\ tool'.route = tool.route
      /\ tool'.before = tool.before /\ tool'.delta = tool.delta
  <2>1. tool' \in ToolShapes
    <3> DEFINE over == [tool EXCEPT !.pc = "done", !.result = result, !.kind = kind]
    <3>1. over \in ToolShapes
      BY <1>1 DEF ToolShapes
    <3>2. tool' = [over EXCEPT !.id = 0, !.at = 0, !.tries = 0]
      BY <1>1, <1>2 DEF ToolShapes
    <3> HIDE DEF over
    <3>3. \A t \in ToolShapes, n \in 0 .. MaxId :
            [t EXCEPT !.id = n, !.at = 0, !.tries = 0] \in ToolShapes
      BY DEF ToolShapes
    <3>4. [over EXCEPT !.id = 0, !.at = 0, !.tries = 0] \in ToolShapes
      BY <3>1, <3>3, SomeNumbers, Zenon
    <3> QED
      BY <3>2, <3>4, Zenon
  <2>2. tool'.pc = "done" /\ tool'.result = result /\ tool'.kind = kind
    BY <1>1, <1>2 DEF ToolShapes
  <2>3. /\ tool'.name = tool.name /\ tool'.route = tool.route
        /\ tool'.before = tool.before /\ tool'.delta = tool.delta
    BY <1>1, <1>2 DEF ToolShapes
  <2> QED
    BY <2>1, <2>2, <2>3
<1>4. ToolsShape' /\ HistoryFollows'
  BY <1>1, <1>3, CallKeepsHistory
<1>5. StepsAreSound' /\ EffectsByStep'
  BY <1>3 DEF StepsAreSound, EffectsByStep
<1>6. DrivesAreHonest'
  BY <1>3 DEF DrivesAreHonest, DrivesWhatItFound, LandedIsSeen, EffectsOnce
<1> QED
  BY <1>4, <1>5, <1>6 DEF ToolsInv

\* An answer that claims nothing.
LEMMA PlainAnswerKeepsInv ==
    ASSUME ToolsInv, Driving, UNCHANGED <<programVars, cache, historyVars>>,
           NEW result \in {"ok", "guess", "error", "inPage", "notLanded"},
           tool' = Answers(result), ran <= 1,
           result = "ok" /\ tool.name = "forward" => tool.route \in tops,
           result = "ok" /\ tool.name = "back" /\ tool.before # 0 => low + tool.delta <= tool.before
    PROVE  ToolsInv'
<1>1. tool \in ToolShapes /\ ran \in Nat /\ tool.kind = "none"
  BY DEF ToolsInv, ToolsShape, EffectsByStep, Driving
<1>2. Answers(result).kind = "none"
  BY <1>1 DEF Answers, ToolShapes
<1>3. Answers(result) = [Answers(result) EXCEPT !.kind = "none"]
  BY <1>1, <1>2 DEF Answers, ToolShapes
<1> QED
  BY <1>1, <1>3, AnswerKeepsInv DEF historyVars

\* The call goes on to another step; nothing of it has taken effect yet.
LEMMA StepOnKeepsInv ==
    ASSUME ToolsInv, Driving, UNCHANGED <<programVars, historyVars>>, ran = 0,
           cache'.service \in 0 .. MaxId, cache'.page \in 0 .. MaxId,
           tool' \in ToolShapes, tool'.name = tool.name, tool'.kind = "none",
           tool'.result = "none", StepsAreSound', DrivesWhatItFound',
           tool'.pc \notin {"done", "idle"}
    PROVE  ToolsInv'
<1>1. ToolsShape' /\ HistoryFollows'
  <2>1. ran' \in Nat
    BY DEF historyVars
  <2> QED
    BY <2>1, CallKeepsHistory DEF historyVars
<1>2. EffectsByStep'
  BY DEF EffectsByStep, historyVars
<1>3. DrivesAreHonest'
  BY DEF DrivesAreHonest, LandedIsSeen, EffectsOnce, historyVars
<1> QED
  BY <1>1, <1>2, <1>3 DEF ToolsInv

LEMMA CallFacts ==
    ASSUME ToolsInv, Driving
    PROVE  /\ tool \in ToolShapes /\ tool.kind = "none" /\ tool.result = "none"
           /\ cache.service \in 0 .. MaxId /\ cache.page \in 0 .. MaxId
           /\ tool.pc # "input" => ran = 0
           /\ ran <= 1 /\ ran \in Nat /\ TopRoute \in tops
  BY DEF ToolsInv, ToolsShape, EffectsByStep, HistoryFollows, Driving

LEMMA ReadRouteKeepsInv ==
    ASSUME ToolsInv, ReadRoute
    PROVE  ToolsInv'
<1>0. /\ Driving /\ tool.pc = "route" /\ tool.name \in PageTools
      /\ UNCHANGED <<programVars, cache, historyVars>>
  BY DEF ReadRoute, Untouched, ToolMoves, Driving, ToolsInv, StepsAreSound
<1>1. CASE tool' = Answers("error")
  BY <1>0, <1>1, CallFacts, PlainAnswerKeepsInv
<1>2. CASE tool' = [Goes("cached") EXCEPT !.route = TopRoute]
  <2>1. TopRoute \in RouteNames /\ TopRoute \in tops
    <3>1. TopRoute \in tops
      BY <1>0, CallFacts
    <3>2. stack[Len(stack)] \in [route : Routes, view : Nat]
      <4>1. stack \in Seq([route : Routes, view : Nat]) /\ Len(stack) > 0
        BY DEF ToolsInv, ToolsShape, Layers
      <4> QED
        <5>1. Len(stack) \in 1 .. Len(stack)
          BY <4>1, LenProperties
        <5> QED
          BY <4>1, <5>1, ElementOfSeq
    <3> QED
      BY <3>1, <3>2 DEF TopRoute, Depth, RouteNames
  <2>2. /\ tool' \in ToolShapes /\ tool'.name = tool.name /\ tool'.pc = "cached"
        /\ tool'.route = TopRoute /\ tool'.kind = "none" /\ tool'.result = "none"
    BY <1>0, <1>2, <2>1, CallFacts DEF ToolShapes, Goes
  <2>3. StepsAreSound' /\ DrivesWhatItFound'
    BY <1>0, <2>1, <2>2 DEF StepsAreSound, DrivesWhatItFound, historyVars
  <2> QED
    BY <1>0, <2>2, <2>3, CallFacts, StepOnKeepsInv
<1> QED
  BY <1>1, <1>2 DEF ReadRoute, ToolMoves

LEMMA AskCachedKeepsInv ==
    ASSUME ToolsInv, AskCached
    PROVE  ToolsInv'
<1> DEFINE sure == Cached # 0 /\ Want.route \in Marker(Cached)
<1>0. /\ Driving /\ tool.pc = "cached" /\ tool.name \in PageTools \cup ServiceTools
      /\ UNCHANGED <<programVars, cache, historyVars>>
      /\ tool' = [Want EXCEPT !.pc = IF sure THEN "drive" ELSE "scan",
                              !.id = IF sure THEN Cached ELSE 0, !.at = 1]
  BY DEF AskCached, Untouched, ToolMoves, Driving, ToolsInv, StepsAreSound
<1>1. /\ Want \in ToolShapes /\ Want.name = tool.name /\ Want.kind = "none" /\ Want.result = "none"
      /\ tool.name \in PageTools => Want = tool
  BY <1>0, CallFacts DEF Want, ToolShapes, RouteNames, PageTools, ServiceTools
<1>2. Cached \in 0 .. MaxId
  BY <1>0, CallFacts, SomeNumbers DEF Cached
<1>3. /\ tool' \in ToolShapes /\ tool'.name = tool.name /\ tool'.pc \in {"drive", "scan"}
      /\ tool'.route = Want.route /\ tool'.kind = "none" /\ tool'.result = "none"
      /\ tool'.at = 1 /\ (sure => tool'.id = Cached) /\ (~ sure => tool'.id = 0)
      /\ tool'.pc = "drive" => sure
  BY <1>0, <1>1, <1>2, SomeNumbers DEF ToolShapes
<1>4. sure => <<Cached, Want.route>> \in marks
  BY <1>0, <1>2 DEF ToolsInv, HistoryFollows, Ids
<1>5. tool.name \in PageTools => tool'.route \in tops
  BY <1>0, <1>1, <1>3 DEF ToolsInv, StepsAreSound
<1>6. StepsAreSound' /\ DrivesWhatItFound'
  BY <1>0, <1>3, <1>4, <1>5 DEF StepsAreSound, DrivesWhatItFound, historyVars
<1> QED
  BY <1>0, <1>3, <1>6, CallFacts, StepOnKeepsInv

LEMMA ScanNextKeepsInv ==
    ASSUME ToolsInv, ScanNext
    PROVE  ToolsInv'
<1>0. /\ Driving /\ tool.pc = "scan" /\ tool.name \in PageTools \cup ServiceTools
      /\ tool.at \in 1 .. MaxId
      /\ UNCHANGED <<programVars, cache, historyVars>>
      /\ tool' = [tool EXCEPT !.at = @ + 1, !.id = IF Yes(tool.at) THEN tool.at ELSE @]
  <2>1. Driving /\ tool.pc = "scan" /\ tool.at <= MaxId
    BY DEF ScanNext, Driving
  <2>2. tool \in ToolShapes /\ tool.at > 0 /\ tool.name \in PageTools \cup ServiceTools
    BY <2>1, CallFacts DEF ToolsInv, StepsAreSound
  <2>3. tool.at \in Nat
    BY <2>2 DEF ToolShapes
  <2> QED
    BY <2>1, <2>2, <2>3 DEF ScanNext, Untouched, ToolMoves
<1>1. tool \in ToolShapes /\ tool.at \in 0 .. MaxId /\ tool.id \in 0 .. MaxId
  BY <1>0, CallFacts DEF ToolShapes
<1>2. /\ tool' \in ToolShapes /\ tool'.name = tool.name /\ tool'.pc = "scan"
      /\ tool'.route = tool.route /\ tool'.kind = tool.kind /\ tool'.result = tool.result
      /\ tool'.at > 0 /\ tool'.id = IF Yes(tool.at) THEN tool.at ELSE tool.id
  <2>1. PICK id \in 0 .. MaxId : id = (IF Yes(tool.at) THEN tool.at ELSE tool.id)
    BY <1>1
  <2>2. tool' = [tool EXCEPT !.at = tool.at + 1, !.id = id]
    BY <1>0, <1>1, <2>1 DEF ToolShapes
  <2>3. tool.at + 1 \in Nat /\ tool.at + 1 > 0
    BY <1>1
  <2> QED
    BY <1>0, <1>1, <2>1, <2>2, <2>3 DEF ToolShapes
<1>3. Yes(tool.at) => <<tool.at, tool.route>> \in marks
  BY <1>0 DEF ToolsInv, HistoryFollows, Ids, Yes
<1>4. /\ tool.name \in PageTools => tool.route \in tops
      /\ tool.id # 0 => <<tool.id, tool.route>> \in marks
  BY <1>0 DEF ToolsInv, StepsAreSound
<1>5. StepsAreSound' /\ DrivesWhatItFound'
  BY <1>0, <1>2, <1>3, <1>4 DEF StepsAreSound, DrivesWhatItFound, historyVars
<1> QED
  BY <1>0, <1>2, <1>5, CallFacts, StepOnKeepsInv

LEMMA ScanEndsKeepsInv ==
    ASSUME ToolsInv, ScanEnds
    PROVE  ToolsInv'
<1>0. /\ Driving /\ tool.pc = "scan" /\ tool.name \in PageTools \cup ServiceTools
      /\ UNCHANGED programVars
      /\ tool.name \in PageTools => tool.route \in tops
      /\ tool.id # 0 => <<tool.id, tool.route>> \in marks
  BY DEF ScanEnds, ToolMoves, Driving, ToolsInv, StepsAreSound
<1>f. tool \in ToolShapes /\ tool.kind = "none" /\ tool.result = "none" /\ ran = 0
  BY <1>0, CallFacts
<1>i. tool.id \in 0 .. MaxId /\ tool.tries \in Nat
  BY <1>f DEF ToolShapes
<1>1. CASE /\ tool.id # 0 /\ tool' = Goes("drive") /\ UNCHANGED historyVars
           /\ cache' = IF tool.name \in ServiceTools THEN [cache EXCEPT !.service = tool.id]
                       ELSE [cache EXCEPT !.page = tool.id, !.route = tool.route]
  <2>1. /\ tool' \in ToolShapes /\ tool'.name = tool.name /\ tool'.pc = "drive"
        /\ tool'.route = tool.route /\ tool'.id = tool.id
        /\ tool'.kind = "none" /\ tool'.result = "none"
    BY <1>1, <1>f DEF ToolShapes, Goes
  <2>2. cache'.service \in 0 .. MaxId /\ cache'.page \in 0 .. MaxId
    BY <1>1, <1>i DEF ToolsInv, ToolsShape
  <2>3. StepsAreSound' /\ DrivesWhatItFound'
    BY <1>0, <1>1, <2>1 DEF StepsAreSound, DrivesWhatItFound, historyVars
  <2> QED
    BY <1>0, <1>1, <1>f, <2>1, <2>2, <2>3, StepOnKeepsInv
<1>2. CASE tool' = Answers("error") /\ UNCHANGED <<cache, historyVars>>
  BY <1>0, <1>2, <1>f, PlainAnswerKeepsInv
<1>3. CASE /\ tool' = [Goes("route") EXCEPT !.tries = @ + 1] /\ UNCHANGED <<cache, historyVars>>
           /\ tool.name \notin ServiceTools
  <2>1. /\ tool' \in ToolShapes /\ tool'.name = tool.name /\ tool'.pc = "route"
        /\ tool'.kind = "none" /\ tool'.result = "none"
    <3>1. tool' = [tool EXCEPT !.pc = "route", !.tries = tool.tries + 1]
      BY <1>3, <1>f DEF ToolShapes, Goes
    <3>2. tool.tries + 1 \in Nat
      BY <1>i
    <3> QED
      BY <1>f, <3>1, <3>2 DEF ToolShapes
  <2>2. StepsAreSound' /\ DrivesWhatItFound'
    BY <1>0, <1>3, <2>1 DEF StepsAreSound, DrivesWhatItFound
  <2> QED
    BY <1>0, <1>3, <1>f, <2>1, <2>2, CallFacts, StepOnKeepsInv
<1> QED
  BY <1>0, <1>1, <1>2, <1>3 DEF ScanEnds, ToolMoves, NoEffect, Untouched

LEMMA DriveContextKeepsInv ==
    ASSUME ToolsInv, NEW kind \in Expressions, DriveContext(kind)
    PROVE  ToolsInv'
<1>0. /\ Driving /\ tool.pc = "drive" /\ UNCHANGED <<programVars, cache>>
      /\ tool.name \in PageTools \cup ServiceTools \cup {"evaluate"}
      /\ tool.name \notin {"forward", "back"}
  <2>1. tool.pc = "drive" /\ UNCHANGED <<programVars, cache>>
    BY DEF DriveContext, ToolMoves
  <2>2. tool.name \in PageTools \cup ServiceTools \cup {"evaluate"}
    BY <2>1 DEF ToolsInv, StepsAreSound
  <2> QED
    BY <2>1, <2>2 DEF Driving, PageTools, ServiceTools
<1>f. tool \in ToolShapes /\ tool.kind = "none" /\ tool.result = "none" /\ ran = 0
  BY <1>0, CallFacts
<1>e. Evaluate(kind) =>
        /\ ran' \in Nat /\ UNCHANGED <<tops, marks, low>>
        /\ kind # "throwsSyntax" => ran' = 1
  BY <1>f DEF Evaluate, Retried, Expressions
<1>1. CASE tool' = Answers("error") /\ UNCHANGED historyVars
  BY <1>0, <1>1, <1>f, PlainAnswerKeepsInv
<1>2. CASE /\ Evaluate(kind) /\ tool' = Goes("input")
           /\ kind \in {"value", "function", "statements"} /\ tool.name \in {"type", "scroll"}
  <2>1. /\ tool' \in ToolShapes /\ tool'.name = tool.name /\ tool'.pc = "input"
        /\ tool'.kind = "none" /\ tool'.result = "none"
    BY <1>2, <1>f DEF ToolShapes, Goes
  <2>2. ToolsShape' /\ HistoryFollows'
    <3>1. cache'.service \in 0 .. MaxId /\ cache'.page \in 0 .. MaxId
      BY <1>0, CallFacts
    <3> QED
      BY <1>0, <1>2, <1>e, <2>1, <3>1, CallKeepsHistory
  <2>3. StepsAreSound' /\ EffectsByStep'
    BY <1>2, <1>e, <2>1 DEF StepsAreSound, EffectsByStep, PageTools
  <2>4. DrivesAreHonest'
    BY <1>2, <1>e, <2>1 DEF DrivesAreHonest, DrivesWhatItFound, LandedIsSeen, EffectsOnce
  <2> QED
    BY <2>2, <2>3, <2>4 DEF ToolsInv
<1>3. CASE /\ Evaluate(kind)
           /\ \E result \in {"ok", "error"} : tool' = [Answers(result) EXCEPT !.kind = kind]
  BY <1>0, <1>3, <1>e, AnswerKeepsInv
<1> QED
  BY <1>0, <1>1, <1>2, <1>3 DEF DriveContext, ToolMoves, NoEffect

LEMMA SendInputKeepsInv ==
    ASSUME ToolsInv, SendInput
    PROVE  ToolsInv'
<1>1. PICK result \in {"ok", "error"} : tool' = Answers(result)
  BY DEF SendInput, ToolMoves
<1>2. Driving /\ UNCHANGED <<programVars, cache, historyVars>> /\ tool.name \in PageTools
  BY DEF SendInput, ToolMoves, Untouched, Driving, ToolsInv, StepsAreSound
<1>3. tool.name \notin {"forward", "back"}
  BY <1>2 DEF PageTools
<1> QED
  BY <1>1, <1>2, <1>3, CallFacts, PlainAnswerKeepsInv

LEMMA DispatchKeepsInv ==
    ASSUME ToolsInv, DispatchMove
    PROVE  ToolsInv'
<1>0. /\ Driving /\ tool.pc = "dispatch" /\ tool.name \in {"forward", "back"}
      /\ UNCHANGED <<programVars, cache, historyVars>>
  BY DEF DispatchMove, ToolMoves, Untouched, Driving, ToolsInv, StepsAreSound
<1>f. tool \in ToolShapes /\ tool.kind = "none" /\ tool.result = "none" /\ ran = 0
  BY <1>0, CallFacts
<1>1. CASE tool' = Goes("verify")
  <2>1. /\ tool' \in ToolShapes /\ tool'.name = tool.name /\ tool'.pc = "verify"
        /\ tool'.kind = "none" /\ tool'.result = "none"
    BY <1>1, <1>f DEF ToolShapes, Goes
  <2>2. StepsAreSound' /\ DrivesWhatItFound'
    BY <1>0, <2>1 DEF StepsAreSound, DrivesWhatItFound
  <2> QED
    BY <1>0, <1>f, <2>1, <2>2, CallFacts, StepOnKeepsInv
<1>2. CASE \E result \in {"inPage", "error"} : tool' = Answers(result)
  BY <1>0, <1>2, <1>f, PlainAnswerKeepsInv
<1> QED
  BY <1>1, <1>2 DEF DispatchMove, ToolMoves

LEMMA PollKeepsInv ==
    ASSUME ToolsInv, PollStack
    PROVE  ToolsInv'
<1>0. /\ Driving /\ tool.pc = "verify" /\ tool.name \in {"forward", "back"}
      /\ UNCHANGED <<programVars, cache, historyVars>>
  BY DEF PollStack, ToolMoves, Untouched, Driving, ToolsInv, StepsAreSound
<1>f. /\ tool \in ToolShapes /\ tool.kind = "none" /\ tool.result = "none" /\ ran = 0
      /\ TopRoute \in tops
  BY <1>0, CallFacts
<1>1. PICK guess \in BOOLEAN :
        tool' = LET observed == IF guess THEN BodyRoute ELSE TopRoute
                    looked == [tool EXCEPT !.guessed = @ \/ guess]
                IN  IF tool.name = "back"
                    THEN IF tool.before = 0 \/ Shrunk THEN Answers("ok") ELSE looked
                    ELSE IF observed = tool.route
                         THEN Answers(IF guess THEN "guess" ELSE "ok") ELSE looked
  BY DEF PollStack, ToolMoves
<1>2. CASE tool' = [tool EXCEPT !.guessed = @ \/ guess]
  <2>1. /\ tool' \in ToolShapes /\ tool'.name = tool.name /\ tool'.pc = "verify"
        /\ tool'.kind = "none" /\ tool'.result = "none"
    BY <1>0, <1>2, <1>f DEF ToolShapes
  <2>2. StepsAreSound' /\ DrivesWhatItFound'
    BY <1>0, <2>1 DEF StepsAreSound, DrivesWhatItFound
  <2> QED
    BY <1>0, <1>f, <2>1, <2>2, CallFacts, StepOnKeepsInv
<1>3. CASE tool' = Answers("ok") /\ tool.name = "back" /\ (tool.before = 0 \/ Shrunk)
  <2>1. tool.before # 0 => low + tool.delta <= tool.before
    <3>1. low <= Depth /\ low \in Nat /\ Depth \in Nat
      BY <1>0, SomeNumbers DEF ToolsInv, ToolsShape, HistoryFollows
    <3>2. tool.delta \in Nat /\ tool.before \in Nat
      BY <1>f DEF ToolShapes
    <3> QED
      BY <1>3, <3>1, <3>2 DEF Shrunk
  <2> QED
    BY <1>0, <1>3, <1>f, <2>1, PlainAnswerKeepsInv
<1>4. CASE tool' = Answers("ok") /\ tool.name # "back" /\ tool.route = TopRoute
  BY <1>0, <1>4, <1>f, PlainAnswerKeepsInv
<1>5. CASE tool' = Answers("guess")
  BY <1>0, <1>5, <1>f, PlainAnswerKeepsInv
<1> QED
  BY <1>1, <1>2, <1>3, <1>4, <1>5

LEMMA TimeOutKeepsInv ==
    ASSUME ToolsInv, VerifyTimesOut
    PROVE  ToolsInv'
<1>0. /\ Driving /\ tool' = Answers("notLanded")
      /\ UNCHANGED <<programVars, cache, historyVars>>
  BY DEF VerifyTimesOut, ToolMoves, Untouched, Driving
<1> QED
  BY <1>0, CallFacts, PlainAnswerKeepsInv

LEMMA EndKeepsInv ==
    ASSUME ToolsInv, EndTool
    PROVE  ToolsInv'
<1>1. /\ tool' = NoTool /\ UNCHANGED <<programVars, cache>>
      /\ tops' = {} /\ marks' = {} /\ low' = 0 /\ ran' = 0
  BY DEF EndTool, ToolMoves
<1>2. tool' \in ToolShapes /\ tool'.pc = "idle" /\ tool'.kind = "none" /\ tool'.result = "none"
  BY <1>1, NoToolIsATool DEF NoTool
<1>3. ToolsShape'
  BY <1>1, <1>2 DEF ToolsInv, ToolsShape, programVars, Layers
<1>4. HistoryFollows' /\ StepsAreSound' /\ EffectsByStep' /\ DrivesAreHonest'
  BY <1>1, <1>2 DEF HistoryFollows, Driving, StepsAreSound, EffectsByStep,
      DrivesAreHonest, DrivesWhatItFound, LandedIsSeen, EffectsOnce
<1> QED
  BY <1>3, <1>4 DEF ToolsInv

LEMMA ToolsStep == ToolsInv /\ [ToolsNext]_toolVars => ToolsInv'
<1> SUFFICES ASSUME ToolsInv, [ToolsNext]_toolVars PROVE ToolsInv'
  OBVIOUS
<1>1. CASE UNCHANGED toolVars
  <2>1. ToolsShape' /\ StepsAreSound' /\ EffectsByStep' /\ DrivesAreHonest'
    BY <1>1 DEF ToolsInv, toolVars, programVars, historyVars, ToolsShape, Layers, StepsAreSound,
        EffectsByStep, DrivesAreHonest, DrivesWhatItFound, LandedIsSeen, EffectsOnce
  <2>2. HistoryFollows'
    BY <1>1 DEF ToolsInv, toolVars, programVars, historyVars, HistoryFollows, Driving, Marker,
        TopRoute, Depth, Ids
  <2> QED
    BY <2>1, <2>2 DEF ToolsInv
<1>2. CASE ToolsNext
  BY <1>2, ProgramKeepsInv, BeginsKeepInv, EndKeepsInv, ReadRouteKeepsInv, AskCachedKeepsInv,
     ScanNextKeepsInv, ScanEndsKeepsInv, DriveContextKeepsInv, SendInputKeepsInv,
     DispatchKeepsInv, PollKeepsInv, TimeOutKeepsInv DEF ToolsNext
<1> QED
  BY <1>1, <1>2

\* The tools drive what they looked for, an expression takes effect once
\* unless it throws a SyntaxError of its own, and a navigation told to have
\* landed was seen to (findContext, evaluateDetail, verifyNavigation), for any
\* pages, ids and moves of the program.
THEOREM DrivesStayHonest == ToolsSpec => []DrivesAreHonest
<1>1. ToolsInv => DrivesAreHonest
  BY DEF ToolsInv
<1> QED
  BY <1>1, ToolsInitially, ToolsStep, PTL DEF ToolsSpec

HIDE ProbesAreBounded

-----------------------------------------------------------------------------
(* Reading the captures (AgentStream)                                       *)

Answered ==
    [ok : BOOLEAN, recs : SUBSET Nat, ups : SUBSET Nat, next : Nat, unext : Nat, held : Nat]

Requests ==
    [via : {"stdio", "sse", "http"}, tool : {"drain", "wait"}, at : Nat, uat : Nat,
     ulimit : Nat, stream : Nat, pc : {"sent", "waits", "done"}, cut : BOOLEAN]

Readers ==
    [awaits : Nat, at : Nat, uat : Nat, seen : SUBSET Nat, useen : SUBSET Nat,
     starved : BOOLEAN]

Connections == [live : BOOLEAN, inbox : Seq([p : Nat, a : Answered])]

ReadsShape ==
    /\ rings \in [seq : Nat, useq : Nat]
    /\ server \in [up : BOOLEAN, streams : Seq(Connections)]
    /\ post \in Seq(Requests)
    /\ agent \in Readers
    /\ agent.awaits \in 0 .. Len(post)

\* What a page leaves out, between its cursor and the next, is evicted.
Covers(next, rows, at, newest) == \A r \in 1 .. next : r <= at \/ r \in rows \/ r <= Evicted(newest)

SoundAnswer(a, r) ==
    a.ok => Covers(a.next, a.recs, r.at, rings.seq) /\ Covers(a.unext, a.ups, r.uat, rings.useq)

\* The agent asks from where it is, or from the start; a request on its way
\* is the one it awaits, or was given up.
RequestsHold ==
    /\ agent.awaits # 0 => post[agent.awaits].at <= agent.at /\ post[agent.awaits].uat <= agent.uat
    /\ \A p \in Posts :
          /\ post[p].via = "sse" => post[p].stream \in Streams
          /\ post[p].via # "stdio" /\ post[p].pc # "done" => p = agent.awaits \/ post[p].cut

\* An inbox holds sound answers of its own stream, one of each request: of
\* the one awaited, and of some that were given up.
InboxHolds(k) ==
    LET inbox == server.streams[k].inbox
    IN  /\ Len(inbox) <= InboxSize
        /\ \A i \in DOMAIN inbox :
              /\ inbox[i].p \in Posts
              /\ post[inbox[i].p].stream = k /\ post[inbox[i].p].via = "sse"
              /\ post[inbox[i].p].pc = "done"
              /\ inbox[i].p = agent.awaits \/ post[inbox[i].p].cut
              /\ SoundAnswer(inbox[i].a, post[inbox[i].p])
        /\ \A i, j \in DOMAIN inbox : inbox[i].p = inbox[j].p => i = j

ReadsInv ==
    ReadsShape /\ RequestsHold /\ (\A k \in Streams : InboxHolds(k)) /\ AgentReadsWell

\* Requests are added, answered and cut, never changed.
PostsGrow ==
    /\ Len(post) <= Len(post')
    /\ \A p \in Posts :
          /\ post'[p].via = post[p].via /\ post'[p].stream = post[p].stream
          /\ post'[p].at = post[p].at /\ post'[p].uat = post[p].uat
          /\ post[p].pc = "done" => post'[p].pc = "done"
          /\ post[p].cut => post'[p].cut

RingsGrow == rings.seq <= rings'.seq /\ rings.useq <= rings'.useq

USE AgentStreamSizes

-----------------------------------------------------------------------------
\* Pages.
LEMMA EvictedGrows ==
    \A m, n \in Nat : /\ Evicted(m) \in Nat /\ Evicted(m) <= m
                      /\ m <= n => Evicted(m) <= Evicted(n)
  BY DEF Evicted

LEMMA PagesCover ==
    ASSUME NEW at \in Nat, NEW newest \in Nat, NEW limit \in Nat \ {0}
    PROVE  LET rows == RowsAfter(at, newest, limit)
           IN  /\ rows \in SUBSET Nat /\ LastOf(rows, at) \in Nat
               /\ Covers(LastOf(rows, at), rows, at, newest)
<1> DEFINE lo == IF at > Evicted(newest) THEN at ELSE Evicted(newest)
           hi == IF lo + limit < newest THEN lo + limit ELSE newest
           rows == RowsAfter(at, newest, limit)
<1>1. lo \in Nat /\ hi \in Nat /\ at <= lo /\ (lo = at \/ lo = Evicted(newest))
  BY EvictedGrows
<1>2. rows = lo + 1 .. hi
  BY DEF RowsAfter, Least
<1> HIDE DEF lo, hi, rows
<1>3. rows \in SUBSET Nat
  BY <1>1, <1>2
<1>4. CASE rows = {}
  BY <1>4, EvictedGrows DEF LastOf, Covers, rows
<1>5. CASE rows # {}
  <2>1. hi \in rows /\ \A q \in rows : q <= hi
    BY <1>1, <1>2, <1>5
  <2>2. LastOf(rows, at) = hi
    <3>1. LastOf(rows, at) \in rows /\ \A q \in rows : q <= LastOf(rows, at)
      BY <1>5, <2>1 DEF LastOf
    <3>2. hi <= LastOf(rows, at) /\ LastOf(rows, at) <= hi
      BY <2>1, <3>1
    <3>3. LastOf(rows, at) \in Nat
      BY <1>3, <3>1
    <3> QED
      BY <1>1, <3>2, <3>3
  <2>3. Covers(hi, rows, at, newest)
    <3> SUFFICES ASSUME NEW r \in 1 .. hi, r > at, r > Evicted(newest) PROVE r \in rows
      BY <1>1, EvictedGrows DEF Covers
    <3>1. r \in Nat /\ r <= hi /\ r > lo
      BY <1>1, EvictedGrows
    <3> QED
      BY <1>1, <1>2, <3>1
  <2> QED
    BY <1>1, <1>3, <2>2, <2>3 DEF rows
<1> QED
  BY <1>4, <1>5

LEMMA NothingCovers ==
    ASSUME NEW at \in Nat, NEW newest \in Nat
    PROVE  LastOf({}, at) = at /\ Covers(at, {}, at, newest)
  BY DEF LastOf, Covers

LEMMA DrainIsSound ==
    ASSUME ReadsShape, NEW p \in Posts
    PROVE  Drain(post[p]) \in Answered /\ SoundAnswer(Drain(post[p]), post[p])
<1> DEFINE r == post[p]
           ups == IF UpdateLimit(r) = 0 THEN {} ELSE RowsAfter(r.uat, rings.useq, UpdateLimit(r))
           recs == RowsAfter(r.at, rings.seq, PageLimit)
<1>1. r \in Requests
  BY ElementOfSeq DEF ReadsShape, Posts
<1>2. r.at \in Nat /\ r.uat \in Nat /\ r.ulimit \in Nat
  BY <1>1 DEF Requests
<1>3. rings.seq \in Nat /\ rings.useq \in Nat
  BY DEF ReadsShape
<1>4. UpdateLimit(r) \in Nat
  BY <1>2 DEF UpdateLimit, Least
<1>5. /\ recs \in SUBSET Nat /\ LastOf(recs, r.at) \in Nat
      /\ Covers(LastOf(recs, r.at), recs, r.at, rings.seq)
  BY <1>2, <1>3, PagesCover
<1>6. /\ ups \in SUBSET Nat /\ LastOf(ups, r.uat) \in Nat
      /\ Covers(LastOf(ups, r.uat), ups, r.uat, rings.useq)
  <2>1. CASE UpdateLimit(r) = 0
    BY <1>2, <1>3, <2>1, NothingCovers
  <2>2. CASE UpdateLimit(r) # 0
    BY <1>2, <1>3, <1>4, <2>2, PagesCover
  <2> QED
    BY <2>1, <2>2
<1>7. Drain(r) = [ok |-> TRUE, recs |-> recs, ups |-> ups, next |-> LastOf(recs, r.at),
                  unext |-> LastOf(ups, r.uat), held |-> rings.useq]
  BY DEF Drain
<1> HIDE DEF recs, ups, r
<1>8. Drain(r) \in Answered
  BY <1>3, <1>5, <1>6, <1>7 DEF Answered
<1>9. SoundAnswer(Drain(r), r)
  BY <1>5, <1>6, <1>7 DEF SoundAnswer
<1> QED
  BY <1>8, <1>9 DEF r

LEMMA ErrorIsSound ==
    \A r : NotAnswered \in Answered /\ SoundAnswer(NotAnswered, r)
  BY DEF NotAnswered, Answered, SoundAnswer

-----------------------------------------------------------------------------
\* What steps leave alone.
LEMMA PostFacts ==
    ASSUME ReadsShape
    PROVE  /\ Len(post) \in Nat /\ DOMAIN post = Posts /\ \A p \in Posts : post[p] \in Requests
           /\ Len(server.streams) \in Nat /\ DOMAIN server.streams = Streams
           /\ \A k \in Streams : server.streams[k] \in Connections
           /\ \A k \in Streams : DOMAIN server.streams[k].inbox = 1 .. Len(server.streams[k].inbox)
           /\ \A k \in Streams : \A i \in DOMAIN server.streams[k].inbox :
                 server.streams[k].inbox[i] \in [p : Nat, a : Answered]
<1>1. post \in Seq(Requests) /\ server.streams \in Seq(Connections)
  BY DEF ReadsShape
<1>2. Len(post) \in Nat /\ DOMAIN post = Posts /\ \A p \in Posts : post[p] \in Requests
  BY <1>1, LenProperties, ElementOfSeq DEF Posts
<1>3. Len(server.streams) \in Nat /\ DOMAIN server.streams = Streams
      /\ \A k \in Streams : server.streams[k] \in Connections
  BY <1>1, LenProperties, ElementOfSeq DEF Streams
<1>4. ASSUME NEW k \in Streams
      PROVE  /\ DOMAIN server.streams[k].inbox = 1 .. Len(server.streams[k].inbox)
             /\ \A i \in DOMAIN server.streams[k].inbox :
                   server.streams[k].inbox[i] \in [p : Nat, a : Answered]
  <2>1. server.streams[k].inbox \in Seq([p : Nat, a : Answered])
    BY <1>3 DEF Connections
  <2> QED
    BY <2>1, LenProperties, ElementOfSeq
<1> QED
  BY <1>2, <1>3, <1>4

LEMMA SoundStays ==
    ASSUME ReadsShape, ReadsShape', RingsGrow, NEW a \in Answered, NEW r, SoundAnswer(a, r),
           NEW s, s.at = r.at, s.uat = r.uat
    PROVE  SoundAnswer(a, s)'
<1>1. /\ rings.seq \in Nat /\ rings.useq \in Nat /\ rings'.seq \in Nat /\ rings'.useq \in Nat
      /\ rings.seq <= rings'.seq /\ rings.useq <= rings'.useq
  BY DEF ReadsShape, RingsGrow
<1>2. /\ Evicted(rings.seq) \in Nat /\ Evicted(rings'.seq) \in Nat
      /\ Evicted(rings.seq) <= Evicted(rings'.seq)
      /\ Evicted(rings.useq) \in Nat /\ Evicted(rings'.useq) \in Nat
      /\ Evicted(rings.useq) <= Evicted(rings'.useq)
  BY <1>1, EvictedGrows
<1>3. a.next \in Nat /\ a.unext \in Nat
  BY DEF Answered
<1>4. SUFFICES ASSUME a.ok
               PROVE  /\ Covers(a.next, a.recs, s.at, rings'.seq)
                      /\ Covers(a.unext, a.ups, s.uat, rings'.useq)
  BY DEF SoundAnswer
<1>5. Covers(a.next, a.recs, r.at, rings.seq) /\ Covers(a.unext, a.ups, r.uat, rings.useq)
  BY <1>4 DEF SoundAnswer
<1>6. Covers(a.next, a.recs, s.at, rings'.seq)
  BY <1>2, <1>3, <1>5 DEF Covers
<1>7. Covers(a.unext, a.ups, s.uat, rings'.useq)
  BY <1>2, <1>3, <1>5 DEF Covers
<1> QED
  BY <1>6, <1>7

LEMMA InboxStays ==
    ASSUME ReadsShape, ReadsShape', RingsGrow, PostsGrow, NEW k \in Streams, InboxHolds(k),
           server'.streams[k].inbox = server.streams[k].inbox,
           \A i \in DOMAIN server.streams[k].inbox :
              server.streams[k].inbox[i].p = agent.awaits =>
                agent'.awaits = agent.awaits \/ post'[agent.awaits].cut
    PROVE  InboxHolds(k)'
<1> DEFINE inbox == server.streams[k].inbox
<1>1. ASSUME NEW i \in DOMAIN inbox
      PROVE  /\ inbox[i].p \in Posts'
             /\ post'[inbox[i].p].stream = k /\ post'[inbox[i].p].via = "sse"
             /\ post'[inbox[i].p].pc = "done"
             /\ inbox[i].p = agent'.awaits \/ post'[inbox[i].p].cut
             /\ SoundAnswer(inbox[i].a, post[inbox[i].p])'
  <2>1. /\ inbox[i].p \in Posts
        /\ post[inbox[i].p].stream = k /\ post[inbox[i].p].via = "sse"
        /\ post[inbox[i].p].pc = "done"
        /\ inbox[i].p = agent.awaits \/ post[inbox[i].p].cut
        /\ SoundAnswer(inbox[i].a, post[inbox[i].p])
    BY DEF InboxHolds
  <2>2. inbox[i].a \in Answered
    BY PostFacts
  <2>3. inbox[i].p \in Posts'
    <3>1. Len(post) \in Nat /\ Len(post') \in Nat /\ Len(post) <= Len(post')
      BY LenProperties DEF PostsGrow, ReadsShape
    <3>2. Posts \subseteq Posts'
      BY <3>1 DEF Posts
    <3> QED
      BY <2>1, <3>2
  <2>4. PICK p \in Posts : p = inbox[i].p
    BY <2>1
  <2>5. /\ post'[p].stream = k /\ post'[p].via = "sse" /\ post'[p].pc = "done"
        /\ p = agent'.awaits \/ post'[p].cut
        /\ post'[p].at = post[p].at /\ post'[p].uat = post[p].uat
    BY <2>1, <2>4 DEF PostsGrow
  <2>6. PICK a \in Answered : a = inbox[i].a
    BY <2>2
  <2>7. SoundAnswer(a, post[p])'
    BY <2>1, <2>4, <2>5, <2>6, SoundStays
  <2>8. SoundAnswer(inbox[i].a, post[inbox[i].p])'
    BY <2>4, <2>6, <2>7 DEF SoundAnswer
  <2> QED
    BY <2>3, <2>4, <2>5, <2>8
<1>2. Len(inbox) <= InboxSize /\ \A i, j \in DOMAIN inbox : inbox[i].p = inbox[j].p => i = j
  BY DEF InboxHolds
<1> QED
  <2>1. PICK box : box = inbox /\ box = server'.streams[k].inbox
    OBVIOUS
  <2>2. /\ Len(box) <= InboxSize /\ \A i, j \in DOMAIN box : box[i].p = box[j].p => i = j
        /\ \A i \in DOMAIN box :
              /\ box[i].p \in Posts'
              /\ post'[box[i].p].stream = k /\ post'[box[i].p].via = "sse"
              /\ post'[box[i].p].pc = "done"
              /\ box[i].p = agent'.awaits \/ post'[box[i].p].cut
              /\ SoundAnswer(box[i].a, post[box[i].p])'
    BY <1>1, <1>2, <2>1
  <2> QED
    BY ZenonT(40), <2>1, <2>2 DEF InboxHolds

\* The answer awaited stays where it is, as long as nothing takes it out.
GivenUp(k) == {q \in Posts : post[q].stream = k /\ post[q].cut}

LEMMA GivenUpGrows ==
    ASSUME ReadsShape, ReadsShape', PostsGrow, NEW k
    PROVE  /\ Cardinality(GivenUp(k)) \in Nat /\ Cardinality(GivenUp(k)') \in Nat
           /\ Cardinality(GivenUp(k)) <= Cardinality(GivenUp(k)')
<1>1. Len(post) \in Nat /\ Len(post') \in Nat /\ Len(post) <= Len(post')
  BY LenProperties DEF PostsGrow, ReadsShape
<1>2. Posts \subseteq Posts' /\ IsFiniteSet(Posts')
  <2>1. IsFiniteSet(1 .. Len(post'))
    BY <1>1, FS_Interval
  <2> QED
    BY <1>1, <2>1 DEF Posts
<1>3. GivenUp(k) \subseteq GivenUp(k)'
  BY <1>2 DEF GivenUp, PostsGrow
<1>4. GivenUp(k)' \subseteq Posts'
  BY DEF GivenUp
<1>5. IsFiniteSet(GivenUp(k)')
  BY <1>2, <1>4, FS_Subset
<1>6. IsFiniteSet(GivenUp(k)) /\ Cardinality(GivenUp(k)) <= Cardinality(GivenUp(k)')
  BY <1>3, <1>5, FS_Subset
<1> QED
  BY <1>5, <1>6, FS_CardinalityType

\* Where the awaited answer is, by its stream.
KeptInStream(p) ==
    /\ post[p].via = "sse"
    /\ \/ ~ server.streams[post[p].stream].live
       \/ Cardinality(GivenUp(post[p].stream)) >= InboxSize
       \/ \E i \in 1 .. Len(server.streams[post[p].stream].inbox) :
             server.streams[post[p].stream].inbox[i].p = p

LEMMA KeptByStream ==
    AwaitedAnswerIsKept <=>
        (agent.awaits # 0 /\ post[agent.awaits].pc = "done" =>
            post[agent.awaits].cut \/ KeptInStream(agent.awaits))
  BY DEF AwaitedAnswerIsKept, KeptInStream, GivenUp

LEMMA KeptByStreamNext ==
    ASSUME agent'.awaits # 0 /\ post'[agent'.awaits].pc = "done" =>
              post'[agent'.awaits].cut \/ KeptInStream(agent.awaits)'
    PROVE  AwaitedAnswerIsKept'
  BY DEF AwaitedAnswerIsKept, KeptInStream, GivenUp

LEMMA KeptStays ==
    ASSUME ReadsShape, ReadsShape', RequestsHold, PostsGrow, AwaitedAnswerIsKept,
           agent'.awaits = agent.awaits,
           agent.awaits # 0 => post'[agent.awaits].pc = post[agent.awaits].pc,
           \A k \in Streams :
              /\ server'.streams[k].live => server.streams[k].live
              /\ \A i \in DOMAIN server.streams[k].inbox :
                    server.streams[k].inbox[i].p = agent.awaits =>
                       \E j \in DOMAIN server'.streams[k].inbox :
                          server'.streams[k].inbox[j].p = agent.awaits,
           Streams \subseteq Streams'
    PROVE  AwaitedAnswerIsKept'
<1> SUFFICES ASSUME agent.awaits # 0, post[agent.awaits].pc = "done", ~ post'[agent.awaits].cut
             PROVE  KeptInStream(agent.awaits)'
  BY KeptByStreamNext
<1>1. PICK p \in Posts : p = agent.awaits
  <2>1. agent.awaits \in 0 .. Len(post) /\ Len(post) \in Nat
    BY PostFacts DEF ReadsShape
  <2> QED
    BY <2>1 DEF Posts
<1>2. post[p].pc = "done" /\ ~ post[p].cut
  BY <1>1 DEF PostsGrow
<1>3. KeptInStream(p)
  BY <1>1, <1>2, KeptByStream
<1>4. PICK k \in Streams : k = post[p].stream /\ k = post'[p].stream
  BY <1>3 DEF RequestsHold, KeptInStream, PostsGrow
<1>5. post'[p].via = "sse"
  BY <1>3 DEF KeptInStream, PostsGrow
<1>6. CASE ~ server.streams[k].live
  BY <1>1, <1>4, <1>5, <1>6 DEF KeptInStream
<1>7. CASE Cardinality(GivenUp(k)) >= InboxSize
  <2>1. Cardinality(GivenUp(k)') >= InboxSize
    BY <1>7, GivenUpGrows
  <2>2. GivenUp(k)' = GivenUp(post[p].stream)'
    BY <1>4 DEF GivenUp
  <2> QED
    BY <1>1, <1>4, <1>5, <2>1, <2>2 DEF KeptInStream
<1>8. CASE \E i \in 1 .. Len(server.streams[k].inbox) : server.streams[k].inbox[i].p = p
  <2>1. PICK i \in DOMAIN server.streams[k].inbox : server.streams[k].inbox[i].p = p
    BY <1>8, PostFacts
  <2>2. PICK j \in DOMAIN server'.streams[k].inbox : server'.streams[k].inbox[j].p = p
    BY <1>1, <2>1
  <2>3. DOMAIN server'.streams[k].inbox = 1 .. Len(server'.streams[k].inbox)
    <3>1. server'.streams \in Seq(Connections) /\ k \in 1 .. Len(server'.streams)
      BY DEF ReadsShape, Streams
    <3>2. server'.streams[k].inbox \in Seq([p : Nat, a : Answered])
      <4>1. server'.streams[k] \in Connections
        BY <3>1, ElementOfSeq
      <4> QED
        BY <4>1 DEF Connections
    <3> QED
      BY <3>2, LenProperties
  <2> QED
    BY <1>1, <1>4, <1>5, <2>2, <2>3 DEF KeptInStream
<1> QED
  BY <1>3, <1>4, <1>6, <1>7, <1>8 DEF KeptInStream

LEMMA InvFacts ==
    ASSUME ReadsInv
    PROVE  /\ ReadsShape /\ RequestsHold /\ FollowingSkipsNothing /\ AwaitedAnswerIsKept
           /\ agent \in Readers /\ agent.at \in Nat /\ agent.uat \in Nat
           /\ post \in Seq(Requests) /\ rings \in [seq : Nat, useq : Nat]
           /\ server \in [up : BOOLEAN, streams : Seq(Connections)]
           /\ agent.awaits # 0 => agent.awaits \in Posts
<1>1. ReadsShape /\ RequestsHold /\ FollowingSkipsNothing /\ AwaitedAnswerIsKept
  BY DEF ReadsInv, AgentReadsWell
<1>2. /\ agent \in Readers /\ post \in Seq(Requests) /\ rings \in [seq : Nat, useq : Nat]
      /\ server \in [up : BOOLEAN, streams : Seq(Connections)]
      /\ agent.awaits \in 0 .. Len(post)
  BY <1>1 DEF ReadsShape
<1>3. agent.at \in Nat /\ agent.uat \in Nat
  BY <1>2 DEF Readers
<1>4. agent.awaits # 0 => agent.awaits \in Posts
  <2>1. Len(post) \in Nat
    BY <1>1, PostFacts
  <2> QED
    BY <1>2, <2>1 DEF Posts
<1> QED
  BY <1>1, <1>2, <1>3, <1>4

LEMMA RingsStay ==
    ASSUME rings \in [seq : Nat, useq : Nat], rings' = rings
    PROVE  RingsGrow
<1>1. rings.seq \in Nat /\ rings.useq \in Nat
  OBVIOUS
<1> QED
  BY <1>1 DEF RingsGrow

LEMMA FollowingStays ==
    ASSUME ReadsShape, ReadsShape', RingsGrow, FollowingSkipsNothing,
           agent'.at = agent.at, agent'.uat = agent.uat,
           agent'.seen = agent.seen, agent'.useen = agent.useen
    PROVE  FollowingSkipsNothing'
<1>1. /\ rings.seq \in Nat /\ rings.useq \in Nat /\ rings'.seq \in Nat /\ rings'.useq \in Nat
      /\ rings.seq <= rings'.seq /\ rings.useq <= rings'.useq
  BY DEF ReadsShape, RingsGrow
<1>2. /\ Evicted(rings.seq) \in Nat /\ Evicted(rings'.seq) \in Nat
      /\ Evicted(rings.seq) <= Evicted(rings'.seq)
      /\ Evicted(rings.useq) \in Nat /\ Evicted(rings'.useq) \in Nat
      /\ Evicted(rings.useq) <= Evicted(rings'.useq)
  BY <1>1, EvictedGrows
<1>3. agent.at \in Nat /\ agent.uat \in Nat
  BY DEF ReadsShape, Readers
<1> QED
  BY <1>2, <1>3 DEF FollowingSkipsNothing

-----------------------------------------------------------------------------
\* The page, the server and its streams.
LEMMA PageKeepsInv ==
    ASSUME ReadsInv, Capture \/ Settle
    PROVE  ReadsInv'
<1>1. RingsGrow /\ rings' \in [seq : Nat, useq : Nat] /\ UNCHANGED <<server, post, agent>>
  <2>1. rings \in [seq : Nat, useq : Nat]
    BY DEF ReadsInv, ReadsShape
  <2>2. CASE Capture
    BY <2>1, <2>2 DEF RingsGrow, Capture
  <2>3. CASE Settle
    BY <2>1, <2>3 DEF RingsGrow, Settle
  <2> QED
    BY <2>2, <2>3
<1>2. ReadsShape' /\ RequestsHold' /\ PostsGrow
  BY <1>1, PostFacts DEF ReadsInv, ReadsShape, RequestsHold, PostsGrow, Posts, Streams
<1>3. ASSUME NEW k \in Streams PROVE InboxHolds(k)'
  BY <1>1, <1>2, InboxStays DEF ReadsInv
<1>4. FollowingSkipsNothing' /\ AwaitedAnswerIsKept'
  BY <1>1, <1>2, FollowingStays, KeptStays DEF ReadsInv, AgentReadsWell, Streams
<1> QED
  BY <1>1, <1>2, <1>3, <1>4 DEF ReadsInv, AgentReadsWell, Streams

\* Streams are opened and die; requests are cut.
LEMMA ServerKeepsInv ==
    ASSUME ReadsInv, UNCHANGED <<rings, agent>>, PostsGrow, Len(post') = Len(post),
           post' \in Seq(Requests), server' \in [up : BOOLEAN, streams : Seq(Connections)],
           \A p \in Posts : post'[p].pc = post[p].pc,
           Len(server.streams) <= Len(server'.streams),
           \A k \in Streams : /\ server'.streams[k].inbox = server.streams[k].inbox
                              /\ server'.streams[k].live => server.streams[k].live,
           \A k \in Streams' \ Streams : server'.streams[k].inbox = <<>>
    PROVE  ReadsInv'
<1>1. ReadsShape' /\ RingsGrow
  BY DEF ReadsInv, ReadsShape, RingsGrow
<1>2. Posts' = Posts /\ Streams \subseteq Streams'
  <2>1. Len(server.streams) \in Nat /\ Len(server'.streams) \in Nat
    BY LenProperties DEF ReadsInv, ReadsShape
  <2> QED
    BY <2>1 DEF Posts, Streams
<1>3. RequestsHold'
  <2>1. agent.awaits # 0 => agent.awaits \in Posts
    BY PostFacts DEF ReadsInv, ReadsShape, Posts
  <2> QED
    BY <1>2, <2>1 DEF ReadsInv, RequestsHold, PostsGrow
<1>4. ASSUME NEW k \in Streams' PROVE InboxHolds(k)'
  <2>1. CASE k \in Streams
    BY <1>1, <2>1, InboxStays DEF ReadsInv
  <2>2. CASE k \notin Streams
    <3>1. server'.streams[k].inbox = <<>>
      BY <1>4, <2>2
    <3>2. Len(<<>>) <= InboxSize /\ DOMAIN <<>> = {}
      OBVIOUS
    <3> QED
      BY <3>1, <3>2 DEF InboxHolds
  <2> QED
    BY <2>1, <2>2
<1>5. FollowingSkipsNothing' /\ AwaitedAnswerIsKept'
  <2>1. agent.awaits # 0 => agent.awaits \in Posts
    BY PostFacts DEF ReadsInv, ReadsShape, Posts
  <2> QED
    BY <1>1, <1>2, <2>1, FollowingStays, KeptStays DEF ReadsInv, AgentReadsWell
<1> QED
  BY <1>1, <1>3, <1>4, <1>5 DEF ReadsInv, AgentReadsWell

LEMMA CutsGrow ==
    ASSUME ReadsShape, post' = CutPosts
    PROVE  /\ post' \in Seq(Requests) /\ PostsGrow /\ Len(post') = Len(post)
           /\ \A p \in Posts : post'[p].pc = post[p].pc
<1>1. \A p \in Posts : post[p] \in Requests
  BY PostFacts
<1>2. \A p \in Posts : [post[p] EXCEPT !.cut = @ \/ post[p].via # "stdio"] \in Requests
  BY <1>1 DEF Requests
<1>3. post' \in Seq(Requests) /\ Len(post') = Len(post)
  <2>1. Len(post) \in Nat
    BY PostFacts
  <2>2. post' = [p \in 1 .. Len(post) |-> [post[p] EXCEPT !.cut = @ \/ post[p].via # "stdio"]]
    BY DEF CutPosts, Posts
  <2>3. post' \in [1 .. Len(post) -> Requests]
    BY <1>2, <2>2, Zenon DEF Posts
  <2>4. post' \in Seq(Requests)
    BY <2>1, <2>3, IsASeq
  <2> QED
    BY <2>1, <2>3, <2>4, LenProperties
<1>4. \A p \in Posts : /\ post'[p].via = post[p].via /\ post'[p].stream = post[p].stream
                       /\ post'[p].at = post[p].at /\ post'[p].uat = post[p].uat
                       /\ post'[p].pc = post[p].pc /\ (post[p].cut => post'[p].cut)
  BY <1>1 DEF CutPosts, Requests
<1> QED
  BY <1>3, <1>4, PostFacts DEF PostsGrow

LEMMA PostsStay ==
    ASSUME ReadsShape, post' = post
    PROVE  /\ post' \in Seq(Requests) /\ PostsGrow /\ Len(post') = Len(post)
           /\ \A p \in Posts : post'[p].pc = post[p].pc
  BY PostFacts DEF PostsGrow, ReadsShape

LEMMA ClosingKeepsInv ==
    ASSUME ReadsInv, UNCHANGED <<rings, agent>>, post' = CutPosts,
           NEW up \in BOOLEAN, server' = [up |-> up, streams |-> CloseStreams]
    PROVE  ReadsInv'
<1> DEFINE closed == CloseStreams
<1>1. Len(server.streams) \in Nat /\ \A k \in Streams : server.streams[k] \in Connections
  BY PostFacts DEF ReadsInv
<1>2. closed = [k \in 1 .. Len(server.streams) |-> [server.streams[k] EXCEPT !.live = FALSE]]
  BY DEF CloseStreams, Streams
<1>3. \A k \in 1 .. Len(server.streams) :
         [server.streams[k] EXCEPT !.live = FALSE] \in Connections
  BY <1>1 DEF Streams, Connections
<1>4. closed \in [1 .. Len(server.streams) -> Connections]
  BY <1>2, <1>3, Zenon
<1>5. closed \in Seq(Connections) /\ Len(closed) = Len(server.streams)
  <2>1. closed \in Seq(Connections)
    BY <1>1, <1>4, IsASeq
  <2> QED
    BY <1>1, <1>4, <2>1, LenProperties
<1>6. \A k \in Streams : /\ closed[k].inbox = server.streams[k].inbox
                         /\ ~ closed[k].live
  BY <1>1, <1>2 DEF Connections, Streams
<1> HIDE DEF closed
<1>7. server'.streams = closed /\ server' \in [up : BOOLEAN, streams : Seq(Connections)]
  BY <1>5 DEF closed
<1>8. Streams' = Streams
  BY <1>5, <1>7 DEF Streams
<1> QED
  BY <1>1, <1>5, <1>6, <1>7, <1>8, CutsGrow, ServerKeepsInv DEF ReadsInv

LEMMA OpenKeepsInv ==
    ASSUME ReadsInv, OpenStream
    PROVE  ReadsInv'
<1> DEFINE new == [live |-> TRUE, inbox |-> <<>>]
           more == Append(server.streams, new)
<1>1. server \in [up : BOOLEAN, streams : Seq(Connections)] /\ new \in Connections
  BY DEF ReadsInv, ReadsShape, Connections
<1>2. /\ more \in Seq(Connections) /\ Len(more) = Len(server.streams) + 1
      /\ \A k \in Streams : more[k] = server.streams[k]
      /\ more[Len(server.streams) + 1] = new
  BY <1>1, AppendProperties DEF Streams
<1>3. Len(server.streams) \in Nat
  BY <1>1, LenProperties
<1>4. server' = [server EXCEPT !.streams = more] /\ UNCHANGED <<rings, post, agent>>
  BY DEF OpenStream
<1> HIDE DEF more
<1>5. server'.streams = more /\ server' \in [up : BOOLEAN, streams : Seq(Connections)]
  BY <1>1, <1>2, <1>4
<1>6. Streams' = Streams \cup {Len(server.streams) + 1}
  BY <1>2, <1>3, <1>5 DEF Streams
<1>7. \A k \in Streams' \ Streams : server'.streams[k].inbox = <<>>
  BY <1>2, <1>5, <1>6
<1> HIDE DEF new
<1> QED
  BY SMTT(20), <1>2, <1>3, <1>4, <1>5, <1>7, PostsStay, ServerKeepsInv DEF ReadsInv

LEMMA EndStreamKeepsInv ==
    ASSUME ReadsInv, NEW k \in Streams, EndStream(k)
    PROVE  ReadsInv'
<1>1. /\ server \in [up : BOOLEAN, streams : Seq(Connections)]
      /\ DOMAIN server.streams = Streams /\ Len(server.streams) \in Nat
      /\ \A j \in Streams : server.streams[j] \in Connections
  BY PostFacts DEF ReadsInv, ReadsShape
<1> DEFINE over == [server.streams EXCEPT ![k] = [server.streams[k] EXCEPT !.live = FALSE]]
<1>2. server' = [server EXCEPT !.streams = over] /\ UNCHANGED <<rings, post, agent>>
  BY <1>1 DEF EndStream
<1>3. [server.streams[k] EXCEPT !.live = FALSE] \in Connections
  BY <1>1 DEF Connections
<1>4. over \in Seq(Connections) /\ Len(over) = Len(server.streams)
  BY <1>1, <1>3, ExceptSeq DEF Streams
<1>5. \A j \in Streams : /\ over[j].inbox = server.streams[j].inbox
                         /\ over[j].live => server.streams[j].live
  BY <1>1 DEF Connections
<1> HIDE DEF over
<1>6. server'.streams = over /\ server' \in [up : BOOLEAN, streams : Seq(Connections)]
  BY <1>1, <1>2, <1>4
<1>7. Streams' = Streams
  BY <1>4, <1>6 DEF Streams
<1> QED
  BY <1>1, <1>2, <1>4, <1>5, <1>6, <1>7, PostsStay, ServerKeepsInv DEF ReadsInv

-----------------------------------------------------------------------------
\* The agent sends and gives up.
LEMMA SendKeepsInv ==
    ASSUME ReadsInv, NEW via \in {"stdio", "sse", "http"}, NEW kind \in {"drain", "wait"},
           NEW fed \in BOOLEAN, NEW ulimit \in Nat, SendPost(via, kind, fed, ulimit)
    PROVE  ReadsInv'
<1>0. /\ agent.awaits = 0 /\ Accepts(via) /\ UNCHANGED <<rings, server>>
      /\ agent' = [agent EXCEPT !.awaits = Len(post) + 1]
  BY DEF SendPost
<1>1. PICK at \in Nat, uat \in Nat :
        /\ post' = Append(post, NewPost(via, kind, at, uat, ulimit))
        /\ at <= agent.at /\ uat <= agent.uat
  <2>1. agent.at \in Nat /\ agent.uat \in Nat
    BY InvFacts
  <2>2. /\ fed => post' = Append(post, NewPost(via, kind, agent.at, agent.uat, ulimit))
        /\ ~ fed => post' = Append(post, NewPost(via, kind, 0, 0, ulimit))
    BY DEF SendPost
  <2>3. CASE fed
    BY <2>1, <2>2, <2>3
  <2>4. CASE ~ fed
    BY <2>1, <2>2, <2>4
  <2> QED
    BY <2>3, <2>4
<1> DEFINE new == NewPost(via, kind, at, uat, ulimit)
<1>2. Len(server.streams) \in Nat /\ Len(post) \in Nat /\ post \in Seq(Requests)
  BY PostFacts DEF ReadsInv, ReadsShape
<1>3. /\ new \in Requests /\ new.at = at /\ new.uat = uat /\ new.pc = "sent" /\ new.via = via
      /\ via = "sse" => new.stream = Len(server.streams)
  BY <1>2 DEF NewPost, Requests
<1> HIDE DEF new
<1>4. /\ post' \in Seq(Requests) /\ Len(post') = Len(post) + 1
      /\ \A p \in Posts : post'[p] = post[p]
      /\ post'[Len(post) + 1] = new
  BY <1>1, <1>2, <1>3, AppendProperties DEF Posts, new
<1>5. Posts' = Posts \cup {Len(post) + 1} /\ Len(post) + 1 \notin Posts /\ Streams' = Streams
  BY <1>0, <1>2, <1>4 DEF Posts, Streams
<1>6. PostsGrow /\ RingsGrow
  <2>1. RingsGrow
    BY <1>0, InvFacts, RingsStay
  <2>2. Len(post) <= Len(post')
    BY <1>2, <1>4
  <2>3. PostsGrow
    BY <1>4, <2>2 DEF PostsGrow
  <2> QED
    BY <2>1, <2>3
<1>7. agent' \in Readers
      /\ agent'.awaits = Len(post) + 1 /\ agent'.at = agent.at /\ agent'.uat = agent.uat
      /\ agent'.seen = agent.seen /\ agent'.useen = agent.useen
  <2>1. agent \in Readers /\ Len(post) + 1 \in Nat
    BY <1>2, InvFacts
  <2> QED
    BY <1>0, <2>1 DEF Readers
<1>8. ReadsShape'
  BY <1>0, <1>2, <1>4, <1>7, InvFacts DEF ReadsShape
<1>9. RequestsHold'
  <2>1. via = "sse" => Len(server.streams) \in Streams
    <3>1. via = "sse" => server.streams # <<>>
      BY <1>0 DEF Accepts
    <3>2. server.streams \in Seq(Connections)
      BY DEF ReadsInv, ReadsShape
    <3> QED
      BY <1>2, <3>1, <3>2 DEF Streams
  <2>2. \A p \in Posts : /\ post[p].via = "sse" => post[p].stream \in Streams
                         /\ post[p].via # "stdio" /\ post[p].pc # "done" => post[p].cut
    BY <1>0, <1>2 DEF ReadsInv, RequestsHold, Posts
  <2> QED
    <3>1. \A p \in Posts' :
             /\ post'[p].via = "sse" => post'[p].stream \in Streams'
             /\ post'[p].via # "stdio" /\ post'[p].pc # "done" => p = agent'.awaits \/ post'[p].cut
      BY <1>3, <1>4, <1>5, <1>7, <2>1, <2>2
    <3>2. post'[agent'.awaits].at <= agent'.at /\ post'[agent'.awaits].uat <= agent'.uat
      BY <1>1, <1>3, <1>4, <1>7
    <3> QED
      BY <3>1, <3>2 DEF RequestsHold
<1>10. ASSUME NEW k \in Streams PROVE InboxHolds(k)'
  <2>1. \A i \in DOMAIN server.streams[k].inbox : server.streams[k].inbox[i].p # agent.awaits
    <3>1. InboxHolds(k)
      BY DEF ReadsInv
    <3>2. 0 \notin Posts
      BY <1>2 DEF Posts
    <3> QED
      BY <1>0, <3>1, <3>2 DEF InboxHolds
  <2> QED
    BY <1>0, <1>6, <1>8, <2>1, InboxStays DEF ReadsInv
<1>11. FollowingSkipsNothing'
  BY <1>6, <1>7, <1>8, FollowingStays DEF ReadsInv, AgentReadsWell
<1>12. AwaitedAnswerIsKept'
  BY <1>3, <1>4, <1>7 DEF AwaitedAnswerIsKept
<1> QED
  BY <1>5, <1>8, <1>9, <1>10, <1>11, <1>12 DEF ReadsInv, AgentReadsWell

LEMMA GiveUpKeepsInv ==
    ASSUME ReadsInv, GiveUpPost
    PROVE  ReadsInv'
<1>1. /\ agent.awaits # 0 /\ UNCHANGED <<rings, server>>
      /\ agent' = [agent EXCEPT !.awaits = 0]
      /\ post' = [post EXCEPT ![agent.awaits].cut = @ \/ post[agent.awaits].via # "stdio"]
  BY DEF GiveUpPost
<1>2. /\ agent.awaits \in Posts /\ post \in Seq(Requests) /\ Len(post) \in Nat
      /\ DOMAIN post = Posts /\ \A p \in Posts : post[p] \in Requests
  BY <1>1, PostFacts DEF ReadsInv, ReadsShape, Posts
<1> DEFINE r == post[agent.awaits]
           over == [r EXCEPT !.cut = r.cut \/ r.via # "stdio"]
<1>3. /\ over \in Requests /\ over.pc = r.pc /\ over.via = r.via /\ over.stream = r.stream
      /\ over.at = r.at /\ over.uat = r.uat /\ (r.cut \/ r.via # "stdio" => over.cut)
  <2>1. r \in Requests
    BY <1>2
  <2>2. r.cut \in BOOLEAN
    BY <2>1 DEF Requests
  <2>3. (r.cut \/ r.via # "stdio") \in BOOLEAN
    OBVIOUS
  <2> HIDE DEF r
  <2>4. over \in Requests
    BY <2>1, <2>3 DEF Requests
  <2>5. /\ over.pc = r.pc /\ over.via = r.via /\ over.stream = r.stream
        /\ over.at = r.at /\ over.uat = r.uat
    BY <2>1 DEF Requests
  <2>6. over.cut = (r.cut \/ r.via # "stdio")
    BY <2>1 DEF Requests
  <2> QED
    BY <2>4, <2>5, <2>6
<1>4. post' = [post EXCEPT ![agent.awaits] = over]
  BY <1>1, <1>2
<1> HIDE DEF over
<1>5. /\ post' \in Seq(Requests) /\ Len(post') = Len(post)
      /\ \A p \in Posts : post'[p] = IF p = agent.awaits THEN over ELSE post[p]
  BY <1>2, <1>3, <1>4, ExceptSeq DEF Posts
<1>6. Posts' = Posts /\ Streams' = Streams
  BY <1>1, <1>5 DEF Posts, Streams
<1>7. PostsGrow /\ RingsGrow
  <2>1. RingsGrow
    BY <1>1, InvFacts, RingsStay
  <2>2. Len(post) <= Len(post')
    BY <1>2, <1>5
  <2>3. PostsGrow
    BY <1>3, <1>5, <2>2 DEF PostsGrow
  <2> QED
    BY <2>1, <2>3
<1>8. agent' \in Readers
      /\ agent'.awaits = 0 /\ agent'.at = agent.at /\ agent'.uat = agent.uat
      /\ agent'.seen = agent.seen /\ agent'.useen = agent.useen
  BY <1>1, InvFacts DEF Readers
<1>9. ReadsShape'
  BY <1>1, <1>2, <1>5, <1>8, InvFacts DEF ReadsShape
<1>10. RequestsHold'
  BY <1>3, <1>5, <1>6, <1>8 DEF ReadsInv, RequestsHold
<1>11. ASSUME NEW k \in Streams PROVE InboxHolds(k)'
  <2>1. ASSUME NEW i \in DOMAIN server.streams[k].inbox,
               server.streams[k].inbox[i].p = agent.awaits
        PROVE  post'[agent.awaits].cut
    <3>1. InboxHolds(k)
      BY DEF ReadsInv
    <3>2. post[agent.awaits].via = "sse"
      BY <2>1, <3>1 DEF InboxHolds
    <3> QED
      BY <1>2, <1>3, <1>5, <3>2
  <2> QED
    BY <1>1, <1>7, <1>9, <2>1, InboxStays DEF ReadsInv
<1>12. FollowingSkipsNothing' /\ AwaitedAnswerIsKept'
  BY <1>7, <1>8, <1>9, FollowingStays DEF ReadsInv, AgentReadsWell, AwaitedAnswerIsKept
<1> QED
  BY <1>6, <1>9, <1>10, <1>11, <1>12 DEF ReadsInv, AgentReadsWell

-----------------------------------------------------------------------------
\* What the agent is told.
LEMMA ToldWell ==
    ASSUME ReadsShape, RequestsHold, FollowingSkipsNothing, NEW p \in Posts, NEW a \in Answered,
           SoundAnswer(a, post[p]), agent' = Told(p, a), rings' = rings
    PROVE  /\ agent' \in Readers
           /\ agent'.awaits = IF agent.awaits = p THEN 0 ELSE agent.awaits
           /\ agent.awaits # p => agent' = agent
           /\ FollowingSkipsNothing'
<1>0. agent \in Readers
  BY DEF ReadsShape
<1>1. CASE agent.awaits # p
  BY <1>0, <1>1 DEF Told, Readers, FollowingSkipsNothing
<1>2. CASE agent.awaits = p /\ ~ a.ok
  <2>1. agent' = [agent EXCEPT !.awaits = 0]
    BY <1>2 DEF Told
  <2> QED
    BY <1>0, <1>2, <2>1 DEF FollowingSkipsNothing, Readers
<1>3. CASE agent.awaits = p /\ a.ok
  <2> DEFINE starves == agent.starved \/ (/\ post[p].tool = "drain" /\ post[p].uat = agent.uat
                                          /\ a.ups = {} /\ post[p].uat < a.held)
             next == IF post[p].tool = "drain" THEN a.unext ELSE agent.uat
  <2>1. agent' = [agent EXCEPT !.awaits = 0, !.seen = agent.seen \cup a.recs, !.at = a.next,
                               !.useen = agent.useen \cup a.ups, !.uat = next,
                               !.starved = starves]
    BY <1>0, <1>3 DEF Told, Readers
  <2>2. starves \in BOOLEAN
    BY <1>0 DEF Readers
  <2>3. /\ a.next \in Nat /\ a.unext \in Nat /\ a.recs \in SUBSET Nat /\ a.ups \in SUBSET Nat
    BY DEF Answered
  <2>4. next \in Nat /\ (next = a.unext \/ next = agent.uat)
    BY <1>0, <2>3 DEF Readers
  <2> HIDE DEF starves, next
  <2>5. /\ agent' \in Readers
        /\ agent'.awaits = 0 /\ agent'.at = a.next /\ agent'.uat = next
        /\ agent'.seen = agent.seen \cup a.recs /\ agent'.useen = agent.useen \cup a.ups
    <3> DEFINE seen == agent.seen \cup a.recs
               useen == agent.useen \cup a.ups
               half == [agent EXCEPT !.awaits = 0, !.seen = seen, !.useen = useen]
    <3>1. seen \in SUBSET Nat /\ useen \in SUBSET Nat
      BY <1>0, <2>3 DEF Readers
    <3> HIDE DEF seen, useen
    <3>2. half \in Readers /\ half.awaits = 0 /\ half.seen = seen /\ half.useen = useen
      BY <1>0, <3>1 DEF Readers
    <3>3. agent' = [half EXCEPT !.at = a.next, !.uat = next, !.starved = starves]
      BY <1>0, <2>1 DEF Readers, seen, useen
    <3> HIDE DEF half
    <3>4. agent' \in Readers /\ agent'.at = a.next /\ agent'.uat = next
      BY <2>2, <2>3, <2>4, <3>2, <3>3 DEF Readers
    <3>5. agent'.awaits = 0 /\ agent'.seen = seen /\ agent'.useen = useen
      BY <3>2, <3>3 DEF Readers
    <3> QED
      BY <3>4, <3>5 DEF seen, useen
  <2>6. /\ Covers(a.next, a.recs, post[p].at, rings.seq)
        /\ Covers(a.unext, a.ups, post[p].uat, rings.useq)
        /\ post[p].at <= agent.at /\ post[p].uat <= agent.uat
    BY <1>3, PostFacts DEF SoundAnswer, RequestsHold, Posts
  <2>7. post[p].at \in Nat /\ post[p].uat \in Nat /\ agent.at \in Nat /\ agent.uat \in Nat
    BY <1>0, PostFacts DEF Requests, Readers
  <2>8. ASSUME NEW r \in 1 .. a.next PROVE r \in agent'.seen \/ r <= Evicted(rings.seq)
    <3>1. r <= post[p].at \/ r \in a.recs \/ r <= Evicted(rings.seq)
      BY <2>6 DEF Covers
    <3>2. r <= post[p].at => r \in 1 .. agent.at
      BY <2>3, <2>6, <2>7
    <3> QED
      BY <2>5, <3>1, <3>2 DEF FollowingSkipsNothing
  <2>9. ASSUME NEW u \in 1 .. next PROVE u \in agent'.useen \/ u <= Evicted(rings.useq)
    <3>1. CASE next = agent.uat
      BY <2>5, <2>9, <3>1 DEF FollowingSkipsNothing
    <3>2. CASE next = a.unext
      <4>1. u <= post[p].uat \/ u \in a.ups \/ u <= Evicted(rings.useq)
        BY <2>6, <2>9, <3>2 DEF Covers
      <4>2. u <= post[p].uat => u \in 1 .. agent.uat
        BY <2>4, <2>6, <2>7
      <4> QED
        BY <2>5, <4>1, <4>2 DEF FollowingSkipsNothing
    <3> QED
      BY <2>4, <3>1, <3>2
  <2>10. FollowingSkipsNothing'
    BY <2>5, <2>8, <2>9 DEF FollowingSkipsNothing
  <2> QED
    BY <1>3, <2>5, <2>10
<1> QED
  BY <1>1, <1>2, <1>3

\* A request goes on, or is answered.
LEMMA MovesOn ==
    ASSUME ReadsInv, NEW p \in Posts, NEW pc \in {"waits", "done"}, post[p].pc # "done",
           post' = [post EXCEPT ![p].pc = pc]
    PROVE  /\ post' \in Seq(Requests) /\ Len(post') = Len(post) /\ Posts' = Posts /\ PostsGrow
           /\ \A q \in Posts : q # p => post'[q] = post[q]
           /\ post'[p].pc = pc /\ post'[p].cut = post[p].cut
<1>1. /\ post \in Seq(Requests) /\ DOMAIN post = Posts /\ Len(post) \in Nat
      /\ \A q \in Posts : post[q] \in Requests
  BY InvFacts, PostFacts
<1> DEFINE over == [post[p] EXCEPT !.pc = pc]
<1>2. post[p] \in Requests
  BY <1>1
<1>3. over \in Requests
  BY <1>2 DEF Requests
<1>4. /\ over.via = post[p].via /\ over.stream = post[p].stream
      /\ over.at = post[p].at /\ over.uat = post[p].uat
      /\ over.cut = post[p].cut /\ over.pc = pc
  BY <1>2 DEF Requests
<1>5. post' = [post EXCEPT ![p] = over]
  BY <1>1
<1> HIDE DEF over
<1>6. /\ post' \in Seq(Requests) /\ Len(post') = Len(post)
      /\ \A q \in Posts : post'[q] = IF q = p THEN over ELSE post[q]
  BY <1>1, <1>3, <1>5, ExceptSeq DEF Posts
<1>7. Len(post) <= Len(post')
  BY <1>1, <1>6
<1>8. PostsGrow
  BY <1>4, <1>6, <1>7 DEF PostsGrow
<1> QED
  BY <1>4, <1>6, <1>8 DEF Posts

\* Nobody holds an answer of a request that is not answered.
LEMMA NotInAnInbox ==
    ASSUME ReadsInv, NEW p \in Posts, post[p].pc # "done", NEW k \in Streams
    PROVE  \A i \in DOMAIN server.streams[k].inbox : server.streams[k].inbox[i].p # p
<1>1. InboxHolds(k)
  BY DEF ReadsInv
<1> QED
  BY <1>1 DEF InboxHolds

LEMMA WaitsKeepsInv ==
    ASSUME ReadsInv, NEW p \in Posts, post[p].pc = "sent",
           post' = [post EXCEPT ![p].pc = "waits"], UNCHANGED <<rings, server, agent>>
    PROVE  ReadsInv'
<1>1. /\ post' \in Seq(Requests) /\ Len(post') = Len(post) /\ Posts' = Posts /\ PostsGrow
      /\ \A q \in Posts : q # p => post'[q] = post[q]
      /\ post'[p].pc = "waits" /\ post'[p].cut = post[p].cut
  BY MovesOn
<1>2. ReadsShape' /\ RingsGrow /\ Streams' = Streams
  BY <1>1, InvFacts, RingsStay DEF ReadsShape, Streams
<1>3. RequestsHold'
  BY SMTT(20), <1>1, <1>2, InvFacts DEF RequestsHold, PostsGrow
<1>4. ASSUME NEW k \in Streams PROVE InboxHolds(k)'
  BY <1>1, <1>2, InboxStays, InvFacts DEF ReadsInv
<1>5. FollowingSkipsNothing'
  BY <1>2, InvFacts, FollowingStays
<1>6. AwaitedAnswerIsKept'
  <2>1. CASE agent.awaits = p
    BY <1>1, <2>1 DEF AwaitedAnswerIsKept
  <2>2. CASE agent.awaits # p
    BY <1>1, <1>2, <2>2, InvFacts, KeptStays
  <2> QED
    BY <2>1, <2>2
<1> QED
  BY <1>2, <1>3, <1>4, <1>5, <1>6 DEF ReadsInv, AgentReadsWell

\* The answer of a POST goes straight to the agent, or nowhere.
LEMMA StraightKeepsInv ==
    ASSUME ReadsInv, NEW p \in Posts, NEW a \in Answered, SoundAnswer(a, post[p]),
           post[p].pc # "done", post[p].via # "sse",
           post' = [post EXCEPT ![p].pc = "done"], UNCHANGED <<rings, server>>,
           agent' = Told(p, a) \/ (agent' = agent /\ post[p].cut)
    PROVE  ReadsInv'
<1>1. /\ post' \in Seq(Requests) /\ Len(post') = Len(post) /\ Posts' = Posts /\ PostsGrow
      /\ \A q \in Posts : q # p => post'[q] = post[q]
      /\ post'[p].pc = "done" /\ post'[p].cut = post[p].cut
  BY MovesOn
<1>2. /\ agent' \in Readers /\ FollowingSkipsNothing'
      /\ agent'.awaits = agent.awaits \/ (agent.awaits = p /\ agent'.awaits = 0)
      /\ agent.awaits # p => agent' = agent
      /\ agent'.awaits = agent.awaits => agent' = agent
      /\ agent'.awaits = p => post[p].cut
  <2>1. CASE agent' = Told(p, a)
    <3>1. p # 0
      BY InvFacts, PostFacts DEF Posts
    <3> QED
      BY <2>1, <3>1, InvFacts, ToldWell
  <2>2. CASE agent' = agent /\ post[p].cut
    BY <2>2, InvFacts DEF FollowingSkipsNothing
  <2> QED
    BY <2>1, <2>2
<1>3. ReadsShape' /\ RingsGrow /\ Streams' = Streams
  <2>1. agent'.awaits \in 0 .. Len(post')
    BY <1>1, <1>2, InvFacts, PostFacts DEF ReadsShape
  <2> QED
    BY <1>1, <1>2, <2>1, InvFacts, RingsStay DEF ReadsShape, Streams
<1>4. RequestsHold'
  <2>1. agent'.awaits # 0 => agent' = agent /\ agent.awaits \in Posts
    BY <1>2, InvFacts
  <2>2. agent'.awaits # 0 =>
          post'[agent'.awaits].at <= agent'.at /\ post'[agent'.awaits].uat <= agent'.uat
    BY <1>1, <2>1, InvFacts DEF RequestsHold, PostsGrow
  <2>3. ASSUME NEW q \in Posts
        PROVE  /\ post'[q].via = "sse" => post'[q].stream \in Streams
               /\ post'[q].via # "stdio" /\ post'[q].pc # "done"
                    => q = agent'.awaits \/ post'[q].cut
    <3>1. CASE q = p
      BY <1>1, <3>1, InvFacts DEF RequestsHold, PostsGrow
    <3>2. CASE q # p
      BY <1>1, <1>2, <3>2, InvFacts DEF RequestsHold
    <3> QED
      BY <3>1, <3>2
  <2> QED
    BY <1>1, <1>3, <2>2, <2>3 DEF RequestsHold
<1>5. ASSUME NEW k \in Streams PROVE InboxHolds(k)'
  <2>1. \A i \in DOMAIN server.streams[k].inbox : server.streams[k].inbox[i].p # p
    BY NotInAnInbox
  <2> QED
    BY <1>1, <1>2, <1>3, <2>1, InboxStays, InvFacts DEF ReadsInv
<1>6. AwaitedAnswerIsKept'
  <2>1. CASE agent'.awaits = p
    BY <1>1, <1>2, <2>1 DEF AwaitedAnswerIsKept
  <2>2. CASE agent'.awaits = 0
    BY <2>2 DEF AwaitedAnswerIsKept
  <2>3. CASE agent'.awaits # 0 /\ agent'.awaits # p
    <3>1. agent'.awaits = agent.awaits /\ agent.awaits # p /\ agent.awaits \in Posts
      BY <1>2, <2>3, InvFacts
    <3> QED
      BY <1>1, <1>3, <3>1, InvFacts, KeptStays
  <2> QED
    BY <2>1, <2>2, <2>3
<1> QED
  BY <1>2, <1>3, <1>4, <1>5, <1>6 DEF ReadsInv, AgentReadsWell

-----------------------------------------------------------------------------
\* Answers in the inboxes.
EntryHolds(k, e) ==
    /\ e.p \in Posts /\ post[e.p].stream = k /\ post[e.p].via = "sse" /\ post[e.p].pc = "done"
    /\ e.p = agent.awaits \/ post[e.p].cut
    /\ SoundAnswer(e.a, post[e.p])

LEMMA EntriesHold ==
    ASSUME NEW k, InboxHolds(k), NEW i \in DOMAIN server.streams[k].inbox
    PROVE  EntryHolds(k, server.streams[k].inbox[i])
  BY DEF InboxHolds, EntryHolds

LEMMA EntryStays ==
    ASSUME ReadsShape, ReadsShape', RingsGrow, PostsGrow, NEW k, NEW e \in [p : Nat, a : Answered],
           EntryHolds(k, e),
           e.p = agent.awaits => agent'.awaits = agent.awaits \/ post'[e.p].cut
    PROVE  EntryHolds(k, e)'
<1>1. e.p \in Posts' /\ e.p \in Posts
  <2>1. Len(post) \in Nat /\ Len(post') \in Nat /\ Len(post) <= Len(post')
    BY LenProperties DEF PostsGrow, ReadsShape
  <2>2. Posts \subseteq Posts'
    BY <2>1 DEF Posts
  <2> QED
    BY <2>2 DEF EntryHolds
<1>2. PICK p \in Posts, a \in Answered : p = e.p /\ a = e.a
  BY <1>1
<1>3. /\ post'[p].stream = k /\ post'[p].via = "sse" /\ post'[p].pc = "done"
      /\ p = agent'.awaits \/ post'[p].cut
      /\ post'[p].at = post[p].at /\ post'[p].uat = post[p].uat
  BY <1>2 DEF EntryHolds, PostsGrow
<1>4. SoundAnswer(a, post[p])
  BY <1>2 DEF EntryHolds
<1>5. SoundAnswer(a, post[p])'
  BY <1>3, <1>4, SoundStays
<1> QED
  BY <1>1, <1>2, <1>3, <1>5 DEF EntryHolds

\* Request p is answered, and nothing else happens to the requests.
Closed(p) ==
    /\ post' \in Seq(Requests) /\ Len(post') = Len(post) /\ Posts' = Posts /\ PostsGrow
    /\ \A q \in Posts : q # p => post'[q] = post[q]
    /\ post'[p].pc = "done" /\ post'[p].cut = post[p].cut

\* The inbox of stream k was `inbox`, of n answers, and is `box` now, with an
\* answer to p behind them.
Placed(k, p, a, inbox, box, n) ==
    /\ inbox = server.streams[k].inbox /\ server'.streams[k].inbox = box
    /\ n < InboxSize /\ Len(inbox) = n /\ DOMAIN inbox = 1 .. n
    /\ Len(box) = n + 1 /\ DOMAIN box = 1 .. n + 1
    /\ \A i \in 1 .. n : inbox[i] \in [p : Nat, a : Answered] /\ box[i] = inbox[i]
    /\ box[n + 1].p = p /\ box[n + 1].a = a
    /\ server' \in [up : BOOLEAN, streams : Seq(Connections)] /\ Streams' = Streams
    /\ server'.streams[k].live = server.streams[k].live
    /\ \A j \in Streams : j # k => server'.streams[j] = server.streams[j]

\* One more answer in the inbox of a stream.
LEMMA InboxGrows ==
    ASSUME ReadsInv, NEW p \in Posts, NEW a \in Answered, SoundAnswer(a, post[p]),
           post[p].pc # "done", post[p].via = "sse", NEW k \in Streams, k = post[p].stream,
           NEW inbox, NEW box, NEW n \in Nat, Placed(k, p, a, inbox, box, n), Closed(p),
           rings' = rings, agent' = agent
    PROVE  ReadsInv'
<1>4. /\ \A i \in 1 .. n + 1 : i \in 1 .. n \/ i = n + 1
      /\ n + 1 \in 1 .. n + 1 /\ \A i \in 1 .. n : i \in 1 .. n + 1
  OBVIOUS
<1>5. n + 1 <= InboxSize /\ n + 1 \in 1 .. n + 1 /\ \A i \in 1 .. n : i \in 1 .. n + 1
  <2>1. n < InboxSize
    BY DEF Placed
  <2> QED BY <1>4, <2>1, AgentStreamSizes
<1> USE DEF Closed, Placed
<1>11. ReadsShape' /\ RingsGrow
  BY InvFacts, RingsStay DEF ReadsShape
<1>12. RequestsHold'
  <2>1. RequestsHold
    BY InvFacts
  <2>2. agent.awaits # 0 => agent.awaits \in Posts
    BY InvFacts
  <2>3. agent'.awaits # 0 =>
          post'[agent'.awaits].at <= agent'.at /\ post'[agent'.awaits].uat <= agent'.uat
    <3> SUFFICES ASSUME agent.awaits # 0
                 PROVE  /\ post'[agent.awaits].at <= agent.at
                        /\ post'[agent.awaits].uat <= agent.uat
      OBVIOUS
    <3>1. /\ agent.awaits \in Posts
          /\ post[agent.awaits].at <= agent.at /\ post[agent.awaits].uat <= agent.uat
      BY <2>1, <2>2 DEF RequestsHold
    <3>2. /\ post'[agent.awaits].at = post[agent.awaits].at
          /\ post'[agent.awaits].uat = post[agent.awaits].uat
      BY <3>1 DEF PostsGrow
    <3> QED
      BY <3>1, <3>2
  <2>4. ASSUME NEW q \in Posts
        PROVE  /\ post'[q].via = "sse" => post'[q].stream \in Streams
               /\ post'[q].via # "stdio" /\ post'[q].pc # "done"
                    => q = agent'.awaits \/ post'[q].cut
    <3>1. /\ post[q].via = "sse" => post[q].stream \in Streams
          /\ post[q].via # "stdio" /\ post[q].pc # "done" => q = agent.awaits \/ post[q].cut
      BY <2>1 DEF RequestsHold
    <3>2. /\ post'[q].via = post[q].via /\ post'[q].stream = post[q].stream
          /\ post[q].pc = "done" => post'[q].pc = "done"
          /\ post[q].cut => post'[q].cut
      BY DEF PostsGrow
    <3> QED
      BY <3>1, <3>2
  <2> QED
    BY <2>3, <2>4 DEF RequestsHold
<1>13. ASSUME NEW j \in Streams PROVE InboxHolds(j)'
  <2>1. CASE j # k
    BY <1>11, <2>1, InvFacts, InboxStays DEF ReadsInv
  <2>2. CASE j = k
    <3>1. InboxHolds(k)
      BY DEF ReadsInv
    <3>2. ASSUME NEW i \in 1 .. n PROVE EntryHolds(k, box[i])' /\ box[i].p # p
      <4>1. PICK e \in [p : Nat, a : Answered] : e = inbox[i] /\ e = box[i]
        BY <1>5
      <4>2. EntryHolds(k, e) /\ e.p # p
        <5>1. i \in DOMAIN server.streams[k].inbox /\ server.streams[k].inbox[i] = e
          BY <1>4, <4>1
        <5>2. EntryHolds(k, server.streams[k].inbox[i])
          BY <3>1, <5>1, EntriesHold
        <5>3. server.streams[k].inbox[i].p # p
          <6>1. \A m \in DOMAIN server.streams[k].inbox : server.streams[k].inbox[m].p # p
            BY ZenonT(40), NotInAnInbox
          <6> QED
            BY <5>1, <6>1
        <5> QED
          BY <5>1, <5>2, <5>3
      <4>3. EntryHolds(k, e)'
        BY <1>11, <4>2, EntryStays, InvFacts
      <4> QED
        BY <4>1, <4>2, <4>3
    <3>3. EntryHolds(k, box[n + 1])'
      <4>1. p = agent.awaits \/ post[p].cut
        BY InvFacts DEF RequestsHold
      <4>2. SoundAnswer(a, post[p])'
        BY ZenonT(40), <1>11, InvFacts, SoundStays DEF PostsGrow
      <4>3. post'[p].stream = k /\ post'[p].via = "sse"
        BY DEF PostsGrow
      <4> QED
        BY <4>1, <4>2, <4>3 DEF EntryHolds
    <3>4. \A i \in DOMAIN box : EntryHolds(k, box[i])'
      <4> SUFFICES ASSUME NEW i \in DOMAIN box PROVE EntryHolds(k, box[i])'
        OBVIOUS
      <4>1. i \in 1 .. n \/ i = n + 1
        BY <1>4
      <4>2. CASE i = n + 1
        BY <1>5, <3>3, <4>2
      <4> QED
        BY <3>2, <4>1, <4>2
    <3>5. \A i, m \in DOMAIN box : box[i].p = box[m].p => i = m
      <4>1. \A i, m \in 1 .. n : inbox[i].p = inbox[m].p => i = m
        BY ZenonT(40), <1>4, <3>1 DEF InboxHolds
      <4> QED
        <5> SUFFICES ASSUME NEW i \in DOMAIN box, NEW m \in DOMAIN box, box[i].p = box[m].p
                     PROVE  i = m
          OBVIOUS
        <5>1. /\ i \in 1 .. n \/ i = n + 1
              /\ m \in 1 .. n \/ m = n + 1
          BY <1>4
        <5>2. box[n + 1].p = p /\ \A q \in 1 .. n : box[q].p # p
          BY <1>5, <3>2
        <5>3. CASE i \in 1 .. n /\ m \in 1 .. n
          <6>1. box[i] = inbox[i] /\ box[m] = inbox[m]
            BY <5>3
          <6>2. inbox[i].p = inbox[m].p
            BY <6>1, Zenon
          <6> QED
            BY <4>1, <5>3, <6>2, Zenon
        <5>4. CASE i \in 1 .. n /\ m = n + 1
          BY <5>2, <5>4, Zenon
        <5>5. CASE i = n + 1 /\ m \in 1 .. n
          BY <5>2, <5>5, Zenon
        <5> QED
          BY <5>1, <5>3, <5>4, <5>5, Zenon
    <3>6. Len(box) <= InboxSize
      BY <1>5
    <3> QED
      <4>1. InboxHolds(k)'
        <5>1. \A i \in DOMAIN box :
                /\ box[i].p \in Posts'
                /\ post'[box[i].p].stream = k /\ post'[box[i].p].via = "sse"
                /\ post'[box[i].p].pc = "done"
                /\ box[i].p = agent'.awaits \/ post'[box[i].p].cut
                /\ SoundAnswer(box[i].a, post[box[i].p])'
          BY ZenonT(40), <3>4 DEF EntryHolds
        <5> QED
          BY ZenonT(40), <3>5, <3>6, <5>1 DEF InboxHolds
      <4> QED
        BY <2>2, <4>1
  <2> QED
    BY <2>1, <2>2
<1>14. FollowingSkipsNothing'
  BY <1>11, InvFacts, FollowingStays
<1>15. AwaitedAnswerIsKept'
  <2>1. CASE agent.awaits = p
    <3>1. KeptInStream(p)'
      <4>1. server'.streams[k].inbox[n + 1].p = p
            /\ n + 1 \in 1 .. Len(server'.streams[k].inbox)
        BY <1>5
      <4> QED
        <5>1. post'[p].via = "sse" /\ post'[p].stream = k
          BY DEF PostsGrow
        <5> QED
          BY ZenonT(40), <4>1, <5>1 DEF KeptInStream
    <3> QED
      BY <2>1, <3>1, KeptByStreamNext
  <2>2. CASE agent.awaits # p
    <3>1. ASSUME NEW j \in Streams
          PROVE  /\ server'.streams[j].live => server.streams[j].live
                 /\ \A i \in DOMAIN server.streams[j].inbox :
                       server.streams[j].inbox[i].p = agent.awaits =>
                         \E m \in DOMAIN server'.streams[j].inbox :
                            server'.streams[j].inbox[m].p = agent.awaits
      <4>1. CASE j # k
        BY ZenonT(40), <4>1
      <4>2. CASE j = k
        <5>2. ASSUME NEW i \in DOMAIN inbox PROVE i \in DOMAIN box /\ box[i] = inbox[i]
          BY <1>5
        <5> QED
          <6>1. ASSUME NEW i \in DOMAIN inbox, inbox[i].p = agent.awaits
                PROVE  \E m \in DOMAIN box : box[m].p = agent.awaits
            BY ZenonT(40), <5>2, <6>1
          <6> QED
            BY <4>2, <6>1
      <4> QED
        BY <4>1, <4>2
    <3> QED
      BY <1>11, <2>2, <3>1, InvFacts, KeptStays
  <2> QED
    BY <2>1, <2>2
<1> QED
  BY <1>11, <1>12, <1>13, <1>14, <1>15 DEF ReadsInv, AgentReadsWell

PutsInInbox(p, a) ==
    /\ post' = [post EXCEPT ![p].pc = "done"] /\ UNCHANGED <<rings, agent>>
    /\ server' = [server EXCEPT !.streams[post[p].stream].inbox = Append(@, [p |-> p, a |-> a])]

LEMMA PutInAnInbox ==
    ASSUME ReadsInv, NEW p \in Posts, NEW a \in Answered, SoundAnswer(a, post[p]),
           post[p].pc # "done", post[p].via = "sse", HasRoom(post[p].stream),
           PutsInInbox(p, a)
    PROVE  ReadsInv'
<1>0. PICK k \in Streams : k = post[p].stream
  BY InvFacts DEF RequestsHold
<1>1. /\ post' \in Seq(Requests) /\ Len(post') = Len(post) /\ Posts' = Posts /\ PostsGrow
      /\ \A q \in Posts : q # p => post'[q] = post[q]
      /\ post'[p].pc = "done" /\ post'[p].cut = post[p].cut
  BY MovesOn DEF PutsInInbox
<1> DEFINE new == [p |-> p, a |-> a]
<1>i. PICK inbox, box : inbox = server.streams[k].inbox /\ box = Append(inbox, new)
  OBVIOUS
<1> DEFINE conn == [server.streams[k] EXCEPT !.inbox = box]
           conns == [server.streams EXCEPT ![k] = conn]
<1>2. /\ server \in [up : BOOLEAN, streams : Seq(Connections)]
      /\ DOMAIN server.streams = Streams /\ server.streams[k] \in Connections
      /\ Len(server.streams) \in Nat
  BY InvFacts, PostFacts
<1>3. new \in [p : Nat, a : Answered] /\ new.p = p /\ new.a = a
  BY DEF Posts
<1>4. inbox \in Seq([p : Nat, a : Answered]) /\ Len(inbox) \in Nat /\ DOMAIN inbox = 1 .. Len(inbox)
  <2>1. inbox \in Seq([p : Nat, a : Answered])
    BY <1>i, <1>2 DEF Connections
  <2> QED
    BY <2>1, LenProperties
<1> HIDE DEF new
<1>5. /\ box \in Seq([p : Nat, a : Answered]) /\ Len(box) = Len(inbox) + 1
      /\ \A i \in 1 .. Len(inbox) : box[i] = inbox[i]
      /\ box[Len(inbox) + 1] = new
  <2> DEFINE S == [p : Nat, a : Answered]
  <2>1. inbox \in Seq(S) /\ new \in S
    BY <1>3, <1>4
  <2> HIDE DEF S
  <2>2. /\ Append(inbox, new) \in Seq(S) /\ Len(Append(inbox, new)) = Len(inbox) + 1
        /\ \A i \in 1 .. Len(inbox) : Append(inbox, new)[i] = inbox[i]
        /\ Append(inbox, new)[Len(inbox) + 1] = new
    BY <2>1, AppendProperties
  <2>3. box = Append(inbox, new)
    BY <1>i DEF new
  <2> QED
    BY <2>2, <2>3 DEF S
<1>6. DOMAIN box = 1 .. Len(inbox) + 1
  BY <1>5, LenProperties
<1>7. server' = [server EXCEPT !.streams = conns]
  BY <1>0, <1>i, <1>2 DEF new, Connections, PutsInInbox
<1>8. conn \in Connections /\ conn.inbox = box /\ conn.live = server.streams[k].live
  BY <1>2, <1>5 DEF Connections
<1> HIDE DEF conn
<1>9. /\ conns \in Seq(Connections) /\ Len(conns) = Len(server.streams)
      /\ \A j \in Streams : conns[j] = IF j = k THEN conn ELSE server.streams[j]
  BY <1>2, <1>8, ExceptSeq DEF Streams
<1> HIDE DEF conns
<1>10. /\ server' \in [up : BOOLEAN, streams : Seq(Connections)] /\ server'.streams = conns
       /\ Streams' = Streams
  BY <1>2, <1>7, <1>9 DEF Streams
<1>11. Len(inbox) < InboxSize
  BY <1>0, <1>i DEF HasRoom
<1>12. /\ server'.streams[k].inbox = box /\ server'.streams[k].live = server.streams[k].live
       /\ \A j \in Streams : j # k => server'.streams[j] = server.streams[j]
  BY <1>8, <1>9, <1>10
<1>13. box[Len(inbox) + 1].p = p /\ box[Len(inbox) + 1].a = a
  BY <1>3, <1>5
<1> QED
  <2>1. PICK n \in Nat : n = Len(inbox)
    BY <1>4
  <2>2. /\ n < InboxSize /\ Len(inbox) = n /\ DOMAIN inbox = 1 .. n
        /\ Len(box) = n + 1 /\ DOMAIN box = 1 .. n + 1
        /\ box[n + 1].p = p /\ box[n + 1].a = a
    BY <1>4, <1>5, <1>6, <1>11, <1>13, <2>1
  <2>3. \A i \in 1 .. n : inbox[i] \in [p : Nat, a : Answered] /\ box[i] = inbox[i]
    BY <1>4, <1>5, <2>1, ElementOfSeq
  <2> HIDE DEF conns, conn, new
  <2>4. \A q \in Posts : q # p => post'[q] = post[q]
    BY <1>1
  <2>5. rings' = rings /\ agent' = agent
    BY DEF PutsInInbox
  <2>6. Placed(k, p, a, inbox, box, n)
    BY <1>i, <1>10, <1>12, <2>2, <2>3, Zenon DEF Placed
  <2>7. Closed(p)
    BY <1>1, <2>4 DEF Closed
  <2> QED
    BY <1>0, <2>5, <2>6, <2>7, InboxGrows

\* Whoever finds the inbox full is behind as many requests that were given up.
LEMMA FullOfGivenUp ==
    ASSUME ReadsInv, NEW k \in Streams, ~ HasRoom(k),
           \A i \in DOMAIN server.streams[k].inbox : server.streams[k].inbox[i].p # agent.awaits
    PROVE  Cardinality(GivenUp(k)) >= InboxSize
<1> DEFINE inbox == server.streams[k].inbox
           f == [i \in 1 .. Len(inbox) |-> inbox[i].p]
<1>1. /\ DOMAIN inbox = 1 .. Len(inbox) /\ Len(inbox) \in Nat /\ InboxHolds(k)
      /\ Len(post) \in Nat
  <2>1. server.streams[k] \in Connections /\ DOMAIN inbox = 1 .. Len(inbox)
    BY InvFacts, PostFacts
  <2>2. inbox \in Seq([p : Nat, a : Answered])
    BY <2>1 DEF Connections
  <2> QED
    BY <2>1, <2>2, LenProperties, InvFacts DEF ReadsInv
<1>2. Len(inbox) = InboxSize
  <2>1. Len(inbox) <= InboxSize
    BY <1>1 DEF InboxHolds
  <2>2. ~ (Len(inbox) < InboxSize)
    BY DEF HasRoom
  <2> HIDE DEF inbox
  <2> QED
    BY <1>1, <2>1, <2>2
<1>3. \A i \in 1 .. Len(inbox) : inbox[i].p \in GivenUp(k)
  BY <1>1 DEF InboxHolds, GivenUp
<1>4. \A i, j \in 1 .. Len(inbox) : inbox[i].p = inbox[j].p => i = j
  BY <1>1 DEF InboxHolds
<1> HIDE DEF inbox
<1>5. f \in Injection(1 .. Len(inbox), GivenUp(k))
  <2>1. f \in [1 .. Len(inbox) -> GivenUp(k)]
    BY <1>3
  <2>2. \A i, j \in 1 .. Len(inbox) : f[i] = f[j] => i = j
    BY <1>4
  <2> HIDE DEF f
  <2> QED
    BY <2>1, <2>2 DEF Injection, IsInjective
<1>6. IsFiniteSet(GivenUp(k))
  <2>1. IsFiniteSet(1 .. Len(post))
    BY <1>1, FS_Interval
  <2>2. GivenUp(k) \subseteq 1 .. Len(post)
    BY DEF GivenUp, Posts
  <2> QED
    BY <2>1, <2>2, FS_Subset
<1> HIDE DEF f
<1>7. Cardinality(1 .. Len(inbox)) <= Cardinality(GivenUp(k))
  BY <1>5, <1>6, FS_Injection
<1>8. Cardinality(1 .. Len(inbox)) = Len(inbox)
  BY <1>1, <1>2, FS_Interval
<1> QED
  BY <1>2, <1>6, <1>7, <1>8, FS_CardinalityType

LEMMA DroppedKeepsInv ==
    ASSUME ReadsInv, NEW p \in Posts, post[p].pc # "done", post[p].via = "sse",
           ~ HasRoom(post[p].stream), Closed(p), UNCHANGED <<rings, server, agent>>
    PROVE  ReadsInv'
<1>0. PICK k \in Streams : k = post[p].stream
  BY InvFacts DEF RequestsHold
<1>1. PostsGrow /\ \A q \in Posts : q # p => post'[q] = post[q]
  BY DEF Closed
<1>2. ReadsShape' /\ RingsGrow /\ Streams' = Streams
  BY InvFacts, RingsStay DEF ReadsShape, Streams, Closed
<1>3. RequestsHold'
  BY ZenonT(40), <1>1, <1>2, InvFacts DEF RequestsHold, PostsGrow, Closed
<1>4. ASSUME NEW j \in Streams PROVE InboxHolds(j)'
  BY <1>1, <1>2, InboxStays, InvFacts DEF ReadsInv
<1>5. FollowingSkipsNothing'
  BY <1>2, InvFacts, FollowingStays
<1>6. AwaitedAnswerIsKept'
  <2>1. CASE agent.awaits = p
    <3>1. Cardinality(GivenUp(k)) >= InboxSize
      BY <1>0, <2>1, NotInAnInbox, FullOfGivenUp
    <3>2. Cardinality(GivenUp(k)') >= InboxSize
      BY <1>1, <1>2, <3>1, InvFacts, GivenUpGrows
    <3>3. post'[p].stream = k /\ post'[p].via = "sse"
      BY <1>0, <1>1 DEF PostsGrow
    <3>4. GivenUp(post[p].stream)' = GivenUp(k)'
      BY <3>3 DEF GivenUp
    <3>5. KeptInStream(p)'
      BY <3>2, <3>3, <3>4 DEF KeptInStream
    <3> QED
      BY <2>1, <3>5, KeptByStreamNext
  <2>2. CASE agent.awaits # p
    BY <1>1, <1>2, <2>2, InvFacts, KeptStays
  <2> QED
    BY <2>1, <2>2
<1> QED
  BY <1>2, <1>3, <1>4, <1>5, <1>6 DEF ReadsInv, AgentReadsWell

LEMMA RespondKeepsInv ==
    ASSUME ReadsInv, NEW p \in Posts, NEW a \in Answered, SoundAnswer(a, post[p]),
           post[p].pc # "done", Respond(p, a)
    PROVE  ReadsInv'
<1>1. post' = [post EXCEPT ![p].pc = "done"] /\ rings' = rings
  BY DEF Respond
<1>2. Closed(p)
  BY <1>1, MovesOn DEF Closed
<1>3. CASE post[p].via = "sse" /\ HasRoom(post[p].stream)
  <2>1. PutsInInbox(p, a)
    BY <1>1, <1>3 DEF Respond, PutsInInbox
  <2> QED
    BY <1>3, <2>1, PutInAnInbox
<1>4. CASE post[p].via = "sse" /\ ~ HasRoom(post[p].stream)
  <2>1. UNCHANGED <<rings, server, agent>>
    BY <1>1, <1>4 DEF Respond
  <2> QED
    BY <1>2, <1>4, <2>1, DroppedKeepsInv
<1>5. CASE post[p].via # "sse"
  <2>1. /\ UNCHANGED <<rings, server>>
        /\ agent' = Told(p, a) \/ (agent' = agent /\ post[p].cut)
    BY <1>1, <1>5 DEF Respond
  <2> QED
    BY <1>1, <1>5, <2>1, StraightKeepsInv
<1> QED
  BY <1>3, <1>4, <1>5

LEMMA ToolsKeepInv ==
    ASSUME ReadsInv, NEW p \in Posts,
           RunTool(p) \/ PollAgain(p) \/ WaitIsOver(p) \/ WaitIsCut(p)
    PROVE  ReadsInv'
<1>1. Drain(post[p]) \in Answered /\ SoundAnswer(Drain(post[p]), post[p])
  BY InvFacts, DrainIsSound
<1>2. ASSUME post[p].pc # "done", Respond(p, NotAnswered) PROVE ReadsInv'
  BY <1>2, ErrorIsSound, RespondKeepsInv
<1>3. ASSUME post[p].pc # "done", Respond(p, Drain(post[p])) PROVE ReadsInv'
  BY <1>1, <1>3, RespondKeepsInv
<1>4. CASE RunTool(p)
  <2>1. \/ Respond(p, NotAnswered) \/ Respond(p, Drain(post[p]))
        \/ post' = [post EXCEPT ![p].pc = "waits"] /\ UNCHANGED <<rings, server, agent>>
    BY <1>4 DEF RunTool
  <2>2. post[p].pc = "sent"
    BY <1>4 DEF RunTool
  <2> QED
    BY <1>2, <1>3, <2>1, <2>2, WaitsKeepsInv
<1>5. CASE PollAgain(p)
  BY <1>2, <1>3, <1>5 DEF PollAgain
<1>6. CASE WaitIsOver(p)
  BY <1>3, <1>6 DEF WaitIsOver, TimedOut
<1>7. CASE WaitIsCut(p)
  BY <1>2, <1>7 DEF WaitIsCut
<1> QED
  BY <1>4, <1>5, <1>6, <1>7

\* The inbox of stream k was `inbox`, of n + 1 answers, and is `box` now,
\* without the first.
Taken(k, inbox, box, n) ==
    /\ inbox = server.streams[k].inbox /\ server'.streams[k].inbox = box
    /\ Len(inbox) = n + 1 /\ DOMAIN inbox = 1 .. n + 1
    /\ Len(box) = n /\ DOMAIN box = 1 .. n
    /\ \A i \in 1 .. n + 1 : inbox[i] \in [p : Nat, a : Answered]
    /\ \A i \in 1 .. n : box[i] = inbox[i + 1]
    /\ server' \in [up : BOOLEAN, streams : Seq(Connections)] /\ Streams' = Streams
    /\ server'.streams[k].live = server.streams[k].live
    /\ \A j \in Streams : j # k => server'.streams[j] = server.streams[j]

LEMMA InboxShrinks ==
    ASSUME ReadsInv, NEW k \in Streams, NEW inbox, NEW box, NEW n \in Nat,
           Taken(k, inbox, box, n), NEW p \in Posts, NEW a \in Answered,
           inbox[1].p = p, inbox[1].a = a, agent' = Told(p, a), rings' = rings, post' = post
    PROVE  ReadsInv'
<1> USE DEF Taken
<1>1. /\ InboxHolds(k) /\ 1 \in 1 .. n + 1
      /\ \A i \in 1 .. n : i + 1 \in 1 .. n + 1 /\ i + 1 # 1
      /\ \A i, m \in 1 .. n : i + 1 = m + 1 => i = m
  BY DEF ReadsInv
<1>2. SoundAnswer(a, post[p]) /\ post[p].via = "sse" /\ post[p].pc = "done"
  BY <1>1 DEF InboxHolds
<1>3. p # 0
  BY PostFacts, InvFacts DEF Posts
<1>4. /\ agent' \in Readers /\ FollowingSkipsNothing'
      /\ agent'.awaits = IF agent.awaits = p THEN 0 ELSE agent.awaits
      /\ agent.awaits # p => agent' = agent
  BY <1>2, InvFacts, ToldWell
<1>5. Posts' = Posts /\ PostsGrow /\ RingsGrow
  <2>1. post \in Seq(Requests) /\ ReadsShape
    BY InvFacts
  <2>2. PostsGrow
    BY <2>1, PostsStay
  <2> QED
    BY <2>2, InvFacts, RingsStay DEF Posts
<1>6. ReadsShape'
  <2>1. agent'.awaits \in 0 .. Len(post')
    BY <1>4, InvFacts, PostFacts DEF ReadsShape
  <2> QED
    BY <1>4, <2>1, InvFacts DEF ReadsShape
<1>7. RequestsHold'
  <2>1. RequestsHold /\ (agent'.awaits # 0 => agent' = agent)
    BY <1>4, InvFacts
  <2>2. agent'.awaits # 0 =>
          post'[agent'.awaits].at <= agent'.at /\ post'[agent'.awaits].uat <= agent'.uat
    BY <2>1 DEF RequestsHold
  <2>3. ASSUME NEW q \in Posts
        PROVE  /\ post'[q].via = "sse" => post'[q].stream \in Streams
               /\ post'[q].via # "stdio" /\ post'[q].pc # "done"
                    => q = agent'.awaits \/ post'[q].cut
    <3>1. CASE q = p
      BY <1>2, <2>1, <3>1 DEF RequestsHold
    <3>2. CASE q # p
      BY <1>4, <2>1, <3>2 DEF RequestsHold
    <3> QED
      BY <3>1, <3>2
  <2> QED
    BY <1>5, <2>2, <2>3 DEF RequestsHold
<1>8. ASSUME NEW j \in Streams, j # k PROVE InboxHolds(j)'
  <2>1. ASSUME NEW i \in DOMAIN server.streams[j].inbox
        PROVE  server.streams[j].inbox[i].p # p
    <3>1. InboxHolds(j)
      BY DEF ReadsInv
    <3>2. post[server.streams[j].inbox[i].p].stream = j
      BY <3>1 DEF InboxHolds
    <3>3. post[p].stream = k
      BY <1>1 DEF InboxHolds
    <3> QED
      BY <1>8, <3>2, <3>3
  <2>2. server'.streams[j].inbox = server.streams[j].inbox
    BY <1>8
  <2> QED
    <3>1. \A i \in DOMAIN server.streams[j].inbox :
             server.streams[j].inbox[i].p = agent.awaits => agent'.awaits = agent.awaits
      BY <1>4, <2>1
    <3>2. InboxHolds(j)
      BY DEF ReadsInv
    <3> QED
      BY <1>5, <1>6, <2>2, <3>1, <3>2, InvFacts, InboxStays
<1>9. InboxHolds(k)'
  <2>1. ASSUME NEW i \in 1 .. n PROVE EntryHolds(k, box[i])'
    <3>1. PICK e \in [p : Nat, a : Answered] : e = box[i] /\ e = inbox[i + 1]
      BY <1>1
    <3>2. EntryHolds(k, e)
      <4>1. i + 1 \in DOMAIN server.streams[k].inbox /\ server.streams[k].inbox[i + 1] = e
        BY <1>1, <3>1
      <4>2. EntryHolds(k, server.streams[k].inbox[i + 1])
        BY <1>1, <4>1, EntriesHold
      <4> QED
        BY <4>1, <4>2
    <3>3. e.p # p
      <4>1. inbox[1].p = inbox[i + 1].p => 1 = i + 1
        BY <1>1 DEF InboxHolds
      <4> QED
        BY <1>1, <3>1, <4>1
    <3>4. EntryHolds(k, e)'
      BY <1>4, <1>5, <1>6, <3>2, <3>3, InvFacts, EntryStays
    <3> QED
      BY <3>1, <3>4
  <2>2. \A i \in DOMAIN box :
          /\ box[i].p \in Posts'
          /\ post'[box[i].p].stream = k /\ post'[box[i].p].via = "sse"
          /\ post'[box[i].p].pc = "done"
          /\ box[i].p = agent'.awaits \/ post'[box[i].p].cut
          /\ SoundAnswer(box[i].a, post[box[i].p])'
    BY <2>1 DEF EntryHolds
  <2>3. \A i, m \in DOMAIN box : box[i].p = box[m].p => i = m
    <3> SUFFICES ASSUME NEW i \in 1 .. n, NEW m \in 1 .. n, box[i].p = box[m].p
                 PROVE  i = m
      OBVIOUS
    <3>1. inbox[i + 1].p = inbox[m + 1].p
      OBVIOUS
    <3>2. \A x, y \in DOMAIN inbox : inbox[x].p = inbox[y].p => x = y
      BY <1>1 DEF InboxHolds
    <3>3. i + 1 = m + 1
      BY <1>1, <3>1, <3>2
    <3> QED
      BY <1>1, <3>3
  <2>4. Len(box) <= InboxSize
    <3>1. Len(inbox) <= InboxSize
      BY <1>1 DEF InboxHolds
    <3> QED
      BY <3>1
  <2> QED
    BY <2>2, <2>3, <2>4 DEF InboxHolds
<1>10. AwaitedAnswerIsKept'
  <2>1. CASE agent.awaits = p
    BY <1>4, <2>1 DEF AwaitedAnswerIsKept
  <2>2. CASE agent.awaits # p
    <3>1. ASSUME NEW j \in Streams
          PROVE  /\ server'.streams[j].live => server.streams[j].live
                 /\ \A i \in DOMAIN server.streams[j].inbox :
                       server.streams[j].inbox[i].p = agent.awaits =>
                         \E m \in DOMAIN server'.streams[j].inbox :
                            server'.streams[j].inbox[m].p = agent.awaits
      <4>1. CASE j # k
        BY <4>1
      <4>2. CASE j = k
        <5>1. ASSUME NEW i \in 1 .. n + 1, inbox[i].p = agent.awaits
              PROVE  \E m \in DOMAIN box : box[m].p = agent.awaits
          <6>1. i # 1
            BY <2>2, <5>1
          <6>2. i - 1 \in 1 .. n /\ (i - 1) + 1 = i
            BY <6>1
          <6>3. box[i - 1].p = agent.awaits
            BY <5>1, <6>2
          <6> QED
            BY <6>2, <6>3
        <5> QED
          BY <4>2, <5>1
      <4> QED
        BY <4>1, <4>2
    <3> QED
      BY <1>4, <1>5, <1>6, <2>2, <3>1, InvFacts, KeptStays
  <2> QED
    BY <2>1, <2>2
<1> QED
  BY <1>4, <1>6, <1>7, <1>8, <1>9, <1>10 DEF ReadsInv, AgentReadsWell

LEMMA WriteKeepsInv ==
    ASSUME ReadsInv, NEW k \in Streams, WriteAnswer(k)
    PROVE  ReadsInv'
<1>1. /\ server \in [up : BOOLEAN, streams : Seq(Connections)]
      /\ DOMAIN server.streams = Streams /\ server.streams[k] \in Connections
      /\ Len(server.streams) \in Nat
  BY InvFacts, PostFacts
<1>2. PICK inbox, box : inbox = server.streams[k].inbox /\ box = Tail(inbox)
  OBVIOUS
<1>3. inbox \in Seq([p : Nat, a : Answered])
  BY <1>1, <1>2 DEF Connections
<1>4. inbox # <<>>
  BY <1>2 DEF WriteAnswer
<1>5. /\ box \in Seq([p : Nat, a : Answered]) /\ Len(box) = Len(inbox) - 1
      /\ \A i \in 1 .. Len(box) : box[i] = inbox[i + 1]
  BY <1>2, <1>3, <1>4, HeadTailProperties
<1>6. /\ Len(inbox) \in Nat /\ DOMAIN inbox = 1 .. Len(inbox)
      /\ Len(box) \in Nat /\ DOMAIN box = 1 .. Len(box)
      /\ \A i \in 1 .. Len(inbox) : inbox[i] \in [p : Nat, a : Answered]
  BY <1>3, <1>5, LenProperties, ElementOfSeq
<1>7. PICK n \in Nat : n = Len(box) /\ Len(inbox) = n + 1
  BY <1>5, <1>6
<1> DEFINE conn == [server.streams[k] EXCEPT !.inbox = box]
           conns == [server.streams EXCEPT ![k] = conn]
<1>8. server' = [server EXCEPT !.streams = conns]
  BY <1>1, <1>2 DEF WriteAnswer, Connections
<1>9. conn \in Connections /\ conn.inbox = box /\ conn.live = server.streams[k].live
  BY <1>1, <1>5 DEF Connections
<1> HIDE DEF conn
<1>10. /\ conns \in Seq(Connections) /\ Len(conns) = Len(server.streams)
       /\ \A j \in Streams : conns[j] = IF j = k THEN conn ELSE server.streams[j]
  BY <1>1, <1>9, ExceptSeq DEF Streams
<1> HIDE DEF conns
<1>11. /\ server' \in [up : BOOLEAN, streams : Seq(Connections)] /\ server'.streams = conns
       /\ Streams' = Streams
  BY <1>1, <1>8, <1>10 DEF Streams
<1>12. Taken(k, inbox, box, n)
  <2>1. /\ server'.streams[k].inbox = box /\ server'.streams[k].live = server.streams[k].live
        /\ \A j \in Streams : j # k => server'.streams[j] = server.streams[j]
    BY <1>9, <1>10, <1>11
  <2> QED
    BY <1>2, <1>5, <1>6, <1>7, <1>11, <2>1, Zenon DEF Taken
<1>13. PICK p \in Posts, a \in Answered : inbox[1].p = p /\ inbox[1].a = a
  <2>1. 1 \in 1 .. Len(inbox)
    BY <1>7
  <2>2. inbox[1].p \in Posts
    BY ZenonT(40), <1>2, <1>6, <2>1 DEF ReadsInv, InboxHolds
  <2>3. inbox[1].a \in Answered
    BY <1>6, <2>1
  <2> QED
    BY <2>2, <2>3
<1>14. agent' = Told(p, a) /\ rings' = rings /\ post' = post
  <2>1. Head(inbox) = inbox[1]
    BY <1>3, <1>4
  <2>2. /\ agent' = LET head == Head(server.streams[k].inbox) IN Told(head.p, head.a)
        /\ rings' = rings /\ post' = post
    BY DEF WriteAnswer
  <2>3. agent' = Told(inbox[1].p, inbox[1].a)
    BY <1>2, <2>1, <2>2
  <2> QED
    BY <1>13, <2>2, <2>3
<1> QED
  BY <1>12, <1>13, <1>14, InboxShrinks

-----------------------------------------------------------------------------
LEMMA ReadsInitially == ReadsInit => ReadsInv
<1> SUFFICES ASSUME ReadsInit PROVE ReadsInv
  OBVIOUS
<1>1. /\ Len(post) = 0 /\ Len(server.streams) = 0 /\ Posts = {} /\ Streams = {}
      /\ post \in Seq(Requests) /\ server.streams \in Seq(Connections)
  BY DEF ReadsInit, Posts, Streams
<1>2. ReadsShape
  BY <1>1 DEF ReadsInit, ReadsShape, Readers
<1>3. RequestsHold /\ \A k \in Streams : InboxHolds(k)
  BY <1>1 DEF ReadsInit, RequestsHold
<1>4. AgentReadsWell
  BY DEF ReadsInit, AgentReadsWell, FollowingSkipsNothing, AwaitedAnswerIsKept
<1> QED
  BY <1>2, <1>3, <1>4 DEF ReadsInv

LEMMA StutterKeepsReads == ReadsInv /\ UNCHANGED readsVars => ReadsInv'
<1> SUFFICES ASSUME ReadsInv, UNCHANGED readsVars PROVE ReadsInv'
  OBVIOUS
<1>1. rings' = rings /\ server' = server /\ post' = post /\ agent' = agent
  BY DEF readsVars
<1>2. ReadsShape'
  BY <1>1 DEF ReadsInv, ReadsShape
<1>3. RingsGrow /\ PostsGrow
  BY <1>1, InvFacts, RingsStay, PostsStay
<1>4. Streams' = Streams
  BY <1>1 DEF Streams
<1>5. RequestsHold'
  BY <1>1, <1>4 DEF ReadsInv, RequestsHold, Posts
<1>6. ASSUME NEW k \in Streams PROVE InboxHolds(k)'
  BY <1>1, <1>2, <1>3, InvFacts, InboxStays DEF ReadsInv
<1>7. AgentReadsWell'
  BY <1>1, <1>4 DEF ReadsInv, AgentReadsWell, FollowingSkipsNothing, AwaitedAnswerIsKept, Posts, Evicted
<1> QED
  BY <1>2, <1>4, <1>5, <1>6, <1>7 DEF ReadsInv

LEMMA ReadsStep == ReadsInv /\ [ReadsNext]_readsVars => ReadsInv'
<1> SUFFICES ASSUME ReadsInv, [ReadsNext]_readsVars PROVE ReadsInv'
  OBVIOUS
<1>1. CASE UNCHANGED readsVars
  BY <1>1, StutterKeepsReads
<1>2. CASE Capture \/ Settle
  BY <1>2, PageKeepsInv
<1>3. ASSUME NEW bound \in BOOLEAN, McpStart(bound) PROVE ReadsInv'
  BY <1>3, ClosingKeepsInv DEF McpStart
<1>4. CASE McpStop
  BY <1>4, ClosingKeepsInv DEF McpStop
<1>5. CASE OpenStream \/ GiveUpPost
  BY <1>5, OpenKeepsInv, GiveUpKeepsInv
<1>6. ASSUME NEW k \in Streams, EndStream(k) \/ WriteAnswer(k) PROVE ReadsInv'
  BY <1>6, EndStreamKeepsInv, WriteKeepsInv
<1>7. ASSUME NEW via \in {"stdio", "sse", "http"}, NEW fed \in BOOLEAN, NEW n \in UpdateLimits,
             SendPost(via, "drain", fed, n) \/ SendPost(via, "wait", fed, 0)
      PROVE  ReadsInv'
  BY <1>7, SendKeepsInv
<1>8. ASSUME NEW p \in Posts, RunTool(p) \/ PollAgain(p) \/ WaitIsOver(p) \/ WaitIsCut(p)
      PROVE  ReadsInv'
  BY <1>8, ToolsKeepInv
<1> QED
  BY <1>1, <1>2, <1>3, <1>4, <1>5, <1>6, <1>7, <1>8 DEF ReadsNext

\* An agent that feeds its cursors back skips no record and no update that
\* the page still held, over any transport and through any long polls, and
\* the answer it awaits is lost only with its stream or behind InboxSize
\* requests it gave up (drainRecords, awaitHookRecords, handleMessages).
THEOREM AgentsReadWell == ReadsSpec => []AgentReadsWell
<1>1. ReadsInv => AgentReadsWell
  BY DEF ReadsInv
<1> QED
  BY <1>1, ReadsInitially, ReadsStep, PTL DEF ReadsSpec

HIDE AgentStreamSizes

-----------------------------------------------------------------------------
(* The records of a page (PageStream)                                       *)

USE DEF Later, Sooner

(* A set of records covered by the ones already missed and by those the    *)
(* ring evicted in hi - lo steps counts at most hi - lo more.              *)
LEMMA CountGap ==
    ASSUME NEW S, NEW T, IsFiniteSet(T), NEW lo \in Int, NEW hi \in Int,
           S \subseteq T \cup (lo + 1 .. hi)
    PROVE  /\ IsFiniteSet(S)
           /\ Cardinality(S) <= Cardinality(T) + Later(0, hi - lo)
<1> DEFINE G == lo + 1 .. hi
<1>1. IsFiniteSet(G) /\ Cardinality(G) = Later(0, hi - lo)
  <2> DEFINE first == lo + 1
  <2>1. first \in Int /\ first - lo = 1
    OBVIOUS
  <2> HIDE DEF first
  <2>2. /\ IsFiniteSet(first .. hi)
        /\ Cardinality(first .. hi) = IF first > hi THEN 0 ELSE hi - first + 1
    BY <2>1, FS_Interval
  <2>3. Cardinality(first .. hi) = Later(0, hi - lo)
    BY <2>1, <2>2
  <2> QED
    BY <2>2, <2>3 DEF first
<1>2. /\ IsFiniteSet(T \cup G)
      /\ Cardinality(T \cup G) = Cardinality(T) + Cardinality(G) - Cardinality(T \cap G)
  BY <1>1, FS_Union
<1>3. IsFiniteSet(T \cap G)
  BY <1>1, FS_Intersection
<1>4. Cardinality(T \cap G) \in Nat /\ Cardinality(T) \in Nat
  BY <1>3, FS_CardinalityType
<1>5. IsFiniteSet(S) /\ Cardinality(S) <= Cardinality(T \cup G)
  BY <1>2, FS_Subset
<1>6. Cardinality(S) \in Nat
  BY <1>5, FS_CardinalityType
<1> QED
  BY <1>1, <1>2, <1>4, <1>5, <1>6

(* The records the drops stand for are finitely many.                      *)
LEMMA UnreadFinite ==
    ASSUME cleared \in Nat, accounted \in Nat
    PROVE  IsFiniteSet(Unread) /\ Cardinality(Unread) \in Nat
<1>1. IsFiniteSet(cleared + 1 .. accounted)
  BY FS_Interval
<1>2. IsFiniteSet(Unread)
  BY <1>1, FS_Difference DEF Unread
<1> QED
  BY <1>2, FS_CardinalityType

(* Accepting records or forgetting none of them never adds to what the     *)
(* drops stand for.                                                        *)
LEMMA ReadingMissesNothing ==
    ASSUME StreamInv, cleared' = cleared, accounted' = accounted,
           dropped' = dropped, foreign' = foreign, read \subseteq read'
    PROVE  NeverUnderstates'
<1>1. Unread' \subseteq Unread
  BY DEF Unread
<1>2. IsFiniteSet(Unread) /\ Cardinality(Unread) \in Nat
  BY UnreadFinite DEF StreamInv, TypeOK
<1>3. IsFiniteSet(Unread') /\ Cardinality(Unread') <= Cardinality(Unread)
  BY <1>1, <1>2, FS_Subset
<1>4. Cardinality(Unread') \in Nat
  BY <1>3, FS_CardinalityType
<1> QED
  BY <1>2, <1>3, <1>4 DEF StreamInv, NeverUnderstates, TypeOK

(* The accounting of a drain covers every record it moves its mark over:   *)
(* a cursor of this realm skipped nothing, so what is neither below it nor *)
(* accounted before was evicted, and counted.                              *)
LEMMA AccountKeepsCount ==
    ASSUME StreamInv, NEW c \in Cursor, SkipsNothing(c), Account(c),
           cleared' = cleared, read \subseteq read'
    PROVE  NeverUnderstates'
<1> USE DEF Cursor
<1> SUFFICES ASSUME ~foreign'
             PROVE  Cardinality(Unread') <= dropped'
  BY DEF NeverUnderstates
<1>1. ~foreign /\ Genuine(c)
  BY DEF Account
<1>2. {accounted, base, cleared, dropped, c.at} \subseteq Nat
  BY DEF StreamInv, TypeOK
<1>3. accounted' = Later(Later(c.at, accounted), base)
  BY DEF Account, Floor
<1>4. Unread' \subseteq Unread \cup (Floor(c.at) + 1 .. base)
  <2> SUFFICES ASSUME NEW s \in Unread', s \notin Unread
               PROVE  s \in Floor(c.at) + 1 .. base
    OBVIOUS
  <2>1. s \in Int /\ s > cleared /\ s <= accounted' /\ s \notin read
    BY <1>2, <1>3 DEF Unread
  <2>2. s > accounted
    BY <1>2, <2>1 DEF Unread
  <2>3. s > c.at
    BY <1>1, <1>2, <2>1, <2>2 DEF Genuine, SkipsNothing
  <2> QED
    BY <1>2, <1>3, <2>1, <2>2, <2>3 DEF Floor
<1>5. IsFiniteSet(Unread) /\ Cardinality(Unread) \in Nat
  BY <1>2, UnreadFinite
<1>6. Floor(c.at) \in Int
  BY <1>2 DEF Floor
<1>7. /\ IsFiniteSet(Unread')
      /\ Cardinality(Unread') <= Cardinality(Unread) + Later(0, base - Floor(c.at))
  BY <1>2, <1>4, <1>5, <1>6, CountGap
<1>8. Cardinality(Unread') \in Nat
  BY <1>7, FS_CardinalityType
<1>9. Cardinality(Unread) <= dropped
  BY <1>1 DEF StreamInv, NeverUnderstates
<1> QED
  BY <1>2, <1>5, <1>6, <1>7, <1>8, <1>9 DEF Account

(* The invariant holds when the page, the feeder and the agent start.      *)
LEMMA InitInv == Init => StreamInv
<1> SUFFICES ASSUME Init PROVE StreamInv
  OBVIOUS
<1> USE DEF Init, NoCall
<1>1. TypeOK
  <2>1. foreign \in BOOLEAN
    OBVIOUS
  <2>2. call \in Call /\ ack \in Cursor /\ mcp \in Cursor
    BY DEF Call, Cursor
  <2>3. /\ {realm, seq, base, accounted, dropped, gen, cleared} \subseteq Nat
        /\ base <= seq /\ seq - base <= Capacity /\ read \subseteq Nat
    BY PageStreamAssumption DEF PageStreamAssumption
  <2> QED
    BY <2>1, <2>2, <2>3 DEF TypeOK
<1>2. Marks /\ Past /\ CallInOrder
  BY DEF Marks, Past, CallInOrder
<1>3. CursorsSkipNothing /\ SkipsNothing(call.after)
  BY DEF CursorsSkipNothing, SkipsNothing
<1>4. NeverUnderstates
  <2>1. Unread = 1 .. 0
    BY DEF Unread
  <2> QED
    BY <2>1, FS_Interval DEF NeverUnderstates
<1> QED
  BY <1>1, <1>2, <1>3, <1>4 DEF StreamInv

(* Every step keeps the marks, cursors and the count in order.             *)
LEMMA StepInv == StreamInv /\ [Next]_vars => StreamInv'
<1> SUFFICES ASSUME StreamInv, [Next]_vars PROVE StreamInv'
  OBVIOUS
<1> USE DEF page, feeder, history
<1>t. TypeOK /\ Marks /\ Past /\ CallInOrder
  BY DEF StreamInv
<1>a. /\ Capacity \in Nat \ {0} /\ Limit \in Nat \ {0}
      /\ SkipsNothing(ack) /\ SkipsNothing(mcp) /\ SkipsNothing(call.after)
  BY PageStreamAssumption DEF PageStreamAssumption, StreamInv, CursorsSkipNothing
<1>1. CASE Push
  <2> USE <1>1 DEF Push
  <2>1. TypeOK'
    BY <1>t, <1>a DEF TypeOK, Cursor, Call
  <2>2. Marks' /\ Past' /\ CallInOrder'
    BY <1>t, <1>a DEF TypeOK, Marks, Past, CallInOrder, Cursor, Call
  <2>3. CursorsSkipNothing' /\ SkipsNothing(call.after)'
    BY <1>t, <1>a DEF TypeOK, CursorsSkipNothing, SkipsNothing, Cursor, Call
  <2>4. NeverUnderstates'
    BY ReadingMissesNothing
  <2> QED
    BY <2>1, <2>2, <2>3, <2>4 DEF StreamInv
<1>2. CASE ClearHookedCalls
  <2> USE <1>2 DEF ClearHookedCalls
  <2>1. TypeOK'
    BY <1>t, <1>a DEF TypeOK, Cursor, Call
  <2>2. Marks' /\ Past' /\ CallInOrder'
    BY <1>t, <1>a DEF TypeOK, Marks, Past, CallInOrder, Cursor, Call
  <2>3. CursorsSkipNothing' /\ SkipsNothing(call.after)'
    BY <1>t, <1>a DEF TypeOK, CursorsSkipNothing, SkipsNothing, Cursor, Call
  <2>4. NeverUnderstates'
    <3>1. Unread' = {}
      BY <1>t DEF Unread, TypeOK
    <3> QED
      BY <3>1, FS_EmptySet DEF NeverUnderstates
  <2> QED
    BY <2>1, <2>2, <2>3, <2>4 DEF StreamInv
<1>3. CASE Reload
  <2> USE <1>3 DEF Reload
  <2>1. TypeOK'
    <3>1. (foreign \in BOOLEAN)'
      OBVIOUS
    <3> QED
      BY <1>t, <1>a, <3>1 DEF TypeOK
  <2>2. Marks' /\ Past' /\ CallInOrder'
    BY <1>t, <1>a DEF TypeOK, Marks, Past, CallInOrder, Cursor, Call
  <2>3. CursorsSkipNothing' /\ SkipsNothing(call.after)'
    BY <1>t, <1>a DEF TypeOK, Past, CursorsSkipNothing, SkipsNothing, Cursor, Call
  <2>4. NeverUnderstates'
    <3>1. Unread' = {}
      BY DEF Unread
    <3> QED
      BY <3>1, FS_EmptySet DEF NeverUnderstates
  <2> QED
    BY <2>1, <2>2, <2>3, <2>4 DEF StreamInv
<1>4. CASE Ask
  <2> USE <1>4 DEF Ask, NoCall
  <2>1. TypeOK'
    BY <1>t DEF TypeOK, Cursor, Call
  <2>2. Marks' /\ Past' /\ CallInOrder'
    BY <1>t DEF TypeOK, Marks, Past, CallInOrder, Cursor, Call
  <2>3. CursorsSkipNothing' /\ SkipsNothing(call.after)'
    BY <1>t, <1>a DEF TypeOK, CursorsSkipNothing, SkipsNothing, Cursor, Call
  <2>4. NeverUnderstates'
    BY ReadingMissesNothing
  <2> QED
    BY <2>1, <2>2, <2>3, <2>4 DEF StreamInv
<1>5. CASE Answer
  <2> USE <1>5 DEF Answer
  <2>0. /\ Account(call.after) /\ call.after \in Cursor
        /\ accounted' = Later(Floor(call.after.at), base)
        /\ UNCHANGED <<realm, seq, base, ack, gen, mcp, read, cleared>>
    BY <1>t DEF Account, TypeOK, Call
  <2>1. TypeOK'
    <3>1. (foreign \in BOOLEAN)'
      BY DEF Account
    <3>2. /\ dropped' \in Nat /\ accounted' \in Nat
          /\ PageLo(call.after.at) \in Nat /\ PageHi(call.after.at) \in Nat
          /\ NextSeq(call.after.at) \in Nat
      BY <1>t, <1>a DEF TypeOK, Cursor, Call, Account, Floor, PageLo, PageHi, NextSeq
    <3>3. (call \in Call)'
      BY <1>t, <3>2 DEF TypeOK, Call
    <3> QED
      BY <1>t, <2>0, <3>1, <3>2, <3>3 DEF TypeOK
  <2>2. Marks' /\ Past' /\ CallInOrder'
    BY <1>t, <1>a, <2>0 DEF TypeOK, Marks, Past, CallInOrder, Cursor, Call,
                            Floor, PageLo, PageHi, NextSeq
  <2>3. CursorsSkipNothing' /\ SkipsNothing(call.after)'
    BY <1>t, <1>a, <2>0 DEF TypeOK, CursorsSkipNothing, SkipsNothing, Cursor, Call, Floor
  <2>4. NeverUnderstates'
    BY <1>a, <2>0, AccountKeepsCount
  <2> QED
    BY <2>1, <2>2, <2>3, <2>4 DEF StreamInv
<1>6. CASE Abandon
  <2> USE <1>6 DEF Abandon, NoCall
  <2>1. TypeOK'
    BY <1>t DEF TypeOK, Cursor, Call
  <2>2. Marks' /\ Past' /\ CallInOrder'
    BY <1>t DEF TypeOK, Marks, Past, CallInOrder, Cursor, Call
  <2>3. CursorsSkipNothing' /\ SkipsNothing(call.after)'
    BY <1>t, <1>a DEF TypeOK, CursorsSkipNothing, SkipsNothing, Cursor, Call
  <2>4. NeverUnderstates'
    BY ReadingMissesNothing
  <2> QED
    BY <2>1, <2>2, <2>3, <2>4 DEF StreamInv
<1>7. CASE Ingest
  <2> USE <1>7 DEF Ingest
  <2>1. TypeOK'
    BY <1>t DEF TypeOK, Cursor, Call
  <2>2. Marks' /\ Past' /\ CallInOrder'
    BY <1>t DEF TypeOK, Marks, Past, CallInOrder, Cursor, Call
  <2>3. CursorsSkipNothing' /\ SkipsNothing(call.after)'
    BY <1>t, <1>a DEF TypeOK, CursorsSkipNothing, SkipsNothing, Cursor, Call
  <2>4. NeverUnderstates'
    BY ReadingMissesNothing
  <2> QED
    BY <2>1, <2>2, <2>3, <2>4 DEF StreamInv
<1>8. CASE WriteBack
  <2> USE <1>8 DEF WriteBack, NoCall
  <2>1. TypeOK'
    BY <1>t DEF TypeOK, Cursor, Call
  <2>2. Marks' /\ Past' /\ CallInOrder'
    BY <1>t DEF TypeOK, Marks, Past, CallInOrder, Cursor, Call
  <2>3. SkipsNothing(ack)'
    <3>1. CASE call.gen = gen /\ call.next > ack.at
      <4>1. call.hi > call.lo /\ call.next = call.hi
        BY <1>t, <3>1 DEF TypeOK, CallInOrder, Cursor, Call
      <4>2. call.realm = realm =>
              /\ call.lo <= accounted /\ call.hi <= seq
              /\ call.lo + 1 .. call.hi \subseteq read
        BY <1>t, <4>1 DEF CallInOrder
      <4>3. ack'.at = call.hi /\ ack'.realm = call.realm
        BY <3>1, <4>1
      <4>4. \A s \in 1 .. call.hi : s <= call.lo \/ s \in call.lo + 1 .. call.hi
        BY <1>t DEF TypeOK, Call
      <4>5. \A s \in 1 .. call.hi : s <= call.lo /\ call.lo <= accounted => s <= accounted
        BY <1>t DEF TypeOK, Call
      <4> QED
        BY <4>2, <4>3, <4>4, <4>5 DEF SkipsNothing
    <3>2. CASE ~(call.gen = gen /\ call.next > ack.at)
      BY <1>a, <3>2 DEF SkipsNothing
    <3> QED
      BY <3>1, <3>2
  <2>4. SkipsNothing(mcp)' /\ SkipsNothing(call.after)'
    BY <1>a DEF SkipsNothing
  <2>5. NeverUnderstates'
    BY ReadingMissesNothing
  <2> QED
    BY <2>1, <2>2, <2>3, <2>4, <2>5 DEF StreamInv, CursorsSkipNothing
<1>9. CASE ResetAck
  <2> USE <1>9 DEF ResetAck
  <2>1. TypeOK'
    BY <1>t DEF TypeOK, Cursor, Call
  <2>2. Marks' /\ Past' /\ CallInOrder'
    BY <1>t DEF TypeOK, Marks, Past, CallInOrder, Cursor, Call
  <2>3. CursorsSkipNothing' /\ SkipsNothing(call.after)'
    BY <1>t, <1>a DEF TypeOK, CursorsSkipNothing, SkipsNothing, Cursor, Call
  <2>4. NeverUnderstates'
    BY ReadingMissesNothing
  <2> QED
    BY <2>1, <2>2, <2>3, <2>4 DEF StreamInv
<1>10. CASE Clear
  <2> USE <1>10 DEF Clear
  <2>1. TypeOK'
    BY <1>t DEF TypeOK, Cursor, Call
  <2>2. Marks' /\ Past' /\ CallInOrder'
    BY <1>t DEF TypeOK, Marks, Past, CallInOrder, Cursor, Call
  <2>3. CursorsSkipNothing' /\ SkipsNothing(call.after)'
    BY <1>t, <1>a DEF TypeOK, CursorsSkipNothing, SkipsNothing, Cursor, Call
  <2>4. NeverUnderstates'
    BY ReadingMissesNothing
  <2> QED
    BY <2>1, <2>2, <2>3, <2>4 DEF StreamInv
<1>11. CASE McpReads
  <2> DEFINE zero == [at |-> 0, realm |-> 0]
  <2>1. PICK c \in {mcp, zero} : McpHookDrain(c)
    BY <1>11 DEF McpReads
  <2>2. c \in Cursor /\ SkipsNothing(c) /\ c.realm <= realm
    BY <1>t, <1>a DEF TypeOK, Past, SkipsNothing, Cursor
  <2> HIDE DEF zero
  <2>3. /\ Account(c)
        /\ accounted' = Later(Floor(c.at), base)
        /\ read' = read \cup (PageLo(c.at) + 1 .. PageHi(c.at))
        /\ mcp' = [at |-> NextSeq(c.at),
                   realm |-> IF PageHi(c.at) > PageLo(c.at) THEN realm ELSE c.realm]
        /\ UNCHANGED <<realm, seq, base, ack, gen, call, cleared>>
    BY <2>1 DEF McpHookDrain, Account
  <2>4. TypeOK'
    <3>1. (foreign \in BOOLEAN)'
      BY <2>3 DEF Account
    <3>2. /\ dropped' \in Nat /\ accounted' \in Nat
          /\ PageLo(c.at) \in Nat /\ PageHi(c.at) \in Nat /\ NextSeq(c.at) \in Nat
      BY <1>t, <1>a, <2>2, <2>3 DEF TypeOK, Cursor, Account, Floor, PageLo, PageHi, NextSeq
    <3>3. (mcp \in Cursor)'
      BY <1>t, <2>2, <2>3, <3>2 DEF TypeOK, Cursor
    <3>4. (read \subseteq Nat)'
      <4>1. PageLo(c.at) + 1 .. PageHi(c.at) \subseteq Nat
        BY <3>2
      <4>2. read \subseteq Nat
        BY <1>t DEF TypeOK
      <4> QED
        BY <2>3, <4>1, <4>2
    <3> QED
      BY <1>t, <2>3, <3>1, <3>2, <3>3, <3>4 DEF TypeOK
  <2>5. Marks' /\ Past' /\ CallInOrder'
    BY <1>t, <2>2, <2>3 DEF TypeOK, Marks, Past, CallInOrder, Cursor, Call, Floor
  <2>6. SkipsNothing(mcp)'
    <3>0. read \subseteq read' /\ cleared' = cleared /\ seq' = seq /\ realm' = realm
      BY <2>3
    <3>1. CASE PageHi(c.at) > PageLo(c.at)
      <4>1. mcp'.at = PageHi(c.at) /\ PageHi(c.at) <= seq /\ PageLo(c.at) <= accounted'
        BY <1>t, <1>a, <2>2, <2>3, <3>1 DEF TypeOK, Cursor, Floor, PageLo, PageHi, NextSeq
      <4>2. PageLo(c.at) \in Nat /\ PageHi(c.at) \in Nat /\ accounted' \in Nat
        BY <1>t, <1>a, <2>2, <2>3, <2>4 DEF TypeOK, Cursor, PageLo, PageHi
      <4>3. \A s \in 1 .. PageHi(c.at) :
              s <= accounted' \/ s \in PageLo(c.at) + 1 .. PageHi(c.at)
        BY <4>1, <4>2
      <4> QED
        BY <2>3, <4>1, <4>3 DEF SkipsNothing
    <3>2. CASE ~(PageHi(c.at) > PageLo(c.at))
      <4>1. mcp' = [at |-> c.at, realm |-> c.realm]
        BY <2>3, <3>2 DEF NextSeq
      <4>2. accounted <= accounted'
        BY <1>t, <2>2, <2>3 DEF TypeOK, Cursor, Floor
      <4>3. mcp'.at = c.at /\ mcp'.realm = c.realm /\ accounted \in Nat /\ accounted' \in Nat
        BY <1>t, <2>4, <4>1 DEF TypeOK
      <4>4. \A s \in 1 .. c.at : s <= accounted => s <= accounted'
        BY <2>2, <4>2, <4>3 DEF Cursor
      <4> QED
        BY <2>2, <3>0, <4>3, <4>4 DEF SkipsNothing
    <3> QED
      BY <3>1, <3>2
  <2>7. SkipsNothing(ack)' /\ SkipsNothing(call.after)'
    BY <1>t, <1>a, <2>2, <2>3 DEF TypeOK, SkipsNothing, Cursor, Call, Floor
  <2>8. NeverUnderstates'
    BY <2>2, <2>3, AccountKeepsCount
  <2> QED
    BY <2>4, <2>5, <2>6, <2>7, <2>8 DEF StreamInv, CursorsSkipNothing
<1>12. CASE McpLoses
  <2> DEFINE zero == [at |-> 0, realm |-> 0]
  <2>1. PICK c \in {mcp, zero} : McpHookDrainLost(c)
    BY <1>12 DEF McpLoses
  <2>2. c \in Cursor /\ SkipsNothing(c)
    BY <1>t, <1>a DEF TypeOK, SkipsNothing, Cursor
  <2> HIDE DEF zero
  <2>3. /\ Account(c) /\ accounted' = Later(Floor(c.at), base)
        /\ UNCHANGED <<realm, seq, base, ack, gen, call, mcp, read, cleared>>
    BY <2>1 DEF McpHookDrainLost, Account
  <2>4. TypeOK'
    <3>1. (foreign \in BOOLEAN)'
      BY <2>3 DEF Account
    <3>2. dropped' \in Nat /\ accounted' \in Nat
      BY <1>t, <2>2, <2>3 DEF TypeOK, Cursor, Account, Floor
    <3> QED
      BY <1>t, <2>3, <3>1, <3>2 DEF TypeOK
  <2>5. Marks' /\ Past' /\ CallInOrder'
    BY <1>t, <2>2, <2>3 DEF TypeOK, Marks, Past, CallInOrder, Cursor, Call, Floor
  <2>6. CursorsSkipNothing' /\ SkipsNothing(call.after)'
    BY <1>t, <1>a, <2>2, <2>3 DEF TypeOK, CursorsSkipNothing, SkipsNothing, Cursor, Call, Floor
  <2>7. NeverUnderstates'
    BY <2>2, <2>3, AccountKeepsCount
  <2> QED
    BY <2>4, <2>5, <2>6, <2>7 DEF StreamInv
<1>13. CASE UNCHANGED vars
  BY <1>13 DEF vars, StreamInv, TypeOK, Marks, Past, CallInOrder, CursorsSkipNothing,
               SkipsNothing, NeverUnderstates, Unread
<1> QED
  BY <1>1, <1>2, <1>3, <1>4, <1>5, <1>6, <1>7, <1>8, <1>9, <1>10, <1>11, <1>12, <1>13
  DEF Next

(* The strengthened invariant holds throughout.                            *)
THEOREM StreamInvariant == Spec => []StreamInv
  BY InitInv, StepInv, PTL DEF Spec

(* The state of the page, the feeder and the agent stays in its types: the *)
(* ring never holds more than Capacity records.                            *)
THEOREM TypeCorrect == Spec => []TypeOK
  BY StreamInvariant, PTL DEF StreamInv

(* Whatever the capacity and the interleaving, the drop count the panel    *)
(* shows is at least the number of accounted records nobody ever read.     *)
THEOREM DropCountNeverUnderstates == Spec => []NeverUnderstates
  BY StreamInvariant, PTL DEF StreamInv

(* Neither the feeder nor the MCP agent ever moves its cursor past a       *)
(* record that is neither read, counted as dropped nor cleared.            *)
THEOREM NoSilentSkip == Spec => []CursorsSkipNothing
  BY StreamInvariant, PTL DEF StreamInv

(* Whatever the page evicts, clears and rebuilds, for rings and records of  *)
(* any size: the drop counts and the cursors a reader is given are true     *)
(* (wxapi.js, drain).                                                       *)
THEOREM StreamStaysHonest == Spec => []StreamIsHonest
<1>1. NeverUnderstates /\ CursorsSkipNothing => StreamIsHonest
  BY DEF StreamIsHonest
<1> QED
  BY <1>1, DropCountNeverUnderstates, NoSilentSkip, PTL

HIDE DEF Later, Sooner

=============================================================================
