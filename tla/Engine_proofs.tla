------------------------ MODULE Engine_proofs ------------------------
(* Proofs about the engine of the shell, for any number of callers, realms  *)
(* and lines: its wait group (FeederLifecycle), its log (RuntimeLog), the   *)
(* page session (EngineSession) and the navigator (Navigator); and about    *)
(* its debugger: the pause policy of the bridge (PausePolicy) and the tools *)
(* the agents debug with (DebugTools).                                      *)
EXTENDS FeederLifecycle, RuntimeLog, EngineSession, Navigator, PausePolicy,
        DebugTools, SequenceTheorems, FiniteSetTheorems, WellFoundedInduction,
        TLAPS

-----------------------------------------------------------------------------
(* The life of the hook feeder (FeederLifecycle)                            *)

(* Contexts are never reused: the one an installation holds is neither     *)
(* running nor held by another.                                            *)
Fresh ==
    /\ loops \subseteq 1 .. created
    /\ \A c \in Installing : own[c] \in (1 .. created) \ loops
    /\ \A c, d \in Installing : own[c] = own[d] => c = d

(* A start that failed still knows the context it has to cancel.           *)
FailedStartsHold == \A c \in Callers : pc[c] = "failing" => own[c] # 0

LifecycleInv == TypeOK /\ Fresh /\ FailedStartsHold /\ WaitGroupBalanced

-----------------------------------------------------------------------------
(* The two sets the wait group counts are finite.                          *)
LEMMA CountedAreFinite ==
    ASSUME TypeOK
    PROVE  IsFiniteSet(loops) /\ IsFiniteSet(Installing)
<1>1. IsFiniteSet(Contexts)
    BY FeederLifecycleAssumption, FS_Interval DEF Contexts
<1>2. loops \subseteq Contexts /\ Installing \subseteq Callers
    BY DEF TypeOK, Installing
<1> QED
    BY <1>1, <1>2, FS_Subset, FeederLifecycleAssumption

(* The invariant holds before the first Start.                             *)
LEMMA InitInv == Init => LifecycleInv
<1> SUFFICES ASSUME Init PROVE LifecycleInv
    OBVIOUS
<1>1. Installing = {} /\ loops = {}
    BY DEF Init, Installing
<1>2. TypeOK
    <2>1. 0 \in 0 .. MaxStarts
        BY FeederLifecycleAssumption
    <2> QED
        BY <2>1 DEF Init, TypeOK
<1>3. Fresh
    BY <1>1 DEF Fresh
<1>4. WaitGroupBalanced
    BY <1>1, FS_EmptySet DEF WaitGroupBalanced, Init
<1> QED
    BY <1>2, <1>3, <1>4 DEF LifecycleInv, FailedStartsHold, Init

-----------------------------------------------------------------------------
(* Every step of a caller or a loop keeps the invariant.                   *)
LEMMA StepInv == LifecycleInv /\ [Next]_vars => LifecycleInv'
<1> SUFFICES ASSUME LifecycleInv, [Next]_vars PROVE LifecycleInv'
    OBVIOUS
<1> USE FeederLifecycleAssumption
<1>t. TypeOK /\ Fresh /\ FailedStartsHold /\ WaitGroupBalanced
    BY DEF LifecycleInv
<1>f. IsFiniteSet(loops) /\ IsFiniteSet(Installing)
    BY <1>t, CountedAreFinite
<1>n. Cardinality(loops) \in Nat /\ Cardinality(Installing) \in Nat /\ wg \in Nat /\ created \in Nat
    BY <1>t, <1>f, FS_CardinalityType DEF TypeOK
<1>1. ASSUME NEW c \in Callers, StartBegin(c) PROVE LifecycleInv'
    <2>1. c \notin Installing /\ Installing' = Installing \cup {c}
        BY <1>t, <1>1 DEF StartBegin, Installing, TypeOK
    <2>2. Cardinality(Installing') = Cardinality(Installing) + 1
        BY <1>f, <2>1, FS_AddElement
    <2>3. TypeOK'
        BY <1>t, <1>1 DEF StartBegin, TypeOK, Contexts
    <2>4. Fresh'
      BY <1>n, <1>t, <1>1, <2>1 DEF StartBegin, TypeOK, Installing, Fresh
    <2>5. WaitGroupBalanced'
        BY <1>t, <1>n, <1>1, <2>2 DEF StartBegin, WaitGroupBalanced
    <2>6. FailedStartsHold'
        BY <1>t, <1>1 DEF StartBegin, FailedStartsHold, TypeOK
    <2> QED
        BY <2>3, <2>4, <2>5, <2>6 DEF LifecycleInv
<1>2. ASSUME NEW c \in Callers, pc[c] = "installing", pc'[c] # "installing",
             \A d \in Callers \ {c} : pc'[d] = pc[d] /\ own'[d] = own[d]
      PROVE  Installing' = Installing \ {c} /\ Cardinality(Installing') = Cardinality(Installing) - 1
    <2>1. c \in Installing /\ Installing' = Installing \ {c}
        BY <1>2 DEF Installing
    <2> QED
        BY <1>f, <2>1, FS_RemoveElement
<1>3. ASSUME NEW c \in Callers, StartLoop(c) PROVE LifecycleInv'
    <2>1. Installing' = Installing \ {c} /\ Cardinality(Installing') = Cardinality(Installing) - 1
        BY <1>t, <1>2, <1>3 DEF StartLoop, TypeOK
    <2>2. c \in Installing /\ own[c] \in 1 .. created /\ own[c] \notin loops
        BY <1>t, <1>3 DEF StartLoop, Fresh, Installing
    <2>3. Cardinality(loops') = Cardinality(loops) + 1
        BY <1>f, <1>3, <2>2, FS_AddElement DEF StartLoop
    <2>4. TypeOK'
        <3>1. own[c] \in Contexts
            BY <1>t, <1>n, <2>2 DEF TypeOK, Contexts
        <3>2. loops' \subseteq Contexts
            BY <1>t, <1>3, <3>1 DEF StartLoop, TypeOK
        <3>3. pc' \in [Callers -> {"idle", "installing", "failing", "waiting"}]
              /\ own' \in [Callers -> 0 .. MaxStarts]
            BY <1>t, <1>3 DEF StartLoop, TypeOK
        <3> QED
            BY <1>t, <1>3, <3>2, <3>3 DEF StartLoop, TypeOK, Contexts
    <2>5. \A d \in Installing' : d \in Installing /\ d # c /\ own'[d] = own[d]
        BY <1>t, <1>3, <2>1 DEF StartLoop, TypeOK, Installing
    <2>6. Fresh'
        <3>1. loops' \subseteq 1 .. created'
            BY <1>t, <1>3, <2>2 DEF StartLoop, Fresh
        <3>2. ASSUME NEW d \in Installing' PROVE own'[d] \in (1 .. created') \ loops'
          BY <1>t, <1>3, <2>2, <2>5, <3>2 DEF Fresh, StartLoop
        <3>3. \A d, e \in Installing' : own'[d] = own'[e] => d = e
            BY <1>t, <2>5 DEF Fresh
        <3> QED
            BY <3>1, <3>2, <3>3 DEF Fresh
    <2>7. WaitGroupBalanced'
        BY <1>t, <1>n, <1>3, <2>1, <2>3 DEF StartLoop, WaitGroupBalanced
    <2>8. FailedStartsHold'
        BY <1>t, <1>3 DEF StartLoop, FailedStartsHold, TypeOK
    <2> QED
        BY <2>4, <2>6, <2>7, <2>8 DEF LifecycleInv
<1>4. ASSUME NEW c \in Callers, StartFails(c) PROVE LifecycleInv'
    <2>1. Installing' = Installing \ {c} /\ Cardinality(Installing') = Cardinality(Installing) - 1
        BY <1>t, <1>2, <1>4 DEF StartFails, TypeOK
    <2>2. Cardinality(Installing') \in Nat
      BY <1>f, <2>1, FS_Subset, FS_CardinalityType
    <2>3. wg' \in Nat
        BY <1>t, <1>n, <1>4, <2>1, <2>2 DEF StartFails, WaitGroupBalanced
    <2>4. TypeOK'
        BY <1>t, <1>4, <2>3 DEF StartFails, TypeOK
    <2>5. Fresh'
        BY <1>t, <1>4, <2>1 DEF StartFails, Fresh
    <2>6. WaitGroupBalanced'
        BY <1>t, <1>n, <1>4, <2>1 DEF StartFails, WaitGroupBalanced
    <2>7. own[c] # 0
        BY <1>t, <1>n, <1>4 DEF StartFails, Fresh, Installing
    <2>8. FailedStartsHold'
        BY <1>t, <1>4, <2>7 DEF StartFails, FailedStartsHold, TypeOK
    <2> QED
        BY <2>4, <2>5, <2>6, <2>8 DEF LifecycleInv
<1>5. ASSUME Installing' = Installing, \A d \in Installing : own'[d] = own[d],
             TypeOK', FailedStartsHold', UNCHANGED <<wg, created, loops>>
      PROVE  LifecycleInv'
    BY <1>t, <1>5 DEF LifecycleInv, Fresh, WaitGroupBalanced
<1>6. ASSUME NEW c \in Callers, StartUndo(c) PROVE LifecycleInv'
    <2>1. Installing' = Installing /\ \A d \in Installing : own'[d] = own[d]
        BY <1>t, <1>6 DEF StartUndo, Installing, TypeOK
    <2>2. TypeOK'
        <3>1. own[c] \in Contexts
            BY <1>t, <1>6 DEF StartUndo, FailedStartsHold, TypeOK, Contexts
        <3>2. cancelled' \subseteq Contexts
            BY <1>t, <1>6, <3>1 DEF StartUndo, TypeOK
        <3>3. pc' \in [Callers -> {"idle", "installing", "failing", "waiting"}]
              /\ own' \in [Callers -> 0 .. MaxStarts]
            BY <1>t, <1>6 DEF StartUndo, TypeOK
        <3> QED
            BY <1>t, <1>6, <3>2, <3>3 DEF StartUndo, TypeOK, Contexts
    <2>3. FailedStartsHold'
        BY <1>t, <1>6 DEF StartUndo, FailedStartsHold, TypeOK
    <2> QED
        BY <1>5, <1>6, <2>1, <2>2, <2>3 DEF StartUndo
<1>7. ASSUME NEW c \in Callers, StopBegin(c) PROVE LifecycleInv'
    <2>1. Installing' = Installing /\ \A d \in Installing : own'[d] = own[d]
        BY <1>t, <1>7 DEF StopBegin, Installing, TypeOK
    <2>2. TypeOK'
        <3>1. cancel \in 0 .. MaxStarts /\ {cancel} \ {0} \subseteq Contexts
            BY <1>t DEF TypeOK, Contexts
        <3>2. cancelled' \subseteq Contexts
            BY <1>t, <1>7, <3>1 DEF StopBegin, TypeOK
        <3>3. pc' \in [Callers -> {"idle", "installing", "failing", "waiting"}]
              /\ own' \in [Callers -> 0 .. MaxStarts]
            BY <1>t, <1>7, <3>1 DEF StopBegin, TypeOK
        <3>4. running' \in BOOLEAN
            BY <1>7, Zenon DEF StopBegin
        <3>5. cancel' \in 0 .. MaxStarts
            BY <1>7 DEF StopBegin
        <3> QED
            BY <1>t, <1>7, <3>2, <3>3, <3>4, <3>5 DEF StopBegin, TypeOK, Contexts
    <2>3. FailedStartsHold'
        BY <1>t, <1>7 DEF StopBegin, FailedStartsHold, TypeOK
    <2> QED
        BY <1>5, <1>7, <2>1, <2>2, <2>3 DEF StopBegin
<1>8. ASSUME NEW c \in Callers, StopReturn(c) PROVE LifecycleInv'
  BY <1>t, <1>5, <1>8 DEF StopReturn, Installing, TypeOK, Contexts, FailedStartsHold
<1>9. ASSUME NEW t \in Contexts, LoopEnd(t) PROVE LifecycleInv'
    <2>1. t \in loops /\ loops' = loops \ {t} /\ wg' = wg - 1
          /\ UNCHANGED <<running, cancel, created, cancelled, pc, own>>
        BY <1>9 DEF LoopEnd
    <2>2. Cardinality(loops') = Cardinality(loops) - 1 /\ Cardinality(loops') \in Nat
      BY <1>f, <2>1, FS_Subset, FS_RemoveElement, FS_CardinalityType
    <2>3. Installing' = Installing
        BY <2>1 DEF Installing
    <2>4. WaitGroupBalanced' /\ wg' \in Nat
        BY <1>t, <1>n, <2>1, <2>2, <2>3 DEF WaitGroupBalanced
    <2>5. TypeOK'
        BY <1>t, <2>1, <2>4 DEF TypeOK, Contexts
    <2>6. Fresh'
        BY <1>t, <2>1, <2>3 DEF Fresh
    <2>7. FailedStartsHold'
        BY <1>t, <2>1 DEF FailedStartsHold
    <2> QED
        BY <2>4, <2>5, <2>6, <2>7 DEF LifecycleInv
<1>10. CASE UNCHANGED vars
    BY <1>t, <1>10 DEF vars, LifecycleInv, TypeOK, Contexts, Fresh, FailedStartsHold,
                      WaitGroupBalanced, Installing
<1> QED
    BY <1>1, <1>3, <1>4, <1>6, <1>7, <1>8, <1>9, <1>10 DEF Next

-----------------------------------------------------------------------------
(* The invariant holds throughout.                                         *)
THEOREM LifecycleInvariant == Spec => []LifecycleInv
BY InitInv, StepInv, PTL DEF Spec

(* Every variable keeps its type; the wait group never goes negative,      *)
(* which would be a panic in WaitGroup.Done.                               *)
THEOREM LifecycleTypeCorrect == Spec => []TypeOK
BY LifecycleInvariant, PTL DEF LifecycleInv

(* The wait group counts exactly the loops that run and the installations  *)
(* that may still become one: Start's Add and Done and the loop's Done     *)
(* (hookfeeder.go:267-290) balance however the calls overlap.              *)
THEOREM WaitGroupIsBalanced == Spec => []WaitGroupBalanced
BY LifecycleInvariant, PTL DEF LifecycleInv

(* Stop returns only when the loop it cancelled has ended and no           *)
(* installation is left that could launch it (hookfeeder.go:308-310).      *)
THEOREM StopKeepsItsPromise == Spec => StopMeansStopped
<1>1. LifecycleInv /\ [Next]_vars => [\A c \in Callers : ReturnsAfterTheEnd(c)]_vars
    <2> SUFFICES ASSUME LifecycleInv, Next, NEW c \in Callers,
                        pc[c] = "waiting", pc'[c] = "idle"
                 PROVE  /\ own[c] \notin loops
                        /\ \A d \in Callers : pc[d] = "installing" => own[d] # own[c]
        BY DEF ReturnsAfterTheEnd
    <2>t. TypeOK /\ WaitGroupBalanced
        BY DEF LifecycleInv
    <2>1. wg = 0
        BY <2>t DEF Next, StartBegin, StartLoop, StartFails, StartUndo, StopBegin, StopReturn,
                    LoopEnd, TypeOK
    <2>2. IsFiniteSet(loops) /\ IsFiniteSet(Installing)
        BY <2>t, CountedAreFinite
    <2>3. Cardinality(loops) = 0 /\ Cardinality(Installing) = 0
      BY <2>t, <2>1, <2>2, FS_CardinalityType DEF WaitGroupBalanced
    <2>4. loops = {} /\ Installing = {}
        BY <2>2, <2>3, FS_EmptySet
    <2> QED
        BY <2>4 DEF Installing
<1> QED
    BY <1>1, LifecycleInvariant, PTL DEF Spec, StopMeansStopped

-----------------------------------------------------------------------------
(* The page session (EngineSession)                                         *)

JobPhases == {"none", "sleep", "install", "ack", "reset", "scripts", "mark", "ended"}
InjectJobs == [pc : JobPhases, todo : SUBSET Scripts, script : Scripts \cup {NoScript}, ran : Nat]
Statuses == [miniapp : BOOLEAN, gen : Nat, numbering : Nat]

SessionShapes ==
    /\ engine \in {"running", "broken", "exited"}
    /\ realm \in Nat /\ realms \in Nat /\ gen \in Nat /\ numbering \in Nat
    /\ realm <= realms
    /\ capture \in [running : BOOLEAN, call : {"none", "start", "stop"}]
    /\ last \in Statuses
    /\ asked.pc \in {"idle", "answered"} /\ asked.status \in Statuses
    /\ jobs \in [Realms -> InjectJobs]
    /\ inject.ran \in Nat

\* A generation is one of the numbering it came with, and the page has one
\* exactly while it is there.
TrueStatus(status) ==
    /\ status.numbering <= numbering
    /\ status.numbering = numbering => status.gen <= gen
    /\ status.miniapp <=> status.gen > 0
Numbered ==
    /\ engine # "running" => realm = 0
    /\ engine = "running" => (realm = 0 <=> gen = 0)
    /\ TrueStatus(last) /\ TrueStatus(asked.status)

\* A script whose answer is on its way ran in the realm of its time.
RanIn(script, ran) == ran <= realms /\ (ran = realm /\ realm # 0 => script \in page)
AnswersAreOfTheirRealm ==
    /\ \A r \in Realms : jobs[r].pc = "mark" => RanIn(jobs[r].script, jobs[r].ran)
    /\ inject # NoInject => RanIn(inject.script, inject.ran)

\* A start clears the cursor, which stays so until the feeder drains.
StartsClean ==
    /\ capture.call = "start" => capture.running /\ cursor = "zero"
    /\ capture.call = "stop" => ~ capture.running

Ahead(phases) == \E r \in Realms : jobs[r].pc \in phases
Capturing == capture.running /\ capture.call = "none"

\* What the poller knows of the realm of the moment has been done for it, or
\* is still ahead of an injection.
Known == realm # 0 /\ last.miniapp /\ last.gen = gen /\ last.numbering = numbering /\ ~ unseen
HookFollows == hooked \/ refused = realm \/ Ahead({"sleep", "install"})
CursorFollows == cursor # "earlier" \/ Ahead({"sleep", "install", "ack"})
RegistryFollows == registry \ overtaken \subseteq page \/ Ahead({"sleep", "install", "ack", "reset"})
FollowsTheRealm == Known => /\ Capturing => HookFollows /\ CursorFollows
                            /\ RegistryFollows

SessionInv == SessionShapes /\ Numbered /\ AnswersAreOfTheirRealm /\ StartsClean /\ FollowsTheRealm

-----------------------------------------------------------------------------
LEMMA JobPhaseSet ==
    ASSUME NEW j \in InjectJobs, NEW next \in JobPhases
    PROVE  /\ [j EXCEPT !.pc = next] \in InjectJobs
           /\ [j EXCEPT !.pc = next].pc = next
           /\ [j EXCEPT !.pc = next].script = j.script
           /\ [j EXCEPT !.pc = next].ran = j.ran
  BY DEF InjectJobs

LEMMA SessionInitially == SessionInit => SessionInv
<1> SUFFICES ASSUME SessionInit PROVE SessionInv
  OBVIOUS
<1>1. NoJob \in InjectJobs
  BY DEF NoJob, InjectJobs, JobPhases
<1>2. SessionShapes
  BY <1>1 DEF SessionInit, SessionShapes, Unseen, NoAnswer, NoInject, Statuses
<1> QED
  BY <1>2 DEF SessionInit, SessionInv, Numbered, TrueStatus, AnswersAreOfTheirRealm, StartsClean,
              FollowsTheRealm, Known, Unseen, NoInject, NoAnswer, NoJob

\* The page and the engine move: whatever the poller knew is out of date.
LEMMA EngineKeeps ==
    ASSUME SessionInv, EngineReplaced \/ EngineFails \/ NewRealm \/ EngineStop
    PROVE  SessionInv'
<1>1. UNCHANGED <<registry, inject, last, asked, jobs, refused, overtaken, unseen>>
  BY DEF EngineReplaced, EngineFails, NewRealm, EngineStop
<1>2. SessionShapes'
  <2>1. CASE EngineReplaced
    BY <1>1, <2>1 DEF EngineReplaced, SessionInv, SessionShapes
  <2>2. CASE EngineFails
    BY <1>1, <2>2 DEF EngineFails, RealmLost, SessionInv, SessionShapes
  <2>3. CASE NewRealm
    BY <1>1, <2>3 DEF NewRealm, SessionInv, SessionShapes
  <2>4. CASE EngineStop
    BY <1>1, <2>4 DEF EngineStop, RealmLost, SessionInv, SessionShapes
  <2> QED
    BY <2>1, <2>2, <2>3, <2>4
<1>3. Numbered' /\ ~ Known'
  BY <1>1, <1>2 DEF EngineReplaced, EngineFails, NewRealm, EngineStop, RealmLost, SessionInv, SessionShapes,
      Numbered, TrueStatus, Known, Statuses
<1>4. AnswersAreOfTheirRealm'
  <2>1. realms' \in Nat /\ realms' >= realms /\ realms \in Nat
    BY DEF EngineReplaced, EngineFails, NewRealm, EngineStop, RealmLost, SessionInv, SessionShapes
  <2>2. \/ realm' = 0
        \/ realm' = realm /\ page' = page
        \/ realm' = realms + 1 /\ realms' = realms + 1
    BY DEF EngineReplaced, EngineFails, NewRealm, EngineStop, RealmLost
  <2>3. ASSUME NEW script, NEW ran, ran \in Nat, RanIn(script, ran) PROVE RanIn(script, ran)'
    BY <2>1, <2>2, <2>3 DEF RanIn
  <2>4. \A r \in Realms : jobs[r].ran \in Nat
    BY DEF SessionInv, SessionShapes, InjectJobs
  <2>5. inject.ran \in Nat
    BY DEF SessionInv, SessionShapes
  <2> QED
    BY <1>1, <2>3, <2>4, <2>5 DEF SessionInv, AnswersAreOfTheirRealm, RanIn
<1>5. StartsClean'
  BY DEF EngineReplaced, EngineFails, NewRealm, EngineStop, RealmLost, SessionInv, SessionShapes, StartsClean
<1> QED
  BY <1>2, <1>3, <1>4, <1>5 DEF SessionInv, FollowsTheRealm

LEMMA PollAskKeeps ==
    ASSUME SessionInv, PollAsk \/ PollFails PROVE SessionInv'
<1>1. UNCHANGED <<engine, realm, realms, gen, numbering, hooked, page, capture, cursor, registry, inject,
                  jobs, refused, overtaken, unseen>>
  BY DEF PollAsk, PollFails, pageState
<1>2. /\ last' = last \/ last' = Unseen
      /\ \/ asked' = asked
         \/ asked' = NoAnswer
         \/ engine = "running" /\ \E seen \in BOOLEAN :
               /\ seen <=> realm # 0
               /\ asked' = [pc |-> "answered",
                            status |-> [miniapp |-> seen, gen |-> gen, numbering |-> numbering]]
  <2>1. CASE PollFails
    BY <2>1 DEF PollFails
  <2>2. CASE PollAsk /\ engine = "exited"
    BY <2>2 DEF PollAsk
  <2>3. CASE PollAsk /\ engine # "exited"
    <3>1. engine = "running" /\ last' = last
      BY <2>3 DEF PollAsk, SessionInv, SessionShapes
    <3>2. \E seen : /\ seen = (realm # 0)
                    /\ asked' = [pc |-> "answered",
                                 status |-> [miniapp |-> seen, gen |-> gen, numbering |-> numbering]]
      BY <2>3 DEF PollAsk
    <3> QED
      BY <3>1, <3>2
  <2> QED
    BY <2>1, <2>2, <2>3
<1>3. Unseen \in Statuses /\ NoAnswer.status \in Statuses /\ NoAnswer.pc = "idle"
      /\ (TrueStatus(Unseen))' /\ NoAnswer.status = Unseen
  BY <1>1 DEF Unseen, NoAnswer, Statuses, TrueStatus, SessionInv, SessionShapes
<1>4. last' \in Statuses /\ TrueStatus(last)'
  BY <1>1, <1>2, <1>3 DEF SessionInv, SessionShapes, Numbered, TrueStatus
<1>5. asked'.pc \in {"idle", "answered"} /\ asked'.status \in Statuses /\ TrueStatus(asked.status)'
  BY <1>1, <1>2, <1>3 DEF SessionInv, SessionShapes, Numbered, Statuses, TrueStatus
<1>6. Known' => Known
  BY <1>1, <1>2 DEF Known, Unseen
<1>7. FollowsTheRealm'
  BY <1>1, <1>6 DEF SessionInv, FollowsTheRealm, Capturing, HookFollows, CursorFollows, RegistryFollows, Ahead
<1> QED
  BY <1>1, <1>4, <1>5, <1>7 DEF SessionInv, SessionShapes, Numbered, AnswersAreOfTheirRealm, RanIn, StartsClean

LEMMA PollTakeKeeps ==
    ASSUME SessionInv, PollTake PROVE SessionInv'
<1>1. UNCHANGED <<engine, realm, realms, gen, numbering, hooked, page, capture, cursor, registry, inject,
                  refused, overtaken>> /\ last' = asked.status /\ asked' = NoAnswer
      /\ unseen' = Repeats(asked.status)
  BY DEF PollTake, pageState
<1>2. NoAnswer.pc = "idle" /\ NoAnswer.status \in Statuses /\ TrueStatus(NoAnswer.status)'
  BY <1>1 DEF Unseen, NoAnswer, Statuses, TrueStatus, SessionInv, SessionShapes
<1>3. Numbered'
  BY <1>1, <1>2 DEF SessionInv, Numbered, TrueStatus
<1>4. CASE ShouldInject(last, asked.status)
  <2>1. PICK r \in Realms : jobs[r].pc = "none" /\ jobs' = [jobs EXCEPT ![r].pc = "sleep"]
    BY <1>4 DEF PollTake
  <2>2. /\ jobs' \in [Realms -> InjectJobs] /\ jobs'[r].pc = "sleep"
        /\ \A q \in Realms \ {r} : jobs'[q] = jobs[q]
    <3>1. jobs \in [Realms -> InjectJobs] /\ "sleep" \in JobPhases
      BY DEF SessionInv, SessionShapes, JobPhases
    <3> QED
      BY <2>1, <3>1, JobPhaseSet
  <2>3. Ahead({"sleep", "install"})' /\ Ahead({"sleep", "install", "ack"})'
        /\ Ahead({"sleep", "install", "ack", "reset"})'
    BY <2>2 DEF Ahead
  <2>4. AnswersAreOfTheirRealm'
    BY <1>1, <2>2 DEF SessionInv, AnswersAreOfTheirRealm, RanIn
  <2>5. FollowsTheRealm'
    BY <2>3 DEF FollowsTheRealm, HookFollows, CursorFollows, RegistryFollows
  <2> QED
    BY <1>1, <1>2, <1>3, <2>2, <2>4, <2>5 DEF SessionInv, SessionShapes, StartsClean
<1>5. CASE ~ ShouldInject(last, asked.status)
  <2>1. UNCHANGED jobs
    BY <1>5 DEF PollTake
  <2>2. Known' => Known
    BY <1>1, <1>5 DEF Known, Repeats, ShouldInject, SessionInv, Numbered, TrueStatus
  <2>3. FollowsTheRealm'
    BY <1>1, <2>1, <2>2 DEF SessionInv, FollowsTheRealm, Capturing, HookFollows, CursorFollows,
       RegistryFollows, Ahead
  <2> QED
    BY <1>1, <1>2, <1>3, <2>1, <2>3 DEF SessionInv, SessionShapes, AnswersAreOfTheirRealm, RanIn, StartsClean
<1> QED
  BY <1>4, <1>5

-----------------------------------------------------------------------------
\* A step of one injection: what it had ahead is done, or still ahead.
JobGoes(r, next) ==
    /\ jobs' \in [Realms -> InjectJobs] /\ jobs'[r].pc = next
    /\ \A q \in Realms \ {r} : jobs'[q] = jobs[q]

LEMMA JobGoesOn ==
    ASSUME SessionInv, NEW r \in Realms, NEW next \in JobPhases, jobs' = [jobs EXCEPT ![r].pc = next]
    PROVE  JobGoes(r, next)
  BY JobPhaseSet DEF SessionInv, SessionShapes, JobGoes

LEMMA JobBecomes ==
    ASSUME SessionInv, NEW r \in Realms, NEW j \in InjectJobs, jobs' = [jobs EXCEPT ![r] = j]
    PROVE  JobGoes(r, j.pc) /\ jobs'[r] = j
  BY DEF SessionInv, SessionShapes, JobGoes

LEMMA StillAhead ==
    ASSUME NEW r \in Realms, NEW next, JobGoes(r, next), NEW phases,
           jobs[r].pc \in phases => next \in phases, Ahead(phases)
    PROVE  Ahead(phases)'
  BY DEF JobGoes, Ahead

LEMMA JobWakeKeeps ==
    ASSUME SessionInv, NEW r \in Realms, JobWake(r) PROVE SessionInv'
<1>1. UNCHANGED <<engine, realm, realms, gen, numbering, hooked, page, capture, cursor, registry, inject,
                  last, asked, refused, overtaken, unseen>>
  BY DEF JobWake, pageState
<1>2. PICK next \in {"install", "reset"} : jobs' = [jobs EXCEPT ![r].pc = next] /\ (Capturing => next = "install")
  BY DEF JobWake, Capturing
<1>3. JobGoes(r, next) /\ jobs[r].pc = "sleep"
  BY <1>2, JobGoesOn DEF JobPhases, JobWake
<1>4. FollowsTheRealm'
  BY <1>1, <1>2, <1>3, StillAhead DEF Capturing, Known, SessionInv, FollowsTheRealm, HookFollows,
     CursorFollows, RegistryFollows
<1>5. AnswersAreOfTheirRealm'
  BY <1>1, <1>2, <1>3 DEF JobGoes, SessionInv, AnswersAreOfTheirRealm, RanIn
<1> QED
  BY <1>1, <1>3, <1>4, <1>5 DEF JobGoes, SessionInv, SessionShapes, Numbered, TrueStatus, StartsClean

LEMMA JobInstallKeeps ==
    ASSUME SessionInv, NEW r \in Realms, JobInstall(r) PROVE SessionInv'
<1>1. UNCHANGED <<engine, realm, realms, gen, numbering, page, capture, cursor, registry, inject,
                  last, asked, overtaken, unseen>>
      /\ (hooked' \/ refused' = realm)
  BY DEF JobInstall
<1>2. JobGoes(r, "ack") /\ jobs[r].pc = "install"
  BY JobGoesOn DEF JobPhases, JobInstall
<1>3. FollowsTheRealm'
  BY <1>1, <1>2, StillAhead DEF Capturing, Known, HookFollows, SessionInv, FollowsTheRealm,
     CursorFollows, RegistryFollows
<1>4. AnswersAreOfTheirRealm'
  BY <1>1, <1>2 DEF JobGoes, SessionInv, AnswersAreOfTheirRealm, RanIn
<1> QED
  BY <1>1, <1>2, <1>3, <1>4 DEF JobGoes, SessionInv, SessionShapes, Numbered, TrueStatus, StartsClean

LEMMA JobResetAckKeeps ==
    ASSUME SessionInv, NEW r \in Realms, JobResetAck(r) PROVE SessionInv'
<1>1. UNCHANGED <<engine, realm, realms, gen, numbering, hooked, page, capture, registry, inject,
                  last, asked, refused, overtaken, unseen>> /\ cursor' = "zero"
  BY DEF JobResetAck, pageState
<1>2. JobGoes(r, "reset") /\ jobs[r].pc = "ack"
  BY JobGoesOn DEF JobPhases, JobResetAck
<1>3. FollowsTheRealm'
  BY <1>1, <1>2, StillAhead DEF Capturing, Known, CursorFollows, SessionInv, FollowsTheRealm,
     HookFollows, RegistryFollows
<1>4. AnswersAreOfTheirRealm'
  BY <1>1, <1>2 DEF JobGoes, SessionInv, AnswersAreOfTheirRealm, RanIn
<1> QED
  BY <1>1, <1>2, <1>3, <1>4 DEF JobGoes, SessionInv, SessionShapes, Numbered, TrueStatus, StartsClean

\* The registry is emptied, and the injection has only scripts to run.
LEMMA JobResetRegistryKeeps ==
    ASSUME SessionInv, NEW r \in Realms, JobResetRegistry(r) PROVE SessionInv'
<1>1. UNCHANGED <<engine, realm, realms, gen, numbering, hooked, page, capture, cursor, inject,
                  last, asked, refused, unseen>> /\ registry' = {} /\ overtaken' = {}
  BY DEF JobResetRegistry, pageState
<1>2. JobGoes(r, "scripts") /\ jobs[r].pc = "reset"
  <2>1. \A j \in InjectJobs : /\ [j EXCEPT !.pc = "scripts", !.todo = GlobalScripts] \in InjectJobs
                              /\ [j EXCEPT !.pc = "scripts", !.todo = GlobalScripts].pc = "scripts"
    BY GlobalScriptsAreScripts DEF InjectJobs, JobPhases
  <2>2. jobs' = [jobs EXCEPT ![r] = [jobs[r] EXCEPT !.pc = "scripts", !.todo = GlobalScripts]]
    BY DEF JobResetRegistry, SessionInv, SessionShapes
  <2>3. jobs[r] \in InjectJobs /\ jobs[r].pc = "reset"
    BY DEF JobResetRegistry, SessionInv, SessionShapes
  <2>4. PICK j \in InjectJobs : j.pc = "scripts" /\ jobs' = [jobs EXCEPT ![r] = j]
    BY <2>1, <2>2, <2>3
  <2> QED
    BY <2>3, <2>4, JobBecomes
<1>3. FollowsTheRealm'
  BY <1>1, <1>2, StillAhead DEF Capturing, Known, RegistryFollows, SessionInv, FollowsTheRealm,
     HookFollows, CursorFollows
<1>4. AnswersAreOfTheirRealm'
  BY <1>1, <1>2 DEF JobGoes, SessionInv, AnswersAreOfTheirRealm, RanIn
<1> QED
  BY <1>1, <1>2, <1>3, <1>4 DEF JobGoes, SessionInv, SessionShapes, Numbered, TrueStatus, StartsClean

\* A script is evaluated: the page only gains by it.
LEMMA JobEvaluateKeeps ==
    ASSUME SessionInv, NEW r \in Realms, NEW s \in Scripts, JobEvaluate(r, s) PROVE SessionInv'
<1>1. UNCHANGED <<engine, realm, realms, gen, numbering, hooked, capture, cursor, registry, inject,
                  last, asked, refused, overtaken, unseen>> /\ page \subseteq page'
  BY DEF JobEvaluate
<1>2. PICK next \in {"mark", "scripts"} :
         /\ JobGoes(r, next) /\ jobs[r].pc = "scripts"
         /\ next = "mark" => jobs'[r].script \in page' /\ jobs'[r].ran = realm
  BY JobBecomes DEF InjectJobs, JobPhases, SessionInv, SessionShapes, JobEvaluate, JobGoes
<1>3. FollowsTheRealm'
  BY <1>1, <1>2, StillAhead DEF Capturing, Known, SessionInv, FollowsTheRealm, HookFollows,
     CursorFollows, RegistryFollows
<1>4. AnswersAreOfTheirRealm'
  BY <1>1, <1>2 DEF JobGoes, SessionInv, SessionShapes, AnswersAreOfTheirRealm, RanIn
<1> QED
  BY <1>1, <1>2, <1>3, <1>4 DEF JobGoes, SessionInv, SessionShapes, Numbered, TrueStatus, StartsClean

\* The answer is in: a script of this realm is in the page.
LEMMA JobMarkKeeps ==
    ASSUME SessionInv, NEW r \in Realms, JobMark(r) PROVE SessionInv'
<1>1. UNCHANGED <<engine, realm, realms, gen, numbering, hooked, page, capture, cursor, inject,
                  last, asked, refused, unseen>>
      /\ registry' = registry \cup {jobs[r].script}
      /\ overtaken' = IF jobs[r].ran = realm THEN overtaken ELSE overtaken \cup {jobs[r].script}
  BY DEF JobMark, pageState
<1>2. JobGoes(r, "scripts") /\ jobs[r].pc = "mark"
  <2>1. \A j \in InjectJobs : /\ [j EXCEPT !.pc = "scripts", !.script = NoScript, !.ran = 0] \in InjectJobs
                              /\ [j EXCEPT !.pc = "scripts", !.script = NoScript, !.ran = 0].pc = "scripts"
    BY DEF InjectJobs, JobPhases
  <2>2. jobs' = [jobs EXCEPT ![r] = [jobs[r] EXCEPT !.pc = "scripts", !.script = NoScript, !.ran = 0]]
    BY DEF JobMark, SessionInv, SessionShapes
  <2>3. jobs[r] \in InjectJobs /\ jobs[r].pc = "mark"
    BY DEF JobMark, SessionInv, SessionShapes
  <2>4. PICK j \in InjectJobs : j.pc = "scripts" /\ jobs' = [jobs EXCEPT ![r] = j]
    BY <2>1, <2>2, <2>3
  <2> QED
    BY <2>3, <2>4, JobBecomes
<1>3. FollowsTheRealm'
  BY <1>1, <1>2, StillAhead DEF Capturing, Known, SessionInv, AnswersAreOfTheirRealm, RanIn,
     RegistryFollows, FollowsTheRealm, HookFollows, CursorFollows
<1>4. AnswersAreOfTheirRealm'
  BY <1>1, <1>2 DEF JobGoes, SessionInv, AnswersAreOfTheirRealm, RanIn
<1> QED
  BY <1>1, <1>2, <1>3, <1>4 DEF JobGoes, SessionInv, SessionShapes, Numbered, TrueStatus, StartsClean

LEMMA JobEndKeeps ==
    ASSUME SessionInv, NEW r \in Realms, JobEnd(r) PROVE SessionInv'
<1>1. UNCHANGED <<engine, realm, realms, gen, numbering, hooked, page, capture, cursor, registry, inject,
                  last, asked, refused, overtaken, unseen>>
  BY DEF JobEnd, pageState
<1>2. JobGoes(r, "ended") /\ jobs[r].pc = "scripts"
  BY JobGoesOn DEF JobPhases, JobEnd
<1>3. FollowsTheRealm'
  BY <1>1, <1>2, StillAhead DEF Capturing, Known, SessionInv, FollowsTheRealm, HookFollows,
     CursorFollows, RegistryFollows
<1>4. AnswersAreOfTheirRealm'
  BY <1>1, <1>2 DEF JobGoes, SessionInv, AnswersAreOfTheirRealm, RanIn
<1> QED
  BY <1>1, <1>2, <1>3, <1>4 DEF JobGoes, SessionInv, SessionShapes, Numbered, TrueStatus, StartsClean
-----------------------------------------------------------------------------
LEMMA InjectKeeps ==
    ASSUME SessionInv, (\E s \in Scripts : InjectEvaluate(s)) \/ InjectMark
    PROVE  SessionInv'
<1>1. UNCHANGED <<engine, realm, realms, gen, numbering, hooked, capture, cursor, last, asked, jobs,
                  refused, unseen>> /\ page \subseteq page'
  BY DEF InjectEvaluate, InjectMark, pageState
<1>2. CASE \E s \in Scripts : InjectEvaluate(s)
  <2>1. registry' = registry /\ overtaken' = overtaken /\ inject'.ran = realm /\ inject'.script \in page'
    BY <1>2 DEF InjectEvaluate
  <2>2. FollowsTheRealm'
    BY <1>1, <2>1 DEF SessionInv, FollowsTheRealm, Known, Capturing, HookFollows, CursorFollows,
       RegistryFollows, Ahead
  <2>3. AnswersAreOfTheirRealm'
    BY <1>1, <2>1 DEF SessionInv, SessionShapes, AnswersAreOfTheirRealm, RanIn
  <2> QED
    BY <1>1, <2>1, <2>2, <2>3 DEF SessionInv, SessionShapes, Numbered, TrueStatus, StartsClean
<1>3. CASE InjectMark
  <2>1. /\ inject # NoInject /\ inject' = NoInject /\ page' = page
        /\ registry' = registry \cup {inject.script}
        /\ overtaken' = IF inject.ran = realm THEN overtaken ELSE overtaken \cup {inject.script}
    BY <1>3 DEF InjectMark, pageState
  <2>2. realm # 0 /\ inject.ran = realm => inject.script \in page
    BY <2>1 DEF SessionInv, AnswersAreOfTheirRealm, RanIn
  <2>3. FollowsTheRealm'
    BY <1>1, <2>1, <2>2 DEF SessionInv, FollowsTheRealm, Known, Capturing, HookFollows, CursorFollows,
       RegistryFollows, Ahead
  <2>4. AnswersAreOfTheirRealm' /\ inject'.ran = 0
    BY <1>1, <2>1 DEF SessionInv, AnswersAreOfTheirRealm, RanIn, NoInject
  <2> QED
    BY <1>1, <2>1, <2>3, <2>4 DEF SessionInv, SessionShapes, Numbered, TrueStatus, StartsClean
<1> QED
  BY <1>2, <1>3

LEMMA CaptureKeeps ==
    ASSUME SessionInv, StartCapture \/ StartInstall \/ DrainTick \/ StopCapture \/ StopUninstall
    PROVE  SessionInv'
<1>1. UNCHANGED <<engine, realm, realms, gen, numbering, page, registry, inject, last, asked, jobs,
                  refused, overtaken, unseen>>
  BY DEF StartCapture, StartInstall, DrainTick, StopCapture, StopUninstall, pageState
<1>2. /\ capture' \in [running : BOOLEAN, call : {"none", "start", "stop"}] /\ StartsClean'
      /\ Capturing' => \/ hooked' /\ cursor' # "earlier"
                       \/ Capturing /\ hooked' = hooked /\ (cursor' = cursor \/ cursor' # "earlier")
  <2>1. CASE StartCapture
    BY <2>1 DEF StartCapture, StartsClean, Capturing
  <2>2. CASE StartInstall
    <3>1. capture.call = "start" /\ cursor' = cursor /\ cursor = "zero"
      BY <2>2 DEF StartInstall, SessionInv, StartsClean
    <3>2. CASE hooked' = TRUE /\ capture' = [running |-> TRUE, call |-> "none"]
      BY <3>1, <3>2 DEF StartsClean, Capturing
    <3>3. CASE capture' = [running |-> FALSE, call |-> "none"]
      BY <3>3 DEF StartsClean, Capturing
    <3> QED
      BY <2>2, <3>2, <3>3 DEF StartInstall
  <2>3. CASE DrainTick
    BY <2>3 DEF DrainTick, StartsClean, Capturing, SessionInv, SessionShapes, pageState
  <2>4. CASE StopCapture
    BY <2>4 DEF StopCapture, StartsClean, Capturing
  <2>5. CASE StopUninstall
    BY <2>5 DEF StopUninstall, SessionInv, StartsClean, Capturing, SessionShapes
  <2> QED
    BY <2>1, <2>2, <2>3, <2>4, <2>5
<1>3. FollowsTheRealm'
  BY <1>1, <1>2 DEF SessionInv, FollowsTheRealm, Known, HookFollows, CursorFollows, RegistryFollows, Ahead
<1> QED
  BY <1>1, <1>2, <1>3 DEF SessionInv, SessionShapes, Numbered, TrueStatus, AnswersAreOfTheirRealm, RanIn

LEMMA SessionKeeps == SessionInv /\ [SessionNext]_sessionVars => SessionInv'
<1> SUFFICES ASSUME SessionInv, [SessionNext]_sessionVars PROVE SessionInv'
  OBVIOUS
<1>1. CASE UNCHANGED sessionVars
  BY <1>1 DEF sessionVars, pageState, SessionInv, SessionShapes, Numbered, TrueStatus, AnswersAreOfTheirRealm,
     RanIn, StartsClean, FollowsTheRealm, Known, Capturing, HookFollows, CursorFollows, RegistryFollows, Ahead
<1>2. CASE EngineReplaced \/ EngineFails \/ NewRealm \/ EngineStop
  BY <1>2, EngineKeeps
<1>3. CASE PollAsk \/ PollFails \/ PollTake
  BY <1>3, PollAskKeeps, PollTakeKeeps
<1>4. ASSUME NEW r \in Realms,
             \/ JobWake(r) \/ JobInstall(r) \/ JobResetAck(r)
             \/ JobResetRegistry(r) \/ JobMark(r) \/ JobEnd(r)
      PROVE  SessionInv'
  BY <1>4, JobWakeKeeps, JobInstallKeeps, JobResetAckKeeps, JobResetRegistryKeeps, JobMarkKeeps, JobEndKeeps
<1>5. ASSUME NEW r \in Realms, NEW s \in Scripts, JobEvaluate(r, s) PROVE SessionInv'
  BY <1>5, JobEvaluateKeeps
<1>6. CASE (\E s \in Scripts : InjectEvaluate(s)) \/ InjectMark
  BY <1>6, InjectKeeps
<1>7. CASE StartCapture \/ StartInstall \/ DrainTick \/ StopCapture \/ StopUninstall
  BY <1>7, CaptureKeeps
<1> QED
  BY <1>1, <1>2, <1>3, <1>4, <1>5, <1>6, <1>7 DEF SessionNext

(* Once the poller has seen a realm and its injections are over, a running *)
(* capture is hooked into it and reads it from a cursor of its own, and    *)
(* the registry claims no script of an earlier one, whatever the engine,   *)
(* the page and the user did (startStatusPoller and autoInjectHooks of     *)
(* ipc_bridge.go).                                                         *)
THEOREM SessionFollowsTheRealm == SessionSpec => []SettledSessionIsTrue
<1>1. SessionInv => SettledSessionIsTrue
  <2> SUFFICES ASSUME SessionInv, Settled, ~ unseen
               PROVE  /\ capture = [running |-> TRUE, call |-> "none"] =>
                            (hooked \/ refused = realm) /\ cursor # "earlier"
                      /\ registry \ overtaken \subseteq page
    BY DEF SettledSessionIsTrue, RunningCaptureIsHooked, OnlyOvertakenMarkersLie
  <2>1. Known
    BY DEF Settled, Known
  <2>2. ~ Ahead({"sleep", "install"}) /\ ~ Ahead({"sleep", "install", "ack"})
        /\ ~ Ahead({"sleep", "install", "ack", "reset"})
    BY DEF Settled, Ahead
  <2> QED
    BY <2>1, <2>2 DEF SessionInv, FollowsTheRealm, Capturing, HookFollows, CursorFollows, RegistryFollows
<1> QED
  BY <1>1, SessionInitially, SessionKeeps, PTL DEF SessionSpec

-----------------------------------------------------------------------------
(* The navigator (Navigator)                                                *)

NavOps == [pc : {"idle", "install", "mark", "evaluate", "done", "failed"}, kind : {"fetch", "act"}, ran : Nat]
WalkPhases == {"off", "listing", "fetching", "walking", "visiting", "finishing"}
Walks == [pc : WalkPhases, app : Apps \cup {NoApp}, realm : Nat, left : Int]
NavShapes ==
    /\ site \in [id : Nat, app : Apps, nav : BOOLEAN] /\ op \in [Actors -> NavOps]
    /\ visit \in [on : BOOLEAN, number : Nat, cancelled : BOOLEAN] /\ stopper \in [Tools -> Nat]
    /\ walk \in Walks /\ pagesOf \in Apps \cup {NoApp}

\* The slot is taken while the walk runs, and only a walk that fetches or
\* visits is in an operation.
WalkHoldsTheSlot ==
    /\ visit.on = (walk.pc # "off")
    /\ walk.pc \notin {"fetching", "visiting"} => op[Walker] = NoOp

\* Whoever was let go had waited for a walk that is over.
WaitersAreOfAWalk ==
    /\ \A t \in Tools : stopper[t] <= visit.number
    /\ \A n \in released : n \in Nat /\ n <= visit.number /\ (n = visit.number => ~ visit.on)

\* An answer that says the hook is in is of an earlier realm or of one that
\* has window.nav.
InstallsAreTrue(a) ==
    /\ op[a].ran <= site.id
    /\ op[a].pc = "mark" /\ op[a].ran = site.id => site.nav

NavInv == NavShapes /\ WalkHoldsTheSlot /\ WaitersAreOfAWalk
          /\ (\A a \in Actors : InstallsAreTrue(a)) /\ RebuiltRealmIsNavigable

LEMMA NoOpIsAnOp == NoOp \in NavOps
  BY DEF NoOp, NavOps

LEMMA NavInitially == NavInit => NavInv
<1> SUFFICES ASSUME NavInit PROVE NavInv
  OBVIOUS
<1>1. /\ site \in [id : {1}, app : Apps, nav : {FALSE}] /\ reinstall = "due"
      /\ op = [a \in Actors |-> NoOp] /\ visit = [on |-> FALSE, number |-> 0, cancelled |-> FALSE]
      /\ walk = NoWalk /\ walk.pc = "off" /\ stopper = [t \in Tools |-> 0] /\ released = {} /\ pagesOf = NoApp
  BY DEF NavInit, NoWalk
<1>2. NavShapes
  <2>1. walk \in Walks
    BY <1>1 DEF Walks, WalkPhases, NoWalk
  <2>2. site \in [id : Nat, app : Apps, nav : BOOLEAN]
    <3>1. PICK app \in Apps : site = [id |-> 1, app |-> app, nav |-> FALSE]
      BY <1>1
    <3> QED
      BY <3>1
  <2>3. visit \in [on : BOOLEAN, number : Nat, cancelled : BOOLEAN]
    BY <1>1
  <2> QED
    BY <1>1, <2>1, <2>2, <2>3, NoOpIsAnOp DEF NavShapes
<1>3. WalkHoldsTheSlot
  BY <1>1 DEF WalkHoldsTheSlot, Actors
<1>4. WaitersAreOfAWalk
  BY <1>1 DEF WaitersAreOfAWalk
<1>5. \A a \in Actors : InstallsAreTrue(a)
  BY <1>1 DEF InstallsAreTrue, NoOp
<1> QED
  BY <1>1, <1>2, <1>3, <1>4, <1>5 DEF NavInv, RebuiltRealmIsNavigable

\* What an operation's next step may do to its record, and the fields.
OpMoves(a, o) == op' = [op EXCEPT ![a] = o]
LEMMA OpMoved ==
    ASSUME NavShapes, NEW a \in Actors, NEW o \in NavOps, OpMoves(a, o)
    PROVE  /\ op' \in [Actors -> NavOps] /\ op'[a] = o
           /\ \A b \in Actors : b # a => op'[b] = op[b]
  BY DEF OpMoves, NavShapes

LEMMA OpFields ==
    ASSUME NEW o \in NavOps, NEW q \in {"mark", "evaluate", "done", "failed"}, NEW w, w = [o EXCEPT !.pc = q]
    PROVE  w \in NavOps /\ w.pc = q /\ w.ran = o.ran
  BY DEF NavOps

LEMMA RanFields ==
    ASSUME NEW o \in NavOps, NEW n \in Nat, NEW w, w = [o EXCEPT !.pc = "mark", !.ran = n]
    PROVE  w \in NavOps /\ w.pc = "mark" /\ w.ran = n
  BY DEF NavOps

\* A step that changes one operation, of a tool or of the walk while it runs
\* one, and leaves the walk alone.
LEMMA OpStepKeeps ==
    ASSUME NavInv, NEW a \in Actors, NEW o \in NavOps, OpMoves(a, o), UNCHANGED <<visit, walk, stopper, released>>,
           a = Walker => walk.pc \in {"fetching", "visiting"} \/ o = NoOp,
           site' \in [id : Nat, app : Apps, nav : BOOLEAN], site'.id = site.id, site.nav => site'.nav,
           o.ran <= site.id, o.pc = "mark" /\ o.ran = site.id => site'.nav, pagesOf' \in Apps \cup {NoApp},
           RebuiltRealmIsNavigable'
    PROVE  NavInv'
<1>1. op' \in [Actors -> NavOps] /\ op'[a] = o /\ \A b \in Actors : b # a => op'[b] = op[b]
  BY OpMoved DEF NavInv
<1>2. NavShapes'
  BY <1>1 DEF NavInv, NavShapes
<1>3. WalkHoldsTheSlot'
  BY <1>1 DEF NavInv, WalkHoldsTheSlot, Actors
<1>4. WaitersAreOfAWalk'
  BY DEF NavInv, WaitersAreOfAWalk
<1>5. \A b \in Actors : InstallsAreTrue(b)'
  BY <1>1 DEF InstallsAreTrue, NavInv
<1> QED
  BY <1>2, <1>3, <1>4, <1>5 DEF NavInv

\* The page's steps leave the operations and the walk alone.
LEMMA PageStepsKeep ==
    ASSUME NavInv, (\E app \in Apps : Rebuild(app)) \/ Reinstall \/ Invalidate PROVE NavInv'
<1>1. UNCHANGED <<op, pagesOf, visit, walk, stopper, released>>
  BY DEF Rebuild, Reinstall, Invalidate
<1>2. WalkHoldsTheSlot' /\ WaitersAreOfAWalk'
  BY <1>1 DEF NavInv, WalkHoldsTheSlot, WaitersAreOfAWalk
<1>3. site \in [id : Nat, app : Apps, nav : BOOLEAN] /\ op \in [Actors -> NavOps]
      /\ \A a \in Actors : op[a].ran \in Nat
  BY DEF NavInv, NavShapes, NavOps
<1>4. ASSUME NEW app \in Apps, Rebuild(app) PROVE NavInv'
  BY <1>1, <1>2, <1>3, <1>4 DEF Rebuild, NavInv, InstallsAreTrue, NavShapes, RebuiltRealmIsNavigable
<1>5. CASE Reinstall
  <2>1. site' \in [id : Nat, app : Apps, nav : BOOLEAN] /\ site'.id = site.id /\ (site.nav => site'.nav)
        /\ (reinstall' = "none" => site'.id \in excused')
    BY <1>3, <1>5 DEF Reinstall
  <2>2. \A a \in Actors : InstallsAreTrue(a)'
    BY <1>1, <2>1 DEF NavInv, InstallsAreTrue
  <2> QED
    BY <1>1, <1>2, <2>1, <2>2 DEF NavInv, NavShapes, RebuiltRealmIsNavigable
<1>6. CASE Invalidate
  BY <1>1, <1>2, <1>6 DEF Invalidate, NavInv, NavShapes, RebuiltRealmIsNavigable, InstallsAreTrue
<1> QED
  BY <1>4, <1>5, <1>6

\* The steps of an operation, of a tool or of the walk.
LEMMA OperationKeeps ==
    ASSUME NavInv, NEW a \in Actors, Install(a) \/ MarkInjected(a) \/ Evaluate(a) PROVE NavInv'
<1>1. /\ UNCHANGED <<reinstall, visit, walk, stopper, released>>
      /\ op[a].pc \in {"install", "mark", "evaluate"} /\ pagesOf' \in Apps \cup {NoApp}
  BY DEF Install, MarkInjected, Evaluate, NavInv, NavShapes
<1>2. a = Walker => walk.pc \in {"fetching", "visiting"}
  BY <1>1 DEF NavInv, WalkHoldsTheSlot, NoOp
<1> PICK p : p = op[a]
  OBVIOUS
<1>3. /\ p \in NavOps /\ op \in [Actors -> NavOps] /\ p.ran <= site.id /\ (p.pc = "mark" /\ p.ran = site.id => site.nav)
      /\ site \in [id : Nat, app : Apps, nav : BOOLEAN] /\ site.id \in Nat /\ site.nav \in BOOLEAN
  BY DEF NavInv, NavShapes, InstallsAreTrue
<1>4. CASE Install(a)
  <2>1. CASE site' = [site EXCEPT !.nav = TRUE] /\ op' = [op EXCEPT ![a].pc = "mark", ![a].ran = site.id]
             /\ UNCHANGED <<injected, excused>>
    <3> PICK o : o = [p EXCEPT !.pc = "mark", !.ran = site.id]
      OBVIOUS
    <3>1. o \in NavOps /\ o.pc = "mark" /\ o.ran = site.id
      <4>1. PICK n \in Nat : n = site.id
        BY <1>3
      <4>2. o = [p EXCEPT !.pc = "mark", !.ran = n]
        BY <4>1
      <4>3. p \in NavOps
        BY <1>3
      <4>4. o \in NavOps /\ o.pc = "mark" /\ o.ran = n
        BY <4>2, <4>3, RanFields, Zenon
      <4> QED
        BY <4>1, <4>4
    <3>2. OpMoves(a, o)
      BY <1>3, <2>1 DEF OpMoves
    <3>3. site' \in [id : Nat, app : Apps, nav : BOOLEAN] /\ site'.id = site.id /\ site'.nav = TRUE
      BY <1>3, <2>1
    <3>4. RebuiltRealmIsNavigable'
      BY <3>3 DEF RebuiltRealmIsNavigable
    <3>5. o.ran <= site.id
      BY <1>3, <3>1
    <3> QED
      BY <1>1, <1>2, <3>1, <3>2, <3>3, <3>4, <3>5, OpStepKeeps
  <2>2. CASE op' = [op EXCEPT ![a].pc = "failed"] /\ UNCHANGED <<site, injected, excused>>
    <3> PICK o : o = [p EXCEPT !.pc = "failed"]
      OBVIOUS
    <3>1. o \in NavOps /\ o.pc = "failed" /\ o.ran = p.ran
      BY <1>3, OpFields
    <3>2. OpMoves(a, o)
      BY <1>3, <2>2 DEF OpMoves
    <3>3. RebuiltRealmIsNavigable'
      BY <1>1, <2>2 DEF NavInv, RebuiltRealmIsNavigable
    <3> QED
      BY <1>1, <1>2, <1>3, <2>2, <3>1, <3>2, <3>3, OpStepKeeps
  <2> QED
    BY <1>4, <2>1, <2>2 DEF Install
<1>5. CASE MarkInjected(a)
  <2>1. /\ op' = [op EXCEPT ![a].pc = "evaluate"] /\ UNCHANGED site /\ p.pc = "mark"
        /\ excused' = IF p.ran = site.id THEN excused ELSE excused \cup {site.id}
    BY <1>5 DEF MarkInjected
  <2> PICK o : o = [p EXCEPT !.pc = "evaluate"]
    OBVIOUS
  <2>2. o \in NavOps /\ o.pc = "evaluate" /\ o.ran = p.ran
    BY <1>3, OpFields
  <2>3. OpMoves(a, o)
    BY <1>3, <2>1 DEF OpMoves
  <2>4. RebuiltRealmIsNavigable'
    BY <1>3, <2>1 DEF RebuiltRealmIsNavigable
  <2> QED
    BY <1>1, <1>2, <1>3, <2>1, <2>2, <2>3, <2>4, OpStepKeeps
<1>6. CASE Evaluate(a)
  <2>1. PICK q \in {"done", "failed"} : op' = [op EXCEPT ![a].pc = q] /\ UNCHANGED <<site, injected, excused>>
    BY <1>6 DEF Evaluate
  <2> PICK o : o = [p EXCEPT !.pc = q]
    OBVIOUS
  <2>2. o \in NavOps /\ o.pc = q /\ o.ran = p.ran
    BY <1>3, OpFields
  <2>3. OpMoves(a, o)
    BY <1>3, <2>1 DEF OpMoves
  <2>4. RebuiltRealmIsNavigable'
    BY <1>1, <2>1 DEF NavInv, RebuiltRealmIsNavigable
  <2> QED
    BY <1>1, <1>2, <1>3, <2>1, <2>2, <2>3, <2>4, OpStepKeeps
<1> QED
  BY <1>4, <1>5, <1>6

\* A tool begins an operation and returns from it.
LEMMA ToolKeeps ==
    ASSUME NavInv, NEW t \in Tools, (\E kind \in {"fetch", "act"} : Begin(t, kind)) \/ Return(t) PROVE NavInv'
<1>1. /\ UNCHANGED <<site, reinstall, injected, pagesOf, visit, walk, stopper, released, excused>>
      /\ t \in Actors /\ t # Walker
  BY ToolsAreNotTheWalk DEF Begin, Return, Actors, Walker
<1>2. PICK o \in NavOps : OpMoves(t, o) /\ o.ran = 0 /\ o.pc # "mark"
  <2>1. ASSUME NEW kind \in {"fetch", "act"}, Begin(t, kind) PROVE \E o \in NavOps : OpMoves(t, o) /\ o.ran = 0 /\ o.pc # "mark"
    <3>1. First(kind) \in {"install", "evaluate"}
      BY DEF First
    <3>2. [pc |-> First(kind), kind |-> kind, ran |-> 0] \in NavOps
      BY <3>1 DEF NavOps
    <3> QED
      BY <2>1, <3>1, <3>2 DEF Begin, OpMoves
  <2>2. CASE Return(t)
    BY <2>2, NoOpIsAnOp DEF Return, OpMoves, NoOp
  <2> QED
    BY <2>1, <2>2
<1>3. site \in [id : Nat, app : Apps, nav : BOOLEAN] /\ 0 <= site.id /\ RebuiltRealmIsNavigable'
  BY <1>1 DEF NavInv, NavShapes, RebuiltRealmIsNavigable
<1>4. pagesOf' \in Apps \cup {NoApp}
  BY <1>1 DEF NavInv, NavShapes
<1> QED
  BY <1>1, <1>2, <1>3, <1>4, OpStepKeeps

\* The auto visit: the walk moves, perhaps with its operation.
WalkMoves(o, w) ==
    /\ (op' = op /\ o = op[Walker]) \/ OpMoves(Walker, o)
    /\ o \in NavOps /\ o.ran <= site.id /\ o.pc # "mark"
    /\ walk' = w /\ w \in Walks /\ w.pc # "off"
    /\ w.pc \notin {"fetching", "visiting"} => o = NoOp

LEMMA WalkMoveKeeps ==
    ASSUME NavInv, NEW o, NEW w, WalkMoves(o, w), walk.pc # "off",
           UNCHANGED <<site, reinstall, injected, pagesOf, visit, stopper, released, excused>>
    PROVE  NavInv'
<1>1. op \in [Actors -> NavOps] /\ Walker \in Actors
  BY DEF NavInv, NavShapes, Actors
<1>2. op' \in [Actors -> NavOps] /\ op'[Walker] = o /\ \A b \in Actors : b # Walker => op'[b] = op[b]
  BY <1>1, OpMoved DEF WalkMoves, NavInv
<1>3. NavShapes'
  BY <1>2 DEF NavInv, NavShapes, WalkMoves
<1>4. WalkHoldsTheSlot'
  BY <1>2 DEF NavInv, WalkHoldsTheSlot, WalkMoves
<1>5. WaitersAreOfAWalk' /\ RebuiltRealmIsNavigable'
  BY DEF NavInv, WaitersAreOfAWalk, RebuiltRealmIsNavigable
<1>6. \A b \in Actors : InstallsAreTrue(b)'
  BY <1>2 DEF InstallsAreTrue, WalkMoves, NavInv
<1> QED
  BY <1>3, <1>4, <1>5, <1>6 DEF NavInv

LEMMA WalkFields ==
    ASSUME NEW w \in Walks
    PROVE  /\ \A q \in WalkPhases : \A v : v = [w EXCEPT !.pc = q] => v \in Walks /\ v.pc = q
           /\ \A v : v = [w EXCEPT !.pc = "walking", !.left = @ - 1] => v \in Walks /\ v.pc = "walking"
<1>1. PICK n \in Int : n = w.left - 1
  BY DEF Walks
<1>2. ASSUME NEW v, v = [w EXCEPT !.pc = "walking", !.left = n] PROVE v \in Walks /\ v.pc = "walking"
  BY <1>2 DEF Walks, WalkPhases
<1>3. ASSUME NEW q \in WalkPhases, NEW v, v = [w EXCEPT !.pc = q] PROVE v \in Walks /\ v.pc = q
  BY <1>3 DEF Walks
<1> QED
  BY <1>1, <1>2, <1>3

LEMMA WalkBegins ==
    ASSUME NEW w \in Walks, NEW app \in Apps \cup {NoApp},
           NEW v, v = [w EXCEPT !.pc = "walking", !.app = app, !.left = PageCount]
    PROVE  v \in Walks /\ v.pc = "walking"
<1>1. PageCount \in Int
  BY NavigatorPages
<1> QED
  BY <1>1 DEF Walks, WalkPhases

LEMMA WalkKeeps ==
    ASSUME NavInv, ListPages \/ Fetched \/ WalkOn \/ Visited PROVE NavInv'
<1>1. /\ UNCHANGED <<site, reinstall, injected, pagesOf, visit, stopper, released, excused>> /\ walk.pc # "off"
  BY DEF ListPages, Fetched, WalkOn, Visited
<1>2. /\ walk \in Walks /\ op \in [Actors -> NavOps] /\ site.id \in Nat /\ pagesOf \in Apps \cup {NoApp}
      /\ NoOp \in NavOps /\ NoOp.ran <= site.id /\ NoOp.pc # "mark"
  BY NoOpIsAnOp DEF NavInv, NavShapes, NoOp
<1>3. ASSUME NEW kind \in {"fetch", "act"}, NEW o, o = [pc |-> First(kind), kind |-> kind, ran |-> 0]
      PROVE  o \in NavOps /\ o.ran <= site.id /\ o.pc # "mark"
  BY <1>2, <1>3 DEF First, NavOps
<1>4. PICK fetch, act : /\ fetch = [pc |-> First("fetch"), kind |-> "fetch", ran |-> 0]
                        /\ act = [pc |-> First("act"), kind |-> "act", ran |-> 0]
  OBVIOUS
<1>5. PICK fetching, finishing, visiting, begun, next :
        /\ fetching = [walk EXCEPT !.pc = "fetching"] /\ finishing = [walk EXCEPT !.pc = "finishing"]
        /\ visiting = [walk EXCEPT !.pc = "visiting"]
        /\ begun = [walk EXCEPT !.pc = "walking", !.app = pagesOf, !.left = PageCount]
        /\ next = [walk EXCEPT !.pc = "walking", !.left = @ - 1]
  OBVIOUS
<1>6. /\ {fetching, finishing, visiting, begun, next} \subseteq Walks
      /\ fetching.pc = "fetching" /\ finishing.pc = "finishing" /\ visiting.pc = "visiting"
      /\ begun.pc = "walking" /\ next.pc = "walking"
  <2>1. {"fetching", "finishing", "visiting"} \subseteq WalkPhases
    BY DEF WalkPhases
  <2> QED
    <3>1. fetching \in Walks /\ fetching.pc = "fetching" /\ finishing \in Walks /\ finishing.pc = "finishing"
          /\ visiting \in Walks /\ visiting.pc = "visiting"
      BY <1>2, <1>5, <2>1, WalkFields
    <3>2. begun \in Walks /\ begun.pc = "walking"
      <4>1. walk \in Walks /\ pagesOf \in Apps \cup {NoApp}
        BY <1>2
      <4>2. begun = [walk EXCEPT !.pc = "walking", !.app = pagesOf, !.left = PageCount]
        BY <1>5, Zenon
      <4> QED
        BY <4>1, <4>2, WalkBegins, Zenon
    <3>3. next \in Walks /\ next.pc = "walking"
      <4>1. walk \in Walks /\ next = [walk EXCEPT !.pc = "walking", !.left = @ - 1]
        BY <1>2, <1>5
      <4> QED
        BY <4>1, WalkFields
    <3> QED
      BY <3>1, <3>2, <3>3
<1>7. CASE ListPages
  <2>1. op[Walker] = NoOp
    BY <1>7 DEF ListPages, NavInv, WalkHoldsTheSlot
  <2>2. WalkMoves(NoOp, begun) \/ WalkMoves(fetch, fetching)
    BY <1>2, <1>3, <1>4, <1>5, <1>6, <1>7, <2>1 DEF ListPages, WalkMoves, OpMoves
  <2> QED
    BY <1>1, <2>2, WalkMoveKeeps
<1>8. CASE Fetched
  <2>1. WalkMoves(NoOp, begun) \/ WalkMoves(NoOp, finishing)
    BY <1>2, <1>5, <1>6, <1>8 DEF Fetched, WalkMoves, OpMoves
  <2> QED
    BY <1>1, <2>1, WalkMoveKeeps
<1>9. CASE WalkOn
  <2>1. op[Walker] = NoOp
    BY <1>9 DEF WalkOn, NavInv, WalkHoldsTheSlot
  <2>2. WalkMoves(NoOp, finishing) \/ WalkMoves(act, visiting)
    BY <1>2, <1>3, <1>4, <1>5, <1>6, <1>9, <2>1 DEF WalkOn, WalkMoves, OpMoves
  <2> QED
    BY <1>1, <2>2, WalkMoveKeeps
<1>10. CASE Visited
  <2>1. WalkMoves(NoOp, next)
    BY <1>2, <1>5, <1>6, <1>10 DEF Visited, WalkMoves, OpMoves
  <2> QED
    BY <1>1, <2>1, WalkMoveKeeps
<1> QED
  BY <1>7, <1>8, <1>9, <1>10

\* A walk begins, ends, is stopped, and whoever stopped it is let go.
LEMMA SlotKeeps ==
    ASSUME NavInv, AutoVisit \/ FinishVisit \/ (\E t \in Tools : StopAutoVisit(t) \/ StopReturns(t))
    PROVE  NavInv'
<1>1. UNCHANGED <<site, reinstall, injected, pagesOf, op, excused>>
  BY DEF AutoVisit, FinishVisit, StopAutoVisit, StopReturns
<1>2. RebuiltRealmIsNavigable' /\ \A a \in Actors : InstallsAreTrue(a)'
  BY <1>1 DEF NavInv, RebuiltRealmIsNavigable, InstallsAreTrue
<1>3. /\ visit \in [on : BOOLEAN, number : Nat, cancelled : BOOLEAN] /\ visit.number \in Nat /\ visit.on \in BOOLEAN
      /\ stopper \in [Tools -> Nat] /\ walk \in Walks /\ pagesOf \in Apps \cup {NoApp}
  BY DEF NavInv, NavShapes
<1>4. CASE AutoVisit
  <2>1. ~ visit.on /\ visit' = [on |-> TRUE, number |-> visit.number + 1, cancelled |-> FALSE]
        /\ walk' = [NoWalk EXCEPT !.pc = "listing", !.realm = site.id] /\ UNCHANGED <<stopper, released>>
    BY <1>4 DEF AutoVisit
  <2>2. visit' \in [on : BOOLEAN, number : Nat, cancelled : BOOLEAN] /\ visit'.on = TRUE
        /\ visit'.number = visit.number + 1
    BY <1>3, <2>1
  <2>3. walk' \in Walks /\ walk'.pc = "listing"
    <3>1. site.id \in Nat
      BY DEF NavInv, NavShapes
    <3> QED
      <4>1. walk' = [pc |-> "listing", app |-> NoApp, realm |-> site.id, left |-> 0]
        BY <2>1 DEF NoWalk
      <4> QED
        BY <3>1, <4>1 DEF Walks, WalkPhases
  <2>4. WaitersAreOfAWalk'
    BY <1>3, <2>1, <2>2 DEF NavInv, WaitersAreOfAWalk
  <2>5. WalkHoldsTheSlot'
    BY <1>1, <2>1, <2>2, <2>3 DEF NavInv, WalkHoldsTheSlot
  <2>6. NavShapes'
    BY <1>1, <2>1, <2>2, <2>3 DEF NavInv, NavShapes
  <2> QED
    BY <1>2, <2>4, <2>5, <2>6 DEF NavInv
<1>5. CASE FinishVisit
  <2>1. walk.pc = "finishing" /\ visit' = [visit EXCEPT !.on = FALSE] /\ walk' = NoWalk /\ UNCHANGED <<stopper, released>>
    BY <1>5 DEF FinishVisit
  <2>2. visit' \in [on : BOOLEAN, number : Nat, cancelled : BOOLEAN] /\ visit'.on = FALSE
        /\ visit'.number = visit.number
    BY <1>3, <2>1
  <2>3. walk' \in Walks /\ walk'.pc = "off"
    BY <2>1 DEF Walks, WalkPhases, NoWalk
  <2>4. WaitersAreOfAWalk'
    BY <2>1, <2>2 DEF NavInv, WaitersAreOfAWalk
  <2>5. WalkHoldsTheSlot'
    BY <1>1, <2>1, <2>2, <2>3 DEF NavInv, WalkHoldsTheSlot
  <2>6. NavShapes'
    BY <1>1, <2>1, <2>2, <2>3 DEF NavInv, NavShapes
  <2> QED
    BY <1>2, <2>4, <2>5, <2>6 DEF NavInv
<1>6. ASSUME NEW t \in Tools, StopAutoVisit(t) PROVE NavInv'
  <2>1. visit' = [visit EXCEPT !.cancelled = TRUE] /\ stopper' = [stopper EXCEPT ![t] = visit.number]
        /\ UNCHANGED <<walk, released>>
    BY <1>6 DEF StopAutoVisit
  <2>2. visit' \in [on : BOOLEAN, number : Nat, cancelled : BOOLEAN] /\ visit'.on = visit.on
        /\ visit'.number = visit.number
    BY <1>3, <2>1
  <2>3. WaitersAreOfAWalk' /\ stopper' \in [Tools -> Nat]
    BY <1>3, <2>1, <2>2 DEF NavInv, WaitersAreOfAWalk
  <2>4. WalkHoldsTheSlot' /\ NavShapes'
    BY <1>1, <2>1, <2>2, <2>3 DEF NavInv, WalkHoldsTheSlot, NavShapes
  <2> QED
    BY <1>2, <2>3, <2>4 DEF NavInv
<1>7. ASSUME NEW t \in Tools, StopReturns(t) PROVE NavInv'
  BY <1>1, <1>2, <1>3, <1>7 DEF StopReturns, NavInv, WaitersAreOfAWalk, WalkHoldsTheSlot, NavShapes
<1> QED
  BY <1>4, <1>5, <1>6, <1>7

LEMMA NavKeeps == NavInv /\ [NavNext]_navVars => NavInv'
<1> SUFFICES ASSUME NavInv, [NavNext]_navVars PROVE NavInv'
  OBVIOUS
<1>1. CASE UNCHANGED navVars
  BY <1>1 DEF navVars, NavInv, NavShapes, WalkHoldsTheSlot, WaitersAreOfAWalk, InstallsAreTrue, RebuiltRealmIsNavigable
<1>2. CASE NavNext
  BY <1>2, PageStepsKeep, ToolKeeps, SlotKeeps, OperationKeeps, WalkKeeps DEF NavNext
<1> QED
  BY <1>1, <1>2

(* When StopAutoVisit has returned the walk it stopped is over, and after  *)
(* a rebuilt realm was seen to the cache claims no window.nav that is not  *)
(* there, but for what the page refused or answered late (navigator.go,    *)
(* NavigatorCtl of internal/api/ipc/util.go).                              *)
THEOREM NavigatorKeepsItsWord == NavSpec => []NavigatorIsHonest
<1>1. NavInv => NavigatorIsHonest
  BY DEF NavInv, NavShapes, WalkHoldsTheSlot, WaitersAreOfAWalk, StoppedWalkIsOver,
     NavigatorIsHonest
<1> QED
  BY <1>1, NavInitially, NavKeeps, PTL DEF NavSpec

-----------------------------------------------------------------------------
(* The runtime log (RuntimeLog)                                             *)

\* What occurs in a sequence more than once.
Twice(s) == {x \in LinesOf(s) : \E i, j \in DOMAIN s : i # j /\ s[i] = x /\ s[j] = x}
Increasing(s) == \A i, j \in DOMAIN s : i < j => s[i] < s[j]

LEMMA EmptyLines == LinesOf(<<>>) = {} /\ Twice(<<>>) = {} /\ Increasing(<<>>)
  BY DEF LinesOf, Twice, Increasing

LEMMA AppendedLine ==
    ASSUME NEW s \in Seq(Nat), NEW x \in Nat
    PROVE  /\ Append(s, x) \in Seq(Nat) /\ Len(Append(s, x)) = Len(s) + 1
           /\ LinesOf(Append(s, x)) = LinesOf(s) \cup {x}
           /\ x \notin LinesOf(s) => Twice(Append(s, x)) = Twice(s)
           /\ Increasing(s) /\ (\A y \in LinesOf(s) : y < x) => Increasing(Append(s, x))
<1> PICK t : t = Append(s, x)
  OBVIOUS
<1>1. t \in Seq(Nat) /\ Len(t) = Len(s) + 1 /\ DOMAIN t = 1 .. Len(s) + 1 /\ DOMAIN s = 1 .. Len(s)
      /\ t[Len(s) + 1] = x /\ \A i \in 1 .. Len(s) : t[i] = s[i]
      /\ Len(s) \in Nat
  OBVIOUS
<1>2. LinesOf(t) = LinesOf(s) \cup {x}
  BY <1>1 DEF LinesOf
<1>3. ASSUME x \notin LinesOf(s) PROVE Twice(t) = Twice(s)
  <2>1. \A i \in DOMAIN s : s[i] # x
    BY <1>3 DEF LinesOf
  <2>2. \A i, j \in DOMAIN t : i # j /\ t[i] = t[j] => i \in DOMAIN s /\ j \in DOMAIN s
    BY <1>1, <2>1
  <2>3. ASSUME NEW y \in Twice(t) PROVE y \in Twice(s)
    BY <1>1, <2>2 DEF Twice, LinesOf
  <2>4. ASSUME NEW y \in Twice(s) PROVE y \in Twice(t)
    BY <1>1, <1>2 DEF Twice
  <2> QED
    BY <2>3, <2>4
<1>4. ASSUME Increasing(s), \A y \in LinesOf(s) : y < x PROVE Increasing(t)
  BY <1>1, <1>4 DEF LinesOf, Increasing
<1> QED
  BY <1>1, <1>2, <1>3, <1>4

LEMMA WithoutFirst ==
    ASSUME NEW s \in Seq(Nat), s # <<>>
    PROVE  /\ Tail(s) \in Seq(Nat) /\ Len(Tail(s)) = Len(s) - 1 /\ Head(s) \in Nat
           /\ LinesOf(s) = LinesOf(Tail(s)) \cup {Head(s)}
           /\ Twice(s) = {} => Twice(Tail(s)) = {} /\ Head(s) \notin LinesOf(Tail(s))
           /\ Increasing(s) => Increasing(Tail(s))
<1> PICK t : t = Tail(s)
  OBVIOUS
<1>1. t \in Seq(Nat) /\ Len(t) = Len(s) - 1 /\ Len(s) \in Nat /\ Len(s) >= 1 /\ Head(s) = s[1] /\ Head(s) \in Nat
      /\ DOMAIN t = 1 .. Len(s) - 1 /\ DOMAIN s = 1 .. Len(s) /\ \A i \in 1 .. Len(s) - 1 : t[i] = s[i + 1]
  BY HeadTailProperties
<1>2. LinesOf(s) = LinesOf(t) \cup {Head(s)}
  <2>1. ASSUME NEW i \in DOMAIN s PROVE s[i] \in LinesOf(t) \cup {Head(s)}
    <3>1. CASE i = 1
      BY <1>1, <3>1
    <3>2. CASE i # 1
      <4>1. i - 1 \in DOMAIN t /\ t[i - 1] = s[i]
        BY <1>1, <3>2
      <4> QED
        BY <4>1 DEF LinesOf
    <3> QED
      BY <3>1, <3>2
  <2>2. ASSUME NEW i \in DOMAIN t PROVE t[i] \in LinesOf(s)
    BY <1>1 DEF LinesOf
  <2>3. Head(s) \in LinesOf(s)
    BY <1>1 DEF LinesOf
  <2> QED
    BY <2>1, <2>2, <2>3 DEF LinesOf
<1>3. ASSUME Twice(s) = {} PROVE Twice(t) = {} /\ Head(s) \notin LinesOf(t)
  <2>1. \A i, j \in DOMAIN s : i # j => s[i] # s[j]
    BY <1>3 DEF Twice, LinesOf
  <2>2. \A i \in DOMAIN t : i + 1 \in DOMAIN s /\ i + 1 # 1 /\ 1 \in DOMAIN s
    BY <1>1
  <2>3. \A i, j \in DOMAIN t : i # j => t[i] # t[j]
    BY <1>1, <2>1, <2>2
  <2>4. \A i \in DOMAIN t : t[i] # s[1]
    BY <1>1, <2>1, <2>2
  <2>5. Twice(t) = {}
    BY <2>3 DEF Twice
  <2>6. Head(s) \notin LinesOf(t)
    BY <1>1, <2>4 DEF LinesOf
  <2> QED
    BY <2>5, <2>6
<1>4. ASSUME Increasing(s) PROVE Increasing(t)
  BY SMTT(20), <1>1, <1>4 DEF Increasing
<1> QED
  BY <1>1, <1>2, <1>3, <1>4

LEMMA Joined ==
    ASSUME NEW s \in Seq(Nat), NEW t \in Seq(Nat)
    PROVE  /\ s \o t \in Seq(Nat)
           /\ LinesOf(s \o t) = LinesOf(s) \cup LinesOf(t)
           /\ Twice(s \o t) \subseteq Twice(s) \cup Twice(t) \cup (LinesOf(s) \cap LinesOf(t))
<1> PICK u : u = s \o t
  OBVIOUS
<1>1. /\ u \in Seq(Nat) /\ Len(u) = Len(s) + Len(t) /\ DOMAIN u = 1 .. Len(s) + Len(t)
      /\ DOMAIN s = 1 .. Len(s) /\ DOMAIN t = 1 .. Len(t) /\ Len(s) \in Nat /\ Len(t) \in Nat
      /\ \A i \in 1 .. Len(s) : u[i] = s[i]
      /\ \A i \in 1 .. Len(t) : u[Len(s) + i] = t[i]
  BY ConcatProperties
<1>2. \A i \in DOMAIN u : \/ i \in DOMAIN s /\ u[i] = s[i]
                          \/ i - Len(s) \in DOMAIN t /\ u[i] = t[i - Len(s)] /\ i \notin DOMAIN s
  BY <1>1
<1>3. \A i \in DOMAIN t : Len(s) + i \in DOMAIN u /\ u[Len(s) + i] = t[i]
  BY <1>1
<1>4. \A i \in DOMAIN s : i \in DOMAIN u /\ u[i] = s[i]
  BY <1>1
<1>5. LinesOf(u) = LinesOf(s) \cup LinesOf(t)
  <2>1. ASSUME NEW i \in DOMAIN u PROVE u[i] \in LinesOf(s) \cup LinesOf(t)
    BY <1>2 DEF LinesOf
  <2>2. ASSUME NEW i \in DOMAIN s PROVE s[i] \in LinesOf(u)
    BY <1>4 DEF LinesOf
  <2>3. ASSUME NEW i \in DOMAIN t PROVE t[i] \in LinesOf(u)
    <3>1. Len(s) + i \in DOMAIN u /\ u[Len(s) + i] = t[i]
      BY <1>3
    <3> QED
      BY <3>1, Zenon DEF LinesOf
  <2>4. LinesOf(u) \subseteq LinesOf(s) \cup LinesOf(t)
    BY <2>1 DEF LinesOf
  <2>5. LinesOf(s) \subseteq LinesOf(u)
    BY <2>2 DEF LinesOf
  <2>6. LinesOf(t) \subseteq LinesOf(u)
    BY <2>3 DEF LinesOf
  <2> QED
    BY <2>4, <2>5, <2>6
<1>6. ASSUME NEW x \in Twice(u) PROVE x \in Twice(s) \cup Twice(t) \cup (LinesOf(s) \cap LinesOf(t))
  <2>1. PICK i, j \in DOMAIN u : i # j /\ u[i] = x /\ u[j] = x
    BY DEF Twice
  <2>2. CASE i \in DOMAIN s /\ j \in DOMAIN s
    <3>1. s[i] = x /\ s[j] = x
      BY <1>4, <2>1, <2>2
    <3> QED
      BY <2>1, <2>2, <3>1 DEF Twice, LinesOf
  <2>3. CASE i \notin DOMAIN s /\ j \notin DOMAIN s
    <3>1. PICK k, l \in DOMAIN t : k = i - Len(s) /\ l = j - Len(s) /\ t[k] = x /\ t[l] = x
      BY <1>2, <2>1, <2>3
    <3>2. k # l
      BY <1>1, <2>1, <3>1
    <3>3. x \in LinesOf(t)
      BY <3>1 DEF LinesOf
    <3> QED
      BY <3>1, <3>2, <3>3 DEF Twice
  <2>4. CASE (i \in DOMAIN s /\ j \notin DOMAIN s) \/ (i \notin DOMAIN s /\ j \in DOMAIN s)
    BY <1>2, <2>1, <2>4 DEF LinesOf
  <2> QED
    BY <2>2, <2>3, <2>4
<1> QED
  BY <1>1, <1>5, <1>6

\* An ordered list repeats nothing, and its last line is its greatest.
LEMMA Ordered ==
    ASSUME NEW s \in Seq(Nat), Increasing(s)
    PROVE  /\ Twice(s) = {}
           /\ s # <<>> => s[Len(s)] \in LinesOf(s) /\ \A x \in LinesOf(s) : x <= s[Len(s)]
<1>1. DOMAIN s = 1 .. Len(s) /\ Len(s) \in Nat /\ (s # <<>> => Len(s) \in DOMAIN s)
      /\ \A i \in DOMAIN s : s[i] \in Nat
  OBVIOUS
<1>2. \A i, j \in DOMAIN s : i # j => s[i] # s[j]
  BY <1>1 DEF Increasing
<1>3. \A i \in DOMAIN s : i < Len(s) \/ i = Len(s)
  BY <1>1
<1> QED
  BY <1>1, <1>2, <1>3 DEF Twice, LinesOf, Increasing

\* The lines a filter keeps.
LEMMA PickedLines ==
    ASSUME NEW s \in Seq(Nat), NEW at \in SUBSET DOMAIN s
    PROVE  /\ Pick(s, at) \in Seq(Nat)
           /\ LinesOf(Pick(s, at)) = {s[i] : i \in at}
           /\ Twice(s) = {} => Twice(Pick(s, at)) = {}
<1> PICK p : p = Pick(s, at)
  OBVIOUS
<1>1. p \in Seq(Nat) /\ \E f : Enumerates(f, p, s, at)
  BY PickOf
<1>2. PICK f : Enumerates(f, p, s, at)
  BY <1>1
<1>3. f \in [DOMAIN p -> at] /\ (\A k \in DOMAIN p : p[k] = s[f[k]])
      /\ (\A k, l \in DOMAIN p : k < l => f[k] < f[l]) /\ (\A i \in at : \E k \in DOMAIN p : f[k] = i)
  BY <1>2 DEF Enumerates
<1>4. LinesOf(p) = {s[i] : i \in at}
  BY <1>3 DEF LinesOf
<1>5. ASSUME Twice(s) = {} PROVE Twice(p) = {}
  <2>1. \A i, j \in DOMAIN s : i # j => s[i] # s[j]
    BY <1>5 DEF Twice, LinesOf
  <2>2. DOMAIN p = 1 .. Len(p) /\ Len(p) \in Nat /\ DOMAIN s = 1 .. Len(s) /\ Len(s) \in Nat
    BY <1>1
  <2>3. \A k, l \in DOMAIN p : k # l => f[k] # f[l]
    BY <1>3, <2>2
  <2> QED
    BY <1>3, <2>1, <2>3 DEF Twice, LinesOf
<1> QED
  BY <1>1, <1>4, <1>5

\* The ring keeps the newest lines, and gives up the oldest when it is full.
LEMMA RingOf ==
    ASSUME NEW s \in Seq(Nat), NEW x \in Nat, Increasing(s), Len(s) <= LogCapacity,
           \A y \in LinesOf(s) : y < x
    PROVE  LET n == NewestLines(Append(s, x)) IN
           /\ n \in Seq(Nat) /\ Len(n) <= LogCapacity /\ Increasing(n)
           /\ LinesOf(n) \subseteq LinesOf(s) \cup {x}
           /\ x \in LinesOf(n)
           /\ LinesOf(s) \subseteq LinesOf(n) \cup (IF Len(s) = LogCapacity THEN {Head(s)} ELSE {})
<1> PICK t, n : t = Append(s, x) /\ n = NewestLines(t)
  OBVIOUS
<1>1. /\ t \in Seq(Nat) /\ Len(t) = Len(s) + 1 /\ LinesOf(t) = LinesOf(s) \cup {x} /\ Increasing(t)
      /\ t # <<>> /\ Len(s) \in Nat /\ LogCapacity \in Nat \ {0}
  BY AppendedLine, LogCapacityIsPositive
<1>2. CASE Len(s) < LogCapacity
  BY <1>1, <1>2 DEF NewestLines
<1>3. CASE Len(s) = LogCapacity
  <2>1. n = Tail(t)
    BY <1>1, <1>3, TailIsSubSeq DEF NewestLines
  <2>2. Head(t) = Head(s) /\ Head(s) \in LinesOf(s)
    BY <1>1, <1>3 DEF LinesOf
  <2>3. n \in Seq(Nat) /\ Len(n) = Len(t) - 1 /\ LinesOf(t) = LinesOf(n) \cup {Head(t)} /\ Increasing(n)
    <3>1. t \in Seq(Nat) /\ t # <<>> /\ Increasing(t)
      BY <1>1
    <3>2. Tail(t) \in Seq(Nat) /\ Len(Tail(t)) = Len(t) - 1 /\ LinesOf(t) = LinesOf(Tail(t)) \cup {Head(t)}
          /\ Increasing(Tail(t))
      BY <3>1, WithoutFirst
    <3> QED
      BY <2>1, <3>2
  <2>4. x # Head(s)
    BY <2>2
  <2> QED
    BY <1>1, <1>3, <2>2, <2>3, <2>4
<1> QED
  BY <1>1, <1>2, <1>3

-----------------------------------------------------------------------------
Views == [pc : {"off", "asked", "answered", "seeded"}, epoch : Nat, asked : Nat,
          snapshot : Seq(Nat), cleared : Nat]
LogShapes ==
    /\ lines \in Seq(Nat) /\ wire \in Seq(Nat) /\ held \in Seq(Nat) /\ rows \in Seq(Nat)
    /\ view \in Views /\ view.asked <= view.epoch /\ lineSeq \in Nat /\ emitting \in [Emitters -> Nat]

\* Every line anywhere was logged, and the ring holds the newest in order.
LoggedLines ==
    /\ LinesOf(lines) \cup LinesOf(wire) \cup LinesOf(held) \cup LinesOf(rows)
          \cup LinesOf(view.snapshot) \subseteq 1 .. lineSeq
    /\ \A e \in Emitters : emitting[e] <= lineSeq
    /\ Len(lines) <= LogCapacity /\ Increasing(lines) /\ Increasing(view.snapshot)

\* Until the replay is merged the panel shows nothing.
NothingShown == view.pc # "seeded" => rows = <<>> /\ timer = FALSE

\* A line is in one place of the live stream, and shown before its event
\* came only if the replay raced it.
InFlight(s) == \E e \in Emitters : emitting[e] = s
EventsComeOnce ==
    /\ Twice(held) = {} /\ Twice(wire) = {} /\ LinesOf(held) \cap LinesOf(wire) = {}
    /\ \A e \in Emitters : emitting[e] # Quiet => emitting[e] \notin LinesOf(held) \cup LinesOf(wire)
    /\ \A e, f \in Emitters : emitting[e] = emitting[f] /\ emitting[e] # Quiet => e = f
ShownIsOver ==
    /\ Twice(rows) \subseteq raced
    /\ \A s \in LinesOf(rows) : s \in LinesOf(held) \cup LinesOf(wire) \/ InFlight(s) => s \in raced

\* Before the replay the ring has every line that is not gone; after it the
\* snapshot and the live stream have; without a replay to merge, the live
\* stream.
Current == view.pc \in {"asked", "answered"} /\ view.asked = view.epoch
Live(s) == s \in LinesOf(rows) \cup LinesOf(held) \cup LinesOf(wire) \cup gone \/ InFlight(s)
NothingLost ==
    \A s \in 1 .. lineSeq :
        /\ view.pc = "off" \/ (Current /\ view.pc = "asked") => s \in LinesOf(lines) \cup gone
        /\ view.pc = "seeded" \/ (view.pc \in {"asked", "answered"} /\ ~ Current) => Live(s)
        /\ Current /\ view.pc = "answered" => Live(s) \/ s \in LinesOf(view.snapshot)
SnapshotReaches ==
    Current /\ view.pc = "answered" =>
        /\ \A s \in LinesOf(view.snapshot) : s \in raced \cup LinesOf(held)
        /\ \A s \in 1 .. lineSeq : \A t \in LinesOf(view.snapshot) :
              s <= t => s \in LinesOf(view.snapshot) \cup gone

LogInv == LogShapes /\ LoggedLines /\ NothingShown /\ EventsComeOnce /\ ShownIsOver
          /\ NothingLost /\ SnapshotReaches

-----------------------------------------------------------------------------
LEMMA LogInitially == LogInit => LogInv
<1> SUFFICES ASSUME LogInit PROVE LogInv
  OBVIOUS
<1>1. LogShapes
  BY DEF LogInit, Views, LogShapes, Quiet
<1>2. LinesOf(<<>>) = {} /\ Twice(<<>>) = {} /\ Increasing(<<>>)
  BY EmptyLines
<1>3. lines = <<>> /\ wire = <<>> /\ held = <<>> /\ rows = <<>> /\ view.snapshot = <<>> /\ lineSeq = 0
      /\ view.pc = "off" /\ timer = FALSE /\ \A e \in Emitters : emitting[e] = 0
  BY DEF LogInit, Quiet
<1>4. LoggedLines
  BY <1>2, <1>3, LogCapacityIsPositive DEF LoggedLines
<1>5. EventsComeOnce /\ ShownIsOver /\ NothingShown
  BY <1>2, <1>3 DEF EventsComeOnce, ShownIsOver, Quiet, NothingShown
<1>6. NothingLost /\ SnapshotReaches
  BY <1>3 DEF NothingLost, SnapshotReaches
<1> QED
  BY <1>1, <1>4, <1>5, <1>6 DEF LogInv

LEMMA LogLineKeeps ==
    ASSUME LogInv, NEW e \in Emitters, LogLine(e) PROVE LogInv'
<1> PICK x : x = lineSeq + 1
  OBVIOUS
<1>1. /\ UNCHANGED <<wire, view, held, timer, rows, raced>> /\ lineSeq' = x
      /\ emitting[e] = Quiet /\ emitting' = [emitting EXCEPT ![e] = x]
      /\ lines' = NewestLines(Append(lines, x))
      /\ gone' = IF Len(lines) = LogCapacity /\ view.pc \in {"off", "asked"}
                 THEN gone \cup {Head(lines)} ELSE gone
  BY DEF LogLine
<1>2. x \in Nat /\ x # 0 /\ lineSeq \in Nat /\ x \notin 1 .. lineSeq /\ 1 .. x = (1 .. lineSeq) \cup {x}
      /\ lineSeq <= x
  <2>1. lineSeq \in Nat
    BY DEF LogInv, LogShapes
  <2> QED
    BY <2>1
<1>3. \A y \in LinesOf(lines) : y < x
  BY <1>2 DEF LogInv, LoggedLines
<1>4. /\ lines' \in Seq(Nat) /\ Len(lines') <= LogCapacity /\ Increasing(lines')
      /\ LinesOf(lines') \subseteq LinesOf(lines) \cup {x} /\ x \in LinesOf(lines')
      /\ LinesOf(lines) \subseteq LinesOf(lines') \cup (IF Len(lines) = LogCapacity THEN {Head(lines)} ELSE {})
  BY <1>1, <1>2, <1>3, RingOf DEF LogInv, LogShapes, LoggedLines
<1>5. emitting' \in [Emitters -> Nat] /\ emitting'[e] = x /\ \A f \in Emitters \ {e} : emitting'[f] = emitting[f]
  BY <1>1, <1>2 DEF LogInv, LogShapes
<1>6. LogShapes'
  BY <1>1, <1>2, <1>4, <1>5 DEF LogInv, LogShapes
<1>7. \A f \in Emitters : emitting'[f] <= x
  <2>1. \A f \in Emitters : emitting[f] \in Nat /\ emitting[f] <= lineSeq
    BY DEF LogInv, LoggedLines, LogShapes
  <2> QED
    BY <1>2, <1>5, <2>1
<1>8. LoggedLines'
  BY <1>1, <1>2, <1>4, <1>7 DEF LogInv, LoggedLines
<1>9. \A s \in 1 .. lineSeq : (InFlight(s))' <=> InFlight(s)
  BY <1>1, <1>2, <1>5 DEF InFlight, Quiet
<1>10. \A f \in Emitters : emitting[f] # x
  BY <1>2 DEF LogInv, LoggedLines
<1>11. x \notin LinesOf(held) \cup LinesOf(wire) \cup LinesOf(rows)
  BY <1>2 DEF LogInv, LoggedLines
<1>12. EventsComeOnce'
  BY <1>1, <1>5, <1>10, <1>11 DEF LogInv, EventsComeOnce
<1>13. LinesOf(rows) \subseteq 1 .. lineSeq
  BY DEF LogInv, LoggedLines
<1>14. ShownIsOver' /\ NothingShown'
  BY <1>1, <1>9, <1>13 DEF LogInv, ShownIsOver, NothingShown, LinesOf, Twice
<1>15. InFlight(x)' /\ gone \subseteq gone'
  BY <1>1, <1>5 DEF InFlight
<1>16. \A s \in 1 .. lineSeq : Live(s) => Live(s)'
  BY <1>1, <1>9, <1>15 DEF Live, LinesOf
<1>17. view.pc \in {"off", "asked"} => \A s \in LinesOf(lines) \cup gone : s \in LinesOf(lines') \cup gone'
  BY <1>1, <1>4
<1>18. NothingLost'
  <2> SUFFICES ASSUME NEW s \in 1 .. x
               PROVE  /\ view.pc = "off" \/ (Current /\ view.pc = "asked") => s \in LinesOf(lines') \cup gone'
                      /\ view.pc = "seeded" \/ (view.pc \in {"asked", "answered"} /\ ~ Current) => Live(s)'
                      /\ Current /\ view.pc = "answered" => Live(s)' \/ s \in LinesOf(view.snapshot)
    BY <1>1 DEF NothingLost, Current, LinesOf
  <2>1. CASE s = x
    BY <1>4, <1>15, <2>1 DEF Live
  <2>2. CASE s \in 1 .. lineSeq
    BY <1>16, <1>17, <2>2 DEF LogInv, NothingLost, Current
  <2> QED
    BY <1>2, <2>1, <2>2
<1>19. SnapshotReaches'
  <2>1. \A t \in LinesOf(view.snapshot) : t \in 1 .. lineSeq /\ ~ (x <= t)
    BY <1>2 DEF LogInv, LoggedLines
  <2> QED
    BY <1>1, <1>2, <1>15, <2>1 DEF LogInv, SnapshotReaches, Current, LinesOf
<1> QED
  BY <1>6, <1>8, <1>12, <1>14, <1>18, <1>19 DEF LogInv

LEMMA BroadcastKeeps ==
    ASSUME LogInv, NEW e \in Emitters, Broadcast(e) PROVE LogInv'
<1> PICK x : x = emitting[e]
  OBVIOUS
<1>1. /\ UNCHANGED <<lines, lineSeq, view, held, timer, rows, raced, gone>> /\ x # Quiet
      /\ wire' = IF view.pc = "off" THEN wire ELSE Append(wire, x)
      /\ emitting' = [emitting EXCEPT ![e] = Quiet]
  BY DEF Broadcast
<1>2. emitting' \in [Emitters -> Nat] /\ emitting'[e] = Quiet /\ \A f \in Emitters \ {e} : emitting'[f] = emitting[f]
  BY <1>1 DEF LogInv, LogShapes, Quiet
<1>3. x \in Nat /\ wire \in Seq(Nat) /\ x \in 1 .. lineSeq /\ x \notin LinesOf(held) \cup LinesOf(wire)
  BY <1>1 DEF LogInv, LogShapes, LoggedLines, EventsComeOnce, Quiet
<1>4. /\ wire' \in Seq(Nat) /\ LinesOf(wire) \subseteq LinesOf(wire') /\ LinesOf(wire') \subseteq LinesOf(wire) \cup {x}
      /\ Twice(wire') = Twice(wire)
      /\ view.pc # "off" => x \in LinesOf(wire')
  BY <1>1, <1>3, AppendedLine
<1>5. LogShapes' /\ LoggedLines' /\ NothingShown'
  <2>1. \A f \in Emitters : emitting'[f] <= lineSeq
    <3>1. \A f \in Emitters : emitting[f] \in Nat /\ emitting[f] <= lineSeq
      BY DEF LogInv, LoggedLines, LogShapes
    <3>2. lineSeq \in Nat
      BY DEF LogInv, LogShapes
    <3> QED
      BY <1>2, <3>1, <3>2 DEF Quiet
  <2>2. LogShapes' /\ NothingShown'
    BY <1>1, <1>2, <1>4 DEF LogInv, LogShapes, NothingShown
  <2>3. LinesOf(wire') \subseteq 1 .. lineSeq
    BY <1>3, <1>4 DEF LogInv, LoggedLines
  <2>4. LoggedLines'
    BY <1>1, <2>1, <2>3 DEF LogInv, LoggedLines
  <2> QED
    BY <2>2, <2>4
<1>6. EventsComeOnce'
  BY <1>1, <1>2, <1>3, <1>4 DEF LogInv, EventsComeOnce
<1>7. \A s : (InFlight(s))' /\ s # 0 => InFlight(s) /\ (InFlight(s) => s = x \/ InFlight(s)')
  BY <1>2 DEF InFlight, Quiet
<1>8. ShownIsOver'
  BY <1>1, <1>4, <1>7 DEF LogInv, LoggedLines, InFlight, ShownIsOver
<1>9. \A s \in 1 .. lineSeq : view.pc # "off" /\ Live(s) => Live(s)'
  BY <1>1, <1>2, <1>4 DEF Live, InFlight
<1>10. NothingLost' /\ SnapshotReaches'
  BY <1>1, <1>9 DEF LogInv, LogShapes, Views, NothingLost, SnapshotReaches, Current
<1> QED
  BY <1>5, <1>6, <1>8, <1>10 DEF LogInv

LEMMA ReceiveKeeps == ASSUME LogInv, Receive PROVE LogInv'
<1> PICK x : x = Head(wire)
  OBVIOUS
<1>1. /\ UNCHANGED <<lines, lineSeq, emitting, view, rows, raced, gone>> /\ wire # <<>>
      /\ wire' = Tail(wire) /\ held' = Append(held, x) /\ timer' = (timer \/ view.pc = "seeded")
  BY DEF Receive
<1>2. /\ wire' \in Seq(Nat) /\ x \in Nat /\ LinesOf(wire) = LinesOf(wire') \cup {x}
      /\ Twice(wire') = {} /\ x \notin LinesOf(wire')
  BY <1>1, WithoutFirst DEF LogInv, LogShapes, EventsComeOnce
<1>3. x \notin LinesOf(held)
  BY <1>2 DEF LogInv, EventsComeOnce
<1>4. /\ held' \in Seq(Nat) /\ LinesOf(held') = LinesOf(held) \cup {x} /\ Twice(held') = Twice(held)
  BY <1>1, <1>2, <1>3, AppendedLine DEF LogInv, LogShapes
<1>5. LogShapes' /\ LoggedLines' /\ NothingShown'
  <2>1. LogShapes' /\ NothingShown'
    BY <1>1, <1>2, <1>4 DEF LogInv, LogShapes, NothingShown
  <2>2. LinesOf(held') \cup LinesOf(wire') = LinesOf(held) \cup LinesOf(wire)
    BY <1>2, <1>4
  <2>3. LoggedLines'
    BY <1>1, <2>2 DEF LogInv, LoggedLines
  <2> QED
    BY <2>1, <2>3
<1>6. LinesOf(held') \cup LinesOf(wire') = LinesOf(held) \cup LinesOf(wire)
  BY <1>2, <1>4
<1>7. EventsComeOnce'
  BY <1>1, <1>2, <1>4, <1>6 DEF LogInv, EventsComeOnce
<1>8. ShownIsOver'
  BY <1>1, <1>6 DEF LogInv, ShownIsOver, InFlight
<1>9. NothingLost' /\ SnapshotReaches'
  BY <1>1, <1>4, <1>6 DEF LogInv, NothingLost, SnapshotReaches, Current, Live, InFlight
<1> QED
  BY <1>5, <1>7, <1>8, <1>9 DEF LogInv

LEMMA ListenKeeps == ASSUME LogInv, Listen PROVE LogInv'
<1>1. /\ UNCHANGED <<lines, lineSeq, emitting, wire, held, timer, rows, raced, gone>>
      /\ view.pc = "off" /\ view' = [view EXCEPT !.pc = "asked", !.asked = view.epoch]
  BY DEF Listen
<1>2. view' \in Views /\ view'.pc = "asked" /\ view'.asked = view.epoch /\ view'.epoch = view.epoch
      /\ view'.snapshot = view.snapshot /\ view.epoch \in Nat
  BY <1>1 DEF LogInv, LogShapes, Views
<1>3. LogShapes' /\ LoggedLines' /\ NothingShown'
  BY <1>1, <1>2 DEF LogInv, LogShapes, LoggedLines, NothingShown
<1>4. EventsComeOnce' /\ ShownIsOver'
  BY <1>1 DEF LogInv, EventsComeOnce, ShownIsOver, InFlight
<1>5. NothingLost' /\ SnapshotReaches'
  BY <1>1, <1>2 DEF LogInv, NothingLost, SnapshotReaches, Current
<1> QED
  BY <1>3, <1>4, <1>5 DEF LogInv

LEMMA ReplayKeeps == ASSUME LogInv, Replay PROVE LogInv'
<1>1. /\ UNCHANGED <<lines, lineSeq, emitting, wire, held, timer, rows, gone>>
      /\ view.pc = "asked" /\ view' = [view EXCEPT !.pc = "answered", !.snapshot = lines]
      /\ raced' = LinesOf(lines) \ LinesOf(held)
  BY DEF Replay
<1>2. view' \in Views /\ view'.pc = "answered" /\ view'.asked = view.asked /\ view'.epoch = view.epoch
      /\ view'.snapshot = lines
  BY <1>1 DEF LogInv, LogShapes, Views
<1>3. LogShapes' /\ LoggedLines' /\ NothingShown'
  BY <1>1, <1>2 DEF LogInv, LogShapes, LoggedLines, NothingShown
<1>4. EventsComeOnce'
  BY <1>1 DEF LogInv, EventsComeOnce
<1>5. ShownIsOver'
  BY <1>1, EmptyLines DEF LogInv, NothingShown, ShownIsOver
<1>6. \A s \in 1 .. lineSeq : /\ Current => s \in LinesOf(lines) \cup gone
                              /\ ~ Current => Live(s)
  BY <1>1 DEF LogInv, NothingLost
<1>7. Current' = Current /\ \A s : Live(s)' = Live(s)
  BY <1>1, <1>2 DEF Current, Live, InFlight
<1>8. \A s \in 1 .. lineSeq : s \in gone => Live(s)
  BY DEF Live
<1>9. NothingLost'
  BY <1>1, <1>2, <1>6, <1>7, <1>8 DEF NothingLost
<1>10. SnapshotReaches'
  BY <1>1, <1>2, <1>6, <1>7 DEF SnapshotReaches
<1> QED
  BY <1>3, <1>4, <1>5, <1>9, <1>10 DEF LogInv

\* What the steps of the panel's subscription do to its record.
LEMMA ViewSteps ==
    ASSUME NEW v \in Views
    PROVE  /\ LET w == [v EXCEPT !.pc = "seeded", !.snapshot = <<>>]
              IN /\ w \in Views /\ w.pc = "seeded" /\ w.asked = v.asked /\ w.epoch = v.epoch
                 /\ w.snapshot = <<>>
           /\ LET w == [v EXCEPT !.pc = "seeded"]
              IN /\ w \in Views /\ w.pc = "seeded" /\ w.asked = v.asked /\ w.epoch = v.epoch
                 /\ w.snapshot = v.snapshot
           /\ LET w == [v EXCEPT !.epoch = @ + 1, !.cleared = @ + 1]
              IN /\ w \in Views /\ w.pc = v.pc /\ w.asked = v.asked /\ w.epoch = v.epoch + 1
                 /\ w.snapshot = v.snapshot
<1>1. /\ v.epoch \in Nat /\ v.asked \in Nat /\ v.cleared \in Nat /\ v.snapshot \in Seq(Nat)
      /\ v.pc \in {"off", "asked", "answered", "seeded"} /\ <<>> \in Seq(Nat)
  BY DEF Views
<1>2. ASSUME NEW w, w = [v EXCEPT !.pc = "seeded", !.snapshot = <<>>]
      PROVE  /\ w \in Views /\ w.pc = "seeded" /\ w.asked = v.asked /\ w.epoch = v.epoch
             /\ w.snapshot = <<>>
  BY <1>1, <1>2 DEF Views
<1>3. ASSUME NEW w, w = [v EXCEPT !.pc = "seeded"]
      PROVE  /\ w \in Views /\ w.pc = "seeded" /\ w.asked = v.asked /\ w.epoch = v.epoch
             /\ w.snapshot = v.snapshot
  BY <1>1, <1>3 DEF Views
<1>4. ASSUME NEW w, w = [v EXCEPT !.epoch = @ + 1, !.cleared = @ + 1]
      PROVE  /\ w \in Views /\ w.pc = v.pc /\ w.asked = v.asked /\ w.epoch = v.epoch + 1
             /\ w.snapshot = v.snapshot
  <2>1. PICK e, c \in Nat : e = v.epoch + 1 /\ c = v.cleared + 1
    BY <1>1
  <2>2. w = [v EXCEPT !.epoch = e, !.cleared = c]
    BY <1>4, <2>1
  <2> QED
    BY <1>1, <2>1, <2>2 DEF Views
<1> QED
  BY <1>2, <1>3, <1>4

\* The merge: what the snapshot covers is dropped from the held lines.
LEMMA MergeKeeps ==
    ASSUME LogInv, Seed, view.asked = view.epoch PROVE LogInv'
<1> PICK snap, through : /\ snap = view.snapshot
                         /\ through = IF view.snapshot = <<>> THEN 0 ELSE view.snapshot[Len(view.snapshot)]
  OBVIOUS
<1> PICK at, kept : at = {i \in DOMAIN held : held[i] > through} /\ kept = Pick(held, at)
  OBVIOUS
<1>1. /\ UNCHANGED <<lines, lineSeq, emitting, wire, timer, gone>>
      /\ view.pc = "answered" /\ view' = [view EXCEPT !.pc = "seeded", !.snapshot = <<>>]
      /\ rows' = snap \o kept /\ held' = <<>> /\ raced' = raced \ LinesOf(held)
  BY DEF Seed
<1>2. view' \in Views /\ view'.pc = "seeded" /\ view'.asked = view.asked /\ view'.epoch = view.epoch
      /\ view'.snapshot = <<>> /\ snap \in Seq(Nat)
  BY <1>1, ViewSteps DEF LogInv, LogShapes, Views
<1>3. Current /\ rows = <<>> /\ LinesOf(rows) = {}
  BY <1>1, EmptyLines DEF Current, LogInv, NothingShown
<1>4. held \in Seq(Nat) /\ lineSeq \in Nat /\ LinesOf(held) \subseteq 1 .. lineSeq
      /\ LinesOf(snap) \subseteq 1 .. lineSeq /\ Twice(held) = {} /\ Increasing(snap)
  BY DEF LogInv, LogShapes, LoggedLines, EventsComeOnce
<1>5. /\ kept \in Seq(Nat) /\ LinesOf(kept) = {held[i] : i \in at} /\ Twice(kept) = {}
  BY <1>4, PickedLines
<1>6. \A s \in LinesOf(kept) : s \in LinesOf(held) /\ s > through
  BY <1>5 DEF LinesOf
<1>7. \A s \in LinesOf(held) : s > through => s \in LinesOf(kept)
  BY <1>5 DEF LinesOf
<1>8. Twice(snap) = {} /\ through \in Nat /\ (\A s \in LinesOf(snap) : s <= through)
      /\ (through # 0 => through \in LinesOf(snap))
  BY <1>2, <1>4, EmptyLines, Ordered
<1>9. LinesOf(snap) \cap LinesOf(kept) = {}
  BY <1>4, <1>6, <1>8
<1>10. rows' \in Seq(Nat) /\ LinesOf(rows') = LinesOf(snap) \cup LinesOf(kept) /\ Twice(rows') = {}
  BY <1>1, <1>2, <1>5, <1>8, <1>9, Joined
<1>11. LinesOf(held') = {} /\ Twice(held') = {} /\ LinesOf(view'.snapshot) = {} /\ Increasing(view'.snapshot)
  BY <1>1, <1>2, EmptyLines
<1>12. LogShapes' /\ NothingShown'
  BY <1>1, <1>2, <1>10 DEF LogInv, LogShapes, NothingShown
<1>13. LoggedLines'
  <2>1. LinesOf(rows') \subseteq 1 .. lineSeq
    BY <1>4, <1>6, <1>10
  <2> QED
    BY <1>1, <1>11, <2>1 DEF LogInv, LoggedLines
<1>14. EventsComeOnce'
  BY <1>1, <1>11 DEF LogInv, EventsComeOnce
<1>15. ShownIsOver'
  <2> SUFFICES ASSUME NEW s \in LinesOf(rows'), s \in LinesOf(wire) \/ InFlight(s)
               PROVE  s \in raced \ LinesOf(held)
    BY <1>1, <1>10, <1>11 DEF ShownIsOver, InFlight
  <2>1. s \in 1 .. lineSeq /\ s # 0
    BY <1>4, <1>6, <1>10
  <2>2. s \notin LinesOf(held)
    BY <2>1 DEF LogInv, EventsComeOnce, InFlight, Quiet
  <2>3. s \in LinesOf(snap)
    BY <1>6, <1>10, <2>2
  <2> QED
    BY <1>1, <1>3, <2>2, <2>3 DEF LogInv, SnapshotReaches
<1>16. NothingLost'
  <2> SUFFICES ASSUME NEW s \in 1 .. lineSeq PROVE Live(s)'
    BY <1>1, <1>2 DEF NothingLost, Current
  <2>1. Live(s) \/ s \in LinesOf(snap)
    BY <1>1, <1>3 DEF LogInv, NothingLost
  <2>2. CASE s \in LinesOf(held) /\ s > through
    BY <1>7, <1>10, <2>2 DEF Live
  <2>3. CASE s \in LinesOf(held) /\ ~ (s > through)
    BY <1>1, <1>3, <1>4, <1>8, <1>10, <2>3 DEF LogInv, SnapshotReaches, Live
  <2>4. CASE s \in LinesOf(wire) \cup gone \/ InFlight(s)
    BY <1>1, <2>4 DEF Live, InFlight
  <2>5. CASE s \in LinesOf(snap)
    BY <1>10, <2>5 DEF Live
  <2> QED
    BY <1>3, <2>1, <2>2, <2>3, <2>4, <2>5 DEF Live
<1>17. SnapshotReaches'
  BY <1>2 DEF SnapshotReaches, Current
<1> QED
  BY <1>12, <1>13, <1>14, <1>15, <1>16, <1>17 DEF LogInv

\* The replay is void or failed: the live stream goes on alone.
LEMMA AloneKeeps ==
    ASSUME LogInv, (Seed /\ view.asked # view.epoch) \/ SeedFailed PROVE LogInv'
<1>1. /\ UNCHANGED <<lines, lineSeq, emitting, wire, held, timer, rows, raced>> /\ gone \subseteq gone'
      /\ view.pc \in {"asked", "answered"}
  BY DEF Seed, SeedFailed
<1>2. view' \in Views /\ view'.pc = "seeded" /\ view'.asked = view.asked /\ view'.epoch = view.epoch
      /\ (view'.snapshot = <<>> \/ view'.snapshot = view.snapshot)
  <2>1. CASE Seed
    BY <2>1, ViewSteps DEF Seed, LogInv, LogShapes
  <2>2. CASE SeedFailed
    BY <2>2, ViewSteps DEF SeedFailed, LogInv, LogShapes
  <2> QED
    BY <2>1, <2>2
<1>3. LogShapes' /\ NothingShown'
  BY <1>1, <1>2 DEF LogInv, LogShapes, NothingShown
<1>4. LinesOf(view'.snapshot) \subseteq LinesOf(view.snapshot) /\ Increasing(view'.snapshot)
  BY <1>2, EmptyLines DEF LogInv, LoggedLines
<1>5. LoggedLines'
  BY <1>1, <1>4 DEF LogInv, LoggedLines
<1>6. EventsComeOnce' /\ ShownIsOver'
  BY <1>1 DEF LogInv, EventsComeOnce, ShownIsOver, InFlight
<1>7. \A s \in 1 .. lineSeq : Live(s)'
  BY <1>1 DEF Seed, LogInv, NothingLost, Current, Live, InFlight, SeedFailed
<1>8. NothingLost' /\ SnapshotReaches'
  BY <1>1, <1>2, <1>7 DEF NothingLost, SnapshotReaches, Current
<1> QED
  BY <1>3, <1>5, <1>6, <1>8 DEF LogInv

LEMMA FlushKeeps == ASSUME LogInv, Flush PROVE LogInv'
<1>1. /\ UNCHANGED <<lines, lineSeq, emitting, wire, view, raced, gone>>
      /\ timer /\ timer' = FALSE /\ rows' = rows \o held /\ held' = <<>>
  BY DEF Flush
<1>2. view.pc = "seeded"
  BY <1>1 DEF LogInv, NothingShown
<1>3. /\ rows' \in Seq(Nat) /\ LinesOf(rows') = LinesOf(rows) \cup LinesOf(held)
      /\ Twice(rows') \subseteq Twice(rows) \cup Twice(held) \cup (LinesOf(rows) \cap LinesOf(held))
  BY <1>1, Joined DEF LogInv, LogShapes
<1>4. LinesOf(held') = {} /\ Twice(held') = {}
  BY <1>1, EmptyLines
<1>5. LogShapes' /\ LoggedLines' /\ NothingShown'
  BY <1>1, <1>2, <1>3, <1>4 DEF LogInv, LogShapes, LoggedLines, NothingShown
<1>6. EventsComeOnce'
  BY <1>1, <1>4 DEF LogInv, EventsComeOnce
<1>7. ShownIsOver'
  BY <1>1, <1>3, <1>4 DEF LogInv, EventsComeOnce, ShownIsOver, LoggedLines, Quiet, InFlight
<1>8. NothingLost' /\ SnapshotReaches'
  BY <1>1, <1>2, <1>3 DEF LogInv, NothingLost, SnapshotReaches, Current, Live, InFlight
<1> QED
  BY <1>5, <1>6, <1>7, <1>8 DEF LogInv

LEMMA ClearKeepsLog == ASSUME LogInv, ClearView \/ ClearRingCopy PROVE LogInv'
<1>1. CASE ClearView
  <2>1. /\ UNCHANGED <<lines, lineSeq, emitting, wire, raced>>
        /\ held' = <<>> /\ timer' = FALSE /\ rows' = <<>> /\ gone' = gone \cup (1 .. lineSeq)
        /\ view.pc # "off" /\ view' = [view EXCEPT !.epoch = @ + 1, !.cleared = @ + 1]
    BY <1>1 DEF ClearView
  <2>2. view' \in Views /\ view'.pc = view.pc /\ view'.asked = view.asked /\ view'.epoch = view.epoch + 1
        /\ view'.snapshot = view.snapshot /\ view.asked # view.epoch + 1 /\ view.asked <= view.epoch + 1
    <3>1. view \in Views /\ view.asked <= view.epoch /\ view.asked \in Nat /\ view.epoch \in Nat
      BY DEF LogInv, LogShapes, Views
    <3>2. LET w == [view EXCEPT !.epoch = @ + 1, !.cleared = @ + 1]
          IN /\ w \in Views /\ w.pc = view.pc /\ w.asked = view.asked /\ w.epoch = view.epoch + 1
             /\ w.snapshot = view.snapshot
      BY <3>1, ViewSteps
    <3> QED
      BY <2>1, <3>1, <3>2
  <2>3. LinesOf(held') = {} /\ Twice(held') = {} /\ LinesOf(rows') = {} /\ Twice(rows') = {}
    BY <2>1, EmptyLines
  <2>4. LogShapes' /\ LoggedLines' /\ NothingShown'
    BY <2>1, <2>2, <2>3 DEF LogInv, LogShapes, LoggedLines, NothingShown
  <2>5. EventsComeOnce' /\ ShownIsOver'
    BY <2>1, <2>3 DEF LogInv, EventsComeOnce, ShownIsOver
  <2>6. NothingLost' /\ SnapshotReaches'
    BY <2>1, <2>2 DEF NothingLost, SnapshotReaches, Current, Live
  <2> QED
    BY <2>4, <2>5, <2>6 DEF LogInv
<1>2. CASE ClearRingCopy
  <2>1. /\ UNCHANGED <<lineSeq, emitting, wire, view, held, timer, rows, raced>> /\ lines' = <<>>
        /\ gone' = IF view.pc \in {"off", "asked"} THEN gone \cup LinesOf(lines) ELSE gone
    BY <1>2 DEF ClearRingCopy
  <2>2. LinesOf(lines') = {} /\ Increasing(lines') /\ Len(lines') <= LogCapacity /\ lines' \in Seq(Nat)
    BY <2>1, EmptyLines, LogCapacityIsPositive
  <2>3. LogShapes' /\ LoggedLines' /\ NothingShown'
    BY <2>1, <2>2 DEF LogInv, LogShapes, LoggedLines, NothingShown
  <2>4. EventsComeOnce' /\ ShownIsOver'
    BY <2>1 DEF LogInv, EventsComeOnce, ShownIsOver, InFlight
  <2>5. NothingLost' /\ SnapshotReaches'
    BY <2>1 DEF LogInv, NothingLost, SnapshotReaches, Current, Live, InFlight
  <2> QED
    BY <2>3, <2>4, <2>5 DEF LogInv
<1> QED
  BY <1>1, <1>2

LEMMA LogKeeps == LogInv /\ [LogNext]_logVars => LogInv'
<1> SUFFICES ASSUME LogInv, [LogNext]_logVars PROVE LogInv'
  OBVIOUS
<1>1. CASE UNCHANGED logVars
  BY <1>1 DEF logVars, LogInv, LogShapes, LoggedLines, NothingShown, EventsComeOnce, ShownIsOver, InFlight,
     NothingLost, Current, Live, SnapshotReaches
<1>2. ASSUME NEW e \in Emitters, LogLine(e) \/ Broadcast(e) PROVE LogInv'
  BY <1>2, LogLineKeeps, BroadcastKeeps
<1>3. CASE Listen \/ Replay \/ Receive
  BY <1>3, ListenKeeps, ReplayKeeps, ReceiveKeeps
<1>4. CASE Seed \/ SeedFailed
  BY <1>4, MergeKeeps, AloneKeeps
<1>5. CASE Flush \/ ClearView \/ ClearRingCopy
  BY <1>5, FlushKeeps, ClearKeepsLog
<1> QED
  BY <1>1, <1>2, <1>3, <1>4, <1>5 DEF LogNext

(* The replay of the runtime log and its live stream make one list: no     *)
(* line is missing from it, and one is shown twice only when the replay    *)
(* raced its event (emitLog of runtime_log.go, seedLogs of engine.ts).     *)
THEOREM ReplayAndStreamMerge == LogSpec => []LogReplayMerges
<1>1. LogInv => LogReplayMerges
  <2> SUFFICES ASSUME LogInv PROVE LogReplayMerges
    OBVIOUS
  <2>1. NoLineIsMissing
    BY DEF LogInv, NothingLost, Live, InFlight, NoLineIsMissing
  <2>2. OnlyRacedLinesRepeat
    BY DEF LogInv, ShownIsOver, Twice, LinesOf, OnlyRacedLinesRepeat
  <2> QED
    BY <2>1, <2>2 DEF LogReplayMerges
<1> QED
  BY <1>1, LogInitially, LogKeeps, PTL DEF LogSpec

-----------------------------------------------------------------------------
(* The pause policy (PausePolicy)                                           *)

\* What the records hold.
Policies == [enabled : BOOLEAN, known : BOOLEAN, busy : BOOLEAN]
Setters == [step : {"none", "enable", "skip", "resume"}, id : Nat, prev : BOOLEAN]
PeerShapes == [on : BOOLEAN, has : BOOLEAN, policy : Policies, reloaded : BOOLEAN,
               paused : BOOLEAN, setter : Setters, stray : BOOLEAN]
Orders == [op : {"enable", "skip", "resume", "other"}, value : BOOLEAN, id : Nat]
Notices == [op : {"paused", "resumed", "rebuilt"}] \cup [op : {"reply"}, id : Nat, ok : BOOLEAN]
RealmShapes == [skip : BOOLEAN, stopped : BOOLEAN, out : Seq(Orders), in : Seq(Notices)]

\* A command that changes the setting, and a frame that ends a pause.
Sets(verb) == verb \in {"skip", "other"}
Ends(verb) == verb \in {"resumed", "rebuilt"}

\* The commands are numbered as they are sent, n of them by now; the one the
\* call of p awaits is its step, with the choice of p.
CommandsNumbered(p, r, n) ==
    /\ p.setter.step # "none" => p.setter.id \in 1 .. n
    /\ \A i \in DOMAIN r.out :
          /\ r.out[i].id <= n /\ (r.out[i].op # "other" => r.out[i].id # 0)
          /\ p.setter.step # "none" /\ r.out[i].id = p.setter.id =>
                r.out[i].op = p.setter.step /\ r.out[i].value = p.policy.enabled
    /\ \A i \in DOMAIN r.in : r.in[i].op = "reply" => r.in[i].id \in 1 .. n

\* The shown state of p: a call exactly while it is busy, and no policy, known
\* or being set, before one was chosen.
Shown(p) ==
    /\ p.policy.busy <=> p.setter.step # "none"
    /\ p.setter.step = "none" => p.setter = NoSetter
    /\ p.policy.known \/ p.policy.busy => p.has
    /\ ~ (p.policy.known /\ p.policy.busy)

\* The ith frame is the acknowledgement the call awaits.
Confirms(p, r, i) == r.in[i].op = "reply" /\ r.in[i].id = p.setter.id /\ r.in[i].ok

\* The target has set the choice, as far as the call is concerned.
ChoiceIsSet(p, r) ==
    \/ p.policy.known \/ p.setter.step = "resume"
    \/ p.setter.step = "skip" /\ \E i \in DOMAIN r.in : Confirms(p, r, i)

NoReload(r) == \A i \in DOMAIN r.in : r.in[i].op # "rebuilt"
Untouched(p, r) == ~ p.stray /\ NoReload(r)

\* The setting is the choice, and nothing on its way changes it.
InForce(p, r) ==
    ChoiceIsSet(p, r) /\ Untouched(p, r) =>
        r.skip = p.policy.enabled /\ \A i \in DOMAIN r.out : ~ Sets(r.out[i].op)

\* Nothing is behind the command that sets the choice.
LastWord(p, r) ==
    p.setter.step = "skip" /\ ~ p.stray =>
        \A i \in DOMAIN r.out : r.out[i].id = p.setter.id =>
            \A j \in DOMAIN r.out : j > i => ~ Sets(r.out[j].op)

\* The bridge will hear of a pause, from a frame behind the ith.
Announced(r, i) ==
    \E j \in DOMAIN r.in :
        /\ j > i /\ r.in[j].op = "paused"
        /\ \A k \in DOMAIN r.in : k > j => ~ Ends(r.in[k].op)

\* A stopped target is known to be, or will be.
StopIsHeard(p, r) ==
    r.stopped =>
        \/ Announced(r, 0)
        \/ p.paused /\ \A i \in DOMAIN r.in : ~ Ends(r.in[i].op)

\* Once the pauses are skipped no other comes.
NoPauseBehind(p, r) ==
    p.setter.step = "skip" /\ p.policy.enabled /\ Untouched(p, r) =>
        \A i, j \in DOMAIN r.in : Confirms(p, r, i) /\ j > i => r.in[j].op # "paused"

\* Once it is resumed, a target that stops says so.
ResumeIsHeard(p, r) ==
    p.setter.step = "resume" =>
        \A i \in DOMAIN r.in : Confirms(p, r, i) =>
            /\ r.stopped => Announced(r, i)
            /\ Untouched(p, r) => ~ (r.skip /\ r.stopped)

\* A peer whose pauses are skipped runs.
KnownRuns(p, r) == p.policy.known /\ Untouched(p, r) => ~ (r.skip /\ r.stopped)

Tells(p, r, n) ==
    /\ CommandsNumbered(p, r, n) /\ Shown(p) /\ InForce(p, r) /\ LastWord(p, r)
    /\ StopIsHeard(p, r) /\ NoPauseBehind(p, r) /\ ResumeIsHeard(p, r) /\ KnownRuns(p, r)

PauseShape ==
    /\ lock \in [enabled : BOOLEAN, target : Nat]
    /\ lock.target = 0 \/ lock.target \in Connected
    /\ peer \in [Peers -> PeerShapes] /\ runtime \in [Peers -> RealmShapes]
    /\ spent \in [peers : Nat, commands : Nat, events : Nat]
    /\ \A c \in Peers : ~ peer[c].on => peer[c] = NoPeer /\ runtime[c] = NoRealm
    /\ \A c \in Peers : c > spent.peers => ~ peer[c].on

\* What holds of a peer whatever its call is at.
Stands(p, r, n) == CommandsNumbered(p, r, n) /\ Shown(p) /\ StopIsHeard(p, r)

PauseInv ==
    /\ PauseShape
    /\ \A c \in Peers : Tells(peer[c], runtime[c], spent.commands)
    /\ LockedIsReconfirmed

USE PauseSizes

-----------------------------------------------------------------------------
\* Sequences of frames and of commands.
LEMMA ReadingOne ==
    ASSUME NEW s \in Seq(Notices), s # <<>>
    PROVE  /\ Tail(s) \in Seq(Notices) /\ 1 \in DOMAIN s /\ Head(s) = s[1] /\ DOMAIN s \subseteq Nat \ {0}
           /\ \A i \in DOMAIN Tail(s) : i \in Nat \ {0} /\ i + 1 \in DOMAIN s /\ Tail(s)[i] = s[i + 1]
           /\ \A i \in DOMAIN s : i # 1 => i - 1 \in DOMAIN Tail(s) /\ Tail(s)[i - 1] = s[i]
<1>1. /\ Tail(s) \in Seq(Notices) /\ Len(Tail(s)) = Len(s) - 1
      /\ \A i \in 1 .. Len(Tail(s)) : Tail(s)[i] = s[i + 1]
  BY HeadTailProperties
<1>2. Len(s) \in Nat \ {0} /\ DOMAIN s = 1 .. Len(s) /\ Head(s) = s[1]
  BY LenProperties, EmptySeq, HeadTailProperties
<1>3. DOMAIN Tail(s) = 1 .. Len(s) - 1
  BY <1>1, LenProperties
<1> QED
  BY <1>1, <1>2, <1>3

LEMMA AddingOne ==
    ASSUME NEW S, NEW s \in Seq(S), NEW x \in S
    PROVE  /\ Append(s, x) \in Seq(S) /\ Len(s) \in Nat
           /\ DOMAIN s = 1 .. Len(s) /\ DOMAIN Append(s, x) = 1 .. Len(s) + 1
           /\ \A i \in 1 .. Len(s) : Append(s, x)[i] = s[i]
           /\ Append(s, x)[Len(s) + 1] = x
<1>1. /\ Append(s, x) \in Seq(S) /\ Len(Append(s, x)) = Len(s) + 1
      /\ \A i \in 1 .. Len(s) : Append(s, x)[i] = s[i]
      /\ Append(s, x)[Len(s) + 1] = x
  BY AppendProperties
<1> QED
  BY <1>1, LenProperties

-----------------------------------------------------------------------------
\* One peer and its target.

\* What the numbers say stays true as others send commands.
LEMMA NumbersGrow ==
    ASSUME NEW p \in PeerShapes, NEW r \in RealmShapes, NEW n \in Nat, NEW m \in Nat, n <= m,
           Tells(p, r, n)
    PROVE  Tells(p, r, m)
<1>1. p.setter.id \in Nat /\ r.out \in Seq(Orders) /\ r.in \in Seq(Notices)
  BY DEF PeerShapes, Setters, RealmShapes
<1>2. CommandsNumbered(p, r, n)
  BY DEF Tells
<1>3. CommandsNumbered(p, r, m)
  <2>1. p.setter.step # "none" => p.setter.id \in 1 .. m
    BY <1>1, <1>2 DEF CommandsNumbered
  <2>2. \A i \in DOMAIN r.out : r.out[i].id \in Nat
    <3>1. \A i \in DOMAIN r.out : r.out[i] \in Orders
      BY <1>1, ElementOfSeq, LenProperties
    <3> QED
      BY <3>1 DEF Orders
  <2>3. \A i \in DOMAIN r.out : r.out[i].id <= m /\ (r.out[i].op # "other" => r.out[i].id # 0)
    BY <1>2, <2>2 DEF CommandsNumbered
  <2>4. \A i \in DOMAIN r.in : r.in[i].op = "reply" => r.in[i].id \in 1 .. m
    BY <1>2 DEF CommandsNumbered
  <2> QED
    BY <1>2, <2>1, <2>3, <2>4 DEF CommandsNumbered
<1> QED
  BY <1>3 DEF Tells

\* A peer without a call, whose policy is not known, has nothing to keep but
\* what it heard of its pauses.
LEMMA NothingIsPromised ==
    ASSUME NEW p \in PeerShapes, NEW r \in RealmShapes, NEW n \in Nat, Stands(p, r, n),
           NEW q \in PeerShapes, NEW t \in RealmShapes,
           q.setter = NoSetter, q.policy.known = FALSE, q.policy.busy = FALSE,
           q.paused = p.paused, t.in = r.in, t.stopped = r.stopped,
           \A i \in DOMAIN t.out : t.out[i].id <= n /\ (t.out[i].op # "other" => t.out[i].id # 0)
    PROVE  Tells(q, t, n)
<1>1. q.setter.step = "none"
  BY DEF NoSetter
<1>2. CommandsNumbered(q, t, n)
  BY <1>1 DEF Stands, CommandsNumbered
<1>3. Shown(q)
  BY <1>1 DEF Shown
<1>4. StopIsHeard(q, t)
  BY DEF Stands, StopIsHeard, Announced
<1>5. ~ ChoiceIsSet(q, t)
  BY <1>1 DEF ChoiceIsSet
<1> QED
  BY <1>1, <1>2, <1>3, <1>4, <1>5
     DEF Tells, InForce, LastWord, NoPauseBehind, ResumeIsHeard, KnownRuns

\* The first command of a call settles nothing yet.
LEMMA CallBegins ==
    ASSUME NEW p \in PeerShapes, NEW r \in RealmShapes, NEW n \in Nat, Stands(p, r, n),
           NEW q \in PeerShapes, NEW t \in RealmShapes, NEW cmd \in Orders,
           q.setter.step = "enable", q.setter.id = n + 1, q.policy.known = FALSE,
           q.policy.busy = TRUE, q.has = TRUE, q.paused = p.paused,
           cmd.op = "enable", cmd.value = q.policy.enabled, cmd.id = n + 1,
           t.out = Append(r.out, cmd), t.in = r.in, t.stopped = r.stopped
    PROVE  Tells(q, t, n + 1)
<1>1. r.out \in Seq(Orders) /\ r.in \in Seq(Notices)
  BY DEF RealmShapes
<1>2. CommandsNumbered(q, t, n + 1)
  <2>1. ASSUME NEW i \in DOMAIN t.out
        PROVE  /\ t.out[i].id <= n + 1 /\ (t.out[i].id = n + 1 => t.out[i] = cmd)
               /\ t.out[i].op # "other" => t.out[i].id # 0
    <3>1. /\ Len(r.out) \in Nat /\ DOMAIN r.out = 1 .. Len(r.out) /\ i \in 1 .. Len(r.out) + 1
          /\ \A j \in 1 .. Len(r.out) : t.out[j] = r.out[j]
          /\ t.out[Len(r.out) + 1] = cmd
      BY <1>1, AddingOne
    <3>2. CASE i = Len(r.out) + 1
      BY <3>1, <3>2
    <3>3. CASE i \in 1 .. Len(r.out)
      <4>1. t.out[i] = r.out[i] /\ r.out[i] \in Orders
        BY <1>1, <3>1, <3>3, ElementOfSeq
      <4>2. r.out[i].id \in Nat /\ r.out[i].id <= n /\ (r.out[i].op # "other" => r.out[i].id # 0)
        BY <3>1, <3>3, <4>1 DEF Stands, CommandsNumbered, Orders
      <4> QED
        BY <4>1, <4>2
    <3> QED
      BY <3>1, <3>2, <3>3
  <2>2. \A i \in DOMAIN t.in : t.in[i].op = "reply" => t.in[i].id \in 1 .. n + 1
    BY DEF Stands, CommandsNumbered
  <2> QED
    BY <2>1, <2>2 DEF CommandsNumbered
<1>3. Shown(q)
  BY DEF Shown
<1>4. StopIsHeard(q, t)
  BY DEF Stands, StopIsHeard, Announced
<1>5. ~ ChoiceIsSet(q, t)
  BY DEF ChoiceIsSet
<1> QED
  BY <1>2, <1>3, <1>4, <1>5
     DEF Tells, InForce, LastWord, NoPauseBehind, ResumeIsHeard, KnownRuns

\* A later command of a call: the choice itself, or the resuming.
LEMMA CallGoesOn ==
    ASSUME NEW p \in PeerShapes, NEW r \in RealmShapes, NEW n \in Nat, Stands(p, r, n),
           NEW q \in PeerShapes, NEW t \in RealmShapes, NEW cmd \in Orders,
           q.setter.step \in {"skip", "resume"}, q.setter.id = n + 1, q.policy = p.policy,
           q.policy.busy = TRUE, q.has = TRUE, q.paused = p.paused, q.stray = p.stray,
           cmd.op = q.setter.step, cmd.value = q.policy.enabled, cmd.id = n + 1,
           t.out = Append(r.out, cmd), t.in = r.in, t.stopped = r.stopped, t.skip = r.skip,
           q.policy.known = FALSE,
           q.setter.step = "resume" /\ Untouched(p, r) =>
               r.skip = p.policy.enabled /\ \A i \in DOMAIN r.out : ~ Sets(r.out[i].op)
    PROVE  Tells(q, t, n + 1)
<1>1. r.out \in Seq(Orders) /\ r.in \in Seq(Notices)
  BY DEF RealmShapes
<1>2. /\ Len(r.out) \in Nat /\ DOMAIN r.out = 1 .. Len(r.out) /\ DOMAIN t.out = 1 .. Len(r.out) + 1
      /\ \A j \in 1 .. Len(r.out) : t.out[j] = r.out[j]
      /\ t.out[Len(r.out) + 1] = cmd
  BY <1>1, AddingOne
<1>3. \A j \in 1 .. Len(r.out) :
        r.out[j].id \in Nat /\ r.out[j].id <= n /\ (r.out[j].op # "other" => r.out[j].id # 0)
  <2>1. \A j \in 1 .. Len(r.out) : r.out[j] \in Orders
    BY <1>1, ElementOfSeq
  <2> QED
    BY <1>2, <2>1 DEF Stands, CommandsNumbered, Orders
<1>4. \A i \in DOMAIN t.out :
        /\ t.out[i].id <= n + 1 /\ (t.out[i].op # "other" => t.out[i].id # 0)
        /\ t.out[i].id = n + 1 => i = Len(r.out) + 1 /\ t.out[i] = cmd
  BY <1>2, <1>3
<1>5. \A i \in DOMAIN t.in : t.in[i].op = "reply" => t.in[i].id \in 1 .. n
  BY DEF Stands, CommandsNumbered
<1>6. CommandsNumbered(q, t, n + 1)
  BY <1>4, <1>5 DEF CommandsNumbered
<1>7. Shown(q)
  BY DEF Shown
<1>8. StopIsHeard(q, t)
  BY DEF Stands, StopIsHeard, Announced
<1>9. \A i \in DOMAIN t.in : ~ Confirms(q, t, i)
  BY <1>5 DEF Confirms
<1>10. InForce(q, t)
  BY <1>2, <1>9 DEF InForce, ChoiceIsSet, Untouched, NoReload, Sets
<1>11. LastWord(q, t)
  BY <1>2, <1>4 DEF LastWord
<1> QED
  BY <1>6, <1>7, <1>8, <1>9, <1>10, <1>11 DEF Tells, NoPauseBehind, ResumeIsHeard, KnownRuns

\* A frame that is read: what is left of the frames says no more than before.
LEMMA ReadingKeeps ==
    ASSUME NEW p \in PeerShapes, NEW r \in RealmShapes, NEW n \in Nat, Tells(p, r, n),
           r.in # <<>>, NEW q \in PeerShapes, NEW t \in RealmShapes,
           t.in = Tail(r.in), t.out = r.out, t.stopped = r.stopped, t.skip = r.skip,
           q.setter = p.setter, q.policy = p.policy, q.has = p.has, q.stray = p.stray,
           StopIsHeard(q, t)
    PROVE  /\ Stands(q, t, n)
           /\ Head(r.in).op # "rebuilt" => Tells(q, t, n)
<1>1. /\ 1 \in DOMAIN r.in /\ Head(r.in) = r.in[1] /\ DOMAIN r.in \subseteq Nat \ {0}
      /\ \A i \in DOMAIN t.in : i \in Nat \ {0} /\ i + 1 \in DOMAIN r.in /\ t.in[i] = r.in[i + 1]
      /\ \A i \in DOMAIN r.in : i # 1 => i - 1 \in DOMAIN t.in /\ t.in[i - 1] = r.in[i]
  BY ReadingOne DEF RealmShapes
<1>2. CommandsNumbered(q, t, n)
  BY <1>1 DEF Tells, CommandsNumbered
<1>3. Shown(q)
  BY DEF Tells, Shown
<1>4. Stands(q, t, n)
  BY <1>2, <1>3 DEF Stands
<1>5. ASSUME Head(r.in).op # "rebuilt"
      PROVE  Tells(q, t, n)
  <2>1. Untouched(q, t) => Untouched(p, r)
    BY <1>1, <1>5 DEF Untouched, NoReload
  <2>2. \A i \in DOMAIN t.in : Confirms(q, t, i) => Confirms(p, r, i + 1)
    BY <1>1 DEF Confirms
  <2>3. ChoiceIsSet(q, t) => ChoiceIsSet(p, r)
    BY <1>1, <2>2 DEF ChoiceIsSet
  <2>4. InForce(q, t)
    BY <2>1, <2>3 DEF Tells, InForce
  <2>5. LastWord(q, t)
    BY DEF Tells, LastWord
  <2>6. NoPauseBehind(q, t)
    BY <1>1, <2>1, <2>2 DEF Tells, NoPauseBehind
  <2>7. ResumeIsHeard(q, t)
    <3>1. SUFFICES ASSUME q.setter.step = "resume", NEW i \in DOMAIN t.in, Confirms(q, t, i)
                   PROVE  /\ t.stopped => Announced(t, i)
                          /\ Untouched(q, t) => ~ (t.skip /\ t.stopped)
      BY DEF ResumeIsHeard
    <3>2. /\ r.stopped => Announced(r, i + 1)
          /\ Untouched(p, r) => ~ (r.skip /\ r.stopped)
      BY <1>1, <2>2, <3>1 DEF Tells, ResumeIsHeard
    <3>3. ASSUME Announced(r, i + 1)
          PROVE  Announced(t, i)
      <4>1. PICK j \in DOMAIN r.in :
              /\ j > i + 1 /\ r.in[j].op = "paused"
              /\ \A k \in DOMAIN r.in : k > j => ~ Ends(r.in[k].op)
        BY <3>3 DEF Announced
      <4>2. i \in Nat /\ j \in Nat
        BY <1>1
      <4>3. j # 1 /\ j - 1 \in DOMAIN t.in /\ t.in[j - 1].op = "paused" /\ j - 1 > i
        BY <1>1, <4>1, <4>2
      <4>4. ASSUME NEW k \in DOMAIN t.in, k > j - 1
            PROVE  ~ Ends(t.in[k].op)
        <5>1. k \in Nat /\ k + 1 \in DOMAIN r.in /\ t.in[k] = r.in[k + 1]
          BY <1>1
        <5>2. k + 1 > j
          BY <4>2, <4>4, <5>1
        <5> QED
          BY <4>1, <5>1, <5>2
      <4> QED
        BY <4>3, <4>4 DEF Announced
    <3> QED
      BY <2>1, <3>2, <3>3
  <2>8. KnownRuns(q, t)
    BY <2>1 DEF Tells, KnownRuns
  <2> QED
    BY <1>2, <1>3, <2>4, <2>5, <2>6, <2>7, <2>8 DEF Tells
<1> QED
  BY <1>4, <1>5

\* What is heard of the pauses as a frame is read.
LEMMA StopStaysHeard ==
    ASSUME NEW p \in PeerShapes, NEW r \in RealmShapes, StopIsHeard(p, r), r.in # <<>>,
           NEW q \in PeerShapes, NEW t \in RealmShapes,
           t.in = Tail(r.in), t.stopped = r.stopped,
           q.paused = CASE Head(r.in).op = "paused" -> TRUE
                        [] Ends(Head(r.in).op) -> FALSE
                        [] Head(r.in).op = "reply" -> p.paused
    PROVE  StopIsHeard(q, t)
<1>1. /\ 1 \in DOMAIN r.in /\ Head(r.in) = r.in[1] /\ DOMAIN r.in \subseteq Nat \ {0}
      /\ \A i \in DOMAIN t.in : i \in Nat \ {0} /\ i + 1 \in DOMAIN r.in /\ t.in[i] = r.in[i + 1]
      /\ \A i \in DOMAIN r.in : i # 1 => i - 1 \in DOMAIN t.in /\ t.in[i - 1] = r.in[i]
  BY ReadingOne DEF RealmShapes
<1>2. SUFFICES ASSUME t.stopped
               PROVE  Announced(t, 0) \/ (q.paused /\ \A i \in DOMAIN t.in : ~ Ends(t.in[i].op))
  BY DEF StopIsHeard
<1>3. CASE Announced(r, 0)
  <2>1. PICK j \in DOMAIN r.in : /\ r.in[j].op = "paused"
                                 /\ \A k \in DOMAIN r.in : k > j => ~ Ends(r.in[k].op)
    BY <1>3 DEF Announced
  <2>2. CASE j = 1
    <3>1. q.paused
      BY <1>1, <2>1, <2>2 DEF Ends
    <3>2. ASSUME NEW i \in DOMAIN t.in
          PROVE  ~ Ends(t.in[i].op)
      <4>1. i \in Nat \ {0} /\ i + 1 \in DOMAIN r.in /\ t.in[i] = r.in[i + 1]
        BY <1>1
      <4>2. i + 1 > j
        BY <2>2, <4>1
      <4> QED
        BY <2>1, <4>1, <4>2
    <3> QED
      BY <3>1, <3>2
  <2>3. CASE j # 1
    <3>1. j - 1 \in DOMAIN t.in /\ t.in[j - 1].op = "paused" /\ j - 1 > 0
      BY <1>1, <2>1, <2>3
    <3>2. ASSUME NEW k \in DOMAIN t.in, k > j - 1
          PROVE  ~ Ends(t.in[k].op)
      <4>1. j \in Nat /\ k \in Nat /\ k + 1 \in DOMAIN r.in /\ t.in[k] = r.in[k + 1]
        BY <1>1
      <4>2. k + 1 > j
        BY <3>2, <4>1
      <4> QED
        BY <2>1, <4>1, <4>2
    <3> QED
      BY <3>1, <3>2 DEF Announced
  <2> QED
    BY <2>2, <2>3
<1>4. CASE p.paused /\ \A i \in DOMAIN r.in : ~ Ends(r.in[i].op)
  BY <1>1, <1>4, ElementOfSeq, LenProperties DEF RealmShapes, Notices, Ends
<1> QED
  BY <1>2, <1>3, <1>4 DEF StopIsHeard

\* The call ends: the policy is known, and a resumed target runs.
LEMMA CallSucceeds ==
    ASSUME NEW p \in PeerShapes, NEW r \in RealmShapes, NEW n \in Nat, Tells(p, r, n),
           r.in # <<>>, Confirms(p, r, 1), p.setter.step \in {"skip", "resume"},
           p.setter.step = "skip" => ~ (p.policy.enabled /\ p.paused),
           NEW q \in PeerShapes, NEW t \in RealmShapes,
           t.in = Tail(r.in), t.out = r.out, t.stopped = r.stopped, t.skip = r.skip,
           q.setter = NoSetter, q.has = p.has, q.stray = p.stray,
           q.policy.enabled = p.policy.enabled, q.policy.busy = FALSE,
           q.paused = (p.paused /\ p.setter.step # "resume")
    PROVE  Tells(q, t, n)
<1>1. /\ 1 \in DOMAIN r.in /\ Head(r.in) = r.in[1] /\ DOMAIN r.in \subseteq Nat \ {0}
      /\ \A i \in DOMAIN t.in : i \in Nat \ {0} /\ i + 1 \in DOMAIN r.in /\ t.in[i] = r.in[i + 1]
      /\ \A i \in DOMAIN r.in : i # 1 => i - 1 \in DOMAIN t.in /\ t.in[i - 1] = r.in[i]
  BY ReadingOne DEF RealmShapes
<1>2. r.in[1].op = "reply" /\ q.setter.step = "none" /\ p.setter.step # "none"
  BY DEF Confirms, NoSetter
<1>3. CommandsNumbered(q, t, n)
  BY <1>1, <1>2 DEF Tells, CommandsNumbered
<1>4. Shown(q)
  BY <1>2 DEF Tells, Shown, PeerShapes
<1>5. Untouched(q, t) => Untouched(p, r)
  BY ZenonT(40), <1>1, <1>2 DEF Untouched, NoReload
<1>6. ChoiceIsSet(p, r)
  BY <1>1 DEF ChoiceIsSet
<1>7. InForce(q, t)
  BY <1>5, <1>6 DEF Tells, InForce
<1>8. StopIsHeard(q, t)
  <2>1. CASE p.setter.step = "skip"
    <3>1. q.paused = p.paused
      BY <2>1 DEF PeerShapes
    <3> QED
      <4>1. StopIsHeard(p, r)
        BY DEF Tells
      <4>2. q.paused = CASE Head(r.in).op = "paused" -> TRUE
                         [] Ends(Head(r.in).op) -> FALSE
                         [] Head(r.in).op = "reply" -> p.paused
        BY <1>1, <1>2, <3>1 DEF Ends
      <4> QED
        BY <4>1, <4>2, StopStaysHeard
  <2>2. CASE p.setter.step = "resume"
    <3>1. r.stopped => Announced(r, 1)
      BY <1>1, <2>2 DEF Tells, ResumeIsHeard
    <3>2. ASSUME Announced(r, 1)
          PROVE  Announced(t, 0)
      <4>1. PICK j \in DOMAIN r.in :
              /\ j > 1 /\ r.in[j].op = "paused"
              /\ \A k \in DOMAIN r.in : k > j => ~ Ends(r.in[k].op)
        BY <3>2 DEF Announced
      <4>2. j \in Nat
        BY <1>1
      <4>3. j - 1 \in DOMAIN t.in /\ t.in[j - 1].op = "paused" /\ j - 1 > 0
        BY <1>1, <4>1, <4>2
      <4>4. ASSUME NEW k \in DOMAIN t.in, k > j - 1
            PROVE  ~ Ends(t.in[k].op)
        <5>1. k \in Nat /\ k + 1 \in DOMAIN r.in /\ t.in[k] = r.in[k + 1]
          BY <1>1
        <5>2. k + 1 > j
          BY <4>2, <4>4, <5>1
        <5> QED
          BY <4>1, <5>1, <5>2
      <4> QED
        BY <4>3, <4>4 DEF Announced
    <3> QED
      BY <3>1, <3>2 DEF StopIsHeard
  <2> QED
    BY <2>1, <2>2
<1>9. KnownRuns(q, t)
  BY <1>1, <1>2, <1>5, <1>6 DEF KnownRuns, Tells, InForce, ResumeIsHeard, NoPauseBehind, Announced,
     StopIsHeard
<1> QED
  BY <1>2, <1>3, <1>4, <1>7, <1>8, <1>9 DEF Tells, LastWord, NoPauseBehind, ResumeIsHeard

\* The target executes its first command: it answers with the last frame,
\* behind a notice when that resumed it.
LEMMA ExecutingKeeps ==
    ASSUME NEW p \in PeerShapes, NEW r \in RealmShapes, NEW n \in Nat, Tells(p, r, n),
           r.out # <<>>, NEW do, do = Head(r.out), NEW ok \in BOOLEAN, NEW t \in RealmShapes,
           t.out = Tail(r.out),
           t.skip = IF Sets(do.op) /\ ok THEN do.value ELSE r.skip,
           t.stopped => r.stopped, do.op = "resume" /\ ok => ~ t.stopped,
           \A i \in DOMAIN r.in : i \in DOMAIN t.in /\ t.in[i] = r.in[i],
           \A i \in DOMAIN t.in : i \notin DOMAIN r.in =>
               /\ \A j \in DOMAIN r.in : j < i
               /\ \/ t.in[i].op = "resumed" /\ ~ t.stopped
                  \/ t.in[i] = [op |-> "reply", id |-> do.id, ok |-> ok] /\ do.op # "other"
    PROVE  Tells(p, t, n)
<1>1. /\ 1 \in DOMAIN r.out /\ do = r.out[1] /\ do \in Orders /\ DOMAIN r.out \subseteq Nat \ {0}
      /\ \A i \in DOMAIN t.out : i \in Nat \ {0} /\ i + 1 \in DOMAIN r.out /\ t.out[i] = r.out[i + 1]
  BY HeadTailProperties, ElementOfSeq, LenProperties, EmptySeq DEF RealmShapes
<1>2. DOMAIN r.in \subseteq Nat /\ DOMAIN t.in \subseteq Nat
  BY LenProperties DEF RealmShapes
<1>3. do.op # "other" => do.id \in 1 .. n
  BY <1>1 DEF Tells, CommandsNumbered, Orders
<1>4. CommandsNumbered(p, t, n)
  BY <1>1, <1>3 DEF Tells, CommandsNumbered
<1>5. Shown(p)
  BY DEF Tells
<1>6. Untouched(p, t) => Untouched(p, r)
  BY DEF Untouched, NoReload
<1>7. ASSUME ChoiceIsSet(p, r), Untouched(p, t)
      PROVE  t.skip = r.skip /\ r.skip = p.policy.enabled /\ \A i \in DOMAIN t.out : ~ Sets(t.out[i].op)
  BY <1>1, <1>6, <1>7 DEF Tells, InForce
<1>8. ASSUME NEW i \in DOMAIN t.in, Confirms(p, t, i), i \notin DOMAIN r.in, p.setter.step # "none"
      PROVE  ok /\ do.op = p.setter.step /\ do.value = p.policy.enabled /\ do.id = p.setter.id
  BY <1>1, <1>8 DEF Confirms, Tells, CommandsNumbered
<1>9. \A i \in DOMAIN r.in : Confirms(p, t, i) <=> Confirms(p, r, i)
  BY DEF Confirms
<1>10. InForce(p, t)
  BY <1>1, <1>7, <1>8, <1>9 DEF InForce, ChoiceIsSet, Tells, LastWord, Untouched, Sets
<1>11. LastWord(p, t)
  <2> SUFFICES ASSUME p.setter.step = "skip", ~ p.stray,
                      NEW i \in DOMAIN t.out, t.out[i].id = p.setter.id,
                      NEW j \in DOMAIN t.out, j > i
               PROVE  ~ Sets(t.out[j].op)
    BY DEF LastWord
  <2>1. /\ i + 1 \in DOMAIN r.out /\ t.out[i] = r.out[i + 1]
        /\ j + 1 \in DOMAIN r.out /\ t.out[j] = r.out[j + 1] /\ j + 1 > i + 1
    BY <1>1
  <2> QED BY <2>1 DEF Tells, LastWord
<1>12. ASSUME NEW i, Announced(r, i), t.stopped
       PROVE  Announced(t, i)
  BY <1>12 DEF Announced, Ends
<1>13. StopIsHeard(p, t)
  BY <1>12 DEF Tells, StopIsHeard, Ends
<1>14. NoPauseBehind(p, t)
  BY <1>2, <1>6, <1>9 DEF NoPauseBehind, Tells
<1>15. ResumeIsHeard(p, t)
  BY <1>6, <1>7, <1>8, <1>9, <1>12 DEF ResumeIsHeard, Tells, ChoiceIsSet
<1>16. KnownRuns(p, t)
  BY <1>6, <1>7 DEF Tells, KnownRuns, ChoiceIsSet
<1> QED
  BY <1>4, <1>5, <1>10, <1>11, <1>13, <1>14, <1>15, <1>16 DEF Tells

\* A breakpoint is hit.
LEMMA HittingKeeps ==
    ASSUME NEW p \in PeerShapes, NEW r \in RealmShapes, NEW n \in Nat, Tells(p, r, n),
           ~ r.skip, NEW t \in RealmShapes, NEW frame \in Notices,
           frame = [op |-> "paused"], t.in = Append(r.in, frame), t.out = r.out, t.skip = r.skip
    PROVE  Tells(p, t, n)
<1>1. /\ Len(r.in) \in Nat /\ DOMAIN r.in = 1 .. Len(r.in) /\ DOMAIN t.in = 1 .. Len(r.in) + 1
      /\ \A i \in 1 .. Len(r.in) : t.in[i] = r.in[i]
      /\ t.in[Len(r.in) + 1] = frame
  BY AddingOne DEF RealmShapes
<1>2. frame.op = "paused"
  OBVIOUS
<1>3. CommandsNumbered(p, t, n)
  BY <1>1, <1>2 DEF Tells, CommandsNumbered
<1>4. \A i \in DOMAIN t.in : Confirms(p, t, i) => i \in DOMAIN r.in /\ Confirms(p, r, i)
  BY <1>1, <1>2 DEF Confirms
<1>5. Untouched(p, t) => Untouched(p, r)
  BY <1>1 DEF Untouched, NoReload
<1>6. ChoiceIsSet(p, t) => ChoiceIsSet(p, r)
  BY <1>4 DEF ChoiceIsSet
<1>7. InForce(p, t) /\ LastWord(p, t)
  BY <1>5, <1>6 DEF Tells, InForce, LastWord
<1>8. \A i \in DOMAIN r.in \cup {0} : Announced(t, i)
  BY <1>1, <1>2 DEF Announced
<1>9. StopIsHeard(p, t)
  BY <1>8 DEF StopIsHeard
<1>10. NoPauseBehind(p, t)
  BY <1>4, <1>5 DEF Tells, NoPauseBehind, InForce, ChoiceIsSet
<1>11. ResumeIsHeard(p, t) /\ KnownRuns(p, t)
  BY <1>4, <1>8 DEF ResumeIsHeard, KnownRuns
<1> QED
  BY <1>3, <1>7, <1>9, <1>10, <1>11 DEF Tells

\* A realm is rebuilt.
LEMMA RebuildingKeeps ==
    ASSUME NEW p \in PeerShapes, NEW r \in RealmShapes, NEW n \in Nat, Tells(p, r, n),
           NEW t \in RealmShapes, NEW frame \in Notices,
           frame = [op |-> "rebuilt"], t.in = Append(r.in, frame), t.out = r.out, ~ t.stopped
    PROVE  Tells(p, t, n)
<1>1. /\ Len(r.in) \in Nat /\ DOMAIN r.in = 1 .. Len(r.in) /\ DOMAIN t.in = 1 .. Len(r.in) + 1
      /\ \A i \in 1 .. Len(r.in) : t.in[i] = r.in[i]
      /\ t.in[Len(r.in) + 1] = frame
  BY AddingOne DEF RealmShapes
<1>2. frame.op = "rebuilt"
  OBVIOUS
<1>3. CommandsNumbered(p, t, n)
  BY <1>1, <1>2 DEF Tells, CommandsNumbered
<1>4. ~ Untouched(p, t)
  BY <1>1, <1>2 DEF Untouched, NoReload
<1>5. LastWord(p, t)
  BY DEF Tells, LastWord
<1> QED
  BY <1>3, <1>4, <1>5
     DEF Tells, InForce, StopIsHeard, NoPauseBehind, ResumeIsHeard, KnownRuns

\* Another client's command reaches a peer whose policy stays as it is.
LEMMA StrayingKeeps ==
    ASSUME NEW p \in PeerShapes, NEW r \in RealmShapes, NEW n \in Nat, Tells(p, r, n),
           NEW q \in PeerShapes, NEW t \in RealmShapes, NEW cmd \in Orders,
           q.setter = p.setter, q.policy = p.policy, q.has = p.has, q.paused = p.paused, q.stray,
           cmd.op = "other", cmd.id = 0,
           t.out = Append(r.out, cmd), t.in = r.in, t.stopped = r.stopped
    PROVE  Tells(q, t, n)
<1>1. /\ Len(r.out) \in Nat /\ DOMAIN r.out = 1 .. Len(r.out) /\ DOMAIN t.out = 1 .. Len(r.out) + 1
      /\ \A i \in 1 .. Len(r.out) : t.out[i] = r.out[i]
      /\ t.out[Len(r.out) + 1] = cmd
  BY AddingOne DEF RealmShapes
<1>2. CommandsNumbered(q, t, n)
  BY <1>1 DEF Tells, CommandsNumbered
<1>3. Shown(q)
  BY DEF Tells, Shown
<1>4. ~ Untouched(q, t)
  BY DEF Untouched
<1>5. StopIsHeard(q, t)
  BY DEF Tells, StopIsHeard, Announced
<1>6. ResumeIsHeard(q, t)
  BY <1>4 DEF Tells, ResumeIsHeard, Announced, Confirms
<1> QED
  BY <1>2, <1>3, <1>4, <1>5, <1>6 DEF Tells, InForce, LastWord, NoPauseBehind, KnownRuns

-----------------------------------------------------------------------------
\* The peers and the lock.
LEMMA PauseFacts ==
    ASSUME PauseInv
    PROVE  /\ PauseShape /\ LockedIsReconfirmed
           /\ lock \in [enabled : BOOLEAN, target : Nat] /\ (lock.target = 0 \/ lock.target \in Connected)
           /\ peer \in [Peers -> PeerShapes] /\ runtime \in [Peers -> RealmShapes]
           /\ spent \in [peers : Nat, commands : Nat, events : Nat]
           /\ \A c \in Peers : ~ peer[c].on => peer[c] = NoPeer /\ runtime[c] = NoRealm
           /\ \A c \in Peers : c > spent.peers => ~ peer[c].on
           /\ \A c \in Peers : Tells(peer[c], runtime[c], spent.commands)
           /\ Connected \subseteq Peers /\ Peers \subseteq Nat \ {0}
  BY DEF PauseInv, PauseShape, Connected, Peers

\* Every step but those that add and remove a peer, and the commands of other
\* clients, moves one connected peer and its target, and locks no other.
LEMMA OneMoves ==
    ASSUME PauseInv, NEW c \in Peers, peer[c].on,
           NEW q \in PeerShapes, q.on, NEW t \in RealmShapes,
           peer' = [peer EXCEPT ![c] = q], runtime' = [runtime EXCEPT ![c] = t],
           lock' = lock \/ lock' = [enabled |-> TRUE, target |-> c],
           spent' \in [peers : Nat, commands : Nat, events : Nat],
           spent'.peers = spent.peers, spent.commands <= spent'.commands,
           Tells(q, t, spent'.commands),
           lock'.enabled /\ lock'.target = c => ~ q.reloaded
    PROVE  PauseInv'
<1>1. peer' \in [Peers -> PeerShapes] /\ runtime' \in [Peers -> RealmShapes]
  BY PauseFacts
<1>2. /\ peer'[c] = q /\ runtime'[c] = t
      /\ \A d \in Peers : d # c => peer'[d] = peer[d] /\ runtime'[d] = runtime[d]
  BY PauseFacts
<1>3. Connected' = Connected
  BY <1>2 DEF Connected
<1>4. PauseShape'
  <2>1. lock' \in [enabled : BOOLEAN, target : Nat] /\ (lock'.target = 0 \/ lock'.target \in Connected')
    <3>1. CASE lock' = lock
      BY <1>3, <3>1, PauseFacts
    <3>2. CASE lock' = [enabled |-> TRUE, target |-> c]
      BY <1>3, <3>2, PauseFacts DEF Connected
    <3> QED
      BY <3>1, <3>2
  <2>2. \A d \in Peers : ~ peer'[d].on => peer'[d] = NoPeer /\ runtime'[d] = NoRealm
    BY <1>2, PauseFacts
  <2>3. \A d \in Peers : d > spent'.peers => ~ peer'[d].on
    BY <1>2, PauseFacts
  <2> QED
    BY <1>1, <2>1, <2>2, <2>3 DEF PauseShape
<1>5. ASSUME NEW d \in Peers
      PROVE  Tells(peer'[d], runtime'[d], spent'.commands)
  BY <1>2, PauseFacts, NumbersGrow
<1>6. LockedIsReconfirmed'
  BY <1>2, PauseFacts DEF LockedIsReconfirmed, IsLocked
<1> QED
  BY <1>4, <1>5, <1>6 DEF PauseInv

\* The records of a call that begins, fails or is given up.
Begun(q, p, e, n) ==
    /\ q.on = p.on /\ q.setter.step = "enable" /\ q.setter.id = n
    /\ q.policy.known = FALSE /\ q.policy.busy = TRUE /\ q.policy.enabled = e
    /\ q.has = TRUE /\ q.paused = p.paused /\ q.reloaded = FALSE

LEMMA SettingIs ==
    ASSUME NEW p \in PeerShapes, NEW e \in BOOLEAN, spent.commands \in Nat
    PROVE  Setting(p, e) \in PeerShapes /\ Begun(Setting(p, e), p, e, spent.commands + 1)
<1>1. p.policy.enabled \in BOOLEAN
  BY DEF PeerShapes, Policies
<1>2. PICK policy \in Policies : policy = [enabled |-> e, known |-> FALSE, busy |-> TRUE]
  BY DEF Policies
<1>3. PICK setter \in Setters :
        setter = [step |-> "enable", id |-> spent.commands + 1, prev |-> p.policy.enabled]
  <2>1. PICK n \in Nat : n = spent.commands + 1
    OBVIOUS
  <2>2. [step |-> "enable", id |-> n, prev |-> p.policy.enabled] \in Setters
    BY <1>1 DEF Setters
  <2> QED
    BY <2>1, <2>2
<1>4. Setting(p, e) = [p EXCEPT !.has = TRUE, !.reloaded = FALSE, !.stray = FALSE,
                                !.policy = policy, !.setter = setter]
  BY <1>2, <1>3 DEF Setting
<1>5. PICK q \in PeerShapes :
        /\ q = Setting(p, e) /\ q.on = p.on
        /\ q.setter.step = "enable" /\ q.setter.id = spent.commands + 1
        /\ q.policy.known = FALSE /\ q.policy.busy = TRUE /\ q.policy.enabled = e
        /\ q.has = TRUE /\ q.paused = p.paused /\ q.reloaded = FALSE
  <2> DEFINE q == [p EXCEPT !.has = TRUE, !.reloaded = FALSE, !.stray = FALSE,
                            !.policy = policy, !.setter = setter]
  <2>1. /\ q \in PeerShapes /\ q.policy = policy /\ q.setter = setter
        /\ q.on = p.on /\ q.has = TRUE /\ q.paused = p.paused /\ q.reloaded = FALSE
    BY DEF PeerShapes
  <2>2. policy.known = FALSE /\ policy.busy = TRUE /\ policy.enabled = e
    BY <1>2
  <2>3. setter.step = "enable" /\ setter.id = spent.commands + 1
    BY <1>3
  <2> HIDE DEF q
  <2>4. q = Setting(p, e)
    BY <1>4 DEF q
  <2> QED BY <2>1, <2>2, <2>3, <2>4
<1> QED
  BY <1>5 DEF Begun

LEMMA FailedIs ==
    ASSUME NEW p \in PeerShapes
    PROVE  \E q \in PeerShapes :
              /\ q = Failed(p) /\ q.on = p.on /\ q.setter = NoSetter
              /\ q.policy.known = FALSE /\ q.policy.busy = FALSE
              /\ q.paused = p.paused /\ q.reloaded = p.reloaded
<1>1. p.setter.prev \in BOOLEAN /\ NoSetter \in Setters
  BY DEF PeerShapes, Setters, NoSetter
<1>2. PICK policy \in Policies : policy = [enabled |-> p.setter.prev, known |-> FALSE, busy |-> FALSE]
  BY <1>1 DEF Policies
<1>3. Failed(p) = [p EXCEPT !.policy = policy, !.setter = NoSetter]
  BY <1>2 DEF Failed
<1> QED
  BY <1>1, <1>2, <1>3 DEF PeerShapes

LEMMA InvalidatedIs ==
    ASSUME NEW p \in PeerShapes
    PROVE  /\ \E q \in PeerShapes :
                 /\ q = Invalidated(p) /\ q.on = p.on /\ q.setter = NoSetter
                 /\ q.policy.known = FALSE /\ q.policy.busy = FALSE
                 /\ q.paused = p.paused /\ q.reloaded = FALSE
           /\ \E q \in PeerShapes :
                 /\ q = Unconfirmed(p) /\ q.on = p.on /\ q.setter = NoSetter
                 /\ q.policy.known = FALSE /\ q.policy.busy = FALSE
                 /\ q.paused = p.paused
<1>1. p.policy \in Policies /\ NoSetter \in Setters
  BY DEF PeerShapes, Setters, NoSetter
<1>2. PICK policy \in Policies : policy = [p.policy EXCEPT !.known = FALSE, !.busy = FALSE]
  BY <1>1 DEF Policies
<1>3. policy.known = FALSE /\ policy.busy = FALSE
  BY <1>1, <1>2 DEF Policies
<1>4. /\ Invalidated(p) = [p EXCEPT !.policy = policy, !.reloaded = FALSE, !.setter = NoSetter]
      /\ Unconfirmed(p) = [p EXCEPT !.reloaded = TRUE, !.policy = policy, !.setter = NoSetter]
  BY <1>2 DEF Invalidated, Unconfirmed, PeerShapes
<1> QED
  BY ZenonT(40), <1>1, <1>3, <1>4 DEF PeerShapes

LEMMA SendShapes ==
    ASSUME NEW r \in RealmShapes, NEW verb \in {"enable", "skip", "resume"}, NEW value \in BOOLEAN,
           spent.commands \in Nat
    PROVE  \E cmd \in Orders :
              /\ cmd.op = verb /\ cmd.value = value /\ cmd.id = spent.commands + 1
              /\ Send(r, verb, value) \in RealmShapes /\ Send(r, verb, value).out = Append(r.out, cmd)
              /\ Send(r, verb, value).in = r.in /\ Send(r, verb, value).stopped = r.stopped
              /\ Send(r, verb, value).skip = r.skip
<1>1. PICK cmd \in Orders : cmd = [op |-> verb, value |-> value, id |-> spent.commands + 1]
  <2>1. PICK n \in Nat : n = spent.commands + 1
    OBVIOUS
  <2>2. [op |-> verb, value |-> value, id |-> n] \in Orders
    BY DEF Orders
  <2> QED
    BY <2>1, <2>2
<1>2. PICK more \in Seq(Orders) : more = Append(r.out, cmd)
  BY AppendProperties DEF RealmShapes
<1>3. Send(r, verb, value) = [r EXCEPT !.out = more]
  BY <1>1, <1>2 DEF Send, RealmShapes
<1> QED
  BY <1>1, <1>2, <1>3 DEF RealmShapes

-----------------------------------------------------------------------------
\* The steps.

\* A call begins on the connected peer c, whose record is p until then.
LEMMA Begins ==
    ASSUME PauseInv, NEW c \in Peers, peer[c].on,
           NEW p \in PeerShapes, p.on, NEW r \in RealmShapes, NEW e \in BOOLEAN,
           Stands(p, r, spent.commands),
           peer' = [peer EXCEPT ![c] = Setting(p, e)],
           runtime' = [runtime EXCEPT ![c] = Send(r, "enable", e)],
           lock' = lock \/ lock' = [enabled |-> TRUE, target |-> c],
           spent' \in [peers : Nat, commands : Nat, events : Nat],
           spent'.peers = spent.peers, spent'.commands = spent.commands + 1
    PROVE  PauseInv'
<1>1. spent.commands \in Nat
  BY PauseFacts
<1>2. PICK q \in PeerShapes :
        /\ q = Setting(p, e) /\ q.on = p.on /\ q.setter.step = "enable" /\ q.setter.id = spent.commands + 1
        /\ q.policy.known = FALSE /\ q.policy.busy = TRUE /\ q.policy.enabled = e
        /\ q.has = TRUE /\ q.paused = p.paused /\ q.reloaded = FALSE
  <2>1. Setting(p, e) \in PeerShapes /\ Begun(Setting(p, e), p, e, spent.commands + 1)
    BY <1>1, SettingIs
  <2>2. PICK q, n : q = Setting(p, e) /\ n = spent.commands + 1 /\ Begun(q, p, e, n)
    BY <2>1
  <2> QED
    BY <2>1, <2>2 DEF Begun
<1>3. PICK cmd \in Orders :
        /\ cmd.op = "enable" /\ cmd.value = e /\ cmd.id = spent.commands + 1
        /\ Send(r, "enable", e) \in RealmShapes /\ Send(r, "enable", e).out = Append(r.out, cmd)
        /\ Send(r, "enable", e).in = r.in /\ Send(r, "enable", e).stopped = r.stopped
  BY <1>1, SendShapes
<1>4. PICK t \in RealmShapes :
        /\ t = Send(r, "enable", e) /\ t.out = Append(r.out, cmd)
        /\ t.in = r.in /\ t.stopped = r.stopped
  BY <1>3
<1>5. PICK n \in Nat : n = spent.commands
  BY <1>1
<1>6. Stands(p, r, n) /\ q.setter.id = n + 1 /\ cmd.id = n + 1
  BY <1>2, <1>3, <1>5
<1>7. Tells(q, t, n + 1)
  BY <1>2, <1>3, <1>4, <1>6, CallBegins
<1>8. Tells(q, t, spent'.commands) /\ spent.commands <= spent'.commands
  BY <1>1, <1>5, <1>7
<1> QED
  BY <1>2, <1>4, <1>8, OneMoves

LEMMA SetKeeps ==
    ASSUME PauseInv, NEW c \in Peers, NEW e \in BOOLEAN, SetSkipAllPauses(c, e)
    PROVE  PauseInv'
<1>1. /\ peer[c].on /\ lock' = lock
      /\ peer' = [peer EXCEPT ![c] = Setting(peer[c], e)]
      /\ runtime' = [runtime EXCEPT ![c] = Send(runtime[c], "enable", e)]
      /\ spent' = [spent EXCEPT !.events = @ + 1, !.commands = @ + 1]
  BY PauseFacts DEF SetSkipAllPauses
<1>2. /\ spent' \in [peers : Nat, commands : Nat, events : Nat]
      /\ spent'.peers = spent.peers /\ spent'.commands = spent.commands + 1
  <2>1. spent \in [peers : Nat, commands : Nat, events : Nat]
    BY PauseFacts
  <2> QED
    <3>1. PICK n \in Nat, m \in Nat, k \in Nat :
            spent = [peers |-> n, commands |-> m, events |-> k]
      BY <2>1
    <3>2. spent' = [peers |-> n, commands |-> m + 1, events |-> k + 1]
      BY <1>1, <3>1
    <3> QED
      BY <3>1, <3>2
<1>3. /\ peer[c] \in PeerShapes /\ runtime[c] \in RealmShapes
      /\ Stands(peer[c], runtime[c], spent.commands)
  BY PauseFacts DEF Tells, Stands
<1> QED
  BY <1>1, <1>2, <1>3, Begins

LEMMA SetTimeoutKeeps ==
    ASSUME PauseInv, NEW c \in Peers, SetTimesOut(c)
    PROVE  PauseInv'
<1>1. /\ peer[c].setter # NoSetter /\ lock' = lock /\ runtime' = runtime
      /\ peer' = [peer EXCEPT ![c] = Failed(peer[c])]
      /\ spent' = [spent EXCEPT !.events = @ + 1]
  BY PauseFacts DEF SetTimesOut, Spend
<1>2. /\ spent' \in [peers : Nat, commands : Nat, events : Nat]
      /\ spent'.peers = spent.peers /\ spent'.commands = spent.commands
  BY <1>1, PauseFacts
<1>3. peer[c].on
  BY <1>1, PauseFacts DEF NoPeer
<1>4. PICK p \in PeerShapes, t \in RealmShapes, n \in Nat :
        p = peer[c] /\ t = runtime[c] /\ n = spent.commands /\ Tells(p, t, n)
  BY PauseFacts
<1>5. PICK q \in PeerShapes :
        /\ q = Failed(p) /\ q.on /\ q.setter = NoSetter /\ q.policy.known = FALSE
        /\ q.policy.busy = FALSE /\ q.paused = p.paused /\ q.reloaded = p.reloaded
  BY <1>3, <1>4, FailedIs
<1>6. Tells(q, t, n)
  <2>1. /\ Stands(p, t, n)
        /\ \A i \in DOMAIN t.out : t.out[i].id <= n /\ (t.out[i].op # "other" => t.out[i].id # 0)
    BY <1>4 DEF Tells, Stands, CommandsNumbered
  <2> QED
    BY <1>4, <1>5, <2>1, NothingIsPromised
<1>7. Tells(q, t, spent'.commands) /\ spent.commands <= spent'.commands
  BY <1>2, <1>4, <1>6, PauseFacts
<1>8. /\ peer' = [peer EXCEPT ![c] = q] /\ runtime' = [runtime EXCEPT ![c] = t]
      /\ lock'.enabled /\ lock'.target = c => ~ q.reloaded
  BY <1>1, <1>4, <1>5, PauseFacts DEF LockedIsReconfirmed, IsLocked
<1>9. lock' = lock
  BY <1>1
<1> QED
  BY <1>2, <1>3, <1>5, <1>7, <1>8, <1>9, OneMoves

\* The target moves, the peer does not.
LEMMA TargetMoves ==
    ASSUME PauseInv, NEW c \in Peers, peer[c].on, NEW t \in RealmShapes,
           runtime' = [runtime EXCEPT ![c] = t], peer' = peer, lock' = lock,
           spent' = spent \/ spent' = [spent EXCEPT !.events = @ + 1],
           Tells(peer[c], t, spent.commands)
    PROVE  PauseInv'
<1>1. /\ spent' \in [peers : Nat, commands : Nat, events : Nat]
      /\ spent'.peers = spent.peers /\ spent'.commands = spent.commands
      /\ spent.commands <= spent'.commands
  BY PauseFacts
<1>2. PICK q \in PeerShapes : q = peer[c]
  BY PauseFacts
<1>3. peer' = [peer EXCEPT ![c] = q]
  BY <1>2, PauseFacts
<1>4. lock'.enabled /\ lock'.target = c => ~ q.reloaded
  BY <1>2, PauseFacts DEF LockedIsReconfirmed, IsLocked
<1> QED
  BY <1>1, <1>2, <1>3, <1>4, OneMoves

LEMMA HitKeeps ==
    ASSUME PauseInv, NEW c \in Peers, HitBreakpoint(c)
    PROVE  PauseInv'
<1>1. PICK r \in RealmShapes, p \in PeerShapes, n \in Nat :
        r = runtime[c] /\ p = peer[c] /\ n = spent.commands /\ Tells(p, r, n)
  BY PauseFacts
<1>2. PICK frame \in Notices : frame = [op |-> "paused"]
  BY DEF Notices
<1>3. PICK t \in RealmShapes :
        /\ t = [r EXCEPT !.stopped = TRUE, !.in = Append(@, frame)]
        /\ t.in = Append(r.in, frame) /\ t.out = r.out /\ t.skip = r.skip
  <2>1. PICK in \in Seq(Notices) : in = Append(r.in, frame)
    BY AppendProperties DEF RealmShapes
  <2>2. [r EXCEPT !.stopped = TRUE, !.in = Append(@, frame)] = [r EXCEPT !.stopped = TRUE, !.in = in]
    BY <2>1 DEF RealmShapes
  <2> QED
    BY <2>1, <2>2 DEF RealmShapes
<1>4. /\ peer[c].on /\ ~ r.skip /\ peer' = peer /\ lock' = lock
      /\ runtime' = [runtime EXCEPT ![c] = t] /\ spent' = [spent EXCEPT !.events = @ + 1]
  BY <1>1, <1>2, <1>3, PauseFacts DEF HitBreakpoint, Spend
<1>5. Tells(p, t, n)
  BY <1>1, <1>2, <1>3, <1>4, HittingKeeps
<1> QED
  BY <1>1, <1>4, <1>5, TargetMoves

LEMMA RebuildKeeps ==
    ASSUME PauseInv, NEW c \in Peers, NEW kept \in BOOLEAN, RebuildRealm(c, kept)
    PROVE  PauseInv'
<1>1. PICK r \in RealmShapes, p \in PeerShapes, n \in Nat :
        r = runtime[c] /\ p = peer[c] /\ n = spent.commands /\ Tells(p, r, n)
  BY PauseFacts
<1>2. PICK frame \in Notices : frame = [op |-> "rebuilt"]
  BY DEF Notices
<1>3. PICK t \in RealmShapes :
        /\ t = [r EXCEPT !.skip = @ /\ kept, !.stopped = FALSE, !.in = Append(@, frame)]
        /\ t.in = Append(r.in, frame) /\ t.out = r.out /\ t.stopped = FALSE
  <2>1. PICK in \in Seq(Notices) : in = Append(r.in, frame)
    BY AppendProperties DEF RealmShapes
  <2>2. PICK skip \in BOOLEAN : skip = (r.skip /\ kept)
    OBVIOUS
  <2>3. [r EXCEPT !.skip = @ /\ kept, !.stopped = FALSE, !.in = Append(@, frame)]
          = [r EXCEPT !.skip = skip, !.stopped = FALSE, !.in = in]
    BY <2>1, <2>2 DEF RealmShapes
  <2> QED
    BY <2>1, <2>3 DEF RealmShapes
<1>4. /\ peer[c].on /\ peer' = peer /\ lock' = lock
      /\ runtime' = [runtime EXCEPT ![c] = t] /\ spent' = [spent EXCEPT !.events = @ + 1]
  BY <1>1, <1>2, <1>3, PauseFacts DEF RebuildRealm, Spend
<1>5. Tells(p, t, n)
  BY <1>1, <1>2, <1>3, RebuildingKeeps
<1> QED
  BY <1>1, <1>4, <1>5, TargetMoves

LEMMA FramesAdd ==
    ASSUME NEW s \in Seq(Notices), NEW a \in Notices, NEW b \in Notices
    PROVE  /\ s \o <<>> \o <<>> = s /\ DOMAIN s = 1 .. Len(s) /\ Len(s) \in Nat
           /\ \A one : one = s \o <<>> \o <<b>> =>
                /\ one \in Seq(Notices) /\ DOMAIN one = 1 .. Len(s) + 1
                /\ \A i \in DOMAIN s : one[i] = s[i]
                /\ one[Len(s) + 1] = b
           /\ \A two : two = s \o <<a>> \o <<b>> =>
                /\ two \in Seq(Notices) /\ DOMAIN two = 1 .. Len(s) + 2
                /\ \A i \in DOMAIN s : two[i] = s[i]
                /\ two[Len(s) + 1] = a /\ two[Len(s) + 2] = b
<1>1. DOMAIN s = 1 .. Len(s) /\ Len(s) \in Nat /\ s \o <<>> \o <<>> = s
  BY LenProperties
<1>2. ASSUME NEW one, one = s \o <<>> \o <<b>>
      PROVE  /\ one \in Seq(Notices) /\ DOMAIN one = 1 .. Len(s) + 1
             /\ \A i \in DOMAIN s : one[i] = s[i]
             /\ one[Len(s) + 1] = b
  BY <1>1, <1>2
<1>3. ASSUME NEW two, two = s \o <<a>> \o <<b>>
      PROVE  /\ two \in Seq(Notices) /\ DOMAIN two = 1 .. Len(s) + 2
             /\ \A i \in DOMAIN s : two[i] = s[i]
             /\ two[Len(s) + 1] = a /\ two[Len(s) + 2] = b
  BY <1>1, <1>3
<1> QED
  BY <1>1, <1>2, <1>3

LEMMA ExecuteKeeps ==
    ASSUME PauseInv, NEW c \in Peers, NEW ok \in BOOLEAN, Execute(c, ok)
    PROVE  PauseInv'
<1>1. PICK r \in RealmShapes, p \in PeerShapes, n \in Nat :
        r = runtime[c] /\ p = peer[c] /\ n = spent.commands /\ Tells(p, r, n)
  BY PauseFacts
<1> DEFINE x == Head(r.out)
           resumes == x.op = "resume" /\ ok /\ r.stopped
           in == r.in \o (IF resumes THEN <<[op |-> "resumed"]>> ELSE <<>>)
                      \o (IF x.op = "other" THEN <<>> ELSE <<[op |-> "reply", id |-> x.id, ok |-> ok]>>)
           t == [skip |-> IF x.op \in {"skip", "other"} /\ ok THEN x.value ELSE r.skip,
                 stopped |-> r.stopped /\ ~ resumes, out |-> Tail(r.out), in |-> in]
<1>2. /\ peer[c].on /\ r.out # <<>> /\ runtime' = [runtime EXCEPT ![c] = t]
      /\ peer' = peer /\ lock' = lock
      /\ spent' = spent \/ spent' = [spent EXCEPT !.events = @ + 1]
  BY <1>1 DEF Execute, Spend
<1>3. r.out \in Seq(Orders) /\ r.in \in Seq(Notices) /\ r.skip \in BOOLEAN /\ r.stopped \in BOOLEAN
  BY DEF RealmShapes
<1>4. PICK do \in Orders : do = x
  BY <1>2, <1>3, HeadTailProperties
<1>5. PICK a \in Notices, b \in Notices :
        a = [op |-> "resumed"] /\ b = [op |-> "reply", id |-> do.id, ok |-> ok]
  BY <1>4 DEF Notices, Orders
<1>6. /\ in \in Seq(Notices)
      /\ \A i \in DOMAIN r.in : i \in DOMAIN in /\ in[i] = r.in[i]
      /\ \A i \in DOMAIN in : i \notin DOMAIN r.in =>
            /\ \A j \in DOMAIN r.in : j < i
            /\ (in[i] = a /\ resumes) \/ (in[i] = b /\ do.op # "other")
  <2>1. DOMAIN r.in = 1 .. Len(r.in) /\ Len(r.in) \in Nat
    BY <1>3, LenProperties
  <2>2. CASE do.op = "other"
    <3>1. in = r.in \o <<>> \o <<>>
      BY <1>4, <2>2
    <3> HIDE DEF in
    <3>2. in = r.in
      BY <1>3, <1>5, <3>1, FramesAdd
    <3> QED
      BY <1>3, <3>2
  <2>3. CASE do.op # "other" /\ ~ resumes
    <3>1. in = r.in \o <<>> \o <<b>>
      BY <1>4, <1>5, <2>3
    <3> HIDE DEF in
    <3>2. /\ in \in Seq(Notices) /\ DOMAIN in = 1 .. Len(r.in) + 1
          /\ \A i \in DOMAIN r.in : in[i] = r.in[i]
          /\ in[Len(r.in) + 1] = b
      BY SMTT(20), <1>3, <1>5, <3>1, FramesAdd
    <3> HIDE DEF resumes
    <3> QED
      BY <2>1, <2>3, <3>2
  <2>4. CASE do.op # "other" /\ resumes
    <3>1. in = r.in \o <<a>> \o <<b>>
      BY <1>4, <1>5, <2>4
    <3> HIDE DEF in
    <3>2. /\ in \in Seq(Notices) /\ DOMAIN in = 1 .. Len(r.in) + 2
          /\ \A i \in DOMAIN r.in : in[i] = r.in[i]
          /\ in[Len(r.in) + 1] = a /\ in[Len(r.in) + 2] = b
      BY SMTT(20), <1>3, <1>5, <3>1, FramesAdd
    <3> HIDE DEF resumes
    <3> QED
      BY <2>1, <2>4, <3>2
  <2> QED
    BY <2>2, <2>3, <2>4
<1>7. PICK u : u = t
  OBVIOUS
<1>8. /\ u \in RealmShapes /\ u.out = Tail(r.out) /\ u.in = in
      /\ u.skip = (IF Sets(do.op) /\ ok THEN do.value ELSE r.skip)
      /\ u.stopped = (r.stopped /\ ~ resumes)
  <2> HIDE DEF in
  <2>1. Tail(r.out) \in Seq(Orders)
    BY <1>2, <1>3, HeadTailProperties
  <2>2. do.value \in BOOLEAN
    BY DEF Orders
  <2> QED
    BY <1>3, <1>4, <1>6, <1>7, <2>1, <2>2 DEF RealmShapes, Sets
<1> HIDE DEF in, t
<1>9. (u.stopped => r.stopped) /\ (do.op = "resume" /\ ok => ~ u.stopped) /\ (resumes => ~ u.stopped)
  BY <1>4, <1>8
<1> HIDE DEF resumes
<1>10. /\ \A i \in DOMAIN r.in : i \in DOMAIN u.in /\ u.in[i] = r.in[i]
       /\ \A i \in DOMAIN u.in : i \notin DOMAIN r.in =>
             /\ \A j \in DOMAIN r.in : j < i
             /\ \/ u.in[i].op = "resumed" /\ ~ u.stopped
                \/ u.in[i] = [op |-> "reply", id |-> do.id, ok |-> ok] /\ do.op # "other"
  BY <1>5, <1>6, <1>8, <1>9
<1>11. Tells(p, u, n)
  <2>1. /\ Tells(p, r, n) /\ r.out # <<>> /\ do = Head(r.out) /\ u \in RealmShapes
        /\ u.out = Tail(r.out)
        /\ u.skip = IF Sets(do.op) /\ ok THEN do.value ELSE r.skip
    BY <1>1, <1>2, <1>4, <1>8
  <2>2. (u.stopped => r.stopped) /\ (do.op = "resume" /\ ok => ~ u.stopped)
    BY <1>9
  <2> QED
    BY <2>1, <2>2, <1>10, ExecutingKeeps
<1> QED
  BY <1>1, <1>2, <1>7, <1>8, <1>11, TargetMoves

\* The kinds of frames that are read.
Reading(c) == runtime[c].in # <<>>
ReadsRebuilt(c) ==
    /\ Head(runtime[c].in).op = "rebuilt"
    /\ Reconfirm(c, [peer[c] EXCEPT !.paused = FALSE], [runtime[c] EXCEPT !.in = Tail(@)], IsLocked(c))
ReadsPause(c) ==
    /\ Head(runtime[c].in).op \in {"paused", "resumed"}
    /\ peer' = [peer EXCEPT ![c].paused = (Head(runtime[c].in).op = "paused")]
    /\ runtime' = [runtime EXCEPT ![c] = [runtime[c] EXCEPT !.in = Tail(@)]]
    /\ UNCHANGED spent

\* What is known as the first frame of c is read.
ReadStands(c, p, r, t, n, frame) ==
    /\ p = peer[c] /\ r = runtime[c] /\ n = spent.commands /\ frame = Head(r.in)
    /\ Tells(p, r, n) /\ r.in # <<>> /\ p.on
    /\ t = [runtime[c] EXCEPT !.in = Tail(@)]
    /\ t.in = Tail(r.in) /\ t.out = r.out /\ t.stopped = r.stopped /\ t.skip = r.skip
    /\ \A i \in DOMAIN t.out : t.out[i].id <= n /\ (t.out[i].op # "other" => t.out[i].id # 0)
    /\ 1 \in DOMAIN r.in /\ frame = r.in[1]
    /\ Untouched(p, t) /\ frame.op = "reply" => Untouched(p, r)

LEMMA ReadsStand ==
    ASSUME PauseInv, NEW c \in Peers, Reading(c)
    PROVE  \E p \in PeerShapes, r \in RealmShapes, t \in RealmShapes, n \in Nat, frame \in Notices :
              ReadStands(c, p, r, t, n, frame)
<1>1. PICK p \in PeerShapes, r \in RealmShapes, n \in Nat :
        p = peer[c] /\ r = runtime[c] /\ n = spent.commands /\ Tells(p, r, n)
  BY PauseFacts
<1>2. p.on
  BY <1>1, PauseFacts DEF NoRealm, Reading
<1>3. /\ Tail(r.in) \in Seq(Notices) /\ 1 \in DOMAIN r.in /\ Head(r.in) = r.in[1]
      /\ \A i \in DOMAIN r.in : i # 1 => i - 1 \in DOMAIN Tail(r.in) /\ Tail(r.in)[i - 1] = r.in[i]
  BY <1>1, ReadingOne DEF RealmShapes, Reading
<1>4. PICK frame \in Notices : frame = Head(r.in)
  BY <1>3, ElementOfSeq, LenProperties DEF RealmShapes
<1>5. PICK in \in Seq(Notices) : in = Tail(r.in)
  BY <1>3
<1>6. PICK t \in RealmShapes :
        /\ t = [r EXCEPT !.in = in] /\ t.in = in /\ t.out = r.out /\ t.stopped = r.stopped
        /\ t.skip = r.skip
  <2>1. PICK t : t = [r EXCEPT !.in = in]
    OBVIOUS
  <2>2. /\ t \in RealmShapes /\ t.in = in /\ t.out = r.out /\ t.stopped = r.stopped
        /\ t.skip = r.skip
    BY <2>1 DEF RealmShapes
  <2> QED
    BY <2>1, <2>2, Zenon
<1>7. t = [runtime[c] EXCEPT !.in = Tail(@)]
  BY <1>1, <1>5, <1>6 DEF RealmShapes
<1>8. \A i \in DOMAIN t.out : t.out[i].id <= n /\ (t.out[i].op # "other" => t.out[i].id # 0)
  BY <1>1, <1>6 DEF Tells, CommandsNumbered
<1>9. Untouched(p, t) /\ frame.op = "reply" => Untouched(p, r)
  BY ZenonT(40), <1>3, <1>4, <1>5, <1>6 DEF Untouched, NoReload
<1>10. r.in # <<>> /\ t.in = Tail(r.in)
  BY <1>1, <1>5, <1>6 DEF Reading
<1>11. ReadStands(c, p, r, t, n, frame)
  BY <1>1, <1>2, <1>3, <1>4, <1>6, <1>7, <1>8, <1>9, <1>10 DEF ReadStands
<1> QED
  BY <1>11

\* The peer c becomes q and its target t, and nothing is sent.
LEMMA PeerMoves ==
    ASSUME PauseInv, NEW c \in Peers, peer[c].on, NEW q \in PeerShapes, q.on, NEW t \in RealmShapes,
           peer' = [peer EXCEPT ![c] = q], runtime' = [runtime EXCEPT ![c] = t],
           lock' = lock, spent' = spent, Tells(q, t, spent.commands),
           IsLocked(c) => ~ q.reloaded
    PROVE  PauseInv'
<1>1. /\ spent' \in [peers : Nat, commands : Nat, events : Nat]
      /\ spent'.peers = spent.peers /\ spent.commands <= spent'.commands
      /\ Tells(q, t, spent'.commands)
  BY PauseFacts
<1>2. lock'.enabled /\ lock'.target = c => ~ q.reloaded
  BY DEF IsLocked
<1> QED
  BY <1>1, <1>2, OneMoves

LEMMA ReloadedReadKeeps ==
    ASSUME PauseInv, NEW c \in Peers, Reading(c), ReadsRebuilt(c), UNCHANGED lock
    PROVE  PauseInv'
<1>1. PICK p \in PeerShapes, r \in RealmShapes, t \in RealmShapes, n \in Nat, frame \in Notices :
        ReadStands(c, p, r, t, n, frame)
  BY ReadsStand
<1>2. PICK q \in PeerShapes :
        /\ q = [peer[c] EXCEPT !.paused = FALSE] /\ q.paused = FALSE /\ q.setter = p.setter
        /\ q.policy = p.policy /\ q.has = p.has /\ q.stray = p.stray /\ q.on = p.on
        /\ q.reloaded = p.reloaded
  <2>1. PICK q : q = [p EXCEPT !.paused = FALSE]
    OBVIOUS
  <2>2. /\ q \in PeerShapes /\ q.paused = FALSE /\ q.setter = p.setter
        /\ q.policy = p.policy /\ q.has = p.has /\ q.stray = p.stray /\ q.on = p.on
        /\ q.reloaded = p.reloaded
    BY <2>1 DEF PeerShapes
  <2>3. p = peer[c]
    BY <1>1 DEF ReadStands
  <2> QED
    BY <2>1, <2>2, <2>3, Zenon
<1>3. StopIsHeard(q, t)
  <2>1. Head(r.in).op = "rebuilt"
    BY <1>1 DEF ReadStands, ReadsRebuilt
  <2>2. q.paused = CASE Head(r.in).op = "paused" -> TRUE
                     [] Ends(Head(r.in).op) -> FALSE
                     [] Head(r.in).op = "reply" -> p.paused
    BY <1>2, <2>1 DEF Ends
  <2>3. StopIsHeard(p, r) /\ r.in # <<>> /\ t.in = Tail(r.in) /\ t.stopped = r.stopped
    BY <1>1 DEF ReadStands, Tells
  <2> QED
    BY <2>2, <2>3, StopStaysHeard
<1>4. Stands(q, t, n)
  BY <1>1, <1>2, <1>3, ReadingKeeps DEF ReadStands
<1>5. PICK u \in PeerShapes :
        /\ u = Unconfirmed(q) /\ u.on = q.on /\ u.setter = NoSetter
        /\ u.policy.known = FALSE /\ u.policy.busy = FALSE /\ u.paused = q.paused
  BY InvalidatedIs
<1>6. Tells(u, t, n) /\ u.on /\ q.on
  <2>1. \A i \in DOMAIN t.out : t.out[i].id <= n /\ (t.out[i].op # "other" => t.out[i].id # 0)
    BY <1>1 DEF ReadStands
  <2>2. Tells(u, t, n)
    BY <1>4, <1>5, <2>1, NothingIsPromised
  <2>3. p.on
    BY <1>1 DEF ReadStands
  <2> QED
    BY <1>2, <1>5, <2>2, <2>3
<1>7. peer[c].on /\ n = spent.commands
  BY <1>1 DEF ReadStands
<1>8. PICK e \in BOOLEAN : e = q.policy.enabled
  BY DEF PeerShapes, Policies
<1>9. Reconfirm(c, q, t, IsLocked(c))
  BY <1>1, <1>2 DEF ReadStands, ReadsRebuilt
<1>10. CASE Waits(q) /\ IsLocked(c)
  <2>1. /\ peer' = [peer EXCEPT ![c] = Setting(u, e)]
        /\ runtime' = [runtime EXCEPT ![c] = Send(t, "enable", e)]
        /\ spent' = [spent EXCEPT !.commands = @ + 1]
    BY <1>5, <1>8, <1>9, <1>10 DEF Reconfirm
  <2>2. /\ spent' \in [peers : Nat, commands : Nat, events : Nat]
        /\ spent'.peers = spent.peers /\ spent'.commands = spent.commands + 1
    BY <2>1, PauseFacts
  <2>3. Stands(u, t, spent.commands)
    BY <1>6, <1>7 DEF Tells, Stands
  <2> QED
    BY <1>6, <1>7, <2>1, <2>2, <2>3, Begins
<1>11. CASE Waits(q) /\ ~ IsLocked(c)
  <2>1. /\ peer' = [peer EXCEPT ![c] = u] /\ runtime' = [runtime EXCEPT ![c] = t] /\ spent' = spent /\ lock' = lock
    BY <1>5, <1>9, <1>11 DEF Reconfirm
  <2> QED
    BY <1>6, <1>7, <1>11, <2>1, PeerMoves
<1>12. CASE ~ Waits(q)
  <2>1. /\ peer' = [peer EXCEPT ![c] = q] /\ runtime' = [runtime EXCEPT ![c] = t] /\ spent' = spent /\ lock' = lock
    BY <1>9, <1>12 DEF Reconfirm
  <2>2. q.policy \in Policies /\ Shown(q)
    BY <1>4 DEF Stands, PeerShapes
  <2>3. q.policy.known = FALSE /\ q.policy.busy = FALSE /\ q.setter = NoSetter
    BY <1>12, <2>2 DEF Waits, Shown, Policies
  <2>4. \A i \in DOMAIN t.out : t.out[i].id <= n /\ (t.out[i].op # "other" => t.out[i].id # 0)
    BY <1>1 DEF ReadStands
  <2>5. Tells(q, t, n)
    BY <1>4, <2>3, <2>4, NothingIsPromised
  <2>6. IsLocked(c) => ~ q.reloaded
    BY <1>1, <1>2, PauseFacts DEF ReadStands, LockedIsReconfirmed
  <2> QED
    BY <1>6, <1>7, <2>1, <2>5, <2>6, PeerMoves
<1> QED
  BY <1>10, <1>11, <1>12

LEMMA PauseReadKeeps ==
    ASSUME PauseInv, NEW c \in Peers, Reading(c), ReadsPause(c), UNCHANGED lock
    PROVE  PauseInv'
<1>1. PICK p \in PeerShapes, r \in RealmShapes, t \in RealmShapes, n \in Nat, frame \in Notices :
        ReadStands(c, p, r, t, n, frame)
  BY ReadsStand
<1>2. PICK b \in BOOLEAN : b = (Head(runtime[c].in).op = "paused")
  OBVIOUS
<1>3. PICK q \in PeerShapes :
        /\ q = [peer[c] EXCEPT !.paused = b] /\ q.paused = b /\ q.setter = p.setter
        /\ q.policy = p.policy /\ q.has = p.has /\ q.stray = p.stray /\ q.on = p.on
        /\ q.reloaded = p.reloaded
  <2>1. PICK q : q = [p EXCEPT !.paused = b]
    OBVIOUS
  <2>2. /\ q \in PeerShapes /\ q.paused = b /\ q.setter = p.setter
        /\ q.policy = p.policy /\ q.has = p.has /\ q.stray = p.stray /\ q.on = p.on
        /\ q.reloaded = p.reloaded
    BY <2>1 DEF PeerShapes
  <2>3. p = peer[c]
    BY <1>1 DEF ReadStands
  <2> QED
    BY <2>1, <2>2, <2>3, Zenon
<1>4. frame.op \in {"paused", "resumed"} /\ b = (frame.op = "paused")
  BY <1>1, <1>2 DEF ReadStands, ReadsPause
<1>5. StopIsHeard(q, t)
  <2>1. q.paused = CASE Head(r.in).op = "paused" -> TRUE
                     [] Ends(Head(r.in).op) -> FALSE
                     [] Head(r.in).op = "reply" -> p.paused
    BY <1>1, <1>3, <1>4 DEF ReadStands, Ends
  <2> QED
    BY <1>1, <2>1, StopStaysHeard DEF ReadStands, Tells
<1>6. Tells(q, t, n)
  BY ZenonT(40), <1>1, <1>3, <1>4, <1>5, ReadingKeeps DEF ReadStands
<1>7. peer' = [peer EXCEPT ![c] = q] /\ runtime' = [runtime EXCEPT ![c] = t]
  BY <1>1, <1>2, <1>3, PauseFacts DEF ReadStands, ReadsPause
<1>8. peer[c].on /\ q.on /\ n = spent.commands /\ (IsLocked(c) => ~ q.reloaded)
  BY <1>1, <1>3, PauseFacts DEF ReadStands, LockedIsReconfirmed
<1>9. spent' = spent /\ lock' = lock
  BY DEF ReadsPause
<1> QED
  BY <1>6, <1>7, <1>8, <1>9, PeerMoves

ReadsAnswer(c) ==
    /\ Head(runtime[c].in).op = "reply" /\ Head(runtime[c].in).id = peer[c].setter.id
    /\ Acknowledged(c, Head(runtime[c].in).ok)

LEMMA AnswerReadKeeps ==
    ASSUME PauseInv, NEW c \in Peers, Reading(c), ReadsAnswer(c), UNCHANGED lock
    PROVE  PauseInv'
<1>1. PICK p \in PeerShapes, r \in RealmShapes, t \in RealmShapes, n \in Nat, frame \in Notices :
        ReadStands(c, p, r, t, n, frame)
  BY ReadsStand
<1>2. /\ frame.op = "reply" /\ frame.id = p.setter.id /\ Acknowledged(c, frame.ok)
      /\ frame = r.in[1] /\ 1 \in DOMAIN r.in /\ frame = Head(r.in)
  BY <1>1 DEF ReadStands, ReadsAnswer
<1>3. frame.ok \in BOOLEAN
  BY <1>2 DEF Notices
<1>4. p.setter.step # "none"
  BY <1>1, <1>2 DEF ReadStands, Tells, CommandsNumbered, Shown, NoSetter
<1>5. StopIsHeard(p, t)
  <2>1. p.paused = CASE Head(r.in).op = "paused" -> TRUE
                     [] Ends(Head(r.in).op) -> FALSE
                     [] Head(r.in).op = "reply" -> p.paused
    BY <1>2 DEF Ends
  <2> QED
    BY <1>1, <2>1, StopStaysHeard DEF ReadStands, Tells
<1>6. Tells(p, t, n) /\ Stands(p, t, n)
  <2>1. Tells(p, t, n)
    BY <1>1, <1>2, <1>5, ReadingKeeps DEF ReadStands
  <2> QED
    BY <2>1 DEF Tells, Stands
<1>7. /\ peer[c].on /\ p.on /\ n = spent.commands /\ (IsLocked(c) => ~ p.reloaded) /\ p = peer[c]
      /\ t = [runtime[c] EXCEPT !.in = Tail(@)]
  BY <1>1, PauseFacts DEF ReadStands, LockedIsReconfirmed
<1>8. CASE /\ peer' = [peer EXCEPT ![c] = Failed(p)] /\ runtime' = [runtime EXCEPT ![c] = t]
           /\ spent' = spent
  <2>1. PICK q \in PeerShapes :
          /\ q = Failed(p) /\ q.on = p.on /\ q.setter = NoSetter
          /\ q.policy.known = FALSE /\ q.policy.busy = FALSE
          /\ q.paused = p.paused /\ q.reloaded = p.reloaded
    BY FailedIs
  <2>2. \A i \in DOMAIN t.out : t.out[i].id <= n /\ (t.out[i].op # "other" => t.out[i].id # 0)
    BY <1>1 DEF ReadStands
  <2>3. Tells(q, t, n)
    BY <1>6, <2>1, <2>2, NothingIsPromised
  <2>4. q.on /\ (IsLocked(c) => ~ q.reloaded) /\ Tells(q, t, spent.commands)
    BY <1>7, <2>1, <2>3
  <2>5. /\ peer[c].on /\ peer' = [peer EXCEPT ![c] = q] /\ runtime' = [runtime EXCEPT ![c] = t]
        /\ lock' = lock /\ spent' = spent
    BY <1>7, <1>8, <2>1
  <2> QED
    BY <2>4, <2>5, PeerMoves
<1>9. CASE /\ frame.ok /\ NextStep(p) = "done"
           /\ peer' = [peer EXCEPT ![c] = [p EXCEPT
                 !.policy.known = TRUE, !.policy.busy = FALSE, !.setter = NoSetter,
                 !.paused = @ /\ p.setter.step # "resume"]]
           /\ runtime' = [runtime EXCEPT ![c] = t] /\ spent' = spent
  <2>1. p.policy \in Policies /\ p.setter \in Setters /\ p.paused \in BOOLEAN /\ NoSetter \in Setters
    BY DEF PeerShapes, NoSetter, Setters
  <2>2. PICK policy \in Policies : policy = [p.policy EXCEPT !.known = TRUE, !.busy = FALSE]
    BY <2>1 DEF Policies
  <2>3. policy.busy = FALSE /\ policy.enabled = p.policy.enabled
    BY <2>1, <2>2 DEF Policies
  <2>4. PICK b \in BOOLEAN : b = (p.paused /\ p.setter.step # "resume")
    OBVIOUS
  <2>5. PICK q : q = [p EXCEPT !.policy = policy, !.setter = NoSetter, !.paused = b]
    OBVIOUS
  <2>6. /\ q \in PeerShapes /\ q.policy = policy /\ q.setter = NoSetter /\ q.paused = b
        /\ q.has = p.has /\ q.stray = p.stray /\ q.on = p.on /\ q.reloaded = p.reloaded
    BY <2>1, <2>5 DEF PeerShapes
  <2>7. q = [p EXCEPT !.policy.known = TRUE, !.policy.busy = FALSE, !.setter = NoSetter,
                      !.paused = @ /\ p.setter.step # "resume"]
    BY <2>2, <2>4, <2>5 DEF PeerShapes
  <2>8. Confirms(p, r, 1) /\ r.in # <<>> /\ Tells(p, r, n)
    BY <1>1, <1>2, <1>9 DEF Confirms, ReadStands
  <2>9. /\ p.setter.step \in {"skip", "resume"}
        /\ p.setter.step = "skip" => ~ (p.policy.enabled /\ p.paused)
    BY <1>4, <1>9, <2>1 DEF NextStep, Setters
  <2>10. t.in = Tail(r.in) /\ t.out = r.out /\ t.stopped = r.stopped /\ t.skip = r.skip
    BY <1>1 DEF ReadStands
  <2>11. Tells(q, t, n)
    BY <2>3, <2>4, <2>6, <2>8, <2>9, <2>10, CallSucceeds
  <2>12. q.on /\ (IsLocked(c) => ~ q.reloaded) /\ Tells(q, t, spent.commands)
    BY <1>7, <2>6, <2>11
  <2>13. /\ peer[c].on /\ peer' = [peer EXCEPT ![c] = q] /\ runtime' = [runtime EXCEPT ![c] = t]
         /\ lock' = lock /\ spent' = spent
    BY <1>7, <1>9, <2>7
  <2> QED
    BY <2>6, <2>12, <2>13, PeerMoves
<1>10. CASE /\ frame.ok /\ NextStep(p) # "done"
            /\ peer' = [peer EXCEPT ![c].setter =
                  [@ EXCEPT !.step = NextStep(p), !.id = spent.commands + 1]]
            /\ runtime' = [runtime EXCEPT ![c] = Send(t, NextStep(p), p.policy.enabled)]
            /\ spent' = [spent EXCEPT !.commands = @ + 1]
  <2>1. PICK step : step = NextStep(p)
    OBVIOUS
  <2>2. /\ step \in {"skip", "resume"}
        /\ step = "resume" => p.setter.step = "skip"
    BY <1>10, <2>1 DEF NextStep
  <2>3. p.setter \in Setters /\ p.policy \in Policies /\ p.policy.enabled \in BOOLEAN
    BY DEF PeerShapes, Policies
  <2>4. PICK setter : setter = [p.setter EXCEPT !.step = step, !.id = n + 1]
    OBVIOUS
  <2>5. setter \in Setters /\ setter.step = step /\ setter.id = n + 1
    <3>1. PICK m \in Nat : m = n + 1
      OBVIOUS
    <3>2. setter = [step |-> step, id |-> m, prev |-> p.setter.prev] /\ p.setter.prev \in BOOLEAN
      BY <2>3, <2>4, <3>1 DEF Setters
    <3> QED
      BY <2>2, <3>1, <3>2 DEF Setters
  <2>6. PICK q : q = [p EXCEPT !.setter = setter]
    OBVIOUS
  <2>7. /\ q \in PeerShapes /\ q.setter = setter /\ q.policy = p.policy /\ q.has = p.has
        /\ q.paused = p.paused /\ q.stray = p.stray /\ q.on = p.on /\ q.reloaded = p.reloaded
    BY <2>5, <2>6 DEF PeerShapes
  <2>8. peer' = [peer EXCEPT ![c] = q]
    BY <1>7, <1>10, <2>1, <2>4, <2>6, PauseFacts
  <2>9. PICK e \in BOOLEAN : e = p.policy.enabled
    BY <2>3
  <2>10. PICK cmd \in Orders, u \in RealmShapes :
           /\ cmd.op = step /\ cmd.value = e /\ cmd.id = n + 1
           /\ u = Send(t, step, e) /\ u.out = Append(t.out, cmd)
           /\ u.in = t.in /\ u.stopped = t.stopped /\ u.skip = t.skip
    <3>1. step \in {"enable", "skip", "resume"} /\ spent.commands \in Nat
      BY <1>7, <2>2
    <3>2. PICK cmd \in Orders :
             /\ cmd.op = step /\ cmd.value = e /\ cmd.id = spent.commands + 1
             /\ Send(t, step, e) \in RealmShapes /\ Send(t, step, e).out = Append(t.out, cmd)
             /\ Send(t, step, e).in = t.in /\ Send(t, step, e).stopped = t.stopped
             /\ Send(t, step, e).skip = t.skip
      <4>1. \E cmd \in Orders :
               /\ cmd.op = "skip" /\ cmd.value = e /\ cmd.id = spent.commands + 1
               /\ Send(t, "skip", e) \in RealmShapes /\ Send(t, "skip", e).out = Append(t.out, cmd)
               /\ Send(t, "skip", e).in = t.in /\ Send(t, "skip", e).stopped = t.stopped
               /\ Send(t, "skip", e).skip = t.skip
        BY <3>1, SendShapes
      <4>2. \E cmd \in Orders :
               /\ cmd.op = "resume" /\ cmd.value = e /\ cmd.id = spent.commands + 1
               /\ Send(t, "resume", e) \in RealmShapes /\ Send(t, "resume", e).out = Append(t.out, cmd)
               /\ Send(t, "resume", e).in = t.in /\ Send(t, "resume", e).stopped = t.stopped
               /\ Send(t, "resume", e).skip = t.skip
        BY <3>1, SendShapes
      <4> QED
        BY <2>2, <4>1, <4>2
    <3>3. PICK u : u = Send(t, step, e)
      OBVIOUS
    <3> QED
      BY <1>7, <3>2, <3>3
  <2>11. runtime' = [runtime EXCEPT ![c] = u]
    BY <1>10, <2>1, <2>9, <2>10
  <2>12. p.policy.busy = TRUE /\ p.has = TRUE /\ p.policy.known = FALSE
    BY <1>4, <1>6, <2>3 DEF Tells, Shown, Policies, PeerShapes
  <2>13. ASSUME q.setter.step = "resume", Untouched(p, t)
         PROVE  t.skip = p.policy.enabled /\ \A i \in DOMAIN t.out : ~ Sets(t.out[i].op)
    BY <1>1, <1>2, <1>10, <2>2, <2>5, <2>7, <2>13 DEF ReadStands, Tells, ChoiceIsSet, Confirms,
       InForce
  <2>14. Tells(q, u, n + 1)
    <3>1. /\ q.setter.step \in {"skip", "resume"} /\ q.setter.id = n + 1 /\ q.policy = p.policy
          /\ q.policy.busy = TRUE /\ q.has = TRUE /\ q.paused = p.paused /\ q.stray = p.stray
          /\ cmd.op = q.setter.step /\ cmd.value = q.policy.enabled /\ cmd.id = n + 1
          /\ q.policy.known = FALSE
      BY <2>2, <2>5, <2>7, <2>9, <2>10, <2>12
    <3> QED
      BY <1>6, <2>7, <2>10, <2>13, <3>1, CallGoesOn
  <2>15. /\ spent' \in [peers : Nat, commands : Nat, events : Nat]
         /\ spent'.peers = spent.peers /\ spent'.commands = n + 1 /\ spent.commands <= spent'.commands
    <3>1. spent \in [peers : Nat, commands : Nat, events : Nat]
      BY PauseFacts
    <3> QED
      BY <1>7, <1>10, <3>1
  <2>16. /\ peer[c].on /\ q.on /\ Tells(q, u, spent'.commands)
         /\ (lock'.enabled /\ lock'.target = c => ~ q.reloaded) /\ lock' = lock
    BY <1>7, <2>7, <2>14, <2>15 DEF IsLocked
  <2> QED
    BY <2>7, <2>8, <2>11, <2>15, <2>16, OneMoves
<1> QED
  BY <1>2, <1>7, <1>8, <1>9, <1>10 DEF Acknowledged

LEMMA OtherAnswerReadKeeps ==
    ASSUME PauseInv, NEW c \in Peers, Reading(c), Head(runtime[c].in).op = "reply",
           runtime' = [runtime EXCEPT ![c] = [runtime[c] EXCEPT !.in = Tail(@)]],
           UNCHANGED <<peer, spent, lock>>
    PROVE  PauseInv'
<1>1. PICK p \in PeerShapes, r \in RealmShapes, t \in RealmShapes, n \in Nat, frame \in Notices :
        ReadStands(c, p, r, t, n, frame)
  BY ReadsStand
<1>2. Head(r.in).op = "reply"
  BY <1>1 DEF ReadStands
<1>3. StopIsHeard(p, t)
  <2>1. p.paused = CASE Head(r.in).op = "paused" -> TRUE
                     [] Ends(Head(r.in).op) -> FALSE
                     [] Head(r.in).op = "reply" -> p.paused
    BY <1>2 DEF Ends
  <2>2. StopIsHeard(p, r) /\ r.in # <<>> /\ t.in = Tail(r.in) /\ t.stopped = r.stopped
    BY <1>1 DEF ReadStands, Tells
  <2> QED
    BY <2>1, <2>2, StopStaysHeard
<1>4. Tells(p, t, n)
  BY <1>1, <1>2, <1>3, ReadingKeeps DEF ReadStands
<1>5. /\ peer[c].on /\ Tells(peer[c], t, spent.commands)
      /\ runtime' = [runtime EXCEPT ![c] = t]
  BY <1>1, <1>4 DEF ReadStands
<1> QED
  BY <1>5, TargetMoves

LEMMA ReadFrameKeeps ==
    ASSUME PauseInv, NEW c \in Peers, ReadFrame(c)
    PROVE  PauseInv'
<1>1. Reading(c) /\ UNCHANGED lock
  BY DEF ReadFrame, Reading
<1>2. CASE ReadsRebuilt(c)
  BY <1>1, <1>2, ReloadedReadKeeps
<1>3. CASE ReadsPause(c)
  BY <1>1, <1>3, PauseReadKeeps
<1>4. CASE ReadsAnswer(c)
  BY <1>1, <1>4, AnswerReadKeeps
<1>5. CASE /\ Head(runtime[c].in).op = "reply" /\ UNCHANGED <<peer, spent>>
           /\ runtime' = [runtime EXCEPT ![c] = [runtime[c] EXCEPT !.in = Tail(@)]]
  BY <1>1, <1>5, OtherAnswerReadKeeps
<1> QED
  BY <1>2, <1>3, <1>4, <1>5 DEF ReadFrame, ReadsRebuilt, ReadsPause, ReadsAnswer

-----------------------------------------------------------------------------
LEMMA NothingYet ==
    /\ NoPeer \in PeerShapes /\ NoRealm \in RealmShapes
    /\ NoPeer.on = FALSE /\ NoPeer.reloaded = FALSE
    /\ \A n \in Nat : Tells(NoPeer, NoRealm, n)
<1>1. <<>> \in Seq(Orders) /\ <<>> \in Seq(Notices) /\ NoSetter \in Setters /\ NoPolicy \in Policies
  BY DEF NoSetter, Setters, NoPolicy, Policies
<1>2. NoPeer \in PeerShapes /\ NoRealm \in RealmShapes
  BY <1>1 DEF NoPeer, NoRealm, PeerShapes, RealmShapes
<1>3. /\ NoPeer.on = FALSE /\ NoPeer.reloaded = FALSE /\ NoPeer.setter = NoSetter
      /\ NoPeer.policy.known = FALSE /\ NoPeer.policy.busy = FALSE
      /\ NoRealm.stopped = FALSE /\ NoRealm.out = <<>> /\ NoRealm.in = <<>>
  BY DEF NoPeer, NoPolicy, NoRealm
<1>4. DOMAIN NoRealm.out = {} /\ DOMAIN NoRealm.in = {}
  BY <1>3
<1>5. ASSUME NEW n \in Nat
      PROVE  Tells(NoPeer, NoRealm, n)
  <2>1. NoPeer.setter.step = "none"
    BY <1>3 DEF NoSetter
  <2>2. CommandsNumbered(NoPeer, NoRealm, n) /\ Shown(NoPeer) /\ StopIsHeard(NoPeer, NoRealm)
    BY <1>3, <1>4, <2>1 DEF CommandsNumbered, Shown, StopIsHeard
  <2>3. Stands(NoPeer, NoRealm, n)
    BY <2>2 DEF Stands
  <2> QED
    BY <1>2, <1>3, <1>4, <2>3, NothingIsPromised
<1> QED
  BY <1>2, <1>3, <1>5

LEMMA PausesInitially == PauseInit => PauseInv
<1>1. SUFFICES ASSUME PauseInit PROVE PauseInv
  OBVIOUS
<1>2. /\ lock = [enabled |-> TRUE, target |-> 0] /\ spent = [peers |-> 0, commands |-> 0, events |-> 0]
      /\ \A c \in Peers : peer[c] = NoPeer /\ runtime[c] = NoRealm
      /\ peer \in [Peers -> PeerShapes] /\ runtime \in [Peers -> RealmShapes]
  BY <1>1, NothingYet DEF PauseInit
<1>3. PauseShape
  BY <1>2, NothingYet DEF PauseShape
<1>4. LockedIsReconfirmed
  BY <1>2, NothingYet DEF LockedIsReconfirmed
<1> QED
  BY <1>2, <1>3, <1>4, NothingYet DEF PauseInv

LEMMA AddPeerKeeps ==
    ASSUME PauseInv, AddMiniapp
    PROVE  PauseInv'
<1>1. PICK c : c = spent.peers + 1
  OBVIOUS
<1>2. /\ spent.peers < MaxPeers /\ peer' = [peer EXCEPT ![c].on = TRUE]
      /\ lock' = (IF lock.enabled /\ lock.target = 0 THEN [lock EXCEPT !.target = c] ELSE lock)
      /\ spent' = [spent EXCEPT !.peers = c] /\ runtime' = runtime
  BY <1>1 DEF AddMiniapp
<1>3. /\ c \in Peers /\ c \in Nat /\ ~ peer[c].on /\ peer[c] = NoPeer /\ runtime[c] = NoRealm
      /\ spent \in [peers : Nat, commands : Nat, events : Nat]
  BY <1>1, <1>2, PauseFacts DEF Peers
<1>4. PICK q \in PeerShapes :
        /\ q = [NoPeer EXCEPT !.on = TRUE] /\ q.on = TRUE /\ q.setter = NoSetter
        /\ q.policy.known = FALSE /\ q.policy.busy = FALSE /\ q.paused = NoPeer.paused
        /\ q.reloaded = FALSE
  <2>1. NoPeer.policy.known = FALSE /\ NoPeer.policy.busy = FALSE /\ NoPeer.setter = NoSetter
    BY DEF NoPeer, NoPolicy
  <2>2. PICK q : q = [NoPeer EXCEPT !.on = TRUE]
    OBVIOUS
  <2>3. /\ q \in PeerShapes /\ q.on = TRUE /\ q.setter = NoPeer.setter /\ q.policy = NoPeer.policy
        /\ q.paused = NoPeer.paused /\ q.reloaded = NoPeer.reloaded
    BY <2>2, NothingYet DEF PeerShapes
  <2> QED
    BY <2>1, <2>2, <2>3, NothingYet
<1>5. /\ peer' = [peer EXCEPT ![c] = q] /\ peer'[c] = q /\ peer' \in [Peers -> PeerShapes]
      /\ \A d \in Peers : d # c => peer'[d] = peer[d]
  BY <1>2, <1>3, <1>4, PauseFacts
<1>6. Tells(q, NoRealm, spent.commands)
  <2>1. /\ Stands(NoPeer, NoRealm, spent.commands) /\ NoRealm \in RealmShapes
        /\ \A i \in DOMAIN NoRealm.out :
              NoRealm.out[i].id <= spent.commands /\ (NoRealm.out[i].op # "other" => NoRealm.out[i].id # 0)
    BY <1>3, NothingYet DEF Tells, Stands, CommandsNumbered
  <2> QED
    BY <1>3, <1>4, <2>1, NothingYet, NothingIsPromised
<1>7. Connected' = Connected \cup {c}
  BY <1>3, <1>4, <1>5 DEF Connected
<1>8. /\ spent' \in [peers : Nat, commands : Nat, events : Nat]
      /\ spent'.peers = c /\ spent'.commands = spent.commands
  BY <1>2, <1>3
<1>9. PauseShape'
  <2>1. lock' \in [enabled : BOOLEAN, target : Nat] /\ (lock'.target = 0 \/ lock'.target \in Connected')
    BY <1>2, <1>3, <1>7, PauseFacts
  <2>2. \A d \in Peers : ~ peer'[d].on => peer'[d] = NoPeer /\ runtime'[d] = NoRealm
    BY <1>2, <1>4, <1>5, PauseFacts
  <2>3. \A d \in Peers : d > spent'.peers => ~ peer'[d].on
    BY <1>1, <1>3, <1>5, <1>8, PauseFacts DEF Peers
  <2> QED
    BY <1>2, <1>5, <1>8, <2>1, <2>2, <2>3, PauseFacts DEF PauseShape
<1>10. \A d \in Peers : Tells(peer'[d], runtime'[d], spent'.commands)
  BY <1>2, <1>3, <1>5, <1>6, <1>8, PauseFacts
<1>11. LockedIsReconfirmed'
  BY <1>2, <1>3, <1>4, <1>5, PauseFacts DEF LockedIsReconfirmed, IsLocked
<1> QED
  BY <1>9, <1>10, <1>11 DEF PauseInv

LEMMA RemovePeerKeeps ==
    ASSUME PauseInv, NEW c \in Peers, RemoveMiniapp(c)
    PROVE  PauseInv'
<1>1. /\ peer' = [peer EXCEPT ![c] = NoPeer] /\ runtime' = [runtime EXCEPT ![c] = NoRealm]
      /\ lock' = (IF lock.target = c THEN [lock EXCEPT !.target = 0] ELSE lock)
      /\ spent' = [spent EXCEPT !.events = @ + 1]
  BY DEF RemoveMiniapp, Spend
<1>2. /\ spent' \in [peers : Nat, commands : Nat, events : Nat]
      /\ spent'.peers = spent.peers /\ spent'.commands = spent.commands /\ spent.commands \in Nat
  BY <1>1, PauseFacts
<1>3. /\ peer' \in [Peers -> PeerShapes] /\ runtime' \in [Peers -> RealmShapes]
      /\ peer'[c] = NoPeer /\ runtime'[c] = NoRealm
      /\ \A d \in Peers : d # c => peer'[d] = peer[d] /\ runtime'[d] = runtime[d]
  BY <1>1, PauseFacts, NothingYet
<1>4. \A d \in Connected : d # c => d \in Connected'
  BY <1>3 DEF Connected
<1>5. PauseShape'
  BY <1>1, <1>2, <1>3, <1>4, PauseFacts, NothingYet DEF PauseShape
<1>6. \A d \in Peers : Tells(peer'[d], runtime'[d], spent'.commands)
  BY <1>2, <1>3, PauseFacts, NothingYet
<1>7. LockedIsReconfirmed'
  BY <1>1, <1>3, PauseFacts, NothingYet DEF LockedIsReconfirmed, IsLocked
<1> QED
  BY <1>5, <1>6, <1>7 DEF PauseInv

\* The newest of the connected peers.
LEMMA NewestPeer ==
    ASSUME NEW S \in SUBSET Peers, S # {}
    PROVE  (CHOOSE c \in S : \A d \in S : d <= c) \in S
<1> DEFINE T == {MaxPeers - c : c \in S}
<1>1. \A c \in S : c \in Nat /\ MaxPeers - c \in Nat
  BY DEF Peers
<1>2. T \in SUBSET Nat /\ T # {}
  BY <1>1
<1>3. PICK n \in T : \A m \in T : ~ (<<m, n>> \in OpToRel(<, Nat))
  <2> HIDE DEF T
  <2> QED
    BY <1>2, NatLessThanWellFounded, WFMin
<1>4. PICK c \in S : n = MaxPeers - c
  BY <1>3
<1>5. \A d \in S : d <= c
  <2> SUFFICES ASSUME NEW d \in S, ~ (d <= c) PROVE FALSE
    OBVIOUS
  <2>1. MaxPeers \in Nat /\ c \in Nat /\ d \in Nat /\ n \in Nat /\ MaxPeers - d \in Nat
    BY <1>1, <1>4
  <2>2. MaxPeers - d < n
    BY <1>4, <2>1
  <2>3. MaxPeers - d \in T
    OBVIOUS
  <2>4. <<MaxPeers - d, n>> \in OpToRel(<, Nat)
    BY <2>1, <2>2 DEF OpToRel
  <2> QED
    BY <1>3, <2>3, <2>4
<1> QED
  BY <1>4, <1>5

LEMMA LockOnKeeps ==
    ASSUME PauseInv, NEW c \in Peers, peer[c].on, LockOn(c)
    PROVE  PauseInv'
<1>1. PICK p \in PeerShapes, r \in RealmShapes, n \in Nat :
        p = peer[c] /\ r = runtime[c] /\ n = spent.commands /\ Tells(p, r, n)
  BY PauseFacts
<1>2. lock' = [enabled |-> TRUE, target |-> c]
  BY DEF LockOn
<1>3. spent \in [peers : Nat, commands : Nat, events : Nat]
  BY PauseFacts
<1>4. CASE peer[c].reloaded
  <2>1. PICK u \in PeerShapes :
          /\ u = Unconfirmed(p) /\ u.on = p.on /\ u.setter = NoSetter
          /\ u.policy.known = FALSE /\ u.policy.busy = FALSE /\ u.paused = p.paused
    BY InvalidatedIs
  <2>2. PICK e \in BOOLEAN : e = p.policy.enabled
    BY DEF PeerShapes, Policies
  <2>3. /\ peer' = [peer EXCEPT ![c] = Setting(u, e)]
        /\ runtime' = [runtime EXCEPT ![c] = Send(r, "enable", e)]
        /\ spent' = [spent EXCEPT !.events = @ + 1, !.commands = @ + 1]
    BY <1>1, <1>4, <2>1, <2>2, PauseFacts DEF LockOn
  <2>4. /\ spent' \in [peers : Nat, commands : Nat, events : Nat]
        /\ spent'.peers = spent.peers /\ spent'.commands = spent.commands + 1
    <3>1. PICK i \in Nat, m \in Nat, k \in Nat : spent = [peers |-> i, commands |-> m, events |-> k]
      BY <1>3
    <3>2. spent' = [peers |-> i, commands |-> m + 1, events |-> k + 1]
      BY <2>3, <3>1
    <3> QED
      BY <3>1, <3>2
  <2>5. Stands(u, r, spent.commands) /\ u.on
    <3>1. /\ Stands(p, r, n)
          /\ \A i \in DOMAIN r.out : r.out[i].id <= n /\ (r.out[i].op # "other" => r.out[i].id # 0)
      BY <1>1 DEF Tells, Stands, CommandsNumbered
    <3>2. Tells(u, r, n)
      BY <2>1, <3>1, NothingIsPromised
    <3> QED
      BY <1>1, <2>1, <3>2 DEF Tells, Stands
  <2> QED
    BY <1>2, <2>3, <2>4, <2>5, Begins
<1>5. CASE ~ peer[c].reloaded
  BY <1>1, <1>2, <1>3, <1>5, PauseFacts, OneMoves DEF LockOn, Spend
<1> QED
  BY <1>4, <1>5

LEMMA SetLockKeeps ==
    ASSUME PauseInv, NEW enabled \in BOOLEAN, SetLock(enabled)
    PROVE  PauseInv'
<1>1. CASE enabled /\ Connected # {}
  <2>1. PICK c : c = IF lock.target # 0 THEN lock.target
                     ELSE CHOOSE d \in Connected : \A e \in Connected : e <= d
    OBVIOUS
  <2>2. (CHOOSE d \in Connected : \A e \in Connected : e <= d) \in Connected
    BY <1>1, NewestPeer, PauseFacts
  <2>3. c \in Connected
    BY <2>1, <2>2, PauseFacts
  <2>4. LockOn(c)
    BY <1>1, <2>1 DEF SetLock
  <2> QED
    BY <2>3, <2>4, LockOnKeeps DEF Connected
<1>2. CASE ~ (enabled /\ Connected # {})
  BY <1>2, PauseFacts DEF SetLock, Spend, Connected, PauseShape, LockedIsReconfirmed, IsLocked,
     PauseInv
<1> QED
  BY <1>1, <1>2

LEMMA ExternalKeeps ==
    ASSUME PauseInv, NEW v \in BOOLEAN, ExternalCommand(v)
    PROVE  PauseInv'
<1>1. PICK reached : reached = Reached
  OBVIOUS
<1>2. /\ peer' = [c \in Peers |->
             IF peer[c].has /\ (~ lock.enabled \/ lock.target = c) THEN Invalidated(peer[c])
             ELSE [peer[c] EXCEPT !.stray = @ \/ (c \in reached /\ lock.enabled /\ lock.target = 0)]]
      /\ runtime' = [c \in Peers |->
             IF c \in reached
             THEN [runtime[c] EXCEPT !.out = Append(@, [op |-> "other", value |-> v, id |-> 0])]
             ELSE runtime[c]]
      /\ spent' = [spent EXCEPT !.events = @ + 1] /\ lock' = lock
  BY <1>1 DEF ExternalCommand, Spend
<1>3. /\ spent' \in [peers : Nat, commands : Nat, events : Nat]
      /\ spent'.peers = spent.peers /\ spent'.commands = spent.commands /\ spent.commands \in Nat
  <2>1. spent' = [spent EXCEPT !.events = @ + 1]
    BY <1>2
  <2>2. spent \in [peers : Nat, commands : Nat, events : Nat]
    BY PauseFacts
  <2> QED
    BY <2>1, <2>2
<1>4. /\ reached \subseteq Connected
      /\ lock.target # 0 => reached = {lock.target}
  BY <1>1, PauseFacts DEF Reached
<1>5. PICK cmd \in Orders : cmd = [op |-> "other", value |-> v, id |-> 0] /\ cmd.op = "other" /\ cmd.id = 0
  <2>1. PICK cmd : cmd = [op |-> "other", value |-> v, id |-> 0]
    OBVIOUS
  <2>2. cmd \in Orders /\ cmd.op = "other" /\ cmd.id = 0
    BY <2>1 DEF Orders
  <2> QED
    BY <2>1, <2>2
<1>6. ASSUME NEW c \in Peers
      PROVE  /\ peer'[c] \in PeerShapes /\ runtime'[c] \in RealmShapes
             /\ Tells(peer'[c], runtime'[c], spent.commands)
             /\ peer'[c].on = peer[c].on /\ (peer'[c].reloaded => peer[c].reloaded)
             /\ ~ peer[c].on => peer'[c] = peer[c] /\ runtime'[c] = runtime[c]
  <2>1. PICK p \in PeerShapes, r \in RealmShapes, n \in Nat :
          p = peer[c] /\ r = runtime[c] /\ n = spent.commands /\ Tells(p, r, n)
    BY PauseFacts
  <2>2. /\ Stands(p, r, n)
        /\ \A i \in DOMAIN r.out : r.out[i].id <= n /\ (r.out[i].op # "other" => r.out[i].id # 0)
    BY <2>1 DEF Tells, Stands, CommandsNumbered
  <2>3. PICK out \in Seq(Orders) :
          /\ out = Append(r.out, cmd)
          /\ \A i \in DOMAIN out : out[i].id <= n /\ (out[i].op # "other" => out[i].id # 0)
    <3>1. r.out \in Seq(Orders)
      BY DEF RealmShapes
    <3>2. PICK out : out = Append(r.out, cmd)
      OBVIOUS
    <3>3. /\ out \in Seq(Orders) /\ Len(r.out) \in Nat
          /\ DOMAIN r.out = 1 .. Len(r.out) /\ DOMAIN out = 1 .. Len(r.out) + 1
          /\ \A i \in 1 .. Len(r.out) : out[i] = r.out[i]
          /\ out[Len(r.out) + 1] = cmd
      BY <3>1, <3>2, AddingOne
    <3>4. cmd.op = "other" /\ cmd.id = 0 /\ n \in Nat
      BY <1>5
    <3>5. \A i \in DOMAIN out : out[i].id <= n /\ (out[i].op # "other" => out[i].id # 0)
      BY <2>2, <3>3, <3>4
    <3> QED
      BY <3>2, <3>3, <3>5
  <2>4. PICK more : more = [r EXCEPT !.out = out]
    OBVIOUS
  <2>5. /\ more \in RealmShapes /\ more.out = Append(r.out, cmd) /\ more.out = out /\ more.in = r.in
        /\ more.stopped = r.stopped
    BY <2>3, <2>4 DEF RealmShapes
  <2>6. PICK t \in RealmShapes :
          /\ t = runtime'[c] /\ t.in = r.in /\ t.stopped = r.stopped
          /\ \A i \in DOMAIN t.out : t.out[i].id <= n /\ (t.out[i].op # "other" => t.out[i].id # 0)
          /\ c \in reached => t = more
          /\ c \notin reached => t = r
    <3>1. CASE c \in reached
      <4>1. runtime'[c] = more
        BY <1>2, <1>5, <2>1, <2>3, <2>4, <3>1
      <4> QED
        BY <2>3, <2>5, <3>1, <4>1
    <3>2. CASE c \notin reached
      BY <1>2, <2>1, <2>2, <3>2
    <3> QED
      BY <3>1, <3>2
  <2>7. ~ p.on => c \notin reached /\ p.has = FALSE
    BY <1>4, <2>1, PauseFacts DEF Connected, NoPeer
  <2>8. CASE p.has /\ (~ lock.enabled \/ lock.target = c)
    <3>1. PICK q \in PeerShapes :
            /\ q = Invalidated(p) /\ q.on = p.on /\ q.setter = NoSetter
            /\ q.policy.known = FALSE /\ q.policy.busy = FALSE
            /\ q.paused = p.paused /\ q.reloaded = FALSE
      BY InvalidatedIs
    <3>2. peer'[c] = q
      BY <1>2, <2>1, <2>8, <3>1
    <3>3. Tells(q, t, n)
      BY <2>2, <2>6, <3>1, NothingIsPromised
    <3> QED
      BY <2>1, <2>6, <2>7, <2>8, <3>1, <3>2, <3>3
  <2>9. CASE ~ (p.has /\ (~ lock.enabled \/ lock.target = c))
    <3>1. PICK b \in BOOLEAN : b = (p.stray \/ (c \in reached /\ lock.enabled /\ lock.target = 0))
      OBVIOUS
    <3>2. PICK q : q = [p EXCEPT !.stray = b]
      OBVIOUS
    <3>3. /\ q \in PeerShapes /\ q.setter = p.setter /\ q.policy = p.policy /\ q.has = p.has
          /\ q.paused = p.paused /\ q.on = p.on /\ q.reloaded = p.reloaded /\ q.stray = b
      BY <3>2 DEF PeerShapes
    <3>4. peer'[c] = q
      BY <1>2, <2>1, <2>9, <3>1, <3>2
    <3>5. c \notin reached => b = p.stray /\ q = p
      BY <3>1, <3>2 DEF PeerShapes
    <3>6. Tells(q, t, n)
      <4>1. CASE c \notin reached
        BY <2>1, <2>6, <3>5, <4>1
      <4>2. CASE c \in reached /\ p.has
        <5>1. lock.target = 0 /\ lock.enabled = TRUE
          BY <1>4, <2>9, <4>2, PauseFacts
        <5>2. q.stray
          BY <3>1, <3>3, <4>2, <5>1
        <5>3. t.out = Append(r.out, cmd)
          BY <2>5, <2>6, <4>2
        <5>4. cmd.op = "other" /\ cmd.id = 0 /\ t.in = r.in /\ t.stopped = r.stopped
          BY <1>5, <2>6
        <5>5. q \in PeerShapes /\ q.setter = p.setter /\ q.policy = p.policy /\ q.has = p.has /\ q.paused = p.paused
          BY <3>3
        <5>6. Tells(p, r, n)
          BY <2>1
        <5> QED
          BY <5>2, <5>3, <5>4, <5>5, <5>6, StrayingKeeps, SMTT(30)
      <4>3. CASE ~ p.has
        <5>1. p.policy.known = FALSE /\ p.policy.busy = FALSE /\ p.setter = NoSetter
          BY <2>1, <4>3 DEF Tells, PeerShapes, Shown, Policies
        <5>2. q.setter = NoSetter /\ q.policy.known = FALSE /\ q.policy.busy = FALSE /\ q.paused = p.paused
          BY <3>3, <5>1
        <5> QED
          BY <2>2, <2>6, <3>3, <5>2, NothingIsPromised
      <4> QED
        BY <4>1, <4>2, <4>3
    <3> QED
      BY <2>1, <2>6, <2>7, <3>3, <3>4, <3>5, <3>6
  <2> QED
    BY <2>8, <2>9
<1>7. peer' \in [Peers -> PeerShapes] /\ runtime' \in [Peers -> RealmShapes]
  BY <1>2, <1>6, Zenon
<1>8. Connected' = Connected
  BY <1>6 DEF Connected
<1>9. PauseShape'
  <2>1. \A c \in Peers : ~ peer'[c].on => peer'[c] = NoPeer /\ runtime'[c] = NoRealm
    BY <1>6, PauseFacts
  <2>2. \A c \in Peers : c > spent'.peers => ~ peer'[c].on
    BY <1>3, <1>6, PauseFacts
  <2> QED
    BY <1>2, <1>3, <1>7, <1>8, <2>1, <2>2, PauseFacts DEF PauseShape
<1>10. LockedIsReconfirmed'
  BY <1>2, <1>6, PauseFacts DEF LockedIsReconfirmed, IsLocked
<1> QED
  BY <1>3, <1>6, <1>9, <1>10 DEF PauseInv

-----------------------------------------------------------------------------
LEMMA PausesKeep == PauseInv /\ [PauseNext]_pauseVars => PauseInv'
<1> SUFFICES ASSUME PauseInv, [PauseNext]_pauseVars
             PROVE  PauseInv'
  OBVIOUS
<1>1. CASE AddMiniapp
  BY <1>1, AddPeerKeeps
<1>2. CASE \E enabled \in BOOLEAN : SetLock(enabled) \/ ExternalCommand(enabled)
  BY <1>2, SetLockKeeps, ExternalKeeps
<1>3. CASE \E c \in Peers : RemoveMiniapp(c) \/ SwitchMiniapp(c)
  BY <1>3, RemovePeerKeeps, LockOnKeeps DEF SwitchMiniapp
<1>4. CASE \E c \in Peers : ReadFrame(c) \/ SetTimesOut(c) \/ HitBreakpoint(c)
  BY <1>4, ReadFrameKeeps, SetTimeoutKeeps, HitKeeps
<1>5. CASE \E c \in Peers, b \in BOOLEAN : SetSkipAllPauses(c, b) \/ Execute(c, b) \/ RebuildRealm(c, b)
  BY <1>5, SetKeeps, ExecuteKeeps, RebuildKeeps
<1>6. CASE UNCHANGED pauseVars
  BY <1>6 DEF PauseInv, PauseShape, LockedIsReconfirmed, IsLocked, Connected, pauseVars
<1> QED
  BY <1>1, <1>2, <1>3, <1>4, <1>5, <1>6 DEF PauseNext

\* A pause policy that is shown as known is in force in the realm that runs,
\* and a peer whose pauses are skipped is not left stopped; a policy shown as
\* busy has a call that will settle it; and the locked peer never waits for
\* its choice to be set again (setSkipAllPauses, reconfirmPausePolicy and
\* invalidateExternalPauseCommand in cdp-bridge.ts).
THEOREM PausePolicyIsKept == PauseSpec => []PausePolicyIsTrue
<1>1. PauseInv => PausePolicyIsTrue
  <2> SUFFICES ASSUME PauseInv
               PROVE  PausePolicyIsTrue
    OBVIOUS
  <2>1. KnownIsInForce
    <3>1. SUFFICES ASSUME NEW c \in Connected, peer[c].policy.known, NoReloadUnread(c), ~ peer[c].stray
                   PROVE  /\ runtime[c].skip = peer[c].policy.enabled
                          /\ runtime[c].skip => ~ runtime[c].stopped
      BY DEF KnownIsInForce
    <3>2. PICK p \in PeerShapes, r \in RealmShapes :
            p = peer[c] /\ r = runtime[c] /\ Tells(p, r, spent.commands)
      BY PauseFacts
    <3>3. Untouched(p, r)
      BY <3>1, <3>2, LenProperties DEF RealmShapes, Untouched, NoReload, NoReloadUnread
    <3>4. ChoiceIsSet(p, r)
      BY <3>1, <3>2 DEF ChoiceIsSet
    <3> QED
      BY <3>1, <3>2, <3>3, <3>4 DEF Tells, InForce, KnownRuns
  <2>2. BusyHasItsCall
    BY PauseFacts DEF Tells, Shown, NoSetter, BusyHasItsCall
  <2> QED
    BY <2>1, <2>2, PauseFacts DEF PausePolicyIsTrue
<1> QED
  BY <1>1, PausesInitially, PausesKeep, PTL DEF PauseSpec

HIDE PauseSizes

-----------------------------------------------------------------------------
(* The debugger tools (DebugTools)                                          *)

SideShapes == [open : BOOLEAN, mark : BOOLEAN]
Commands == [op : DebugOps \cup {"none", "enable"}, id : Nat]
Frames == [op : {"reply", "resumed", "paused"}, id : Nat, ok : BOOLEAN, stop : Nat]
Hosts == [live : BOOLEAN, stop : Nat, out : Seq(Commands), in : Seq(Frames)]
Snapshots == [wanted : BOOLEAN, paused : BOOLEAN, seq : Nat, shown : Nat, stale : BOOLEAN]
CallShapes ==
    [pc : {"idle", "send", "sent", "await"}, op : DebugOps \cup {"none"}, before : Nat, saw : Nat,
     told : {"nothing", "error", "running", "stopped", "unconfirmed"}, stop : Nat]

DebugShape ==
    /\ aim \in [on : BOOLEAN, who : Nat] /\ (aim.who = 0 \/ aim.who \in Present)
    /\ side \in [Sides -> SideShapes] /\ host \in [Sides -> Hosts]
    /\ debug \in Snapshots /\ call \in [Agents -> CallShapes]
    /\ used \in [sides : Nat, spent : Nat, ids : Nat, stops : Nat, failed : BOOLEAN]
    /\ \A c \in Sides : ~ side[c].open => side[c] = NoSide /\ host[c] = NoHost
    /\ \A c \in Sides : c > used.sides => ~ side[c].open

\* A stop is told once: what was shown, or seen, is on no way any more.
StopsAreOnce ==
    /\ debug.paused => debug.shown # 0
    /\ debug.shown <= used.stops
    /\ \A c \in Sides : \A i \in DOMAIN host[c].in :
          host[c].in[i].op = "paused" =>
            /\ host[c].in[i].stop \in 1 .. used.stops /\ host[c].in[i].stop # debug.shown
            /\ \A d \in Sides : \A j \in DOMAIN host[d].in :
                  host[d].in[j].op = "paused" /\ host[d].in[j].stop = host[c].in[i].stop
                    => c = d /\ i = j

CallsAreOfTheirStop ==
    \A a \in Agents :
        /\ call[a].saw <= used.stops
        /\ call[a].saw # 0 =>
              /\ debug.shown = call[a].saw => debug.seq <= call[a].before
              /\ \A c \in Sides : \A i \in DOMAIN host[c].in :
                    host[c].in[i].op = "paused" => host[c].in[i].stop # call[a].saw
        /\ call[a].told = "stopped" => call[a].stop # call[a].saw

\* The last event on the way tells where the target is, unless a reload ended
\* the pause it tells of; with none on the way, the snapshot does.
LastTells(h) ==
    \A i \in DOMAIN h.in :
        (\A j \in DOMAIN h.in : j > i => h.in[j].op = "reply") =>
            /\ h.in[i].op = "resumed" => h.stop = 0
            /\ h.in[i].op = "paused" => h.stop \in {0, h.in[i].stop}

SnapshotTells(h) ==
    (\A i \in DOMAIN h.in : h.in[i].op = "reply") =>
        debug.paused = (h.stop # 0) /\ (debug.paused => debug.shown = h.stop)

EventsTell ==
    /\ \A c \in Sides : LastTells(host[c])
    /\ \A c \in Sides : Aimed(c) /\ ~ debug.stale => SnapshotTells(host[c])

Enabled(h) == h.live \/ \E i \in DOMAIN h.out : h.out[i].op = "enable"
MarksAreMet == \A c \in Sides : side[c].mark => Enabled(host[c])

DebugInv == DebugShape /\ StopsAreOnce /\ CallsAreOfTheirStop /\ EventsTell /\ MarksAreMet

USE DebugToolsSizes

-----------------------------------------------------------------------------
LEMMA NewestIsThere ==
    ASSUME DebugShape, Present # {}
    PROVE  NewestSide \in Present
<1> DEFINE T == {MaxSides - c : c \in Present}
<1>1. T \in SUBSET Nat /\ T # {}
  BY DEF Present, Sides
<1>2. PICK n \in T : \A m \in T : ~ (<<m, n>> \in OpToRel(<, Nat))
  BY <1>1, NatLessThanWellFounded, WFMin
<1>3. PICK c \in Present : n = MaxSides - c
  BY <1>2
<1>4. \A d \in Present : d <= c
  <2> SUFFICES ASSUME NEW d \in Present, d > c PROVE FALSE
    BY DEF Present, Sides
  <2>1. MaxSides - d \in T /\ MaxSides - d \in Nat /\ n \in Nat /\ MaxSides - d < n
    BY <1>1, <1>3 DEF Present, Sides
  <2>2. <<MaxSides - d, n>> \in OpToRel(<, Nat)
    BY <2>1 DEF OpToRel
  <2> QED
    BY <1>2, <2>1, <2>2
<1> QED
  BY <1>3, <1>4 DEF NewestSide

\* The command to enable reaches the connection that is marked for it.
LEMMA EnablingMeetsTheMark ==
    ASSUME NEW c \in Sides, NEW pinned, NEW takers, c \in takers,
           NEW s \in [Sides -> SideShapes], NEW h \in [Sides -> Hosts],
           \A d \in Sides : s[d].mark => Enabled(h[d]),
           EnableOn(c, pinned, takers, s, h)
    PROVE  /\ side' \in [Sides -> SideShapes] /\ host' \in [Sides -> Hosts]
           /\ \A d \in Sides :
                 /\ side'[d].open = s[d].open /\ (d # c => side'[d] = s[d])
                 /\ host'[d].in = h[d].in /\ host'[d].stop = h[d].stop
                 /\ host'[d].live = h[d].live /\ (d \notin takers => host'[d] = h[d])
                 /\ side'[d].mark => Enabled(host'[d])
<1>1. CASE s[c].mark
  BY <1>1 DEF EnableOn
<1>2. CASE ~ s[c].mark
  <2> DEFINE cmd == [op |-> "enable", id |-> c]
             to(d) == [h[d] EXCEPT !.out = Append(@, cmd)]
  <2>1. /\ side' = [s EXCEPT ![c].mark = TRUE]
        /\ host' = [d \in Sides |-> IF d \in takers THEN to(d) ELSE h[d]]
    BY <1>2 DEF EnableOn
  <2>2. cmd \in Commands /\ cmd.op = "enable"
    BY DEF Commands, Sides
  <2> HIDE DEF cmd
  <2>3. ASSUME NEW d \in Sides
        PROVE  /\ to(d) \in Hosts /\ to(d).in = h[d].in /\ to(d).stop = h[d].stop
               /\ to(d).live = h[d].live /\ Enabled(to(d))
    <3>1. h[d] \in Hosts /\ h[d].out \in Seq(Commands)
      BY DEF Hosts
    <3>2. /\ Append(h[d].out, cmd) \in Seq(Commands)
          /\ Len(h[d].out) + 1 \in DOMAIN Append(h[d].out, cmd)
          /\ Append(h[d].out, cmd)[Len(h[d].out) + 1] = cmd
      BY <2>2, <3>1, AppendProperties
    <3> QED
      BY <2>2, <3>1, <3>2 DEF Hosts, Enabled
  <2> HIDE DEF to
  <2>4. side' \in [Sides -> SideShapes] /\ host' \in [Sides -> Hosts]
    BY <2>1, <2>3 DEF SideShapes
  <2>5. \A d \in Sides : side'[d].open = s[d].open /\ (d # c => side'[d] = s[d])
    BY <2>1 DEF SideShapes
  <2>6. \A d \in Sides : (d \in takers /\ host'[d] = to(d)) \/ (d \notin takers /\ host'[d] = h[d])
    BY <2>1
  <2>7. \A d \in Sides : side'[d].mark => Enabled(host'[d])
    BY <2>3, <2>5, <2>6
  <2> QED
    BY <2>3, <2>4, <2>5, <2>6, <2>7
<1> QED
  BY <1>1, <1>2

\* What is on the way stays, or goes with its connection; a pause stays or ends.
FramesStay ==
    \A c \in Sides :
        \/ host'[c].in = host[c].in /\ host'[c].stop \in {0, host[c].stop}
        \/ host'[c].in = <<>>

LEMMA StopsStay ==
    ASSUME StopsAreOnce, FramesStay, used'.stops = used.stops, debug'.paused = debug.paused,
           debug'.shown = debug.shown
    PROVE  StopsAreOnce'
<1>1. \A c \in Sides : \A i \in DOMAIN host'[c].in : host'[c].in = host[c].in
  BY DEF FramesStay
<1> QED
  BY <1>1 DEF StopsAreOnce

LEMMA CallsStay ==
    ASSUME CallsAreOfTheirStop, FramesStay, used'.stops = used.stops,
           debug'.shown = debug.shown, debug'.seq = debug.seq,
           \A a \in Agents :
              /\ call'[a].saw = call[a].saw /\ call'[a].before = call[a].before
              /\ call'[a].told = "stopped" => call[a].told = "stopped" /\ call'[a].stop = call[a].stop
    PROVE  CallsAreOfTheirStop'
<1>1. \A c \in Sides : \A i \in DOMAIN host'[c].in : host'[c].in = host[c].in
  BY DEF FramesStay
<1> QED
  BY <1>1 DEF CallsAreOfTheirStop

LEMMA EventsStay ==
    ASSUME EventsTell, FramesStay, debug'.paused = debug.paused, debug'.shown = debug.shown,
           \A c \in Sides : Aimed(c)' /\ ~ debug'.stale =>
              Aimed(c) /\ ~ debug.stale /\ host'[c].in = host[c].in /\ host'[c].stop = host[c].stop
    PROVE  EventsTell'
<1>1. ASSUME NEW c \in Sides PROVE LastTells(host[c])'
  BY DEF FramesStay, EventsTell, LastTells
<1>2. ASSUME NEW c \in Sides, Aimed(c)', ~ debug'.stale PROVE SnapshotTells(host[c])'
  BY <1>2 DEF EventsTell, SnapshotTells
<1> QED
  BY <1>1, <1>2 DEF EventsTell

-----------------------------------------------------------------------------
LEMMA DebugFacts ==
    ASSUME DebugInv
    PROVE  /\ DebugShape /\ StopsAreOnce /\ CallsAreOfTheirStop /\ EventsTell /\ MarksAreMet
           /\ aim \in [on : BOOLEAN, who : Nat] /\ (aim.who = 0 \/ aim.who \in Present)
           /\ side \in [Sides -> SideShapes] /\ host \in [Sides -> Hosts]
           /\ debug \in Snapshots /\ call \in [Agents -> CallShapes]
           /\ used \in [sides : Nat, spent : Nat, ids : Nat, stops : Nat, failed : BOOLEAN]
           /\ \A c \in Sides : ~ side[c].open => side[c] = NoSide /\ host[c] = NoHost
           /\ \A c \in Sides : c > used.sides => ~ side[c].open
           /\ Using(used) \in [sides : Nat, spent : Nat, ids : Nat, stops : Nat, failed : BOOLEAN]
           /\ Using(used).sides = used.sides /\ Using(used).stops = used.stops
<1>1. DebugShape /\ StopsAreOnce /\ CallsAreOfTheirStop /\ EventsTell /\ MarksAreMet
  BY DEF DebugInv
<1>2. used \in [sides : Nat, spent : Nat, ids : Nat, stops : Nat, failed : BOOLEAN]
  BY <1>1 DEF DebugShape
<1>3. /\ Using(used) \in [sides : Nat, spent : Nat, ids : Nat, stops : Nat, failed : BOOLEAN]
      /\ Using(used).sides = used.sides /\ Using(used).stops = used.stops
  BY <1>2 DEF Using
<1> QED
  BY <1>1, <1>2, <1>3 DEF DebugShape

LEMMA NothingIsTyped == NoSide \in SideShapes /\ NoHost \in Hosts /\ ~ NoSide.open /\ ~ NoSide.mark
<1>1. <<>> \in Seq(Commands) /\ <<>> \in Seq(Frames)
  OBVIOUS
<1> QED
  BY <1>1 DEF NoSide, NoHost, SideShapes, Hosts

\* Where nothing moves but the marks, the lock and what is sent.
LEMMA SendingKeeps ==
    ASSUME DebugInv,
           side' \in [Sides -> SideShapes], host' \in [Sides -> Hosts],
           aim' \in [on : BOOLEAN, who : Nat], aim'.who = 0 \/ aim'.who \in Present',
           \A c \in Sides : (side[c].open <=> side'[c].open) /\ (~ side'[c].open => side'[c] = NoSide /\ host'[c] = NoHost),
           \A c \in Sides : host'[c].in = host[c].in /\ host'[c].stop = host[c].stop,
           \A c \in Sides : side'[c].mark => Enabled(host'[c]),
           debug' \in Snapshots, debug'.paused = debug.paused, debug'.shown = debug.shown,
           debug'.seq = debug.seq,
           ~ debug'.stale => ~ debug.stale /\ aim' = aim,
           call' \in [Agents -> CallShapes], CallsAreOfTheirStop',
           used' \in [sides : Nat, spent : Nat, ids : Nat, stops : Nat, failed : BOOLEAN],
           used'.sides = used.sides, used'.stops = used.stops
    PROVE  DebugInv'
<1>1. FramesStay
  BY DEF FramesStay
<1>2. DebugShape'
  BY DebugFacts DEF DebugShape
<1>3. StopsAreOnce'
  BY <1>1, DebugFacts, StopsStay
<1>4. \A c \in Sides : Aimed(c)' /\ ~ debug'.stale => Aimed(c) /\ ~ debug.stale
  BY DEF Aimed
<1>5. EventsTell'
  BY <1>1, <1>4, DebugFacts, EventsStay
<1>6. MarksAreMet'
  BY DEF MarksAreMet
<1> QED
  BY <1>2, <1>3, <1>5, <1>6 DEF DebugInv

LEMMA AimStays ==
    ASSUME aim' = aim, \A c \in Sides : (side[c].open <=> side'[c].open)
    PROVE  Present' = Present
  BY DEF Present

LEMMA FailingKeeps ==
    ASSUME DebugInv, NEW c \in Sides, EnableFails(c)
    PROVE  DebugInv'
<1>1. /\ side' = [side EXCEPT ![c].mark = FALSE] /\ used' = [Using(used) EXCEPT !.failed = TRUE]
      /\ UNCHANGED <<aim, debug, host, flight, call>>
      /\ side[c].mark
  BY DEF EnableFails
<1>2. /\ side' \in [Sides -> SideShapes]
      /\ \A d \in Sides : (side[d].open <=> side'[d].open) /\ (side'[d].mark => side[d].mark)
                          /\ (d # c => side'[d] = side[d])
  BY ZenonT(40), <1>1, DebugFacts DEF SideShapes
<1>3. side[c].open
  BY <1>1, DebugFacts, NothingIsTyped
<1>4. \A d \in Sides : ~ side'[d].open => side'[d] = NoSide /\ host'[d] = NoHost
  BY <1>1, <1>2, <1>3, DebugFacts
<1>5. Present' = Present
  BY <1>1, <1>2, AimStays
<1>6. CallsAreOfTheirStop'
  BY <1>1, DebugFacts, CallsStay DEF FramesStay
<1>7. \A d \in Sides : side'[d].mark => Enabled(host'[d])
  BY <1>1, <1>2, DebugFacts DEF MarksAreMet
<1>8. /\ used' \in [sides : Nat, spent : Nat, ids : Nat, stops : Nat, failed : BOOLEAN]
      /\ used'.sides = used.sides /\ used'.stops = used.stops
  BY <1>1, DebugFacts
<1> QED
  BY <1>1, <1>2, <1>4, <1>5, <1>6, <1>7, <1>8, DebugFacts, SendingKeeps

-----------------------------------------------------------------------------
(* Connections and the lock *)

LEMMA OpeningASide ==
    ASSUME NEW s \in [Sides -> SideShapes], NEW c \in Sides, s[c] = NoSide
    PROVE  LET there == [s EXCEPT ![c].open = TRUE]
           IN  /\ there \in [Sides -> SideShapes] /\ there[c].open /\ ~ there[c].mark
               /\ \A d \in Sides : d # c => there[d] = s[d]
<1>1. ~ s[c].mark /\ s[c] \in SideShapes
  BY NothingIsTyped
<1>2. [s[c] EXCEPT !.open = TRUE] \in SideShapes
  BY <1>1 DEF SideShapes
<1>3. [s[c] EXCEPT !.open = TRUE].open /\ ~ [s[c] EXCEPT !.open = TRUE].mark
  BY <1>1 DEF SideShapes
<1> QED
  BY <1>2, <1>3

LEMMA AddKeeps ==
    ASSUME DebugInv, AddSide
    PROVE  DebugInv'
<1> DEFINE c == used.sides + 1
           pinned == IF aim.on /\ aim.who = 0 THEN [aim EXCEPT !.who = c] ELSE aim
           there == [side EXCEPT ![c].open = TRUE]
           takers == IF pinned.who = c THEN {c} ELSE Present \cup {c}
<1>1. /\ used.sides < MaxSides /\ aim' = pinned /\ debug' = [debug EXCEPT !.stale = @ \/ pinned # aim]
      /\ used' = [used EXCEPT !.sides = c] /\ UNCHANGED <<flight, call>>
      /\ \/ side' = there /\ host' = host
         \/ EnableOn(c, pinned, takers, there, host)
  BY DEF AddSide
<1>2. c \in Sides /\ ~ side[c].open /\ side[c] = NoSide /\ host[c] = NoHost /\ c \in Nat /\ c > used.sides
  BY <1>1, DebugFacts DEF Sides
<1>3. /\ there \in [Sides -> SideShapes] /\ there[c].open /\ ~ there[c].mark
      /\ \A d \in Sides : d # c => there[d] = side[d]
  BY <1>2, DebugFacts, OpeningASide
<1>4. \A d \in Sides : there[d].mark => Enabled(host[d])
  BY <1>3, DebugFacts DEF MarksAreMet
<1> HIDE DEF there
<1>5. c \in takers
  OBVIOUS
<1>6. \A d \in takers : d \in Sides /\ there[d].open
  BY <1>2, <1>3 DEF Present
<1>7. /\ side' \in [Sides -> SideShapes] /\ host' \in [Sides -> Hosts]
      /\ \A d \in Sides :
            /\ side'[d].open = there[d].open /\ (d # c => side'[d] = there[d])
            /\ host'[d].in = host[d].in /\ host'[d].stop = host[d].stop
            /\ (d \notin takers => host'[d] = host[d])
            /\ side'[d].mark => Enabled(host'[d])
  <2> HIDE DEF takers, pinned, c
  <2>1. CASE side' = there /\ host' = host
    BY <1>3, <1>4, <2>1, DebugFacts
  <2>2. CASE EnableOn(c, pinned, takers, there, host)
    <3>1. c \in Sides /\ there \in [Sides -> SideShapes] /\ host \in [Sides -> Hosts]
      BY <1>2, <1>3, DebugFacts
    <3>2. /\ side' \in [Sides -> SideShapes] /\ host' \in [Sides -> Hosts]
          /\ \A d \in Sides :
                /\ side'[d].open = there[d].open /\ (d # c => side'[d] = there[d])
                /\ host'[d].in = host[d].in /\ host'[d].stop = host[d].stop
                /\ host'[d].live = host[d].live /\ (d \notin takers => host'[d] = host[d])
                /\ side'[d].mark => Enabled(host'[d])
      BY <1>4, <1>5, <2>2, <3>1, EnablingMeetsTheMark, Zenon
    <3> QED
      BY <3>2
  <2> QED
    BY <1>1, <2>1, <2>2
<1> HIDE DEF takers
<1>8. Present' = Present \cup {c} /\ c \notin Present
  BY <1>2, <1>3, <1>7 DEF Present
<1>9. /\ aim' \in [on : BOOLEAN, who : Nat] /\ (aim'.who = 0 \/ aim'.who \in Present')
      /\ (pinned # aim => aim'.who = c /\ debug'.stale) /\ (pinned = aim => aim' = aim)
  BY <1>1, <1>2, <1>8, DebugFacts DEF Snapshots
<1>10. /\ debug' \in Snapshots /\ debug'.paused = debug.paused /\ debug'.shown = debug.shown
       /\ debug'.seq = debug.seq /\ (~ debug'.stale => ~ debug.stale /\ aim' = aim)
  <2> HIDE DEF pinned
  <2> QED
    BY <1>1, <1>9, DebugFacts DEF Snapshots
<1>11. /\ used' \in [sides : Nat, spent : Nat, ids : Nat, stops : Nat, failed : BOOLEAN]
       /\ used'.sides = c /\ used'.stops = used.stops
  BY <1>1, <1>2, DebugFacts
<1> HIDE DEF pinned, c
<1>12. FramesStay
  BY <1>7 DEF FramesStay
<1>13. DebugShape'
  <2>1. \A d \in Sides : ~ side'[d].open => side'[d] = NoSide /\ host'[d] = NoHost
    BY <1>3, <1>6, <1>7, DebugFacts
  <2>2. \A d \in Sides : d > used'.sides => ~ side'[d].open
    <3> SUFFICES ASSUME NEW d \in Sides, d > c PROVE ~ there[d].open
      BY <1>7, <1>11
    <3>1. d # c /\ d > used.sides
      BY <1>2, DebugFacts DEF c, Sides
    <3> QED
      BY <1>3, <3>1, DebugFacts
  <2> QED
    BY <1>1, <1>7, <1>9, <1>10, <1>11, <2>1, <2>2, DebugFacts DEF DebugShape
<1>14. StopsAreOnce' /\ CallsAreOfTheirStop'
  BY <1>1, <1>10, <1>11, <1>12, DebugFacts, StopsStay, CallsStay
<1>15. EventsTell'
  BY <1>7, <1>10, <1>12, DebugFacts, EventsStay DEF Aimed
<1> QED
  BY <1>7, <1>13, <1>14, <1>15 DEF DebugInv, MarksAreMet

LEMMA RemoveKeeps ==
    ASSUME DebugInv, NEW c \in Sides, RemoveSide(c)
    PROVE  DebugInv'
<1>1. /\ c \in Present
      /\ side' = [side EXCEPT ![c] = NoSide] /\ host' = [host EXCEPT ![c] = NoHost]
      /\ aim' = IF aim.who = c THEN [aim EXCEPT !.who = 0] ELSE aim
      /\ debug' = [debug EXCEPT !.stale = @ \/ aim.who \in {0, c}]
      /\ used' = Using(used) /\ UNCHANGED <<flight, call>>
  BY DEF RemoveSide
<1>2. /\ side' \in [Sides -> SideShapes] /\ host' \in [Sides -> Hosts]
      /\ side'[c] = NoSide /\ host'[c] = NoHost
      /\ \A d \in Sides : d # c => side'[d] = side[d] /\ host'[d] = host[d]
  BY <1>1, NothingIsTyped, DebugFacts
<1>3. /\ aim' \in [on : BOOLEAN, who : Nat] /\ (aim'.who = 0 \/ (aim' = aim /\ aim.who # c))
  BY <1>1, DebugFacts
<1>4. /\ debug' \in Snapshots /\ debug'.paused = debug.paused /\ debug'.shown = debug.shown
      /\ debug'.seq = debug.seq /\ (~ debug'.stale => ~ debug.stale)
  BY <1>1, DebugFacts DEF Snapshots
<1>5. FramesStay
  BY <1>2 DEF FramesStay, NoHost
<1>6. DebugShape'
  BY <1>1, <1>2, <1>3, <1>4, DebugFacts, NothingIsTyped DEF Present, DebugShape
<1>7. StopsAreOnce' /\ CallsAreOfTheirStop'
  BY <1>1, <1>4, <1>5, DebugFacts, StopsStay, CallsStay
<1>8. \A d \in Sides : Aimed(d)' => d # c /\ Aimed(d)
  BY <1>3 DEF Aimed, Sides
<1>9. EventsTell'
  BY <1>2, <1>4, <1>5, <1>8, DebugFacts, EventsStay
<1>10. MarksAreMet'
  BY <1>2, NothingIsTyped, DebugFacts DEF MarksAreMet
<1> QED
  BY <1>6, <1>7, <1>9, <1>10 DEF DebugInv

LEMMA SwitchKeeps ==
    ASSUME DebugInv, NEW c \in Sides, SwitchSide(c)
    PROVE  DebugInv'
<1>1. /\ c \in Present /\ aim' = [on |-> TRUE, who |-> c]
      /\ debug' = [debug EXCEPT !.stale = @ \/ ~ Aimed(c)]
      /\ (side' = side /\ host' = host) \/ EnableOn(c, aim', {c}, side, host)
      /\ used' = Using(used) /\ UNCHANGED <<flight, call>>
  BY DEF SwitchSide
<1>2. /\ side' \in [Sides -> SideShapes] /\ host' \in [Sides -> Hosts]
      /\ \A d \in Sides :
            /\ side'[d].open = side[d].open /\ (d # c => side'[d] = side[d])
            /\ host'[d].in = host[d].in /\ host'[d].stop = host[d].stop
            /\ (d \notin {c} => host'[d] = host[d])
            /\ side'[d].mark => Enabled(host'[d])
  <2>1. \A d \in Sides : side[d].mark => Enabled(host[d])
    BY DebugFacts DEF MarksAreMet
  <2>2. CASE side' = side /\ host' = host
    BY <2>1, <2>2, DebugFacts
  <2>3. CASE EnableOn(c, aim', {c}, side, host)
    <3>0. PICK pinned : pinned = aim'
      OBVIOUS
    <3>1. EnableOn(c, pinned, {c}, side, host) /\ c \in {c}
      BY <2>3, <3>0
    <3>2. side \in [Sides -> SideShapes] /\ host \in [Sides -> Hosts]
      BY DebugFacts
    <3> HIDE DEF Enabled, EnableOn
    <3>3. /\ side' \in [Sides -> SideShapes] /\ host' \in [Sides -> Hosts]
          /\ \A d \in Sides :
                /\ side'[d].open = side[d].open /\ (d # c => side'[d] = side[d])
                /\ host'[d].in = host[d].in /\ host'[d].stop = host[d].stop
                /\ host'[d].live = host[d].live /\ (d \notin {c} => host'[d] = host[d])
                /\ side'[d].mark => Enabled(host'[d])
      BY <2>1, <3>1, <3>2, EnablingMeetsTheMark, Zenon
    <3> QED
      BY <3>3
  <2> QED
    BY <1>1, <2>2, <2>3
<1>3. Present' = Present
  BY <1>2 DEF Present
<1>4. /\ aim' \in [on : BOOLEAN, who : Nat] /\ aim'.who \in Present'
      /\ (Aimed(c) => aim' = aim)
  BY <1>1, <1>3, DebugFacts DEF Sides, Aimed
<1>5. /\ debug' \in Snapshots /\ debug'.paused = debug.paused /\ debug'.shown = debug.shown
      /\ debug'.seq = debug.seq /\ (~ debug'.stale => ~ debug.stale /\ aim' = aim)
  BY <1>1, <1>4, DebugFacts DEF Snapshots, Aimed
<1>6. CallsAreOfTheirStop'
  BY <1>1, <1>2, <1>5, DebugFacts, CallsStay DEF FramesStay
<1>7. \A d \in Sides : (side[d].open <=> side'[d].open) /\ (~ side'[d].open => side'[d] = NoSide /\ host'[d] = NoHost)
  BY <1>1, <1>2, DebugFacts DEF Present
<1> QED
  BY <1>1, <1>2, <1>4, <1>5, <1>6, <1>7, DebugFacts, SendingKeeps

LEMMA AimKeeps ==
    ASSUME DebugInv, NEW on \in BOOLEAN, SetAim(on)
    PROVE  DebugInv'
<1>1. /\ aim' = [on |-> on, who |-> IF ~ on THEN 0
                                   ELSE IF aim.who = 0 /\ Present # {} THEN NewestSide ELSE aim.who]
      /\ debug' = [debug EXCEPT !.stale = @ \/ aim' # aim]
      /\ used' = Using(used) /\ UNCHANGED <<side, host, flight, call>>
  BY DEF SetAim
<1>2. Present' = Present
  BY <1>1 DEF Present
<1>3. Present # {} => NewestSide \in Present
  BY NewestIsThere, DebugFacts
<1>4. aim'.who = 0 \/ aim'.who \in Present
  BY <1>1, <1>3, DebugFacts
<1>5. aim' \in [on : BOOLEAN, who : Nat]
  BY <1>1, <1>3, DebugFacts DEF Present, Sides
<1>6. /\ debug' \in Snapshots /\ debug'.paused = debug.paused /\ debug'.shown = debug.shown
      /\ debug'.seq = debug.seq /\ (~ debug'.stale => ~ debug.stale /\ aim' = aim)
  BY <1>1, DebugFacts DEF Snapshots
<1>7. CallsAreOfTheirStop'
  BY <1>1, <1>6, DebugFacts, CallsStay DEF FramesStay
<1>8. \A d \in Sides : side'[d].mark => Enabled(host'[d])
  BY <1>1, DebugFacts DEF MarksAreMet
<1> QED
  BY <1>1, <1>2, <1>4, <1>5, <1>6, <1>7, <1>8, DebugFacts, SendingKeeps

-----------------------------------------------------------------------------
(* The target *)

\* g is the target h with answers of its own, and with the word that its pause
\* is over, if it is.
Answered(h, g) ==
    /\ Len(h.in) <= Len(g.in)
    /\ \A i \in DOMAIN h.in : g.in[i] = h.in[i]
    /\ \A i \in DOMAIN g.in : i \notin DOMAIN h.in => g.in[i].op # "paused"
    /\ \/ g.stop = h.stop /\ \A i \in DOMAIN g.in : i \notin DOMAIN h.in => g.in[i].op = "reply"
       \/ g.stop = 0 /\ Len(h.in) < Len(g.in) /\ g.in[Len(g.in)].op = "resumed"

LEMMA AnsweringTells ==
    ASSUME NEW h \in Hosts, NEW g \in Hosts, Answered(h, g)
    PROVE  /\ LastTells(h) => LastTells(g)
           /\ SnapshotTells(h) => SnapshotTells(g)
           /\ \A i \in DOMAIN g.in : g.in[i].op = "paused" => i \in DOMAIN h.in /\ g.in[i] = h.in[i]
<1>1. /\ Len(h.in) \in Nat /\ Len(g.in) \in Nat
      /\ DOMAIN h.in = 1 .. Len(h.in) /\ DOMAIN g.in = 1 .. Len(g.in)
  BY LenProperties DEF Hosts
<1>2. \A i \in DOMAIN h.in : i \in DOMAIN g.in /\ g.in[i] = h.in[i]
  BY <1>1 DEF Answered
<1>3. \A i \in DOMAIN g.in : g.in[i].op = "paused" => i \in DOMAIN h.in /\ g.in[i] = h.in[i]
  BY <1>2 DEF Answered
<1>4. CASE g.stop = h.stop /\ \A i \in DOMAIN g.in : i \notin DOMAIN h.in => g.in[i].op = "reply"
  BY <1>1, <1>2, <1>3, <1>4 DEF LastTells, SnapshotTells
<1>5. CASE g.stop = 0 /\ Len(h.in) < Len(g.in) /\ g.in[Len(g.in)].op = "resumed"
  <2> DEFINE n == Len(g.in)
  <2>1. n \in DOMAIN g.in /\ g.in[n].op = "resumed" /\ \A i \in DOMAIN g.in : i # n => n > i
    BY <1>1, <1>5
  <2>2. LastTells(g)
    BY <1>5 DEF LastTells
  <2>3. SnapshotTells(g)
    BY <2>1 DEF SnapshotTells
  <2> QED
    BY <1>3, <2>2, <2>3
<1> QED
  BY <1>4, <1>5 DEF Answered

LEMMA AnswersAdd ==
    ASSUME NEW s \in Seq(Frames), NEW a \in Frames, NEW b \in Frames
    PROVE  /\ s \o <<>> \o <<>> = s /\ DOMAIN s = 1 .. Len(s) /\ Len(s) \in Nat
           /\ \A one : one = s \o <<a>> \o <<>> =>
                /\ one \in Seq(Frames) /\ DOMAIN one = 1 .. Len(s) + 1 /\ Len(one) = Len(s) + 1
                /\ \A i \in DOMAIN s : one[i] = s[i]
                /\ \A i \in DOMAIN one : i \notin DOMAIN s => one[i] = a
           /\ \A two : two = s \o <<a>> \o <<b>> =>
                /\ two \in Seq(Frames) /\ DOMAIN two = 1 .. Len(s) + 2 /\ Len(two) = Len(s) + 2
                /\ \A i \in DOMAIN s : two[i] = s[i]
                /\ \A i \in DOMAIN two : i \notin DOMAIN s => two[i] \in {a, b}
                /\ two[Len(two)] = b
<1>1. DOMAIN s = 1 .. Len(s) /\ Len(s) \in Nat /\ s \o <<>> \o <<>> = s
  BY LenProperties
<1>2. ASSUME NEW one, one = s \o <<a>> \o <<>>
      PROVE  /\ one \in Seq(Frames) /\ DOMAIN one = 1 .. Len(s) + 1 /\ Len(one) = Len(s) + 1
             /\ \A i \in DOMAIN s : one[i] = s[i]
             /\ \A i \in DOMAIN one : i \notin DOMAIN s => one[i] = a
  BY <1>1, <1>2
<1>3. ASSUME NEW two, two = s \o <<a>> \o <<b>>
      PROVE  /\ two \in Seq(Frames) /\ DOMAIN two = 1 .. Len(s) + 2 /\ Len(two) = Len(s) + 2
             /\ \A i \in DOMAIN s : two[i] = s[i]
             /\ \A i \in DOMAIN two : i \notin DOMAIN s => two[i] \in {a, b}
             /\ two[Len(two)] = b
  BY <1>1, <1>3
<1> QED
  BY <1>1, <1>2, <1>3

\* What a sequence begins with is one of its elements.
LEMMA FirstOf ==
    ASSUME NEW S, NEW s \in Seq(S), s # <<>>
    PROVE  Head(s) \in S /\ Tail(s) \in Seq(S) /\ Head(s) = s[1] /\ 1 \in DOMAIN s
<1>1. Head(s) \in S /\ Tail(s) \in Seq(S) /\ Head(s) = s[1]
  BY HeadTailProperties
<1>2. Len(s) \in Nat /\ DOMAIN s = 1 .. Len(s) /\ Len(s) # 0
  BY LenProperties, EmptySeq
<1> QED
  BY <1>1, <1>2

LEMMA PerformKeeps ==
    ASSUME DebugInv, NEW c \in Sides, Perform(c)
    PROVE  DebugInv'
<1> DEFINE h == host[c]
           do == Head(h.out)
           goes == Fitting(h, do.op) /\ do.op \in {"step", "resume"}
           answer == [op |-> "reply", id |-> do.id, ok |-> Fitting(h, do.op), stop |-> 0]
           over == [op |-> "resumed", id |-> 0, ok |-> TRUE, stop |-> 0]
           reply == IF do.op = "enable" THEN <<>> ELSE <<answer>>
           event == IF goes THEN <<over>> ELSE <<>>
           in == h.in \o reply \o event
           g == [live |-> h.live \/ do.op = "enable", stop |-> IF goes THEN 0 ELSE h.stop,
                 out |-> Tail(h.out), in |-> in]
<1>1. /\ c \in Present /\ h.out # <<>> /\ host' = [host EXCEPT ![c] = g]
      /\ UNCHANGED <<aim, side, debug, flight, call, used>>
  BY DEF Perform
<1>2. /\ h \in Hosts /\ h.in \in Seq(Frames) /\ h.out \in Seq(Commands) /\ h.stop \in Nat
      /\ h.live \in BOOLEAN
  BY DebugFacts DEF Hosts
<1>3. do \in Commands /\ Tail(h.out) \in Seq(Commands) /\ do = h.out[1] /\ 1 \in DOMAIN h.out
  BY <1>1, <1>2, FirstOf
<1>4. answer \in Frames /\ over \in Frames /\ answer.op = "reply" /\ over.op = "resumed"
  BY <1>3 DEF Commands, Fitting, Frames
<1>5. in \in Seq(Frames) /\ Answered(h, g)
  <2> HIDE DEF h, answer, over, goes
  <2>1. g.in = in /\ g.stop = IF goes THEN 0 ELSE h.stop
    OBVIOUS
  <2> HIDE DEF g
  <2>2. CASE do.op = "enable" /\ ~ goes
    <3>1. in = h.in \o <<>> \o <<>>
      BY <2>2
    <3> HIDE DEF in, do
    <3> QED
      BY <1>2, <2>1, <2>2, <3>1, AnswersAdd DEF Answered
  <2>3. CASE do.op # "enable" /\ ~ goes
    <3>1. in = h.in \o <<answer>> \o <<>>
      BY <2>3
    <3> HIDE DEF in, do
    <3> QED
      BY SMTT(20), <1>2, <1>4, <2>1, <2>3, <3>1, AnswersAdd DEF Answered
  <2>4. CASE do.op # "enable" /\ goes
    <3>1. in = h.in \o <<answer>> \o <<over>>
      BY <2>4
    <3> HIDE DEF in, do
    <3>2. /\ in \in Seq(Frames) /\ DOMAIN in = 1 .. Len(h.in) + 2 /\ Len(in) = Len(h.in) + 2
          /\ \A i \in DOMAIN h.in : in[i] = h.in[i]
          /\ \A i \in DOMAIN in : i \notin DOMAIN h.in => in[i] \in {answer, over}
          /\ in[Len(in)] = over /\ Len(h.in) \in Nat
      BY SMTT(20), <1>2, <1>4, <3>1, AnswersAdd
    <3>3. \A i \in DOMAIN in : i \notin DOMAIN h.in => in[i].op # "paused"
      BY <1>4, <3>2
    <3> QED
      BY <1>4, <2>1, <2>4, <3>2, <3>3 DEF Answered
  <2>5. goes => do.op # "enable"
    BY DEF goes
  <2> QED
    BY <2>2, <2>3, <2>4, <2>5
<1>6. g \in Hosts /\ g.out = Tail(h.out)
      /\ (do.op = "enable" => g.live) /\ (h.live => g.live)
  <2> HIDE DEF h, do, in, goes
  <2> QED
    BY <1>2, <1>3, <1>5 DEF Hosts
<1> HIDE DEF g
<1>7. /\ host' \in [Sides -> Hosts] /\ host'[c] = g
      /\ \A d \in Sides : d # c => host'[d] = host[d]
  BY <1>1, <1>6, DebugFacts
<1>8. Answered(host[c], host'[c])
  BY <1>5, <1>7
<1> HIDE DEF h
<1>9. /\ \A d \in Sides : LastTells(host[d]) => LastTells(host'[d])
      /\ \A d \in Sides : \A i \in DOMAIN host'[d].in :
            host'[d].in[i].op = "paused" => i \in DOMAIN host[d].in /\ host'[d].in[i] = host[d].in[i]
  BY <1>7, <1>8, AnsweringTells, DebugFacts
<1>10. \A d \in Sides : SnapshotTells(host[d]) => SnapshotTells(host'[d])
  BY <1>7, <1>8, AnsweringTells, DebugFacts
<1>11. DebugShape'
  BY <1>1, <1>7, DebugFacts DEF Present, DebugShape
<1>12. StopsAreOnce'
  BY <1>1, <1>9, DebugFacts DEF StopsAreOnce
<1>13. CallsAreOfTheirStop'
  BY <1>1, <1>9, DebugFacts DEF CallsAreOfTheirStop
<1>14. EventsTell'
  BY <1>1, <1>9, <1>10, DebugFacts DEF EventsTell, Aimed, SnapshotTells, LastTells
<1>15. MarksAreMet'
  <2>1. Enabled(host[c]) => Enabled(host'[c])
    <3>1. CASE host[c].live
      BY <1>6, <1>7, <3>1 DEF Enabled, h
    <3>2. ASSUME NEW i \in DOMAIN host[c].out, host[c].out[i].op = "enable" PROVE Enabled(host'[c])
      <4>1. CASE i = 1
        BY <1>3, <1>6, <1>7, <3>2, <4>1 DEF Enabled, h
      <4>2. CASE i # 1
        <5>1. /\ i - 1 \in DOMAIN Tail(host[c].out)
              /\ Tail(host[c].out)[i - 1] = host[c].out[i]
          BY <1>1, <1>2, <3>2, <4>2, HeadTailProperties, LenProperties DEF h
        <5> QED
          BY <1>6, <1>7, <3>2, <5>1 DEF Enabled, h
      <4> QED
        BY <4>1, <4>2
    <3> QED
      BY <3>1, <3>2 DEF Enabled
  <2> QED
    BY <1>1, <1>7, <2>1, DebugFacts DEF MarksAreMet
<1> QED
  BY <1>11, <1>12, <1>13, <1>14, <1>15 DEF DebugInv

LEMMA StopKeeps ==
    ASSUME DebugInv, NEW c \in Sides, Stop(c)
    PROVE  DebugInv'
<1> DEFINE n == used.stops + 1
           word == [op |-> "paused", id |-> 0, ok |-> TRUE, stop |-> n]
           h == host[c]
           in == Append(h.in, word)
           g == [h EXCEPT !.stop = n, !.in = in]
<1>1. /\ c \in Present /\ host' = [host EXCEPT ![c] = g]
      /\ used' = [Using(used) EXCEPT !.stops = @ + 1] /\ UNCHANGED <<aim, side, debug, flight, call>>
  BY DEF Stop
<1>2. h \in Hosts /\ h.in \in Seq(Frames) /\ n \in Nat /\ n > 0 /\ used.stops \in Nat /\ n > used.stops
  BY DebugFacts DEF Hosts
<1>3. /\ used' \in [sides : Nat, spent : Nat, ids : Nat, stops : Nat, failed : BOOLEAN]
      /\ used'.sides = used.sides /\ used'.stops = n
  BY <1>1, <1>2, DebugFacts
<1> HIDE DEF n, h
<1>4. word \in Frames /\ word.op = "paused" /\ word.stop = n
  BY <1>2 DEF Frames
<1> HIDE DEF word
<1>5. /\ in \in Seq(Frames) /\ DOMAIN in = 1 .. Len(h.in) + 1 /\ DOMAIN h.in = 1 .. Len(h.in)
      /\ Len(h.in) \in Nat /\ in[Len(h.in) + 1] = word /\ \A i \in DOMAIN h.in : in[i] = h.in[i]
  BY <1>2, <1>4, AppendProperties, LenProperties
<1> HIDE DEF in
<1>6. g \in Hosts /\ g.stop = n /\ g.in = in /\ g.live = h.live /\ g.out = h.out
  BY <1>2, <1>5 DEF Hosts
<1> HIDE DEF g
<1>7. /\ host' \in [Sides -> Hosts] /\ host'[c] = g
      /\ \A d \in Sides : d # c => host'[d] = host[d]
  BY <1>1, <1>6, DebugFacts
<1>8. DebugShape'
  BY <1>1, <1>3, <1>7, DebugFacts DEF Present, DebugShape
<1>9. ASSUME NEW d \in Sides, NEW i \in DOMAIN host'[d].in, host'[d].in[i].op = "paused"
      PROVE  \/ i \in DOMAIN host[d].in /\ host'[d].in[i] = host[d].in[i]
             \/ d = c /\ i = Len(h.in) + 1 /\ host'[d].in[i].stop = n
  BY <1>4, <1>5, <1>6, <1>7, <1>9 DEF h
<1>10. StopsAreOnce'
  <2>1. \A d \in Sides : \A i \in DOMAIN host[d].in : host[d].in[i].op = "paused" =>
          host[d].in[i].stop \in 1 .. n /\ host[d].in[i].stop # n
    BY <1>2, DebugFacts DEF StopsAreOnce
  <2>2. (debug.paused => debug.shown # 0) /\ debug.shown <= used.stops /\ debug.shown \in Nat
    BY DebugFacts DEF StopsAreOnce, Snapshots
  <2>3. (debug'.paused => debug'.shown # 0) /\ debug'.shown <= used'.stops
    BY <1>1, <1>2, <1>3, <2>2
  <2>4. ASSUME NEW d \in Sides, NEW i \in DOMAIN host'[d].in, host'[d].in[i].op = "paused"
        PROVE  /\ host'[d].in[i].stop \in 1 .. used'.stops /\ host'[d].in[i].stop # debug'.shown
               /\ \A e \in Sides : \A j \in DOMAIN host'[e].in :
                    host'[e].in[j].op = "paused" /\ host'[e].in[j].stop = host'[d].in[i].stop
                      => d = e /\ i = j
    <3>1. host'[d].in[i].stop \in 1 .. used'.stops /\ host'[d].in[i].stop # debug'.shown
      <4>1. CASE i \in DOMAIN host[d].in /\ host'[d].in[i] = host[d].in[i]
        BY <1>1, <1>3, <2>1, <2>4, <4>1, DebugFacts DEF StopsAreOnce
      <4>2. CASE host'[d].in[i].stop = n
        BY <1>1, <1>2, <1>3, <2>2, <4>2
      <4> QED
        BY <1>9, <2>4, <4>1, <4>2
    <3>2. ASSUME NEW e \in Sides, NEW j \in DOMAIN host'[e].in, host'[e].in[j].op = "paused",
                 host'[e].in[j].stop = host'[d].in[i].stop
          PROVE  d = e /\ i = j
      <4>1. /\ \/ i \in DOMAIN host[d].in /\ host'[d].in[i] = host[d].in[i]
               \/ d = c /\ i = Len(h.in) + 1 /\ host'[d].in[i].stop = n
            /\ \/ j \in DOMAIN host[e].in /\ host'[e].in[j] = host[e].in[j]
               \/ e = c /\ j = Len(h.in) + 1 /\ host'[e].in[j].stop = n
        BY <1>9, <2>4, <3>2
      <4>2. CASE /\ i \in DOMAIN host[d].in /\ host'[d].in[i] = host[d].in[i]
                 /\ j \in DOMAIN host[e].in /\ host'[e].in[j] = host[e].in[j]
        BY <2>4, <3>2, <4>2, DebugFacts DEF StopsAreOnce
      <4>3. ASSUME i \in DOMAIN host[d].in, host'[d].in[i] = host[d].in[i] PROVE host'[d].in[i].stop # n
        BY <2>1, <2>4, <4>3
      <4>4. ASSUME j \in DOMAIN host[e].in, host'[e].in[j] = host[e].in[j] PROVE host'[e].in[j].stop # n
        BY <2>1, <3>2, <4>4
      <4> QED
        BY <3>2, <4>1, <4>2, <4>3, <4>4
    <3> QED
      BY <3>1, <3>2
  <2> QED
    BY <2>3, <2>4 DEF StopsAreOnce
<1>11. CallsAreOfTheirStop'
  <2>1. \A a \in Agents : call[a].saw \in Nat /\ call[a].saw <= used.stops
    BY DebugFacts DEF CallsAreOfTheirStop, CallShapes
  <2>2. ASSUME NEW a \in Agents, call[a].saw # 0, NEW d \in Sides, NEW i \in DOMAIN host'[d].in,
               host'[d].in[i].op = "paused"
        PROVE  host'[d].in[i].stop # call[a].saw
    BY SMTT(20), <1>2, <1>9, <2>1, <2>2, DebugFacts DEF CallsAreOfTheirStop
  <2>3. \A a \in Agents : call[a].saw <= n
    BY <1>2, <2>1
  <2>4. \A a \in Agents :
          /\ call[a].saw # 0 => (debug.shown = call[a].saw => debug.seq <= call[a].before)
          /\ call[a].told = "stopped" => call[a].stop # call[a].saw
    BY DebugFacts DEF CallsAreOfTheirStop
  <2> QED
    BY <1>1, <1>3, <2>2, <2>3, <2>4 DEF CallsAreOfTheirStop
<1>12. EventsTell'
  <2>1. LastTells(g)
    BY <1>4, <1>5, <1>6 DEF LastTells
  <2>2. \A d \in Sides : LastTells(host'[d])
    BY <1>7, <2>1, DebugFacts DEF EventsTell
  <2>3. SnapshotTells(g)
    BY <1>4, <1>5, <1>6 DEF SnapshotTells
  <2>4. \A d \in Sides : Aimed(d) /\ ~ debug.stale => SnapshotTells(host'[d])
    BY <1>7, <2>3, DebugFacts DEF EventsTell
  <2>5. \A d \in Sides : Aimed(d)' /\ ~ debug'.stale => SnapshotTells(host[d])'
    BY <1>1, <2>4 DEF Aimed, SnapshotTells
  <2>6. \A d \in Sides : LastTells(host[d])'
    BY <2>2 DEF LastTells
  <2> QED
    BY <2>5, <2>6 DEF EventsTell
<1>13. MarksAreMet'
  BY <1>1, <1>6, <1>7, DebugFacts DEF MarksAreMet, Enabled, h
<1> QED
  BY <1>8, <1>10, <1>11, <1>12, <1>13 DEF DebugInv

LEMMA ReloadKeeps ==
    ASSUME DebugInv, NEW c \in Sides, ReloadHost(c)
    PROVE  DebugInv'
<1>1. /\ c \in Present /\ host' = [host EXCEPT ![c].stop = 0]
      /\ debug' = [debug EXCEPT !.stale = @ \/ aim.who = c]
      /\ used' = Using(used) /\ UNCHANGED <<aim, side, flight, call>>
  BY DEF ReloadHost
<1>2. /\ host' \in [Sides -> Hosts]
      /\ \A d \in Sides : /\ d # c => host'[d] = host[d]
                          /\ host'[d].in = host[d].in /\ host'[d].out = host[d].out
                          /\ host'[d].live = host[d].live /\ host'[d].stop \in {0, host[d].stop}
  BY <1>1, DebugFacts DEF Hosts
<1>3. /\ debug' \in Snapshots /\ debug'.paused = debug.paused /\ debug'.shown = debug.shown
      /\ debug'.seq = debug.seq /\ (~ debug'.stale => ~ debug.stale /\ aim.who # c)
  BY <1>1, DebugFacts DEF Snapshots
<1>4. FramesStay
  BY <1>2 DEF FramesStay
<1>5. DebugShape'
  BY <1>1, <1>2, <1>3, DebugFacts DEF Present, DebugShape
<1>6. StopsAreOnce' /\ CallsAreOfTheirStop'
  BY <1>1, <1>3, <1>4, DebugFacts, StopsStay, CallsStay
<1>7. EventsTell'
  BY <1>1, <1>2, <1>3, <1>4, DebugFacts, EventsStay DEF Aimed
<1>8. MarksAreMet'
  BY <1>1, <1>2, DebugFacts DEF MarksAreMet, Enabled
<1> QED
  BY <1>5, <1>6, <1>7, <1>8 DEF DebugInv

-----------------------------------------------------------------------------
(* receiveMiniapp *)

LEMMA FirstIsRead ==
    ASSUME NEW s \in Seq(Frames), s # <<>>
    PROVE  /\ Head(s) = s[1] /\ Head(s) \in Frames /\ 1 \in DOMAIN s /\ Tail(s) \in Seq(Frames)
           /\ \A i \in DOMAIN Tail(s) : i \in Nat /\ i + 1 \in DOMAIN s /\ i + 1 # 1 /\ Tail(s)[i] = s[i + 1]
           /\ \A i \in DOMAIN s : i \in Nat /\ (i # 1 => i - 1 \in DOMAIN Tail(s) /\ Tail(s)[i - 1] = s[i])
<1>1. Head(s) = s[1] /\ Head(s) \in Frames /\ Tail(s) \in Seq(Frames) /\ Len(Tail(s)) = Len(s) - 1
  BY HeadTailProperties
<1>2. Len(s) \in Nat /\ DOMAIN s = 1 .. Len(s) /\ Len(s) # 0 /\ DOMAIN Tail(s) = 1 .. Len(s) - 1
  BY <1>1, LenProperties, EmptySeq
<1>3. \A i \in 1 .. Len(s) - 1 : Tail(s)[i] = s[i + 1]
  BY <1>1, <1>2, HeadTailProperties
<1> QED
  BY <1>1, <1>2, <1>3

\* The snapshot after a frame of c: what a paused or resumed target says.
Shows(c, frame) ==
    /\ frame.op = "paused" /\ ~ Shut(c) =>
          /\ debug'.paused /\ debug'.shown = frame.stop /\ debug'.seq = debug.seq + 1
          /\ (~ debug'.stale => Aimed(c) /\ host[c].stop # 0)
    /\ frame.op = "resumed" /\ ~ Shut(c) =>
          ~ debug'.paused /\ debug'.shown = 0 /\ debug'.seq = debug.seq /\ (~ debug'.stale => Aimed(c))
    /\ Shut(c) \/ frame.op = "reply" => debug' = debug

\* The calls f after the call of k moved on, and was told something.
Retold(f, k, phase, told) == [f EXCEPT ![k].pc = phase, ![k].told = told]

LEMMA AnswerIsKept ==
    ASSUME NEW k, NEW f \in [Agents -> CallShapes], NEW phase \in {"await", "idle", "sent"},
           NEW told, told = "error" \/ told = f[k].told,
           NEW g, g = Retold(f, k, phase, told)
    PROVE  /\ g \in [Agents -> CallShapes]
           /\ \A a \in Agents :
                 /\ g[a].saw = f[a].saw /\ g[a].before = f[a].before /\ g[a].stop = f[a].stop
                 /\ g[a].told = "stopped" => f[a].told = "stopped"
<1>1. CASE k \notin Agents
  BY <1>1 DEF Retold
<1>2. CASE k \in Agents
  <2> DEFINE e == [f[k] EXCEPT !.pc = phase, !.told = told]
  <2>1. f[k] \in CallShapes
    BY <1>2
  <2>2. /\ e \in CallShapes /\ e.saw = f[k].saw /\ e.before = f[k].before /\ e.stop = f[k].stop
        /\ e.told = "stopped" => f[k].told = "stopped"
    BY <2>1 DEF CallShapes
  <2>3. g = [f EXCEPT ![k] = e]
    BY <1>2 DEF Retold
  <2> HIDE DEF e
  <2> QED
    BY <1>2, <2>2, <2>3
<1> QED
  BY <1>1, <1>2

LEMMA FailureIsKept ==
    ASSUME NEW k, NEW f \in [Agents -> CallShapes], NEW g, g = Retold(f, k, "idle", "error")
    PROVE  /\ g \in [Agents -> CallShapes]
           /\ \A a \in Agents :
                 /\ g[a].saw = f[a].saw /\ g[a].before = f[a].before /\ g[a].stop = f[a].stop
                 /\ g[a].told = "stopped" => f[a].told = "stopped"
<1>1. CASE k \notin Agents
  BY <1>1 DEF Retold
<1>2. CASE k \in Agents
  <2> DEFINE e == [f[k] EXCEPT !.pc = "idle", !.told = "error"]
  <2>1. f[k] \in CallShapes
    BY <1>2
  <2>2. /\ e \in CallShapes /\ e.saw = f[k].saw /\ e.before = f[k].before /\ e.stop = f[k].stop
        /\ e.told # "stopped"
    BY <2>1 DEF CallShapes
  <2>3. g = [f EXCEPT ![k] = e]
    BY <1>2 DEF Retold
  <2> HIDE DEF e
  <2> QED
    BY <1>2, <2>2, <2>3
<1> QED
  BY <1>1, <1>2

LEMMA ReadKeeps ==
    ASSUME DebugInv, NEW c \in Sides, ReadHost(c)
    PROVE  DebugInv'
<1> DEFINE h == host[c]
           frame == Head(h.in)
           g == [h EXCEPT !.in = Tail(@)]
           answer == frame.op = "reply" /\ ~ Shut(c) /\ frame.id = flight.id
<1>1. /\ h.in # <<>> /\ host' = [host EXCEPT ![c].in = Tail(@)] /\ UNCHANGED <<aim, side, used>>
      /\ debug' = IF Shut(c) \/ frame.op = "reply" THEN debug
                  ELSE IF frame.op = "paused"
                  THEN [debug EXCEPT !.paused = TRUE, !.seq = @ + 1, !.shown = frame.stop,
                                     !.stale = ~ (Aimed(c) /\ host[c].stop # 0)]
                  ELSE [debug EXCEPT !.paused = FALSE, !.shown = 0, !.stale = ~ Aimed(c)]
      /\ call' = IF answer
                 THEN [call EXCEPT ![flight.by].pc = IF frame.ok THEN "await" ELSE "idle",
                                   ![flight.by].told = IF frame.ok THEN @ ELSE "error"]
                 ELSE call
  BY DEF ReadHost
<1>2. h \in Hosts /\ h.in \in Seq(Frames) /\ h.stop \in Nat
  BY DebugFacts DEF Hosts
<1>3. /\ frame = h.in[1] /\ frame \in Frames /\ 1 \in DOMAIN h.in /\ Tail(h.in) \in Seq(Frames)
      /\ \A i \in DOMAIN Tail(h.in) : i \in Nat /\ i + 1 \in DOMAIN h.in /\ i + 1 # 1 /\ Tail(h.in)[i] = h.in[i + 1]
      /\ \A i \in DOMAIN h.in : i \in Nat /\ (i # 1 => i - 1 \in DOMAIN Tail(h.in) /\ Tail(h.in)[i - 1] = h.in[i])
  BY <1>1, <1>2, FirstIsRead
<1>4. /\ host' \in [Sides -> Hosts] /\ host'[c].in = Tail(h.in) /\ host'[c].stop = h.stop
      /\ host'[c].out = h.out /\ host'[c].live = h.live
      /\ \A d \in Sides : d # c => host'[d] = host[d]
  BY <1>1, <1>2, <1>3, DebugFacts DEF Hosts
<1> HIDE DEF h, frame
<1>5. debug' \in Snapshots /\ Shows(c, frame)
  <2>1. frame.op \in {"reply", "resumed", "paused"} /\ frame.stop \in Nat
    BY <1>3 DEF Frames
  <2>2. CASE Shut(c) \/ frame.op = "reply"
    BY <1>1, <2>2, DebugFacts DEF Shows
  <2>3. CASE ~ Shut(c) /\ frame.op = "paused"
    <3>1. debug' = [debug EXCEPT !.paused = TRUE, !.seq = @ + 1, !.shown = frame.stop,
                                 !.stale = ~ (Aimed(c) /\ host[c].stop # 0)]
      BY <1>1, <2>3
    <3>2. PICK st \in BOOLEAN : st = ~ (Aimed(c) /\ host[c].stop # 0)
      OBVIOUS
    <3>3. debug' = [debug EXCEPT !.paused = TRUE, !.seq = @ + 1, !.shown = frame.stop, !.stale = st]
      BY <3>1, <3>2
    <3>4. debug \in Snapshots
      BY DebugFacts
    <3>5. /\ debug' \in Snapshots /\ debug'.paused /\ debug'.shown = frame.stop
          /\ debug'.seq = debug.seq + 1 /\ debug'.stale = st
      <4>1. debug' = [wanted |-> debug.wanted, paused |-> TRUE, seq |-> debug.seq + 1,
                      shown |-> frame.stop, stale |-> st]
        BY <3>3, <3>4 DEF Snapshots
      <4>2. debug.wanted \in BOOLEAN /\ debug.seq + 1 \in Nat
        BY <3>4 DEF Snapshots
      <4> QED
        BY <2>1, <4>1, <4>2 DEF Snapshots
    <3> QED
      BY <2>3, <3>2, <3>5 DEF Shows
  <2>4. CASE ~ Shut(c) /\ frame.op = "resumed"
    <3>1. debug' = [debug EXCEPT !.paused = FALSE, !.shown = 0, !.stale = ~ Aimed(c)]
      BY <1>1, <2>4
    <3> QED
      BY <2>4, <3>1, DebugFacts DEF Shows, Snapshots
  <2> QED
    BY <2>1, <2>2, <2>3, <2>4
<1>6. /\ call' \in [Agents -> CallShapes]
      /\ \A a \in Agents :
            /\ call'[a].saw = call[a].saw /\ call'[a].before = call[a].before
            /\ call'[a].stop = call[a].stop /\ (call'[a].told = "stopped" => call[a].told = "stopped")
  <2>1. CASE ~ answer
    BY <1>1, <2>1, DebugFacts
  <2>2. CASE answer
    <3>1. call' = [call EXCEPT ![flight.by].pc = IF frame.ok THEN "await" ELSE "idle",
                               ![flight.by].told = IF frame.ok THEN @ ELSE "error"]
      BY <1>1, <2>2
    <3>2. PICK k : k = flight.by
      OBVIOUS
    <3>3. call \in [Agents -> CallShapes]
      BY DebugFacts
    <3>4. CASE frame.ok
      <4>1. call' = [call EXCEPT ![k].pc = "await", ![k].told = call[k].told]
        BY <3>1, <3>2, <3>4
      <4>2. PICK old, new, told : old = call /\ new = call' /\ told = call[k].told
        OBVIOUS
      <4>3. old \in [Agents -> CallShapes] /\ told = old[k].told /\ new = Retold(old, k, "await", told)
        BY <3>3, <4>1, <4>2 DEF Retold
      <4>4. /\ new \in [Agents -> CallShapes]
            /\ \A a \in Agents :
                  /\ new[a].saw = old[a].saw /\ new[a].before = old[a].before /\ new[a].stop = old[a].stop
                  /\ new[a].told = "stopped" => old[a].told = "stopped"
        BY <4>3, AnswerIsKept
      <4> QED
        BY <4>2, <4>4
    <3>5. CASE ~ frame.ok
      <4>1. call' = [call EXCEPT ![k].pc = "idle", ![k].told = "error"]
        BY <3>1, <3>2, <3>5
      <4>2. PICK old, new : old = call /\ new = call'
        OBVIOUS
      <4>3. old \in [Agents -> CallShapes] /\ new = Retold(old, k, "idle", "error")
        BY <3>3, <4>1, <4>2 DEF Retold
      <4>4. /\ new \in [Agents -> CallShapes]
            /\ \A a \in Agents :
                  /\ new[a].saw = old[a].saw /\ new[a].before = old[a].before /\ new[a].stop = old[a].stop
                  /\ new[a].told = "stopped" => old[a].told = "stopped"
        BY <4>3, FailureIsKept
      <4> QED
        BY <4>2, <4>4
    <3> QED
      BY <3>4, <3>5
  <2> QED
    BY <2>1, <2>2
<1> HIDE DEF answer, g
<1>7. DebugShape'
  <2>1. Present' = Present
    BY <1>1 DEF Present
  <2>2. side[c].open
    BY <1>1, DebugFacts DEF h, NoHost
  <2>3. \A d \in Sides : ~ side'[d].open => side'[d] = NoSide /\ host'[d] = NoHost
    BY <1>1, <1>4, <2>2, DebugFacts
  <2>4. \A d \in Sides : d > used'.sides => ~ side'[d].open
    BY <1>1, DebugFacts
  <2>5. /\ aim' \in [on : BOOLEAN, who : Nat] /\ (aim'.who = 0 \/ aim'.who \in Present')
        /\ side' \in [Sides -> SideShapes]
        /\ used' \in [sides : Nat, spent : Nat, ids : Nat, stops : Nat, failed : BOOLEAN]
    BY <1>1, <2>1, DebugFacts
  <2> QED
    BY <1>4, <1>5, <1>6, <2>3, <2>4, <2>5 DEF DebugShape
\* Where a frame on the way was before.
<1>8. PICK at \in [Sides -> {0, 1}] :
         /\ at[c] = 1 /\ \A d \in Sides : d # c => at[d] = 0
  <2>1. [d \in Sides |-> IF d = c THEN 1 ELSE 0] \in [Sides -> {0, 1}]
    OBVIOUS
  <2> QED
    BY <2>1
<1>9. ASSUME NEW d \in Sides, NEW i \in DOMAIN host'[d].in
      PROVE  /\ i + at[d] \in DOMAIN host[d].in /\ host'[d].in[i] = host[d].in[i + at[d]]
             /\ ~ (d = c /\ i + at[d] = 1) /\ i \in Nat
  <2>1. CASE d = c
    BY ZenonT(40), <1>3, <1>4, <1>8, <2>1 DEF h
  <2>2. CASE d # c
    <3>1. host[d].in \in Seq(Frames)
      BY DebugFacts DEF Hosts
    <3>2. i \in Nat
      BY <1>4, <2>2, <3>1, LenProperties
    <3> QED
      BY <1>4, <1>8, <2>2, <3>2
  <2> QED
    BY <2>1, <2>2
<1>10. StopsAreOnce'
  <2>1. \A d \in Sides : \A i \in DOMAIN host[d].in : host[d].in[i].op = "paused" =>
          /\ host[d].in[i].stop \in 1 .. used.stops /\ host[d].in[i].stop # debug.shown
          /\ \A e \in Sides : \A j \in DOMAIN host[e].in :
                host[e].in[j].op = "paused" /\ host[e].in[j].stop = host[d].in[i].stop => d = e /\ i = j
    BY DebugFacts DEF StopsAreOnce
  <2>2. /\ debug'.paused => debug'.shown # 0
        /\ debug'.shown <= used'.stops
        /\ debug'.shown = debug.shown \/ debug'.shown = 0 \/ (frame.op = "paused" /\ debug'.shown = frame.stop)
    <3>1. /\ debug.paused => debug.shown # 0
          /\ debug.shown <= used.stops /\ used.stops \in Nat
          /\ frame.op = "paused" => frame.stop \in 1 .. used.stops
      BY <1>3, <2>1, DebugFacts DEF StopsAreOnce, h
    <3>2. frame.op \in {"reply", "resumed", "paused"}
      BY <1>3 DEF Frames
    <3> QED
      BY <1>1, <1>5, <3>1, <3>2 DEF Shows
  <2>3. ASSUME NEW d \in Sides, NEW i \in DOMAIN host'[d].in, host'[d].in[i].op = "paused"
        PROVE  /\ host'[d].in[i].stop \in 1 .. used.stops /\ host'[d].in[i].stop # debug'.shown
    <3>1. /\ i + at[d] \in DOMAIN host[d].in /\ host'[d].in[i] = host[d].in[i + at[d]]
          /\ ~ (d = c /\ i + at[d] = 1)
      BY <1>9
    <3>2. host[d].in[i + at[d]].stop \in 1 .. used.stops /\ host[d].in[i + at[d]].stop # debug.shown
      BY <2>1, <2>3, <3>1
    <3>3. frame.op = "paused" => host[d].in[i + at[d]].stop # frame.stop
      BY <1>3, <2>1, <2>3, <3>1 DEF h
    <3> QED
      BY <2>2, <3>1, <3>2, <3>3, DebugFacts
  <2>4. ASSUME NEW d \in Sides, NEW i \in DOMAIN host'[d].in, host'[d].in[i].op = "paused",
               NEW e \in Sides, NEW j \in DOMAIN host'[e].in,
               host'[e].in[j].op = "paused", host'[e].in[j].stop = host'[d].in[i].stop
        PROVE  d = e /\ i = j
    <3>1. /\ i + at[d] \in DOMAIN host[d].in /\ host'[d].in[i] = host[d].in[i + at[d]] /\ i \in Nat
          /\ j + at[e] \in DOMAIN host[e].in /\ host'[e].in[j] = host[e].in[j + at[e]] /\ j \in Nat
      BY <1>9
    <3>2. d = e /\ i + at[d] = j + at[e]
      BY <2>1, <2>4, <3>1
    <3>3. at[d] \in Nat
      OBVIOUS
    <3> QED
      BY <3>1, <3>2, <3>3
  <2>5. used'.stops = used.stops
    BY <1>1
  <2> QED
    BY <2>2, <2>3, <2>4, <2>5 DEF StopsAreOnce
<1>11. CallsAreOfTheirStop'
  <2> SUFFICES ASSUME NEW a \in Agents
               PROVE  /\ call'[a].saw <= used'.stops
                      /\ call'[a].saw # 0 =>
                            /\ debug'.shown = call'[a].saw => debug'.seq <= call'[a].before
                            /\ \A d \in Sides : \A i \in DOMAIN host'[d].in :
                                  host'[d].in[i].op = "paused" => host'[d].in[i].stop # call'[a].saw
                      /\ call'[a].told = "stopped" => call'[a].stop # call'[a].saw
    BY DEF CallsAreOfTheirStop
  <2>1. /\ call[a].saw <= used.stops
        /\ call[a].saw # 0 =>
              /\ debug.shown = call[a].saw => debug.seq <= call[a].before
              /\ \A d \in Sides : \A i \in DOMAIN host[d].in :
                    host[d].in[i].op = "paused" => host[d].in[i].stop # call[a].saw
        /\ call[a].told = "stopped" => call[a].stop # call[a].saw
    BY DebugFacts DEF CallsAreOfTheirStop
  <2>2. ASSUME call[a].saw # 0, debug'.shown = call[a].saw PROVE debug'.seq <= call[a].before
    <3>1. frame.op = "paused" => frame.stop # call[a].saw
      BY <1>3, <2>1, <2>2 DEF h
    <3>2. frame.op \in {"reply", "resumed", "paused"}
      BY <1>3 DEF Frames
    <3>3. debug' = debug
      BY <1>5, <2>2, <3>1, <3>2 DEF Shows
    <3> QED
      BY <2>1, <2>2, <3>3
  <2>3. ASSUME call[a].saw # 0, NEW d \in Sides, NEW i \in DOMAIN host'[d].in, host'[d].in[i].op = "paused"
        PROVE  host'[d].in[i].stop # call[a].saw
    BY <1>9, <2>1, <2>3
  <2> QED
    BY <1>1, <1>6, <2>1, <2>2, <2>3
<1>12. \A d \in Sides : LastTells(host'[d])
  <2>1. LastTells(host[c])
    BY DebugFacts DEF EventsTell
  <2>2. LastTells(host'[c])
    <3> SUFFICES ASSUME NEW i \in DOMAIN Tail(h.in),
                        \A j \in DOMAIN Tail(h.in) : j > i => Tail(h.in)[j].op = "reply"
                 PROVE  /\ Tail(h.in)[i].op = "resumed" => h.stop = 0
                        /\ Tail(h.in)[i].op = "paused" => h.stop \in {0, Tail(h.in)[i].stop}
      BY <1>4 DEF LastTells
    <3>1. ASSUME NEW j \in DOMAIN h.in, j > i + 1 PROVE h.in[j].op = "reply"
      <4>1. j # 1 /\ j \in Nat /\ i \in Nat /\ j - 1 > i
        BY <1>3, <3>1
      <4> QED
        BY <1>3, <4>1
    <3> QED
      BY <1>3, <2>1, <3>1 DEF LastTells, h
  <2> QED
    BY <1>4, <2>2, DebugFacts DEF EventsTell
<1>13. ASSUME NEW d \in Sides, Aimed(d), ~ debug'.stale PROVE SnapshotTells(host[d])'
  <2>1. CASE d # c
    <3>1. Shut(c)
      BY <1>13, <2>1 DEF Aimed, Shut, Sides
    <3>2. debug' = debug /\ host'[d] = host[d]
      BY <1>4, <1>5, <2>1, <3>1 DEF Shows
    <3> QED
      BY <1>13, <3>2, DebugFacts DEF EventsTell, SnapshotTells
  <2>2. CASE d = c
    <3>1. ~ Shut(c)
      BY <1>13, <2>2 DEF Aimed, Shut
    <3>2. SUFFICES ASSUME \A i \in DOMAIN Tail(h.in) : Tail(h.in)[i].op = "reply"
                   PROVE  debug'.paused = (h.stop # 0) /\ (debug'.paused => debug'.shown = h.stop)
      BY <1>4, <2>2 DEF SnapshotTells
    <3>3. ASSUME NEW i \in DOMAIN h.in, i # 1 PROVE h.in[i].op = "reply"
      <4>1. i - 1 \in DOMAIN Tail(h.in) /\ h.in[i] = Tail(h.in)[i - 1]
        BY <1>3, <3>3
      <4> QED
        BY <3>2, <4>1
    <3>4. CASE frame.op = "reply"
      <4>1. debug' = debug /\ \A i \in DOMAIN h.in : h.in[i].op = "reply"
        BY <1>3, <1>5, <3>3, <3>4 DEF Shows
      <4>2. SnapshotTells(h)
        BY <1>13, <2>2, <4>1, DebugFacts DEF EventsTell, Aimed, h
      <4>3. debug.paused = (h.stop # 0) /\ (debug.paused => debug.shown = h.stop)
        BY <4>1, <4>2 DEF SnapshotTells
      <4> QED
        BY <4>1, <4>3
    <3>5. \A j \in DOMAIN h.in : j > 1 => h.in[j].op = "reply"
      BY <1>3, <3>3
    <3>6. /\ frame.op = "resumed" => h.stop = 0
          /\ frame.op = "paused" => h.stop \in {0, frame.stop}
      BY <1>3, <3>5, DebugFacts DEF EventsTell, LastTells, h
    <3>7. CASE frame.op = "resumed"
      <4>1. debug'.paused = FALSE
        BY <1>5, <3>1, <3>7 DEF Shows, Snapshots
      <4> QED
        BY <3>6, <3>7, <4>1
    <3>8. CASE frame.op = "paused"
      <4>1. debug'.paused /\ debug'.shown = frame.stop /\ host[c].stop # 0
        BY <1>5, <1>13, <3>1, <3>8 DEF Shows
      <4> QED
        BY <3>6, <3>8, <4>1 DEF h
    <3>9. frame.op \in {"reply", "resumed", "paused"}
      BY <1>3 DEF Frames
    <3> QED
      BY <3>4, <3>7, <3>8, <3>9
  <2> QED
    BY <2>1, <2>2
<1>14. EventsTell'
  <2>1. \A d \in Sides : LastTells(host[d])'
    BY <1>12 DEF LastTells
  <2>2. \A d \in Sides : Aimed(d)' => Aimed(d)
    BY <1>1 DEF Aimed
  <2> QED
    BY <1>13, <2>1, <2>2 DEF EventsTell
<1>15. MarksAreMet'
  BY <1>1, <1>4, DebugFacts DEF MarksAreMet, Enabled, h
<1> QED
  BY <1>7, <1>10, <1>11, <1>14, <1>15 DEF DebugInv


-----------------------------------------------------------------------------
(* The tools *)

LEMMA BeginKeeps ==
    ASSUME DebugInv, NEW a \in Agents, NEW verb \in DebugOps, BeginTool(a, verb)
    PROVE  DebugInv'
<1> DEFINE begun == [NoCall EXCEPT !.pc = "send", !.op = verb, !.before = debug.seq, !.saw = debug.shown]
<1>1. /\ call' = [call EXCEPT ![a] = begun]
      /\ debug' = [debug EXCEPT !.wanted = @ \/ verb = "pause"]
      /\ used' = Using(used) /\ UNCHANGED <<aim, flight>>
      /\ \/ side' = side /\ host' = host
         \/ /\ Present # {}
            /\ EnableOn(IF aim.who # 0 THEN aim.who ELSE NewestSide, aim, Takers(aim), side, host)
  BY DEF BeginTool
<1>2. /\ side' \in [Sides -> SideShapes] /\ host' \in [Sides -> Hosts]
      /\ \A d \in Sides :
            /\ side'[d].open = side[d].open /\ (d \notin Present => side'[d] = side[d])
            /\ host'[d].in = host[d].in /\ host'[d].stop = host[d].stop
            /\ (d \notin Present => host'[d] = host[d])
            /\ side'[d].mark => Enabled(host'[d])
  <2>1. \A d \in Sides : side[d].mark => Enabled(host[d])
    BY DebugFacts DEF MarksAreMet
  <2>2. CASE side' = side /\ host' = host
    BY <2>1, <2>2, DebugFacts
  <2>3. CASE /\ Present # {}
             /\ EnableOn(IF aim.who # 0 THEN aim.who ELSE NewestSide, aim, Takers(aim), side, host)
    <3>1. PICK c : c = IF aim.who # 0 THEN aim.who ELSE NewestSide
      OBVIOUS
    <3>2. PICK takers : takers = Takers(aim)
      OBVIOUS
    <3>3. PICK pinned : pinned = aim
      OBVIOUS
    <3>4. NewestSide \in Present
      BY <2>3, NewestIsThere, DebugFacts
    <3>5. c \in Present /\ c \in takers /\ takers \subseteq Present /\ c \in Sides
      <4>1. takers = IF aim.who \in Present THEN {aim.who} ELSE Present
        BY <3>2 DEF Takers
      <4>2. Present \subseteq Sides
        BY DEF Present
      <4>3. aim.who = 0 \/ aim.who \in Present
        BY DebugFacts
      <4>4. 0 \notin Present
        BY <4>2, DebugFacts DEF Sides
      <4>5. c \in Present /\ c \in takers
        BY <3>1, <3>4, <4>1, <4>3, <4>4
      <4> QED
        BY <4>1, <4>2, <4>5
    <3>6. EnableOn(c, pinned, takers, side, host)
      BY <2>3, <3>1, <3>2, <3>3
    <3>7. side \in [Sides -> SideShapes] /\ host \in [Sides -> Hosts]
      BY DebugFacts
    <3>8. /\ side' \in [Sides -> SideShapes] /\ host' \in [Sides -> Hosts]
          /\ \A d \in Sides :
                /\ side'[d].open = side[d].open /\ (d # c => side'[d] = side[d])
                /\ host'[d].in = host[d].in /\ host'[d].stop = host[d].stop
                /\ host'[d].live = host[d].live /\ (d \notin takers => host'[d] = host[d])
                /\ side'[d].mark => Enabled(host'[d])
      BY <2>1, <3>5, <3>6, <3>7, EnablingMeetsTheMark, Zenon
    <3> QED
      BY <3>5, <3>8
  <2> QED
    BY <1>1, <2>2, <2>3
<1>3. Present' = Present
  BY <1>2 DEF Present
<1>4. /\ debug' \in Snapshots /\ debug'.paused = debug.paused /\ debug'.shown = debug.shown
      /\ debug'.seq = debug.seq /\ debug'.stale = debug.stale
  BY <1>1, DebugFacts DEF Snapshots
<1>5. /\ begun \in CallShapes /\ begun.saw = debug.shown /\ begun.before = debug.seq
      /\ begun.told = "nothing"
  BY DebugFacts DEF CallShapes, NoCall, Snapshots
<1> HIDE DEF begun
<1>6. /\ call' \in [Agents -> CallShapes] /\ call'[a] = begun
      /\ \A b \in Agents : b # a => call'[b] = call[b]
  BY <1>1, <1>5, DebugFacts
<1>7. CallsAreOfTheirStop'
  <2>1. ASSUME NEW b \in Agents, b # a
        PROVE  /\ call'[b].saw <= used'.stops
               /\ call'[b].saw # 0 =>
                    /\ debug'.shown = call'[b].saw => debug'.seq <= call'[b].before
                    /\ \A c \in Sides : \A i \in DOMAIN host'[c].in :
                          host'[c].in[i].op = "paused" => host'[c].in[i].stop # call'[b].saw
               /\ call'[b].told = "stopped" => call'[b].stop # call'[b].saw
    BY <1>1, <1>2, <1>4, <1>6, <2>1, DebugFacts DEF CallsAreOfTheirStop
  <2>2. /\ debug.shown <= used.stops /\ debug.seq <= debug.seq
        /\ \A c \in Sides : \A i \in DOMAIN host[c].in :
              host[c].in[i].op = "paused" => host[c].in[i].stop # debug.shown
    BY DebugFacts DEF StopsAreOnce, Snapshots
  <2>3. /\ call'[a].saw <= used'.stops
        /\ debug'.shown = call'[a].saw => debug'.seq <= call'[a].before
        /\ \A c \in Sides : \A i \in DOMAIN host'[c].in :
              host'[c].in[i].op = "paused" => host'[c].in[i].stop # call'[a].saw
        /\ call'[a].told # "stopped"
    BY <1>1, <1>2, <1>4, <1>5, <1>6, <2>2, DebugFacts
  <2> QED
    BY <2>1, <2>3 DEF CallsAreOfTheirStop
<1>8. \A d \in Sides : (side[d].open <=> side'[d].open) /\ (~ side'[d].open => side'[d] = NoSide /\ host'[d] = NoHost)
  BY <1>2, DebugFacts DEF Present
<1> QED
  BY <1>1, <1>2, <1>3, <1>4, <1>6, <1>7, <1>8, DebugFacts, SendingKeeps

LEMMA SendToolKeeps ==
    ASSUME DebugInv, NEW a \in Agents, SendTool(a)
    PROVE  DebugInv'
<1>1. PICK cmd, takers :
        /\ cmd = [op |-> call[a].op, id |-> used.ids + 1] /\ takers = Takers(aim)
        /\ call' = [call EXCEPT ![a].pc = "sent"]
        /\ host' = [c \in Sides |-> IF c \in takers THEN [host[c] EXCEPT !.out = Append(@, cmd)] ELSE host[c]]
        /\ used' = [used EXCEPT !.ids = @ + 1] /\ UNCHANGED <<aim, side, debug>>
  BY DEF SendTool
<1>2. cmd \in Commands
  BY <1>1, DebugFacts DEF Commands, CallShapes
<1>3. takers \subseteq Present
  BY <1>1 DEF Takers
<1>4. ASSUME NEW d \in Sides
      PROVE  /\ host'[d] \in Hosts /\ host'[d].in = host[d].in /\ host'[d].stop = host[d].stop
             /\ (d \notin Present => host'[d] = host[d])
             /\ Enabled(host[d]) => Enabled(host'[d])
  <2>1. host[d] \in Hosts /\ host[d].out \in Seq(Commands)
    BY DebugFacts DEF Hosts
  <2>2. CASE d \notin takers
    BY <1>1, <2>1, <2>2
  <2>3. CASE d \in takers
    <3>1. host'[d] = [host[d] EXCEPT !.out = Append(@, cmd)]
      BY <1>1, <2>3
    <3>2. PICK more \in Seq(Commands) :
            /\ more = Append(host[d].out, cmd)
            /\ \A i \in DOMAIN host[d].out : i \in DOMAIN more /\ more[i] = host[d].out[i]
      <4>1. PICK out : out = host[d].out /\ out \in Seq(Commands)
        BY <2>1
      <4>2. PICK more \in Seq(Commands) : more = Append(out, cmd)
        BY <1>2, <4>1, AppendProperties
      <4>3. Len(more) = Len(out) + 1 /\ \A i \in 1..Len(out) : more[i] = out[i]
        BY <1>2, <4>1, <4>2, AppendProperties
      <4>4. Len(out) \in Nat /\ DOMAIN out = 1..Len(out) /\ DOMAIN more = 1..Len(more)
        BY <4>1, <4>2, LenProperties
      <4>5. \A i \in DOMAIN out : i \in DOMAIN more /\ more[i] = out[i]
        BY <4>3, <4>4
      <4> QED
        BY <4>1, <4>2, <4>5
    <3>3. host'[d] = [host[d] EXCEPT !.out = more]
      BY <3>1, <3>2
    <3>4. /\ host'[d] \in Hosts /\ host'[d].in = host[d].in /\ host'[d].stop = host[d].stop
          /\ host'[d].live = host[d].live /\ host'[d].out = more
      BY <2>1, <3>3 DEF Hosts
    <3>5. Enabled(host[d]) => Enabled(host'[d])
      BY <3>2, <3>4 DEF Enabled
    <3> QED
      BY <1>3, <2>3, <3>4, <3>5
  <2> QED
    BY <2>2, <2>3
<1>5. host' \in [Sides -> Hosts]
  <2>1. PICK f : f = [c \in Sides |-> IF c \in takers THEN [host[c] EXCEPT !.out = Append(@, cmd)] ELSE host[c]]
    OBVIOUS
  <2> QED
    BY <1>1, <1>4
<1>6. Present' = Present
  BY <1>1 DEF Present
<1>7. /\ call' \in [Agents -> CallShapes]
      /\ \A b \in Agents :
            /\ call'[b].saw = call[b].saw /\ call'[b].before = call[b].before
            /\ call'[b].stop = call[b].stop /\ call'[b].told = call[b].told
  <2>1. call \in [Agents -> CallShapes]
    BY DebugFacts
  <2>2. PICK k \in CallShapes : k = call[a]
    BY <2>1
  <2>3. PICK m : m = [k EXCEPT !.pc = "sent"]
    OBVIOUS
  <2>4. /\ m \in CallShapes /\ m.saw = k.saw /\ m.before = k.before
        /\ m.stop = k.stop /\ m.told = k.told
    BY <2>3 DEF CallShapes
  <2>5. call' = [call EXCEPT ![a] = m]
    BY <1>1, <2>2, <2>3
  <2> QED
    BY <2>1, <2>2, <2>4, <2>5
<1>8. CallsAreOfTheirStop'
  BY <1>1, <1>4, <1>7, DebugFacts, CallsStay DEF FramesStay
<1>9. \A d \in Sides : ~ side'[d].open => side'[d] = NoSide /\ host'[d] = NoHost
  BY ZenonT(40), <1>1, <1>4, DebugFacts DEF Present
<1>10. /\ used' \in [sides : Nat, spent : Nat, ids : Nat, stops : Nat, failed : BOOLEAN]
       /\ used'.sides = used.sides /\ used'.stops = used.stops
  BY <1>1, DebugFacts
<1>11. \A d \in Sides : side'[d].mark => Enabled(host'[d])
  BY <1>1, <1>4, DebugFacts DEF MarksAreMet
<1> QED
  BY <1>1, <1>4, <1>5, <1>6, <1>7, <1>8, <1>9, <1>10, <1>11, DebugFacts, SendingKeeps

\* A call is told something; what it is told of a stop is new.
LEMMA TellingKeeps ==
    ASSUME DebugInv, UNCHANGED <<aim, side, debug, host>>,
           call' \in [Agents -> CallShapes], used' = used \/ used' = Using(used),
           \A b \in Agents :
              /\ call'[b].saw = call[b].saw /\ call'[b].before = call[b].before
              /\ call'[b].told = "stopped" =>
                    \/ call[b].told = "stopped" /\ call'[b].stop = call[b].stop
                    \/ call'[b].stop # call[b].saw
    PROVE  DebugInv'
<1>1. Present' = Present
  BY DEF Present
<1>2. /\ used' \in [sides : Nat, spent : Nat, ids : Nat, stops : Nat, failed : BOOLEAN]
      /\ used'.sides = used.sides /\ used'.stops = used.stops
  BY DebugFacts
<1>3. CallsAreOfTheirStop'
  BY <1>2, DebugFacts DEF CallsAreOfTheirStop
<1>4. \A d \in Sides : side'[d].mark => Enabled(host'[d])
  BY DebugFacts DEF MarksAreMet
<1> QED
  BY <1>1, <1>2, <1>3, <1>4, DebugFacts, SendingKeeps

LEMMA PollKeeps ==
    ASSUME DebugInv, NEW a \in Agents, PollTool(a) \/ PollGivesUp(a)
    PROVE  DebugInv'
<1>1. PICK what \in {"running", "stopped", "unconfirmed"} :
        /\ call' = [call EXCEPT ![a].pc = "idle", ![a].told = what, ![a].stop = debug.shown]
        /\ what = "stopped" => debug.paused /\ debug.seq > call[a].before
        /\ UNCHANGED <<aim, side, debug, host>> /\ (used' = used \/ used' = Using(used))
  BY DEF PollTool, Told, NewStop, PollGivesUp
<1>2. call[a] \in CallShapes /\ call \in [Agents -> CallShapes] /\ debug.shown \in Nat /\ debug.seq \in Nat
  BY DebugFacts DEF Snapshots
<1>3. PICK e : e = [call[a] EXCEPT !.pc = "idle", !.told = what, !.stop = debug.shown]
  OBVIOUS
<1>4. /\ e \in CallShapes /\ e.saw = call[a].saw /\ e.before = call[a].before /\ e.told = what
      /\ e.stop = debug.shown
  BY <1>2, <1>3 DEF CallShapes
<1>5. call' = [call EXCEPT ![a] = e]
  BY <1>1, <1>2, <1>3
<1>6. /\ call' \in [Agents -> CallShapes] /\ call'[a] = e
      /\ \A b \in Agents : b # a => call'[b] = call[b]
  BY <1>2, <1>4, <1>5
<1>7. ASSUME what = "stopped" PROVE debug.shown # call[a].saw
  BY <1>1, <1>2, <1>7, DebugFacts DEF StopsAreOnce, CallsAreOfTheirStop, CallShapes
<1>8. \A b \in Agents :
        /\ call'[b].saw = call[b].saw /\ call'[b].before = call[b].before
        /\ call'[b].told = "stopped" =>
              \/ call[b].told = "stopped" /\ call'[b].stop = call[b].stop
              \/ call'[b].stop # call[b].saw
  BY <1>4, <1>6, <1>7
<1> QED
  BY <1>1, <1>6, <1>8, TellingKeeps

LEMMA TimeoutKeeps ==
    ASSUME DebugInv, NEW a \in Agents, ToolTimesOut(a)
    PROVE  DebugInv'
<1>1. /\ call' = Retold(call, a, "idle", "error")
      /\ used' = Using(used) /\ UNCHANGED <<aim, side, debug, host>>
  BY DEF ToolTimesOut, Retold
<1>2. PICK old, new, told : old = call /\ new = call' /\ told = "error"
  OBVIOUS
<1>3. /\ new \in [Agents -> CallShapes]
      /\ \A b \in Agents :
            /\ new[b].saw = old[b].saw /\ new[b].before = old[b].before /\ new[b].stop = old[b].stop
            /\ new[b].told = "stopped" => old[b].told = "stopped"
  BY <1>1, <1>2, DebugFacts, AnswerIsKept
<1> QED
  BY <1>1, <1>2, <1>3, TellingKeeps

-----------------------------------------------------------------------------
LEMMA DebugInitially == DebugInit => DebugInv
<1> SUFFICES ASSUME DebugInit PROVE DebugInv
  OBVIOUS
<1>1. /\ \A c \in Sides : side[c] = NoSide /\ host[c] = NoHost
      /\ side \in [Sides -> SideShapes] /\ host \in [Sides -> Hosts]
  BY NothingIsTyped DEF DebugInit
<1>2. NoHost.in = <<>> /\ NoHost.stop = 0 /\ ~ NoSide.open /\ ~ NoSide.mark
  BY DEF NoHost, NoSide
<1>3. NoCall \in CallShapes /\ NoCall.saw = 0 /\ NoCall.told = "nothing"
  BY DEF NoCall, CallShapes
<1>4. /\ call \in [Agents -> CallShapes] /\ \A a \in Agents : call[a] = NoCall
  BY <1>3 DEF DebugInit
<1>5. /\ aim.who = 0 /\ aim \in [on : BOOLEAN, who : Nat]
      /\ debug \in Snapshots /\ ~ debug.paused /\ debug.shown = 0 /\ debug.stale
      /\ used \in [sides : Nat, spent : Nat, ids : Nat, stops : Nat, failed : BOOLEAN]
      /\ used.stops = 0
  BY DEF DebugInit, Snapshots
<1>6. DebugShape
  BY <1>1, <1>2, <1>4, <1>5 DEF DebugShape
<1>7. \A c \in Sides : \A i \in DOMAIN host[c].in : FALSE
  BY <1>1, <1>2
<1>8. StopsAreOnce /\ CallsAreOfTheirStop
  BY <1>3, <1>4, <1>5, <1>7 DEF StopsAreOnce, CallsAreOfTheirStop
<1>9. EventsTell /\ MarksAreMet
  BY <1>1, <1>2, <1>5, <1>7 DEF EventsTell, LastTells, MarksAreMet
<1> QED
  BY <1>6, <1>8, <1>9 DEF DebugInv

LEMMA DebugStutter == DebugInv /\ UNCHANGED debugVars => DebugInv'
<1> SUFFICES ASSUME DebugInv, UNCHANGED debugVars PROVE DebugInv'
  OBVIOUS
<1>1. UNCHANGED <<aim, side, debug, host, call, used>>
  BY DEF debugVars
<1> QED
  BY <1>1, DebugFacts, TellingKeeps

LEMMA DebugStep == DebugInv /\ [DebugNext]_debugVars => DebugInv'
<1> SUFFICES ASSUME DebugInv, [DebugNext]_debugVars PROVE DebugInv'
  OBVIOUS
<1>1. CASE UNCHANGED debugVars
  BY <1>1, DebugStutter
<1>2. CASE AddSide
  BY <1>2, AddKeeps
<1>3. ASSUME NEW on \in BOOLEAN, SetAim(on) PROVE DebugInv'
  BY <1>3, AimKeeps
<1>4. ASSUME NEW c \in Sides, RemoveSide(c) \/ SwitchSide(c) \/ EnableFails(c) PROVE DebugInv'
  BY <1>4, RemoveKeeps, SwitchKeeps, FailingKeeps
<1>5. ASSUME NEW c \in Sides, Perform(c) \/ Stop(c) \/ ReloadHost(c) \/ ReadHost(c) PROVE DebugInv'
  BY <1>5, PerformKeeps, StopKeeps, ReloadKeeps, ReadKeeps
<1>6. ASSUME NEW a \in Agents, SendTool(a) \/ ToolTimesOut(a) \/ PollTool(a) \/ PollGivesUp(a)
      PROVE  DebugInv'
  BY <1>6, SendToolKeeps, TimeoutKeeps, PollKeeps
<1>7. ASSUME NEW a \in Agents, NEW verb \in DebugOps, BeginTool(a, verb) PROVE DebugInv'
  BY <1>7, BeginKeeps
<1> QED
  BY <1>1, <1>2, <1>3, <1>4, <1>5, <1>6, <1>7 DEF DebugNext

LEMMA DebugInvMeans == DebugInv => DebugToolsAreTrue
<1> SUFFICES ASSUME DebugInv PROVE DebugToolsAreTrue
  OBVIOUS
<1>1. StopsAreNew
  BY DebugFacts DEF CallsAreOfTheirStop, StopsAreNew
<1>2. SnapshotIsTrue
  BY DebugFacts DEF EventsTell, SnapshotTells, SnapshotIsTrue, Present
<1>3. MarkedIsEnabled
  BY DebugFacts DEF MarksAreMet, Enabled, MarkedIsEnabled, Present
<1> QED
  BY <1>1, <1>2, <1>3 DEF DebugToolsAreTrue

\* An answer that a target stopped is of a stop other than the one the call
\* began in, the snapshot shows what the locked target does, and a marked
\* connection was asked to enable its debugger (awaitPause,
\* captureDebuggerEvent, enableDebuggerOnConnection): for any agents,
\* connections, reloads and moves of the lock.
THEOREM DebuggerTellsTheTruth == DebugSpec => []DebugToolsAreTrue
<1>1. DebugInit => DebugInv
  BY DebugInitially
<1>2. DebugInv /\ [DebugNext]_debugVars => DebugInv'
  BY DebugStep
<1>3. DebugInv => DebugToolsAreTrue
  BY DebugInvMeans
<1> QED
  BY <1>1, <1>2, <1>3, PTL DEF DebugSpec

HIDE DebugToolsSizes

=============================================================================
