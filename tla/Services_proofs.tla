------------------------ MODULE Services_proofs ------------------------
(* Proofs about the shell's services, for any number of processes,         *)
(* handlers, callers and directories: that the core's output keeps its     *)
(* order (CoreProcess), that the shutdown does (ShellShutdown), that a scan *)
(* is answered truthfully (ScanJobs), and that an interrupted update leaves *)
(* a working release (UpdateApply). And about the service of the bridge    *)
(* that verifies a target, for any connections and probes: that the session *)
(* a probe attaches comes off again (TargetProbe).                         *)
EXTENDS UpdateApply, CoreProcess, ShellShutdown, ScanJobs, TargetProbe,
        FiniteSetTheorems, TLAPS

-----------------------------------------------------------------------------
(* The output of the core (CoreProcess)                                     *)

\* The lines s are the last of the first n, all of them or a full buffer.
NewestOf(s, n) ==
    /\ s \in Seq(Nat) /\ n \in Nat
    /\ \A i \in DOMAIN s : s[i] = n - Len(s) + i
    /\ Len(s) < n => Len(s) >= PendingLines

\* The lines of c are in order, and logMu says who has them in hand.
OutputOf(c) ==
    /\ shown[c] \in Seq(Nat) /\ inHand[c] \in Seq(Nat) /\ pendingLog[c] \in Seq(Nat)
    /\ NewestOf(shown[c] \o inHand[c] \o pendingLog[c], captured[c])
    /\ onLog[c] => pendingLog[c] = <<>>
    /\ ~ onLog[c] => shown[c] = <<>> /\ inHand[c] = <<>>
    /\ logMu[c] = "free" => inHand[c] = <<>>
    /\ logMu[c] = "capture" => Len(inHand[c]) = 1

\* The creator of a client, and nobody else, still has to wire it.
Wiring(u) == user[u].pc \in {"onlog", "replay", "onevent"}
Wired ==
    /\ proc \in [Cores -> {"unborn", "running", "broken", "exited"}]
    /\ current \in 0 .. MaxCores /\ condemned \subseteq Cores
    /\ user \in [Users -> [pc : {"idle", "onlog", "replay", "onevent", "calling"}, core : 0 .. MaxCores]]
    /\ consumers \in [Cores -> {0, 1}]
    /\ \A c \in Cores : proc[c] = "unborn" => consumers[c] = 0
    /\ \A u \in Users : user[u].pc # "idle" => user[u].core \in Cores /\ proc[user[u].core] # "unborn"
    /\ \A u \in Users : Wiring(u) => consumers[user[u].core] = 0
    /\ \A u, v \in Users : Wiring(u) /\ Wiring(v) /\ user[u].core = user[v].core => u = v

Pipes ==
    /\ captured \in [Cores -> Nat] /\ onLog \in [Cores -> BOOLEAN]
    /\ logMu \in [Cores -> {"free", "replay", "capture"}]
    /\ pendingLog \in [Cores -> Seq(Nat)] /\ inHand \in [Cores -> Seq(Nat)]
    /\ shown \in [Cores -> Seq(Nat)]
    /\ \A c \in Cores : OutputOf(c)

CoreInv == Wired /\ Pipes

-----------------------------------------------------------------------------
(* Sequences                                                                *)

LEMMA NewestGrows ==
    ASSUME NEW s, NEW n, NewestOf(s, n)
    PROVE  NewestOf(Append(s, n + 1), n + 1)
<1>1. s \in Seq(Nat) /\ n \in Nat
  BY DEF NewestOf
<1>2. /\ Append(s, n + 1) \in Seq(Nat) /\ Len(Append(s, n + 1)) = Len(s) + 1
      /\ \A i \in 1 .. Len(s) : Append(s, n + 1)[i] = s[i]
      /\ Append(s, n + 1)[Len(s) + 1] = n + 1
      /\ DOMAIN s = 1 .. Len(s) /\ Len(s) \in Nat
      /\ DOMAIN Append(s, n + 1) = 1 .. Len(s) + 1
  BY <1>1
<1> QED
  BY <1>1, <1>2, PendingIsPositive DEF NewestOf

LEMMA LastLinesStayNewest ==
    ASSUME NEW s, NEW n, NewestOf(s, n)
    PROVE  NewestOf(LastLines(s, PendingLines), n)
<1>1. s \in Seq(Nat) /\ n \in Nat /\ Len(s) \in Nat /\ DOMAIN s = 1 .. Len(s)
  BY DEF NewestOf
<1>2. CASE Len(s) > PendingLines
  <2> DEFINE last == SubSeq(s, Len(s) - PendingLines + 1, Len(s))
  <2>1. /\ last \in Seq(Nat) /\ Len(last) = PendingLines /\ DOMAIN last = 1 .. PendingLines
        /\ \A i \in 1 .. PendingLines : last[i] = s[Len(s) - PendingLines + i]
    BY <1>1, <1>2, PendingIsPositive
  <2> HIDE DEF last
  <2>2. \A i \in 1 .. PendingLines :
           /\ Len(s) - PendingLines + i \in 1 .. Len(s)
           /\ s[Len(s) - PendingLines + i] = n - Len(s) + (Len(s) - PendingLines + i)
    <3> TAKE i \in 1 .. PendingLines
    <3> DEFINE j == Len(s) - PendingLines + i
    <3>1. j \in 1 .. Len(s)
      BY <1>1, <1>2, PendingIsPositive
    <3> HIDE DEF j
    <3>2. s[j] = n - Len(s) + j
      BY <1>1, <3>1 DEF NewestOf
    <3> QED
      BY <3>1, <3>2 DEF j
  <2>3. \A i \in 1 .. PendingLines : last[i] = n - PendingLines + i
    <3> TAKE i \in 1 .. PendingLines
    <3>1. last[i] = n - Len(s) + (Len(s) - PendingLines + i)
      BY <2>1, <2>2
    <3> QED
      BY <1>1, <3>1, PendingIsPositive
  <2>4. NewestOf(last, n)
    BY <1>1, <2>1, <2>3 DEF NewestOf
  <2> QED
    BY <1>2, <2>4 DEF LastLines, last
<1>3. CASE ~ (Len(s) > PendingLines)
  BY <1>3 DEF LastLines
<1> QED
  BY <1>2, <1>3

LEMMA Concatenation ==
    ASSUME NEW a \in Seq(Nat), NEW b \in Seq(Nat)
    PROVE  /\ a \o <<>> = a /\ <<>> \o a = a
           /\ b # <<>> => Append(a, Head(b)) \o Tail(b) = a \o b
           /\ \A n \in Nat : a \o <<n>> = Append(a, n)
<1>1. a \o <<>> = a /\ <<>> \o a = a
  OBVIOUS
<1>2. ASSUME NEW n \in Nat PROVE a \o <<n>> = Append(a, n)
  OBVIOUS
<1>3. ASSUME b # <<>> PROVE Append(a, Head(b)) \o Tail(b) = a \o b
  <2>1. b \in Seq(Nat) /\ Len(b) \in Nat \ {0} /\ Len(a) \in Nat /\ DOMAIN b = 1 .. Len(b)
    BY <1>3
  <2>2. Head(b) = b[1] /\ Head(b) \in Nat /\ Tail(b) \in Seq(Nat) /\ Len(Tail(b)) = Len(b) - 1
        /\ \A i \in 1 .. Len(b) - 1 : Tail(b)[i] = b[i + 1]
    BY <1>3, <2>1
  <2>3. Append(a, Head(b)) \in Seq(Nat) /\ Len(Append(a, Head(b))) = Len(a) + 1
        /\ \A i \in 1 .. Len(a) : Append(a, Head(b))[i] = a[i]
        /\ Append(a, Head(b))[Len(a) + 1] = b[1]
    BY <2>2
  <2> DEFINE x == Append(a, Head(b)) \o Tail(b)
             y == a \o b
  <2>4. x \in Seq(Nat) /\ y \in Seq(Nat) /\ Len(x) = Len(a) + Len(b) /\ Len(y) = Len(a) + Len(b)
    BY <2>1, <2>2, <2>3
  <2>5. ASSUME NEW i \in 1 .. Len(a) + Len(b) PROVE x[i] = y[i]
    <3>1. CASE i <= Len(a)
      BY <2>1, <2>2, <2>3, <3>1
    <3>2. CASE i = Len(a) + 1
      BY <2>1, <2>2, <2>3, <3>2
    <3>3. CASE i > Len(a) + 1
      <4>1. x[i] = Tail(b)[i - (Len(a) + 1)] /\ y[i] = b[i - Len(a)]
        BY <2>1, <2>2, <2>3, <3>3
      <4>2. i - (Len(a) + 1) \in 1 .. Len(b) - 1 /\ i - (Len(a) + 1) + 1 = i - Len(a)
        BY <2>1, <3>3
      <4> QED
        BY <2>2, <4>1, <4>2
    <3> QED
      BY <2>1, <3>1, <3>2, <3>3
  <2> HIDE DEF x, y
  <2>6. x = y
    BY <2>4, <2>5
  <2> QED
    BY <2>6 DEF x, y
<1> QED
  BY <1>1, <1>2, <1>3

-----------------------------------------------------------------------------
LEMMA CoreInitially == CoreInit => CoreInv
<1> SUFFICES ASSUME CoreInit PROVE CoreInv
  OBVIOUS
<1>1. Wired
  BY CoreBounds DEF CoreInit, Wired, Wiring, Idle
<1>2. \A c \in Cores : OutputOf(c)
  <2>1. <<>> \in Seq(Nat) /\ <<>> \o <<>> \o <<>> = <<>> /\ Len(<<>>) = 0
    OBVIOUS
  <2> QED
    BY <2>1 DEF CoreInit, OutputOf, NewestOf
<1>3. Pipes
  BY <1>2 DEF CoreInit, Pipes
<1> QED
  BY <1>1, <1>3 DEF CoreInv

\* The rest of a pipe does not see what happens in another.
LEMMA OtherPipes ==
    ASSUME NEW c \in Cores, OutputOf(c),
           captured'[c] = captured[c], onLog'[c] = onLog[c], logMu'[c] = logMu[c],
           pendingLog'[c] = pendingLog[c], inHand'[c] = inHand[c], shown'[c] = shown[c]
    PROVE  OutputOf(c)'
  BY DEF OutputOf

\* OnLog under logMu takes the kept lines in hand.
LEMMA OnLogKeepsPipes ==
    ASSUME CoreInv, NEW u \in Users, OnLog(u)
    PROVE  Pipes'
<1>1. PICK c \in Cores : c = user[u].core
  BY DEF CoreInv, Wired, OnLog
<1> USE DEF CoreInv, Pipes
<1>2. OutputOf(c) /\ logMu[c] = "free" /\ inHand[c] = <<>>
  BY <1>1 DEF OnLog, OutputOf
<1>3. /\ logMu' = [logMu EXCEPT ![c] = "replay"] /\ onLog' = [onLog EXCEPT ![c] = TRUE]
      /\ inHand' = [inHand EXCEPT ![c] = pendingLog[c]]
      /\ pendingLog' = [pendingLog EXCEPT ![c] = <<>>]
      /\ UNCHANGED <<captured, shown>>
  BY <1>1 DEF OnLog
<1>4. OutputOf(c)'
  <2>1. shown[c] \o <<>> \o pendingLog[c] = shown[c] \o pendingLog[c] \o <<>>
    BY <1>2, Concatenation DEF OutputOf
  <2>2. /\ inHand'[c] = pendingLog[c] /\ pendingLog'[c] = <<>> /\ shown'[c] = shown[c]
        /\ captured'[c] = captured[c] /\ onLog'[c] /\ logMu'[c] = "replay"
    BY <1>1, <1>3
  <2>3. NewestOf(shown'[c] \o inHand'[c] \o pendingLog'[c], captured'[c])
    BY <1>2, <2>1, <2>2 DEF OutputOf
  <2> QED
    BY <1>2, <2>2, <2>3 DEF OutputOf
<1>5. \A d \in Cores \ {c} : OutputOf(d)'
  BY <1>1, <1>3, OtherPipes
<1> QED
  BY <1>1, <1>3, <1>4, <1>5

LEMMA OnLogEndKeepsPipes ==
    ASSUME CoreInv, NEW u \in Users, OnLogEnd(u)
    PROVE  Pipes'
<1>1. PICK c \in Cores : c = user[u].core
  BY DEF CoreInv, Wired, OnLogEnd
<1> USE DEF CoreInv, Pipes
<1>3. /\ logMu' = [logMu EXCEPT ![c] = "free"] /\ inHand[c] = <<>>
      /\ UNCHANGED <<captured, shown, onLog, inHand, pendingLog>>
  BY <1>1 DEF OnLogEnd
<1>4. OutputOf(c)'
  BY <1>1, <1>3 DEF OutputOf
<1>5. \A d \in Cores \ {c} : OutputOf(d)'
  BY <1>1, <1>3, OtherPipes
<1> QED
  BY <1>1, <1>3, <1>4, <1>5

\* captureStderr: the line is the newest one, in hand or kept.
LEMMA CaptureKeepsPipes ==
    ASSUME CoreInv, NEW c \in Cores, CaptureLine(c)
    PROVE  Pipes'
<1> DEFINE n == captured[c] + 1
<1> USE DEF CoreInv, Pipes
<1>1. OutputOf(c) /\ inHand[c] = <<>> /\ captured[c] \in Nat /\ n \in Nat
  BY DEF CaptureLine, OutputOf
<1>2. captured' = [captured EXCEPT ![c] = n] /\ UNCHANGED <<onLog, shown>>
  BY DEF CaptureLine
<1>3. CASE onLog[c]
  <2>1. /\ logMu' = [logMu EXCEPT ![c] = "capture"] /\ inHand' = [inHand EXCEPT ![c] = <<n>>]
        /\ UNCHANGED pendingLog
    BY <1>3 DEF CaptureLine
  <2> HIDE DEF n
  <2>2. pendingLog[c] = <<>> /\ shown[c] \in Seq(Nat)
    BY <1>1, <1>3 DEF OutputOf
  <2>3. shown[c] \o inHand[c] \o pendingLog[c] = shown[c]
    BY <1>1, <2>2, Concatenation
  <2>4. shown[c] \o <<n>> \o pendingLog[c] = Append(shown[c], n)
    BY <1>1, <2>2, Concatenation
  <2>5. NewestOf(Append(shown[c], n), n)
    BY <1>1, <2>3, NewestGrows DEF OutputOf, n
  <2>6. /\ <<n>> \in Seq(Nat) /\ Len(<<n>>) = 1
    BY <1>1
  <2>7. OutputOf(c)'
    BY <1>1, <1>2, <1>3, <2>1, <2>2, <2>4, <2>5, <2>6 DEF OutputOf
  <2>8. \A d \in Cores \ {c} : OutputOf(d)'
    BY <1>2, <2>1, OtherPipes
  <2> QED
    BY <1>1, <1>2, <2>1, <2>6, <2>7, <2>8
<1>4. CASE ~ onLog[c]
  <2> DEFINE kept == LastLines(Append(pendingLog[c], n), PendingLines)
  <2>1. pendingLog' = [pendingLog EXCEPT ![c] = kept] /\ UNCHANGED <<logMu, inHand>>
    BY <1>4 DEF CaptureLine
  <2>2. shown[c] = <<>> /\ pendingLog[c] \in Seq(Nat)
    BY <1>1, <1>4 DEF OutputOf
  <2>3. shown[c] \o inHand[c] \o pendingLog[c] = pendingLog[c]
    BY <1>1, <2>2, Concatenation
  <2>4. NewestOf(Append(pendingLog[c], n), n)
    BY <1>1, <2>3, NewestGrows DEF OutputOf
  <2>5. NewestOf(kept, n)
    BY <2>4, LastLinesStayNewest
  <2> HIDE DEF kept, n
  <2>6. kept \in Seq(Nat)
    BY <2>5 DEF NewestOf
  <2>7. shown[c] \o inHand[c] \o kept = kept
    BY <1>1, <2>2, <2>6, Concatenation
  <2>8. OutputOf(c)'
    BY <1>1, <1>2, <1>4, <2>1, <2>2, <2>5, <2>6, <2>7 DEF OutputOf
  <2>9. \A d \in Cores \ {c} : OutputOf(d)'
    BY <1>2, <2>1, OtherPipes
  <2> QED
    BY <1>1, <1>2, <2>1, <2>6, <2>8, <2>9
<1> QED
  BY <1>3, <1>4

\* The callback takes the oldest of the lines in hand.
LEMMA ShowKeepsPipes ==
    ASSUME CoreInv, NEW c \in Cores, Show(c)
    PROVE  Pipes'
<1> USE DEF CoreInv, Pipes
<1>1. OutputOf(c) /\ inHand[c] # <<>> /\ inHand[c] \in Seq(Nat) /\ shown[c] \in Seq(Nat)
  BY DEF Show, OutputOf
<1>2. /\ shown' = [shown EXCEPT ![c] = Append(@, Head(inHand[c]))]
      /\ inHand' = [inHand EXCEPT ![c] = Tail(@)]
      /\ logMu' = [logMu EXCEPT ![c] = IF @ = "capture" THEN "free" ELSE @]
      /\ UNCHANGED <<captured, onLog, pendingLog>>
  BY DEF Show
<1>3. /\ Append(shown[c], Head(inHand[c])) \in Seq(Nat) /\ Tail(inHand[c]) \in Seq(Nat)
      /\ Len(Tail(inHand[c])) = Len(inHand[c]) - 1
  BY <1>1
<1>8. Len(inHand[c]) = 1 => Tail(inHand[c]) = <<>>
  <2>1. \A q \in Seq(Nat) : Len(q) = 0 => q = <<>>
    OBVIOUS
  <2> QED
    <3>1. ASSUME Len(inHand[c]) = 1 PROVE Tail(inHand[c]) = <<>>
      <4>1. Tail(inHand[c]) \in Seq(Nat) /\ Len(Tail(inHand[c])) = 0
        BY <1>3, <3>1
      <4> QED
        BY <2>1, <4>1
    <3> QED
      BY <3>1
<1>4. Append(shown[c], Head(inHand[c])) \o Tail(inHand[c]) = shown[c] \o inHand[c]
  BY <1>1, Concatenation
<1>5. onLog[c] /\ logMu[c] # "free"
  BY <1>1 DEF OutputOf
<1>6. OutputOf(c)'
  BY <1>1, <1>2, <1>3, <1>4, <1>5, <1>8 DEF OutputOf
<1>7. \A d \in Cores \ {c} : OutputOf(d)'
  BY <1>2, OtherPipes
<1> QED
  BY <1>1, <1>2, <1>3, <1>6, <1>7

-----------------------------------------------------------------------------
LEMMA PipesStay == ASSUME CoreInv, UNCHANGED stderrPipe PROVE Pipes'
  BY DEF CoreInv, Pipes, OutputOf, stderrPipe

LEMMA CoreStep ==
    ASSUME CoreInv, [CoreNext]_coreVars
    PROVE  CoreInv'
<1>0. Wired
  BY DEF CoreInv
<1>1. ASSUME NEW u \in Users, NeedCore(u) PROVE CoreInv'
  <2>1. CASE current # 0 /\ proc[current] = "running"
    <3>1. current \in Cores /\ proc[current] # "unborn"
      BY <1>0, <2>1 DEF Wired, Cores
    <3>2. /\ user' = [user EXCEPT ![u] = [pc |-> "calling", core |-> current]]
          /\ UNCHANGED <<proc, current, condemned, consumers>>
      BY <1>1, <2>1 DEF NeedCore, processes
    <3>3. Wired'
      BY <1>0, <3>1, <3>2, CoreBounds DEF Wired, Wiring, Cores
    <3> QED
      BY <1>1, <3>3, PipesStay DEF NeedCore, CoreInv
  <2>2. CASE ~ (current # 0 /\ proc[current] = "running")
    <3>1. PICK c \in Cores : Spawn(u, c)
      BY <1>1, <2>2 DEF NeedCore
    <3>2. Wired'
      BY <1>0, <1>1, <3>1 DEF NeedCore, Spawn, Wired, Wiring, Cores
    <3> QED
      BY <1>1, <3>2, PipesStay DEF NeedCore, CoreInv
  <2> QED
    BY <2>1, <2>2
<1>2. ASSUME NEW u \in Users, OnLog(u) PROVE CoreInv'
  <2>1. Wired'
    BY <1>0, <1>2 DEF OnLog, Wired, Wiring, processes
  <2> QED
    BY <1>2, <2>1, OnLogKeepsPipes DEF CoreInv
<1>3. ASSUME NEW u \in Users, OnLogEnd(u) PROVE CoreInv'
  <2>1. Wired'
    BY <1>0, <1>3 DEF OnLogEnd, Wired, Wiring, processes
  <2> QED
    BY <1>3, <2>1, OnLogEndKeepsPipes DEF CoreInv
<1>4. ASSUME NEW u \in Users, OnEvent(u) PROVE CoreInv'
  BY <1>0, <1>4, PipesStay DEF OnEvent, CoreInv, Wired, Wiring, processes
<1>5. ASSUME NEW u \in Users, CallEnds(u) PROVE CoreInv'
  <2>1. /\ proc' \in [Cores -> {"unborn", "running", "broken", "exited"}]
        /\ \A c \in Cores : proc'[c] = "unborn" <=> proc[c] = "unborn"
    BY <1>0, <1>5 DEF CallEnds, Wired
  <2>2. user' = [user EXCEPT ![u] = Idle] /\ UNCHANGED <<current, condemned, consumers>>
    BY <1>5 DEF CallEnds
  <2>3. Wired'
    BY <1>0, <2>1, <2>2, CoreBounds DEF Wired, Wiring, Idle
  <2> QED
    BY <1>5, <2>3, PipesStay DEF CallEnds, CoreInv
<1>6. ASSUME NEW c \in Cores, ProcessExits(c) PROVE CoreInv'
  BY <1>0, <1>6, PipesStay DEF ProcessExits, Alive, CoreInv, Wired, Wiring
<1>7. ASSUME NEW c \in Cores, KillVictim(c) PROVE CoreInv'
  BY <1>0, <1>7, PipesStay DEF KillVictim, CoreInv, Wired, Wiring
<1>8. ASSUME NEW c \in Cores, CaptureLine(c) PROVE CoreInv'
  BY <1>0, <1>8, CaptureKeepsPipes DEF CaptureLine, CoreInv, Wired, Wiring, processes
<1>9. ASSUME NEW c \in Cores, Show(c) PROVE CoreInv'
  BY <1>0, <1>9, ShowKeepsPipes DEF Show, CoreInv, Wired, Wiring, processes
<1>10. CASE UNCHANGED coreVars
  BY <1>0, <1>10, PipesStay DEF coreVars, processes, CoreInv, Wired, Wiring
<1> QED
  BY <1>1, <1>2, <1>3, <1>4, <1>5, <1>6, <1>7, <1>8, <1>9, <1>10 DEF CoreNext

\* Every stderr line reaches the log once and in the order of its capture, and
\* a client's events have one consumer (client.go, OnLog; app.go, ensureEngine).
THEOREM CoreOutputKeepsItsOrder == CoreSpec => []CoreOutputInOrder
<1>1. CoreInv => CoreOutputInOrder
  <2> SUFFICES ASSUME CoreInv PROVE CoreOutputInOrder
    OBVIOUS
  <2>1. StderrInOrder
    BY DEF CoreInv, Pipes, OutputOf, NewestOf, StderrInOrder
  <2>2. OneConsumer
    <3>1. \A c \in Cores : consumers[c] \in {0, 1}
      BY DEF CoreInv, Wired
    <3> QED
      BY <3>1 DEF OneConsumer
  <2> QED
    BY <2>1, <2>2 DEF CoreOutputInOrder
<1> QED
  BY CoreInitially, CoreStep, <1>1, PTL DEF CoreSpec

-----------------------------------------------------------------------------
(* The shutdown (ShellShutdown)                                             *)

(* The stages after each point of App.shutdown.                             *)
AfterMcp == {"http", "answering", "audit", "drain", "feeders", "core", "closed"}
AfterHttp == {"answering", "audit", "drain", "feeders", "core", "closed"}
AfterAnswers == {"audit", "drain", "feeders", "core", "closed"}
AfterDrain == {"feeders", "core", "closed"}

\* Who may still start something: the GUI and the agents are late once their
\* way in is ended, an HTTP handler once nobody waits for it any more.
CallersAreLate ==
    /\ \A c \in Calls : call[c].state = "handled" => call[c].way # "none"
    /\ stage # "running" => "gui" \in late
    /\ stage \in AfterMcp => "mcp" \in late
    /\ stage \in AfterHttp /\ "http" \in open => "http" \in late
    /\ stage \in AfterAnswers => \A c \in Calls : call[c].state = "handled" => call[c].way \in late

\* What still runs at each stage is a late caller's.
WorkIsLate ==
    /\ stage \notin {"running", "poller"} => poller = "gone"
    /\ build \in 0 .. MaxTasks
    /\ build # 0 => task[build].state = "running"
    /\ DrainedBuildIsCancelled
    /\ stage \in AfterDrain => \A t \in Tasks : task[t].state = "running" => task[t].late
    /\ stage \in {"core", "closed"} => (feeder.on => feeder.late)
    /\ stage = "closed" => (core.on => core.late)

ShutdownShapes ==
    /\ stage \in DOMAIN Following \cup {"closed"}
    /\ call \in [Calls -> [way : Ways \cup {"none"}, state : {"unborn", "handled", "answered"}]]
    /\ task \in [Tasks -> [state : {"unborn", "running", "done"},
                           late : BOOLEAN, cancelled : BOOLEAN]]

ShutdownInv == ShutdownShapes /\ CallersAreLate /\ WorkIsLate

USE ShutdownBounds DEF ShutdownShapes, Tasks, AfterMcp, AfterHttp, AfterAnswers, AfterDrain

LEMMA ShutdownInitially == ShutdownInit => ShutdownInv
  BY DEF ShutdownInit, ShutdownInv, Ways, CallersAreLate, WorkIsLate, NoCall, NoTask, Off, Following,
         DrainedBuildIsCancelled

LEMMA CancelIsTyped ==
    \A r \in [state : {"unborn", "running", "done"}, late : BOOLEAN, cancelled : BOOLEAN] :
        /\ [r EXCEPT !.cancelled = TRUE] \in
               [state : {"unborn", "running", "done"}, late : BOOLEAN, cancelled : BOOLEAN]
        /\ [r EXCEPT !.cancelled = TRUE].state = r.state
        /\ [r EXCEPT !.cancelled = TRUE].late = r.late
        /\ [r EXCEPT !.cancelled = TRUE].cancelled
  OBVIOUS

\* Each stage of App.shutdown leaves its own point proved to the next.
LEMMA StageEnds ==
    ASSUME ShutdownInv, ShutdownStep
    PROVE  ShutdownInv'
<1> USE DEF ShutdownInv, CallersAreLate, WorkIsLate, Advance, Following, DrainedBuildIsCancelled, Ways, Listeners
<1>1. CASE QuitShell
  BY <1>1 DEF QuitShell
<1>2. CASE CancelPoller
  BY <1>2 DEF CancelPoller
<1>3. CASE EndPoller
  BY <1>3 DEF EndPoller
<1>4. CASE StopMcp
  BY <1>4 DEF StopMcp
<1>5. CASE StopHttp
  BY <1>5 DEF StopHttp
<1>6. CASE HttpAnswered
  <2>1. \A c \in Calls : call[c].state = "handled" => call[c].way # "http"
    BY <1>6 DEF HttpAnswered, Handling
  <2> QED
    BY <1>6, <2>1 DEF HttpAnswered
<1>7. CASE GiveUpHttp
  BY <1>7 DEF GiveUpHttp
<1>8. CASE CloseAudit
  <2>1. CASE build = 0
    BY <1>8, <2>1 DEF CloseAudit
  <2>2. CASE build # 0
    <3>1. build \in Tasks /\ task' = [task EXCEPT ![build].cancelled = TRUE]
      BY <1>8, <2>2 DEF CloseAudit
    <3>4. [task[build] EXCEPT !.cancelled = TRUE] \in
              [state : {"unborn", "running", "done"}, late : BOOLEAN, cancelled : BOOLEAN]
      BY <3>1, CancelIsTyped
    <3>2. /\ task' \in [Tasks -> [state : {"unborn", "running", "done"}, late : BOOLEAN, cancelled : BOOLEAN]]
          /\ task'[build].cancelled
      BY <3>1, <3>4
    <3>3. \A t \in Tasks : task'[t].state = task[t].state /\ task'[t].late = task[t].late
      BY <3>1
    <3> QED
      BY <1>8, <2>2, <3>1, <3>2, <3>3 DEF CloseAudit
  <2> QED
    BY <2>1, <2>2
<1>9. CASE WaitBackground
  BY <1>9 DEF WaitBackground
<1>10. CASE StopFeeders
  BY <1>10 DEF StopFeeders, Off
<1>11. CASE StopCore
  BY <1>11 DEF StopCore, Off
<1> QED
  BY <1>1, <1>2, <1>3, <1>4, <1>5, <1>6, <1>7, <1>8, <1>9, <1>10, <1>11 DEF ShutdownStep


\* A handled call is late or comes while its way in is open; answering it
\* changes nobody's lateness.
LEMMA AnswerKeepsCallers ==
    ASSUME ShutdownInv, NEW c \in Calls, Answer(c), UNCHANGED <<stage, late>>,
           "http" \in open' /\ stage \in AfterHttp => "http" \in late
    PROVE  /\ CallersAreLate'
           /\ call' \in [Calls -> [way : Ways \cup {"none"}, state : {"unborn", "handled", "answered"}]]
           /\ stage \in AfterAnswers => IsLate(c)
           /\ stage # "running" /\ call[c].way = "gui" => IsLate(c)
           /\ IsLate(c) \in BOOLEAN
  BY DEF ShutdownInv, CallersAreLate, Answer, IsLate, Ways, Listeners

\* A task is born after the stage that drains them by a late caller only, and
\* is not the running build's.
LEMMA TrackKeepsWork ==
    ASSUME ShutdownInv, NEW t \in Tasks, NEW isLate \in BOOLEAN, Track(t, isLate),
           stage \in AfterAnswers => isLate, build' \in {build, t},
           UNCHANGED <<stage, poller>>, 
           feeder' = feeder \/ (stage \in AfterAnswers => feeder'.late),
           core' = core \/ (stage \in AfterAnswers => core'.late)
    PROVE  /\ WorkIsLate'
           /\ task' \in [Tasks -> [state : {"unborn", "running", "done"},
                                   late : BOOLEAN, cancelled : BOOLEAN]]
<1> DEFINE born == [state |-> "running", late |-> isLate, cancelled |-> FALSE]
<1>1. task' = [task EXCEPT ![t] = born] /\ task[t].state = "unborn"
  BY DEF Track, NoTask
<1>2. task' \in [Tasks -> [state : {"unborn", "running", "done"}, late : BOOLEAN, cancelled : BOOLEAN]]
  BY <1>1 DEF ShutdownInv
<1>3. task'[t] = born /\ \A u \in Tasks : u # t => task'[u] = task[u]
  BY <1>1 DEF ShutdownInv
<1>4. build # t \/ build = 0
  BY <1>1 DEF ShutdownInv, WorkIsLate
<1> QED
  BY <1>2, <1>3, <1>4 DEF ShutdownInv, WorkIsLate, DrainedBuildIsCancelled

LEMMA NeedsCoreKeeps ==
    ASSUME ShutdownInv, NEW c \in Calls, NeedsCore(c), stage \in AfterAnswers => IsLate(c)
    PROVE  core' = core \/ (stage \in AfterAnswers => core'.late)
  BY DEF NeedsCore

\* What a call starts while or after its way in is ended is late.
LEMMA HandlersKeep ==
    ASSUME ShutdownInv, NEW c \in Calls, Handle(c)
    PROVE  ShutdownInv'
<1>1. CASE StartTask(c)
  <2>1. PICK t \in Tasks : Track(t, IsLate(c))
    BY <1>1 DEF StartTask
  <2> QED
    BY <1>1, <2>1, AnswerKeepsCallers, TrackKeepsWork DEF StartTask, ShutdownInv, CallersAreLate
<1>2. CASE AssetsScan(c)
  <2>1. CASE build # 0
    BY <1>2, <2>1, AnswerKeepsCallers DEF AssetsScan, ShutdownInv, CallersAreLate, WorkIsLate, DrainedBuildIsCancelled
  <2>2. CASE build = 0
    <3>1. PICK t \in Tasks : Track(t, IsLate(c)) /\ build' = t
      BY <1>2, <2>2 DEF AssetsScan
    <3> QED
      BY <1>2, <3>1, AnswerKeepsCallers, TrackKeepsWork DEF AssetsScan, ShutdownInv, CallersAreLate
  <2> QED
    BY <2>1, <2>2
<1>3. CASE UseCore(c)
  BY <1>3, AnswerKeepsCallers, NeedsCoreKeeps
     DEF UseCore, ShutdownInv, CallersAreLate, WorkIsLate, DrainedBuildIsCancelled
<1>4. CASE StartFeeder(c)
  BY <1>4, AnswerKeepsCallers, NeedsCoreKeeps
     DEF StartFeeder, ShutdownInv, CallersAreLate, WorkIsLate, DrainedBuildIsCancelled
<1>5. ASSUME NEW way \in Listeners, OpenListener(c, way)
      PROVE  ShutdownInv'
  BY <1>5 DEF OpenListener, Answer, HttpIsPast, Listeners, Ways,
              ShutdownInv, CallersAreLate, WorkIsLate, DrainedBuildIsCancelled
<1>6. ASSUME NEW way \in Listeners, CloseListener(c, way)
      PROVE  ShutdownInv'
  BY <1>6, AnswerKeepsCallers
     DEF CloseListener, ShutdownInv, CallersAreLate, WorkIsLate, DrainedBuildIsCancelled
<1> QED
  BY <1>1, <1>2, <1>3, <1>4, <1>5, <1>6 DEF Handle

LEMMA OthersKeepShutdown ==
    ASSUME ShutdownInv,
           \/ PollerInjects \/ PollerEnds \/ UNCHANGED shutdownVars
           \/ \E c \in Calls : \E way \in Ways : Request(c, way)
           \/ \E t \in Tasks : TaskEnds(t)
    PROVE  ShutdownInv'
<1> USE DEF ShutdownInv
<1>1. CASE PollerInjects
  <2>1. PICK t \in Tasks : Track(t, FALSE)
    BY <1>1 DEF PollerInjects
  <2>2. stage \notin AfterAnswers
    BY <1>1 DEF PollerInjects, WorkIsLate
  <2> QED
    BY <1>1, <2>1, <2>2, TrackKeepsWork DEF PollerInjects, CallersAreLate
<1>2. CASE PollerEnds
  BY <1>2 DEF PollerEnds, CallersAreLate, WorkIsLate, DrainedBuildIsCancelled
<1>3. ASSUME NEW c \in Calls, NEW way \in Ways, Request(c, way)
      PROVE  ShutdownInv'
  BY <1>3 DEF Request, NoCall, Ways, Listeners, CallersAreLate, WorkIsLate, DrainedBuildIsCancelled
<1>4. ASSUME NEW t \in Tasks, TaskEnds(t)
      PROVE  ShutdownInv'
  <2>1. /\ task' \in [Tasks -> [state : {"unborn", "running", "done"}, late : BOOLEAN, cancelled : BOOLEAN]]
        /\ task'[t].state = "done"
        /\ \A u \in Tasks : u # t => task'[u] = task[u]
    BY <1>4 DEF TaskEnds
  <2> QED
    BY <1>4, <2>1 DEF TaskEnds, CallersAreLate, WorkIsLate, DrainedBuildIsCancelled
<1>5. CASE UNCHANGED shutdownVars
  BY <1>5 DEF shutdownVars, CallersAreLate, WorkIsLate, DrainedBuildIsCancelled
<1> QED
  BY <1>1, <1>2, <1>3, <1>4, <1>5

\* Once the storage is closed only a late caller's work still runs, and a build
\* that the drain waits for has been cancelled (app.go, shutdown).
THEOREM ShutdownKeepsItsOrder == ShutdownSpec => []ShutdownIsOrderly
<1>1. ShutdownInv /\ [ShutdownNext]_shutdownVars => ShutdownInv'
  BY StageEnds, HandlersKeep, OthersKeepShutdown DEF ShutdownNext
<1>2. ShutdownInv => ShutdownIsOrderly
  BY DEF ShutdownInv, WorkIsLate, ShutdownIsOrderly, ClosedUnderLateWorkOnly
<1> QED
  BY ShutdownInitially, <1>1, <1>2, PTL DEF ShutdownSpec

HIDE ShutdownBounds DEF ShutdownShapes, Tasks, AfterMcp, AfterHttp, AfterAnswers, AfterDrain

-----------------------------------------------------------------------------
(* Scans (ScanJobs)                                                         *)

CachedScans == [dir : Dirs, modTime : Nat, payload : Nat]

Workers == [dir : Dirs \cup {"none"}, began : Nat,
            pc : {"unborn", "queued", "scanning", "leaving", "gone"}]

\* A job that may still take itself out of the registry is in it, unfailed.
JobsOK ==
    /\ contents \in [Dirs -> Nat]
    /\ scanJob \in [Dirs -> [id : Nat, err : BOOLEAN]]
    /\ worker \in [JobIds -> Workers]
    /\ \A j \in JobIds : worker[j].pc \in {"queued", "scanning"} =>
          /\ worker[j].dir \in Dirs /\ scanJob[worker[j].dir] = [id |-> j, err |-> FALSE]
          /\ worker[j].began <= contents[worker[j].dir]
    /\ untold \subseteq Dirs /\ FailureToldFirst

\* No entry is newer than its directory, and one that shows other contents
\* than those of its modification time is of a directory that was raced.
CacheOK ==
    /\ cache \in Seq(CachedScans)
    /\ \A i \in DOMAIN cache :
          /\ cache[i].modTime <= contents[cache[i].dir]
          /\ cache[i].payload = cache[i].modTime \/ cache[i].dir \in raced
    /\ OnlyRacedScansAreStale

ScanInv == JobsOK /\ CacheOK

LEMMA NoJobIsTyped == NoJob \in [id : Nat, err : BOOLEAN]
  BY DEF NoJob

\* A goroutine that moves on keeps its directory and its first reading.
LEMMA WorkerMoves ==
    ASSUME worker \in [JobIds -> Workers], NEW j \in JobIds,
           NEW to \in {"queued", "scanning", "leaving", "gone"},
           worker' = [worker EXCEPT ![j].pc = to]
    PROVE  /\ worker' \in [JobIds -> Workers]
           /\ worker'[j].pc = to /\ worker'[j].dir = worker[j].dir
           /\ \A i \in JobIds \ {j} : worker'[i] = worker[i]
<1>1. [worker[j] EXCEPT !.pc = to] \in Workers
  BY DEF Workers
<1> QED
  BY <1>1

\* Two goroutines that have yet to leave are of different directories.
LEMMA OneJobPerDirectory ==
    ASSUME JobsOK, NEW i \in JobIds, NEW j \in JobIds, worker[i].dir = worker[j].dir,
           worker[i].pc \in {"queued", "scanning"}, worker[j].pc \in {"queued", "scanning"}
    PROVE  i = j
<1>1. [id |-> i, err |-> FALSE] = [id |-> j, err |-> FALSE]
  BY DEF JobsOK
<1>2. [id |-> i, err |-> FALSE].id = i /\ [id |-> j, err |-> FALSE].id = j
  OBVIOUS
<1> QED
  BY <1>1, <1>2

LEMMA ScanInitially == ScanInit => ScanInv
<1> SUFFICES ASSUME ScanInit PROVE ScanInv
  OBVIOUS
<1>1. JobsOK
  BY ScanJobsAssumption DEF ScanInit, JobsOK, NoJob, Unborn, FailureToldFirst, JobIds, Workers
<1>2. CacheOK
  BY DEF ScanInit, CacheOK, OnlyRacedScansAreStale, NoReply
<1> QED
  BY <1>1, <1>2 DEF ScanInv

\* A goroutine that takes its job out of the registry leaves no other's in.
LEMMA JobLeaves ==
    ASSUME JobsOK, NEW j \in JobIds, worker[j].pc \in {"queued", "scanning"},
           scanJob' = [scanJob EXCEPT ![worker[j].dir] = NoJob],
           worker' = [worker EXCEPT ![j].pc = "leaving"], UNCHANGED <<contents, untold>>
    PROVE  JobsOK'
<1>1. PICK d \in Dirs : d = worker[j].dir /\ d \notin untold
  <2>1. worker[j].dir \in Dirs /\ scanJob[worker[j].dir] = [id |-> j, err |-> FALSE]
    BY DEF JobsOK
  <2>2. ~ scanJob[worker[j].dir].err
    BY <2>1
  <2> QED
    BY <2>1, <2>2 DEF JobsOK, FailureToldFirst
<1>2. /\ worker' \in [JobIds -> Workers] /\ worker'[j].pc = "leaving"
      /\ \A i \in JobIds \ {j} : worker'[i] = worker[i]
  BY WorkerMoves DEF JobsOK
<1>3. \A i \in JobIds \ {j} : worker[i].pc \in {"queued", "scanning"} => worker[i].dir # d
  BY <1>1, OneJobPerDirectory
<1>4. /\ scanJob' \in [Dirs -> [id : Nat, err : BOOLEAN]]
      /\ \A e \in Dirs \ {d} : scanJob'[e] = scanJob[e]
  BY <1>1, NoJobIsTyped DEF JobsOK
<1>5. FailureToldFirst'
  BY <1>1, <1>4 DEF JobsOK, FailureToldFirst
<1> QED
  BY <1>2, <1>3, <1>4, <1>5 DEF JobsOK

\* What is stored: the other directories' entries and the new one.
LEMMA StoredHolds ==
    ASSUME ScanInv, NEW entry \in CachedScans
    PROVE  /\ Stored(entry) \in Seq(CachedScans)
           /\ \A i \in DOMAIN Stored(entry) :
                 \/ Stored(entry)[i] = entry
                 \/ \E k \in DOMAIN cache : Stored(entry)[i] = cache[k] /\ cache[k].dir # entry.dir
<1> DEFINE others == {i \in DOMAIN cache : cache[i].dir # entry.dir}
           kept == Pick(cache, others)
           all == Append(kept, entry)
<1>1. cache \in Seq(CachedScans) /\ others \in SUBSET DOMAIN cache
  BY DEF ScanInv, CacheOK
<1>2. kept \in Seq(CachedScans) /\ \E f : Enumerates(f, kept, cache, others)
  BY <1>1, PickOf
<1>3. \A i \in DOMAIN kept : \E k \in others : kept[i] = cache[k]
  BY <1>2 DEF Enumerates
<1>4. \A i \in DOMAIN kept : \E k \in DOMAIN cache : kept[i] = cache[k] /\ cache[k].dir # entry.dir
  BY <1>3
<1>5. Stored(entry) = IF Len(all) > ScanMaxCached THEN Tail(all) ELSE all
  BY DEF Stored, EvictScanCache
<1> HIDE DEF kept
<1>6. /\ all \in Seq(CachedScans) /\ Len(all) = Len(kept) + 1 /\ Len(kept) \in Nat
      /\ DOMAIN kept = 1 .. Len(kept) /\ DOMAIN all = 1 .. Len(kept) + 1
      /\ \A i \in 1 .. Len(kept) : all[i] = kept[i]
      /\ all[Len(kept) + 1] = entry
  BY <1>2
<1> HIDE DEF all
<1>7. \A i \in DOMAIN all :
         \/ all[i] = entry
         \/ \E k \in DOMAIN cache : all[i] = cache[k] /\ cache[k].dir # entry.dir
  <2> TAKE i \in DOMAIN all
  <2>1. i \in 1 .. Len(kept) \/ i = Len(kept) + 1
    BY <1>6
  <2> QED
    BY <1>4, <1>6, <2>1
<1>8. /\ Tail(all) \in Seq(CachedScans)
      /\ \A i \in DOMAIN Tail(all) : i + 1 \in DOMAIN all /\ Tail(all)[i] = all[i + 1]
  <2>1. all # <<>> /\ Len(all) \in Nat /\ Len(all) > 0
    BY <1>6
  <2> QED
    BY <1>6, <2>1
<1>9. CASE Len(all) > ScanMaxCached
  BY <1>5, <1>7, <1>8, <1>9
<1>10. CASE ~ (Len(all) > ScanMaxCached)
  BY <1>5, <1>6, <1>7, <1>10
<1> QED
  BY <1>9, <1>10

\* A scan that ends takes its job out; a payload of older contents than its
\* modification time marks the directory as raced.
LEMMA ScanEndsKeeps ==
    ASSUME ScanInv, NEW j \in JobIds, ScanEnds(j)
    PROVE  ScanInv'
<1> DEFINE d == worker[j].dir
           began == worker[j].began
<1>1. /\ worker[j].pc = "scanning" /\ d \in Dirs /\ began \in Nat /\ contents[d] \in Nat
      /\ began <= contents[d] /\ scanJob[d] = [id |-> j, err |-> FALSE]
  BY DEF ScanEnds, HasSlot, ScanInv, JobsOK, Workers
<1>2. PICK read \in began .. contents[d] :
         cache' = Stored([dir |-> d, modTime |-> contents[d], payload |-> read])
  BY DEF ScanEnds
<1>3. /\ raced' = IF began = contents[d] THEN raced \ {d} ELSE raced \cup {d}
      /\ scanJob' = [scanJob EXCEPT ![d] = NoJob]
      /\ worker' = [worker EXCEPT ![j].pc = "leaving"]
      /\ UNCHANGED <<contents, slotQueue, served, untold>>
  BY DEF ScanEnds
<1> DEFINE entry == [dir |-> d, modTime |-> contents[d], payload |-> read]
<1>4. entry \in CachedScans /\ cache' = Stored(entry)
  BY <1>1, <1>2 DEF CachedScans
<1>5. JobsOK'
  BY <1>1, <1>3, JobLeaves DEF ScanInv
<1>6. CacheOK'
  <2>1. /\ cache' \in Seq(CachedScans)
        /\ \A i \in DOMAIN cache' :
              \/ cache'[i] = entry
              \/ \E k \in DOMAIN cache : cache'[i] = cache[k] /\ cache[k].dir # d
    BY <1>4, StoredHolds
  <2>2. entry.payload = entry.modTime \/ d \in raced'
    BY <1>1, <1>2, <1>3
  <2>3. \A i \in DOMAIN cache' : /\ cache'[i].modTime <= contents[cache'[i].dir]
                                 /\ cache'[i].payload = cache'[i].modTime \/ cache'[i].dir \in raced'
    <3> TAKE i \in DOMAIN cache'
    <3>1. CASE cache'[i] = entry
      BY <1>1, <2>2, <3>1
    <3>2. ASSUME NEW k \in DOMAIN cache, cache'[i] = cache[k], cache[k].dir # d
          PROVE  /\ cache'[i].modTime <= contents[cache'[i].dir]
                 /\ cache'[i].payload = cache'[i].modTime \/ cache'[i].dir \in raced'
      BY <1>3, <3>2 DEF ScanInv, CacheOK
    <3> QED
      BY <2>1, <3>1, <3>2
  <2>4. OnlyRacedScansAreStale'
    BY <1>3 DEF ScanInv, CacheOK, OnlyRacedScansAreStale
  <2> QED
    BY <1>3, <2>1, <2>3, <2>4 DEF CacheOK
<1> QED
  BY <1>5, <1>6 DEF ScanInv

LEMMA CacheStays ==
    ASSUME ScanInv, UNCHANGED <<contents, cache, served, raced>>
    PROVE  CacheOK'
  BY DEF ScanInv, CacheOK, OnlyRacedScansAreStale

LEMMA ScanStep ==
    ASSUME ScanInv, [ScanNext]_scanVars
    PROVE  ScanInv'
<1> USE DEF ScanInv
<1>1. ASSUME NEW d \in Dirs, Edit(d) PROVE ScanInv'
  <2>1. /\ contents' \in [Dirs -> Nat] /\ \A e \in Dirs : contents[e] <= contents'[e]
        /\ UNCHANGED <<scanJob, worker, cache, served, raced, untold>>
    BY <1>1 DEF Edit, JobsOK
  <2>2. JobsOK'
    BY <2>1 DEF JobsOK, FailureToldFirst, Workers
  <2>3. \A i \in DOMAIN cache : cache[i].dir \in Dirs /\ cache[i].modTime \in Nat
    <3>1. cache \in Seq(CachedScans)
      BY DEF CacheOK
    <3>2. \A i \in DOMAIN cache : cache[i] \in CachedScans
      BY <3>1
    <3> QED
      BY <3>2 DEF CachedScans
  <2>4. \A i \in DOMAIN cache : cache[i].modTime <= contents'[cache[i].dir]
    BY <2>1, <2>3 DEF CacheOK, JobsOK
  <2>5. CacheOK'
    BY <2>1, <2>4 DEF CacheOK, OnlyRacedScansAreStale
  <2> QED
    BY <2>2, <2>5
<1>2. ASSUME NEW d \in Dirs, RequestHit(d) PROVE ScanInv'
  <2>1. PICK e \in Hits(d) : served' = [payload |-> e.payload, held |-> contents[d], raced |-> d \in raced]
    BY <1>2 DEF RequestHit
  <2>2. \E i \in DOMAIN cache : e = cache[i] /\ e.dir = d /\ e.modTime = contents[d]
    BY <2>1 DEF Hits, ToSet
  <2>3. e.payload = contents[d] \/ d \in raced
    BY <2>2 DEF CacheOK
  <2>4. CacheOK'
    BY <1>2, <2>1, <2>3 DEF RequestHit, CacheOK, OnlyRacedScansAreStale
  <2>5. JobsOK'
    BY <1>2 DEF RequestHit, JobsOK, FailureToldFirst
  <2> QED
    BY <2>4, <2>5
<1>3. ASSUME NEW d \in Dirs, RequestTold(d) PROVE ScanInv'
  <2>1. JobsOK'
    BY <1>3 DEF RequestTold, JobsOK, FailureToldFirst, NoJob
  <2> QED
    BY <1>3, <2>1, CacheStays DEF RequestTold
<1>4. ASSUME NEW d \in Dirs, RequestAccept(d) PROVE ScanInv'
  <2>1. PICK j \in JobIds :
           /\ \A i \in JobIds : i < j <=> worker[i] # Unborn
           /\ scanJob' = [scanJob EXCEPT ![d] = [id |-> j, err |-> FALSE]]
           /\ worker' = [worker EXCEPT ![j] = [dir |-> d, pc |-> "queued", began |-> 0]]
    BY <1>4 DEF RequestAccept
  <2>2. scanJob[d] = NoJob /\ d \notin untold /\ UNCHANGED <<contents, untold>>
    BY <1>4 DEF RequestAccept, Acceptable, JobsOK, FailureToldFirst, NoJob
  <2>3. \A i \in JobIds : worker[i].pc \in {"queued", "scanning"} => worker[i].dir # d
    <3>1. \A i \in JobIds : i # 0
      BY ScanJobsAssumption DEF JobIds
    <3>2. \A i \in JobIds : [id |-> i, err |-> FALSE].id = i /\ NoJob.id = 0
      BY DEF NoJob
    <3>3. \A i \in JobIds : [id |-> i, err |-> FALSE] # NoJob
      BY <3>1, <3>2
    <3> QED
      BY <2>2, <3>3 DEF JobsOK
  <2>4. j \in Nat
    BY ScanJobsAssumption DEF JobIds
  <2>5. JobsOK'
    <3>1. /\ scanJob' \in [Dirs -> [id : Nat, err : BOOLEAN]] /\ worker' \in [JobIds -> Workers]
          /\ scanJob'[d] = [id |-> j, err |-> FALSE]
          /\ \A e \in Dirs \ {d} : scanJob'[e] = scanJob[e]
          /\ worker'[j] = [dir |-> d, pc |-> "queued", began |-> 0]
          /\ \A i \in JobIds \ {j} : worker'[i] = worker[i]
      BY <2>1, <2>4 DEF JobsOK, Workers
    <3>2. FailureToldFirst'
      BY <2>2, <3>1 DEF JobsOK, FailureToldFirst
    <3> QED
      <4> SUFFICES ASSUME NEW i \in JobIds, worker'[i].pc \in {"queued", "scanning"}
                   PROVE  /\ worker'[i].dir \in Dirs
                          /\ scanJob'[worker'[i].dir] = [id |-> i, err |-> FALSE]
                          /\ worker'[i].began <= contents'[worker'[i].dir]
        BY <2>2, <3>1, <3>2 DEF JobsOK
      <4>1. CASE i = j
        <5>1. worker'[i].dir = d /\ worker'[i].began = 0
          BY <3>1, <4>1
        <5>2. contents'[d] \in Nat
          BY <2>2 DEF JobsOK
        <5>3. scanJob'[d] = [id |-> i, err |-> FALSE]
          BY <3>1, <4>1
        <5>4. 0 <= contents'[d]
          BY <5>2
        <5> QED
          BY <5>1, <5>3, <5>4
      <4>2. CASE i # j
        BY <2>2, <2>3, <3>1, <4>2 DEF JobsOK
      <4> QED
        BY <4>1, <4>2
  <2> QED
    BY <1>4, <2>5, CacheStays DEF RequestAccept
<1>5. ASSUME NEW j \in JobIds, WorkerStep(j) PROVE ScanInv'
  <2>1. CASE WorkerReuses(j)
    <3>1. JobsOK'
      BY <2>1, JobLeaves DEF WorkerReuses, HasSlot
    <3> QED
      BY <2>1, <3>1, CacheStays DEF WorkerReuses
  <2>2. CASE WorkerScans(j)
    <3>1. JobsOK'
      <4> DEFINE d == worker[j].dir
                 moved == [worker[j] EXCEPT !.pc = "scanning", !.began = contents[d]]
      <4>1. d \in Dirs /\ contents[d] \in Nat /\ worker[j] \in Workers
        BY <2>2 DEF WorkerScans, HasSlot, JobsOK
      <4>2. moved \in Workers /\ moved.dir = d /\ moved.began = contents[d]
        BY <4>1 DEF Workers
      <4>3. worker' = [worker EXCEPT ![j] = moved] /\ UNCHANGED <<contents, scanJob, untold>>
        BY <2>2 DEF WorkerScans, JobsOK
      <4>4. worker[j].pc = "queued"
        BY <2>2 DEF WorkerScans, HasSlot
      <4> HIDE DEF moved
      <4> QED
        BY <4>1, <4>2, <4>3, <4>4 DEF JobsOK, FailureToldFirst
    <3> QED
      BY <2>2, <3>1, CacheStays DEF WorkerScans
  <2>3. CASE ScanFails(j)
    <3>1. JobsOK'
      <4> DEFINE d == worker[j].dir
      <4>1. worker[j].pc = "scanning" /\ d \in Dirs
        BY <2>3 DEF ScanFails, HasSlot, JobsOK
      <4>2. /\ worker' \in [JobIds -> Workers] /\ worker'[j].pc = "leaving"
            /\ \A i \in JobIds \ {j} : worker'[i] = worker[i]
        BY <2>3, WorkerMoves DEF ScanFails, JobsOK
      <4>3. /\ scanJob' \in [Dirs -> [id : Nat, err : BOOLEAN]] /\ scanJob'[d].err
            /\ \A e \in Dirs \ {d} : scanJob'[e] = scanJob[e]
            /\ untold' = untold \cup {d} /\ UNCHANGED contents
        BY <2>3, <4>1 DEF ScanFails, JobsOK
      <4>4. \A i \in JobIds \ {j} : worker[i].pc \in {"queued", "scanning"} => worker[i].dir # d
        BY <4>1, OneJobPerDirectory
      <4> HIDE DEF d
      <4>5. FailureToldFirst'
        BY <4>1, <4>3 DEF JobsOK, FailureToldFirst
      <4> QED
        BY <4>1, <4>2, <4>3, <4>4, <4>5 DEF JobsOK
    <3> QED
      BY <2>3, <3>1, CacheStays DEF ScanFails
  <2>4. CASE ScanEnds(j)
    BY <2>4, ScanEndsKeeps
  <2>5. CASE ReleaseSlot(j)
    <3>1. JobsOK'
      <4>1. /\ worker' \in [JobIds -> Workers] /\ worker'[j].pc = "gone"
            /\ \A i \in JobIds \ {j} : worker'[i] = worker[i]
        BY <2>5, WorkerMoves DEF ReleaseSlot, JobsOK
      <4> QED
        BY <2>5, <4>1 DEF ReleaseSlot, JobsOK, FailureToldFirst
    <3> QED
      BY <2>5, <3>1, CacheStays DEF ReleaseSlot
  <2> QED
    BY <1>5, <2>1, <2>2, <2>3, <2>4, <2>5 DEF WorkerStep
<1>6. CASE UNCHANGED scanVars
  BY <1>6, CacheStays DEF scanVars, JobsOK, FailureToldFirst
<1> QED
  BY <1>1, <1>2, <1>3, <1>4, <1>5, <1>6 DEF ScanNext, RequestScan

\* requestScan serves no payload older than the directory unless the directory
\* changed under the scan, and tells a failure first (scanjob.go).
THEOREM ScanAnswersAreHonest == ScanSpec => []ScanAnswersHold
<1>1. ScanInv => ScanAnswersHold
  BY DEF ScanInv, JobsOK, CacheOK, ScanAnswersHold
<1> QED
  BY ScanInitially, ScanStep, <1>1, PTL DEF ScanSpec

-----------------------------------------------------------------------------
(* Self-update (UpdateApply)                                                *)

(* Where swapInto and its rollback are.                                    *)
Swapping == phase \in {"swap", "move", "rollback"}

\* An entry the loop has passed: replaced, with the old one kept, or skipped.
Passed(e) ==
    IF e \in swapped
    THEN target[e] = pending /\ (before[e] # Absent => aside[e] = before[e])
    ELSE target[e] = before[e]

Position ==
    /\ phase = "swap" => at >= 1
    /\ phase = "move" => at \in Entries
    /\ phase = "rollback" => at <= N
    /\ Swapping \/ phase = "mark" => pending \in Versions /\ record.version = pending

\* Forwards: what was passed, what is being moved, and what is still to come.
\* No required entry to come has left the staging tree.
Forward ==
    phase \in {"swap", "move"} =>
        /\ ~ slipped
        /\ swapped \subseteq 1 .. at - 1
        /\ \A e \in Entries : e < at => Passed(e)
        /\ \A e \in Entries : e > at => target[e] = before[e]
        /\ \A e \in Required : IF e < at THEN e \in swapped ELSE e \in staged[pending]
        /\ phase = "swap" /\ at \in Entries => target[at] = before[at]
        /\ phase = "move" =>
              /\ target[at] = Absent
              /\ had = (before[at] # Absent)
              /\ had => aside[at] = before[at]

\* Backwards: what is still to undo, and what is undone.
Backward ==
    phase = "rollback" /\ ~ slipped =>
        \A e \in Entries :
            IF e <= at THEN Passed(e) ELSE before[e] # Absent => target[e] = before[e]

\* A whole swap put every required entry of its version in place.
Whole ==
    phase \in {"mark", "record", "exit"} =>
        \A e \in Required : target[e] = record.version

\* The required entries are of one version, the running executable's.
Together ==
    clean =>
        /\ phase \in {"boot", "open", "running"} => \A e \in Required : target[e] = image
        /\ phase = "down" => \A e \in Required : target[e] = target[Exe]
        /\ Swapping => ~ slipped /\ \A e \in Required : before[e] = image

\* Inductive: NextStep.
UpdateInv == TypeOK /\ Position /\ Forward /\ Backward /\ Whole /\ Together

\* What the two special contents are not.
LEMMA Values ==
    /\ Absent \in Contents /\ Torn \in Contents /\ Absent # Torn
    /\ \A v \in Versions : v \in Contents /\ v \in 0 .. MaxVersion /\ v # 0 /\ v # Absent
    /\ \A v \in 0 .. MaxVersion : v # 0 => v \in Versions
    /\ 0 \in 0 .. MaxVersion
  BY UpdateApplyAssumption, SMTT(20) DEF Absent, Torn, Contents, Versions

\* A fresh install satisfies the invariant.
LEMMA InitInv == Init => UpdateInv
<1> SUFFICES ASSUME Init PROVE UpdateInv
  OBVIOUS
<1> USE UpdateApplyAssumption, Values DEF Init, NoInstall
<1>1. TypeOK
  <2>1. record \in Records
    BY SMTT(20) DEF NoRecord, Records
  <2>2. had \in BOOLEAN /\ slipped \in BOOLEAN /\ clean \in BOOLEAN
    BY Zenon
  <2>3. /\ target \in [Entries -> Contents] /\ 1 \in Versions
        /\ staged \in [Versions -> SUBSET Entries]
    BY SMTT(20) DEF Versions
  <2> QED
    BY <2>1, <2>2, <2>3, SMTT(20) DEF TypeOK, Entries
<1>2. Position /\ Forward /\ Backward /\ Whole
  BY SMTT(20) DEF Position, Forward, Backward, Whole, Swapping
<1>3. Together
  BY SMTT(20) DEF Together, Swapping
<1> QED
  BY <1>1, <1>2, <1>3 DEF UpdateInv

\* Staging writes the tree and the marker only: the install is not touched.
LEMMA StageVersionStep ==
    ASSUME UpdateInv, NEW v \in Versions, NEW tree \in SUBSET Entries,
           StageVersion(v, tree)
    PROVE  UpdateInv'
<1> USE UpdateApplyAssumption, Values DEF StageVersion, Offered, files, job, Entries
<1>1. TypeOK'
  BY SMTT(20) DEF UpdateInv, TypeOK, Position
<1>2. (Position /\ Forward /\ Backward)'
  BY SMTT(20) DEF UpdateInv, TypeOK, Position, Forward, Backward, Passed, Swapping
<1>3. (Whole /\ Together)'
  BY SMTT(20) DEF UpdateInv, TypeOK, Position, Forward, Backward, Whole, Together, Swapping
<1> QED
  BY <1>1, <1>2, <1>3 DEF UpdateInv

\* Staging given up leaves a tree without a marker.
LEMMA StageAbandonedStep ==
    ASSUME UpdateInv, NEW v \in Versions, NEW tree \in SUBSET Entries,
           StageAbandoned(v, tree)
    PROVE  UpdateInv'
<1> USE UpdateApplyAssumption, Values DEF StageAbandoned, Offered, files, job, Entries
<1>1. TypeOK'
  BY SMTT(20) DEF UpdateInv, TypeOK, Position
<1>2. (Position /\ Forward /\ Backward)'
  BY SMTT(20) DEF UpdateInv, TypeOK, Position, Forward, Backward, Passed, Swapping
<1>3. (Whole /\ Together)'
  BY SMTT(20) DEF UpdateInv, TypeOK, Position, Forward, Backward, Whole, Together, Swapping
<1> QED
  BY <1>1, <1>2, <1>3 DEF UpdateInv

\* Quitting changes no file.
LEMMA QuitStep ==
    ASSUME UpdateInv, Quit
    PROVE  UpdateInv'
<1> USE UpdateApplyAssumption, Values DEF Quit, files, job, Entries
<1>1. TypeOK'
  BY SMTT(20) DEF UpdateInv, TypeOK, Position
<1>2. (Position /\ Forward /\ Backward)'
  BY SMTT(20) DEF UpdateInv, TypeOK, Position, Forward, Backward, Passed, Swapping
<1>3. (Whole /\ Together)'
  BY SMTT(20) DEF UpdateInv, TypeOK, Position, Forward, Backward, Whole, Together, Swapping
<1> QED
  BY <1>1, <1>2, <1>3 DEF UpdateInv

\* A launch runs the installed executable, the required entries with it.
LEMMA LaunchStep ==
    ASSUME UpdateInv, Launch
    PROVE  UpdateInv'
<1> USE UpdateApplyAssumption, Values DEF Launch, Boot, files, job, Entries
<1>1. TypeOK'
  BY SMTT(20) DEF UpdateInv, TypeOK, Position
<1>2. (Position /\ Forward /\ Backward)'
  BY SMTT(20) DEF UpdateInv, TypeOK, Position, Forward, Backward, Passed, Swapping
<1>3. (Whole /\ Together)'
  BY SMTT(20) DEF UpdateInv, TypeOK, Position, Forward, Backward, Whole, Together, Swapping
<1> QED
  BY <1>1, <1>2, <1>3 DEF UpdateInv

\* update.restart runs the installed executable as well.
LEMMA RestartStep ==
    ASSUME UpdateInv, Restart
    PROVE  UpdateInv'
<1> USE UpdateApplyAssumption, Values DEF Restart, Boot, files, job, Entries
<1>1. TypeOK'
  BY SMTT(20) DEF UpdateInv, TypeOK, Position
<1>2. (Position /\ Forward /\ Backward)'
  BY SMTT(20) DEF UpdateInv, TypeOK, Position, Forward, Backward, Passed, Swapping
<1>3. (Whole /\ Together)'
  BY SMTT(20) DEF UpdateInv, TypeOK, Position, Forward, Backward, Whole, Together, Swapping
<1> QED
  BY <1>1, <1>2, <1>3 DEF UpdateInv

\* The sweep removes .old copies and staging trees, never an entry.
LEMMA CleanupAfterLaunchStep ==
    ASSUME UpdateInv, NEW kept \in SUBSET Entries, CleanupAfterLaunch(kept)
    PROVE  UpdateInv'
<1> USE UpdateApplyAssumption, Values DEF CleanupAfterLaunch, Fault, files, job, Entries
<1>1. TypeOK'
  <2>1. faults' \in 0 .. MaxFaults
    <3>1. CASE kept = {}
      BY <3>1, SMTT(20) DEF UpdateInv, TypeOK, Position
    <3>2. CASE kept # {}
      BY <3>2, SMTT(20) DEF UpdateInv, TypeOK, Position
    <3> QED
      BY <3>1, <3>2
  <2> QED
    BY <2>1, SMTT(20) DEF UpdateInv, TypeOK, Position
<1>2. (Position /\ Forward /\ Backward)'
  BY SMTT(20) DEF UpdateInv, TypeOK, Position, Forward, Backward, Passed, Swapping
<1>3. (Whole /\ Together)'
  BY SMTT(20) DEF UpdateInv, TypeOK, Position, Forward, Backward, Whole, Together, Swapping
<1> QED
  BY <1>1, <1>2, <1>3 DEF UpdateInv

\* An incomplete tree is dropped before any entry is touched.
LEMMA DiscardStagedStep ==
    ASSUME UpdateInv, NEW rest \in SUBSET Entries, NEW marker \in {0, pending},
           DiscardStaged(rest, marker)
    PROVE  UpdateInv'
<1> USE UpdateApplyAssumption, Values DEF DiscardStaged, Fault, Attempted, files, job, Entries
<1>1. TypeOK'
  <2>1. record' \in Records
    BY SMTT(20) DEF UpdateInv, TypeOK, Position, Records
  <2>2. faults' \in 0 .. MaxFaults
    <3>1. CASE rest = {} /\ marker = 0
      BY <3>1, SMTT(20) DEF UpdateInv, TypeOK, Position
    <3>2. CASE ~ (rest = {} /\ marker = 0)
      BY <3>2, SMTT(20) DEF UpdateInv, TypeOK, Position
    <3> QED
      BY <3>1, <3>2
  <2> QED
    BY <2>1, <2>2, SMTT(20) DEF UpdateInv, TypeOK, Position
<1>2. (Position /\ Forward /\ Backward)'
  BY SMTT(20) DEF UpdateInv, TypeOK, Position, Forward, Backward, Passed, Swapping
<1>3. (Whole /\ Together)'
  BY SMTT(20) DEF UpdateInv, TypeOK, Position, Forward, Backward, Whole, Together, Swapping
<1> QED
  BY <1>1, <1>2, <1>3 DEF UpdateInv

\* The swap begins with every required entry in the staging tree.
LEMMA ApplyPendingStep ==
    ASSUME UpdateInv, ApplyPending
    PROVE  UpdateInv'
<1> USE UpdateApplyAssumption, Values DEF ApplyPending, Attempted, Valid, files, job, Entries
<1>1. TypeOK'
  <2>1. record' \in Records
    BY SMTT(20) DEF UpdateInv, TypeOK, Position, Records
  <2>2. had' \in BOOLEAN /\ slipped' \in BOOLEAN
    BY Zenon DEF UpdateInv, TypeOK, Position
  <2> QED
    BY <2>1, <2>2, SMTT(20) DEF UpdateInv, TypeOK, Position
<1>2. (Position /\ Forward /\ Backward)'
  BY SMTT(20) DEF UpdateInv, TypeOK, Position, Forward, Backward, Passed, Swapping
<1>3. (Whole /\ Together)'
  BY SMTT(20) DEF UpdateInv, TypeOK, Position, Forward, Backward, Whole, Together, Swapping
<1> QED
  BY <1>1, <1>2, <1>3 DEF UpdateInv

\* Only an entry the release omits is skipped, so never a required one.
LEMMA SkipEntryStep ==
    ASSUME UpdateInv, SkipEntry
    PROVE  UpdateInv'
<1> USE UpdateApplyAssumption, Values DEF SkipEntry, files, job, Entries
<1>1. TypeOK'
  BY SMTT(20) DEF UpdateInv, TypeOK, Position
<1>2. (Position /\ Forward /\ Backward)'
  BY SMTT(20) DEF UpdateInv, TypeOK, Position, Forward, Backward, Passed, Swapping
<1>3. (Whole /\ Together)'
  BY SMTT(20) DEF UpdateInv, TypeOK, Position, Forward, Backward, Whole, Together, Swapping
<1> QED
  BY <1>1, <1>2, <1>3 DEF UpdateInv

\* The entry put aside is the one the install had.
LEMMA PutAsideStep ==
    ASSUME UpdateInv, PutAside
    PROVE  UpdateInv'
<1> USE UpdateApplyAssumption, Values DEF PutAside, files, job, Entries
<1>1. TypeOK'
  <2>1. /\ target' \in [Entries -> Contents]
        /\ aside' \in [Entries -> Contents]
    <3>1. CASE target[at] # Absent
      BY <3>1, SMTT(20) DEF UpdateInv, TypeOK, Position
    <3>2. CASE target[at] = Absent
      BY <3>2, SMTT(20) DEF UpdateInv, TypeOK, Position
    <3> QED
      BY <3>1, <3>2
  <2> QED
    BY <2>1, SMTT(20) DEF UpdateInv, TypeOK, Position
<1>2. Position'
  BY SMTT(20) DEF UpdateInv, TypeOK, Position, Swapping
<1>3. Forward'
  BY SMTT(20) DEF UpdateInv, TypeOK, Position, Forward, Passed, Swapping
<1>4. Backward'
  BY SMTT(20) DEF UpdateInv, TypeOK, Position, Forward, Backward, Passed, Swapping
<1>5. Whole'
  BY SMTT(20) DEF UpdateInv, TypeOK, Position, Forward, Whole, Passed, Swapping
<1>6. Together'
  BY SMTT(20) DEF UpdateInv, TypeOK, Position, Forward, Backward, Whole, Together, Swapping
<1> QED
  BY <1>1, <1>2, <1>3, <1>4, <1>5, <1>6 DEF UpdateInv

\* Past the last entry, every required one has been moved in.
LEMMA SwapDoneStep ==
    ASSUME UpdateInv, SwapDone
    PROVE  UpdateInv'
<1> USE UpdateApplyAssumption, Values DEF SwapDone, SwapEnds, NoInstall, files, job, Entries
<1>1. TypeOK'
  <2>1. had' \in BOOLEAN /\ slipped' \in BOOLEAN
    BY Zenon DEF UpdateInv, TypeOK, Position
  <2> QED
    BY <2>1, SMTT(20) DEF UpdateInv, TypeOK, Position
<1>2. (Position /\ Forward /\ Backward)'
  BY SMTT(20) DEF UpdateInv, TypeOK, Position, Forward, Backward, Passed, Swapping
<1>3. (Whole /\ Together)'
  BY SMTT(20) DEF UpdateInv, TypeOK, Position, Forward, Backward, Whole, Together, Swapping, Passed
<1> QED
  BY <1>1, <1>2, <1>3 DEF UpdateInv

\* The entry that could not be put aside is where it was.
LEMMA PutAsideFailsStep ==
    ASSUME UpdateInv, NEW stale \in Contents, PutAsideFails(stale)
    PROVE  UpdateInv'
<1> USE UpdateApplyAssumption, Values DEF PutAsideFails, Fault, files, job, Entries
<1>1. TypeOK'
  <2>1. aside' \in [Entries -> Contents]
    BY SMTT(20) DEF UpdateInv, TypeOK, Position
  <2> QED
    BY <2>1, SMTT(20) DEF UpdateInv, TypeOK, Position
<1>2. (Position /\ Forward /\ Backward)'
  BY SMTT(20) DEF UpdateInv, TypeOK, Position, Forward, Backward, Passed, Swapping
<1>3. (Whole /\ Together)'
  BY SMTT(20) DEF UpdateInv, TypeOK, Position, Forward, Backward, Whole, Together, Swapping
<1> QED
  BY <1>1, <1>2, <1>3 DEF UpdateInv

\* The entry moved in is passed; the ones to come stay staged.
LEMMA MovePathStep ==
    ASSUME UpdateInv, NEW copied \in BOOLEAN, MovePath(copied)
    PROVE  UpdateInv'
<1> USE UpdateApplyAssumption, Values DEF MovePath, files, job, Entries
<1>1. TypeOK'
  <2>1. staged' \in [Versions -> SUBSET Entries]
    <3>1. CASE copied
      BY <3>1, SMTT(20) DEF UpdateInv, TypeOK, Position
    <3>2. CASE ~ copied
      <4>1. staged' = [staged EXCEPT ![pending] = staged[pending] \ {at}]
        BY <3>2
      <4>2. staged \in [Versions -> SUBSET Entries] /\ pending \in Versions
        BY DEF UpdateInv, TypeOK, Position, Swapping
      <4> QED
        BY <4>1, <4>2, Zenon
    <3> QED
      BY <3>1, <3>2
  <2> QED
    BY <2>1, SMTT(20) DEF UpdateInv, TypeOK, Position, Swapping
<1>2. Position'
  BY SMTT(20) DEF UpdateInv, TypeOK, Position, Swapping
<1>3. Forward'
  <2>1. swapped' \subseteq 1 .. at' - 1 /\ ~ slipped'
    BY SMTT(20) DEF UpdateInv, TypeOK, Position, Forward
  <2>2. ASSUME NEW e \in Entries, e < at'
        PROVE  Passed(e)'
    <3>1. CASE e = at
      <4>1. before[at] # Absent => aside[at] = before[at]
        BY Zenon DEF UpdateInv, Forward
      <4> QED
        BY <3>1, <4>1, SMTT(20) DEF UpdateInv, TypeOK, Position, Passed
    <3>2. CASE e # at
      <4>1. Passed(e) /\ target'[e] = target[e]
        BY <2>2, <3>2, SMTT(20) DEF UpdateInv, TypeOK, Position, Forward
      <4> QED
        BY <3>2, <4>1, SMTT(20) DEF Passed
    <3> QED
      BY <3>1, <3>2
  <2>3. \A e \in Entries : e >= at' => target'[e] = before'[e]
    BY SMTT(20) DEF UpdateInv, TypeOK, Position, Forward
  <2>4. ASSUME NEW e \in Required
        PROVE  IF e < at' THEN e \in swapped' ELSE e \in staged'[pending']
    <3>1. CASE e < at'
      BY <3>1, SMTT(20) DEF UpdateInv, TypeOK, Position, Forward
    <3>2. CASE ~ (e < at')
      <4>1. e \in staged[pending] /\ e # at
        BY <3>2, SMTT(20) DEF UpdateInv, TypeOK, Position, Forward
      <4>2. staged \in [Versions -> SUBSET Entries] /\ pending \in Versions
        BY DEF UpdateInv, TypeOK, Position, Swapping
      <4>3. CASE copied
        BY <3>2, <4>1, <4>3
      <4>4. CASE ~ copied
        BY <3>2, <4>1, <4>2, <4>4
      <4> QED
        BY <4>3, <4>4
    <3> QED
      BY <3>1, <3>2
  <2> QED
    BY <2>1, <2>2, <2>3, <2>4, SMTT(20) DEF Forward, UpdateInv, TypeOK
<1>4. Backward'
  BY SMTT(20) DEF UpdateInv, TypeOK, Position, Forward, Backward, Passed, Swapping
<1>5. Whole'
  BY SMTT(20) DEF UpdateInv, TypeOK, Position, Forward, Whole, Passed, Swapping
<1>6. Together'
  BY SMTT(20) DEF UpdateInv, TypeOK, Position, Forward, Backward, Whole, Together, Swapping
<1> QED
  BY <1>1, <1>2, <1>3, <1>4, <1>5, <1>6 DEF UpdateInv

\* The entry that could not be moved in is renamed back, or the undoing slipped.
LEMMA MovePathFailsStep ==
    ASSUME UpdateInv, NEW left \in {Absent, Torn}, NEW back \in BOOLEAN,
           MovePathFails(left, back)
    PROVE  UpdateInv'
<1> USE UpdateApplyAssumption, Values DEF MovePathFails, Fault, files, job, Entries
<1>1. TypeOK'
  BY SMTT(20) DEF UpdateInv, TypeOK, Position
<1>2. Position'
  BY SMTT(20) DEF UpdateInv, TypeOK, Position, Swapping
<1>3. Forward'
  BY SMTT(20) DEF UpdateInv, TypeOK, Position, Forward, Passed, Swapping
<1>4. Backward'
  <2> SUFFICES ASSUME ~ slipped', NEW e \in Entries
               PROVE  IF e <= at - 1 THEN Passed(e)'
                      ELSE before[e] # Absent => target'[e] = before[e]
    BY SMTT(20) DEF Backward, UpdateInv, TypeOK
  <2>1. CASE e = at
    <3>1. CASE had
      <4>1. back
        BY <3>1, Zenon DEF UpdateInv, TypeOK
      <4>2. aside[at] = before[at]
        BY <3>1, Zenon DEF UpdateInv, Forward
      <4> QED
        BY <2>1, <4>1, <4>2, SMTT(20) DEF UpdateInv, TypeOK, Position
    <3>2. CASE ~ had
      <4>1. before[at] = Absent
        BY <3>2, Zenon DEF UpdateInv, Forward
      <4> QED
        BY <2>1, <4>1, SMTT(20) DEF UpdateInv, TypeOK, Position
    <3> QED
      BY <3>1, <3>2
  <2>2. CASE e # at
    <3>1. target'[e] = target[e] /\ aside'[e] = aside[e]
      <4>1. CASE back
        BY <2>2, <4>1, SMTT(20) DEF UpdateInv, TypeOK, Position
      <4>2. CASE ~ back
        BY <2>2, <4>2, SMTT(20) DEF UpdateInv, TypeOK, Position
      <4> QED
        BY <4>1, <4>2
    <3>2. IF e <= at - 1 THEN Passed(e) ELSE target[e] = before[e]
      BY <2>2, SMTT(20) DEF UpdateInv, TypeOK, Position, Forward
    <3> QED
      BY <3>1, <3>2, SMTT(20) DEF Passed
  <2> QED
    BY <2>1, <2>2
<1>5. Whole'
  BY SMTT(20) DEF UpdateInv, TypeOK, Position, Forward, Whole, Passed, Swapping
<1>6. Together'
  BY SMTT(20) DEF UpdateInv, TypeOK, Position, Forward, Backward, Whole, Together, Swapping
<1> QED
  BY <1>1, <1>2, <1>3, <1>4, <1>5, <1>6 DEF UpdateInv

\* The rollback puts back what was put aside, one entry at a time.
LEMMA RestoreEntryStep ==
    ASSUME UpdateInv, RestoreEntry
    PROVE  UpdateInv'
<1> USE UpdateApplyAssumption, Values DEF RestoreEntry, files, job, Entries
<1>1. TypeOK'
  <2>1. /\ target' \in [Entries -> Contents]
        /\ aside' \in [Entries -> Contents]
    <3>1. CASE Restorable
      BY <3>1, SMTT(20) DEF UpdateInv, TypeOK, Position, Restorable
    <3>2. CASE ~ Restorable
      BY <3>2, SMTT(20) DEF UpdateInv, TypeOK, Position
    <3> QED
      BY <3>1, <3>2
  <2> QED
    BY <2>1, SMTT(20) DEF UpdateInv, TypeOK, Position
<1>2. Position'
  BY SMTT(20) DEF UpdateInv, TypeOK, Position, Swapping, Restorable
<1>3. Forward'
  BY SMTT(20) DEF UpdateInv, TypeOK, Position, Forward, Passed, Swapping, Restorable
<1>4. Backward'
  <2> SUFFICES ASSUME ~ slipped, NEW e \in Entries
               PROVE  IF e <= at - 1 THEN Passed(e)'
                      ELSE before[e] # Absent => target'[e] = before[e]
    BY SMTT(20) DEF Backward, UpdateInv, TypeOK
  <2>1. CASE e = at
    <3>1. Passed(e)
      BY <2>1, SMTT(20) DEF UpdateInv, TypeOK, Position, Backward
    <3>2. CASE Restorable
      BY <2>1, <3>1, <3>2, SMTT(20) DEF UpdateInv, TypeOK, Position, Passed, Restorable
    <3>3. CASE ~ Restorable
      BY <2>1, <3>1, <3>3, SMTT(20) DEF UpdateInv, TypeOK, Position, Passed, Restorable
    <3> QED
      BY <3>2, <3>3
  <2>2. CASE e # at
    <3>1. target'[e] = target[e] /\ aside'[e] = aside[e]
      <4>1. CASE Restorable
        BY <2>2, <4>1, SMTT(20) DEF UpdateInv, TypeOK, Position
      <4>2. CASE ~ Restorable
        BY <4>2, SMTT(20) DEF UpdateInv, TypeOK, Position
      <4> QED
        BY <4>1, <4>2
    <3>2. e <= at - 1 <=> e <= at
      BY <2>2, SMTT(20) DEF UpdateInv, TypeOK, Position
    <3>3. IF e <= at THEN Passed(e) ELSE before[e] # Absent => target[e] = before[e]
      BY SMTT(20) DEF UpdateInv, Backward
    <3> QED
      BY <3>1, <3>2, <3>3, SMTT(20) DEF Passed
  <2> QED
    BY <2>1, <2>2
<1>5. Whole'
  BY SMTT(20) DEF UpdateInv, TypeOK, Position, Forward, Whole, Passed, Swapping, Restorable
<1>6. Together'
  BY SMTT(20) DEF UpdateInv, TypeOK, Position, Forward, Backward, Whole, Together, Swapping, Restorable
<1> QED
  BY <1>1, <1>2, <1>3, <1>4, <1>5, <1>6 DEF UpdateInv

\* With the first entry undone, the install is what it was.
LEMMA RollbackDoneStep ==
    ASSUME UpdateInv, RollbackDone
    PROVE  UpdateInv'
<1> USE UpdateApplyAssumption, Values DEF RollbackDone, Attempted, SwapEnds, NoInstall, files, job, Entries
<1>1. TypeOK'
  <2>1. record' \in Records
    BY SMTT(20) DEF UpdateInv, TypeOK, Position, Records
  <2>2. had' \in BOOLEAN /\ slipped' \in BOOLEAN
    BY Zenon DEF UpdateInv, TypeOK, Position
  <2> QED
    BY <2>1, <2>2, SMTT(20) DEF UpdateInv, TypeOK, Position
<1>2. (Position /\ Forward /\ Backward)'
  BY SMTT(20) DEF UpdateInv, TypeOK, Position, Forward, Backward, Passed, Swapping
<1>3. (Whole /\ Together)'
  BY SMTT(20) DEF UpdateInv, TypeOK, Position, Forward, Backward, Whole, Together, Swapping
<1> QED
  BY <1>1, <1>2, <1>3 DEF UpdateInv

\* A call of the rollback that fails makes the undoing slip.
LEMMA RestoreEntryFailsStep ==
    ASSUME UpdateInv, NEW left \in Contents, RestoreEntryFails(left)
    PROVE  UpdateInv'
<1> USE UpdateApplyAssumption, Values DEF RestoreEntryFails, Fault, files, job, Entries
<1>1. TypeOK'
  <2>1. slipped' \in BOOLEAN /\ clean' \in BOOLEAN
    BY Zenon DEF UpdateInv, TypeOK, Position
  <2>2. Restorable => at \in Entries
    BY SMTT(20) DEF UpdateInv, TypeOK, Position, Restorable
  <2> QED
    BY <2>1, <2>2, SMTT(20) DEF UpdateInv, TypeOK, Position
<1>2. (Position /\ Forward /\ Backward)'
  BY SMTT(20) DEF UpdateInv, TypeOK, Position, Forward, Backward, Passed, Swapping, Restorable
<1>3. (Whole /\ Together)'
  BY SMTT(20) DEF UpdateInv, TypeOK, Position, Forward, Backward, Whole, Together, Swapping
<1> QED
  BY <1>1, <1>2, <1>3 DEF UpdateInv

\* Clearing the marker leaves the new entries in place.
LEMMA ClearMarkerStep ==
    ASSUME UpdateInv, NEW marker \in {0, pending}, ClearMarker(marker)
    PROVE  UpdateInv'
<1> USE UpdateApplyAssumption, Values DEF ClearMarker, Fault, files, job, Entries
<1>1. TypeOK'
  <2>1. faults' \in 0 .. MaxFaults
    <3>1. CASE marker = 0
      BY <3>1, SMTT(20) DEF UpdateInv, TypeOK, Position
    <3>2. CASE ~ (marker = 0)
      BY <3>2, SMTT(20) DEF UpdateInv, TypeOK, Position
    <3> QED
      BY <3>1, <3>2
  <2> QED
    BY <2>1, SMTT(20) DEF UpdateInv, TypeOK, Position
<1>2. (Position /\ Forward /\ Backward)'
  BY SMTT(20) DEF UpdateInv, TypeOK, Position, Forward, Backward, Passed, Swapping
<1>3. (Whole /\ Together)'
  BY SMTT(20) DEF UpdateInv, TypeOK, Position, Forward, Backward, Whole, Together, Swapping
<1> QED
  BY <1>1, <1>2, <1>3 DEF UpdateInv

\* The record names the version in place.
LEMMA RecordAppliedStep ==
    ASSUME UpdateInv, RecordApplied
    PROVE  UpdateInv'
<1> USE UpdateApplyAssumption, Values DEF RecordApplied, files, job, Entries
<1>1. TypeOK'
  <2>1. record' \in Records
    <3>1. record \in Records /\ record' = [record EXCEPT !.outcome = "applied"]
      BY DEF UpdateInv, TypeOK
    <3> QED
      BY <3>1, Zenon DEF Records
  <2> QED
    BY <2>1, SMTT(20) DEF UpdateInv, TypeOK, Position
<1>2. (Position /\ Forward /\ Backward)'
  BY SMTT(20) DEF UpdateInv, TypeOK, Position, Forward, Backward, Passed, Swapping
<1>3. (Whole /\ Together)'
  BY SMTT(20) DEF UpdateInv, TypeOK, Position, Forward, Backward, Whole, Together, Swapping
<1> QED
  BY <1>1, <1>2, <1>3 DEF UpdateInv

\* The relaunched shell runs the new executable.
LEMMA RelaunchStep ==
    ASSUME UpdateInv, Relaunch
    PROVE  UpdateInv'
<1> USE UpdateApplyAssumption, Values DEF Relaunch, Boot, files, job, Entries
<1>1. TypeOK'
  BY SMTT(20) DEF UpdateInv, TypeOK, Position
<1>2. (Position /\ Forward /\ Backward)'
  BY SMTT(20) DEF UpdateInv, TypeOK, Position, Forward, Backward, Passed, Swapping
<1>3. (Whole /\ Together)'
  BY SMTT(20) DEF UpdateInv, TypeOK, Position, Forward, Backward, Whole, Together, Swapping
<1> QED
  BY <1>1, <1>2, <1>3 DEF UpdateInv

\* A relaunch that fails leaves the install whole.
LEMMA RelaunchFailsStep ==
    ASSUME UpdateInv, RelaunchFails
    PROVE  UpdateInv'
<1> USE UpdateApplyAssumption, Values DEF RelaunchFails, Fault, files, job, Entries
<1>1. TypeOK'
  BY SMTT(20) DEF UpdateInv, TypeOK, Position
<1>2. (Position /\ Forward /\ Backward)'
  BY SMTT(20) DEF UpdateInv, TypeOK, Position, Forward, Backward, Passed, Swapping
<1>3. (Whole /\ Together)'
  BY SMTT(20) DEF UpdateInv, TypeOK, Position, Forward, Backward, Whole, Together, Swapping
<1> QED
  BY <1>1, <1>2, <1>3 DEF UpdateInv

\* Logging the record touches no entry.
LEMMA LogApplyRecordStep ==
    ASSUME UpdateInv, LogApplyRecord
    PROVE  UpdateInv'
<1> USE UpdateApplyAssumption, Values DEF LogApplyRecord, NoRecord, files, job, Entries
<1>1. TypeOK'
  <2>1. record' \in Records
    BY SMTT(20) DEF UpdateInv, TypeOK, Position, Records
  <2> QED
    BY <2>1, SMTT(20) DEF UpdateInv, TypeOK, Position
<1>2. (Position /\ Forward /\ Backward)'
  BY SMTT(20) DEF UpdateInv, TypeOK, Position, Forward, Backward, Passed, Swapping
<1>3. (Whole /\ Together)'
  BY SMTT(20) DEF UpdateInv, TypeOK, Position, Forward, Backward, Whole, Together, Swapping
<1> QED
  BY <1>1, <1>2, <1>3 DEF UpdateInv

\* A death outside a swap leaves the required entries of one version.
LEMMA CrashStep ==
    ASSUME UpdateInv, Crash
    PROVE  UpdateInv'
<1> USE UpdateApplyAssumption, Values DEF Crash, SwapEnds, NoInstall, files, job, Entries
<1>1. TypeOK'
  <2>1. had' \in BOOLEAN /\ slipped' \in BOOLEAN /\ clean' \in BOOLEAN
    BY Zenon DEF UpdateInv, TypeOK, Position
  <2> QED
    BY <2>1, SMTT(20) DEF UpdateInv, TypeOK, Position
<1>2. (Position /\ Forward /\ Backward)'
  BY SMTT(20) DEF UpdateInv, TypeOK, Position, Forward, Backward, Passed, Swapping
<1>3. (Whole /\ Together)'
  BY SMTT(20) DEF UpdateInv, TypeOK, Position, Forward, Backward, Whole, Together, Swapping
<1> QED
  BY <1>1, <1>2, <1>3 DEF UpdateInv

\* Every step keeps the invariant: one step below per action.
LEMMA NextStep == UpdateInv /\ [Next]_vars => UpdateInv'
<1> SUFFICES ASSUME UpdateInv, [Next]_vars PROVE UpdateInv'
  OBVIOUS
<1>1. CASE Startup
  <2>1. ASSUME NEW kept \in SUBSET Entries, CleanupAfterLaunch(kept)
        PROVE  UpdateInv'
    BY <2>1, CleanupAfterLaunchStep
  <2>2. ASSUME NEW rest \in SUBSET Entries, NEW marker \in {0, pending},
              DiscardStaged(rest, marker)
        PROVE  UpdateInv'
    BY <2>2, DiscardStagedStep
  <2>3. CASE ApplyPending
    BY <2>3, ApplyPendingStep
  <2>4. CASE SkipEntry
    BY <2>4, SkipEntryStep
  <2>5. CASE PutAside
    BY <2>5, PutAsideStep
  <2>6. CASE SwapDone
    BY <2>6, SwapDoneStep
  <2>7. ASSUME NEW stale \in Contents, PutAsideFails(stale)
        PROVE  UpdateInv'
    BY <2>7, PutAsideFailsStep
  <2>8. ASSUME NEW copied \in BOOLEAN, MovePath(copied)
        PROVE  UpdateInv'
    BY <2>8, MovePathStep
  <2>9. ASSUME NEW left \in {Absent, Torn}, NEW back \in BOOLEAN,
              MovePathFails(left, back)
        PROVE  UpdateInv'
    BY <2>9, MovePathFailsStep
  <2>10. CASE RestoreEntry
    BY <2>10, RestoreEntryStep
  <2>11. CASE RollbackDone
    BY <2>11, RollbackDoneStep
  <2>12. ASSUME NEW left \in Contents, RestoreEntryFails(left)
        PROVE  UpdateInv'
    BY <2>12, RestoreEntryFailsStep
  <2>13. ASSUME NEW marker \in {0, pending}, ClearMarker(marker)
        PROVE  UpdateInv'
    BY <2>13, ClearMarkerStep
  <2>14. CASE RecordApplied
    BY <2>14, RecordAppliedStep
  <2>15. CASE Relaunch
    BY <2>15, RelaunchStep
  <2>16. CASE RelaunchFails
    BY <2>16, RelaunchFailsStep
  <2>17. CASE LogApplyRecord
    BY <2>17, LogApplyRecordStep
  <2> QED
    BY <1>1, <2>1, <2>2, <2>3, <2>4, <2>5, <2>6, <2>7, <2>8, <2>9, <2>10, <2>11, <2>12, <2>13, <2>14, <2>15, <2>16, <2>17 DEF Startup
<1>2. CASE User
  <2>1. ASSUME NEW v \in Versions, NEW tree \in SUBSET Entries,
              StageVersion(v, tree)
        PROVE  UpdateInv'
    BY <2>1, StageVersionStep
  <2>2. ASSUME NEW v \in Versions, NEW tree \in SUBSET Entries,
              StageAbandoned(v, tree)
        PROVE  UpdateInv'
    BY <2>2, StageAbandonedStep
  <2>3. CASE Quit
    BY <2>3, QuitStep
  <2>4. CASE Launch
    BY <2>4, LaunchStep
  <2>5. CASE Restart
    BY <2>5, RestartStep
  <2> QED
    BY <1>2, <2>1, <2>2, <2>3, <2>4, <2>5 DEF User
<1>3. CASE Crash
  BY <1>3, CrashStep
<1>4. CASE UNCHANGED vars
  <2> USE <1>4 DEF vars, files, job, UpdateInv
  <2>1. TypeOK'
    BY DEF TypeOK
  <2>2. Position' /\ Whole'
    BY DEF Position, Whole, Swapping
  <2>3. Forward' /\ Backward'
    BY DEF Forward, Backward, Passed
  <2>4. Together'
    BY DEF Together, Swapping
  <2> QED
    BY <2>1, <2>2, <2>3, <2>4
<1> QED
  BY <1>1, <1>2, <1>3, <1>4 DEF Next

(* The inductive invariant: where the swap is in the layout says what every *)
(* entry's path and .old path hold (swapInto, restoreEntry).                *)
THEOREM UpdateInvariant == Spec => []UpdateInv
<1>1. Init => UpdateInv
  BY InitInv
<1>2. UpdateInv /\ [Next]_vars => UpdateInv'
  BY NextStep
<1> QED
  BY <1>1, <1>2, PTL DEF Spec

(* Every variable keeps its type, whatever call fails and whenever the      *)
(* process dies.                                                            *)
THEOREM UpdateTypeCorrect == Spec => []TypeOK
<1>1. UpdateInv => TypeOK
  BY DEF UpdateInv
<1> QED
  BY <1>1, UpdateInvariant, PTL

(* For every layout: a failed swap leaves each entry that was installed as  *)
(* it was, unless a call of the undoing failed too (swapInto).              *)
THEOREM FailedSwapIsUndone == Spec => []FailedSwapUndone
<1>1. UpdateInv => FailedSwapUndone
  <2> SUFFICES ASSUME UpdateInv, phase = "rollback", at = 0, ~ slipped,
                      NEW e \in Entries, before[e] # Absent
               PROVE  target[e] = before[e]
    BY DEF FailedSwapUndone
  <2>1. ~ (e <= at)
    BY UpdateApplyAssumption, SMT DEF Entries
  <2> QED
    BY <2>1 DEF UpdateInv, Backward
<1> QED
  BY <1>1, UpdateInvariant, PTL

(* For every layout and set of required entries: the shell runs with the    *)
(* required entries of its own version (applyStagedUpdate).                 *)
THEOREM ShellKeepsItsCore == Spec => []ShellMatchesCore
<1>1. UpdateInv => ShellMatchesCore
  BY DEF UpdateInv, Together, ShellMatchesCore
<1> QED
  BY <1>1, UpdateInvariant, PTL

(* "applied" is recorded only over the required entries of that version     *)
(* (applyPendingFor).                                                       *)
THEOREM AppliedMeansInstalled == Spec => AppliedIsInstalled
<1>1. ASSUME UpdateInv, [Next]_vars, record' # record, record'.outcome = "applied"
      PROVE  \A e \in Required : target'[e] = record'.version
  <2>1. RecordApplied
    <3>1. ASSUME NEW o, Attempted(o), o # "applied"
          PROVE  FALSE
      BY <1>1, <3>1 DEF Attempted
    <3>2. ~ UNCHANGED vars /\ ~ Crash
      BY <1>1 DEF vars, files, Crash
    <3>3. ~ User
      BY <1>1 DEF User, StageVersion, StageAbandoned, Quit, Launch, Restart, files
    <3>4. Startup
      BY <1>1, <3>2, <3>3 DEF Next
    <3>5. ~ LogApplyRecord
      BY <1>1 DEF LogApplyRecord, NoRecord
    <3> QED
      BY <1>1, <3>1, <3>4, <3>5 DEF Startup, CleanupAfterLaunch, DiscardStaged, ApplyPending,
         SkipEntry, PutAside, SwapDone, PutAsideFails, MovePath, MovePathFails, RestoreEntry,
         RollbackDone, RestoreEntryFails, ClearMarker, Relaunch, RelaunchFails, files
  <2>2. record \in Records
    BY <1>1 DEF UpdateInv, TypeOK
  <2>3. record'.version = record.version /\ target' = target
    BY <2>1, <2>2 DEF RecordApplied, Records
  <2> QED
    BY <1>1, <2>1, <2>3 DEF RecordApplied, UpdateInv, Whole
<1>2. UpdateInv /\ [Next]_vars
      => [record' # record /\ record'.outcome = "applied"
          => \A e \in Required : target'[e] = record'.version]_vars
  BY <1>1
<1> QED
  BY <1>2, UpdateInvariant, PTL DEF Spec, AppliedIsInstalled

(* For every layout, set of required entries and schedule of crashes: the   *)
(* swap never leaves a mixture behind (swapInto, applyStagedUpdate).        *)
THEOREM SwapStaysSound == Spec => []SwapIsSound
<1>1. FailedSwapUndone /\ ShellMatchesCore => SwapIsSound
  BY DEF SwapIsSound
<1> QED
  BY <1>1, FailedSwapIsUndone, ShellKeepsItsCore, PTL

-----------------------------------------------------------------------------
(* The probes of a target (TargetProbe): the invariant                      *)

\* The shapes of the state.
ProbeOps == {"attach", "detach", "evaluate", "targets"}
Askers == {"probe", "background"}
ProbeStages == {"none", "leftover", "targets", "attach", "evaluate", "release"}
ProbeRequests == [id : Nat, op : ProbeOps, client : PeerIds, session : Nat, by : Askers]
Outcomes == [by : Askers, client : PeerIds, session : Nat, ok : BOOLEAN]
Attachments == [id : Nat, client : PeerIds, session : Nat, released : BOOLEAN]
PeerCommands == [id : Nat, op : ProbeOps \cup {"foreign"}, session : Nat]
PeerReplies == [kind : {"reply"}, id : Nat, ok : BOOLEAN, session : Nat]
PeerNotices == [kind : {"attached", "detached"}, session : Nat]
PeerFrames == PeerReplies \cup PeerNotices
Origins == [open : BOOLEAN, session : Nat, retired : SUBSET Nat]
Browsers == [live : SUBSET Nat, foreign : SUBSET Nat, owed : Seq(PeerFrames),
             out : Seq(PeerCommands), in : Seq(PeerFrames)]
ProbeStates == [stage : ProbeStages, client : 0 .. MaxPeerLinks, gen : Nat, session : Nat, failed : BOOLEAN]
Ledgers == [links : 0 .. MaxPeerLinks, probes : Nat, ids : Nat, attached : Nat, troubles : Nat,
            lied : BOOLEAN, mistaken : BOOLEAN]
BridgeStates == [origin : [PeerIds -> Origins],
                 await : [pending : SUBSET ProbeRequests, ready : Seq(Outcomes)],
                 attachment : SUBSET Attachments, probe : ProbeStates,
                 browser : [PeerIds -> Browsers], ledger : Ledgers]

\* What concerns one connection.
PeerViews == [open : BOOLEAN, session : Nat, retired : SUBSET Nat,
              pending : SUBSET ProbeRequests, ready : SUBSET Outcomes, att : SUBSET Attachments,
              live : SUBSET Nat, foreign : SUBSET Nat, owed : Seq(PeerFrames),
              out : Seq(PeerCommands), in : Seq(PeerFrames),
              stage : ProbeStages, probed : Nat, failed : BOOLEAN,
              ids : Nat, attached : Nat, mistaken : BOOLEAN]

PendingOf(e, c) == {p \in e.await.pending : p.client = c}
ReadyOf(e, c) == {x \in Outcomes : x.client = c /\ \E k \in DOMAIN e.await.ready : e.await.ready[k] = x}
AttachedOf(e, c) == {a \in e.attachment : a.client = c}
PeerView(e, c) ==
    [open |-> e.origin[c].open, session |-> e.origin[c].session, retired |-> e.origin[c].retired,
     pending |-> PendingOf(e, c), ready |-> ReadyOf(e, c), att |-> AttachedOf(e, c),
     live |-> e.browser[c].live, foreign |-> e.browser[c].foreign, owed |-> e.browser[c].owed,
     out |-> e.browser[c].out, in |-> e.browser[c].in,
     stage |-> IF e.probe.client = c THEN e.probe.stage ELSE "none",
     probed |-> e.probe.session, failed |-> e.probe.failed,
     ids |-> e.ledger.ids, attached |-> e.ledger.attached, mistaken |-> e.ledger.mistaken]

\* Only numbers given out and sessions made are spoken of.
PeerSizes(v) ==
    /\ \A p \in v.pending : p.id \in 1 .. v.ids /\ p.session \in 0 .. v.attached
    /\ \A x \in v.ready : x.session \in 0 .. v.attached
    /\ \A a \in v.att : a.id \in 1 .. v.ids /\ a.session \in 0 .. v.attached
    /\ v.session \in 0 .. v.attached
    /\ \A s \in v.retired : s \in 1 .. v.attached
    /\ \A s \in v.live : s \in 1 .. v.attached
    /\ \A s \in v.foreign : s \in 1 .. v.attached
    /\ \A k \in DOMAIN v.out : v.out[k].id \in 0 .. v.ids /\ v.out[k].session \in 0 .. v.attached
    /\ \A k \in DOMAIN v.in :
          /\ v.in[k].session \in 0 .. v.attached
          /\ v.in[k].kind = "reply" => v.in[k].id \in 1 .. v.ids
          /\ v.in[k].kind # "reply" => v.in[k].session # 0
    /\ \A k \in DOMAIN v.owed :
          /\ v.owed[k].kind = "reply" /\ v.owed[k].ok
          /\ v.owed[k].id \in 1 .. v.ids /\ v.owed[k].session \in 1 .. v.attached

\* A connection that is not open holds nothing.
PeerShut(v) ==
    ~ v.open =>
       /\ v.session = 0 /\ v.retired = {} /\ v.live = {} /\ v.foreign = {}
       /\ v.owed = <<>> /\ v.out = <<>> /\ v.in = <<>> /\ v.att = {} /\ v.pending = {}
       /\ \A x \in v.ready : ~ x.ok

\* The reply that makes session s of command i known is still to be read.
PeerAnswer(v, i, s) ==
    \/ \E k \in DOMAIN v.in : v.in[k].kind = "reply" /\ v.in[k].id = i /\ v.in[k].session = s
    \/ \E k \in DOMAIN v.owed : v.owed[k].id = i /\ v.owed[k].session = s
PeerTold(v, kind, s) == \E k \in DOMAIN v.in : v.in[k].kind = kind /\ v.in[k].session = s

\* A number is one command's, in one place, and its reply is of its kind.
PeerNumbers(v) ==
    /\ \A p, q \in v.pending : p.id = q.id => p = q
    /\ \A a, b \in v.att : a = b
    /\ \A p \in v.pending : p.op = "attach" <=> \E a \in v.att : a.id = p.id
    /\ \A k \in DOMAIN v.out :
          /\ v.out[k].op = "foreign" <=> v.out[k].id = 0
          /\ v.out[k].op = "attach" <=> \E a \in v.att : a.id = v.out[k].id
          /\ \A p \in v.pending : p.id = v.out[k].id => p.op = v.out[k].op /\ p.session = v.out[k].session
    /\ \A j, k \in DOMAIN v.out : v.out[j].id = v.out[k].id /\ v.out[k].id # 0 => j = k
    /\ \A k \in DOMAIN v.in : \A j \in DOMAIN v.out : v.in[k].kind = "reply" => v.in[k].id # v.out[j].id
    /\ \A k \in DOMAIN v.owed : \A j \in DOMAIN v.out : v.owed[k].id # v.out[j].id
    /\ \A j, k \in DOMAIN v.in :
          v.in[j].kind = "reply" /\ v.in[k].kind = "reply" /\ v.in[j].id = v.in[k].id => j = k
    /\ \A k \in DOMAIN v.in : \A j \in DOMAIN v.owed : v.in[k].kind = "reply" => v.in[k].id # v.owed[j].id
    /\ \A j, k \in DOMAIN v.owed : j = k
    /\ \A k \in DOMAIN v.owed : \E a \in v.att : a.id = v.owed[k].id
    /\ \A k \in DOMAIN v.in : v.in[k].kind = "reply" =>
          /\ v.in[k].session # 0 => \E a \in v.att : a.id = v.in[k].id
          /\ \A a \in v.att : a.id = v.in[k].id => (v.in[k].ok <=> v.in[k].session # 0)
    /\ \A j, k \in DOMAIN v.in :
          v.in[j].kind = "attached" /\ v.in[k].kind = "attached" /\ v.in[j].session = v.in[k].session => j = k

\* The session s has been heard of.
PeerKnows(v, s) ==
    \/ v.session = s \/ s \in v.retired
    \/ \E p \in v.pending : p.session = s
    \/ \E x \in v.ready : x.session = s

\* An attachment whose reply is unread: its session is held if it has been heard
\* of, unless it was given back, and the last one the connection will hear of.
PeerAnswers(v) ==
    \A a \in v.att : \A s \in 1 .. v.attached : PeerAnswer(v, a.id, s) =>
        /\ s \notin v.foreign
        /\ PeerTold(v, "attached", s) => ~ PeerKnows(v, s)
        /\ ~ PeerTold(v, "attached", s) =>
              a.session = s /\ (v.session = s \/ (s \in v.retired /\ a.released))
        /\ \A j \in DOMAIN v.in : v.in[j].kind = "attached" /\ v.in[j].session # s =>
              \E k \in DOMAIN v.in : k > j /\ v.in[k].kind = "attached" /\ v.in[k].session = s
        /\ \A j \in DOMAIN v.out : v.out[j].op # "foreign"

\* What makes a session known comes before what ends it.
PeerOrder(v) ==
    /\ \A j, k \in DOMAIN v.out : v.out[j].op = "foreign" /\ v.out[k].op = "attach" => j < k
    /\ \A j \in DOMAIN v.in : v.in[j].kind = "attached" =>
          \/ v.in[j].session \in v.live \cup v.foreign
          \/ \E k \in DOMAIN v.in : k > j /\ v.in[k].kind = "detached" /\ v.in[k].session = v.in[j].session
    /\ \A j \in DOMAIN v.in : v.in[j].kind = "detached" => v.in[j].session \notin v.live
    /\ v.session \notin v.retired
    /\ \A a \in v.att : a.session \in {0, v.session} \cup v.retired
    /\ \A p \in v.pending : p.op = "detach" =>
          \A j \in DOMAIN v.in :
             v.in[j].kind = "reply" /\ v.in[j].id = p.id /\ v.in[j].ok => p.session \notin v.live
    /\ \A x \in v.ready : x.ok /\ (x.by = "background" \/ v.stage \in {"leftover", "release"}) =>
          x.session \notin v.live

\* The command of a stage.
StageOp(step) == IF step \in {"leftover", "release"} THEN "detach" ELSE step

\* A probe awaits one command, that of its stage.
PeerServes(v) ==
    /\ \A p \in v.pending :
         /\ p.by = "probe" => v.stage # "none" /\ p.op = StageOp(v.stage)
         /\ p.by = "background" => p.op = "detach"
    /\ \A p, q \in v.pending : p.by = "probe" /\ q.by = "probe" => p = q
    /\ \A x \in v.ready : x.by = "probe" =>
         /\ v.stage # "none"
         /\ \A p \in v.pending : p.by # "probe"
         /\ v.stage = "attach" /\ x.ok =>
               /\ x.session # 0 /\ v.att = {}
               /\ x.session = v.session \/ x.session \in v.retired
         /\ v.stage = "release" /\ ~ v.failed => x.session = v.probed
    /\ v.stage \in {"targets", "evaluate"} => v.att = {}
    /\ v.stage = "evaluate" => v.session \in {0, v.probed}
    /\ v.stage = "release" /\ ~ v.failed => \A p \in v.pending : p.by = "probe" => p.session = v.probed

\* All notices are of sessions of the DevTools, or of the session s.
PeerQuiet(v, s) ==
    \A j \in DOMAIN v.in : v.in[j].kind # "reply" /\ v.in[j].session # s => v.in[j].session \in v.foreign

\* As long as the bridge was not mistaken: one session of ours at most, held or
\* coming, and none of somebody else's.
PeerFaithful(v) ==
    ~ v.mistaken =>
        /\ \A s, o \in v.live : s = o
        /\ \A s \in v.live :
              /\ v.session = s \/ \E a \in v.att : PeerAnswer(v, a.id, s)
              /\ s \notin v.retired
        /\ v.session \notin v.foreign
        /\ \A k \in DOMAIN v.out : v.out[k].op = "detach" => v.out[k].session \notin v.foreign
        /\ v.session # 0 => v.session \in v.live \/ PeerTold(v, "detached", v.session)
        /\ \A k \in DOMAIN v.out : v.out[k].op = "attach" =>
              v.live = {} /\ v.session = 0 /\ PeerQuiet(v, 0)
        /\ \A a \in v.att : \A s \in v.live :
              PeerAnswer(v, a.id, s) /\ v.session \in {0, s} /\ PeerQuiet(v, s)

\* A probe asks for an attachment only when nothing of ours is attached.
PeerStaged(v) ==
    ~ v.mistaken =>
        /\ v.stage = "targets" =>
             /\ v.live = {}
             /\ \A j \in DOMAIN v.in :
                  v.in[j].kind # "reply" /\ v.in[j].session \notin v.foreign =>
                  /\ \A p \in v.pending : p.by = "probe" =>
                        \A k \in DOMAIN v.in : v.in[k].kind = "reply" /\ v.in[k].id = p.id => j < k
                  /\ \A x \in v.ready : x.by = "probe" => ~ x.ok
        /\ v.stage = "leftover" =>
             /\ \A k \in DOMAIN v.out : v.out[k].op # "attach"
             /\ \A p \in v.pending : p.by = "probe" => \A s \in v.live : s = p.session
             /\ \A x \in v.ready : x.by = "probe" => \A s \in v.live : s = x.session

PeerOK(v) ==
    /\ v \in PeerViews
    /\ PeerSizes(v) /\ PeerShut(v) /\ PeerNumbers(v) /\ PeerAnswers(v) /\ PeerOrder(v)
    /\ PeerServes(v) /\ PeerFaithful(v) /\ PeerStaged(v)

\* The commands of a connection.
PeerUses(v, i) ==
    \/ \E p \in v.pending : p.id = i
    \/ \E a \in v.att : a.id = i
    \/ i # 0 /\ \E k \in DOMAIN v.out : v.out[k].id = i
    \/ \E k \in DOMAIN v.in : v.in[k].kind = "reply" /\ v.in[k].id = i
    \/ \E k \in DOMAIN v.owed : v.owed[k].id = i

\* Only sessions are detached.
EndsNamed(e) ==
    /\ \A p \in e.await.pending : p.op = "detach" => p.session # 0
    /\ \A k \in DOMAIN e.await.ready :
          e.await.ready[k].by = "background" \/ e.probe.stage \in {"leftover", "release"} =>
          e.await.ready[k].session # 0

\* Between the connections.
PeersApart(e) ==
    /\ \A c, d \in PeerIds : c # d =>
          \A i \in 1 .. e.ledger.ids : ~ (PeerUses(PeerView(e, c), i) /\ PeerUses(PeerView(e, d), i))
    /\ \A j, k \in DOMAIN e.await.ready : e.await.ready[j].by = "probe" /\ e.await.ready[k].by = "probe" => j = k
    /\ \A c \in PeerIds : c > e.ledger.links => ~ e.origin[c].open
    /\ e.probe.stage # "none" => e.probe.client \in 1 .. e.ledger.links
    /\ IsFiniteSet(e.await.pending)
    /\ ~ e.ledger.mistaken => ~ e.ledger.lied
    /\ EndsNamed(e)

BridgeOK(e) ==
    /\ e \in BridgeStates
    /\ PeersApart(e)
    /\ \A c \in PeerIds : PeerOK(PeerView(e, c))

ProbeInv ==
    /\ lockState \in [who : 0 .. MaxPeerLinks, gen : Nat]
    /\ BridgeOK(Bridge)

-----------------------------------------------------------------------------
(* Queues of frames and commands                                            *)

\* Reading the first element of a sequence.
PeerRest(q, r) ==
    /\ q # <<>> /\ 1 \in DOMAIN q /\ DOMAIN r \subseteq DOMAIN q
    /\ \A k \in DOMAIN r : k + 1 \in DOMAIN q /\ r[k] = q[k + 1]
    /\ \A k \in DOMAIN q : k = 1 \/ (k - 1 \in DOMAIN r /\ r[k - 1] = q[k])
    /\ DOMAIN q \subseteq Nat /\ DOMAIN r \subseteq Nat
    /\ Len(r) + 1 = Len(q)

\* Go through a queue: its head and its tail.
LEMMA TailIsRest ==
    ASSUME NEW S, NEW q \in Seq(S), q # <<>>
    PROVE  /\ Tail(q) \in Seq(S) /\ Head(q) = q[1] /\ q[1] \in S
           /\ PeerRest(q, Tail(q))
<1>1. Len(q) \in Nat /\ Len(q) # 0 /\ DOMAIN q = 1 .. Len(q)
  OBVIOUS
<1>2. /\ Tail(q) \in Seq(S) /\ Len(Tail(q)) = Len(q) - 1 /\ DOMAIN Tail(q) = 1 .. Len(Tail(q))
      /\ \A k \in 1 .. Len(Tail(q)) : Tail(q)[k] = q[k + 1]
  BY <1>1
<1>3. Head(q) = q[1] /\ q[1] \in S
  BY <1>1
<1> DEFINE r == Tail(q)
<1>4. /\ r \in Seq(S) /\ Len(r) = Len(q) - 1 /\ DOMAIN r = 1 .. Len(r)
      /\ \A k \in 1 .. Len(r) : r[k] = q[k + 1]
  BY <1>2
<1> HIDE DEF r
<1>5. PeerRest(q, r)
  BY <1>1, <1>4 DEF PeerRest
<1> QED BY <1>3, <1>4, <1>5 DEF r

\* Elements are appended, those of F.
PeerMore(q, r, F) ==
    /\ DOMAIN q \subseteq DOMAIN r /\ DOMAIN r \subseteq Nat
    /\ \A j \in DOMAIN q : r[j] = q[j]
    /\ \A j \in DOMAIN r : j \in DOMAIN q \/ r[j] \in F
    /\ \A f \in F : \E j \in DOMAIN r : j \notin DOMAIN q /\ r[j] = f
    /\ \A j, k \in DOMAIN r : j \notin DOMAIN q /\ k \notin DOMAIN q /\ r[j] = r[k] => j = k
    /\ \A j \in DOMAIN q : \A k \in DOMAIN r : k \notin DOMAIN q => j < k

\* A frame at the end of a queue.
LEMMA OneIsMore ==
    ASSUME NEW S, NEW q \in Seq(S), NEW f \in S
    PROVE  /\ Append(q, f) \in Seq(S) /\ PeerMore(q, Append(q, f), {f})
           /\ q \o <<f>> = Append(q, f)
<1> DEFINE r == Append(q, f)
<1>1. /\ r \in Seq(S) /\ Len(q) \in Nat /\ Len(r) = Len(q) + 1
      /\ DOMAIN q = 1 .. Len(q) /\ DOMAIN r = 1 .. Len(r)
      /\ \A j \in 1 .. Len(q) : r[j] = q[j]
      /\ r[Len(q) + 1] = f
  OBVIOUS
<1>2. q \o <<f>> = r
  OBVIOUS
<1> HIDE DEF r
<1>3. PeerMore(q, r, {f})
  BY <1>1 DEF PeerMore
<1> QED BY <1>1, <1>2, <1>3 DEF r

\* Two frames at the end of a queue, in their order.
LEMMA TwoIsMore ==
    ASSUME NEW S, NEW q \in Seq(S), NEW f \in S, NEW g \in S, f # g
    PROVE  /\ q \o <<f>> \o <<g>> \in Seq(S) /\ PeerMore(q, q \o <<f>> \o <<g>>, {f, g})
<1> DEFINE r == Append(Append(q, f), g)
<1>0. q \o <<f>> = Append(q, f) /\ Append(q, f) \in Seq(S)
  OBVIOUS
<1>00. Append(q, f) \o <<g>> = r
  BY <1>0, OneIsMore
<1>1. /\ r \in Seq(S) /\ Len(q) \in Nat /\ Len(r) = Len(q) + 2
      /\ DOMAIN q = 1 .. Len(q) /\ DOMAIN r = 1 .. Len(r)
      /\ \A j \in 1 .. Len(q) : r[j] = q[j]
      /\ r[Len(q) + 1] = f /\ r[Len(q) + 2] = g
  BY <1>0
<1> HIDE DEF r
<1>2. \A j \in DOMAIN r : j \in DOMAIN q \/ j = Len(q) + 1 \/ j = Len(q) + 2
  BY <1>1
<1>3. Len(q) + 1 \in DOMAIN r /\ Len(q) + 2 \in DOMAIN r /\ Len(q) + 1 \notin DOMAIN q /\ Len(q) + 2 \notin DOMAIN q
  BY <1>1
<1>4. PeerMore(q, r, {f, g})
  BY <1>1, <1>2, <1>3 DEF PeerMore
<1> QED BY <1>0, <1>00, <1>1, <1>4

\* Appending a set of elements in some order.
LEMMA SetIsMore ==
    ASSUME NEW S, NEW q \in Seq(S), NEW F \in SUBSET S, IsFiniteSet(F)
    PROVE  /\ q \o SetToSeq(F) \in Seq(S) /\ PeerMore(q, q \o SetToSeq(F), F)
<1> DEFINE w == SetToSeq(F)
<1>1. /\ w \in Seq(F) /\ Len(w) \in Nat /\ DOMAIN w = 1 .. Len(w)
      /\ \A f \in F : \E j \in 1 .. Len(w) : w[j] = f
      /\ \A j, k \in 1 .. Len(w) : w[j] = w[k] => j = k
  <2>1. PICK n \in Nat : ExistsBijection(1 .. n, F)
    BY FS_NatBijection
  <2>2. Cardinality(F) = n
    BY <2>1, FS_CountingElements
  <2>3. PICK f \in Bijection(1 .. n, F) : TRUE
    BY <2>1 DEF ExistsBijection
  <2>4. f \in [1 .. n -> F] /\ \A j, k \in 1 .. n : f[j] = f[k] => j = k
    BY <2>3 DEF Bijection, Injection, IsInjective
  <2>5. f \in [1 .. Cardinality(F) -> F] /\ IsInjective(f)
    BY <2>2, <2>4 DEF IsInjective
  <2>6. w \in [1 .. Cardinality(F) -> F] /\ IsInjective(w)
    BY <2>5 DEF SetToSeq
  <2> HIDE DEF w
  <2>7. w \in [1 .. n -> F] /\ \A j, k \in 1 .. n : w[j] = w[k] => j = k
    BY <2>2, <2>6 DEF IsInjective
  <2>8. \A x \in F : \E j \in 1 .. n : w[j] = x
    <3>1. w \in Injection(1 .. n, F)
      BY <2>7 DEF Injection, IsInjective
    <3>2. IsFiniteSet(1 .. n) /\ Cardinality(1 .. n) = Cardinality(F)
      BY <2>2, FS_Interval
    <3>3. w \in Surjection(1 .. n, F)
      BY <2>1, <2>2, <3>1, <3>2, FS_Injection
    <3> QED BY <3>3 DEF Surjection
  <2> QED BY <2>7, <2>8
<1> HIDE DEF w
<1> DEFINE r == q \o w
<1>2. /\ r \in Seq(S) /\ Len(q) \in Nat /\ Len(r) = Len(q) + Len(w)
      /\ DOMAIN q = 1 .. Len(q) /\ DOMAIN r = 1 .. Len(r)
      /\ \A j \in 1 .. Len(q) : r[j] = q[j]
      /\ \A j \in 1 .. Len(r) : j > Len(q) => r[j] = w[j - Len(q)]
  BY <1>1
<1> HIDE DEF r
<1>3. \A j \in DOMAIN r : j \notin DOMAIN q => j > Len(q) /\ j - Len(q) \in 1 .. Len(w) /\ r[j] = w[j - Len(q)]
  BY <1>1, <1>2
<1>4. \A i \in 1 .. Len(w) : Len(q) + i \in DOMAIN r /\ Len(q) + i \notin DOMAIN q /\ r[Len(q) + i] = w[i]
  <2> SUFFICES ASSUME NEW i \in 1 .. Len(w)
               PROVE  Len(q) + i \in DOMAIN r /\ Len(q) + i \notin DOMAIN q /\ r[Len(q) + i] = w[i]
    OBVIOUS
  <2>1. Len(q) + i \in 1 .. Len(r) /\ Len(q) + i > Len(q) /\ (Len(q) + i) - Len(q) = i
    BY <1>1, <1>2
  <2>2. r[Len(q) + i] = w[(Len(q) + i) - Len(q)]
    BY <1>2, <2>1
  <2> QED BY <1>2, <2>1, <2>2
<1>5. \A j \in DOMAIN r : j \in DOMAIN q \/ r[j] \in F
  BY <1>1, <1>3
<1>6. \A j, k \in DOMAIN r : j \notin DOMAIN q /\ k \notin DOMAIN q /\ r[j] = r[k] => j = k
  BY <1>1, <1>2, <1>3
<1>7. \A f \in F : \E j \in DOMAIN r : j \notin DOMAIN q /\ r[j] = f
  BY <1>1, <1>4
<1>8. PeerMore(q, r, F)
  BY <1>2, <1>3, <1>5, <1>6, <1>7 DEF PeerMore
<1> QED BY <1>2, <1>8 DEF r, w

SameOrigin(v, w) == w.open = v.open /\ w.session = v.session /\ w.retired = v.retired
SameAwait(v, w) == w.pending = v.pending /\ w.ready = v.ready /\ w.att = v.att
SameBrowser(v, w) ==
    w.live = v.live /\ w.foreign = v.foreign /\ w.owed = v.owed /\ w.out = v.out /\ w.in = v.in
SameProbe(v, w) == w.stage = v.stage /\ w.probed = v.probed /\ w.failed = v.failed
SameLedger(v, w) == w.ids = v.ids /\ w.attached = v.attached /\ w.mistaken = v.mistaken

\* The shapes of what a connection holds.
LEMMA PeerType ==
    ASSUME NEW v \in PeerViews
    PROVE  /\ v.session \in Nat /\ v.ids \in Nat /\ v.attached \in Nat /\ v.probed \in Nat
           /\ v.pending \in SUBSET ProbeRequests /\ v.ready \in SUBSET Outcomes
           /\ v.att \in SUBSET Attachments /\ v.stage \in ProbeStages
           /\ v.owed \in Seq(PeerFrames) /\ v.in \in Seq(PeerFrames) /\ v.out \in Seq(PeerCommands)
           /\ v.live \in SUBSET Nat /\ v.foreign \in SUBSET Nat /\ v.retired \in SUBSET Nat
           /\ v.open \in BOOLEAN /\ v.failed \in BOOLEAN /\ v.mistaken \in BOOLEAN
  BY DEF PeerViews

\* The frames of a connection decide which replies and notices it will read.
LEMMA SameAnswers ==
    ASSUME NEW v, NEW w, w.in = v.in, w.owed = v.owed
    PROVE  /\ \A i, s : PeerAnswer(w, i, s) <=> PeerAnswer(v, i, s)
           /\ \A kind, s : PeerTold(w, kind, s) <=> PeerTold(v, kind, s)
  BY DEF PeerAnswer, PeerTold

-----------------------------------------------------------------------------
(* What may happen to one connection                                        *)

\* More numbers and sessions, elsewhere.
LEMMA PeerGrows ==
    ASSUME NEW v, NEW w \in PeerViews, PeerOK(v),
           SameOrigin(v, w), SameAwait(v, w), SameBrowser(v, w),
           w.stage = v.stage, v.stage # "none" => w.probed = v.probed /\ w.failed = v.failed,
           w.ids >= v.ids, w.attached >= v.attached, v.mistaken => w.mistaken
    PROVE  PeerOK(w)
<1>1. /\ v.ids \in Nat /\ v.attached \in Nat /\ w.ids \in Nat /\ w.attached \in Nat
      /\ v \in PeerViews
  BY PeerType DEF PeerOK
<1>2. \A i : i \in 0 .. v.ids => i \in 0 .. w.ids
  BY <1>1
<1>3. \A i : i \in 1 .. v.ids => i \in 1 .. w.ids
  BY <1>1
<1>4. \A i : i \in 0 .. v.attached => i \in 0 .. w.attached
  BY <1>1
<1>5. \A i : i \in 1 .. v.attached => i \in 1 .. w.attached
  BY <1>1
<1>6. PeerSizes(w)
  BY <1>2, <1>3, <1>4, <1>5 DEF PeerOK, PeerSizes, SameOrigin, SameAwait, SameBrowser
<1>7. PeerShut(w) /\ PeerNumbers(w)
  BY DEF PeerOK, PeerShut, PeerNumbers, SameOrigin, SameAwait, SameBrowser
<1>8. PeerAnswers(w)
  BY <1>1 DEF PeerAnswers, SameOrigin, SameAwait, SameBrowser, PeerAnswer, PeerTold, PeerKnows,
     PeerOK, PeerSizes
<1>9. PeerOrder(w) /\ PeerServes(w)
  BY DEF PeerOK, PeerOrder, PeerServes, SameOrigin, SameAwait, SameBrowser
<1>10. PeerFaithful(w)
  BY DEF PeerOK, PeerFaithful, PeerQuiet, PeerAnswer, PeerTold, SameOrigin, SameAwait, SameBrowser
<1>11. PeerStaged(w)
  BY DEF PeerOK, PeerStaged, SameAwait, SameBrowser
<1> QED BY <1>6, <1>7, <1>8, <1>9, <1>10, <1>11 DEF PeerOK

\* Requests and outcomes go; a probe that awaits nothing may end.
LEMMA PeerDrops ==
    ASSUME NEW v, NEW w \in PeerViews, PeerOK(v),
           SameOrigin(v, w), SameBrowser(v, w), SameLedger(v, w), w.att = v.att,
           w.pending \subseteq v.pending, w.ready \subseteq v.ready,
           \/ SameProbe(v, w)
           \/ /\ w.stage = "none"
              /\ \A p \in w.pending : p.by # "probe"
              /\ \A x \in w.ready : x.by # "probe"
    PROVE  PeerOK(w)
<1> USE DEF SameOrigin, SameBrowser, SameLedger
<1>6. PeerSizes(w) /\ PeerShut(w)
  BY DEF PeerOK, PeerSizes, PeerShut
<1>7. PeerNumbers(w)
  BY DEF PeerOK, PeerNumbers
<1>8. PeerAnswers(w)
  BY SameAnswers DEF PeerKnows, PeerOK, PeerAnswers
<1>9. PeerOrder(w)
  BY DEF PeerOK, PeerOrder, SameProbe
<1>12. PeerServes(w)
  BY DEF PeerOK, PeerServes, SameProbe
<1>10. PeerFaithful(w)
  BY SameAnswers DEF PeerOK, PeerFaithful, PeerQuiet
<1>11. PeerStaged(w)
  BY DEF PeerOK, PeerStaged, SameProbe
<1> QED BY <1>6, <1>7, <1>8, <1>9, <1>10, <1>11, <1>12 DEF PeerOK

\* The outcome of a command that gets no reply.
Unreplied(p) == [by |-> p.by, client |-> p.client, session |-> p.session, ok |-> FALSE]

\* Commands get no reply.
LEMMA PeerGivesUp ==
    ASSUME NEW v, NEW w \in PeerViews, PeerOK(v), NEW ps \in SUBSET v.pending,
           SameOrigin(v, w), SameBrowser(v, w), SameLedger(v, w), SameProbe(v, w), w.att = v.att,
           w.pending = v.pending \ ps,
           \A x \in w.ready : x \in v.ready \/ \E p \in ps : x = Unreplied(p)
    PROVE  PeerOK(w)
<1> USE DEF SameOrigin, SameBrowser, SameLedger, SameProbe
<1>1. \A x \in w.ready : x \in v.ready \/ (~ x.ok /\ \E p \in ps : x.by = p.by /\ x.session = p.session)
  BY DEF Unreplied
<1>6. PeerSizes(w) /\ PeerShut(w)
  BY <1>1 DEF PeerOK, PeerSizes, PeerShut
<1>7. PeerNumbers(w)
  BY DEF PeerOK, PeerNumbers
<1>8. PeerAnswers(w)
  BY <1>1, SameAnswers DEF PeerKnows, PeerOK, PeerAnswers
<1>9. PeerOrder(w)
  BY <1>1 DEF PeerOK, PeerOrder
<1>12. PeerServes(w)
  BY <1>1 DEF PeerOK, PeerServes
<1>10. PeerFaithful(w)
  BY SameAnswers DEF PeerOK, PeerFaithful, PeerQuiet
<1>11. PeerStaged(w)
  BY <1>1 DEF PeerOK, PeerStaged
<1> QED BY <1>6, <1>7, <1>8, <1>9, <1>10, <1>11, <1>12 DEF PeerOK

\* The attachments A with those of session s marked released.
Marked(A, s) == {IF a.session = s THEN [a EXCEPT !.released = TRUE] ELSE a : a \in A}

\* A session is given back.
PeerRetires(v, w, s) ==
    /\ w.open = v.open /\ w.session = (IF v.session = s THEN 0 ELSE v.session)
    /\ w.retired = v.retired \cup {s}
    /\ w.pending = v.pending /\ w.ready = v.ready
    /\ w.att = Marked(v.att, s)

\* Retiring a session marks its attachments, and changes nothing else of them.
LEMMA RetireDoes ==
    ASSUME NEW v \in PeerViews, NEW w \in PeerViews, NEW s, PeerRetires(v, w, s)
    PROVE  /\ \A b \in w.att : \E a \in v.att :
                  /\ b.id = a.id /\ b.session = a.session /\ b.client = a.client
                  /\ b.released = (a.released \/ a.session = s)
           /\ \A a \in v.att : \E b \in w.att :
                  /\ b.id = a.id /\ b.session = a.session /\ b.client = a.client
                  /\ b.released = (a.released \/ a.session = s)
           /\ (\A a, b \in v.att : a = b) => \A a, b \in w.att : a = b
           /\ v.att = {} <=> w.att = {}
<1>1. v.att \in SUBSET Attachments
  BY PeerType
<1> DEFINE m(a) == IF a.session = s THEN [a EXCEPT !.released = TRUE] ELSE a
<1>2. w.att = {m(a) : a \in v.att}
  BY DEF PeerRetires, Marked
<1>3. \A a \in v.att : /\ m(a).id = a.id /\ m(a).session = a.session /\ m(a).client = a.client
                       /\ m(a).released = (a.released \/ a.session = s)
  BY <1>1 DEF Attachments
<1> HIDE DEF m
<1> QED BY <1>2, <1>3

\* A session is retired: it has been heard of, and the browser has it no more.
LEMMA PeerRetireKeeps ==
    ASSUME NEW v, NEW w \in PeerViews, PeerOK(v), NEW s \in 1 .. v.attached, v.open,
           PeerRetires(v, w, s), SameBrowser(v, w), SameProbe(v, w), SameLedger(v, w),
           PeerKnows(v, s), v.mistaken \/ s \notin v.live
    PROVE  PeerOK(w)
<1> USE DEF SameBrowser, SameLedger, SameProbe
<1>1. v \in PeerViews /\ v.att \in SUBSET Attachments
  BY PeerType DEF PeerOK
<1>2. \A b \in w.att : \E a \in v.att :
                  /\ b.id = a.id /\ b.session = a.session /\ b.client = a.client
                  /\ b.released = (a.released \/ a.session = s)
  BY <1>1, RetireDoes
<1>3. \A a \in v.att : \E b \in w.att :
                  /\ b.id = a.id /\ b.session = a.session /\ b.client = a.client
                  /\ b.released = (a.released \/ a.session = s)
  BY <1>1, RetireDoes
<1>4. /\ (\A a, b \in v.att : a = b) => \A a, b \in w.att : a = b
      /\ v.att = {} <=> w.att = {}
  BY <1>1, RetireDoes
<1>5. /\ w.open = v.open /\ w.session = (IF v.session = s THEN 0 ELSE v.session)
      /\ w.retired = v.retired \cup {s}
      /\ w.pending = v.pending /\ w.ready = v.ready
  BY DEF PeerRetires
<1>6. PeerSizes(w)
  BY SMTT(20), <1>1, <1>2, <1>5, PeerType DEF PeerOK, PeerSizes
<1>7. PeerShut(w)
  BY <1>5 DEF PeerShut
<1>8. \A i : (\E a \in v.att : a.id = i) <=> \E a \in w.att : a.id = i
  BY <1>2, <1>3
<1>9. PeerNumbers(w)
  BY <1>4, <1>5, <1>8 DEF PeerOK, PeerNumbers
<1>10. PeerAnswers(w)
  <2> SUFFICES ASSUME NEW b \in w.att, NEW o \in 1 .. w.attached, PeerAnswer(w, b.id, o)
               PROVE  /\ o \notin w.foreign
                      /\ PeerTold(w, "attached", o) => ~ PeerKnows(w, o)
                      /\ ~ PeerTold(w, "attached", o) =>
                            b.session = o /\ (w.session = o \/ (o \in w.retired /\ b.released))
                      /\ \A j \in DOMAIN w.in : w.in[j].kind = "attached" /\ w.in[j].session # o =>
                            \E k \in DOMAIN w.in : k > j /\ w.in[k].kind = "attached" /\ w.in[k].session = o
                      /\ \A j \in DOMAIN w.out : w.out[j].op # "foreign"
    BY DEF PeerAnswers
  <2>1. PICK a \in v.att : b.id = a.id /\ b.session = a.session /\ b.released = (a.released \/ a.session = s)
    BY <1>2
  <2>2. PeerAnswer(v, a.id, o)
    BY <2>1, SameAnswers
  <2>3. /\ o \notin v.foreign
        /\ PeerTold(v, "attached", o) => ~ PeerKnows(v, o)
        /\ ~ PeerTold(v, "attached", o) =>
              a.session = o /\ (v.session = o \/ (o \in v.retired /\ a.released))
        /\ \A j \in DOMAIN v.in : v.in[j].kind = "attached" /\ v.in[j].session # o =>
              \E k \in DOMAIN v.in : k > j /\ v.in[k].kind = "attached" /\ v.in[k].session = o
        /\ \A j \in DOMAIN v.out : v.out[j].op # "foreign"
    BY <2>2 DEF PeerOK, PeerAnswers
  <2>4. PeerTold(v, "attached", o) <=> PeerTold(w, "attached", o)
    BY SameAnswers
  <2>5. PeerTold(w, "attached", o) => ~ PeerKnows(w, o)
    BY <1>5, <2>3, <2>4 DEF PeerKnows
  <2>6. ~ PeerTold(w, "attached", o) =>
            b.session = o /\ (w.session = o \/ (o \in w.retired /\ b.released))
    BY <1>5, <2>1, <2>3, <2>4
  <2> QED BY <2>3, <2>5, <2>6
<1>11. PeerOrder(w)
  BY <1>2, <1>5 DEF PeerOK, PeerSizes, PeerOrder
<1>12. PeerServes(w)
  BY <1>4, <1>5 DEF PeerOK, PeerServes
<1>13. PeerFaithful(w)
  BY <1>2, <1>3, <1>5, SameAnswers DEF PeerFaithful, PeerOK, PeerSizes, PeerQuiet
<1>14. PeerStaged(w)
  BY <1>5 DEF PeerOK, PeerStaged
<1> QED BY <1>6, <1>7, <1>9, <1>10, <1>11, <1>12, <1>13, <1>14 DEF PeerOK

\* A command goes out, and is awaited.
PeerSends(v, w, p) ==
    /\ SameOrigin(v, w)
    /\ w.live = v.live /\ w.foreign = v.foreign /\ w.owed = v.owed /\ w.in = v.in
    /\ w.attached = v.attached /\ w.mistaken = v.mistaken /\ w.ids = v.ids + 1
    /\ w.ready = v.ready
    /\ p.id = w.ids /\ w.pending = v.pending \cup {p}
    /\ w.out = Append(v.out, [id |-> p.id, op |-> p.op, session |-> p.session])
    /\ w.att = IF p.op = "attach"
               THEN v.att \cup {[id |-> p.id, client |-> p.client, session |-> 0, released |-> FALSE]}
               ELSE v.att

\* When the bridge may send which command.
MaySend(v, w, p) ==
    /\ v.stage = "none" /\ v.open
    /\ p.by = "background" => p.op = "detach" /\ w.stage = "none" /\ p.session = v.session /\ v.session # 0
    /\ p.by = "probe" => w.stage # "none" /\ p.op = StageOp(w.stage)
    /\ w.stage \in {"targets", "attach"} => p.session = 0 /\ v.att = {} /\ (v.mistaken \/ v.live = {})
    /\ w.stage = "attach" => v.mistaken \/ (v.session = 0 /\ PeerQuiet(v, 0))
    /\ w.stage = "evaluate" => v.att = {} /\ v.session \in {0, w.probed}
    /\ w.stage \in {"leftover", "release"} => p.session = v.session /\ v.session # 0
    /\ w.stage = "release" /\ ~ w.failed => p.session = w.probed

\* A command is sent under a new number.
LEMMA PeerSendKeeps ==
    ASSUME NEW v, NEW w \in PeerViews, PeerOK(v), NEW p \in ProbeRequests, p.session \in 0 .. v.attached,
           PeerSends(v, w, p), MaySend(v, w, p)
    PROVE  PeerOK(w)
<1> DEFINE f == [id |-> p.id, op |-> p.op, session |-> p.session]
           a == [id |-> p.id, client |-> p.client, session |-> 0, released |-> FALSE]
<1>1. /\ v \in PeerViews /\ v.ids \in Nat /\ v.attached \in Nat /\ v.out \in Seq(PeerCommands)
      /\ w.ids = v.ids + 1 /\ p.id = w.ids /\ w.pending = v.pending \cup {p}
      /\ p.op \in ProbeOps /\ p.by \in Askers /\ p.session \in Nat /\ w.stage \in ProbeStages
  BY PeerType DEF PeerOK, PeerSends, ProbeRequests
<1>2. f \in PeerCommands /\ f.id = w.ids /\ f.op = p.op /\ f.session = p.session /\ f.op # "foreign"
  BY <1>1 DEF PeerCommands, ProbeOps
<1>3. a.id = w.ids /\ a.session = 0 /\ ~ a.released
  BY <1>1
<1>4. w.att = IF p.op = "attach" THEN v.att \cup {a} ELSE v.att
  BY DEF PeerSends
<1>5. w.out = Append(v.out, f)
  BY DEF PeerSends
<1> HIDE DEF f, a
<1>6. PeerMore(v.out, w.out, {f})
  BY <1>1, <1>2, <1>5, OneIsMore
<1>7. /\ SameOrigin(v, w) /\ w.ready = v.ready
      /\ w.live = v.live /\ w.foreign = v.foreign /\ w.owed = v.owed /\ w.in = v.in
      /\ w.attached = v.attached /\ w.mistaken = v.mistaken
  BY DEF PeerSends
<1>8. \A k \in DOMAIN w.out : (k \in DOMAIN v.out /\ w.out[k] = v.out[k]) \/ (k \notin DOMAIN v.out /\ w.out[k] = f)
  BY <1>6 DEF PeerMore
<1>9. /\ \A q \in v.pending : q.id \in 1 .. v.ids /\ q.id # w.ids
      /\ \A b \in v.att : b.id \in 1 .. v.ids /\ b.id # w.ids
      /\ \A k \in DOMAIN v.out : v.out[k].id \in 0 .. v.ids /\ v.out[k].id # w.ids
      /\ \A k \in DOMAIN v.in : v.in[k].kind = "reply" => v.in[k].id # w.ids
      /\ \A k \in DOMAIN v.owed : v.owed[k].id # w.ids
  BY <1>1 DEF PeerOK, PeerSizes
<1>10. p.op = "attach" => w.stage = "attach" /\ v.att = {} /\ p.by = "probe"
  BY <1>1 DEF MaySend, StageOp, Askers, ProbeStages
<1>11. \A b \in w.att : b \in v.att \/ (b = a /\ p.op = "attach" /\ v.att = {})
  BY <1>4, <1>10
<1>12. w.ids \in 1 .. w.ids /\ w.ids # 0 /\ \A i : (i \in 1 .. v.ids => i \in 1 .. w.ids) /\ (i \in 0 .. v.ids => i \in 0 .. w.ids)
  BY <1>1
<1>13. PeerSizes(w)
  <2>1. PeerSizes(v)
    BY DEF PeerOK
  <2>2. \A q \in w.pending : q.id \in 1 .. w.ids /\ q.session \in 0 .. w.attached
    BY <1>1, <1>7, <1>12, <2>1 DEF PeerSizes
  <2>3. \A b \in w.att : b.id \in 1 .. w.ids /\ b.session \in 0 .. w.attached
    BY <1>1, <1>3, <1>7, <1>11, <1>12, <2>1 DEF PeerSizes
  <2>4. \A k \in DOMAIN w.out : w.out[k].id \in 0 .. w.ids /\ w.out[k].session \in 0 .. w.attached
    BY <1>1, <1>2, <1>7, <1>8, <1>12, <2>1 DEF PeerSizes
  <2>5. /\ \A k \in DOMAIN w.in :
          /\ w.in[k].session \in 0 .. w.attached
          /\ w.in[k].kind = "reply" => w.in[k].id \in 1 .. w.ids
          /\ w.in[k].kind # "reply" => w.in[k].session # 0
        /\ \A k \in DOMAIN w.owed :
          /\ w.owed[k].kind = "reply" /\ w.owed[k].ok
          /\ w.owed[k].id \in 1 .. w.ids /\ w.owed[k].session \in 1 .. w.attached
    BY <1>7, <1>12, <2>1 DEF PeerSizes
  <2> QED BY <1>7, <2>1, <2>2, <2>3, <2>4, <2>5 DEF PeerSizes, SameOrigin
<1>14. PeerShut(w)
  BY <1>7 DEF PeerShut, MaySend, SameOrigin
<1>15. PeerNumbers(w)
  <2>1. PeerNumbers(v)
    BY DEF PeerOK
  <2>2. \A q, o \in w.pending : q.id = o.id => q = o
    BY <1>1, <1>9, <2>1 DEF PeerNumbers
  <2>3. \A b, d \in w.att : b = d
    BY <1>4, <1>10, <2>1 DEF PeerNumbers
  <2>4. \A q \in w.pending : q.op = "attach" <=> \E b \in w.att : b.id = q.id
    BY <1>1, <1>3, <1>4, <1>9, <2>1 DEF PeerNumbers
  <2>5. \A k \in DOMAIN w.out :
          /\ w.out[k].op = "foreign" <=> w.out[k].id = 0
          /\ w.out[k].op = "attach" <=> \E b \in w.att : b.id = w.out[k].id
          /\ \A q \in w.pending : q.id = w.out[k].id => q.op = w.out[k].op /\ q.session = w.out[k].session
    <3> TAKE k \in DOMAIN w.out
    <3>1. CASE w.out[k] = f
      BY <1>1, <1>2, <1>3, <1>4, <1>9, <1>12, <3>1
    <3>2. CASE k \in DOMAIN v.out /\ w.out[k] = v.out[k]
      BY <1>1, <1>3, <1>4, <1>9, <2>1, <3>2 DEF PeerNumbers
    <3> QED BY <1>8, <3>1, <3>2
  <2>6. \A j, k \in DOMAIN w.out : w.out[j].id = w.out[k].id /\ w.out[k].id # 0 => j = k
    BY <1>2, <1>6, <1>8, <1>9, <2>1 DEF PeerNumbers, PeerMore
  <2>7. \A k \in DOMAIN w.in : \A j \in DOMAIN w.out : w.in[k].kind = "reply" => w.in[k].id # w.out[j].id
    BY <1>2, <1>7, <1>8, <1>9, <2>1 DEF PeerNumbers
  <2>8. \A k \in DOMAIN w.owed : \A j \in DOMAIN w.out : w.owed[k].id # w.out[j].id
    BY <1>2, <1>7, <1>8, <1>9, <2>1 DEF PeerNumbers
  <2>9. \A k \in DOMAIN w.owed : \E b \in w.att : b.id = w.owed[k].id
    BY <1>4, <1>7, <2>1 DEF PeerNumbers
  <2>10. \A k \in DOMAIN w.in : w.in[k].kind = "reply" =>
          /\ w.in[k].session # 0 => \E b \in w.att : b.id = w.in[k].id
          /\ \A b \in w.att : b.id = w.in[k].id => (w.in[k].ok <=> w.in[k].session # 0)
    BY <1>3, <1>4, <1>7, <1>9, <2>1 DEF PeerNumbers
  <2> QED BY <1>7, <2>1, <2>2, <2>3, <2>4, <2>5, <2>6, <2>7, <2>8, <2>9, <2>10 DEF PeerNumbers
<1>16. \A i, s : PeerAnswer(w, i, s) <=> PeerAnswer(v, i, s)
  BY <1>7, SameAnswers
<1>17. \A kind, s : PeerTold(w, kind, s) <=> PeerTold(v, kind, s)
  BY <1>7, SameAnswers
<1>18. \A b \in w.att : \A s : PeerAnswer(w, b.id, s) => b \in v.att /\ PeerAnswer(v, b.id, s)
  BY <1>3, <1>9, <1>11, <1>16 DEF PeerAnswer
<1>19. PeerAnswers(w)
  <2> SUFFICES ASSUME NEW b \in w.att, NEW s \in 1 .. w.attached, PeerAnswer(w, b.id, s)
               PROVE  /\ s \notin w.foreign
                      /\ PeerTold(w, "attached", s) => ~ PeerKnows(w, s)
                      /\ ~ PeerTold(w, "attached", s) =>
                            b.session = s /\ (w.session = s \/ (s \in w.retired /\ b.released))
                      /\ \A j \in DOMAIN w.in : w.in[j].kind = "attached" /\ w.in[j].session # s =>
                            \E k \in DOMAIN w.in : k > j /\ w.in[k].kind = "attached" /\ w.in[k].session = s
                      /\ \A j \in DOMAIN w.out : w.out[j].op # "foreign"
    BY DEF PeerAnswers
  <2>1. b \in v.att /\ PeerAnswer(v, b.id, s) /\ s \in 1 .. v.attached /\ s # 0
    BY <1>1, <1>7, <1>18
  <2>2. /\ s \notin v.foreign
        /\ PeerTold(v, "attached", s) => ~ PeerKnows(v, s)
        /\ ~ PeerTold(v, "attached", s) =>
              b.session = s /\ (v.session = s \/ (s \in v.retired /\ b.released))
        /\ \A j \in DOMAIN v.in : v.in[j].kind = "attached" /\ v.in[j].session # s =>
              \E k \in DOMAIN v.in : k > j /\ v.in[k].kind = "attached" /\ v.in[k].session = s
        /\ \A j \in DOMAIN v.out : v.out[j].op # "foreign"
    BY <2>1 DEF PeerOK, PeerAnswers
  <2>3. p.session = 0 \/ p.session = v.session
    BY <1>1, <2>1 DEF MaySend, Askers, StageOp, ProbeStages, ProbeOps
  <2>4. PeerKnows(w, s) => PeerKnows(v, s)
    BY <1>1, <1>7, <2>1, <2>3 DEF PeerKnows, SameOrigin
  <2>5. \A j \in DOMAIN w.out : w.out[j].op # "foreign"
    BY <1>2, <1>8, <2>2
  <2> QED BY <1>7, <1>17, <2>2, <2>4, <2>5 DEF SameOrigin
<1>20. PeerOrder(w)
  <2>1. PeerOrder(v)
    BY DEF PeerOK
  <2>2. \A j, k \in DOMAIN w.out : w.out[j].op = "foreign" /\ w.out[k].op = "attach" => j < k
    BY <1>2, <1>6, <1>8, <2>1 DEF PeerOrder, PeerMore
  <2>3. \A q \in w.pending : q.op = "detach" =>
          \A j \in DOMAIN w.in :
             w.in[j].kind = "reply" /\ w.in[j].id = q.id /\ w.in[j].ok => q.session \notin w.live
    BY <1>1, <1>7, <1>9, <2>1 DEF PeerOrder
  <2>4. \A x \in w.ready : x.ok /\ (x.by = "background" \/ w.stage \in {"leftover", "release"}) =>
          x.session \notin w.live
    BY <1>1, <1>7, <2>1, PeerType DEF PeerOK, PeerServes, MaySend, Outcomes, PeerOrder, Askers
  <2>5. \A b \in w.att : b.session \in {0, w.session} \cup w.retired
    BY <1>3, <1>7, <1>11, <2>1 DEF PeerOrder, SameOrigin
  <2> QED BY <1>7, <2>1, <2>2, <2>3, <2>4, <2>5 DEF PeerOrder, SameOrigin
<1>21. PeerServes(w)
  BY <1>1, <1>4, <1>7, <1>10 DEF PeerOK, PeerServes, MaySend, SameOrigin
<1>22. PeerFaithful(w)
  <2> SUFFICES ASSUME ~ v.mistaken PROVE PeerFaithful(w)
    BY <1>7 DEF PeerFaithful
  <2>1. \A s : PeerQuiet(v, s) <=> PeerQuiet(w, s)
    BY <1>7 DEF PeerQuiet
  <2>2. \A s \in w.live : w.session = s \/ \E b \in w.att : PeerAnswer(w, b.id, s)
    BY <1>4, <1>7, <1>16 DEF PeerOK, PeerFaithful, SameOrigin
  <2>3. \A k \in DOMAIN w.out : w.out[k].op = "detach" => w.out[k].session \notin w.foreign
    BY <1>1, <1>2, <1>7, <1>8 DEF MaySend, Askers, StageOp, ProbeStages, PeerOK, PeerFaithful
  <2>4. \A k \in DOMAIN w.out : w.out[k].op = "attach" => w.live = {} /\ w.session = 0 /\ PeerQuiet(w, 0)
    BY <1>2, <1>7, <1>8, <1>10, <2>1 DEF MaySend, SameOrigin, PeerOK, PeerFaithful
  <2>5. \A b \in w.att : \A s \in w.live :
            PeerAnswer(w, b.id, s) /\ w.session \in {0, s} /\ PeerQuiet(w, s)
    BY <1>4, <1>7, <1>10, <1>16, <2>1 DEF SameOrigin, MaySend, PeerOK, PeerFaithful
  <2> QED BY <1>7, <1>17, <2>2, <2>3, <2>4, <2>5 DEF PeerOK, PeerFaithful, SameOrigin
<1>23. PeerStaged(w)
  BY <1>1, <1>2, <1>7, <1>8, <1>9, <1>10 DEF PeerStaged, PeerOK, PeerServes, MaySend, PeerFaithful
<1> QED BY <1>13, <1>14, <1>15, <1>19, <1>20, <1>21, <1>22, <1>23 DEF PeerOK

\* The first frame is read.
PeerReads(v, w) ==
    /\ PeerRest(v.in, w.in)
    /\ w.live = v.live /\ w.foreign = v.foreign /\ w.owed = v.owed /\ w.out = v.out
    /\ w.ids = v.ids /\ w.attached = v.attached

\* Reading a frame makes no reply or notice appear.
LEMMA PeerReadsLess ==
    ASSUME NEW v, NEW w, PeerReads(v, w)
    PROVE  /\ \A k \in DOMAIN w.in : k + 1 \in DOMAIN v.in /\ w.in[k] = v.in[k + 1]
           /\ 1 \in DOMAIN v.in /\ v.in # <<>>
           /\ \A i, s : PeerAnswer(w, i, s) => PeerAnswer(v, i, s)
           /\ \A i, s : PeerAnswer(v, i, s) /\ ~ (v.in[1].kind = "reply" /\ v.in[1].id = i) => PeerAnswer(w, i, s)
           /\ \A kind, s : PeerTold(w, kind, s) => PeerTold(v, kind, s)
           /\ \A kind, s : PeerTold(v, kind, s) =>
                 PeerTold(w, kind, s) \/ (v.in[1].kind = kind /\ v.in[1].session = s)
           /\ \A s : PeerQuiet(v, s) => PeerQuiet(w, s)
<1>1. /\ v.in # <<>> /\ 1 \in DOMAIN v.in
      /\ \A k \in DOMAIN w.in : k + 1 \in DOMAIN v.in /\ w.in[k] = v.in[k + 1]
      /\ \A k \in DOMAIN v.in : k = 1 \/ (k - 1 \in DOMAIN w.in /\ w.in[k - 1] = v.in[k])
  BY DEF PeerReads, PeerRest
<1>2. w.owed = v.owed /\ w.foreign = v.foreign
  BY DEF PeerReads
<1>3. \A i, s : PeerAnswer(w, i, s) => PeerAnswer(v, i, s)
  BY <1>1, <1>2 DEF PeerAnswer
<1>4. \A i, s : PeerAnswer(v, i, s) /\ ~ (v.in[1].kind = "reply" /\ v.in[1].id = i) => PeerAnswer(w, i, s)
  BY <1>1, <1>2 DEF PeerAnswer
<1>5. \A kind, s : PeerTold(w, kind, s) => PeerTold(v, kind, s)
  BY <1>1 DEF PeerTold
<1>6. \A kind, s : PeerTold(v, kind, s) =>
                 PeerTold(w, kind, s) \/ (v.in[1].kind = kind /\ v.in[1].session = s)
  BY <1>1 DEF PeerTold
<1>7. \A s : PeerQuiet(v, s) => PeerQuiet(w, s)
  BY <1>1, <1>2 DEF PeerQuiet
<1> QED BY <1>1, <1>3, <1>4, <1>5, <1>6, <1>7

\* What reading does to the order of what is still to be read.
LEMMA PeerReadsOrder ==
    ASSUME NEW v, NEW w, PeerReads(v, w), PeerOrder(v), v.in \in Seq(PeerFrames)
    PROVE  /\ \A j, k \in DOMAIN w.out : w.out[j].op = "foreign" /\ w.out[k].op = "attach" => j < k
           /\ \A j \in DOMAIN w.in : w.in[j].kind = "attached" =>
                \/ w.in[j].session \in w.live \cup w.foreign
                \/ \E k \in DOMAIN w.in : k > j /\ w.in[k].kind = "detached" /\ w.in[k].session = w.in[j].session
           /\ \A j \in DOMAIN w.in : w.in[j].kind = "detached" => w.in[j].session \notin w.live
<1>1. /\ \A k \in DOMAIN w.in : k + 1 \in DOMAIN v.in /\ w.in[k] = v.in[k + 1] /\ k \in Nat
      /\ \A k \in DOMAIN v.in : k = 1 \/ (k - 1 \in DOMAIN w.in /\ w.in[k - 1] = v.in[k])
      /\ DOMAIN v.in \subseteq Nat /\ 1 \in DOMAIN v.in
      /\ \A k \in DOMAIN w.in : k >= 1
  BY DEF PeerReads, PeerRest
<1>2. w.live = v.live /\ w.foreign = v.foreign /\ w.out = v.out
  BY DEF PeerReads
<1>3. \A j \in DOMAIN w.in : w.in[j].kind = "attached" =>
                \/ w.in[j].session \in w.live \cup w.foreign
                \/ \E k \in DOMAIN w.in : k > j /\ w.in[k].kind = "detached" /\ w.in[k].session = w.in[j].session
  <2> SUFFICES ASSUME NEW j \in DOMAIN w.in, w.in[j].kind = "attached",
                      w.in[j].session \notin w.live \cup w.foreign
               PROVE  \E k \in DOMAIN w.in : k > j /\ w.in[k].kind = "detached" /\ w.in[k].session = w.in[j].session
    OBVIOUS
  <2>1. j + 1 \in DOMAIN v.in /\ w.in[j] = v.in[j + 1] /\ j \in Nat /\ j >= 1
    BY <1>1
  <2>2. PICK k \in DOMAIN v.in : k > j + 1 /\ v.in[k].kind = "detached" /\ v.in[k].session = w.in[j].session
    BY <1>2, <2>1 DEF PeerOrder
  <2>3. k \in Nat /\ k # 1 /\ k - 1 > j
    BY <1>1, <2>1, <2>2
  <2>4. k - 1 \in DOMAIN w.in /\ w.in[k - 1] = v.in[k]
    BY <1>1, <2>3
  <2> QED BY <2>2, <2>3, <2>4
<1>4. \A j \in DOMAIN w.in : w.in[j].kind = "detached" => w.in[j].session \notin w.live
  BY <1>1, <1>2 DEF PeerOrder
<1> QED BY <1>2, <1>3, <1>4 DEF PeerOrder

\* The numbers and the sizes after reading.
LEMMA PeerReadsNumbers ==
    ASSUME NEW v, NEW w, PeerReads(v, w), PeerNumbers(v), PeerSizes(v), v.in \in Seq(PeerFrames)
    PROVE  /\ \A k \in DOMAIN w.in : \A j \in DOMAIN w.out : w.in[k].kind = "reply" => w.in[k].id # w.out[j].id
           /\ \A j, k \in DOMAIN w.in :
                w.in[j].kind = "reply" /\ w.in[k].kind = "reply" /\ w.in[j].id = w.in[k].id => j = k
           /\ \A k \in DOMAIN w.in : \A j \in DOMAIN w.owed : w.in[k].kind = "reply" => w.in[k].id # w.owed[j].id
           /\ \A j, k \in DOMAIN w.in :
                w.in[j].kind = "attached" /\ w.in[k].kind = "attached" /\ w.in[j].session = w.in[k].session => j = k
           /\ \A k \in DOMAIN w.in : w.in[k].kind = "reply" /\ v.in[1].kind = "reply" => w.in[k].id # v.in[1].id
           /\ \A k \in DOMAIN w.in :
                w.in[k].kind = "attached" /\ v.in[1].kind = "attached" => w.in[k].session # v.in[1].session
           /\ \A k \in DOMAIN w.in :
                /\ w.in[k].session \in 0 .. w.attached
                /\ w.in[k].kind = "reply" => w.in[k].id \in 1 .. w.ids
                /\ w.in[k].kind # "reply" => w.in[k].session # 0
<1>1. /\ \A k \in DOMAIN w.in : k + 1 \in DOMAIN v.in /\ w.in[k] = v.in[k + 1] /\ k \in Nat /\ k + 1 # 1
      /\ 1 \in DOMAIN v.in
  BY DEF PeerReads, PeerRest
<1>2. w.out = v.out /\ w.owed = v.owed /\ w.attached = v.attached /\ w.ids = v.ids
  BY DEF PeerReads
<1>3. \A j, k \in DOMAIN w.in :
         w.in[j].kind = "reply" /\ w.in[k].kind = "reply" /\ w.in[j].id = w.in[k].id => j = k
  <2> SUFFICES ASSUME NEW j \in DOMAIN w.in, NEW k \in DOMAIN w.in,
                      w.in[j].kind = "reply", w.in[k].kind = "reply", w.in[j].id = w.in[k].id
               PROVE  j = k
    OBVIOUS
  <2>1. j + 1 = k + 1
    BY <1>1 DEF PeerNumbers
  <2> QED BY <1>1, <2>1
<1>4. \A j, k \in DOMAIN w.in :
         w.in[j].kind = "attached" /\ w.in[k].kind = "attached" /\ w.in[j].session = w.in[k].session => j = k
  <2> SUFFICES ASSUME NEW j \in DOMAIN w.in, NEW k \in DOMAIN w.in,
                      w.in[j].kind = "attached", w.in[k].kind = "attached", w.in[j].session = w.in[k].session
               PROVE  j = k
    OBVIOUS
  <2>1. j + 1 = k + 1
    BY <1>1 DEF PeerNumbers
  <2> QED BY <1>1, <2>1
<1>5. /\ \A k \in DOMAIN w.in : w.in[k].kind = "reply" /\ v.in[1].kind = "reply" => w.in[k].id # v.in[1].id
      /\ \A k \in DOMAIN w.in :
           w.in[k].kind = "attached" /\ v.in[1].kind = "attached" => w.in[k].session # v.in[1].session
  BY <1>1 DEF PeerNumbers
<1>6. /\ \A k \in DOMAIN w.in : \A j \in DOMAIN w.out : w.in[k].kind = "reply" => w.in[k].id # w.out[j].id
      /\ \A k \in DOMAIN w.in : \A j \in DOMAIN w.owed : w.in[k].kind = "reply" => w.in[k].id # w.owed[j].id
  BY <1>1, <1>2 DEF PeerNumbers
<1>7. \A k \in DOMAIN w.in :
         /\ w.in[k].session \in 0 .. w.attached
         /\ w.in[k].kind = "reply" => w.in[k].id \in 1 .. w.ids
         /\ w.in[k].kind # "reply" => w.in[k].session # 0
  BY <1>1, <1>2 DEF PeerSizes
<1> QED BY <1>3, <1>4, <1>5, <1>6, <1>7

\* The attachment of session s is the last one that is told.
PeerLast(v, s) ==
    \A j \in DOMAIN v.in : v.in[j].kind = "attached" /\ v.in[j].session # s =>
       \E k \in DOMAIN v.in : k > j /\ v.in[k].kind = "attached" /\ v.in[k].session = s

\* The session that is heard of last stays the last.
LEMMA PeerReadsLast ==
    ASSUME NEW v, NEW w, PeerReads(v, w), v.in \in Seq(PeerFrames), NEW s, PeerLast(v, s)
    PROVE  /\ PeerLast(w, s)
           /\ v.in[1].kind = "attached" /\ v.in[1].session # s => PeerTold(w, "attached", s)
<1>1. /\ \A k \in DOMAIN w.in : k + 1 \in DOMAIN v.in /\ w.in[k] = v.in[k + 1] /\ k \in Nat /\ k >= 1
      /\ \A k \in DOMAIN v.in : k = 1 \/ (k - 1 \in DOMAIN w.in /\ w.in[k - 1] = v.in[k])
      /\ DOMAIN v.in \subseteq Nat /\ 1 \in DOMAIN v.in
  BY DEF PeerReads, PeerRest
<1>2. ASSUME NEW j \in DOMAIN w.in, w.in[j].kind = "attached", w.in[j].session # s
      PROVE  \E k \in DOMAIN w.in : k > j /\ w.in[k].kind = "attached" /\ w.in[k].session = s
  <2>1. j + 1 \in DOMAIN v.in /\ w.in[j] = v.in[j + 1] /\ j \in Nat /\ j >= 1
    BY <1>1
  <2>2. PICK k \in DOMAIN v.in : k > j + 1 /\ v.in[k].kind = "attached" /\ v.in[k].session = s
    BY <1>2, <2>1 DEF PeerLast
  <2>3. k \in Nat /\ k # 1 /\ k - 1 > j
    BY <1>1, <2>1, <2>2
  <2>4. k - 1 \in DOMAIN w.in /\ w.in[k - 1] = v.in[k]
    BY <1>1, <2>3
  <2> QED BY <2>2, <2>3, <2>4
<1>3. ASSUME v.in[1].kind = "attached", v.in[1].session # s PROVE PeerTold(w, "attached", s)
  BY <1>1, <1>3 DEF PeerLast, PeerTold
<1> QED BY <1>2, <1>3 DEF PeerLast

\* A frame is read that changes nothing.
LEMMA PeerIgnores ==
    ASSUME NEW v, NEW w \in PeerViews, PeerOK(v), PeerReads(v, w), NEW f, f = v.in[1],
           SameOrigin(v, w), SameAwait(v, w), SameProbe(v, w), w.mistaken = v.mistaken,
           \/ f.kind = "reply" /\ (\A a \in v.att : a.id # f.id) /\ \A p \in v.pending : p.id # f.id
           \/ f.kind = "attached" /\ (v.att = {} \/ f.session \in v.retired)
           \/ f.kind = "detached" /\ f.session # v.session
    PROVE  PeerOK(w)
<1>1. /\ v \in PeerViews /\ v.in \in Seq(PeerFrames) /\ v.open \in BOOLEAN
      /\ PeerNumbers(v) /\ PeerSizes(v) /\ PeerOrder(v) /\ PeerAnswers(v)
  BY PeerType DEF PeerOK
<1>2. /\ \A k \in DOMAIN w.in : k + 1 \in DOMAIN v.in /\ w.in[k] = v.in[k + 1]
      /\ 1 \in DOMAIN v.in /\ v.in # <<>>
      /\ \A i, s : PeerAnswer(w, i, s) => PeerAnswer(v, i, s)
      /\ \A i, s : PeerAnswer(v, i, s) /\ ~ (f.kind = "reply" /\ f.id = i) => PeerAnswer(w, i, s)
      /\ \A kind, s : PeerTold(w, kind, s) => PeerTold(v, kind, s)
      /\ \A kind, s : PeerTold(v, kind, s) => PeerTold(w, kind, s) \/ (f.kind = kind /\ f.session = s)
      /\ \A s : PeerQuiet(v, s) => PeerQuiet(w, s)
  BY PeerReadsLess
<1>3. /\ w.live = v.live /\ w.foreign = v.foreign /\ w.owed = v.owed /\ w.out = v.out
      /\ w.ids = v.ids /\ w.attached = v.attached
  BY DEF PeerReads
<1>4. PeerSizes(w)
  BY SMTT(20), <1>1, <1>3, PeerReadsNumbers DEF PeerSizes, SameOrigin, SameAwait
<1>5. PeerShut(w)
  BY <1>2 DEF PeerOK, PeerShut, SameOrigin
<1>6. PeerNumbers(w)
  BY SMTT(20), <1>1, <1>2, <1>3, PeerReadsNumbers DEF PeerNumbers, SameAwait
<1>7. PeerAnswers(w)
  <2> SUFFICES ASSUME NEW a \in v.att, NEW s \in 1 .. v.attached, PeerAnswer(v, a.id, s)
               PROVE  /\ s \notin w.foreign
                      /\ PeerTold(w, "attached", s) => ~ PeerKnows(w, s)
                      /\ ~ PeerTold(w, "attached", s) =>
                            a.session = s /\ (w.session = s \/ (s \in w.retired /\ a.released))
                      /\ \A j \in DOMAIN w.in : w.in[j].kind = "attached" /\ w.in[j].session # s =>
                            \E k \in DOMAIN w.in : k > j /\ w.in[k].kind = "attached" /\ w.in[k].session = s
                      /\ \A j \in DOMAIN w.out : w.out[j].op # "foreign"
    BY <1>2, <1>3 DEF PeerAnswers, SameAwait
  <2>1. /\ s \notin v.foreign
        /\ PeerTold(v, "attached", s) => ~ PeerKnows(v, s)
        /\ ~ PeerTold(v, "attached", s) =>
              a.session = s /\ (v.session = s \/ (s \in v.retired /\ a.released))
        /\ \A j \in DOMAIN v.in : v.in[j].kind = "attached" /\ v.in[j].session # s =>
              \E k \in DOMAIN v.in : k > j /\ v.in[k].kind = "attached" /\ v.in[k].session = s
        /\ \A j \in DOMAIN v.out : v.out[j].op # "foreign"
    BY <1>1 DEF PeerAnswers
  <2>2. PeerKnows(w, s) <=> PeerKnows(v, s)
    BY DEF PeerKnows, SameOrigin, SameAwait
  <2>3. \A j \in DOMAIN w.in : w.in[j].kind = "attached" /\ w.in[j].session # s =>
                            \E k \in DOMAIN w.in : k > j /\ w.in[k].kind = "attached" /\ w.in[k].session = s
    <3>1. PeerLast(v, s)
      BY <2>1 DEF PeerLast
    <3>2. PeerLast(w, s)
      BY <1>1, <3>1, PeerReadsLast
    <3> QED BY <3>2 DEF PeerLast
  <2>4. PeerTold(v, "attached", s) => PeerTold(w, "attached", s)
    BY <1>2, <2>1 DEF PeerKnows
  <2> QED BY <1>2, <1>3, <2>1, <2>2, <2>3, <2>4 DEF SameOrigin
<1>8. PeerOrder(w)
  BY <1>1, <1>2, <1>3, PeerReadsOrder DEF PeerOrder, SameAwait, SameOrigin, SameProbe
<1>9. PeerServes(w)
  BY DEF PeerOK, PeerServes, SameOrigin, SameAwait, SameProbe
<1>10. PeerFaithful(w)
  BY <1>2, <1>3 DEF PeerFaithful, PeerOK, SameOrigin, SameAwait
<1>11. PeerStaged(w)
  <2> SUFFICES ASSUME ~ v.mistaken PROVE PeerStaged(w)
    BY DEF PeerStaged
  <2>1. PeerStaged(v)
    BY DEF PeerOK
  <2>2. ASSUME w.stage = "targets", NEW j \in DOMAIN w.in, w.in[j].kind # "reply", w.in[j].session \notin w.foreign
        PROVE  /\ \A p \in w.pending : p.by = "probe" =>
                        \A k \in DOMAIN w.in : w.in[k].kind = "reply" /\ w.in[k].id = p.id => j < k
               /\ \A x \in w.ready : x.by = "probe" => ~ x.ok
    <3>1. j + 1 \in DOMAIN v.in /\ w.in[j] = v.in[j + 1] /\ \A k \in DOMAIN w.in : k \in Nat
      BY <1>2 DEF PeerReads, PeerRest
    <3>2. /\ \A p \in v.pending : p.by = "probe" =>
                        \A k \in DOMAIN v.in : v.in[k].kind = "reply" /\ v.in[k].id = p.id => j + 1 < k
          /\ \A x \in v.ready : x.by = "probe" => ~ x.ok
      BY <1>3, <2>1, <2>2, <3>1 DEF PeerStaged, SameProbe
    <3>3. ASSUME NEW p \in w.pending, p.by = "probe", NEW k \in DOMAIN w.in, w.in[k].kind = "reply", w.in[k].id = p.id
          PROVE  j < k
      BY <1>2, <3>1, <3>2, <3>3 DEF SameAwait
    <3> QED BY <3>2, <3>3 DEF SameAwait
  <2>3. w.stage = "targets" => w.live = {}
    BY <1>3, <2>1 DEF PeerStaged, SameProbe
  <2>4. w.stage = "leftover" =>
             /\ \A k \in DOMAIN w.out : w.out[k].op # "attach"
             /\ \A p \in w.pending : p.by = "probe" => \A s \in w.live : s = p.session
             /\ \A x \in w.ready : x.by = "probe" => \A s \in w.live : s = x.session
    BY <1>3, <2>1 DEF PeerStaged, SameProbe, SameAwait
  <2> QED BY <2>2, <2>3, <2>4 DEF PeerStaged
<1> QED BY <1>4, <1>5, <1>6, <1>7, <1>8, <1>9, <1>10, <1>11 DEF PeerOK

\* An event of the page tells the session of the attachment that is awaited.
LEMMA PeerAttaches ==
    ASSUME NEW v, NEW w \in PeerViews, PeerOK(v), PeerReads(v, w), NEW f, f = v.in[1],
           SameProbe(v, w), NEW a \in v.att, NEW b,
           f.kind = "attached", f.session \notin v.retired,
           w.open = v.open, w.retired = v.retired, w.session = f.session,
           w.pending = v.pending, w.ready = v.ready, w.att = {b},
           b.id = a.id, b.client = a.client, b.released = a.released, b.session = f.session,
           w.mistaken = (v.mistaken \/ f.session \in v.foreign)
    PROVE  PeerOK(w)
<1> DEFINE s == f.session
<1>1. /\ v \in PeerViews /\ v.in \in Seq(PeerFrames) /\ v.attached \in Nat
      /\ PeerNumbers(v) /\ PeerSizes(v) /\ PeerOrder(v) /\ PeerAnswers(v)
  BY PeerType DEF PeerOK
<1>2. /\ \A k \in DOMAIN w.in : k + 1 \in DOMAIN v.in /\ w.in[k] = v.in[k + 1]
      /\ 1 \in DOMAIN v.in /\ v.in # <<>>
      /\ \A i, o : PeerAnswer(w, i, o) <=> PeerAnswer(v, i, o)
      /\ \A kind, o : PeerTold(w, kind, o) => PeerTold(v, kind, o)
      /\ \A kind, o : PeerTold(v, kind, o) => PeerTold(w, kind, o) \/ (f.kind = kind /\ s = o)
      /\ \A o : PeerQuiet(v, o) => PeerQuiet(w, o)
  BY PeerReadsLess
<1>3. /\ w.live = v.live /\ w.foreign = v.foreign /\ w.owed = v.owed /\ w.out = v.out
      /\ w.ids = v.ids /\ w.attached = v.attached
  BY DEF PeerReads
<1>4. v.att = {a} /\ w.att = {b}
  BY <1>1 DEF PeerNumbers
<1>5. s \in 1 .. v.attached /\ s # 0
  BY <1>1, <1>2 DEF PeerSizes
<1>6. PeerTold(v, "attached", s)
  BY <1>2 DEF PeerTold
<1>7. \A i : (\E d \in w.att : d.id = i) <=> \E d \in v.att : d.id = i
  BY <1>4
<1> HIDE DEF s
<1>8. PeerSizes(w)
  <2>1. \A k \in DOMAIN w.in :
                /\ w.in[k].session \in 0 .. w.attached
                /\ w.in[k].kind = "reply" => w.in[k].id \in 1 .. w.ids
                /\ w.in[k].kind # "reply" => w.in[k].session # 0
    BY <1>1, PeerReadsNumbers
  <2>2. \A d \in w.att : d.id \in 1 .. w.ids /\ d.session \in 0 .. w.attached
    BY <1>1, <1>3, <1>4, <1>5 DEF PeerSizes, s
  <2>3. w.session \in 0 .. w.attached
    BY <1>1, <1>3, <1>5 DEF s
  <2> QED BY <1>1, <1>3, <2>1, <2>2, <2>3 DEF PeerSizes
<1>9. PeerShut(w)
  BY <1>2 DEF PeerOK, PeerShut
<1>10. PeerNumbers(w)
  BY <1>1, <1>2, <1>3, <1>4, <1>7, PeerReadsNumbers DEF PeerNumbers
<1>11. PeerAnswers(w)
  <2> SUFFICES ASSUME NEW o \in 1 .. v.attached, PeerAnswer(v, a.id, o)
               PROVE  /\ o \notin w.foreign
                      /\ PeerTold(w, "attached", o) => ~ PeerKnows(w, o)
                      /\ ~ PeerTold(w, "attached", o) =>
                            b.session = o /\ (w.session = o \/ (o \in w.retired /\ b.released))
                      /\ \A j \in DOMAIN w.in : w.in[j].kind = "attached" /\ w.in[j].session # o =>
                            \E k \in DOMAIN w.in : k > j /\ w.in[k].kind = "attached" /\ w.in[k].session = o
                      /\ \A j \in DOMAIN w.out : w.out[j].op # "foreign"
    BY <1>2, <1>3, <1>4 DEF PeerAnswers
  <2>1. /\ o \notin v.foreign
        /\ PeerTold(v, "attached", o) => ~ PeerKnows(v, o)
        /\ \A j \in DOMAIN v.in : v.in[j].kind = "attached" /\ v.in[j].session # o =>
              \E k \in DOMAIN v.in : k > j /\ v.in[k].kind = "attached" /\ v.in[k].session = o
        /\ \A j \in DOMAIN v.out : v.out[j].op # "foreign"
    BY <1>1 DEF PeerAnswers
  <2>2. \A j \in DOMAIN w.in : w.in[j].kind = "attached" /\ w.in[j].session # o =>
                            \E k \in DOMAIN w.in : k > j /\ w.in[k].kind = "attached" /\ w.in[k].session = o
    <3>1. PeerLast(v, o)
      BY <2>1 DEF PeerLast
    <3>2. PeerLast(w, o)
      BY <1>1, <3>1, PeerReadsLast
    <3> QED BY <3>2 DEF PeerLast
  <2>3. s # o => PeerTold(w, "attached", o)
    BY <1>1, <2>1, PeerReadsLast DEF PeerLast, s
  <2>4. PeerTold(w, "attached", o) => s # o
    BY <1>1, PeerReadsNumbers DEF s, PeerTold
  <2>5. PeerTold(w, "attached", o) => ~ PeerKnows(w, o)
    BY <1>2, <2>1, <2>4 DEF PeerKnows, s
  <2> QED BY <1>3, <2>1, <2>2, <2>3, <2>5 DEF s
<1>12. PeerOrder(w)
  BY <1>1, <1>2, <1>3, PeerReadsOrder DEF PeerOrder, SameProbe
<1>13. PeerServes(w)
  BY <1>4 DEF PeerOK, PeerServes, SameProbe
<1>14. PeerFaithful(w)
  <2> SUFFICES ASSUME ~ v.mistaken, s \notin v.foreign PROVE PeerFaithful(w)
    BY DEF PeerFaithful, s
  <2>1. PeerFaithful(v)
    BY DEF PeerOK
  <2>2. \A o \in v.live : PeerAnswer(v, a.id, o) /\ PeerQuiet(v, o) /\ s = o
    BY <1>2, <2>1 DEF PeerFaithful, PeerQuiet, s
  <2>3. s \in v.live \/ PeerTold(w, "detached", s)
    <3>1. s \in v.live \cup v.foreign \/ PeerTold(v, "detached", s)
      BY <1>1, <1>2 DEF PeerOrder, PeerTold, s
    <3> QED BY <1>2, <3>1
  <2>4. \A k \in DOMAIN v.out : v.out[k].op # "attach"
    BY <1>2, <1>5, <2>1 DEF PeerFaithful, PeerQuiet, s
  <2>5. \A d \in w.att : \A o \in w.live :
              PeerAnswer(w, d.id, o) /\ w.session \in {0, o} /\ PeerQuiet(w, o)
    BY <1>2, <1>3, <1>4, <2>2 DEF s
  <2>6. \A o \in w.live : w.session = o /\ o \notin w.retired
    BY <1>3, <2>1, <2>2 DEF PeerFaithful, s
  <2> QED BY <1>3, <2>1, <2>3, <2>4, <2>5, <2>6 DEF PeerFaithful, s
<1>15. PeerStaged(w)
  <2>1. PeerStaged(v) /\ v.stage # "targets"
    BY <1>4 DEF PeerOK, PeerServes
  <2> QED BY ZenonT(30), <1>3, <2>1 DEF PeerStaged, SameProbe
<1> QED BY <1>8, <1>9, <1>10, <1>11, <1>12, <1>13, <1>14, <1>15 DEF PeerOK

\* The outcome of command p with the reply f.
Answered(p, f, x) ==
    x.by = p.by /\ x.ok = f.ok /\ x.session = IF p.op = "attach" THEN f.session ELSE p.session

\* A reply is read.
PeerReadsReply(v, w, f) ==
    /\ w.open = v.open /\ w.retired = v.retired /\ w.mistaken = v.mistaken
    /\ w.att = {a \in v.att : a.id # f.id}
    /\ w.session = IF \/ f.session = 0 \/ \A a \in v.att : a.id # f.id
                     \/ \E a \in v.att : a.id = f.id /\ a.released /\ a.session = f.session
                  THEN v.session ELSE f.session
    /\ w.pending = {p \in v.pending : p.id # f.id}
    /\ \A x \in w.ready : x \in v.ready \/ \E p \in v.pending : p.id = f.id /\ Answered(p, f, x)

\* A reply is read, and whoever awaits it is answered (receiveMiniapp).
LEMMA PeerReplied ==
    ASSUME NEW v, NEW w \in PeerViews, PeerOK(v), PeerReads(v, w), NEW f, f = v.in[1],
           f.kind = "reply", SameProbe(v, w), PeerReadsReply(v, w, f)
    PROVE  PeerOK(w)
<1>1. /\ v \in PeerViews /\ v.in \in Seq(PeerFrames) /\ v.attached \in Nat /\ v.ids \in Nat
      /\ v.ready \in SUBSET Outcomes /\ v.pending \in SUBSET ProbeRequests
      /\ PeerNumbers(v) /\ PeerSizes(v) /\ PeerOrder(v) /\ PeerAnswers(v) /\ PeerServes(v)
  BY PeerType DEF PeerOK
<1>2. /\ \A k \in DOMAIN w.in : k + 1 \in DOMAIN v.in /\ w.in[k] = v.in[k + 1]
      /\ 1 \in DOMAIN v.in /\ v.in # <<>>
      /\ \A i, s : PeerAnswer(w, i, s) => PeerAnswer(v, i, s)
      /\ \A i, s : PeerAnswer(v, i, s) /\ ~ (f.kind = "reply" /\ f.id = i) => PeerAnswer(w, i, s)
      /\ \A kind, s : PeerTold(w, kind, s) => PeerTold(v, kind, s)
      /\ \A kind, s : PeerTold(v, kind, s) => PeerTold(w, kind, s) \/ (f.kind = kind /\ f.session = s)
      /\ \A s : PeerQuiet(v, s) => PeerQuiet(w, s)
  BY PeerReadsLess
<1>3. /\ w.live = v.live /\ w.foreign = v.foreign /\ w.owed = v.owed /\ w.out = v.out
      /\ w.ids = v.ids /\ w.attached = v.attached
  BY DEF PeerReads
<1>4. /\ w.open = v.open /\ w.retired = v.retired /\ w.mistaken = v.mistaken
      /\ w.pending \subseteq v.pending /\ w.att \subseteq v.att
      /\ \A p \in w.pending : p.id # f.id
      /\ \A p \in v.pending : p.id # f.id => p \in w.pending
  BY DEF PeerReadsReply
<1>5. \A x \in w.ready : x \in v.ready \/ \E p \in v.pending : p.id = f.id /\ Answered(p, f, x)
  BY DEF PeerReadsReply
<1>6. (\A a \in v.att : a.id # f.id) \/ w.att = {}
  BY <1>1 DEF PeerNumbers, PeerReadsReply
<1>7. (\A a \in v.att : a.id # f.id) => w.att = v.att /\ w.session = v.session /\ f.session = 0
  BY <1>1, <1>2 DEF PeerNumbers, PeerReadsReply
<1>8. /\ f.session \in 0 .. v.attached /\ f.id \in 1 .. v.ids
      /\ \A k \in DOMAIN v.out : v.out[k].id # f.id
      /\ \A k \in DOMAIN v.owed : v.owed[k].id # f.id
      /\ \A a \in v.att : a.id = f.id => (f.ok <=> f.session # 0)
      /\ \A k \in DOMAIN w.in : w.in[k].kind = "reply" => w.in[k].id # f.id
  BY <1>1, <1>2, PeerReadsNumbers DEF PeerNumbers, PeerSizes
\* The session that becomes known.
<1>9. w.session # v.session =>
         /\ w.session = f.session /\ f.session # 0 /\ f.session \notin v.foreign
         /\ f.session \notin v.retired /\ PeerTold(v, "attached", f.session)
         /\ \E a \in v.att : a.id = f.id
  <2> SUFFICES ASSUME w.session # v.session, NEW a \in v.att, a.id = f.id
               PROVE  /\ f.session \notin v.foreign
                      /\ f.session \notin v.retired /\ PeerTold(v, "attached", f.session)
    BY DEF PeerReadsReply
  <2>1. /\ w.session = f.session /\ f.session # 0 /\ f.session \in 1 .. v.attached
        /\ ~ (a.released /\ a.session = f.session)
    BY <1>1, <1>8 DEF PeerReadsReply
  <2>2. PeerAnswer(v, a.id, f.session)
    BY <1>2 DEF PeerAnswer
  <2>3. /\ f.session \notin v.foreign
        /\ PeerTold(v, "attached", f.session) => ~ PeerKnows(v, f.session)
        /\ ~ PeerTold(v, "attached", f.session) =>
              a.session = f.session /\ (v.session = f.session \/ (f.session \in v.retired /\ a.released))
    BY <1>1, <2>1, <2>2 DEF PeerAnswers
  <2>4. PeerTold(v, "attached", f.session)
    BY <2>1, <2>3
  <2> QED BY <2>3, <2>4 DEF PeerKnows
<1>10. PeerSizes(w)
  <2>1. \A k \in DOMAIN w.in :
                /\ w.in[k].session \in 0 .. w.attached
                /\ w.in[k].kind = "reply" => w.in[k].id \in 1 .. w.ids
                /\ w.in[k].kind # "reply" => w.in[k].session # 0
    BY <1>1, PeerReadsNumbers
  <2>2. \A x \in w.ready : x.session \in 0 .. w.attached
    BY <1>1, <1>3, <1>5, <1>8 DEF PeerSizes, Answered
  <2>3. w.session \in 0 .. w.attached
    BY <1>1, <1>3, <1>8, <1>9 DEF PeerSizes
  <2> QED BY <1>1, <1>3, <1>4, <2>1, <2>2, <2>3 DEF PeerSizes
<1>11. PeerShut(w)
  BY <1>2, <1>4 DEF PeerOK, PeerShut
<1>12. PeerNumbers(w)
  <2>1. /\ \A k \in DOMAIN w.in : \A j \in DOMAIN w.out : w.in[k].kind = "reply" => w.in[k].id # w.out[j].id
        /\ \A j, k \in DOMAIN w.in :
                w.in[j].kind = "reply" /\ w.in[k].kind = "reply" /\ w.in[j].id = w.in[k].id => j = k
        /\ \A k \in DOMAIN w.in : \A j \in DOMAIN w.owed : w.in[k].kind = "reply" => w.in[k].id # w.owed[j].id
        /\ \A j, k \in DOMAIN w.in :
                w.in[j].kind = "attached" /\ w.in[k].kind = "attached" /\ w.in[j].session = w.in[k].session => j = k
    BY <1>1, PeerReadsNumbers
  <2>2. \A i : i # f.id => ((\E a \in w.att : a.id = i) <=> \E a \in v.att : a.id = i)
    BY DEF PeerReadsReply
  <2>3. \A k \in DOMAIN w.in : w.in[k].kind = "reply" =>
          /\ w.in[k].session # 0 => \E a \in w.att : a.id = w.in[k].id
          /\ \A a \in w.att : a.id = w.in[k].id => (w.in[k].ok <=> w.in[k].session # 0)
    <3>1. \A k \in DOMAIN w.in : w.in[k].kind = "reply" =>
          /\ w.in[k].session # 0 => \E a \in v.att : a.id = w.in[k].id
          /\ \A a \in v.att : a.id = w.in[k].id => (w.in[k].ok <=> w.in[k].session # 0)
      BY <1>1, <1>2 DEF PeerNumbers
    <3> QED BY <1>4, <1>8, <2>2, <3>1
  <2>4. \A p \in w.pending : p.op = "attach" <=> \E a \in w.att : a.id = p.id
    BY <1>1, <1>4, <2>2 DEF PeerNumbers
  <2>5. \A k \in DOMAIN w.out :
          /\ w.out[k].op = "foreign" <=> w.out[k].id = 0
          /\ w.out[k].op = "attach" <=> \E a \in w.att : a.id = w.out[k].id
          /\ \A p \in w.pending : p.id = w.out[k].id => p.op = w.out[k].op /\ p.session = w.out[k].session
    <3>1. \A k \in DOMAIN v.out :
          /\ v.out[k].op = "foreign" <=> v.out[k].id = 0
          /\ v.out[k].op = "attach" <=> \E a \in v.att : a.id = v.out[k].id
          /\ \A p \in v.pending : p.id = v.out[k].id => p.op = v.out[k].op /\ p.session = v.out[k].session
      BY <1>1 DEF PeerNumbers
    <3>2. \A k \in DOMAIN v.out :
             (\E a \in w.att : a.id = v.out[k].id) <=> \E a \in v.att : a.id = v.out[k].id
      BY <1>8, <2>2
    <3> QED BY <1>3, <1>4, <3>1, <3>2
  <2>6. \A k \in DOMAIN w.owed : \E a \in w.att : a.id = w.owed[k].id
    <3>1. \A k \in DOMAIN v.owed : \E a \in v.att : a.id = v.owed[k].id
      BY <1>1 DEF PeerNumbers
    <3>2. \A k \in DOMAIN v.owed :
             (\E a \in w.att : a.id = v.owed[k].id) <=> \E a \in v.att : a.id = v.owed[k].id
      BY <1>8, <2>2
    <3> QED BY <1>3, <3>1, <3>2
  <2> QED BY <1>1, <1>3, <1>4, <2>1, <2>3, <2>4, <2>5, <2>6 DEF PeerNumbers
<1>13. PeerAnswers(w)
  <2> SUFFICES ASSUME NEW a \in v.att, NEW s \in 1 .. v.attached, PeerAnswer(v, a.id, s), a.id # f.id
               PROVE  /\ s \notin w.foreign
                      /\ PeerTold(w, "attached", s) => ~ PeerKnows(w, s)
                      /\ ~ PeerTold(w, "attached", s) =>
                            a.session = s /\ (w.session = s \/ (s \in w.retired /\ a.released))
                      /\ \A j \in DOMAIN w.in : w.in[j].kind = "attached" /\ w.in[j].session # s =>
                            \E k \in DOMAIN w.in : k > j /\ w.in[k].kind = "attached" /\ w.in[k].session = s
                      /\ \A j \in DOMAIN w.out : w.out[j].op # "foreign"
    BY <1>2, <1>3 DEF PeerAnswers, PeerReadsReply
  <2>1. /\ s \notin v.foreign
        /\ PeerTold(v, "attached", s) => ~ PeerKnows(v, s)
        /\ ~ PeerTold(v, "attached", s) =>
              a.session = s /\ (v.session = s \/ (s \in v.retired /\ a.released))
        /\ \A j \in DOMAIN v.in : v.in[j].kind = "attached" /\ v.in[j].session # s =>
              \E k \in DOMAIN v.in : k > j /\ v.in[k].kind = "attached" /\ v.in[k].session = s
        /\ \A j \in DOMAIN v.out : v.out[j].op # "foreign"
    BY <1>1 DEF PeerAnswers
  <2>2. \A d \in v.att : d.id # f.id
    BY <1>1 DEF PeerNumbers
  <2>3. w.session = v.session /\ f.session = 0 /\ w.att = v.att
    BY <1>7, <2>2
  <2>4. PeerKnows(w, s) => PeerKnows(v, s)
    <3>1. \A p \in v.pending : p.id = f.id => p.op # "attach"
      BY <1>1, <2>2 DEF PeerNumbers
    <3> QED BY <1>4, <1>5, <2>3, <3>1 DEF PeerKnows, Answered
  <2>5. \A j \in DOMAIN w.in : w.in[j].kind = "attached" /\ w.in[j].session # s =>
                            \E k \in DOMAIN w.in : k > j /\ w.in[k].kind = "attached" /\ w.in[k].session = s
    <3>1. PeerLast(v, s)
      BY <2>1 DEF PeerLast
    <3>2. PeerLast(w, s)
      BY <1>1, <3>1, PeerReadsLast
    <3> QED BY <3>2 DEF PeerLast
  <2>6. PeerTold(w, "attached", s) <=> PeerTold(v, "attached", s)
    BY <1>2
  <2> QED BY <1>3, <1>4, <2>1, <2>3, <2>4, <2>5, <2>6
<1>14. PeerOrder(w)
  <2>1. /\ \A j, k \in DOMAIN w.out : w.out[j].op = "foreign" /\ w.out[k].op = "attach" => j < k
        /\ \A j \in DOMAIN w.in : w.in[j].kind = "attached" =>
                \/ w.in[j].session \in w.live \cup w.foreign
                \/ \E k \in DOMAIN w.in : k > j /\ w.in[k].kind = "detached" /\ w.in[k].session = w.in[j].session
        /\ \A j \in DOMAIN w.in : w.in[j].kind = "detached" => w.in[j].session \notin w.live
    BY <1>1, PeerReadsOrder
  <2>2. \A p \in w.pending : p.op = "detach" =>
          \A j \in DOMAIN w.in :
             w.in[j].kind = "reply" /\ w.in[j].id = p.id /\ w.in[j].ok => p.session \notin w.live
    BY <1>1, <1>2, <1>3, <1>4 DEF PeerOrder
  <2>3. w.session \notin w.retired
    BY <1>1, <1>4, <1>9 DEF PeerOrder
  <2>4. \A x \in w.ready : x.ok /\ (x.by = "background" \/ w.stage \in {"leftover", "release"}) =>
          x.session \notin w.live
    <3> SUFFICES ASSUME NEW p \in v.pending, p.id = f.id, NEW x, Answered(p, f, x), x.ok,
                        x.by = "background" \/ w.stage \in {"leftover", "release"}
                 PROVE  x.session \notin v.live
      BY <1>1, <1>3, <1>5 DEF PeerOrder, SameProbe
    <3>1. p.by \in {"probe", "background"}
      BY <1>1 DEF ProbeRequests, Askers
    <3>2. p.op = "detach"
      BY <1>1, <3>1 DEF PeerServes, Answered, SameProbe, StageOp
    <3> QED BY <1>1, <1>2, <3>2 DEF PeerOrder, Answered
  <2>5. \A a \in w.att : a.session \in {0, w.session} \cup w.retired
    BY <1>1, <1>4, <1>6, <1>7 DEF PeerOrder
  <2> QED BY <2>1, <2>2, <2>3, <2>4, <2>5 DEF PeerOrder
<1>15. PeerServes(w)
  <2>1. \A x \in w.ready : x.by = "probe" =>
           /\ w.stage # "none"
           /\ \A p \in w.pending : p.by # "probe"
           /\ w.stage = "attach" /\ x.ok =>
               /\ x.session # 0 /\ w.att = {}
               /\ x.session = w.session \/ x.session \in w.retired
           /\ w.stage = "release" /\ ~ w.failed => x.session = w.probed
    <3> TAKE x \in w.ready
    <3>1. CASE x \in v.ready
      <4>1. v.att = {} => w.att = {} /\ w.session = v.session
        BY <1>4, <1>7
      <4> QED BY <1>1, <1>4, <3>1, <4>1 DEF PeerServes, SameProbe
    <3>2. ASSUME NEW p \in v.pending, p.id = f.id, Answered(p, f, x), x.by = "probe"
          PROVE  /\ w.stage # "none"
                 /\ \A q \in w.pending : q.by # "probe"
                 /\ w.stage = "attach" /\ x.ok =>
                     /\ x.session # 0 /\ w.att = {}
                     /\ x.session = w.session \/ x.session \in w.retired
                 /\ w.stage = "release" /\ ~ w.failed => x.session = w.probed
      <4>1. p.by = "probe" /\ p.op = StageOp(v.stage) /\ v.stage # "none"
        BY <1>1, <3>2 DEF Answered, PeerServes
      <4>2. \A q \in w.pending : q.by # "probe"
        BY <1>1, <1>4, <3>2, <4>1 DEF PeerServes
      <4>3. ASSUME v.stage = "attach", x.ok
            PROVE  x.session # 0 /\ w.att = {} /\ (x.session = w.session \/ x.session \in w.retired)
        <5>1. p.op = "attach" /\ x.session = f.session /\ f.ok
          BY <3>2, <4>1, <4>3 DEF StageOp, Answered
        <5>2. PICK a \in v.att : a.id = f.id
          BY <1>1, <3>2, <5>1 DEF PeerNumbers
        <5>3. f.session # 0 /\ w.att = {}
          BY <1>6, <1>8, <5>1, <5>2
        <5>4. f.session = w.session \/ f.session \in v.retired
          <6>1. CASE w.session = f.session
            BY <6>1
          <6>2. CASE w.session # f.session
            <7>1. a.released /\ a.session = f.session
              BY <1>1, <5>2, <5>3, <6>2 DEF PeerReadsReply, PeerNumbers
            <7>2. f.session \in {0, v.session} \cup v.retired
              BY <1>1, <5>2, <7>1 DEF PeerOrder
            <7> QED BY <1>4, <5>3, <6>2, <7>2 DEF PeerReadsReply
          <6> QED BY <6>1, <6>2
        <5> QED BY <1>4, <5>1, <5>3, <5>4
      <4>4. v.stage = "release" /\ ~ v.failed => x.session = v.probed
        BY <1>1, <3>2, <4>1 DEF PeerServes, Answered, StageOp
      <4> QED BY <4>1, <4>2, <4>3, <4>4 DEF SameProbe
    <3> QED BY <1>5, <3>1, <3>2
  <2>2. w.stage \in {"targets", "evaluate"} => w.att = {} /\ w.session = v.session
    BY <1>1, <1>7 DEF PeerServes, SameProbe
  <2> QED BY <1>1, <1>4, <2>1, <2>2 DEF PeerServes, SameProbe
<1>16. PeerFaithful(w)
  <2> SUFFICES ASSUME ~ v.mistaken PROVE PeerFaithful(w)
    BY <1>4 DEF PeerFaithful
  <2>1. PeerFaithful(v)
    BY DEF PeerOK
  <2>2. ASSUME NEW a \in v.att, a.id = f.id, NEW s \in v.live PROVE s = f.session
    <3>1. PeerAnswer(v, f.id, s)
      BY <2>1, <2>2 DEF PeerFaithful
    <3> QED BY <1>1, <1>2, <1>8, <3>1 DEF PeerAnswer, PeerNumbers
  <2>3. \A s \in w.live :
              /\ w.session = s \/ \E a \in w.att : PeerAnswer(w, a.id, s)
              /\ s \notin w.retired
    <3> TAKE s \in w.live
    <3>1. s \in v.live /\ s \notin v.retired /\ s # 0
      BY <1>1, <1>3, <2>1 DEF PeerFaithful, PeerSizes
    <3>2. CASE \A a \in v.att : a.id # f.id
      BY <1>2, <1>4, <1>7, <2>1, <3>1, <3>2 DEF PeerFaithful
    <3>3. ASSUME NEW a \in v.att, a.id = f.id PROVE w.session = s
      <4>1. s = f.session /\ v.session \in {0, s}
        BY <2>1, <2>2, <3>1, <3>3 DEF PeerFaithful
      <4>2. CASE w.session = f.session
        BY <4>1, <4>2
      <4>3. CASE w.session # f.session
        <5>1. a.released /\ a.session = f.session
          BY <1>1, <3>1, <3>3, <4>1, <4>3 DEF PeerReadsReply, PeerNumbers
        <5>2. v.session = s /\ w.session = v.session
          BY <1>1, <3>1, <4>1, <4>3, <5>1 DEF PeerOrder, PeerReadsReply
        <5> QED BY <5>2
      <4> QED BY <4>2, <4>3
    <3> QED BY <1>4, <3>1, <3>2, <3>3
  <2>4. w.session \notin w.foreign
    BY <1>3, <1>9, <2>1 DEF PeerFaithful
  <2>5. w.session # 0 => w.session \in w.live \/ PeerTold(w, "detached", w.session)
    <3>1. CASE w.session = v.session
      BY <1>2, <1>3, <2>1, <3>1 DEF PeerFaithful
    <3>2. CASE w.session # v.session
      <4>1. f.session \in v.live \/ PeerTold(v, "detached", f.session)
        BY <1>1, <1>9, <3>2 DEF PeerOrder, PeerTold
      <4> QED BY <1>2, <1>3, <1>9, <3>2, <4>1
    <3> QED BY <3>1, <3>2
  <2>6. \A k \in DOMAIN w.out : w.out[k].op = "attach" =>
              w.live = {} /\ w.session = 0 /\ PeerQuiet(w, 0)
    <3> SUFFICES ASSUME NEW k \in DOMAIN v.out, v.out[k].op = "attach"
                 PROVE  w.live = {} /\ w.session = 0 /\ PeerQuiet(w, 0)
      BY <1>3
    <3>1. \A a \in v.att : a.id # f.id
      BY <1>1, <1>8 DEF PeerNumbers
    <3> QED BY <1>2, <1>3, <1>7, <2>1, <3>1 DEF PeerFaithful
  <2>7. \A a \in w.att : \A s \in w.live :
              PeerAnswer(w, a.id, s) /\ w.session \in {0, s} /\ PeerQuiet(w, s)
    <3> SUFFICES ASSUME NEW a \in w.att, NEW s \in v.live
                 PROVE  PeerAnswer(w, a.id, s) /\ w.session \in {0, s} /\ PeerQuiet(w, s)
      BY <1>3
    <3>1. a \in v.att /\ a.id # f.id /\ w.session = v.session
      BY <1>1, <1>6, <1>7 DEF PeerReadsReply
    <3> QED BY <1>2, <2>1, <3>1 DEF PeerFaithful
  <2> QED BY <1>3, <2>1, <2>3, <2>4, <2>5, <2>6, <2>7 DEF PeerFaithful
<1>17. PeerStaged(w)
  <2> SUFFICES ASSUME ~ v.mistaken PROVE PeerStaged(w)
    BY <1>4 DEF PeerStaged
  <2>1. PeerStaged(v)
    BY DEF PeerOK
  <2>2. ASSUME w.stage = "targets", NEW j \in DOMAIN w.in, w.in[j].kind # "reply", w.in[j].session \notin w.foreign
        PROVE  /\ \A p \in w.pending : p.by = "probe" =>
                        \A k \in DOMAIN w.in : w.in[k].kind = "reply" /\ w.in[k].id = p.id => j < k
               /\ \A x \in w.ready : x.by = "probe" => ~ x.ok
    <3>1. /\ j + 1 \in DOMAIN v.in /\ w.in[j] = v.in[j + 1] /\ \A k \in DOMAIN w.in : k \in Nat
          /\ DOMAIN v.in = 1 .. Len(v.in) /\ Len(v.in) \in Nat
      BY <1>1, <1>2 DEF PeerReads, PeerRest
    <3>2. /\ \A p \in v.pending : p.by = "probe" =>
                        \A k \in DOMAIN v.in : v.in[k].kind = "reply" /\ v.in[k].id = p.id => j + 1 < k
          /\ \A x \in v.ready : x.by = "probe" => ~ x.ok
      BY <1>3, <2>1, <2>2, <3>1 DEF PeerStaged, SameProbe
    <3>3. ASSUME NEW p \in w.pending, p.by = "probe", NEW k \in DOMAIN w.in, w.in[k].kind = "reply", w.in[k].id = p.id
          PROVE  j < k
      <4>1. k + 1 \in DOMAIN v.in /\ w.in[k] = v.in[k + 1] /\ p \in v.pending
        BY <1>2, <1>4
      <4>2. j + 1 < k + 1
        BY <3>2, <3>3, <4>1
      <4> QED BY <3>1, <4>2
    <3>4. ASSUME NEW p \in v.pending, p.id = f.id, p.by = "probe" PROVE FALSE
      <4>1. j + 1 < 1
        BY <1>2, <3>2, <3>4
      <4> QED BY <3>1, <4>1
    <3> QED BY <1>5, <3>2, <3>3, <3>4 DEF Answered
  <2>3. w.stage = "targets" => w.live = {}
    BY <1>3, <2>1 DEF PeerStaged, SameProbe
  <2>4. ASSUME w.stage = "leftover"
        PROVE  /\ \A k \in DOMAIN w.out : w.out[k].op # "attach"
               /\ \A p \in w.pending : p.by = "probe" => \A s \in w.live : s = p.session
               /\ \A x \in w.ready : x.by = "probe" => \A s \in w.live : s = x.session
    <3>1. ASSUME NEW p \in v.pending, NEW x, Answered(p, f, x), x.by = "probe", NEW s \in w.live
          PROVE  s = x.session
      <4>1. p.by = "probe" /\ p.op = "detach"
        BY <1>1, <2>4, <3>1 DEF PeerServes, Answered, SameProbe, StageOp
      <4> QED BY <1>3, <2>1, <2>4, <3>1, <4>1 DEF PeerStaged, SameProbe, Answered
    <3> QED BY <1>3, <1>4, <1>5, <2>1, <2>4, <3>1 DEF PeerStaged, SameProbe
  <2> QED BY <2>2, <2>3, <2>4 DEF PeerStaged
<1> QED BY <1>10, <1>11, <1>12, <1>13, <1>14, <1>15, <1>16, <1>17 DEF PeerOK

\* The bridge knows nothing of it yet.
Unheard(v, w) ==
    /\ SameOrigin(v, w) /\ SameAwait(v, w) /\ SameProbe(v, w)
    /\ w.ids = v.ids /\ w.mistaken = v.mistaken

\* The browser takes the first command.
LEMMA PeerPops ==
    ASSUME NEW v, NEW w \in PeerViews, PeerOK(v), Unheard(v, w), PeerRest(v.out, w.out),
           w.live = v.live, w.foreign = v.foreign, w.owed = v.owed, w.in = v.in, w.attached = v.attached
    PROVE  /\ PeerOK(w)
           /\ \A j \in DOMAIN w.out : v.out[1].id # 0 => w.out[j].id # v.out[1].id
           /\ v.out[1].op = "attach" =>
                 \A j \in DOMAIN w.out : w.out[j].op # "foreign" /\ w.out[j].op # "attach"
<1>1. /\ \A k \in DOMAIN w.out : k + 1 \in DOMAIN v.out /\ w.out[k] = v.out[k + 1] /\ k \in Nat /\ k + 1 > 1
      /\ 1 \in DOMAIN v.out /\ v.out # <<>>
  <2>1. v.out \in Seq(PeerCommands)
    BY PeerType DEF PeerOK
  <2>2. DOMAIN v.out = 1 .. Len(v.out) /\ Len(v.out) \in Nat
    BY <2>1
  <2>3. \A k \in DOMAIN w.out : k \in DOMAIN v.out
    BY DEF PeerRest
  <2> QED BY <2>2, <2>3 DEF PeerRest
<1>2. \A j, k \in DOMAIN w.out : j + 1 = k + 1 => j = k
  BY <1>1
<1> USE DEF Unheard, SameOrigin, SameAwait, SameProbe
<1>3. PeerSizes(w)
  BY <1>1 DEF PeerOK, PeerSizes
<1>4. PeerShut(w)
  BY <1>1 DEF PeerOK, PeerShut
<1>5. PeerNumbers(v)
  BY DEF PeerOK
<1>6. PeerNumbers(w)
  BY <1>1, <1>2, <1>5 DEF PeerNumbers
<1>7. PeerAnswers(w)
  BY <1>1, SameAnswers DEF PeerKnows, PeerOK, PeerAnswers
<1>8. PeerOrder(v)
  BY DEF PeerOK
<1>9. PeerOrder(w)
  BY <1>1, <1>8 DEF PeerOrder
<1>10. PeerServes(w)
  BY DEF PeerOK, PeerServes
<1>11. PeerFaithful(w)
  BY <1>1, SameAnswers DEF PeerQuiet, PeerOK, PeerFaithful
<1>12. PeerStaged(w)
  BY <1>1 DEF PeerOK, PeerStaged
<1>13. \A j \in DOMAIN w.out : v.out[1].id # 0 => w.out[j].id # v.out[1].id
  BY <1>1, <1>5 DEF PeerNumbers
<1>14. v.out[1].op = "attach" =>
                 \A j \in DOMAIN w.out : w.out[j].op # "foreign" /\ w.out[j].op # "attach"
  BY <1>1, <1>5, <1>8 DEF PeerOrder, PeerNumbers
<1> QED BY <1>3, <1>4, <1>6, <1>7, <1>9, <1>10, <1>11, <1>12, <1>13, <1>14 DEF PeerOK

\* Frames are added, and the reply that is owed is another.
LEMMA PeerHears ==
    ASSUME NEW v, NEW w, NEW F, PeerMore(v.in, w.in, F), w.owed = v.owed
    PROVE  /\ \A i, s : PeerAnswer(v, i, s) => PeerAnswer(w, i, s)
           /\ \A i, s : PeerAnswer(w, i, s) =>
                 PeerAnswer(v, i, s) \/ \E f \in F : f.kind = "reply" /\ f.id = i /\ f.session = s
           /\ \A kind, s : PeerTold(v, kind, s) => PeerTold(w, kind, s)
           /\ \A kind, s : PeerTold(w, kind, s) =>
                 PeerTold(v, kind, s) \/ \E f \in F : f.kind = kind /\ f.session = s
           /\ \A f \in F : PeerTold(w, f.kind, f.session)
           /\ \A f \in F : f.kind = "reply" => PeerAnswer(w, f.id, f.session)
<1>1. /\ \A j \in DOMAIN v.in : j \in DOMAIN w.in /\ w.in[j] = v.in[j]
      /\ \A j \in DOMAIN w.in : (j \in DOMAIN v.in /\ w.in[j] = v.in[j]) \/ w.in[j] \in F
      /\ \A f \in F : \E j \in DOMAIN w.in : w.in[j] = f
  BY DEF PeerMore
<1>2. \A i, s : PeerAnswer(v, i, s) => PeerAnswer(w, i, s)
  BY <1>1 DEF PeerAnswer
<1>3. \A i, s : PeerAnswer(w, i, s) =>
                 PeerAnswer(v, i, s) \/ \E f \in F : f.kind = "reply" /\ f.id = i /\ f.session = s
  BY <1>1 DEF PeerAnswer
<1>4. \A kind, s : PeerTold(v, kind, s) => PeerTold(w, kind, s)
  BY <1>1 DEF PeerTold
<1>5. \A kind, s : PeerTold(w, kind, s) =>
                 PeerTold(v, kind, s) \/ \E f \in F : f.kind = kind /\ f.session = s
  BY <1>1 DEF PeerTold
<1>6. \A f \in F : PeerTold(w, f.kind, f.session)
  BY <1>1 DEF PeerTold
<1>7. \A f \in F : f.kind = "reply" => PeerAnswer(w, f.id, f.session)
  BY <1>1 DEF PeerAnswer
<1> QED BY <1>2, <1>3, <1>4, <1>5, <1>6, <1>7

\* Frames that may be added.
MayHear(v, w, F) ==
    /\ \A f \in F : f.session \in 0 .. w.attached
    /\ \A f \in F : f.kind # "reply" => f.session # 0
    /\ \A f \in F : f.kind = "reply" =>
          /\ f.id \in 1 .. v.ids
          /\ \A j \in DOMAIN v.in : v.in[j].kind = "reply" => v.in[j].id # f.id
          /\ \A j \in DOMAIN v.out : v.out[j].id # f.id
          /\ f.session # 0 => \E a \in v.att : a.id = f.id
          /\ \A a \in v.att : a.id = f.id => (f.ok <=> f.session # 0)
    /\ \A f, g \in F : f.kind = "reply" /\ g.kind = "reply" => f = g
    /\ \A f, g \in F : f.kind = "attached" /\ g.kind = "attached" => f = g
    /\ \A f \in F : f.kind = "attached" =>
          \A j \in DOMAIN v.in : v.in[j].kind = "attached" => v.in[j].session # f.session

MayOwe(v, w) ==
    /\ \A j, k \in DOMAIN w.owed : j = k
    /\ \A k \in DOMAIN w.owed :
          /\ w.owed[k].kind = "reply" /\ w.owed[k].ok
          /\ w.owed[k].id \in 1 .. v.ids /\ w.owed[k].session \in 1 .. w.attached
          /\ \E a \in v.att : a.id = w.owed[k].id
          /\ \A j \in DOMAIN v.out : v.out[j].id # w.owed[k].id
          /\ \A j \in DOMAIN w.in : w.in[j].kind = "reply" => w.in[j].id # w.owed[k].id

\* Frames arrive: the numbers stay apart and the probe awaits what it did.
LEMMA PeerHearsNumbers ==
    ASSUME NEW v, NEW w \in PeerViews, PeerOK(v), Unheard(v, w), NEW F, PeerMore(v.in, w.in, F),
           w.out = v.out, w.attached >= v.attached, v.open,
           \A s \in w.live : s \in 1 .. w.attached,
           \A s \in w.foreign : s \in 1 .. w.attached,
           MayHear(v, w, F), MayOwe(v, w)
    PROVE  PeerSizes(w) /\ PeerShut(w) /\ PeerNumbers(w) /\ PeerServes(w)
<1> USE DEF Unheard, SameOrigin, SameAwait, SameProbe
<1>0. v.attached \in Nat /\ w.attached \in Nat
  BY PeerType DEF PeerOK
<1>1. /\ \A j \in DOMAIN v.in : j \in DOMAIN w.in /\ w.in[j] = v.in[j]
      /\ \A j \in DOMAIN w.in : (j \in DOMAIN v.in /\ w.in[j] = v.in[j]) \/ (j \notin DOMAIN v.in /\ w.in[j] \in F)
      /\ \A j, k \in DOMAIN w.in : j \notin DOMAIN v.in /\ k \notin DOMAIN v.in /\ w.in[j] = w.in[k] => j = k
  BY DEF PeerMore
<1>2. \A i : (i \in 0 .. v.attached => i \in 0 .. w.attached) /\ (i \in 1 .. v.attached => i \in 1 .. w.attached)
  BY <1>0
<1>3. PeerSizes(v) /\ PeerNumbers(v)
  BY DEF PeerOK
<1>4. PeerSizes(w)
  BY <1>1, <1>2, <1>3 DEF PeerSizes, MayHear, MayOwe
<1>5. PeerShut(w)
  BY DEF PeerShut
<1>6. PeerNumbers(w)
  BY <1>1, <1>3 DEF PeerNumbers, MayHear, MayOwe
<1>7. PeerServes(w)
  BY DEF PeerOK, PeerServes
<1> QED BY <1>4, <1>5, <1>6, <1>7

\* What is still told later, after frames are added.
LEMMA PeerMoreOrder ==
    ASSUME NEW q, NEW r, NEW F, PeerMore(q, r, F)
    PROVE  /\ \A j \in DOMAIN q : j \in DOMAIN r /\ r[j] = q[j]
           /\ \A j \in DOMAIN r : (j \in DOMAIN q /\ r[j] = q[j]) \/ (j \notin DOMAIN q /\ r[j] \in F)
           /\ \A f \in F : \E k \in DOMAIN r : r[k] = f /\ \A j \in DOMAIN q : j < k
<1>1. \A f \in F : \E k \in DOMAIN r : k \notin DOMAIN q /\ r[k] = f
  BY DEF PeerMore
<1>2. \A j \in DOMAIN q : \A k \in DOMAIN r : k \notin DOMAIN q => j < k
  BY DEF PeerMore
<1>3. \A f \in F : \E k \in DOMAIN r : r[k] = f /\ \A j \in DOMAIN q : j < k
  BY <1>1, <1>2
<1> QED BY <1>3 DEF PeerMore

\* A command is answered.
LEMMA PeerPlain ==
    ASSUME NEW v, NEW w \in PeerViews, PeerOK(v), Unheard(v, w), NEW f, PeerMore(v.in, w.in, {f}),
           w.live = v.live, w.foreign = v.foreign, w.owed = v.owed, w.out = v.out, w.attached = v.attached,
           v.open, f.kind = "reply", f.session = 0, f.id \in 1 .. v.ids,
           \A j \in DOMAIN v.in : v.in[j].kind = "reply" => v.in[j].id # f.id,
           \A j \in DOMAIN v.out : v.out[j].id # f.id,
           \A j \in DOMAIN v.owed : v.owed[j].id # f.id,
           \A a \in v.att : a.id = f.id => ~ f.ok,
           \A p \in v.pending : p.op = "detach" /\ p.id = f.id /\ f.ok => p.session \notin v.live
    PROVE  PeerOK(w)
<1> DEFINE F == {f}
<1>0. PeerMore(v.in, w.in, F) /\ f \in F /\ \A g \in F : g = f
  OBVIOUS
<1> HIDE DEF F
<1> USE DEF Unheard, SameOrigin, SameAwait, SameProbe
<1>1. /\ \A j \in DOMAIN v.in : j \in DOMAIN w.in /\ w.in[j] = v.in[j]
      /\ \A j \in DOMAIN w.in : (j \in DOMAIN v.in /\ w.in[j] = v.in[j]) \/ (j \notin DOMAIN v.in /\ w.in[j] = f)
      /\ \E k \in DOMAIN w.in : w.in[k] = f /\ \A j \in DOMAIN v.in : j < k
  BY <1>0, PeerMoreOrder
<1>2. v.attached \in Nat /\ f.session \in 0 .. v.attached /\ v.attached >= v.attached
  BY PeerType DEF PeerOK
<1>3. PeerSizes(v) /\ PeerNumbers(v) /\ PeerOrder(v)
  BY DEF PeerOK
<1>4. MayHear(v, w, F)
  BY <1>0, <1>2 DEF MayHear
<1>5. MayOwe(v, w)
  BY <1>1, <1>3 DEF MayOwe, PeerNumbers, PeerSizes
<1>6. (\A s \in w.live : s \in 1 .. w.attached) /\ \A s \in w.foreign : s \in 1 .. w.attached
  BY <1>3 DEF PeerSizes
<1>7. PeerSizes(w) /\ PeerShut(w) /\ PeerNumbers(w) /\ PeerServes(w)
  BY <1>0, <1>2, <1>4, <1>5, <1>6, PeerHearsNumbers
<1>8. /\ \A i, s : PeerAnswer(v, i, s) => PeerAnswer(w, i, s)
      /\ \A i, s : s # 0 => (PeerAnswer(w, i, s) => PeerAnswer(v, i, s))
      /\ \A kind, s : kind # "reply" => (PeerTold(w, kind, s) <=> PeerTold(v, kind, s))
  BY <1>1 DEF PeerAnswer, PeerTold
<1>9. \A s : PeerQuiet(v, s) => PeerQuiet(w, s)
  BY <1>1 DEF PeerQuiet
<1>10. PeerAnswers(w)
  BY <1>1, <1>2, <1>8 DEF PeerAnswers, PeerOK, PeerKnows
<1>11. PeerOrder(w)
  BY <1>1, <1>3 DEF PeerOrder
<1>12. PeerFaithful(w)
  BY <1>8, <1>9 DEF PeerFaithful, PeerOK
<1>13. PeerStaged(w)
  BY <1>1 DEF PeerStaged, PeerOK, PeerMore
<1> QED BY <1>7, <1>10, <1>11, <1>12, <1>13 DEF PeerOK

\* The reply to an attachment is handed over.
LEMMA PeerPays ==
    ASSUME NEW v, NEW w \in PeerViews, PeerOK(v), Unheard(v, w), NEW f, v.owed = <<f>>,
           PeerMore(v.in, w.in, {f}), w.owed = <<>>,
           w.live = v.live, w.foreign = v.foreign, w.out = v.out, w.attached = v.attached
    PROVE  PeerOK(w)
<1> DEFINE F == {f}
<1>0. PeerMore(v.in, w.in, F) /\ f \in F /\ \A g \in F : g = f
  OBVIOUS
<1> HIDE DEF F
<1> USE DEF Unheard, SameOrigin, SameAwait, SameProbe
<1>1. /\ \A j \in DOMAIN v.in : j \in DOMAIN w.in /\ w.in[j] = v.in[j]
      /\ \A j \in DOMAIN w.in : (j \in DOMAIN v.in /\ w.in[j] = v.in[j]) \/ (j \notin DOMAIN v.in /\ w.in[j] = f)
      /\ \E k \in DOMAIN w.in : w.in[k] = f
  BY <1>0, PeerMoreOrder
<1>2. v.attached \in Nat /\ v.attached >= v.attached /\ v.open \in BOOLEAN
  BY PeerType DEF PeerOK
<1>3. PeerSizes(v) /\ PeerNumbers(v) /\ PeerOrder(v)
  BY DEF PeerOK
<1>4. 1 \in DOMAIN v.owed /\ v.owed[1] = f /\ DOMAIN w.owed = {} /\ DOMAIN v.owed = {1} /\ v.owed # <<>>
  OBVIOUS
<1>5. /\ f.kind = "reply" /\ f.ok /\ f.id \in 1 .. v.ids /\ f.session \in 1 .. v.attached
      /\ \E a \in v.att : a.id = f.id
      /\ \A j \in DOMAIN v.out : v.out[j].id # f.id
      /\ \A j \in DOMAIN v.in : v.in[j].kind = "reply" => v.in[j].id # f.id
  BY <1>3, <1>4 DEF PeerNumbers, PeerSizes
<1>6. f.session \in 0 .. v.attached /\ f.session # 0 /\ f.kind # "attached" /\ f.kind # "detached"
  BY <1>2, <1>5
<1>7. MayHear(v, w, F)
  BY <1>0, <1>5, <1>6 DEF MayHear
<1>8. MayOwe(v, w)
  BY <1>4 DEF MayOwe
<1>9. (\A s \in w.live : s \in 1 .. w.attached) /\ \A s \in w.foreign : s \in 1 .. w.attached
  BY <1>3 DEF PeerSizes
<1>10. v.open
  BY <1>2, <1>4 DEF PeerOK, PeerShut
<1>11. PeerSizes(w) /\ PeerShut(w) /\ PeerNumbers(w) /\ PeerServes(w)
  BY <1>0, <1>2, <1>7, <1>8, <1>9, <1>10, PeerHearsNumbers
<1>12. \A i, s : PeerAnswer(w, i, s) <=> PeerAnswer(v, i, s)
  BY <1>1, <1>4, <1>5 DEF PeerAnswer
<1>13. \A kind, s : kind # "reply" => (PeerTold(w, kind, s) <=> PeerTold(v, kind, s))
  BY <1>1, <1>5 DEF PeerTold
<1>14. \A s : PeerQuiet(v, s) => PeerQuiet(w, s)
  BY <1>1, <1>5 DEF PeerQuiet
<1>15. PeerAnswers(w)
  BY <1>1, <1>6, <1>12, <1>13 DEF PeerAnswers, PeerOK, PeerKnows
<1>16. PeerOrder(w)
  BY <1>1, <1>3, <1>5, <1>6 DEF PeerOrder, PeerNumbers
<1>17. PeerFaithful(w)
  BY <1>12, <1>13, <1>14 DEF PeerFaithful, PeerOK
<1>18. PeerStaged(w)
  BY <1>5 DEF PeerOK, PeerServes, PeerStaged
<1> QED BY <1>11, <1>15, <1>16, <1>17, <1>18 DEF PeerOK

\* The frames of an attachment fit what the connection is waiting for.
MadeFrames(v, F, a, s, n) ==
    /\ n \in F /\ n.kind = "attached" /\ n.session = s
    /\ \A f \in F : f.kind = "attached" => f = n
    /\ \A f \in F : f.kind = "reply" => f.id = a.id /\ f.ok /\ f.session = s
    /\ \A f \in F : f.kind # "detached"
    /\ \A f, g \in F : f.kind = "reply" /\ g.kind = "reply" => f = g
MadeOwed(v, w, F, a, s) ==
    /\ MayOwe(v, w) /\ DOMAIN v.owed = {}
    /\ \A k \in DOMAIN w.owed : w.owed[k].id = a.id /\ w.owed[k].session = s
    /\ (\E f \in F : f.kind = "reply") \/ \E k \in DOMAIN w.owed : k = k
MadeAlone(v, a) ==
    /\ \A j \in DOMAIN v.in : v.in[j].kind = "reply" => v.in[j].id # a.id
    /\ \A j \in DOMAIN v.out : v.out[j].id # a.id /\ v.out[j].op \notin {"foreign", "attach"}

\* An attachment is made: its event is under way, and its reply or what is owed.
LEMMA PeerMade ==
    ASSUME NEW v, NEW w \in PeerViews, PeerOK(v), Unheard(v, w), NEW F, PeerMore(v.in, w.in, F),
           NEW a \in v.att, NEW s, s = v.attached + 1, w.attached = s,
           w.live = v.live \cup {s}, w.foreign = v.foreign, w.out = v.out, v.open,
           NEW n, MadeFrames(v, F, a, s, n), MadeOwed(v, w, F, a, s), MadeAlone(v, a),
           ~ v.mistaken => v.live = {} /\ v.session = 0 /\ PeerQuiet(v, 0) /\ v.stage # "leftover"
    PROVE  PeerOK(w)
<1>a. n \in F /\ n.kind = "attached" /\ n.session = s
  BY DEF MadeFrames
<1>b. \A f \in F : f.kind = "attached" => f = n
  BY DEF MadeFrames
<1>c. \A f \in F : f.kind = "reply" => f.id = a.id /\ f.ok /\ f.session = s
  BY DEF MadeFrames
<1>d. \A f \in F : f.kind # "detached"
  BY DEF MadeFrames
<1>e. \A f, g \in F : f.kind = "reply" /\ g.kind = "reply" => f = g
  BY DEF MadeFrames
<1>f. MayOwe(v, w) /\ DOMAIN v.owed = {}
  BY DEF MadeOwed
<1>g. \A k \in DOMAIN w.owed : w.owed[k].id = a.id /\ w.owed[k].session = s
  BY DEF MadeOwed
<1>h. (\E f \in F : f.kind = "reply") \/ \E k \in DOMAIN w.owed : k = k
  BY DEF MadeOwed
<1>i. \A j \in DOMAIN v.in : v.in[j].kind = "reply" => v.in[j].id # a.id
  BY DEF MadeAlone
<1>j. \A j \in DOMAIN v.out : v.out[j].id # a.id /\ v.out[j].op \notin {"foreign", "attach"}
  BY DEF MadeAlone
<1> USE <1>a, <1>b, <1>c, <1>d, <1>e, <1>f, <1>g, <1>h, <1>i, <1>j
<1> USE DEF Unheard, SameOrigin, SameAwait, SameProbe
<1>1. /\ \A j \in DOMAIN v.in : j \in DOMAIN w.in /\ w.in[j] = v.in[j]
      /\ \A j \in DOMAIN w.in : (j \in DOMAIN v.in /\ w.in[j] = v.in[j]) \/ (j \notin DOMAIN v.in /\ w.in[j] \in F)
      /\ \A g \in F : \E k \in DOMAIN w.in : w.in[k] = g /\ \A j \in DOMAIN v.in : j < k
  BY PeerMoreOrder
<1>2. /\ v.attached \in Nat /\ s \in 1 .. w.attached /\ s \in 0 .. w.attached /\ w.attached >= v.attached
      /\ s # 0 /\ (\A o \in 0 .. v.attached : o # s) /\ (\A o \in 1 .. v.attached : o # s)
      /\ \A o \in 1 .. v.attached : o \in 1 .. w.attached
      /\ \A f \in F : f.kind \in {"reply", "attached"}
  <2>1. v.attached \in Nat /\ w.in \in Seq(PeerFrames)
    BY PeerType DEF PeerOK
  <2>2. \A f \in F : f \in PeerFrames
    BY <1>1, <2>1
  <2>3. \A f \in F : f.kind \in {"reply", "attached"}
    BY <2>2 DEF PeerFrames, PeerReplies, PeerNotices
  <2> QED BY <2>1, <2>3
<1>3. PeerSizes(v) /\ PeerNumbers(v) /\ PeerOrder(v) /\ PeerServes(v)
  BY DEF PeerOK
<1>4. v.att = {a} /\ a.id \in 1 .. v.ids
  BY <1>3 DEF PeerNumbers, PeerSizes
<1>5. MayHear(v, w, F)
  BY <1>2, <1>3, <1>4 DEF PeerSizes, MayHear
<1>6. (\A o \in w.live : o \in 1 .. w.attached) /\ \A o \in w.foreign : o \in 1 .. w.attached
  BY <1>2, <1>3 DEF PeerSizes
<1>7. PeerSizes(w) /\ PeerShut(w) /\ PeerNumbers(w) /\ PeerServes(w)
  BY <1>2, <1>5, <1>6, PeerHearsNumbers
<1>8. PeerTold(w, "attached", s)
  BY <1>1 DEF PeerTold
<1>9. PeerAnswer(w, a.id, s)
  BY <1>1 DEF PeerAnswer
<1>10. \A o : PeerAnswer(w, a.id, o) => o = s
  BY <1>1 DEF PeerAnswer
<1>11. \A kind, o : kind = "detached" => (PeerTold(w, kind, o) <=> PeerTold(v, kind, o))
  BY <1>1 DEF PeerTold
<1>12. PeerAnswers(w)
  BY <1>1, <1>2, <1>3, <1>4, <1>8, <1>10 DEF PeerSizes, PeerKnows, PeerMore, PeerAnswers
<1>13. PeerOrder(w)
  BY <1>1, <1>2, <1>3 DEF PeerOrder, PeerSizes, PeerNumbers
<1>14. PeerFaithful(w)
  BY <1>1, <1>2, <1>3, <1>4, <1>9 DEF PeerFaithful, PeerOK, PeerSizes, PeerQuiet
<1>15. PeerStaged(w)
  BY <1>3 DEF PeerOK, PeerServes, PeerStaged
<1> QED BY <1>7, <1>12, <1>13, <1>14, <1>15 DEF PeerOK

\* A session of the DevTools is made.
LEMMA PeerForeign ==
    ASSUME NEW v, NEW w \in PeerViews, PeerOK(v), Unheard(v, w), NEW F, PeerMore(v.in, w.in, F),
           NEW s, s = v.attached + 1, w.attached = s,
           w.live = v.live, w.foreign = v.foreign \cup {s}, w.out = v.out, w.owed = v.owed, v.open,
           NEW n, F = {n}, n.kind = "attached", n.session = s,
           \A a \in v.att : \A o \in 1 .. v.attached : ~ PeerAnswer(v, a.id, o)
    PROVE  PeerOK(w)
<1>0. n \in F /\ \A f \in F : f = n
  OBVIOUS
<1> USE DEF Unheard, SameOrigin, SameAwait, SameProbe
<1>1. /\ \A j \in DOMAIN v.in : j \in DOMAIN w.in /\ w.in[j] = v.in[j]
      /\ \A j \in DOMAIN w.in : (j \in DOMAIN v.in /\ w.in[j] = v.in[j]) \/ (j \notin DOMAIN v.in /\ w.in[j] = n)
      /\ \E k \in DOMAIN w.in : w.in[k] = n /\ \A j \in DOMAIN v.in : j < k
  BY <1>0, PeerMoreOrder
<1>2. /\ v.attached \in Nat /\ s \in 1 .. w.attached /\ s \in 0 .. w.attached /\ w.attached >= v.attached
      /\ s # 0 /\ (\A o \in 0 .. v.attached : o # s) /\ (\A o \in 1 .. v.attached : o # s)
      /\ \A o \in 1 .. v.attached : o \in 1 .. w.attached
      /\ \A o \in 1 .. w.attached : o = s \/ o \in 1 .. v.attached
  BY SMTT(20), PeerType DEF PeerOK
<1>3. PeerSizes(v) /\ PeerNumbers(v) /\ PeerOrder(v) /\ PeerServes(v)
  BY DEF PeerOK
<1>4. MayHear(v, w, F)
  BY <1>0, <1>2, <1>3 DEF MayHear, PeerSizes
<1>5. MayOwe(v, w)
  BY <1>0, <1>1, <1>2, <1>3 DEF MayOwe, PeerNumbers, PeerSizes
<1>6. (\A o \in w.live : o \in 1 .. w.attached) /\ \A o \in w.foreign : o \in 1 .. w.attached
  BY <1>2, <1>3 DEF PeerSizes
<1>7. PeerSizes(w) /\ PeerShut(w) /\ PeerNumbers(w) /\ PeerServes(w)
  BY <1>2, <1>4, <1>5, <1>6, PeerHearsNumbers
<1>8. \A i, o : PeerAnswer(w, i, o) <=> PeerAnswer(v, i, o)
  BY <1>1 DEF PeerAnswer
<1>9. PeerAnswers(w)
  <2>1. \A a \in v.att : ~ PeerAnswer(v, a.id, s)
    BY <1>2, <1>3 DEF PeerAnswer, PeerSizes
  <2> QED BY <1>2, <1>8, <2>1 DEF PeerAnswers
<1>10. PeerOrder(w)
  BY <1>1, <1>3 DEF PeerOrder
<1>11. PeerFaithful(w)
  BY <1>1, <1>2, <1>3, <1>8 DEF PeerFaithful, PeerOK, PeerQuiet, PeerSizes, PeerTold
<1>12. PeerStaged(w)
  BY <1>1 DEF PeerStaged, PeerOK
<1> QED BY <1>7, <1>9, <1>10, <1>11, <1>12 DEF PeerOK

\* A session is detached, as it was asked for.
LEMMA PeerDetaches ==
    ASSUME NEW v, NEW w \in PeerViews, PeerOK(v), Unheard(v, w), NEW F, PeerMore(v.in, w.in, F),
           NEW s, s \in v.live \cup v.foreign, w.live = v.live \ {s}, w.foreign = v.foreign \ {s},
           w.attached = v.attached, w.out = v.out, w.owed = v.owed, v.open,
           NEW n \in F, n.kind = "detached", n.session = s, NEW f \in F, f.kind = "reply", f.session = 0,
           \A g \in F : g = n \/ g = f,
           f.id \in 1 .. v.ids,
           \A j \in DOMAIN v.in : v.in[j].kind = "reply" => v.in[j].id # f.id,
           \A j \in DOMAIN v.out : v.out[j].id # f.id,
           \A j \in DOMAIN v.owed : v.owed[j].id # f.id,
           \A a \in v.att : a.id # f.id,
           \A p \in v.pending : p.id = f.id => p.session = s,
           ~ v.mistaken => s \notin v.foreign
    PROVE  PeerOK(w)
<1> USE DEF Unheard, SameOrigin, SameAwait, SameProbe
<1>1. /\ \A j \in DOMAIN v.in : j \in DOMAIN w.in /\ w.in[j] = v.in[j]
      /\ \A j \in DOMAIN w.in : (j \in DOMAIN v.in /\ w.in[j] = v.in[j]) \/ (j \notin DOMAIN v.in /\ w.in[j] \in F)
      /\ \A g \in F : \E k \in DOMAIN w.in : w.in[k] = g /\ \A j \in DOMAIN v.in : j < k
  BY PeerMoreOrder
<1>2. v.attached \in Nat /\ v.attached >= v.attached /\ 0 \in 0 .. v.attached
  BY PeerType DEF PeerOK
<1>3. PeerSizes(v) /\ PeerNumbers(v) /\ PeerOrder(v) /\ PeerServes(v)
  BY DEF PeerOK
<1>4. s \in 1 .. v.attached /\ s \in 0 .. v.attached /\ s # 0
  BY <1>2, <1>3 DEF PeerSizes
<1>5. MayHear(v, w, F)
  BY <1>2, <1>4 DEF MayHear
<1>6. MayOwe(v, w)
  BY <1>1, <1>3 DEF MayOwe, PeerNumbers, PeerSizes
<1>7. (\A o \in w.live : o \in 1 .. w.attached) /\ \A o \in w.foreign : o \in 1 .. w.attached
  BY <1>3 DEF PeerSizes
<1>8. PeerSizes(w) /\ PeerShut(w) /\ PeerNumbers(w) /\ PeerServes(w)
  BY <1>2, <1>5, <1>6, <1>7, PeerHearsNumbers
<1>9. /\ \A i, o : o # 0 => (PeerAnswer(w, i, o) <=> PeerAnswer(v, i, o))
      /\ \A o : PeerTold(w, "attached", o) <=> PeerTold(v, "attached", o)
      /\ \A o : PeerTold(w, "detached", o) <=> PeerTold(v, "detached", o) \/ o = s
  BY <1>1 DEF PeerAnswer, PeerTold
<1>10. PeerAnswers(w)
  BY <1>1, <1>2, <1>9 DEF PeerAnswers, PeerOK, PeerKnows
<1>11. PeerOrder(w)
  BY <1>1, <1>3 DEF PeerMore, PeerOrder
<1>12. PeerFaithful(w)
  BY <1>9 DEF PeerFaithful, PeerOK
<1>13. PeerStaged(w)
  BY DEF PeerStaged, PeerOK
<1> QED BY <1>8, <1>10, <1>11, <1>12, <1>13 DEF PeerOK

\* The page closes.
LEMMA PeerCloses ==
    ASSUME NEW v, NEW w \in PeerViews, PeerOK(v), Unheard(v, w), NEW F, PeerMore(v.in, w.in, F),
           v.live # {}, w.live = {}, w.foreign = {},
           w.attached = v.attached, w.out = v.out, w.owed = v.owed,
           \A f \in F : f.kind = "detached" /\ f.session \in v.live \cup v.foreign,
           \A s \in v.live \cup v.foreign : \E f \in F : f.session = s
    PROVE  PeerOK(w)
<1> USE DEF Unheard, SameOrigin, SameAwait, SameProbe
<1>1. /\ \A j \in DOMAIN v.in : j \in DOMAIN w.in /\ w.in[j] = v.in[j]
      /\ \A j \in DOMAIN w.in : (j \in DOMAIN v.in /\ w.in[j] = v.in[j]) \/ (j \notin DOMAIN v.in /\ w.in[j] \in F)
      /\ \A g \in F : \E k \in DOMAIN w.in : w.in[k] = g /\ \A j \in DOMAIN v.in : j < k
  BY PeerMoreOrder
<1>2. v.attached \in Nat /\ v.attached >= v.attached /\ v.open \in BOOLEAN
  BY PeerType DEF PeerOK
<1>3. PeerSizes(v) /\ PeerNumbers(v) /\ PeerOrder(v) /\ PeerServes(v) /\ v.open
  BY <1>2 DEF PeerOK, PeerShut
<1>4. \A f \in F : f.session \in 0 .. v.attached /\ f.session # 0
  BY <1>2, <1>3 DEF PeerSizes
<1>5. MayHear(v, w, F)
  BY <1>4 DEF MayHear
<1>6. MayOwe(v, w)
  BY <1>1, <1>3 DEF MayOwe, PeerNumbers, PeerSizes
<1>7. (\A o \in w.live : o \in 1 .. w.attached) /\ \A o \in w.foreign : o \in 1 .. w.attached
  OBVIOUS
<1>8. PeerSizes(w) /\ PeerShut(w) /\ PeerNumbers(w) /\ PeerServes(w)
  BY <1>2, <1>3, <1>5, <1>6, <1>7, PeerHearsNumbers
<1>9. /\ \A i, o : PeerAnswer(w, i, o) <=> PeerAnswer(v, i, o)
      /\ \A o : PeerTold(w, "attached", o) <=> PeerTold(v, "attached", o)
      /\ \A o : PeerTold(v, "detached", o) \/ o \in v.live \cup v.foreign => PeerTold(w, "detached", o)
  BY <1>1 DEF PeerAnswer, PeerTold
<1>10. PeerAnswers(w)
  BY <1>1, <1>2, <1>9 DEF PeerAnswers, PeerOK, PeerKnows
<1>11. PeerOrder(w)
  BY <1>1, <1>3 DEF PeerMore, PeerOrder
<1>12. PeerFaithful(w)
  BY <1>9 DEF PeerFaithful, PeerOK
<1>13. PeerStaged(w)
  BY DEF PeerOK, PeerStaged
<1> QED BY <1>8, <1>10, <1>11, <1>12, <1>13 DEF PeerOK

\* The DevTools ask for a session of their own.
LEMMA PeerAsked ==
    ASSUME NEW v, NEW w \in PeerViews, PeerOK(v), Unheard(v, w), NEW F, PeerMore(v.out, w.out, F),
           w.live = v.live, w.foreign = v.foreign, w.owed = v.owed, w.in = v.in, w.attached = v.attached,
           v.open, v.att = {},
           \A f \in F : f.id = 0 /\ f.op = "foreign" /\ f.session = 0
    PROVE  PeerOK(w)
<1> USE DEF Unheard, SameOrigin, SameAwait, SameProbe
<1>1. /\ \A j \in DOMAIN v.out : j \in DOMAIN w.out /\ w.out[j] = v.out[j]
      /\ \A j \in DOMAIN w.out : (j \in DOMAIN v.out /\ w.out[j] = v.out[j]) \/ (j \notin DOMAIN v.out /\ w.out[j] \in F)
  BY DEF PeerMore
<1>2. v.attached \in Nat /\ v.ids \in Nat /\ 0 \in 0 .. v.attached /\ 0 \in 0 .. v.ids /\ \A i \in 1 .. v.ids : i # 0
  BY PeerType DEF PeerOK
<1>3. PeerSizes(v) /\ PeerNumbers(v) /\ PeerOrder(v) /\ PeerServes(v) /\ PeerAnswers(v)
  BY DEF PeerOK
<1>4. PeerSizes(w)
  BY <1>1, <1>2, <1>3 DEF PeerSizes
<1>5. PeerShut(w)
  BY DEF PeerShut
<1>6. PeerNumbers(w)
  BY <1>1, <1>2, <1>3 DEF PeerNumbers, PeerSizes
<1>7. PeerAnswers(w)
  BY DEF PeerAnswers
<1>8. PeerOrder(w)
  BY <1>1, <1>3 DEF PeerNumbers, PeerOrder
<1>9. PeerServes(w)
  BY <1>3 DEF PeerServes
<1>10. PeerFaithful(w)
  BY <1>1, <1>3, SameAnswers DEF PeerOK, PeerNumbers, PeerFaithful
<1>11. PeerStaged(w)
  BY <1>1 DEF PeerOK, PeerStaged
<1> QED BY <1>4, <1>5, <1>6, <1>7, <1>8, <1>9, <1>10, <1>11 DEF PeerOK

\* A connection is made, or removed with all that belongs to it.
LEMMA PeerLinks ==
    ASSUME NEW v, NEW w \in PeerViews, PeerOK(v), w.open,
           w.session = v.session, w.retired = v.retired,
           SameAwait(v, w), SameBrowser(v, w), SameProbe(v, w), SameLedger(v, w)
    PROVE  PeerOK(w)
<1> USE DEF SameAwait, SameBrowser, SameProbe, SameLedger
<1>1. PeerSizes(w) /\ PeerShut(w) /\ PeerNumbers(w)
  BY DEF PeerOK, PeerSizes, PeerShut, PeerNumbers
<1>2. PeerAnswers(w)
  BY SameAnswers DEF PeerKnows, PeerOK, PeerAnswers
<1>3. PeerOrder(w) /\ PeerServes(w)
  BY DEF PeerOK, PeerOrder, PeerServes
<1>4. PeerFaithful(w)
  BY SameAnswers DEF PeerQuiet, PeerOK, PeerFaithful
<1>5. PeerStaged(w)
  BY DEF PeerOK, PeerStaged
<1> QED BY <1>1, <1>2, <1>3, <1>4, <1>5 DEF PeerOK

\* A connection goes: its commands fail, and nothing of it is left (removeMiniapp).
LEMMA PeerUnlinks ==
    ASSUME NEW v, NEW w \in PeerViews, PeerOK(v), v.ready = {},
           w.session = 0, w.retired = {}, w.pending = {}, w.att = {}, w.live = {}, w.foreign = {},
           w.owed = <<>>, w.out = <<>>, w.in = <<>>,
           SameProbe(v, w), SameLedger(v, w),
           \A x \in w.ready : \E p \in v.pending : x = Unreplied(p)
    PROVE  PeerOK(w)
<1> USE DEF SameProbe, SameLedger
<1>1. \A x \in w.ready : ~ x.ok /\ \E p \in v.pending : x.by = p.by /\ x.session = p.session
  BY DEF Unreplied
<1>2. DOMAIN w.in = {} /\ DOMAIN w.out = {} /\ DOMAIN w.owed = {}
  OBVIOUS
<1>3. v.attached \in Nat /\ 0 \in 0 .. v.attached
  BY PeerType DEF PeerOK
<1>4. PeerSizes(w)
  BY <1>1, <1>2, <1>3 DEF PeerOK, PeerSizes
<1>5. PeerShut(w)
  BY <1>1 DEF PeerShut
<1>6. PeerNumbers(w)
  BY <1>2 DEF PeerNumbers
<1>7. PeerAnswers(w) /\ PeerOrder(w)
  BY <1>1, <1>2 DEF PeerAnswers, PeerOrder
<1>8. PeerServes(w)
  BY <1>1 DEF PeerOK, PeerServes
<1>9. PeerFaithful(w)
  BY <1>2 DEF PeerFaithful
<1>10. PeerStaged(w)
  BY <1>1, <1>2 DEF PeerStaged
<1> QED BY <1>4, <1>5, <1>6, <1>7, <1>8, <1>9, <1>10 DEF PeerOK

\* The parts of the state.
LEMMA BridgeParts ==
    ASSUME NEW e \in BridgeStates
    PROVE  /\ e.origin \in [PeerIds -> Origins]
           /\ e.await \in [pending : SUBSET ProbeRequests, ready : Seq(Outcomes)]
           /\ e.await.pending \in SUBSET ProbeRequests /\ e.await.ready \in Seq(Outcomes)
           /\ e.attachment \in SUBSET Attachments /\ e.probe \in ProbeStates
           /\ e.browser \in [PeerIds -> Browsers] /\ e.ledger \in Ledgers
           /\ e.ledger.ids \in Nat /\ e.ledger.attached \in Nat /\ e.ledger.troubles \in Nat
           /\ e.ledger.links \in 0 .. MaxPeerLinks
           /\ e.ledger.lied \in BOOLEAN /\ e.ledger.mistaken \in BOOLEAN
           /\ e.probe.stage \in ProbeStages /\ e.probe.session \in Nat /\ e.probe.failed \in BOOLEAN
           /\ e.probe.client \in 0 .. MaxPeerLinks
  BY DEF BridgeStates, ProbeStates, Ledgers

\* The shapes of the parts of the bridge.
LEMMA PeerParts ==
    ASSUME NEW e \in BridgeStates, NEW c \in PeerIds
    PROVE  /\ e.origin[c] \in Origins /\ e.browser[c] \in Browsers
           /\ e.origin[c].open \in BOOLEAN /\ e.origin[c].session \in Nat /\ e.origin[c].retired \in SUBSET Nat
           /\ e.browser[c].live \in SUBSET Nat /\ e.browser[c].foreign \in SUBSET Nat
           /\ e.browser[c].owed \in Seq(PeerFrames) /\ e.browser[c].out \in Seq(PeerCommands)
           /\ e.browser[c].in \in Seq(PeerFrames)
<1>1. e.origin[c] \in Origins /\ e.browser[c] \in Browsers
  BY DEF BridgeStates
<1> QED BY <1>1 DEF Origins, Browsers

\* The fields of a view.
LEMMA ViewOf ==
    ASSUME NEW e, NEW c
    PROVE  LET v == PeerView(e, c) IN
           /\ v.open = e.origin[c].open /\ v.session = e.origin[c].session
           /\ v.retired = e.origin[c].retired
           /\ v.pending = PendingOf(e, c) /\ v.ready = ReadyOf(e, c) /\ v.att = AttachedOf(e, c)
           /\ v.live = e.browser[c].live /\ v.foreign = e.browser[c].foreign
           /\ v.owed = e.browser[c].owed /\ v.out = e.browser[c].out /\ v.in = e.browser[c].in
           /\ v.stage = (IF e.probe.client = c THEN e.probe.stage ELSE "none")
           /\ v.probed = e.probe.session /\ v.failed = e.probe.failed
           /\ v.ids = e.ledger.ids /\ v.attached = e.ledger.attached /\ v.mistaken = e.ledger.mistaken
  BY DEF PeerView

\* What concerns a connection has its shape.
LEMMA ViewType ==
    ASSUME NEW e \in BridgeStates, NEW c \in PeerIds
    PROVE  PeerView(e, c) \in PeerViews
<1>1. (IF e.probe.client = c THEN e.probe.stage ELSE "none") \in ProbeStages
  BY BridgeParts DEF ProbeStages
<1>2. ReadyOf(e, c) \in SUBSET Outcomes
  BY DEF ReadyOf
<1>3. PendingOf(e, c) \in SUBSET ProbeRequests
  BY BridgeParts DEF PendingOf
<1>4. AttachedOf(e, c) \in SUBSET Attachments
  BY BridgeParts DEF AttachedOf
<1> QED BY <1>1, <1>2, <1>3, <1>4, BridgeParts, PeerParts DEF PeerView, PeerViews

-----------------------------------------------------------------------------
(* One connection beside the others                                         *)

\* What happens to connection c, seen from the others.
Beside(e, g, c) ==
    /\ \A d \in PeerIds : d # c => g.origin[d] = e.origin[d] /\ g.browser[d] = e.browser[d]
    /\ \A p : p.client # c => (p \in g.await.pending <=> p \in e.await.pending)
    /\ \A x \in Outcomes : x.client # c =>
          ((\E k \in DOMAIN g.await.ready : g.await.ready[k] = x) <=>
           \E k \in DOMAIN e.await.ready : e.await.ready[k] = x)
    /\ \A a : a.client # c => (a \in g.attachment <=> a \in e.attachment)
    /\ \/ g.probe = e.probe
       \/ /\ e.probe.stage = "none" \/ e.probe.client = c
          /\ g.probe.stage = "none" \/ g.probe.client = c
    /\ g.ledger.ids >= e.ledger.ids /\ g.ledger.attached >= e.ledger.attached
    /\ e.ledger.mistaken => g.ledger.mistaken

\* A step of one connection leaves the others as they are.
LEMMA BesideKeeps ==
    ASSUME NEW e \in BridgeStates, NEW g \in BridgeStates, NEW c \in PeerIds, Beside(e, g, c),
           NEW d \in PeerIds, d # c, PeerOK(PeerView(e, d))
    PROVE  /\ PeerOK(PeerView(g, d))
           /\ \A i : PeerUses(PeerView(g, d), i) <=> PeerUses(PeerView(e, d), i)
<1> DEFINE v == PeerView(e, d)
           w == PeerView(g, d)
<1>1. v \in PeerViews /\ w \in PeerViews
  BY ViewType
<1>2. SameOrigin(v, w) /\ SameBrowser(v, w)
  BY ViewOf DEF Beside, SameOrigin, SameBrowser
<1>3. PendingOf(g, d) = PendingOf(e, d)
  BY DEF Beside, PendingOf
<1>4. AttachedOf(g, d) = AttachedOf(e, d)
  BY DEF Beside, AttachedOf
<1>5. ReadyOf(g, d) = ReadyOf(e, d)
  BY DEF Beside, ReadyOf
<1>6. SameAwait(v, w)
  BY <1>3, <1>4, <1>5, ViewOf DEF SameAwait
<1>7. w.stage = v.stage /\ (v.stage # "none" => w.probed = v.probed /\ w.failed = v.failed)
  BY ViewOf DEF Beside
<1>8. w.ids >= v.ids /\ w.attached >= v.attached /\ (v.mistaken => w.mistaken)
  BY ViewOf DEF Beside
<1> HIDE DEF v, w
<1>9. PeerOK(v)
  BY DEF v
<1>10. PeerOK(w)
  BY <1>1, <1>2, <1>6, <1>7, <1>8, <1>9, PeerGrows
<1>11. \A i : PeerUses(w, i) <=> PeerUses(v, i)
  BY <1>2, <1>6 DEF PeerUses, SameAwait, SameBrowser
<1> QED BY <1>10, <1>11 DEF v, w

\* Only numbers given out are in use.
LEMMA UsesGiven ==
    ASSUME NEW v, PeerOK(v), NEW i, PeerUses(v, i)
    PROVE  i \in 1 .. v.ids
<1>1. v.ids \in Nat /\ PeerSizes(v)
  BY PeerType DEF PeerOK
<1>2. \A j : j \in 0 .. v.ids /\ j # 0 => j \in 1 .. v.ids
  BY <1>1
<1> QED BY <1>1, <1>2 DEF PeerUses, PeerSizes

\* What the connections share.
Shared(e) ==
    /\ \A j, k \in DOMAIN e.await.ready : e.await.ready[j].by = "probe" /\ e.await.ready[k].by = "probe" => j = k
    /\ \A c \in PeerIds : c > e.ledger.links => ~ e.origin[c].open
    /\ e.probe.stage # "none" => e.probe.client \in 1 .. e.ledger.links
    /\ IsFiniteSet(e.await.pending)
    /\ ~ e.ledger.mistaken => ~ e.ledger.lied
    /\ EndsNamed(e)

\* A step of one connection keeps the invariant if it keeps that connection in order.
LEMMA BridgeMoves ==
    ASSUME NEW e, NEW g \in BridgeStates, NEW c \in PeerIds, BridgeOK(e), Beside(e, g, c),
           PeerOK(PeerView(g, c)), Shared(g),
           \A i \in 1 .. e.ledger.ids : PeerUses(PeerView(g, c), i) => PeerUses(PeerView(e, c), i)
    PROVE  BridgeOK(g)
<1>1. e \in BridgeStates /\ PeersApart(e) /\ \A d \in PeerIds : PeerOK(PeerView(e, d))
  BY DEF BridgeOK
<1>2. \A d \in PeerIds : d # c =>
         /\ PeerOK(PeerView(g, d))
         /\ \A i : PeerUses(PeerView(g, d), i) <=> PeerUses(PeerView(e, d), i)
  BY <1>1, BesideKeeps
<1>3. \A d \in PeerIds : PeerOK(PeerView(g, d))
  BY <1>2
<1>4. ASSUME NEW d \in PeerIds, d # c, NEW i, PeerUses(PeerView(g, d), i)
      PROVE  i \in 1 .. e.ledger.ids /\ PeerUses(PeerView(e, d), i)
  BY <1>1, <1>2, <1>4, UsesGiven, ViewOf
<1>5. \A d \in PeerIds : d # c => \A i : ~ (PeerUses(PeerView(g, d), i) /\ PeerUses(PeerView(g, c), i))
  BY <1>1, <1>4 DEF PeersApart
<1>6. \A b, d \in PeerIds : b # d => \A i : ~ (PeerUses(PeerView(g, b), i) /\ PeerUses(PeerView(g, d), i))
  BY <1>1, <1>4, <1>5 DEF PeersApart
<1>7. PeersApart(g)
  BY <1>6 DEF PeersApart, Shared
<1> QED BY <1>3, <1>7 DEF BridgeOK

\* What the invariant says beside the numbers of the connections.
LEMMA SharedHolds ==
    ASSUME NEW e, BridgeOK(e)
    PROVE  e \in BridgeStates /\ Shared(e) /\ \A c \in PeerIds : PeerOK(PeerView(e, c)) /\ PeerView(e, c) \in PeerViews
  BY ViewType DEF BridgeOK, PeersApart, Shared

-----------------------------------------------------------------------------
(* What the browser does                                                    *)

\* The frames a command leads to.
LEMMA HandsBoth ==
    ASSUME NEW S, NEW q \in Seq(S), NEW n \in S, NEW r \in S, n # r,
           NEW o \in {q \o <<n>> \o <<r>>, q \o <<r>> \o <<n>>}
    PROVE  o \in Seq(S) /\ PeerMore(q, o, {n, r})
<1>1. q \o <<n>> \o <<r>> \in Seq(S) /\ PeerMore(q, q \o <<n>> \o <<r>>, {n, r})
  BY TwoIsMore
<1>2. q \o <<r>> \o <<n>> \in Seq(S) /\ PeerMore(q, q \o <<r>> \o <<n>>, {r, n})
  BY TwoIsMore
<1>3. {r, n} = {n, r}
  OBVIOUS
<1>4. PeerMore(q, q \o <<r>> \o <<n>>, {n, r})
  BY <1>2, <1>3
<1>5. CASE o = q \o <<n>> \o <<r>>
  BY <1>1, <1>5
<1>6. CASE o = q \o <<r>> \o <<n>>
  BY <1>2, <1>4, <1>6
<1> QED BY <1>5, <1>6

\* One frame handed over, with or without a notice before it.
LEMMA HandsOne ==
    ASSUME NEW S, NEW q \in Seq(S), NEW n \in S,
           NEW o, \/ o = q \o <<n>> \o <<>>
                  \/ o = q \o <<>> \o <<n>>
    PROVE  o \in Seq(S) /\ PeerMore(q, o, {n})
<1>1. q \o <<>> = q
  OBVIOUS
<1>2. q \o <<n>> = Append(q, n) /\ Append(q, n) \in Seq(S) /\ PeerMore(q, Append(q, n), {n})
  BY OneIsMore
<1>3. Append(q, n) \o <<>> = Append(q, n)
  BY <1>2
<1>4. q \o <<n>> \o <<>> = Append(q, n)
  BY <1>2, <1>3
<1>5. q \o <<>> \o <<n>> = Append(q, n)
  BY <1>1, <1>2
<1>6. o = Append(q, n)
  BY <1>4, <1>5
<1> QED BY <1>2, <1>6

\* No frame handed over.
LEMMA HandsNone ==
    ASSUME NEW S, NEW q \in Seq(S), NEW o \in {q \o <<>> \o <<>>, q \o <<>> \o <<>>}
    PROVE  o = q
<1>1. q \o <<>> = q
  OBVIOUS
<1> QED BY <1>1

\* A step of the browser, over connection c.
Browses(e, g, c, B) ==
    /\ g.origin = e.origin /\ g.await = e.await /\ g.attachment = e.attachment /\ g.probe = e.probe
    /\ g.browser = [e.browser EXCEPT ![c] = B]
    /\ g.ledger.ids = e.ledger.ids /\ g.ledger.links = e.ledger.links
    /\ g.ledger.lied = e.ledger.lied /\ g.ledger.mistaken = e.ledger.mistaken
    /\ g.ledger.attached >= e.ledger.attached

\* A step of the browser: what the connection looks like after it.
LEMMA BrowsesShape ==
    ASSUME NEW e, BridgeOK(e), NEW c \in PeerIds, NEW B \in Browsers, NEW g \in BridgeStates,
           Browses(e, g, c, B)
    PROVE  LET v == PeerView(e, c)
               w == PeerView(g, c)
           IN  /\ PeerOK(v) /\ v \in PeerViews /\ w \in PeerViews /\ Unheard(v, w)
               /\ w.live = B.live /\ w.foreign = B.foreign /\ w.owed = B.owed
               /\ w.out = B.out /\ w.in = B.in /\ w.attached = g.ledger.attached
               /\ v.live = e.browser[c].live /\ v.foreign = e.browser[c].foreign
               /\ v.owed = e.browser[c].owed /\ v.out = e.browser[c].out /\ v.in = e.browser[c].in
               /\ v.attached = e.ledger.attached /\ v.ids = e.ledger.ids
               /\ v.open = e.origin[c].open
               /\ Beside(e, g, c) /\ Shared(g)
<1>1. /\ e \in BridgeStates /\ Shared(e) /\ PeerOK(PeerView(e, c))
      /\ PeerView(e, c) \in PeerViews /\ PeerView(g, c) \in PeerViews
  BY SharedHolds, ViewType
<1>2. /\ g.origin = e.origin /\ g.await = e.await /\ g.attachment = e.attachment /\ g.probe = e.probe
      /\ g.browser[c] = B /\ \A d \in PeerIds : d # c => g.browser[d] = e.browser[d]
      /\ g.ledger.ids = e.ledger.ids /\ g.ledger.links = e.ledger.links
      /\ g.ledger.lied = e.ledger.lied /\ g.ledger.mistaken = e.ledger.mistaken
      /\ g.ledger.attached >= e.ledger.attached
  BY <1>1, BridgeParts DEF Browses
<1>3. PendingOf(g, c) = PendingOf(e, c) /\ ReadyOf(g, c) = ReadyOf(e, c) /\ AttachedOf(g, c) = AttachedOf(e, c)
  BY <1>2 DEF PendingOf, ReadyOf, AttachedOf
<1>4. Unheard(PeerView(e, c), PeerView(g, c))
  BY <1>2, <1>3, ViewOf DEF Unheard, SameOrigin, SameAwait, SameProbe
<1>5. e.ledger.ids \in Nat
  BY <1>1, BridgeParts
<1>6. Beside(e, g, c)
  BY <1>2, <1>5 DEF Beside
<1>7. Shared(g)
  BY <1>1, <1>2 DEF Shared, EndsNamed
<1> QED BY <1>1, <1>2, <1>4, <1>6, <1>7, ViewOf

\* A step of the browser keeps the invariant if it keeps its connection in order.
LEMMA BrowsesKeeps ==
    ASSUME NEW e, BridgeOK(e), NEW c \in PeerIds, NEW B \in Browsers, NEW g \in BridgeStates,
           Browses(e, g, c, B), PeerOK(PeerView(g, c)),
           \A i \in 1 .. e.ledger.ids : PeerUses(PeerView(g, c), i) => PeerUses(PeerView(e, c), i)
    PROVE  BridgeOK(g)
<1>1. Beside(e, g, c) /\ Shared(g)
  BY BrowsesShape
<1> QED BY <1>1, BridgeMoves

\* The state of the bridge and its parts.
LEMMA BridgeIs ==
    /\ Bridge.origin = origin /\ Bridge.await = await /\ Bridge.attachment = attachment
    /\ Bridge.probe = probe /\ Bridge.browser = browser /\ Bridge.ledger = ledger
    /\ Bridge'.origin = origin' /\ Bridge'.await = await' /\ Bridge'.attachment = attachment'
    /\ Bridge'.probe = probe' /\ Bridge'.browser = browser' /\ Bridge'.ledger = ledger'
  BY DEF Bridge

\* A step of the browser, as an action.
LEMMA BrowserActs ==
    ASSUME BridgeOK(Bridge), NEW c \in PeerIds, NEW B \in Browsers,
           UNCHANGED <<origin, await, attachment, probe>>,
           browser' = [browser EXCEPT ![c] = B],
           ledger' \in Ledgers, ledger'.ids = ledger.ids, ledger'.links = ledger.links,
           ledger'.lied = ledger.lied, ledger'.mistaken = ledger.mistaken,
           ledger'.attached >= ledger.attached
    PROVE  Bridge' \in BridgeStates /\ Browses(Bridge, Bridge', c, B)
<1>1. Bridge \in BridgeStates
  BY DEF BridgeOK
<1>2. /\ origin \in [PeerIds -> Origins]
      /\ await \in [pending : SUBSET ProbeRequests, ready : Seq(Outcomes)]
      /\ attachment \in SUBSET Attachments /\ probe \in ProbeStates
      /\ browser \in [PeerIds -> Browsers]
  BY <1>1, BridgeParts, BridgeIs
<1>3. browser' \in [PeerIds -> Browsers]
  BY <1>2
<1>4. Bridge' \in BridgeStates
  BY <1>2, <1>3 DEF Bridge, BridgeStates
<1>5. Browses(Bridge, Bridge', c, B)
  BY BridgeIs DEF Browses
<1> QED BY <1>4, <1>5

\* The bound that counts troubles.
LEMMA TroubledIs ==
    ASSUME NEW l \in Ledgers
    PROVE  /\ Troubled(l) \in Ledgers
           /\ Troubled(l).ids = l.ids /\ Troubled(l).links = l.links /\ Troubled(l).lied = l.lied
           /\ Troubled(l).mistaken = l.mistaken /\ Troubled(l).attached = l.attached
           /\ Troubled(l).probes = l.probes
  BY DEF Troubled, Ledgers

\* A length that is neither nothing nor more than one.
LEMMA JustOne ==
    ASSUME NEW n \in Nat, n # 0, ~ (n > 1)
    PROVE  n = 1
  OBVIOUS

\* The browser sends a reply it owed.
LEMMA PayReplyKeeps ==
    ASSUME BridgeOK(Bridge), NEW c \in PeerIds, PayReply(c)
    PROVE  BridgeOK(Bridge')
<1> DEFINE v == PeerView(Bridge, c)
           w == PeerView(Bridge', c)
           b == browser[c]
           B == [b EXCEPT !.in = @ \o b.owed, !.owed = <<>>]
           f == b.owed[1]
<1>1. Bridge \in BridgeStates /\ PeerOK(v)
  BY DEF BridgeOK
<1>2. /\ b \in Browsers /\ b.in \in Seq(PeerFrames) /\ b.owed \in Seq(PeerFrames)
      /\ browser \in [PeerIds -> Browsers] /\ ledger \in Ledgers /\ ledger.attached \in Nat
  BY <1>1, BridgeIs, PeerParts, BridgeParts
<1>3. b.owed # <<>> /\ browser' = [browser EXCEPT ![c] = B] /\ UNCHANGED <<origin, await, attachment, probe, ledger>>
  <2>1. browser' = [browser EXCEPT ![c].in = @ \o browser[c].owed, ![c].owed = <<>>]
    BY DEF PayReply
  <2>2. browser' = [browser EXCEPT ![c] = B]
    BY <1>2, <2>1
  <2> QED BY <2>2 DEF PayReply
<1>30. v.owed = b.owed /\ \A i : (\E k \in DOMAIN b.owed : b.owed[k].id = i) => PeerUses(v, i)
  BY ViewOf, BridgeIs DEF PeerUses
<1> HIDE DEF b, v
<1>4. b.owed = <<f>> /\ f \in PeerFrames
  <2>2. \A j, k \in DOMAIN b.owed : j = k
    BY <1>1, <1>30 DEF PeerOK, PeerNumbers
  <2>3. Len(b.owed) \in Nat /\ DOMAIN b.owed = 1 .. Len(b.owed) /\ Len(b.owed) # 0
    BY <1>2, <1>3
  <2>4. Len(b.owed) = 1
    <3>1. CASE Len(b.owed) > 1
      <4>1. 1 \in 1 .. Len(b.owed) /\ 2 \in 1 .. Len(b.owed)
        BY <2>3, <3>1
      <4>2. DOMAIN b.owed = 1 .. Len(b.owed)
        BY <2>3
      <4>3. 1 \in DOMAIN b.owed /\ 2 \in DOMAIN b.owed
        BY <4>1, <4>2
      <4>4. 1 = 2
        BY <2>2, <4>3
      <4> QED BY <4>4
    <3>2. CASE ~ (Len(b.owed) > 1)
      <4>1. Len(b.owed) \in Nat /\ Len(b.owed) # 0
        BY <2>3
      <4> QED BY <3>2, <4>1, JustOne
    <3> QED BY <3>1, <3>2
  <2> QED BY <1>2, <2>3, <2>4
<1>5. b.in \o b.owed \in Seq(PeerFrames) /\ PeerMore(b.in, b.in \o b.owed, {f})
  <2>1. b.in \o <<f>> = Append(b.in, f) /\ Append(b.in, f) \in Seq(PeerFrames) /\ PeerMore(b.in, Append(b.in, f), {f})
    BY <1>2, <1>4, OneIsMore
  <2> QED BY <1>4, <2>1
<1>6. /\ B \in Browsers /\ B.live = b.live /\ B.foreign = b.foreign /\ B.out = b.out
      /\ B.in = b.in \o b.owed /\ B.owed = <<>>
  <2>1. <<>> \in Seq(PeerFrames)
    OBVIOUS
  <2> QED BY <1>2, <1>5, <2>1 DEF Browsers
<1> HIDE DEF B
<1>7. Bridge' \in BridgeStates /\ Browses(Bridge, Bridge', c, B)
  <2>1. /\ UNCHANGED <<origin, await, attachment, probe>>
        /\ browser' = [browser EXCEPT ![c] = B] /\ B \in Browsers
        /\ ledger' \in Ledgers /\ ledger'.ids = ledger.ids /\ ledger'.links = ledger.links
        /\ ledger'.lied = ledger.lied /\ ledger'.mistaken = ledger.mistaken
        /\ ledger'.attached >= ledger.attached
    BY <1>2, <1>3, <1>6
  <2> QED BY <2>1, BrowserActs
<1>8. /\ PeerOK(v) /\ v \in PeerViews /\ w \in PeerViews /\ Unheard(v, w)
      /\ w.live = B.live /\ w.foreign = B.foreign /\ w.owed = B.owed
      /\ w.out = B.out /\ w.in = B.in /\ w.attached = ledger'.attached
      /\ v.live = b.live /\ v.foreign = b.foreign /\ v.owed = b.owed
      /\ v.out = b.out /\ v.in = b.in /\ v.attached = ledger.attached
  BY ZenonT(30), <1>6, <1>7, BrowsesShape, BridgeIs DEF v, b
<1> HIDE DEF w, f
<1>9. PeerOK(w)
  BY <1>3, <1>4, <1>5, <1>6, <1>8, PeerPays
<1>10. \A i : PeerUses(w, i) => PeerUses(v, i)
  BY <1>4, <1>5, <1>6, <1>8 DEF PeerMore, PeerUses, Unheard, SameAwait
<1> QED BY <1>6, <1>7, <1>9, <1>10, BrowsesKeeps DEF v, w

\* The connection once the first command is taken from what is sent over it.
Popped(v) == [v EXCEPT !.out = Tail(@)]

\* What is known of the first command, and of the connection without it.
PeerFirst(v, u, f) ==
    /\ PeerOK(u) /\ u \in PeerViews /\ v.open /\ u.open /\ f \in PeerCommands
    /\ SameOrigin(v, u) /\ SameAwait(v, u) /\ SameProbe(v, u) /\ SameLedger(v, u)
    /\ u.live = v.live /\ u.foreign = v.foreign /\ u.owed = v.owed /\ u.in = v.in
    /\ \A j \in DOMAIN u.out : j + 1 \in DOMAIN v.out /\ u.out[j] = v.out[j + 1]
    /\ f.op = "foreign" <=> f.id = 0
    /\ f.id # 0 => PeerUses(v, f.id)
    /\ f.id # 0 => f.id \in 1 .. v.ids
    /\ f.id # 0 => \A j \in DOMAIN u.out : u.out[j].id # f.id
    /\ f.op = "attach" <=> \E a \in v.att : a.id = f.id
    /\ \A p \in v.pending : p.id = f.id => p.op = f.op /\ p.session = f.session
    /\ \A j \in DOMAIN v.in : v.in[j].kind = "reply" => v.in[j].id # f.id
    /\ \A j \in DOMAIN v.owed : v.owed[j].id # f.id

\* The command the browser takes, and what is known of its number.
LEMMA PeerFirstIs ==
    ASSUME NEW v \in PeerViews, PeerOK(v), v.out # <<>>, NEW u, u = Popped(v), NEW f, f = v.out[1]
    PROVE  PeerFirst(v, u, f) /\ u.out = Tail(v.out)
<1>1. v.out \in Seq(PeerCommands) /\ v.ids \in Nat
  BY PeerType
<1>2. Tail(v.out) \in Seq(PeerCommands) /\ f \in PeerCommands /\ PeerRest(v.out, Tail(v.out))
  BY <1>1, TailIsRest
<1>3. u \in PeerViews /\ u.out = Tail(v.out)
  BY <1>2 DEF Popped, PeerViews
<1>4. /\ u.live = v.live /\ u.foreign = v.foreign /\ u.owed = v.owed /\ u.in = v.in
      /\ SameOrigin(v, u) /\ SameAwait(v, u) /\ SameProbe(v, u) /\ SameLedger(v, u)
  BY DEF Popped, PeerViews, SameOrigin, SameAwait, SameProbe, SameLedger
<1>5. Unheard(v, u) /\ u.attached = v.attached
  BY <1>4 DEF Unheard, SameLedger
<1>6. PeerOK(u) /\ \A j \in DOMAIN u.out : v.out[1].id # 0 => u.out[j].id # v.out[1].id
  BY <1>2, <1>3, <1>4, <1>5, PeerPops
<1>7. /\ 1 \in DOMAIN v.out
      /\ \A j \in DOMAIN u.out : j + 1 \in DOMAIN v.out /\ u.out[j] = v.out[j + 1]
  BY <1>2, <1>3 DEF PeerRest
<1>8. v.open
  BY <1>1, <1>7 DEF PeerOK, PeerShut, PeerViews
<1>9. u.open
  BY <1>4, <1>8 DEF SameOrigin
<1>10. /\ f.op = "foreign" <=> f.id = 0
       /\ f.op = "attach" <=> \E a \in v.att : a.id = f.id
       /\ \A p \in v.pending : p.id = f.id => p.op = f.op /\ p.session = f.session
  BY <1>7 DEF PeerOK, PeerNumbers
<1>11. \A j \in DOMAIN v.in : v.in[j].kind = "reply" => v.in[j].id # f.id
  BY <1>7 DEF PeerOK, PeerNumbers
<1>12. \A j \in DOMAIN v.owed : v.owed[j].id # f.id
  BY <1>7 DEF PeerOK, PeerNumbers
<1>13. f.id # 0 => f.id \in 1 .. v.ids
  BY <1>1, <1>7 DEF PeerOK, PeerSizes
<1>14. f.id # 0 => PeerUses(v, f.id)
  BY <1>7 DEF PeerUses
<1> QED BY <1>2, <1>3, <1>4, <1>6, <1>7, <1>8, <1>9, <1>10, <1>11, <1>12, <1>13, <1>14 DEF PeerFirst

\* Frames and owed replies about that command only.
FirstFrames(F, f) == \A g \in F : g.kind = "reply" => g.id = f.id /\ f.id # 0
FirstOwed(v, w, f) == w.owed = v.owed \/ \A k \in DOMAIN w.owed : w.owed[k].id = f.id /\ f.id # 0

\* The commands in use, after a frame about one that was.
LEMMA PeerFirstUses ==
    ASSUME NEW v, NEW u, NEW w, NEW f, PeerFirst(v, u, f), NEW F, PeerMore(v.in, w.in, F),
           w.pending = v.pending, w.att = v.att, w.out = u.out,
           FirstFrames(F, f), FirstOwed(v, w, f),
           NEW i, PeerUses(w, i)
    PROVE  PeerUses(v, i)
<1>1. CASE (\E p \in w.pending : p.id = i) \/ (\E a \in w.att : a.id = i)
  BY <1>1 DEF PeerUses
<1>2. CASE i # 0 /\ \E k \in DOMAIN w.out : w.out[k].id = i
  BY <1>2 DEF PeerUses, PeerFirst
<1>3. CASE \E k \in DOMAIN w.in : w.in[k].kind = "reply" /\ w.in[k].id = i
  BY <1>3 DEF PeerMore, PeerUses, FirstFrames, PeerFirst
<1>4. CASE \E k \in DOMAIN w.owed : w.owed[k].id = i
  BY <1>4 DEF PeerUses, PeerFirst, FirstOwed
<1> QED BY <1>1, <1>2, <1>3, <1>4 DEF PeerUses

\* The frames of a detachment fit what the connection is waiting for.
DetachFrames(F, s, n, f) ==
    /\ n \in F /\ n.kind = "detached" /\ n.session = s
    /\ f \in F /\ f.kind = "reply" /\ f.session = 0
    /\ \A g \in F : g = n \/ g = f
DetachAlone(v, s, f) ==
    /\ f.id \in 1 .. v.ids
    /\ \A j \in DOMAIN v.in : v.in[j].kind = "reply" => v.in[j].id # f.id
    /\ \A j \in DOMAIN v.out : v.out[j].id # f.id
    /\ \A j \in DOMAIN v.owed : v.owed[j].id # f.id
    /\ \A a \in v.att : a.id # f.id
    /\ \A p \in v.pending : p.id = f.id => p.session = s

\* A session ends in the browser: its notice and the reply to the command, if any.
LEMMA PeerDetachesOf ==
    ASSUME NEW v, NEW w \in PeerViews, PeerOK(v), Unheard(v, w), NEW F, PeerMore(v.in, w.in, F),
           NEW s, s \in v.live \cup v.foreign, w.live = v.live \ {s}, w.foreign = v.foreign \ {s},
           w.attached = v.attached, w.out = v.out, w.owed = v.owed, v.open,
           NEW n, NEW f, DetachFrames(F, s, n, f), DetachAlone(v, s, f),
           ~ v.mistaken => s \notin v.foreign
    PROVE  PeerOK(w)
  BY PeerDetaches DEF DetachFrames, DetachAlone

\* A command is answered, and no more.
LEMMA CarriesPlain ==
    ASSUME NEW v \in PeerViews, NEW w \in PeerViews, PeerOK(v), v.out # <<>>, Unheard(v, w),
           NEW f, f = v.out[1], w.out = Tail(v.out),
           NEW r, PeerMore(v.in, w.in, {r}), r.kind = "reply", r.id = f.id, r.session = 0,
           w.live = v.live, w.foreign = v.foreign, w.owed = v.owed, w.attached = v.attached,
           f.op # "foreign", f.op = "attach" => ~ r.ok,
           f.op = "detach" /\ r.ok => f.session \notin v.live
    PROVE  PeerOK(w) /\ \A i : PeerUses(w, i) => PeerUses(v, i)
<1> DEFINE u == Popped(v)
<1>1. PeerFirst(v, u, f) /\ u.out = Tail(v.out)
  BY PeerFirstIs
<1> HIDE DEF u
<1>2. Unheard(u, w)
  BY <1>1 DEF PeerFirst, Unheard, SameOrigin, SameAwait, SameProbe, SameLedger
<1>3. /\ PeerOK(u) /\ PeerMore(u.in, w.in, {r}) /\ u.open
      /\ w.live = u.live /\ w.foreign = u.foreign /\ w.owed = u.owed /\ w.out = u.out /\ w.attached = u.attached
  BY <1>1 DEF PeerFirst, SameLedger
<1>4. /\ r.id \in 1 .. u.ids
      /\ \A j \in DOMAIN u.in : u.in[j].kind = "reply" => u.in[j].id # r.id
      /\ \A j \in DOMAIN u.out : u.out[j].id # r.id
      /\ \A j \in DOMAIN u.owed : u.owed[j].id # r.id
  BY <1>1 DEF PeerFirst, SameLedger
<1>5. /\ \A a \in u.att : a.id = r.id => ~ r.ok
      /\ \A p \in u.pending : p.op = "detach" /\ p.id = r.id /\ r.ok => p.session \notin u.live
  BY <1>1 DEF PeerFirst, SameAwait
<1>6. PeerOK(w)
  BY <1>2, <1>3, <1>4, <1>5, PeerPlain
<1>7. /\ w.pending = v.pending /\ w.att = v.att /\ w.out = u.out
      /\ f.id # 0
  BY <1>1 DEF Unheard, SameAwait, PeerFirst
<1>8. \A i : PeerUses(w, i) => PeerUses(v, i)
  <2> SUFFICES ASSUME NEW i, PeerUses(w, i) PROVE PeerUses(v, i)
    OBVIOUS
  <2> DEFINE F == {r}
  <2>1. PeerMore(v.in, w.in, F) /\ FirstFrames(F, f)
    BY <1>7 DEF FirstFrames
  <2> HIDE DEF F
  <2>2. FirstOwed(v, w, f)
    BY DEF FirstOwed
  <2> QED BY <1>1, <1>7, <2>1, <2>2, PeerFirstUses
<1> QED BY <1>6, <1>8

\* A session is made for the bridge.
LEMMA CarriesMade ==
    ASSUME NEW v \in PeerViews, NEW w \in PeerViews, PeerOK(v), v.out # <<>>, Unheard(v, w),
           NEW f, f = v.out[1], f.op = "attach", w.out = Tail(v.out),
           NEW s, s = v.attached + 1, w.attached = s,
           w.live = v.live \cup {s}, w.foreign = v.foreign,
           NEW F, PeerMore(v.in, w.in, F), NEW n \in F, n.kind = "attached", n.session = s,
           NEW r, r.kind = "reply", r.id = f.id, r.ok, r.session = s,
           \A g \in F : g = n \/ g = r,
           \/ w.owed = v.owed /\ r \in F
           \/ w.owed = <<r>> /\ r \notin F
    PROVE  PeerOK(w) /\ \A i : PeerUses(w, i) => PeerUses(v, i)
<1> DEFINE u == Popped(v)
<1>1. PeerFirst(v, u, f) /\ u.out = Tail(v.out)
  BY PeerFirstIs
<1>2. \A j \in DOMAIN u.out : u.out[j].op # "foreign" /\ u.out[j].op # "attach"
  <2>1. v.out \in Seq(PeerCommands)
    BY PeerType
  <2>2. PeerRest(v.out, u.out)
    BY <1>1, <2>1, TailIsRest
  <2>3. PeerFirst(v, u, f)
    BY <1>1
  <2> HIDE DEF u
  <2>4. Unheard(v, u)
    BY <2>3 DEF PeerFirst, Unheard, SameLedger
  <2>5. /\ u.live = v.live /\ u.foreign = v.foreign /\ u.owed = v.owed /\ u.in = v.in /\ u.attached = v.attached
        /\ u \in PeerViews
    BY <2>3 DEF PeerFirst, SameLedger
  <2> QED BY <2>2, <2>4, <2>5, PeerPops
<1> HIDE DEF u
<1>3. PICK a \in v.att : a.id = f.id
  BY <1>1 DEF PeerFirst
<1>4. DOMAIN v.owed = {}
  BY <1>1, <1>3 DEF PeerFirst, PeerOK, PeerNumbers
<1>5. Unheard(u, w)
  BY <1>1 DEF PeerFirst, Unheard, SameOrigin, SameAwait, SameProbe, SameLedger
<1>6. /\ PeerOK(u) /\ PeerMore(u.in, w.in, F) /\ u.open /\ a \in u.att /\ s = u.attached + 1
      /\ w.live = u.live \cup {s} /\ w.foreign = u.foreign /\ w.out = u.out /\ DOMAIN u.owed = {}
  BY <1>1, <1>4 DEF PeerFirst, SameLedger, SameAwait
<1>7. /\ \A g \in F : g.kind = "attached" => g = n
      /\ \A g \in F : g.kind = "reply" => g.id = a.id /\ g.ok /\ g.session = s
      /\ \A g \in F : g.kind # "detached"
      /\ \A g, h \in F : g.kind = "reply" /\ h.kind = "reply" => g = h
  BY <1>3
<1>8. /\ \A j \in DOMAIN u.in : u.in[j].kind = "reply" => u.in[j].id # a.id
      /\ \A j \in DOMAIN u.out : u.out[j].id # a.id /\ u.out[j].op \notin {"foreign", "attach"}
  BY <1>1, <1>2, <1>3 DEF PeerFirst
<1>9. \A k \in DOMAIN w.owed : w.owed[k] = r /\ r \notin F /\ k = 1
  BY <1>4
<1>10. (\E g \in F : g.kind = "reply") \/ \E k \in DOMAIN w.owed : k = k
  <2>1. CASE r \in F
    BY <2>1
  <2>2. CASE w.owed = <<r>>
    BY <2>2
  <2> QED BY <2>1, <2>2
<1>11. \A k \in DOMAIN w.owed : w.owed[k].id = a.id /\ w.owed[k].session = s
  BY <1>3, <1>9
<1>12. ~ u.mistaken => u.live = {} /\ u.session = 0 /\ PeerQuiet(u, 0) /\ u.stage # "leftover"
  BY <1>1, PeerType DEF PeerFirst, SameLedger, PeerOK, PeerFaithful, PeerStaged, PeerQuiet,
     SameOrigin, SameProbe
<1>13. MayOwe(u, w)
  <2>1. u.attached \in Nat /\ s \in 1 .. w.attached /\ u.ids = v.ids /\ f.id \in 1 .. v.ids
    BY <1>1, <1>6, PeerType DEF PeerFirst, SameLedger
  <2>2. \A j, k \in DOMAIN w.owed : j = k
    BY <1>9
  <2> SUFFICES ASSUME NEW k \in DOMAIN w.owed
               PROVE  /\ w.owed[k].kind = "reply" /\ w.owed[k].ok
                      /\ w.owed[k].id \in 1 .. u.ids /\ w.owed[k].session \in 1 .. w.attached
                      /\ \E b \in u.att : b.id = w.owed[k].id
                      /\ \A j \in DOMAIN u.out : u.out[j].id # w.owed[k].id
                      /\ \A j \in DOMAIN w.in : w.in[j].kind = "reply" => w.in[j].id # w.owed[k].id
    BY <2>2 DEF MayOwe
  <2>3. w.owed[k] = r /\ r \notin F
    BY <1>9
  <2>4. \A j \in DOMAIN w.in : w.in[j].kind = "reply" => w.in[j].id # f.id
    BY <1>3, <1>6, <1>8, <2>3 DEF PeerMore
  <2>5. \A j \in DOMAIN u.out : u.out[j].id # f.id
    BY <1>3, <1>8
  <2> QED BY <1>3, <1>6, <2>1, <2>3, <2>4, <2>5
<1>14. PeerOK(w)
  <2>1. MadeFrames(u, F, a, s, n)
    BY <1>7 DEF MadeFrames
  <2>2. MadeOwed(u, w, F, a, s)
    BY <1>6, <1>10, <1>11, <1>13 DEF MadeOwed
  <2>3. MadeAlone(u, a)
    BY <1>8 DEF MadeAlone
  <2> QED BY <1>5, <1>6, <1>12, <2>1, <2>2, <2>3, PeerMade
<1>15. /\ w.pending = v.pending /\ w.att = v.att /\ w.out = u.out /\ f.id # 0
  BY <1>1 DEF Unheard, SameAwait, PeerFirst
<1>16. FirstFrames(F, f) /\ FirstOwed(v, w, f)
  BY <1>9, <1>15 DEF FirstFrames, FirstOwed
<1>17. \A i : PeerUses(w, i) => PeerUses(v, i)
  BY <1>1, <1>15, <1>16, PeerFirstUses
<1> QED BY <1>14, <1>17

\* The DevTools get a session of their own.
LEMMA CarriesForeign ==
    ASSUME NEW v \in PeerViews, NEW w \in PeerViews, PeerOK(v), v.out # <<>>, Unheard(v, w),
           NEW f, f = v.out[1], f.op = "foreign", w.out = Tail(v.out),
           NEW s, s = v.attached + 1, w.attached = s,
           w.live = v.live, w.foreign = v.foreign \cup {s}, w.owed = v.owed,
           NEW n, PeerMore(v.in, w.in, {n}), n.kind = "attached", n.session = s
    PROVE  PeerOK(w) /\ \A i : PeerUses(w, i) => PeerUses(v, i)
<1> DEFINE u == Popped(v)
           F == {n}
<1>1. PeerFirst(v, u, f) /\ u.out = Tail(v.out)
  BY PeerFirstIs
<1> HIDE DEF u
<1>2. Unheard(u, w)
  BY <1>1 DEF PeerFirst, Unheard, SameOrigin, SameAwait, SameProbe, SameLedger
<1>3. /\ PeerOK(u) /\ PeerMore(u.in, w.in, F) /\ u.open /\ s = u.attached + 1
      /\ w.live = u.live /\ w.foreign = u.foreign \cup {s} /\ w.out = u.out /\ w.owed = u.owed
      /\ u.att = v.att /\ u.attached = v.attached /\ u.in = v.in /\ u.owed = v.owed
  BY <1>1 DEF PeerFirst, SameLedger, SameAwait
<1>4. 1 \in DOMAIN v.out
  BY PeerType
<1>5. \A a \in u.att : \A o \in 1 .. u.attached : ~ PeerAnswer(u, a.id, o)
  BY <1>3, <1>4 DEF PeerOK, PeerAnswers, PeerAnswer
<1>6. F = {n} /\ \A g \in F : g = n
  OBVIOUS
<1>7. w.pending = v.pending /\ w.att = v.att /\ w.out = u.out
  BY <1>3 DEF Unheard, SameAwait
<1> HIDE DEF F
<1>8. PeerOK(w)
  BY <1>2, <1>3, <1>5, <1>6, PeerForeign
<1>9. FirstFrames(F, f) /\ FirstOwed(v, w, f)
  BY <1>6 DEF FirstFrames, FirstOwed
<1>10. PeerMore(v.in, w.in, F)
  BY DEF F
<1>11. \A i : PeerUses(w, i) => PeerUses(v, i)
  BY <1>1, <1>7, <1>9, <1>10, PeerFirstUses
<1> QED BY <1>8, <1>11

\* A session is detached.
LEMMA CarriesDetach ==
    ASSUME NEW v \in PeerViews, NEW w \in PeerViews, PeerOK(v), v.out # <<>>, Unheard(v, w),
           NEW f, f = v.out[1], f.op = "detach", w.out = Tail(v.out), f.session \in v.live \cup v.foreign,
           w.live = v.live \ {f.session}, w.foreign = v.foreign \ {f.session},
           w.owed = v.owed, w.attached = v.attached,
           NEW F, PeerMore(v.in, w.in, F), NEW n \in F, n.kind = "detached", n.session = f.session,
           NEW r \in F, r.kind = "reply", r.id = f.id, r.session = 0,
           \A g \in F : g = n \/ g = r
    PROVE  PeerOK(w) /\ \A i : PeerUses(w, i) => PeerUses(v, i)
<1> DEFINE u == Popped(v)
           s == f.session
<1>1. PeerFirst(v, u, f) /\ u.out = Tail(v.out)
  BY PeerFirstIs
<1> HIDE DEF u
<1>2. Unheard(u, w)
  BY <1>1 DEF PeerFirst, Unheard, SameOrigin, SameAwait, SameProbe, SameLedger
<1>3. /\ PeerOK(u) /\ PeerMore(u.in, w.in, F) /\ u.open /\ s \in u.live \cup u.foreign
      /\ w.live = u.live \ {s} /\ w.foreign = u.foreign \ {s} /\ w.out = u.out /\ w.owed = u.owed
      /\ w.attached = u.attached /\ n.session = s
  BY <1>1 DEF PeerFirst, SameLedger, SameAwait
<1>4. /\ r.id \in 1 .. u.ids
      /\ \A j \in DOMAIN u.in : u.in[j].kind = "reply" => u.in[j].id # r.id
      /\ \A j \in DOMAIN u.out : u.out[j].id # r.id
      /\ \A j \in DOMAIN u.owed : u.owed[j].id # r.id
  BY <1>1 DEF PeerFirst, SameLedger
<1>5. /\ \A a \in u.att : a.id # r.id
      /\ \A p \in u.pending : p.id = r.id => p.session = s
  BY <1>1 DEF PeerFirst, SameAwait
<1>6. ~ u.mistaken => s \notin u.foreign
  BY <1>1, PeerType DEF PeerOK, PeerFaithful, PeerFirst, SameLedger
<1>7. w.pending = v.pending /\ w.att = v.att /\ w.out = u.out /\ f.id # 0
  BY <1>1 DEF Unheard, SameAwait, PeerFirst
<1> HIDE DEF s
<1>8. PeerOK(w)
  <2>1. DetachFrames(F, s, n, r)
    BY <1>3 DEF DetachFrames
  <2>2. DetachAlone(u, s, r)
    BY <1>4, <1>5 DEF DetachAlone
  <2> QED BY <1>2, <1>3, <1>6, <2>1, <2>2, PeerDetachesOf
<1>9. FirstFrames(F, f) /\ FirstOwed(v, w, f)
  BY <1>7 DEF FirstFrames, FirstOwed
<1>11. \A i : PeerUses(w, i) => PeerUses(v, i)
  BY <1>1, <1>7, <1>9, PeerFirstUses
<1> QED BY <1>8, <1>11

\* A refusal that only takes the command away.
LEMMA CarriesNothing ==
    ASSUME NEW v \in PeerViews, NEW w \in PeerViews, PeerOK(v), v.out # <<>>, Unheard(v, w),
           w.out = Tail(v.out), w.live = v.live, w.foreign = v.foreign, w.owed = v.owed, w.in = v.in,
           w.attached = v.attached
    PROVE  PeerOK(w) /\ \A i : PeerUses(w, i) => PeerUses(v, i)
<1>1. v.out \in Seq(PeerCommands)
  BY PeerType
<1>2. PeerRest(v.out, w.out)
  BY <1>1, TailIsRest
<1>3. PeerOK(w)
  BY <1>2, PeerPops
<1>4. \A k \in DOMAIN w.out : k + 1 \in DOMAIN v.out /\ w.out[k] = v.out[k + 1]
  BY <1>2 DEF PeerRest
<1>5. \A i : PeerUses(w, i) => PeerUses(v, i)
  BY <1>4 DEF PeerUses, Unheard, SameAwait
<1> QED BY <1>3, <1>5

\* What a command carried out leaves alone.
Carrying(c) ==
    /\ browser[c].out # <<>> /\ UNCHANGED <<origin, await, attachment, probe>>
    /\ ledger' \in Ledgers /\ ledger'.ids = ledger.ids /\ ledger'.links = ledger.links
    /\ ledger'.lied = ledger.lied /\ ledger'.mistaken = ledger.mistaken
    /\ ledger'.attached >= ledger.attached

\* The connection before and after, when the browser becomes D and hands over q.
HandedTo(v, w, b, D, q) ==
    /\ v \in PeerViews /\ w \in PeerViews /\ PeerOK(v) /\ Unheard(v, w)
    /\ v.out # <<>> /\ v.out = b.out /\ w.out = Tail(v.out)
    /\ v.in = b.in /\ v.live = b.live /\ v.foreign = b.foreign /\ v.owed = b.owed
    /\ w.in = q /\ w.live = D.live /\ w.foreign = D.foreign /\ w.owed = D.owed
    /\ v.attached = ledger.attached /\ w.attached = ledger'.attached

\* What is left to show of it.
HandedWell(v, w) == PeerOK(w) /\ \A i : PeerUses(w, i) => PeerUses(v, i)

\* The browser has executed a command: what is left to show.
LEMMA HandedIs ==
    ASSUME BridgeOK(Bridge), NEW c \in PeerIds, Carrying(c), NEW D \in Browsers, D.out = browser[c].out,
           NEW q \in Seq(PeerFrames),
           browser' = [browser EXCEPT ![c] = [D EXCEPT !.in = q, !.out = Tail(@)]]
    PROVE  /\ HandedTo(PeerView(Bridge, c), PeerView(Bridge', c), browser[c], D, q)
           /\ HandedWell(PeerView(Bridge, c), PeerView(Bridge', c)) => BridgeOK(Bridge')
<1> DEFINE v == PeerView(Bridge, c)
           w == PeerView(Bridge', c)
           b == browser[c]
           B == [D EXCEPT !.in = q, !.out = Tail(@)]
<1>1. Bridge \in BridgeStates
  BY DEF BridgeOK
<1>2. b.out \in Seq(PeerCommands)
  BY <1>1, BridgeIs, PeerParts
<1>3. Tail(b.out) \in Seq(PeerCommands)
  BY <1>2, TailIsRest DEF Carrying
<1>4. /\ B \in Browsers /\ B.in = q /\ B.out = Tail(b.out)
      /\ B.live = D.live /\ B.foreign = D.foreign /\ B.owed = D.owed
  BY <1>3 DEF Browsers
<1>5. browser' = [browser EXCEPT ![c] = B]
  OBVIOUS
<1> HIDE DEF B
<1>6. Bridge' \in BridgeStates /\ Browses(Bridge, Bridge', c, B)
  BY <1>4, <1>5, BrowserActs DEF Carrying
<1>7. /\ PeerOK(v) /\ v \in PeerViews /\ w \in PeerViews /\ Unheard(v, w)
      /\ w.live = B.live /\ w.foreign = B.foreign /\ w.owed = B.owed
      /\ w.out = B.out /\ w.in = B.in /\ w.attached = ledger'.attached
      /\ v.live = b.live /\ v.foreign = b.foreign /\ v.owed = b.owed
      /\ v.out = b.out /\ v.in = b.in /\ v.attached = ledger.attached
  BY <1>4, <1>6, BrowsesShape, BridgeIs DEF v, b, w
<1>8. b.out # <<>>
  BY DEF Carrying
<1> HIDE DEF v, w, b
<1>9. HandedTo(v, w, b, D, q)
  BY <1>4, <1>7, <1>8 DEF HandedTo
<1>10. ASSUME HandedWell(v, w) PROVE BridgeOK(Bridge')
  BY <1>4, <1>6, <1>10, BrowsesKeeps DEF HandedWell, v, w
<1> QED BY <1>9, <1>10 DEF v, w, b

\* A reply alone is handed over.
LEMMA HandsReply ==
    ASSUME BridgeOK(Bridge), NEW c \in PeerIds, Carrying(c), ledger'.attached = ledger.attached,
           NEW f, f = Head(browser[c].out), NEW ok \in BOOLEAN, Hand(c, browser[c], Reply(f, ok, 0), <<>>),
           f.op # "foreign", f.op = "attach" => ~ ok,
           f.op = "detach" /\ ok => f.session \notin browser[c].live
    PROVE  BridgeOK(Bridge')
<1> DEFINE v == PeerView(Bridge, c)
           w == PeerView(Bridge', c)
           b == browser[c]
           r == [kind |-> "reply", id |-> f.id, ok |-> ok, session |-> 0]
<1>1. Bridge \in BridgeStates
  BY DEF BridgeOK
<1>2. b \in Browsers /\ b.out \in Seq(PeerCommands) /\ b.in \in Seq(PeerFrames) /\ b.out # <<>>
  BY <1>1, BridgeIs, PeerParts DEF Carrying
<1>3. f = b.out[1] /\ f \in PeerCommands
  BY <1>2, TailIsRest
<1>4. r \in PeerFrames
  BY <1>3 DEF PeerFrames, PeerReplies, PeerCommands
<1>5. r.kind = "reply" /\ r.id = f.id /\ r.session = 0 /\ r.ok = ok
  OBVIOUS
<1>6. PICK q : /\ q = b.in \o <<>> \o <<r>> \/ q = b.in \o <<r>> \o <<>>
               /\ browser' = [browser EXCEPT ![c] = [b EXCEPT !.in = q, !.out = Tail(@)]]
  BY DEF Hand, Reply
<1> HIDE DEF b, r, v, w
<1>7. q \in Seq(PeerFrames) /\ PeerMore(b.in, q, {r})
  BY <1>2, <1>4, <1>6, HandsOne
<1>8. HandedTo(v, w, b, b, q) /\ (HandedWell(v, w) => BridgeOK(Bridge'))
  BY <1>2, <1>6, <1>7, HandedIs DEF v, w, b
<1>9. HandedWell(v, w)
  <2>1. /\ v \in PeerViews /\ w \in PeerViews /\ PeerOK(v) /\ v.out # <<>> /\ Unheard(v, w)
        /\ f = v.out[1] /\ w.out = Tail(v.out) /\ PeerMore(v.in, w.in, {r})
        /\ w.live = v.live /\ w.foreign = v.foreign /\ w.owed = v.owed /\ w.attached = v.attached
    BY <1>3, <1>7, <1>8 DEF HandedTo
  <2>2. f.op = "attach" => ~ r.ok
    BY <1>5
  <2>3. f.op = "detach" /\ r.ok => f.session \notin v.live
    BY <1>5, <1>8 DEF HandedTo, b
  <2> QED BY <1>5, <2>1, <2>2, <2>3, CarriesPlain DEF HandedWell
<1> QED BY <1>8, <1>9

\* Nothing is handed over.
LEMMA HandsNothing ==
    ASSUME BridgeOK(Bridge), NEW c \in PeerIds, Carrying(c), ledger'.attached = ledger.attached,
           Hand(c, browser[c], <<>>, <<>>)
    PROVE  BridgeOK(Bridge')
<1> DEFINE v == PeerView(Bridge, c)
           w == PeerView(Bridge', c)
           b == browser[c]
<1>1. Bridge \in BridgeStates
  BY DEF BridgeOK
<1>2. b \in Browsers /\ b.in \in Seq(PeerFrames) /\ b.out # <<>>
  BY <1>1, BridgeIs, PeerParts DEF Carrying
<1>3. PICK q : /\ q = b.in \o <<>> \o <<>>
               /\ browser' = [browser EXCEPT ![c] = [b EXCEPT !.in = q, !.out = Tail(@)]]
  BY DEF Hand
<1> HIDE DEF b, v, w
<1>4. q = b.in
  BY <1>2, <1>3, HandsNone
<1>5. HandedTo(v, w, b, b, q) /\ (HandedWell(v, w) => BridgeOK(Bridge'))
  BY <1>2, <1>3, <1>4, HandedIs DEF v, w, b
<1>6. HandedWell(v, w)
  BY <1>4, <1>5, CarriesNothing DEF HandedTo, HandedWell
<1> QED BY <1>5, <1>6

\* A session is made for the bridge, and its event handed over with its reply.
LEMMA HandsMade ==
    ASSUME BridgeOK(Bridge), NEW c \in PeerIds, Carrying(c), NEW s, s = ledger.attached + 1,
           ledger'.attached = s, NEW f, f = Head(browser[c].out), f.op = "attach",
           Hand(c, [browser[c] EXCEPT !.live = @ \cup {s}], Reply(f, TRUE, s), Notice("attached", s))
    PROVE  BridgeOK(Bridge')
<1> DEFINE v == PeerView(Bridge, c)
           w == PeerView(Bridge', c)
           b == browser[c]
           D == [b EXCEPT !.live = @ \cup {s}]
           r == [kind |-> "reply", id |-> f.id, ok |-> TRUE, session |-> s]
           n == [kind |-> "attached", session |-> s]
           F == {n, r}
<1>1. Bridge \in BridgeStates /\ s \in Nat
  BY BridgeParts, BridgeIs DEF BridgeOK
<1>2. b \in Browsers /\ b.out \in Seq(PeerCommands) /\ b.in \in Seq(PeerFrames) /\ b.out # <<>>
  BY <1>1, BridgeIs, PeerParts DEF Carrying
<1>3. f = b.out[1] /\ f \in PeerCommands
  BY <1>2, TailIsRest
<1>4. r \in PeerFrames /\ n \in PeerFrames /\ n # r
  BY <1>1, <1>3 DEF PeerFrames, PeerReplies, PeerCommands, PeerNotices
<1>5. /\ r.kind = "reply" /\ r.id = f.id /\ r.session = s /\ r.ok
      /\ n.kind = "attached" /\ n.session = s
  OBVIOUS
<1>6. /\ D \in Browsers /\ D.in = b.in /\ D.out = b.out /\ D.live = b.live \cup {s}
      /\ D.foreign = b.foreign /\ D.owed = b.owed
  BY <1>1, <1>2 DEF Browsers
<1>7. PICK q : /\ q \in {b.in \o <<n>> \o <<r>>, b.in \o <<r>> \o <<n>>}
               /\ browser' = [browser EXCEPT ![c] = [D EXCEPT !.in = q, !.out = Tail(@)]]
  BY <1>6 DEF Hand, Reply, Notice
<1> HIDE DEF b, r, v, w, n, D
<1>8. q \in Seq(PeerFrames) /\ PeerMore(b.in, q, F)
  BY <1>2, <1>4, <1>7, HandsBoth
<1>9. n \in F /\ r \in F /\ \A g \in F : g = n \/ g = r
  OBVIOUS
<1> HIDE DEF F
<1>10. HandedTo(v, w, b, D, q) /\ (HandedWell(v, w) => BridgeOK(Bridge'))
  <2>1. D.out = browser[c].out
    BY <1>6 DEF b
  <2> QED BY <1>6, <1>7, <1>8, <2>1, HandedIs DEF v, w, b
<1>11. HandedWell(v, w)
  <2>1. /\ v \in PeerViews /\ w \in PeerViews /\ PeerOK(v) /\ v.out # <<>> /\ Unheard(v, w)
        /\ f = v.out[1] /\ w.out = Tail(v.out) /\ PeerMore(v.in, w.in, F)
        /\ w.live = v.live \cup {s} /\ w.foreign = v.foreign /\ w.owed = v.owed
        /\ s = v.attached + 1 /\ w.attached = s
    BY <1>3, <1>6, <1>8, <1>10 DEF HandedTo
  <2>2. PeerOK(w) /\ \A i : PeerUses(w, i) => PeerUses(v, i)
    BY <1>5, <1>9, <2>1, CarriesMade
  <2> QED BY <2>2 DEF HandedWell
<1> QED BY <1>10, <1>11

\* A session is made for the bridge, and its reply is owed.
LEMMA HandsOwed ==
    ASSUME BridgeOK(Bridge), NEW c \in PeerIds, Carrying(c), NEW s, s = ledger.attached + 1,
           ledger'.attached = s, NEW f, f = Head(browser[c].out), f.op = "attach",
           Hand(c, [browser[c] EXCEPT !.live = @ \cup {s}, !.owed = Reply(f, TRUE, s)], <<>>, Notice("attached", s))
    PROVE  BridgeOK(Bridge')
<1> DEFINE v == PeerView(Bridge, c)
           w == PeerView(Bridge', c)
           b == browser[c]
           r == [kind |-> "reply", id |-> f.id, ok |-> TRUE, session |-> s]
           D == [b EXCEPT !.live = @ \cup {s}, !.owed = <<r>>]
           n == [kind |-> "attached", session |-> s]
           F == {n}
<1>1. Bridge \in BridgeStates /\ s \in Nat
  BY BridgeParts, BridgeIs DEF BridgeOK
<1>2. b \in Browsers /\ b.out \in Seq(PeerCommands) /\ b.in \in Seq(PeerFrames) /\ b.out # <<>>
  BY <1>1, BridgeIs, PeerParts DEF Carrying
<1>3. f = b.out[1] /\ f \in PeerCommands
  BY <1>2, TailIsRest
<1>4. r \in PeerFrames /\ n \in PeerFrames /\ n # r
  BY <1>1, <1>3 DEF PeerFrames, PeerReplies, PeerCommands, PeerNotices
<1>5. /\ r.kind = "reply" /\ r.id = f.id /\ r.session = s /\ r.ok
      /\ n.kind = "attached" /\ n.session = s
  OBVIOUS
<1>50. <<r>> \in Seq(PeerFrames)
  <2> HIDE DEF r
  <2> QED BY <1>4
<1>6. /\ D \in Browsers /\ D.in = b.in /\ D.out = b.out /\ D.live = b.live \cup {s}
      /\ D.foreign = b.foreign /\ D.owed = <<r>>
  <2> HIDE DEF r
  <2> QED BY <1>1, <1>2, <1>50 DEF Browsers
<1>7. PICK q : /\ q = b.in \o <<n>> \o <<>> \/ q = b.in \o <<>> \o <<n>>
               /\ browser' = [browser EXCEPT ![c] = [D EXCEPT !.in = q, !.out = Tail(@)]]
  BY <1>6 DEF Hand, Reply, Notice
<1> HIDE DEF b, r, v, w, n, D
<1>8. q \in Seq(PeerFrames) /\ PeerMore(b.in, q, F)
  BY <1>2, <1>4, <1>7, HandsOne
<1>9. n \in F /\ r \notin F /\ \A g \in F : g = n \/ g = r
  BY <1>4
<1> HIDE DEF F
<1>10. HandedTo(v, w, b, D, q) /\ (HandedWell(v, w) => BridgeOK(Bridge'))
  <2>1. D.out = browser[c].out
    BY <1>6 DEF b
  <2> QED BY <1>6, <1>7, <1>8, <2>1, HandedIs DEF v, w, b
<1>11. HandedWell(v, w)
  <2>1. /\ v \in PeerViews /\ w \in PeerViews /\ PeerOK(v) /\ v.out # <<>> /\ Unheard(v, w)
        /\ f = v.out[1] /\ w.out = Tail(v.out) /\ PeerMore(v.in, w.in, F)
        /\ w.live = v.live \cup {s} /\ w.foreign = v.foreign /\ w.owed = <<r>>
        /\ s = v.attached + 1 /\ w.attached = s
    BY <1>3, <1>6, <1>8, <1>10 DEF HandedTo
  <2>2. PeerOK(w) /\ \A i : PeerUses(w, i) => PeerUses(v, i)
    BY <1>5, <1>9, <2>1, CarriesMade
  <2> QED BY <2>2 DEF HandedWell
<1> QED BY <1>10, <1>11

\* A session is made for the DevTools.
LEMMA HandsForeign ==
    ASSUME BridgeOK(Bridge), NEW c \in PeerIds, Carrying(c), NEW s, s = ledger.attached + 1,
           ledger'.attached = s, NEW f, f = Head(browser[c].out), f.op = "foreign",
           Hand(c, [browser[c] EXCEPT !.foreign = @ \cup {s}], <<>>, Notice("attached", s))
    PROVE  BridgeOK(Bridge')
<1> DEFINE v == PeerView(Bridge, c)
           w == PeerView(Bridge', c)
           b == browser[c]
           D == [b EXCEPT !.foreign = @ \cup {s}]
           n == [kind |-> "attached", session |-> s]
<1>1. Bridge \in BridgeStates /\ s \in Nat
  BY BridgeParts, BridgeIs DEF BridgeOK
<1>2. b \in Browsers /\ b.out \in Seq(PeerCommands) /\ b.in \in Seq(PeerFrames) /\ b.out # <<>>
  BY <1>1, BridgeIs, PeerParts DEF Carrying
<1>3. f = b.out[1]
  BY <1>2, TailIsRest
<1>4. n \in PeerFrames /\ n.kind = "attached" /\ n.session = s
  BY <1>1 DEF PeerFrames, PeerNotices
<1>6. /\ D \in Browsers /\ D.in = b.in /\ D.out = b.out /\ D.foreign = b.foreign \cup {s}
      /\ D.live = b.live /\ D.owed = b.owed
  BY <1>1, <1>2 DEF Browsers
<1>7. PICK q : /\ q = b.in \o <<n>> \o <<>> \/ q = b.in \o <<>> \o <<n>>
               /\ browser' = [browser EXCEPT ![c] = [D EXCEPT !.in = q, !.out = Tail(@)]]
  BY <1>6 DEF Hand, Reply, Notice
<1> HIDE DEF b, v, w, n, D
<1>8. q \in Seq(PeerFrames) /\ PeerMore(b.in, q, {n})
  BY <1>2, <1>4, <1>7, HandsOne
<1>10. HandedTo(v, w, b, D, q) /\ (HandedWell(v, w) => BridgeOK(Bridge'))
  <2>1. D.out = browser[c].out
    BY <1>6 DEF b
  <2> QED BY <1>6, <1>7, <1>8, <2>1, HandedIs DEF v, w, b
<1>11. HandedWell(v, w)
  <2>1. /\ v \in PeerViews /\ w \in PeerViews /\ PeerOK(v) /\ v.out # <<>> /\ Unheard(v, w)
        /\ f = v.out[1] /\ w.out = Tail(v.out) /\ PeerMore(v.in, w.in, {n})
        /\ w.live = v.live /\ w.foreign = v.foreign \cup {s} /\ w.owed = v.owed
        /\ s = v.attached + 1 /\ w.attached = s
    BY <1>3, <1>6, <1>8, <1>10 DEF HandedTo
  <2>2. PeerOK(w) /\ \A i : PeerUses(w, i) => PeerUses(v, i)
    BY <1>4, <2>1, CarriesForeign
  <2> QED BY <2>2 DEF HandedWell
<1> QED BY <1>10, <1>11

\* A session is detached, and the event handed over with the reply.
LEMMA HandsDetached ==
    ASSUME BridgeOK(Bridge), NEW c \in PeerIds, Carrying(c), ledger'.attached = ledger.attached,
           NEW f, f = Head(browser[c].out), f.op = "detach",
           f.session \in browser[c].live \cup browser[c].foreign,
           Hand(c, [browser[c] EXCEPT !.live = @ \ {f.session}, !.foreign = @ \ {f.session}],
                Reply(f, TRUE, 0), Notice("detached", f.session))
    PROVE  BridgeOK(Bridge')
<1> DEFINE v == PeerView(Bridge, c)
           w == PeerView(Bridge', c)
           b == browser[c]
           D == [b EXCEPT !.live = @ \ {f.session}, !.foreign = @ \ {f.session}]
           r == [kind |-> "reply", id |-> f.id, ok |-> TRUE, session |-> 0]
           n == [kind |-> "detached", session |-> f.session]
           F == {n, r}
<1>1. Bridge \in BridgeStates
  BY DEF BridgeOK
<1>2. b \in Browsers /\ b.out \in Seq(PeerCommands) /\ b.in \in Seq(PeerFrames) /\ b.out # <<>>
  BY <1>1, BridgeIs, PeerParts DEF Carrying
<1>3. f = b.out[1] /\ f \in PeerCommands /\ f.session \in Nat
  <2>1. f = b.out[1] /\ f \in PeerCommands
    BY <1>2, TailIsRest
  <2> QED BY <2>1 DEF PeerCommands
<1>4. r \in PeerFrames /\ n \in PeerFrames /\ n # r
  BY <1>3 DEF PeerFrames, PeerReplies, PeerCommands, PeerNotices
<1>5. /\ r.kind = "reply" /\ r.id = f.id /\ r.session = 0
      /\ n.kind = "detached" /\ n.session = f.session
  OBVIOUS
<1>6. /\ D \in Browsers /\ D.in = b.in /\ D.out = b.out /\ D.live = b.live \ {f.session}
      /\ D.foreign = b.foreign \ {f.session} /\ D.owed = b.owed
  BY <1>2 DEF Browsers
<1>7. PICK q : /\ q \in {b.in \o <<n>> \o <<r>>, b.in \o <<r>> \o <<n>>}
               /\ browser' = [browser EXCEPT ![c] = [D EXCEPT !.in = q, !.out = Tail(@)]]
  BY <1>6 DEF Hand, Reply, Notice
<1>70. f.session \in b.live \cup b.foreign
  OBVIOUS
<1> HIDE DEF b, r, v, w, n, D
<1>8. q \in Seq(PeerFrames) /\ PeerMore(b.in, q, F)
  BY <1>2, <1>4, <1>7, HandsBoth
<1>9. n \in F /\ r \in F /\ \A g \in F : g = n \/ g = r
  OBVIOUS
<1> HIDE DEF F
<1>10. HandedTo(v, w, b, D, q) /\ (HandedWell(v, w) => BridgeOK(Bridge'))
  <2>1. D.out = browser[c].out
    BY <1>6 DEF b
  <2> QED BY <1>6, <1>7, <1>8, <2>1, HandedIs DEF v, w, b
<1>11. HandedWell(v, w)
  <2>1. /\ v \in PeerViews /\ w \in PeerViews /\ PeerOK(v) /\ v.out # <<>> /\ Unheard(v, w)
        /\ f = v.out[1] /\ w.out = Tail(v.out) /\ PeerMore(v.in, w.in, F)
        /\ w.live = v.live \ {f.session} /\ w.foreign = v.foreign \ {f.session} /\ w.owed = v.owed
        /\ w.attached = v.attached /\ f.session \in v.live \cup v.foreign
    BY <1>3, <1>6, <1>70, <1>8, <1>10 DEF HandedTo
  <2>2. PeerOK(w) /\ \A i : PeerUses(w, i) => PeerUses(v, i)
    BY <1>5, <1>9, <2>1, CarriesDetach
  <2> QED BY <2>2 DEF HandedWell
<1> QED BY <1>10, <1>11

\* A command is carried out, or refused.
LEMMA CarryKeeps ==
    ASSUME BridgeOK(Bridge), NEW c \in PeerIds, NEW ok \in BOOLEAN, Carry(c, ok)
    PROVE  BridgeOK(Bridge')
<1> DEFINE f == Head(browser[c].out)
           b == browser[c]
           s == ledger.attached + 1
           held == f.session \in b.live \cup b.foreign
<1>1. ledger \in Ledgers /\ ledger.attached \in Nat
  BY BridgeParts, BridgeIs DEF BridgeOK
<1>2. ledger' = [(IF ok THEN ledger ELSE Troubled(ledger)) EXCEPT
                  !.attached = IF ok /\ f.op \in {"attach", "foreign"} THEN s ELSE @]
  BY DEF Carry
<1>3. /\ ledger' \in Ledgers /\ ledger'.ids = ledger.ids /\ ledger'.links = ledger.links
      /\ ledger'.lied = ledger.lied /\ ledger'.mistaken = ledger.mistaken
      /\ ledger'.attached = IF ok /\ f.op \in {"attach", "foreign"} THEN s ELSE ledger.attached
  <2> DEFINE l == IF ok THEN ledger ELSE Troubled(ledger)
             x == IF ok /\ f.op \in {"attach", "foreign"} THEN s ELSE l.attached
  <2>1. /\ l \in Ledgers /\ l.ids = ledger.ids /\ l.links = ledger.links
        /\ l.lied = ledger.lied /\ l.mistaken = ledger.mistaken /\ l.attached = ledger.attached
    BY <1>1, TroubledIs
  <2>2. s \in Nat /\ x \in Nat
    BY <1>1, <2>1
  <2>3. ledger' = [l EXCEPT !.attached = x]
    BY <1>2
  <2> HIDE DEF l, x
  <2>4. /\ ledger' \in Ledgers /\ ledger'.ids = l.ids /\ ledger'.links = l.links
        /\ ledger'.lied = l.lied /\ ledger'.mistaken = l.mistaken /\ ledger'.attached = x
    BY <2>1, <2>2, <2>3 DEF Ledgers
  <2> QED BY <2>1, <2>4 DEF x
<1>4. ledger'.attached >= ledger.attached /\ Carrying(c)
  BY <1>1, <1>3 DEF Carry, Carrying
<1>5. CASE f.op \in {"attach", "foreign"} /\ ok
  <2>1. ledger'.attached = s
    BY <1>3, <1>5
  <2>2. IF f.op = "attach"
        THEN \/ Hand(c, [b EXCEPT !.live = @ \cup {s}], Reply(f, TRUE, s), Notice("attached", s))
             \/ Hand(c, [b EXCEPT !.live = @ \cup {s}, !.owed = Reply(f, TRUE, s)], <<>>, Notice("attached", s))
        ELSE Hand(c, [b EXCEPT !.foreign = @ \cup {s}], <<>>, Notice("attached", s))
    BY <1>5 DEF Carry
  <2> QED BY <1>4, <1>5, <2>1, <2>2, HandsMade, HandsOwed, HandsForeign
<1>6. CASE f.op = "foreign" /\ ~ ok
  <2>1. ledger'.attached = ledger.attached
    BY <1>3, <1>6
  <2>2. Hand(c, b, <<>>, <<>>)
    BY <1>6 DEF Carry
  <2> QED BY <1>4, <2>1, <2>2, HandsNothing
<1>7. CASE f.op = "detach" /\ ok /\ held
  <2>1. ledger'.attached = ledger.attached
    BY <1>3, <1>7
  <2>2. Hand(c, [b EXCEPT !.live = @ \ {f.session}, !.foreign = @ \ {f.session}],
                           Reply(f, TRUE, 0), Notice("detached", f.session))
    BY <1>7 DEF Carry
  <2> QED BY <1>4, <1>7, <2>1, <2>2, HandsDetached
<1>8. CASE f.op \in {"detach", "evaluate"} /\ ~ held
  <2>1. ledger'.attached = ledger.attached
    BY <1>3, <1>8
  <2>2. Hand(c, b, Reply(f, FALSE, 0), <<>>)
    BY <1>8 DEF Carry
  <2> QED BY <1>4, <1>8, <2>1, <2>2, HandsReply
<1>9. CASE /\ ~ (f.op \in {"attach", "foreign"} /\ ok) /\ ~ (f.op = "foreign" /\ ~ ok)
           /\ ~ (f.op = "detach" /\ ok /\ held) /\ ~ (f.op \in {"detach", "evaluate"} /\ ~ held)
  <2>1. ledger'.attached = ledger.attached
    BY <1>3, <1>9
  <2>2. Hand(c, b, Reply(f, ok, 0), <<>>)
    BY <1>9 DEF Carry
  <2>3. /\ f.op # "foreign" /\ (f.op = "attach" => ~ ok)
        /\ (f.op = "detach" /\ ok => f.session \notin b.live)
    BY <1>9
  <2> QED BY <1>4, <2>1, <2>2, <2>3, HandsReply
<1> QED BY <1>5, <1>6, <1>7, <1>8, <1>9

\* Connections number from one, and are numbers.
LEMMA PeersAreNumbers == \A c \in PeerIds : c \in Nat /\ c # 0
  BY ProbeSizes DEF PeerIds

\* What a function of finitely many values reaches is finite.
LEMMA ReachedFinite ==
    ASSUME NEW S, IsFiniteSet(S), NEW T, NEW m \in [S -> T], \A t \in T : \E s \in S : m[s] = t
    PROVE  IsFiniteSet(T)
<1>1. m \in Surjection(S, T)
  BY DEF Surjection
<1> QED BY <1>1, FS_Surjection

\* The frames of the sessions U that end.
Endings(U) == {[kind |-> "detached", session |-> s] : s \in U}

\* They are notices, one for each session.
LEMMA EndingsAre ==
    ASSUME NEW U \in SUBSET Nat, IsFiniteSet(U)
    PROVE  /\ Endings(U) \in SUBSET PeerFrames /\ IsFiniteSet(Endings(U))
           /\ \A f \in Endings(U) : f.kind = "detached" /\ f.session \in U
           /\ \A s \in U : \E f \in Endings(U) : f.session = s
<1>1. Endings(U) \in SUBSET PeerFrames
  BY DEF Endings, PeerFrames, PeerNotices
<1>2. \A f \in Endings(U) : f.kind = "detached" /\ f.session \in U
  BY DEF Endings
<1>3. \A s \in U : [kind |-> "detached", session |-> s] \in Endings(U)
  BY DEF Endings
<1>4. \A s \in U : \E f \in Endings(U) : f.session = s
  <2> TAKE s \in U
  <2> DEFINE f == [kind |-> "detached", session |-> s]
  <2>1. f \in Endings(U) /\ f.session = s
    BY <1>3
  <2> QED BY <2>1
<1>5. IsFiniteSet(Endings(U))
  <2> DEFINE m == [s \in U |-> [kind |-> "detached", session |-> s]]
  <2>1. m \in [U -> Endings(U)]
    BY <1>3
  <2>2. \A t \in Endings(U) : \E s \in U : m[s] = t
    BY DEF Endings
  <2> QED BY ZenonT(30), <2>1, <2>2, ReachedFinite
<1> QED BY <1>1, <1>2, <1>4, <1>5

\* The page closes.
LEMMA PageClosesKeeps ==
    ASSUME BridgeOK(Bridge), NEW c \in PeerIds, PageCloses(c)
    PROVE  BridgeOK(Bridge')
<1> DEFINE v == PeerView(Bridge, c)
           w == PeerView(Bridge', c)
           b == browser[c]
           U == b.live \cup b.foreign
           F == Endings(U)
           B == [b EXCEPT !.live = {}, !.foreign = {}, !.in = @ \o SetToSeq(F)]
<1>1. Bridge \in BridgeStates /\ PeerOK(v)
  BY DEF BridgeOK
<1>2. /\ b \in Browsers /\ b.in \in Seq(PeerFrames) /\ b.live \in SUBSET Nat /\ b.foreign \in SUBSET Nat
      /\ browser \in [PeerIds -> Browsers] /\ ledger \in Ledgers /\ ledger.attached \in Nat
  BY <1>1, BridgeIs, PeerParts, BridgeParts
<1>3. browser' = [browser EXCEPT ![c] = B] /\ UNCHANGED <<origin, await, attachment, probe>> /\ ledger' = Troubled(ledger)
  <2> DEFINE X == SetToSeq(F)
  <2>1. browser' = [browser EXCEPT ![c].live = {}, ![c].foreign = {}, ![c].in = @ \o X]
    BY DEF PageCloses, Endings
  <2>2. UNCHANGED <<origin, await, attachment, probe>> /\ ledger' = Troubled(ledger)
    BY DEF PageCloses
  <2>3. browser' = [browser EXCEPT ![c] = B]
    <3>1. B = [browser[c] EXCEPT !.live = {}, !.foreign = {}, !.in = browser[c].in \o X]
      OBVIOUS
    <3> HIDE DEF X, B
    <3>2. /\ DOMAIN browser' = DOMAIN browser
          /\ \A d \in PeerIds : d # c => browser'[d] = browser[d]
      BY <1>2, <2>1
    <3>3. browser'[c] = B
      BY <1>2, <2>1, <3>1
    <3>4. browser' = [d \in PeerIds |-> IF d = c THEN B ELSE browser[d]]
      BY <1>2, <2>1, <3>2, <3>3
    <3> QED BY <1>2, <3>4
  <2> QED BY <2>2, <2>3
<1>30. b.live # {}
  BY DEF PageCloses
<1>4. IsFiniteSet(U)
  <2>1. U \subseteq 1 .. ledger.attached
    BY <1>1, ViewOf, BridgeIs DEF PeerOK, PeerSizes
  <2>2. \A n \in Nat : IsFiniteSet(1 .. n)
    BY FS_Interval
  <2>3. ledger.attached \in Nat
    BY <1>2
  <2>4. IsFiniteSet(1 .. ledger.attached)
    BY <2>2, <2>3
  <2> QED BY <2>1, <2>4, FS_Subset
<1>5. F \in SUBSET PeerFrames /\ IsFiniteSet(F)
  BY <1>2, <1>4, EndingsAre
<1>7. /\ \A f \in F : f.kind = "detached" /\ f.session \in U
      /\ \A s \in U : \E f \in F : f.session = s
  BY <1>2, <1>4, EndingsAre
<1> HIDE DEF F
<1>8. b.in \o SetToSeq(F) \in Seq(PeerFrames) /\ PeerMore(b.in, b.in \o SetToSeq(F), F)
  BY <1>2, <1>5, SetIsMore
<1> DEFINE q == b.in \o SetToSeq(F)
<1>9. B \in Browsers /\ B.live = {} /\ B.foreign = {} /\ B.out = b.out /\ B.in = q /\ B.owed = b.owed
  <2>1. q \in Seq(PeerFrames) /\ B = [b EXCEPT !.live = {}, !.foreign = {}, !.in = q]
    BY <1>8
  <2> HIDE DEF q, B
  <2> QED BY <1>2, <2>1 DEF Browsers
<1> HIDE DEF B, v, w, b, q
<1>10. Bridge' \in BridgeStates /\ Browses(Bridge, Bridge', c, B)
  <2>1. /\ UNCHANGED <<origin, await, attachment, probe>>
        /\ browser' = [browser EXCEPT ![c] = B] /\ B \in Browsers
        /\ ledger' \in Ledgers /\ ledger'.ids = ledger.ids /\ ledger'.links = ledger.links
        /\ ledger'.lied = ledger.lied /\ ledger'.mistaken = ledger.mistaken
        /\ ledger'.attached = ledger.attached
    BY <1>2, <1>3, <1>9, TroubledIs
  <2>2. ledger'.attached >= ledger.attached
    BY <1>2, <2>1
  <2> QED BY <2>1, <2>2, BrowserActs
<1>11. /\ PeerOK(v) /\ v \in PeerViews /\ w \in PeerViews /\ Unheard(v, w)
      /\ w.live = B.live /\ w.foreign = B.foreign /\ w.owed = B.owed
      /\ w.out = B.out /\ w.in = B.in /\ w.attached = ledger'.attached
      /\ v.live = b.live /\ v.foreign = b.foreign /\ v.owed = b.owed
      /\ v.out = b.out /\ v.in = b.in /\ v.attached = ledger.attached
  BY <1>9, <1>10, BrowsesShape, BridgeIs DEF v, b, w
<1>12. ledger'.attached = ledger.attached
  BY <1>2, <1>3, TroubledIs
<1>13. PeerMore(v.in, w.in, F)
  BY <1>8, <1>9, <1>11 DEF q
<1>14. PeerOK(w)
  BY <1>7, <1>9, <1>11, <1>12, <1>13, <1>30, PeerCloses
<1>15. \A i : PeerUses(w, i) => PeerUses(v, i)
  BY <1>7, <1>9, <1>11, <1>13 DEF PeerMore, PeerUses, Unheard, SameAwait
<1> QED BY <1>9, <1>10, <1>14, <1>15, BrowsesKeeps DEF v, w

\* Nothing is outstanding: no attachment of the connection is.
LEMMA NotOutstanding ==
    ASSUME NEW e \in BridgeStates, NEW c \in PeerIds
    PROVE  Outstanding(e, c) <=> AttachedOf(e, c) # {}
  BY DEF Outstanding, AttachedOf

\* The DevTools attach.
LEMMA DevToolsKeeps ==
    ASSUME BridgeOK(Bridge), NEW c \in PeerIds, DevToolsAttach(c)
    PROVE  BridgeOK(Bridge')
<1> DEFINE v == PeerView(Bridge, c)
           w == PeerView(Bridge', c)
           b == browser[c]
           x == [id |-> 0, op |-> "foreign", session |-> 0]
           q == Append(b.out, x)
           F == {x}
           B == [b EXCEPT !.out = q]
<1>1. Bridge \in BridgeStates /\ PeerOK(v)
  BY DEF BridgeOK
<1>2. /\ b \in Browsers /\ b.out \in Seq(PeerCommands)
      /\ browser \in [PeerIds -> Browsers] /\ ledger \in Ledgers /\ ledger.attached \in Nat
  BY <1>1, BridgeIs, PeerParts, BridgeParts
<1>3. browser' = [browser EXCEPT ![c] = B] /\ UNCHANGED <<origin, await, attachment, probe>> /\ ledger' = Troubled(ledger)
  BY <1>2 DEF DevToolsAttach
<1>30. origin[c].open /\ ~ Outstanding(Bridge, c)
  BY DEF DevToolsAttach
<1>5. x \in PeerCommands
  BY DEF PeerCommands
<1>7. \A f \in F : f.id = 0 /\ f.op = "foreign" /\ f.session = 0
  OBVIOUS
<1> HIDE DEF x
<1>8. q \in Seq(PeerCommands) /\ PeerMore(b.out, q, F)
  BY <1>2, <1>5, OneIsMore
<1> HIDE DEF F, q
<1>9. B \in Browsers /\ B.live = b.live /\ B.foreign = b.foreign /\ B.out = q /\ B.in = b.in /\ B.owed = b.owed
  BY <1>2, <1>8 DEF Browsers
<1> HIDE DEF B, v, w, b
<1>10. Bridge' \in BridgeStates /\ Browses(Bridge, Bridge', c, B)
  <2>1. /\ UNCHANGED <<origin, await, attachment, probe>>
        /\ browser' = [browser EXCEPT ![c] = B] /\ B \in Browsers
        /\ ledger' \in Ledgers /\ ledger'.ids = ledger.ids /\ ledger'.links = ledger.links
        /\ ledger'.lied = ledger.lied /\ ledger'.mistaken = ledger.mistaken
        /\ ledger'.attached = ledger.attached
    BY <1>2, <1>3, <1>9, TroubledIs
  <2>2. ledger'.attached >= ledger.attached
    BY <1>2, <2>1
  <2> QED BY <2>1, <2>2, BrowserActs
<1>11. /\ PeerOK(v) /\ v \in PeerViews /\ w \in PeerViews /\ Unheard(v, w)
      /\ w.live = B.live /\ w.foreign = B.foreign /\ w.owed = B.owed
      /\ w.out = B.out /\ w.in = B.in /\ w.attached = ledger'.attached
      /\ v.live = b.live /\ v.foreign = b.foreign /\ v.owed = b.owed
      /\ v.out = b.out /\ v.in = b.in /\ v.attached = ledger.attached
      /\ v.open = origin[c].open
  BY <1>9, <1>10, BrowsesShape, BridgeIs DEF v, b, w
<1>12. ledger'.attached = ledger.attached
  BY <1>2, <1>3, TroubledIs
<1>13. v.att = {}
  BY <1>1, <1>30, NotOutstanding, ViewOf DEF v
<1>14. PeerOK(w)
  <2>1. /\ w.live = v.live /\ w.foreign = v.foreign /\ w.in = v.in /\ v.open
        /\ w.attached = v.attached /\ w.owed = v.owed /\ PeerMore(v.out, w.out, F)
    BY <1>8, <1>9, <1>11, <1>12, <1>30
  <2> QED BY <1>7, <1>11, <1>13, <2>1, PeerAsked
<1>15. \A i : PeerUses(w, i) => PeerUses(v, i)
  BY <1>7, <1>8, <1>9, <1>11 DEF PeerMore, PeerUses, Unheard, SameAwait
<1> QED BY <1>9, <1>10, <1>14, <1>15, BrowsesKeeps DEF v, w

\* The lock moves, or the page is rebuilt: only troubles are counted.
LEMMA TroubleKeeps ==
    ASSUME BridgeOK(Bridge), ledger' = Troubled(ledger), UNCHANGED <<origin, await, attachment, probe, browser>>
    PROVE  BridgeOK(Bridge')
<1>1. Bridge \in BridgeStates /\ Shared(Bridge)
  BY SharedHolds
<1>2. /\ ledger \in Ledgers /\ ledger' \in Ledgers /\ ledger'.ids = ledger.ids /\ ledger'.links = ledger.links
      /\ ledger'.lied = ledger.lied /\ ledger'.mistaken = ledger.mistaken
      /\ ledger'.attached = ledger.attached
  BY <1>1, BridgeParts, BridgeIs, TroubledIs
<1>3. Bridge' \in BridgeStates
  BY <1>1, <1>2, BridgeParts, BridgeIs DEF Bridge, BridgeStates
<1>4. \A c : PeerView(Bridge', c) = PeerView(Bridge, c)
  <2>1. \A c : PendingOf(Bridge', c) = PendingOf(Bridge, c) /\ ReadyOf(Bridge', c) = ReadyOf(Bridge, c)
                /\ AttachedOf(Bridge', c) = AttachedOf(Bridge, c)
    BY BridgeIs DEF PendingOf, ReadyOf, AttachedOf
  <2> QED BY <1>2, <2>1, BridgeIs DEF PeerView
<1>5. PeersApart(Bridge')
  BY <1>2, <1>4, BridgeIs DEF BridgeOK, PeersApart, EndsNamed
<1> QED BY <1>3, <1>4, <1>5 DEF BridgeOK

-----------------------------------------------------------------------------
(* The bridge's own operations                                              *)

\* What retiring session s of connection c changes.
Retires(e, g, c, s) ==
    /\ g.await = e.await /\ g.probe = e.probe /\ g.browser = e.browser /\ g.ledger = e.ledger
    /\ g.origin[c].open = e.origin[c].open
    /\ g.origin[c].session = (IF e.origin[c].session = s THEN 0 ELSE e.origin[c].session)
    /\ g.origin[c].retired = e.origin[c].retired \cup {s}
    /\ \A d \in PeerIds : d # c => g.origin[d] = e.origin[d]
    /\ AttachedOf(g, c) = Marked(AttachedOf(e, c), s)
    /\ \A a : a.client # c => (a \in g.attachment <=> a \in e.attachment)

\* The attachments that are marked released.
MarkReleased(a, c, s) == IF a.client = c /\ a.session = s THEN [a EXCEPT !.released = TRUE] ELSE a

\* Marking changes only whether an attachment is released.
LEMMA MarkedIs ==
    ASSUME NEW a \in Attachments, NEW c, NEW s
    PROVE  /\ MarkReleased(a, c, s) \in Attachments /\ MarkReleased(a, c, s).client = a.client
           /\ a.client # c => MarkReleased(a, c, s) = a
           /\ a.client = c => MarkReleased(a, c, s) = IF a.session = s THEN [a EXCEPT !.released = TRUE] ELSE a
  BY DEF MarkReleased, Attachments

\* Retire does to the bridge what Retires says (retireProbeSession).
LEMMA RetireIs ==
    ASSUME NEW e \in BridgeStates, NEW c \in PeerIds, NEW s \in Nat
    PROVE  Retire(e, c, s) \in BridgeStates /\ Retires(e, Retire(e, c, s), c, s)
<1> DEFINE g == Retire(e, c, s)
           o == [e.origin[c] EXCEPT !.session = IF @ = s THEN 0 ELSE @, !.retired = @ \cup {s}]
           A == {MarkReleased(a, c, s) : a \in e.attachment}
<1>1. /\ e.origin \in [PeerIds -> Origins] /\ e.attachment \in SUBSET Attachments
      /\ e.origin[c] \in Origins
  BY BridgeParts
<1>2. /\ o \in Origins /\ o.open = e.origin[c].open
      /\ o.session = (IF e.origin[c].session = s THEN 0 ELSE e.origin[c].session)
      /\ o.retired = e.origin[c].retired \cup {s}
  BY <1>1 DEF Origins
<1>3. g = [e EXCEPT !.origin = [@ EXCEPT ![c] = o], !.attachment = A]
  <2>1. A = {IF a.client = c /\ a.session = s THEN [a EXCEPT !.released = TRUE] ELSE a : a \in e.attachment}
    BY DEF MarkReleased
  <2> HIDE DEF A
  <2>2. [e.origin EXCEPT ![c].session = IF @ = s THEN 0 ELSE @, ![c].retired = @ \cup {s}]
        = [e.origin EXCEPT ![c] = o]
    BY <1>1 DEF Origins
  <2>3. g = [e EXCEPT !.origin = [e.origin EXCEPT ![c].session = IF @ = s THEN 0 ELSE @, ![c].retired = @ \cup {s}],
                      !.attachment = A]
    BY <1>1, <2>1 DEF Retire, BridgeStates
  <2> QED BY <2>2, <2>3
<1> HIDE DEF o
<1>4. A \in SUBSET Attachments
  BY <1>1, MarkedIs
<1>5. \A a : a.client # c => (a \in A <=> a \in e.attachment)
  BY <1>1, MarkedIs
<1>6. \A b : b \in A /\ b.client = c <=>
         \E a \in e.attachment : a.client = c /\ b = IF a.session = s THEN [a EXCEPT !.released = TRUE] ELSE a
  <2> SUFFICES ASSUME NEW b
               PROVE  b \in A /\ b.client = c <=>
         \E a \in e.attachment : a.client = c /\ b = IF a.session = s THEN [a EXCEPT !.released = TRUE] ELSE a
    OBVIOUS
  <2>1. ASSUME b \in A, b.client = c
        PROVE  \E a \in e.attachment : a.client = c /\ b = IF a.session = s THEN [a EXCEPT !.released = TRUE] ELSE a
    BY <1>1, <2>1, MarkedIs
  <2>2. ASSUME NEW a \in e.attachment, a.client = c, b = IF a.session = s THEN [a EXCEPT !.released = TRUE] ELSE a
        PROVE  b \in A /\ b.client = c
    BY <1>1, <2>2, MarkedIs
  <2> QED BY <2>1, <2>2
<1> HIDE DEF A, g
<1>7. [e.origin EXCEPT ![c] = o] \in [PeerIds -> Origins]
  BY <1>1, <1>2
<1>8. /\ g \in BridgeStates /\ g.origin = [e.origin EXCEPT ![c] = o] /\ g.attachment = A
      /\ g.await = e.await /\ g.probe = e.probe /\ g.browser = e.browser /\ g.ledger = e.ledger
  BY <1>3, <1>4, <1>7 DEF BridgeStates
<1>9. g.origin[c] = o /\ \A d \in PeerIds : d # c => g.origin[d] = e.origin[d]
  BY <1>1, <1>8
<1>10. AttachedOf(g, c) = Marked(AttachedOf(e, c), s)
  BY <1>6, <1>8 DEF AttachedOf, Marked
<1> QED BY <1>2, <1>5, <1>8, <1>9, <1>10 DEF Retires, g

\* The view of what retiring leaves of a connection.
LEMMA RetiresViewed ==
    ASSUME NEW e, NEW g, NEW c, NEW s, Retires(e, g, c, s)
    PROVE  PeerRetires(PeerView(e, c), PeerView(g, c), s)
<1> DEFINE v == PeerView(e, c)
           w == PeerView(g, c)
<1>1. PendingOf(g, c) = PendingOf(e, c) /\ ReadyOf(g, c) = ReadyOf(e, c)
  BY DEF PendingOf, ReadyOf, Retires
<1>2. /\ w.open = g.origin[c].open /\ w.session = g.origin[c].session /\ w.retired = g.origin[c].retired
      /\ w.pending = PendingOf(g, c) /\ w.ready = ReadyOf(g, c) /\ w.att = AttachedOf(g, c)
  BY ViewOf
<1>3. /\ v.open = e.origin[c].open /\ v.session = e.origin[c].session /\ v.retired = e.origin[c].retired
      /\ v.pending = PendingOf(e, c) /\ v.ready = ReadyOf(e, c) /\ v.att = AttachedOf(e, c)
  BY ViewOf
<1> HIDE DEF v, w
<1>4. w.open = v.open /\ w.session = (IF v.session = s THEN 0 ELSE v.session) /\ w.retired = v.retired \cup {s}
  BY <1>2, <1>3 DEF Retires
<1>5. w.pending = v.pending /\ w.ready = v.ready
  BY <1>1, <1>2, <1>3
<1>6. w.att = Marked(v.att, s)
  BY <1>2, <1>3 DEF Retires
<1>7. PeerRetires(v, w, s)
  BY <1>4, <1>5, <1>6 DEF PeerRetires
<1> QED BY <1>7 DEF v, w

\* Retiring a session the browser has no more keeps the invariant.
LEMMA RetiresKeeps ==
    ASSUME NEW e, BridgeOK(e), NEW c \in PeerIds, NEW s \in 1 .. e.ledger.attached, e.origin[c].open,
           NEW g \in BridgeStates, Retires(e, g, c, s),
           PeerKnows(PeerView(e, c), s), e.ledger.mistaken \/ s \notin e.browser[c].live
    PROVE  BridgeOK(g)
<1> DEFINE v == PeerView(e, c)
           w == PeerView(g, c)
<1>1. e \in BridgeStates /\ Shared(e) /\ PeerOK(v) /\ v \in PeerViews /\ w \in PeerViews
  BY SharedHolds, ViewType
<1>2. PendingOf(g, c) = PendingOf(e, c) /\ ReadyOf(g, c) = ReadyOf(e, c)
  BY DEF PendingOf, ReadyOf, Retires
<1>3. SameBrowser(v, w) /\ SameProbe(v, w) /\ SameLedger(v, w)
  BY ViewOf DEF Retires, SameBrowser, SameProbe, SameLedger
<1>4. PeerRetires(v, w, s)
  BY RetiresViewed
<1>5. v.open /\ v.attached = e.ledger.attached /\ (v.mistaken \/ s \notin v.live)
  BY ViewOf
<1> HIDE DEF v, w
<1>6. PeerOK(w)
  BY <1>1, <1>3, <1>4, <1>5, PeerRetireKeeps DEF v
<1>7. \A i : PeerUses(w, i) => PeerUses(v, i)
  BY <1>1, <1>3, <1>4, RetireDoes DEF PeerUses, PeerRetires, SameBrowser
<1>8. Beside(e, g, c)
  BY <1>1, BridgeParts DEF Beside, Retires
<1>9. Shared(g)
  BY <1>1 DEF Retires, Shared, EndsNamed
<1> QED BY <1>6, <1>7, <1>8, <1>9, BridgeMoves DEF v, w

\* The answer that is continued with is gone, and the probe goes on or is over.
Drops(e, g) ==
    /\ g.origin = e.origin /\ g.attachment = e.attachment /\ g.browser = e.browser
    /\ g.ledger = e.ledger
    /\ g.await.pending = e.await.pending /\ g.await.ready = Tail(e.await.ready)

\* A continuation is taken off the queue.
LEMMA DropsKeeps ==
    ASSUME NEW e, BridgeOK(e), e.await.ready # <<>>, NEW g \in BridgeStates, Drops(e, g),
           \/ g.probe = e.probe
           \/ g.probe.stage = "none" /\ Head(e.await.ready).by = "probe"
    PROVE  BridgeOK(g)
<1> DEFINE r == Head(e.await.ready)
           c == r.client
           v == PeerView(e, c)
           w == PeerView(g, c)
<1>1. e \in BridgeStates /\ Shared(e) /\ e.await.ready \in Seq(Outcomes)
  BY SharedHolds, BridgeParts
<1>2. /\ Head(e.await.ready) = e.await.ready[1] /\ e.await.ready[1] \in Outcomes
      /\ PeerRest(e.await.ready, Tail(e.await.ready))
  BY <1>1, TailIsRest
<1>3. c \in PeerIds /\ r \in Outcomes /\ r = e.await.ready[1] /\ 1 \in DOMAIN e.await.ready
  BY <1>2 DEF Outcomes, PeerRest
<1> HIDE DEF r
<1>4. PeerOK(v) /\ v \in PeerViews /\ w \in PeerViews
  BY <1>3, SharedHolds, ViewType
<1>5. \A k \in DOMAIN g.await.ready : k + 1 \in DOMAIN e.await.ready /\ g.await.ready[k] = e.await.ready[k + 1]
                /\ k + 1 # 1
  BY <1>2, BridgeParts DEF Drops, PeerRest
<1>6. \A k \in DOMAIN e.await.ready : k = 1 \/ \E j \in DOMAIN g.await.ready : g.await.ready[j] = e.await.ready[k]
  <2> TAKE k \in DOMAIN e.await.ready
  <2>1. k = 1 \/ (k - 1 \in DOMAIN Tail(e.await.ready) /\ Tail(e.await.ready)[k - 1] = e.await.ready[k])
    BY <1>2 DEF PeerRest
  <2>2. g.await.ready = Tail(e.await.ready)
    BY DEF Drops
  <2> QED BY <2>1, <2>2
<1>7. \A x \in Outcomes : (\E k \in DOMAIN g.await.ready : g.await.ready[k] = x) =>
                           \E k \in DOMAIN e.await.ready : e.await.ready[k] = x
  BY <1>5
<1>8. \A x \in Outcomes : x # r /\ (\E k \in DOMAIN e.await.ready : e.await.ready[k] = x) =>
                           \E k \in DOMAIN g.await.ready : g.await.ready[k] = x
  BY <1>3, <1>6
<1>9. /\ w.pending = v.pending /\ w.att = v.att
      /\ w.ready \subseteq v.ready /\ v.ready = ReadyOf(e, c) /\ w.ready = ReadyOf(g, c)
      /\ SameOrigin(v, w) /\ SameBrowser(v, w) /\ SameLedger(v, w)
  <2>1. PendingOf(g, c) = PendingOf(e, c) /\ AttachedOf(g, c) = AttachedOf(e, c)
    BY DEF Drops, PendingOf, AttachedOf
  <2>2. ReadyOf(g, c) \subseteq ReadyOf(e, c)
    BY <1>7 DEF ReadyOf
  <2> QED BY <2>1, <2>2, ViewOf DEF Drops, SameOrigin, SameBrowser, SameLedger
<1>10. r \in v.ready
  BY <1>3, <1>9 DEF ReadyOf
<1>11. r.by = "probe" => v.stage # "none" /\ (\A p \in v.pending : p.by # "probe") /\ e.probe.client = c
  BY <1>4, <1>10, ViewOf DEF PeerOK, PeerServes
<1>12. r.by = "probe" => \A x \in w.ready : x.by # "probe"
  BY SMTT(20), <1>1, <1>3, <1>5, <1>9 DEF ReadyOf, Shared
<1>13. \/ SameProbe(v, w)
       \/ /\ w.stage = "none" /\ (\A p \in w.pending : p.by # "probe") /\ \A x \in w.ready : x.by # "probe"
  <2>1. CASE g.probe = e.probe
    BY <2>1, ViewOf DEF SameProbe
  <2>2. CASE g.probe.stage = "none" /\ r.by = "probe"
    BY <1>9, <1>11, <1>12, <2>2, ViewOf
  <2> QED BY <2>1, <2>2 DEF r
<1>14. PeerOK(w)
  <2> HIDE DEF v, w
  <2>1. w.pending \subseteq v.pending /\ w.ready \subseteq v.ready /\ w.att = v.att
    BY <1>9
  <2> QED BY <1>4, <1>9, <1>13, <2>1, PeerDrops
<1>15. \A i : PeerUses(w, i) => PeerUses(v, i)
  BY <1>9 DEF PeerUses, SameBrowser
<1>16. Beside(e, g, c)
  <2>1. e.ledger.ids \in Nat /\ e.ledger.attached \in Nat
    BY <1>1, BridgeParts
  <2>2. \/ g.probe = e.probe
        \/ /\ e.probe.stage = "none" \/ e.probe.client = c
           /\ g.probe.stage = "none" \/ g.probe.client = c
    BY <1>11 DEF r
  <2>3. \A x \in Outcomes : x.client # c =>
          ((\E k \in DOMAIN g.await.ready : g.await.ready[k] = x) <=>
           \E k \in DOMAIN e.await.ready : e.await.ready[k] = x)
    BY <1>7, <1>8
  <2> QED BY <2>1, <2>2, <2>3 DEF Beside, Drops
<1>17. Shared(g)
  BY <1>1, <1>5, BridgeParts DEF Shared, Drops, EndsNamed
<1> HIDE DEF c
<1> QED BY <1>3, <1>14, <1>15, <1>16, <1>17, BridgeMoves DEF v, w

\* A command p goes out over connection c.
Sends(e, g, c, p) ==
    /\ g.origin = e.origin
    /\ g.await.pending = e.await.pending \cup {p} /\ g.await.ready = e.await.ready
    /\ g.attachment = (IF p.op = "attach"
                       THEN e.attachment \cup {[id |-> p.id, client |-> p.client, session |-> 0, released |-> FALSE]}
                       ELSE e.attachment)
    /\ g.browser[c].out = Append(e.browser[c].out, [id |-> p.id, op |-> p.op, session |-> p.session])
    /\ g.browser[c].in = e.browser[c].in /\ g.browser[c].live = e.browser[c].live
    /\ g.browser[c].foreign = e.browser[c].foreign /\ g.browser[c].owed = e.browser[c].owed
    /\ \A d \in PeerIds : d # c => g.browser[d] = e.browser[d]
    /\ g.ledger.ids = e.ledger.ids + 1 /\ p.id = g.ledger.ids
    /\ g.ledger.attached = e.ledger.attached /\ g.ledger.links = e.ledger.links
    /\ g.ledger.lied = e.ledger.lied /\ g.ledger.mistaken = e.ledger.mistaken

\* The command SendTo sends.
Sent(e, c, op, s, by) == [id |-> e.ledger.ids + 1, op |-> op, client |-> c, session |-> s, by |-> by]

\* SendTo does to the bridge what Sends says (sendCommandTo).
LEMMA SendToIs ==
    ASSUME NEW e \in BridgeStates, NEW c \in PeerIds, NEW op \in ProbeOps, NEW s \in Nat, NEW by \in Askers
    PROVE  LET g == SendTo(e, c, op, s, by)
               p == Sent(e, c, op, s, by)
           IN  /\ g \in BridgeStates /\ Sends(e, g, c, p) /\ g.probe = e.probe
               /\ p \in ProbeRequests
<1> DEFINE p == Sent(e, c, op, s, by)
           x == [id |-> p.id, op |-> p.op, session |-> p.session]
           b == [e.browser[c] EXCEPT !.out = Append(@, x)]
           l == [e.ledger EXCEPT !.ids = p.id]
           a == [id |-> p.id, client |-> p.client, session |-> 0, released |-> FALSE]
           A == IF p.op = "attach" THEN e.attachment \cup {a} ELSE e.attachment
           w == [e.await EXCEPT !.pending = @ \cup {p}]
           g == [e EXCEPT !.ledger = l, !.await = w, !.attachment = A, !.browser = [@ EXCEPT ![c] = b]]
<1>1. /\ e.browser \in [PeerIds -> Browsers] /\ e.browser[c] \in Browsers /\ e.browser[c].out \in Seq(PeerCommands)
      /\ e.ledger \in Ledgers /\ e.ledger.ids \in Nat /\ e.attachment \in SUBSET Attachments
      /\ e.await \in [pending : SUBSET ProbeRequests, ready : Seq(Outcomes)]
  BY BridgeParts, PeerParts
<1>2. p \in ProbeRequests /\ p.id = e.ledger.ids + 1 /\ p.id \in Nat
  BY <1>1 DEF Sent, ProbeRequests
<1>3. x \in PeerCommands
  BY <1>2 DEF PeerCommands, ProbeRequests
<1>4. a \in Attachments
  BY <1>2 DEF Attachments, ProbeRequests
<1>5. SendTo(e, c, op, s, by) = g
  <2>1. SendTo(e, c, op, s, by) =
          [e EXCEPT !.ledger.ids = p.id, !.await.pending = @ \cup {p}, !.attachment = A, !.browser[c].out = Append(@, x)]
    BY DEF SendTo, Sent
  <2> HIDE DEF p, x, A
  <2> QED BY <1>1, <2>1 DEF Ledgers, Browsers, BridgeStates
<1> HIDE DEF p
<1>6. l \in Ledgers /\ l.ids = p.id /\ l.attached = e.ledger.attached /\ l.links = e.ledger.links
      /\ l.lied = e.ledger.lied /\ l.mistaken = e.ledger.mistaken
  BY <1>1, <1>2 DEF Ledgers
<1>7. w \in [pending : SUBSET ProbeRequests, ready : Seq(Outcomes)] /\ w.ready = e.await.ready
      /\ w.pending = e.await.pending \cup {p}
  BY <1>1, <1>2
<1> HIDE DEF x, a, l, w
<1>8. A \in SUBSET Attachments
  BY <1>1, <1>4
<1>9. Append(e.browser[c].out, x) \in Seq(PeerCommands)
  BY <1>1, <1>3
<1>10. /\ b \in Browsers /\ b.out = Append(e.browser[c].out, x) /\ b.in = e.browser[c].in
       /\ b.live = e.browser[c].live /\ b.foreign = e.browser[c].foreign /\ b.owed = e.browser[c].owed
  BY <1>1, <1>9 DEF Browsers
<1> HIDE DEF b
<1>11. [e.browser EXCEPT ![c] = b] \in [PeerIds -> Browsers]
  BY <1>1, <1>10
<1>12. /\ g \in BridgeStates /\ g.ledger = l /\ g.await = w /\ g.attachment = A
       /\ g.browser = [e.browser EXCEPT ![c] = b] /\ g.origin = e.origin /\ g.probe = e.probe
  BY <1>6, <1>7, <1>8, <1>11 DEF BridgeStates
<1>13. g.browser[c] = b /\ \A d \in PeerIds : d # c => g.browser[d] = e.browser[d]
  BY <1>1, <1>12
<1> HIDE DEF g, A
<1>14. g.attachment = (IF p.op = "attach" THEN e.attachment \cup {a} ELSE e.attachment)
  BY <1>12 DEF A
<1>15. Sends(e, g, c, p)
  BY <1>2, <1>6, <1>7, <1>10, <1>12, <1>13, <1>14 DEF Sends, x, a
<1> QED BY <1>2, <1>5, <1>12, <1>15 DEF p

\* A command sent, as its connection sees it.
LEMMA SendsViewed ==
    ASSUME NEW e, NEW g, NEW c, NEW p, Sends(e, g, c, p), p.client = c
    PROVE  PeerSends(PeerView(e, c), PeerView(g, c), p)
<1> DEFINE v == PeerView(e, c)
           w == PeerView(g, c)
           a == [id |-> p.id, client |-> p.client, session |-> 0, released |-> FALSE]
<1>1. PendingOf(g, c) = PendingOf(e, c) \cup {p} /\ ReadyOf(g, c) = ReadyOf(e, c)
  BY DEF PendingOf, ReadyOf, Sends
<1>2. AttachedOf(g, c) = IF p.op = "attach" THEN AttachedOf(e, c) \cup {a} ELSE AttachedOf(e, c)
  <2>1. a.client = c
    OBVIOUS
  <2>2. g.attachment = (IF p.op = "attach" THEN e.attachment \cup {a} ELSE e.attachment)
    BY DEF Sends
  <2> HIDE DEF a
  <2> QED BY <2>1, <2>2 DEF AttachedOf
<1>3. w.open = v.open /\ w.session = v.session /\ w.retired = v.retired
  BY ViewOf DEF Sends
<1>4. /\ w.live = v.live /\ w.foreign = v.foreign /\ w.owed = v.owed /\ w.in = v.in
      /\ w.out = Append(v.out, [id |-> p.id, op |-> p.op, session |-> p.session])
  <2> DEFINE x == [id |-> p.id, op |-> p.op, session |-> p.session]
  <2>1. /\ g.browser[c].out = Append(e.browser[c].out, x)
        /\ g.browser[c].in = e.browser[c].in /\ g.browser[c].live = e.browser[c].live
        /\ g.browser[c].foreign = e.browser[c].foreign /\ g.browser[c].owed = e.browser[c].owed
    BY DEF Sends
  <2> HIDE DEF x
  <2>2. w.live = v.live /\ w.foreign = v.foreign /\ w.owed = v.owed /\ w.in = v.in
    BY <2>1, ViewOf
  <2>3. w.out = g.browser[c].out /\ v.out = e.browser[c].out
    BY ViewOf
  <2> QED BY <2>1, <2>2, <2>3 DEF x
<1>5. w.attached = v.attached /\ w.mistaken = v.mistaken /\ w.ids = v.ids + 1 /\ p.id = w.ids
  BY ViewOf DEF Sends
<1>6. w.pending = v.pending \cup {p} /\ w.ready = v.ready
  BY <1>1, ViewOf
<1>7. w.att = IF p.op = "attach" THEN v.att \cup {a} ELSE v.att
  <2>1. w.att = AttachedOf(g, c) /\ v.att = AttachedOf(e, c)
    BY ViewOf
  <2> HIDE DEF v, w, a
  <2> QED BY <1>2, <2>1
<1> HIDE DEF v, w
<1>8. PeerSends(v, w, p)
  BY <1>3, <1>4, <1>5, <1>6, <1>7 DEF PeerSends, SameOrigin
<1> QED BY <1>8 DEF v, w

\* Sending a command that may be sent keeps the invariant.
LEMMA SendsKeeps ==
    ASSUME NEW e, BridgeOK(e), NEW g \in BridgeStates, NEW c \in PeerIds, NEW p \in ProbeRequests,
           Sends(e, g, c, p), p.client = c, p.session \in 0 .. e.ledger.attached,
           \/ g.probe = e.probe
           \/ e.probe.stage = "none" /\ g.probe.client = c,
           MaySend(PeerView(e, c), PeerView(g, c), p)
    PROVE  BridgeOK(g)
<1> DEFINE v == PeerView(e, c)
           w == PeerView(g, c)
<1>1. e \in BridgeStates /\ Shared(e) /\ PeerOK(v) /\ v \in PeerViews /\ w \in PeerViews
  BY SharedHolds, ViewType
<1>2. PeerSends(v, w, p)
  BY SendsViewed
<1>3. p.session \in 0 .. v.attached /\ v.open = e.origin[c].open /\ v.ids = e.ledger.ids
  BY ViewOf
<1>4. e.ledger.ids \in Nat /\ e.ledger.attached \in Nat /\ g.ledger.ids = e.ledger.ids + 1 /\ p.id = e.ledger.ids + 1
      /\ e.ledger.links \in 0 .. MaxPeerLinks
  BY <1>1, BridgeParts DEF Sends
<1> HIDE DEF v, w
<1>5. MaySend(v, w, p)
  BY DEF v, w
<1>6. PeerOK(w)
  BY <1>1, <1>2, <1>3, <1>5, PeerSendKeeps
<1>7. \A i \in 1 .. e.ledger.ids : PeerUses(w, i) => PeerUses(v, i)
  <2> SUFFICES ASSUME NEW i \in 1 .. e.ledger.ids, PeerUses(w, i) PROVE PeerUses(v, i)
    OBVIOUS
  <2>1. i # p.id
    BY <1>4
  <2>2. CASE \E q \in w.pending : q.id = i
    BY <1>2, <2>1, <2>2 DEF PeerSends, PeerUses
  <2>3. CASE \E a \in w.att : a.id = i
    BY <1>2, <2>1, <2>3 DEF PeerSends, PeerUses
  <2>4. CASE i # 0 /\ \E k \in DOMAIN w.out : w.out[k].id = i
    <3> DEFINE x == [id |-> p.id, op |-> p.op, session |-> p.session]
    <3>1. v.out \in Seq(PeerCommands) /\ x \in PeerCommands /\ w.out = Append(v.out, x) /\ x.id = p.id
      BY <1>1, <1>2, PeerType DEF PeerSends, PeerCommands, ProbeRequests
    <3> HIDE DEF x
    <3>2. PeerMore(v.out, w.out, {x})
      BY <3>1, OneIsMore
    <3>3. \A k \in DOMAIN w.out : (k \in DOMAIN v.out /\ w.out[k] = v.out[k]) \/ w.out[k] = x
      BY <3>2 DEF PeerMore
    <3> QED BY <2>1, <2>4, <3>1, <3>3 DEF PeerUses
  <2>5. CASE \E k \in DOMAIN w.in : w.in[k].kind = "reply" /\ w.in[k].id = i
    BY <1>2, <2>5 DEF PeerSends, PeerUses
  <2>6. CASE \E k \in DOMAIN w.owed : w.owed[k].id = i
    BY <1>2, <2>6 DEF PeerSends, PeerUses
  <2> QED BY <2>2, <2>3, <2>4, <2>5, <2>6 DEF PeerUses
<1>8. Beside(e, g, c)
  <2>1. g.ledger.ids >= e.ledger.ids /\ g.ledger.attached >= e.ledger.attached
    BY <1>4 DEF Sends
  <2>2. \A q : q.client # c => (q \in g.await.pending <=> q \in e.await.pending)
    BY DEF Sends
  <2>3. \A a : a.client # c => (a \in g.attachment <=> a \in e.attachment)
    <3> DEFINE x == [id |-> p.id, client |-> p.client, session |-> 0, released |-> FALSE]
    <3>1. x.client = c /\ g.attachment = (IF p.op = "attach" THEN e.attachment \cup {x} ELSE e.attachment)
      BY DEF Sends
    <3> HIDE DEF x
    <3> QED BY <3>1
  <2> QED BY <2>1, <2>2, <2>3 DEF Beside, Sends
<1>9. Shared(g)
  <2>1. v.open
    BY <1>5 DEF MaySend
  <2>2. ~ (c > e.ledger.links)
    BY <1>1, <1>3, <2>1 DEF Shared
  <2>3. c \in 1 .. e.ledger.links
    BY <1>4, <2>2, ProbeSizes DEF PeerIds
  <2>4. IsFiniteSet(g.await.pending)
    BY <1>1, FS_AddElement DEF Shared, Sends
  <2>5. EndsNamed(g)
    <3>1. EndsNamed(e)
      BY <1>1 DEF Shared
    <3>2. p.op = "detach" => p.session # 0
      BY <1>1, <1>5, PeerType DEF ProbeRequests, Askers, MaySend, StageOp, ProbeStages
    <3>3. ASSUME NEW k \in DOMAIN g.await.ready,
                 g.await.ready[k].by = "background" \/ g.probe.stage \in {"leftover", "release"}
          PROVE  g.await.ready[k].session # 0
      <4>1. g.await.ready = e.await.ready /\ k \in DOMAIN e.await.ready
        BY DEF Sends
      <4>2. CASE g.probe = e.probe
        BY <3>1, <3>3, <4>1, <4>2 DEF EndsNamed
      <4>3. CASE e.probe.stage = "none"
        <5> DEFINE x == e.await.ready[k]
        <5>1. x \in Outcomes
          BY <1>1, <4>1, BridgeParts
        <5>2. x.client \in PeerIds /\ x.by \in Askers
          BY <5>1 DEF Outcomes
        <5>3. x \in ReadyOf(e, x.client)
          BY <4>1, <5>1 DEF ReadyOf
        <5> HIDE DEF x
        <5>4. PeerOK(PeerView(e, x.client)) /\ PeerView(e, x.client).ready = ReadyOf(e, x.client)
              /\ PeerView(e, x.client).stage = "none"
          BY <4>3, <5>2, SharedHolds, ViewOf
        <5>5. x.by # "probe"
          BY <5>3, <5>4 DEF PeerOK, PeerServes
        <5>6. x.by = "background"
          BY <5>2, <5>5 DEF Askers
        <5> QED BY <3>1, <4>1, <5>6 DEF EndsNamed, x
      <4> QED BY <4>2, <4>3
    <3>4. \A q \in g.await.pending : q.op = "detach" => q.session # 0
      BY <3>1, <3>2 DEF EndsNamed, Sends
    <3> QED BY <3>3, <3>4 DEF EndsNamed
  <2> QED BY <1>1, <2>3, <2>4, <2>5 DEF Shared, Sends
<1> QED BY <1>6, <1>7, <1>8, <1>9, BridgeMoves DEF v, w

\* The bridge without its probe.
Unprobed(e) == [e EXCEPT !.probe = NoProbe]

\* It differs only in its probe.
LEMMA UnprobedIs ==
    ASSUME NEW e \in BridgeStates
    PROVE  /\ Unprobed(e) \in BridgeStates
           /\ Unprobed(e).origin = e.origin /\ Unprobed(e).await = e.await /\ Unprobed(e).attachment = e.attachment
           /\ Unprobed(e).browser = e.browser /\ Unprobed(e).ledger = e.ledger /\ Unprobed(e).probe = NoProbe
           /\ NoProbe \in ProbeStates /\ NoProbe.stage = "none"
<1>1. NoProbe \in ProbeStates /\ NoProbe.stage = "none"
  BY ProbeSizes DEF NoProbe, ProbeStates, ProbeStages
<1> QED BY <1>1 DEF Unprobed, BridgeStates

\* A probe in stage P.stage may await the command about session s.
MayProbe(v, P, s) ==
    /\ P.stage \in {"leftover", "targets", "attach", "evaluate", "release"}
    /\ P.stage \in {"targets", "attach"} => s = 0 /\ v.att = {} /\ (v.mistaken \/ v.live = {})
    /\ P.stage = "attach" => v.mistaken \/ (v.session = 0 /\ PeerQuiet(v, 0))
    /\ P.stage = "evaluate" => v.att = {} /\ v.session \in {0, P.session}
    /\ P.stage \in {"leftover", "release"} => s = v.session /\ v.session # 0
    /\ P.stage = "release" /\ ~ P.failed => s = P.session

\* The probe goes to its next stage and sends that stage's command.
LEMMA ProbeSends ==
    ASSUME NEW E \in BridgeStates, NEW c \in PeerIds, BridgeOK(Unprobed(E)), NEW P \in ProbeStates, P.client = c,
           NEW op, op = StageOp(P.stage), NEW s \in 0 .. E.ledger.attached, E.origin[c].open,
           MayProbe(PeerView(Unprobed(E), c), P, s)
    PROVE  BridgeOK([SendTo(E, c, op, s, "probe") EXCEPT !.probe = P])
<1> DEFINE I == Unprobed(E)
           S == SendTo(E, c, op, s, "probe")
           G == [S EXCEPT !.probe = P]
           p == Sent(E, c, op, s, "probe")
           v == PeerView(I, c)
           w == PeerView(G, c)
<1>1. /\ I \in BridgeStates
      /\ I.origin = E.origin /\ I.await = E.await /\ I.attachment = E.attachment
      /\ I.browser = E.browser /\ I.ledger = E.ledger /\ I.probe.stage = "none"
  BY UnprobedIs
<1>2. op \in ProbeOps /\ s \in Nat /\ "probe" \in Askers
  BY BridgeParts DEF MayProbe, StageOp, ProbeOps, Askers
<1>3. S \in BridgeStates /\ Sends(E, S, c, p) /\ p \in ProbeRequests
  BY <1>2, SendToIs
<1>4. p.client = c /\ p.session = s /\ p.op = op /\ p.by = "probe"
  BY DEF Sent
<1> HIDE DEF S, p, I
<1>5. /\ G \in BridgeStates /\ G.probe = P
      /\ G.origin = S.origin /\ G.await = S.await /\ G.attachment = S.attachment
      /\ G.browser = S.browser /\ G.ledger = S.ledger
  BY <1>3 DEF BridgeStates
<1> HIDE DEF G
<1>6. Sends(I, G, c, p)
  <2>1. G.origin = I.origin /\ G.await.pending = I.await.pending \cup {p} /\ G.await.ready = I.await.ready
    BY <1>1, <1>3, <1>5 DEF Sends
  <2>2. G.attachment = (IF p.op = "attach"
               THEN I.attachment \cup {[id |-> p.id, client |-> p.client, session |-> 0, released |-> FALSE]}
               ELSE I.attachment)
    BY <1>1, <1>3, <1>5 DEF Sends
  <2>3. G.browser[c].out = Append(I.browser[c].out, [id |-> p.id, op |-> p.op, session |-> p.session])
    BY <1>1, <1>3, <1>5 DEF Sends
  <2>4. /\ G.browser[c].in = I.browser[c].in /\ G.browser[c].live = I.browser[c].live
        /\ G.browser[c].foreign = I.browser[c].foreign /\ G.browser[c].owed = I.browser[c].owed
        /\ \A d \in PeerIds : d # c => G.browser[d] = I.browser[d]
    BY <1>1, <1>3, <1>5 DEF Sends
  <2>5. /\ G.ledger.ids = I.ledger.ids + 1 /\ p.id = G.ledger.ids
        /\ G.ledger.attached = I.ledger.attached /\ G.ledger.links = I.ledger.links
        /\ G.ledger.lied = I.ledger.lied /\ G.ledger.mistaken = I.ledger.mistaken
    BY <1>1, <1>3, <1>5 DEF Sends
  <2> QED BY <2>1, <2>2, <2>3, <2>4, <2>5 DEF Sends
<1>7. v.stage = "none" /\ v.open
  BY <1>1, ViewOf
<1>8. w.stage = P.stage /\ w.probed = P.session /\ w.failed = P.failed
  BY <1>5, ViewOf
<1> HIDE DEF v, w
<1>9. MayProbe(v, P, s)
  BY DEF v, I
<1>10. MaySend(v, w, p)
  BY <1>4, <1>7, <1>8, <1>9 DEF MaySend, MayProbe
<1>11. p.session \in 0 .. I.ledger.attached /\ BridgeOK(I)
  BY <1>1, <1>4 DEF I
<1>12. BridgeOK(G)
  BY <1>1, <1>3, <1>4, <1>5, <1>6, <1>10, <1>11, SendsKeeps DEF v, w
<1> QED BY <1>12 DEF G, S

\* The end of a probe.
LEMMA FinishKeeps ==
    ASSUME NEW E \in BridgeStates, NEW c \in PeerIds, E.probe.client = c, BridgeOK(Unprobed(E)), NEW failed \in BOOLEAN,
           ~ failed /\ ~ E.probe.failed => E.origin[c].session \in {0, E.probe.session}
    PROVE  BridgeOK(Finish(E, failed))
<1> DEFINE Q == [E.probe EXCEPT !.failed = @ \/ failed]
           f == [E EXCEPT !.probe = Q]
           s == E.origin[c].session
<1>1. E.probe \in ProbeStates /\ E.probe.failed \in BOOLEAN /\ E.origin[c].session \in Nat /\ E.origin[c].open \in BOOLEAN
  BY BridgeParts, PeerParts
<1>2. /\ Q \in ProbeStates /\ Q.client = c /\ Q.session = E.probe.session /\ Q.failed = (E.probe.failed \/ failed)
  BY <1>1 DEF ProbeStates
<1> HIDE DEF Q
<1>3. /\ f \in BridgeStates /\ f.probe = Q /\ f.origin = E.origin /\ f.ledger = E.ledger
  BY <1>2 DEF BridgeStates
<1>4. Unprobed(f) = Unprobed(E)
  BY <1>2 DEF Unprobed, BridgeStates
<1>5. Finish(E, failed) =
        IF s = 0 \/ ~ E.origin[c].open THEN [f EXCEPT !.probe = NoProbe]
        ELSE [SendTo(f, c, "detach", s, "probe") EXCEPT !.probe.stage = "release"]
  <2>1. f = [E EXCEPT !.probe.failed = @ \/ failed]
    BY DEF Q
  <2> HIDE DEF f
  <2> QED BY <2>1 DEF Finish
<1>6. CASE s = 0 \/ ~ E.origin[c].open
  BY <1>4, <1>5, <1>6 DEF Unprobed
<1>7. CASE ~ (s = 0 \/ ~ E.origin[c].open)
  <2> DEFINE P == [Q EXCEPT !.stage = "release"]
             S == SendTo(f, c, "detach", s, "probe")
             v == PeerView(Unprobed(f), c)
  <2> HIDE DEF f
  <2>1. P \in ProbeStates /\ P.client = c /\ P.stage = "release" /\ P.failed = Q.failed /\ P.session = Q.session
    BY <1>2 DEF ProbeStates, ProbeStages
  <2>2. Unprobed(f) \in BridgeStates /\ Unprobed(f).origin = E.origin /\ Unprobed(f).ledger = E.ledger
    BY <1>3, UnprobedIs
  <2>3. v.session = s /\ v.attached = E.ledger.attached /\ PeerOK(v)
    BY <1>4, <2>2, ViewOf, SharedHolds
  <2>4. s \in 0 .. f.ledger.attached
    BY <1>3, <2>3 DEF PeerOK, PeerSizes
  <2>5. MayProbe(v, P, s)
    BY <1>2, <1>7, <2>1, <2>3 DEF MayProbe
  <2>6. "detach" = StageOp(P.stage) /\ f.origin[c].open
    BY <1>3, <1>7, <2>1 DEF StageOp
  <2>7. BridgeOK([S EXCEPT !.probe = P])
    BY <1>3, <1>4, <2>1, <2>4, <2>5, <2>6, ProbeSends
  <2>8. S.probe = Q
    <3>1. s \in Nat /\ "detach" \in ProbeOps /\ "probe" \in Askers
      BY <1>1 DEF ProbeOps, Askers
    <3> QED BY <1>3, <3>1, SendToIs
  <2> HIDE DEF S
  <2>9. [S EXCEPT !.probe.stage = "release"] = [S EXCEPT !.probe = P]
    BY <2>8
  <2> QED BY <1>5, <1>7, <2>7, <2>9 DEF S
<1> QED BY <1>6, <1>7

\* A probe goes on, or ends because the target is no longer locked.
LEMMA StepKeeps ==
    ASSUME NEW E \in BridgeStates, NEW c \in PeerIds, E.probe.client = c, probe.client = c,
           E.origin[c].open = origin[c].open, BridgeOK(Unprobed(E)),
           NEW next \in {"targets", "attach", "evaluate"}, NEW s \in 0 .. E.ledger.attached,
           MayProbe(PeerView(Unprobed(E), c), [E.probe EXCEPT !.stage = next], s)
    PROVE  BridgeOK(Step(E, c, next, next, s))
<1>1. CASE ~ OnTarget
  <2>1. Step(E, c, next, next, s) = Finish(E, TRUE)
    BY <1>1 DEF Step
  <2> QED BY <2>1, FinishKeeps
<1>2. CASE OnTarget
  <2> DEFINE P == [E.probe EXCEPT !.stage = next]
             S == SendTo(E, c, next, s, "probe")
  <2>1. E.probe \in ProbeStates
    BY BridgeParts
  <2>2. P \in ProbeStates /\ P.client = c /\ next = StageOp(P.stage)
    BY <2>1 DEF ProbeStates, ProbeStages, StageOp
  <2>3. E.origin[c].open
    BY <1>2 DEF OnTarget
  <2>4. BridgeOK([S EXCEPT !.probe = P])
    BY <2>2, <2>3, ProbeSends
  <2>5. S.probe = E.probe
    <3>1. s \in Nat /\ next \in ProbeOps /\ "probe" \in Askers
      BY BridgeParts DEF ProbeOps, Askers
    <3> QED BY <3>1, SendToIs
  <2> HIDE DEF S
  <2>6. [S EXCEPT !.probe.stage = next] = [S EXCEPT !.probe = P]
    BY <2>5
  <2>7. Step(E, c, next, next, s) = [S EXCEPT !.probe.stage = next]
    BY <1>2 DEF Step, S
  <2> QED BY <2>4, <2>6, <2>7
<1> QED BY <1>1, <1>2

\* Retiring looks at origins and attachments only.
LEMMA RetireTouches ==
    ASSUME NEW e \in BridgeStates, NEW g \in BridgeStates, g.origin = e.origin, g.attachment = e.attachment,
           NEW c \in PeerIds, NEW s \in Nat
    PROVE  /\ Retire(g, c, s).origin = Retire(e, c, s).origin
           /\ Retire(g, c, s).attachment = Retire(e, c, s).attachment
<1> DEFINE o == [e.origin EXCEPT ![c].session = IF @ = s THEN 0 ELSE @, ![c].retired = @ \cup {s}]
           A == {IF a.client = c /\ a.session = s
                            THEN [a EXCEPT !.released = TRUE] ELSE a : a \in e.attachment}
<1>1. Retire(e, c, s) = [e EXCEPT !.origin = o, !.attachment = A]
  BY DEF Retire, BridgeStates
<1>2. Retire(g, c, s) = [g EXCEPT !.origin = o, !.attachment = A]
  BY DEF Retire, BridgeStates
<1> HIDE DEF o, A
<1> QED BY <1>1, <1>2 DEF BridgeStates

\* A release that did not fail leaves nothing of its session attached.
LEMMA ReleasedSession ==
    ASSUME NEW v \in PeerViews, PeerOK(v), NEW x \in v.ready, x.session # 0,
           x.by = "background" \/ v.stage \in {"leftover", "release"},
           x.ok \/ (v.open /\ v.session # x.session)
    PROVE  /\ v.open /\ PeerKnows(v, x.session) /\ (v.mistaken \/ x.session \notin v.live)
           /\ x.session \in 1 .. v.attached
<1>1. PeerKnows(v, x.session)
  BY DEF PeerKnows
<1>2. v.open
  BY DEF PeerOK, PeerShut
<1>3. x.session \in 1 .. v.attached
  BY PeerType DEF PeerOK, PeerSizes
<1>4. CASE x.ok
  BY <1>1, <1>2, <1>3, <1>4 DEF PeerOK, PeerOrder
<1>5. CASE ~ x.ok
  BY <1>1, <1>2, <1>3, <1>5 DEF PeerOK, PeerFaithful, PeerAnswers
<1> QED BY <1>4, <1>5

-----------------------------------------------------------------------------
(* A probe goes on                                                          *)

\* The answer whose continuation runs.
LEMMA AnswerIs ==
    ASSUME BridgeOK(Bridge), await.ready # <<>>, NEW r, r = Head(await.ready)
    PROVE  /\ r \in Outcomes /\ r.client \in PeerIds /\ r \in PeerView(Bridge, r.client).ready
           /\ r.by \in Askers /\ r.ok \in BOOLEAN /\ r.session \in Nat
           /\ r.by = "probe" => /\ probe.client = r.client /\ probe.stage # "none"
                                /\ PeerView(Bridge, r.client).stage = probe.stage
           /\ r.by = "background" \/ probe.stage \in {"leftover", "release"} => r.session # 0
<1>1. Bridge \in BridgeStates /\ Shared(Bridge)
  BY SharedHolds
<1>2. await.ready \in Seq(Outcomes)
  BY <1>1, BridgeIs, BridgeParts
<1>3. r = await.ready[1] /\ r \in Outcomes /\ 1 \in DOMAIN await.ready
  BY <1>2, TailIsRest DEF PeerRest
<1>4. r.client \in PeerIds /\ r.by \in Askers /\ r.ok \in BOOLEAN /\ r.session \in Nat
  BY <1>3 DEF Outcomes
<1>5. r \in ReadyOf(Bridge, r.client)
  BY <1>3, BridgeIs DEF ReadyOf
<1> DEFINE v == PeerView(Bridge, r.client)
<1>6. r \in v.ready
  BY <1>5, ViewOf
<1>7. r.by = "probe" => v.stage # "none"
  <2>1. PeerOK(v)
    BY <1>4, SharedHolds
  <2> HIDE DEF v
  <2> QED BY <1>6, <2>1 DEF PeerOK, PeerServes
<1>8. v.stage = IF probe.client = r.client THEN probe.stage ELSE "none"
  BY ViewOf, BridgeIs
<1> HIDE DEF v
<1>9. r.by = "probe" => probe.client = r.client /\ probe.stage # "none" /\ v.stage = probe.stage
  BY <1>7, <1>8
<1>10. r.by = "background" \/ probe.stage \in {"leftover", "release"} => r.session # 0
  BY <1>1, <1>3, BridgeIs DEF Shared, EndsNamed
<1> QED BY <1>3, <1>4, <1>6, <1>9, <1>10 DEF v

\* The bridge once that answer is taken.
Taken(E) ==
    /\ E.origin = origin /\ E.attachment = attachment /\ E.browser = browser /\ E.ledger = ledger
    /\ E.probe = probe /\ E.await.pending = await.pending /\ E.await.ready = Tail(await.ready)

\* The invariant holds with the continuation taken, once its probe is set aside.
LEMMA TakenIs ==
    ASSUME BridgeOK(Bridge), await.ready # <<>>, NEW E, E = [Bridge EXCEPT !.await.ready = Tail(@)]
    PROVE  /\ E \in BridgeStates /\ Taken(E) /\ Drops(Bridge, E) /\ Drops(Bridge, Unprobed(E))
           /\ Head(await.ready).by = "probe" => BridgeOK(Unprobed(E))
           /\ BridgeOK(E)
<1>1. Bridge \in BridgeStates
  BY DEF BridgeOK
<1>2. /\ await \in [pending : SUBSET ProbeRequests, ready : Seq(Outcomes)] /\ await.ready \in Seq(Outcomes)
  BY <1>1, BridgeParts, BridgeIs
<1>3. Tail(await.ready) \in Seq(Outcomes)
  BY <1>2, TailIsRest
<1> DEFINE w == [await EXCEPT !.ready = Tail(@)]
<1>4. /\ w \in [pending : SUBSET ProbeRequests, ready : Seq(Outcomes)]
      /\ w.pending = await.pending /\ w.ready = Tail(await.ready)
  BY <1>2, <1>3
<1>5. E = [Bridge EXCEPT !.await = w]
  BY <1>1, BridgeIs DEF BridgeStates
<1> HIDE DEF w
<1>6. E \in BridgeStates /\ Taken(E)
  BY <1>1, <1>4, <1>5, BridgeIs DEF BridgeStates, Taken
<1>7. Drops(Bridge, E)
  BY <1>6, BridgeIs DEF Taken, Drops
<1>8. /\ Unprobed(E) \in BridgeStates /\ Drops(Bridge, Unprobed(E)) /\ Unprobed(E).probe.stage = "none"
  BY <1>6, BridgeIs, UnprobedIs DEF Taken, Drops
<1>9. Bridge.await.ready # <<>> /\ Head(Bridge.await.ready) = Head(await.ready)
  BY BridgeIs
<1>10. BridgeOK(E)
  BY <1>6, <1>7, <1>9, BridgeIs, DropsKeeps DEF Taken
<1>11. ASSUME Head(await.ready).by = "probe" PROVE BridgeOK(Unprobed(E))
  BY <1>8, <1>9, <1>11, DropsKeeps
<1> QED BY <1>6, <1>7, <1>8, <1>10, <1>11

\* A release was answered: its session is retired if the browser gave it back
\* (releaseProbeSession).
LEMMA AfterReleaseKeeps ==
    ASSUME BridgeOK(Bridge), await.ready # <<>>, NEW r, r = Head(await.ready),
           NEW E, E = [Bridge EXCEPT !.await.ready = Tail(@)],
           r.by = "background" \/ probe.stage \in {"leftover", "release"},
           NEW A, A = AfterRelease(E, r)
    PROVE  /\ A \in BridgeStates /\ A.probe = probe /\ A.browser = browser /\ A.ledger = ledger
           /\ A.origin[r.client].open = origin[r.client].open
           /\ r.by = "background" => BridgeOK(A)
           /\ r.by = "probe" => BridgeOK(Unprobed(A))
           /\ ~ ReleaseFails(E, r) => ledger.mistaken \/ r.session \notin browser[r.client].live
<1> DEFINE c == r.client
           s == r.session
           v == PeerView(Bridge, c)
<1>1. /\ r \in Outcomes /\ c \in PeerIds /\ r \in v.ready
      /\ r.by \in Askers /\ r.ok \in BOOLEAN /\ s \in Nat /\ s # 0
      /\ r.by = "probe" => v.stage = probe.stage
  BY AnswerIs
<1>2. /\ E \in BridgeStates /\ Taken(E) /\ BridgeOK(E)
      /\ r.by = "probe" => BridgeOK(Unprobed(E))
  BY TakenIs
<1>3. CASE ReleaseFails(E, r)
  BY <1>2, <1>3 DEF AfterRelease, Taken
<1>4. CASE ~ ReleaseFails(E, r)
  <2>1. A = Retire(E, c, s)
    BY <1>4 DEF AfterRelease
  <2>2. v \in PeerViews /\ PeerOK(v) /\ Bridge \in BridgeStates
    BY <1>1, SharedHolds
  <2>3. v.open = origin[c].open /\ v.session = origin[c].session
    BY ViewOf, BridgeIs
  <2>30. v.live = browser[c].live /\ v.mistaken = ledger.mistaken /\ v.attached = ledger.attached
    BY ViewOf, BridgeIs
  <2>4. r.ok \/ (v.open /\ v.session # s)
    BY <1>2, <1>4, <2>3 DEF ReleaseFails, Taken
  <2>5. r.by = "background" \/ v.stage \in {"leftover", "release"}
    BY <1>1 DEF Askers
  <2> HIDE DEF v
  <2>6. v.open /\ PeerKnows(v, s) /\ (v.mistaken \/ s \notin v.live) /\ s \in 1 .. v.attached
    BY <1>1, <2>2, <2>4, <2>5, ReleasedSession
  <2> DEFINE R == Retire(Bridge, c, s)
  <2>7. R \in BridgeStates /\ Retires(Bridge, R, c, s)
    BY <1>1, <2>2, RetireIs
  <2>8. BridgeOK(R)
    <3>1. /\ s \in 1 .. Bridge.ledger.attached /\ Bridge.origin[c].open
          /\ (Bridge.ledger.mistaken \/ s \notin Bridge.browser[c].live)
      BY <2>3, <2>30, <2>6, BridgeIs
    <3>2. PeerKnows(PeerView(Bridge, c), s)
      BY <2>6 DEF v
    <3> HIDE DEF R
    <3> QED BY <1>1, <2>7, <3>1, <3>2, RetiresKeeps
  <2>9. A \in BridgeStates /\ Retires(E, A, c, s)
    BY <1>1, <1>2, <2>1, RetireIs
  <2>10. A.origin = R.origin /\ A.attachment = R.attachment
    <3>1. E.origin = Bridge.origin /\ E.attachment = Bridge.attachment
      BY <1>2, BridgeIs DEF Taken
    <3>2. E \in BridgeStates /\ Bridge \in BridgeStates /\ c \in PeerIds /\ s \in Nat
      BY <1>1, <1>2, <2>2
    <3> HIDE DEF R, c, s
    <3>3. /\ Retire(E, c, s).origin = Retire(Bridge, c, s).origin
          /\ Retire(E, c, s).attachment = Retire(Bridge, c, s).attachment
      BY ONLY <3>1, <3>2, RetireTouches
    <3> QED BY <2>1, <3>3 DEF R
  <2> HIDE DEF R
  <2>11. /\ A.browser = R.browser /\ A.ledger = R.ledger /\ A.await.pending = R.await.pending
         /\ A.await.ready = Tail(R.await.ready) /\ A.probe = R.probe /\ R.await.ready = await.ready
    <3>1. R.browser = browser /\ R.ledger = ledger /\ R.probe = probe /\ R.await = await
      BY <2>7, BridgeIs DEF Retires
    <3>2. /\ E.browser = browser /\ E.ledger = ledger /\ E.probe = probe
          /\ E.await.pending = await.pending /\ E.await.ready = Tail(await.ready)
      BY <1>2 DEF Taken
    <3>3. A.browser = E.browser /\ A.ledger = E.ledger /\ A.probe = E.probe /\ A.await = E.await
      BY <2>9 DEF Retires
    <3> QED BY <3>1, <3>2, <3>3
  <2>12. Drops(R, A)
    BY <2>10, <2>11 DEF Drops
  <2>13. Unprobed(A) \in BridgeStates /\ Drops(R, Unprobed(A)) /\ Unprobed(A).probe.stage = "none"
    BY <2>9, <2>12, UnprobedIs DEF Drops
  <2>14. BridgeOK(A)
    BY <2>8, <2>9, <2>11, <2>12, DropsKeeps
  <2>15. r.by = "probe" => BridgeOK(Unprobed(A))
    BY <2>8, <2>11, <2>13, DropsKeeps
  <2>16. A.probe = probe /\ A.browser = browser /\ A.ledger = ledger
    BY <1>2, <2>9 DEF Taken, Retires
  <2>17. A.origin[c].open = origin[c].open
    BY <1>2, <2>9 DEF Taken, Retires
  <2> QED BY <2>6, <2>9, <2>14, <2>15, <2>16, <2>17, <2>30
<1> QED BY <1>3, <1>4

\* What the connection of the bridge without its probe is like.
LEMMA UnprobedViewed ==
    ASSUME NEW e \in BridgeStates, NEW c \in PeerIds
    PROVE  LET u == PeerView(Unprobed(e), c) IN
           /\ u.att = AttachedOf(e, c) /\ u.live = e.browser[c].live /\ u.foreign = e.browser[c].foreign
           /\ u.in = e.browser[c].in /\ u.session = e.origin[c].session
           /\ u.mistaken = e.ledger.mistaken /\ u.attached = e.ledger.attached
<1> DEFINE u == PeerView(Unprobed(e), c)
<1>1. /\ Unprobed(e).origin = e.origin /\ Unprobed(e).attachment = e.attachment
      /\ Unprobed(e).browser = e.browser /\ Unprobed(e).ledger = e.ledger
  BY UnprobedIs
<1>2. AttachedOf(Unprobed(e), c) = AttachedOf(e, c)
  BY <1>1 DEF AttachedOf
<1>3. u.att = AttachedOf(Unprobed(e), c)
  BY ViewOf
<1>4. u.live = Unprobed(e).browser[c].live /\ u.foreign = Unprobed(e).browser[c].foreign /\ u.in = Unprobed(e).browser[c].in
  BY ViewOf
<1>5. /\ u.session = Unprobed(e).origin[c].session
      /\ u.mistaken = Unprobed(e).ledger.mistaken /\ u.attached = Unprobed(e).ledger.attached
  BY ViewOf
<1> HIDE DEF u
<1> QED BY <1>1, <1>2, <1>3, <1>4, <1>5 DEF u

\* The probe that goes on, and its connection.
ProbeGoesOn(r, E, c, v) ==
    /\ BridgeOK(Bridge) /\ await.ready # <<>> /\ r = Head(await.ready) /\ r.by = "probe"
    /\ E = [Bridge EXCEPT !.await.ready = Tail(@)]
    /\ c = r.client /\ v = PeerView(Bridge, c)

\* The probe goes on: where it stands, and what its connection holds.
LEMMA ProbeGoesOnIs ==
    ASSUME NEW r, NEW E, NEW c, NEW v, ProbeGoesOn(r, E, c, v)
    PROVE  /\ c \in PeerIds /\ probe.client = c /\ PeerOK(v) /\ v \in PeerViews
           /\ r \in v.ready /\ r.session \in Nat /\ r.ok \in BOOLEAN
           /\ v.stage = probe.stage /\ v.probed = probe.session /\ v.failed = probe.failed
           /\ v.session = origin[c].session /\ v.open = origin[c].open /\ v.retired = origin[c].retired
           /\ v.live = browser[c].live /\ v.in = browser[c].in /\ v.foreign = browser[c].foreign
           /\ v.mistaken = ledger.mistaken /\ v.attached = ledger.attached
           /\ v.att = AttachedOf(E, c)
           /\ E \in BridgeStates /\ Taken(E) /\ BridgeOK(Unprobed(E)) /\ r.session \in 0 .. ledger.attached
<1> USE DEF ProbeGoesOn
<1>1. /\ c \in PeerIds /\ r \in v.ready /\ r.session \in Nat /\ r.ok \in BOOLEAN
      /\ probe.client = c /\ v.stage = probe.stage
  BY AnswerIs
<1>2. PeerOK(v) /\ v \in PeerViews
  BY <1>1, SharedHolds
<1>3. E \in BridgeStates /\ Taken(E) /\ BridgeOK(Unprobed(E))
  BY TakenIs
<1>4. v.probed = probe.session /\ v.failed = probe.failed
  BY ViewOf, BridgeIs
<1>5. v.session = origin[c].session /\ v.retired = origin[c].retired
  BY ViewOf, BridgeIs
<1>50. v.open = origin[c].open
  BY ViewOf, BridgeIs
<1>6. v.live = browser[c].live /\ v.in = browser[c].in /\ v.foreign = browser[c].foreign
  BY ViewOf, BridgeIs
<1>7. v.mistaken = ledger.mistaken /\ v.attached = ledger.attached
  BY ViewOf, BridgeIs
<1>8. v.att = AttachedOf(E, c)
  BY <1>3, ViewOf, BridgeIs DEF Taken, AttachedOf
<1>9. r.session \in 0 .. ledger.attached
  BY <1>1, <1>2, <1>7 DEF PeerOK, PeerSizes
<1> QED BY <1>1, <1>2, <1>3, <1>4, <1>5, <1>50, <1>6, <1>7, <1>8, <1>9

\* Nothing is left over: the targets are asked for.
LEMMA LeftoverKeeps ==
    ASSUME NEW r, NEW E, NEW c, NEW v, ProbeGoesOn(r, E, c, v), probe.stage = "leftover"
    PROVE  BridgeOK(IF ReleaseFails(E, r) THEN Finish(E, TRUE) ELSE AskTargets(AfterRelease(E, r), c))
<1> DEFINE A == AfterRelease(E, r)
<1>1. /\ c \in PeerIds /\ probe.client = c /\ PeerOK(v) /\ r \in v.ready /\ v.stage = "leftover"
      /\ v.live = browser[c].live /\ v.mistaken = ledger.mistaken
      /\ E \in BridgeStates /\ Taken(E) /\ BridgeOK(Unprobed(E)) /\ E.probe = probe
  BY ProbeGoesOnIs DEF Taken
<1>2. /\ A \in BridgeStates /\ A.probe = probe /\ A.browser = browser /\ A.ledger = ledger
      /\ A.origin[c].open = origin[c].open /\ BridgeOK(Unprobed(A))
      /\ ~ ReleaseFails(E, r) => ledger.mistaken \/ r.session \notin browser[c].live
  BY AfterReleaseKeeps DEF ProbeGoesOn
<1> HIDE DEF A
<1>3. CASE ReleaseFails(E, r)
  <2>1. BridgeOK(Finish(E, TRUE))
    BY <1>1, FinishKeeps
  <2> QED BY <1>3, <2>1
<1>4. CASE ~ ReleaseFails(E, r)
  <2>1. CASE Outstanding(A, c)
    <3>1. BridgeOK(Finish(A, TRUE))
      BY <1>1, <1>2, FinishKeeps
    <3> QED BY <1>4, <2>1, <3>1 DEF AskTargets, A
  <2>2. CASE ~ Outstanding(A, c)
    <3> DEFINE u == PeerView(Unprobed(A), c)
               P == [A.probe EXCEPT !.stage = "targets"]
    <3>1. u.att = AttachedOf(A, c) /\ u.live = browser[c].live /\ u.mistaken = ledger.mistaken
      BY <1>1, <1>2, UnprobedViewed
    <3>2. u.att = {}
      BY <1>1, <1>2, <2>2, <3>1, NotOutstanding
    <3>3. ledger.mistaken \/ browser[c].live = {}
      <4>1. ~ v.mistaken => \A s \in v.live : s = r.session
        BY <1>1, ProbeGoesOnIs DEF PeerOK, PeerStaged, ProbeGoesOn
      <4> QED BY <1>1, <1>2, <1>4, <4>1
    <3>4. P.stage = "targets"
      BY <1>2, BridgeParts DEF ProbeStates
    <3> HIDE DEF u, P
    <3>5. MayProbe(u, P, 0)
      BY <3>1, <3>2, <3>3, <3>4 DEF MayProbe
    <3>6. 0 \in 0 .. A.ledger.attached
      BY <1>2, BridgeParts
    <3>7. BridgeOK(Step(A, c, "targets", "targets", 0))
      BY <1>1, <1>2, <3>5, <3>6, StepKeeps DEF u, P
    <3> QED BY <1>4, <2>2, <3>7 DEF AskTargets, A
  <2> QED BY <2>1, <2>2
<1> QED BY <1>3, <1>4

\* The targets are known: the session is asked for.
LEMMA TargetsKeep ==
    ASSUME NEW r, NEW E, NEW c, NEW v, ProbeGoesOn(r, E, c, v), probe.stage = "targets"
    PROVE  BridgeOK(IF r.ok THEN Step(E, c, "attach", "attach", 0) ELSE Finish(E, TRUE))
<1>01. Taken(E)
  BY ProbeGoesOnIs
<1>02. E.probe = probe
  BY <1>01 DEF Taken
<1>03. r.by = "probe"
  BY DEF ProbeGoesOn
<1>04. c \in PeerIds /\ probe.client = c /\ PeerOK(v) /\ r \in v.ready /\ v.stage = "targets" /\ v \in PeerViews
  BY ProbeGoesOnIs
<1>05. /\ v.live = browser[c].live /\ v.mistaken = ledger.mistaken /\ v.in = browser[c].in
      /\ v.foreign = browser[c].foreign /\ v.session = origin[c].session /\ v.att = AttachedOf(E, c)
  BY ProbeGoesOnIs
<1>06. E \in BridgeStates /\ BridgeOK(Unprobed(E))
  BY ProbeGoesOnIs
<1>1. /\ c \in PeerIds /\ probe.client = c /\ PeerOK(v) /\ r \in v.ready /\ v.stage = "targets" /\ v \in PeerViews
      /\ v.live = browser[c].live /\ v.mistaken = ledger.mistaken /\ v.in = browser[c].in
      /\ v.foreign = browser[c].foreign /\ v.session = origin[c].session /\ v.att = AttachedOf(E, c)
      /\ E \in BridgeStates /\ Taken(E) /\ BridgeOK(Unprobed(E)) /\ E.probe = probe /\ r.by = "probe"
  BY <1>01, <1>02, <1>03, <1>04, <1>05, <1>06
<1>2. CASE ~ r.ok
  <2>1. BridgeOK(Finish(E, TRUE))
    BY <1>1, FinishKeeps
  <2> QED BY <1>2, <2>1
<1>3. CASE r.ok
  <2> DEFINE u == PeerView(Unprobed(E), c)
             P == [E.probe EXCEPT !.stage = "attach"]
  <2>1. /\ u.att = v.att /\ u.live = v.live /\ u.mistaken = v.mistaken /\ u.in = v.in
        /\ u.session = v.session
    BY <1>1, UnprobedViewed DEF Taken
  <2>2. v.att = {}
    BY <1>1 DEF PeerOK, PeerServes
  <2>3. ~ v.mistaken => v.live = {} /\ PeerQuiet(v, 0)
    BY <1>1, <1>3 DEF PeerOK, PeerStaged, PeerQuiet
  <2>4. ~ v.mistaken => v.session = 0
    BY <1>1, <2>3 DEF PeerOK, PeerFaithful, PeerTold, PeerQuiet
  <2>5. P.stage = "attach"
    BY <1>1, BridgeParts DEF ProbeStates
  <2> HIDE DEF u, P
  <2>50. ~ v.mistaken => PeerQuiet(u, 0)
    BY <1>1, <2>1, <2>3, UnprobedViewed DEF Taken, u, PeerQuiet
  <2>6. MayProbe(u, P, 0)
    BY <2>1, <2>2, <2>3, <2>4, <2>5, <2>50 DEF MayProbe
  <2>7. 0 \in 0 .. E.ledger.attached
    BY <1>1, BridgeParts
  <2>8. BridgeOK(Step(E, c, "attach", "attach", 0))
    BY <1>1, <2>6, <2>7, StepKeeps DEF u, P, Taken
  <2> QED BY <1>3, <2>8
<1> QED BY <1>2, <1>3

\* The session is known: it is asked to evaluate.
LEMMA AttachKeeps ==
    ASSUME NEW r, NEW E, NEW c, NEW v, ProbeGoesOn(r, E, c, v), probe.stage = "attach"
    PROVE  BridgeOK(IF r.ok THEN Probed(E, c, r) ELSE Finish(E, TRUE))
<1>01. Taken(E)
  BY ProbeGoesOnIs
<1>02. E.probe = probe /\ E.origin = origin /\ E.ledger = ledger
  BY <1>01 DEF Taken
<1>03. r.by = "probe"
  BY DEF ProbeGoesOn
<1>04. c \in PeerIds /\ probe.client = c /\ PeerOK(v) /\ r \in v.ready /\ v.stage = "attach" /\ v \in PeerViews
  BY ProbeGoesOnIs
<1>05. v.session = origin[c].session /\ v.att = AttachedOf(E, c) /\ v.retired = origin[c].retired
  BY ProbeGoesOnIs
<1>06. E \in BridgeStates /\ BridgeOK(Unprobed(E)) /\ r.session \in Nat /\ r.session \in 0 .. ledger.attached
  BY ProbeGoesOnIs
<1>1. /\ c \in PeerIds /\ probe.client = c /\ PeerOK(v) /\ r \in v.ready /\ v.stage = "attach" /\ v \in PeerViews
      /\ v.session = origin[c].session /\ v.att = AttachedOf(E, c) /\ v.retired = origin[c].retired
      /\ E \in BridgeStates /\ BridgeOK(Unprobed(E)) /\ E.probe = probe /\ r.by = "probe"
      /\ E.origin = origin /\ E.ledger = ledger
      /\ r.session \in Nat /\ r.session \in 0 .. ledger.attached
  BY <1>01, <1>02, <1>03, <1>04, <1>05, <1>06
<1>2. CASE ~ r.ok \/ r.session \in E.origin[c].retired
  <2>1. BridgeOK(Finish(E, TRUE))
    BY <1>1, FinishKeeps
  <2> QED BY <1>2, <2>1 DEF Probed
<1>3. CASE r.ok /\ r.session \notin E.origin[c].retired
  <2> DEFINE F == [E EXCEPT !.origin[c].session = r.session, !.probe.session = r.session]
             Q == [E.probe EXCEPT !.session = r.session]
             u == PeerView(Unprobed(F), c)
             P == [F.probe EXCEPT !.stage = "evaluate"]
  <2>1. v.att = {} /\ r.session = v.session
    BY <1>1, <1>3 DEF PeerOK, PeerServes
  <2>2. E.probe \in ProbeStates /\ E.origin \in [PeerIds -> Origins]
    BY <1>1, BridgeParts
  <2>3. Q \in ProbeStates /\ Q.session = r.session /\ Q.client = c
    BY <1>1, <2>2 DEF ProbeStates
  <2>4. [E.origin EXCEPT ![c].session = r.session] = E.origin
    BY <1>1, <2>1, <2>2 DEF Origins
  <2>5. F = [E EXCEPT !.probe = Q]
    <3>1. F = [E EXCEPT !.origin = [E.origin EXCEPT ![c].session = r.session], !.probe = Q]
      BY <1>1 DEF BridgeStates
    <3>2. F = [E EXCEPT !.origin = E.origin, !.probe = Q]
      BY <2>4, <3>1
    <3> HIDE DEF Q, F
    <3> QED BY <1>1, <3>2 DEF BridgeStates
  <2> HIDE DEF Q, F
  <2>6. /\ F \in BridgeStates /\ F.probe = Q /\ F.origin = E.origin /\ F.ledger = E.ledger
        /\ F.attachment = E.attachment
    BY <1>1, <2>3, <2>5 DEF BridgeStates
  <2>7. Unprobed(F) = Unprobed(E)
    BY <1>1, <2>5 DEF Unprobed, BridgeStates
  <2>8. u.att = AttachedOf(F, c) /\ u.session = F.origin[c].session
    BY <1>1, <2>6, UnprobedViewed
  <2>9. AttachedOf(F, c) = AttachedOf(E, c)
    BY <2>6 DEF AttachedOf
  <2>10. P.stage = "evaluate" /\ P.session = r.session
    BY <2>3, <2>6 DEF ProbeStates
  <2> HIDE DEF u, P
  <2>11. MayProbe(u, P, r.session)
    BY <1>1, <2>1, <2>6, <2>8, <2>9, <2>10 DEF MayProbe
  <2>12. BridgeOK(Step(F, c, "evaluate", "evaluate", r.session))
    <3>1. F.probe.client = c /\ probe.client = c /\ F.origin[c].open = origin[c].open /\ BridgeOK(Unprobed(F))
          /\ r.session \in 0 .. F.ledger.attached
      BY <1>1, <2>3, <2>6, <2>7
    <3> QED BY <1>1, <2>6, <2>11, <3>1, StepKeeps DEF u, P
  <2>13. Probed(E, c, r) = Step(F, c, "evaluate", "evaluate", r.session)
    BY <1>3 DEF Probed, F
  <2> QED BY <1>3, <2>12, <2>13
<1> QED BY <1>2, <1>3

\* The answer of the page: the probe ends.
LEMMA EvaluateKeeps ==
    ASSUME NEW r, NEW E, NEW c, NEW v, ProbeGoesOn(r, E, c, v), probe.stage = "evaluate"
    PROVE  BridgeOK(Finish(E, ~ r.ok \/ ~ OnTarget))
<1>1. /\ c \in PeerIds /\ probe.client = c /\ PeerOK(v) /\ v.stage = "evaluate"
      /\ v.session = origin[c].session /\ v.probed = probe.session
      /\ E \in BridgeStates /\ BridgeOK(Unprobed(E)) /\ E.probe = probe /\ E.origin = origin
  BY ProbeGoesOnIs DEF Taken
<1>2. v.session \in {0, v.probed}
  BY <1>1 DEF PeerOK, PeerServes
<1>3. (~ r.ok \/ ~ OnTarget) \in BOOLEAN
  OBVIOUS
<1> QED BY <1>1, <1>2, <1>3, FinishKeeps

\* What a probe was told changes no connection.
LEMMA ToldKeeps ==
    ASSUME NEW e, BridgeOK(e), NEW x \in BOOLEAN, ~ e.ledger.mistaken => ~ x
    PROVE  BridgeOK([e EXCEPT !.ledger.lied = x])
<1> DEFINE g == [e EXCEPT !.ledger.lied = x]
           l == [e.ledger EXCEPT !.lied = x]
<1>1. e \in BridgeStates /\ e.ledger \in Ledgers
  BY BridgeParts DEF BridgeOK
<1>2. /\ l \in Ledgers /\ l.ids = e.ledger.ids /\ l.attached = e.ledger.attached /\ l.links = e.ledger.links
      /\ l.mistaken = e.ledger.mistaken /\ l.lied = x
  BY <1>1 DEF Ledgers
<1>3. g = [e EXCEPT !.ledger = l]
  BY <1>1 DEF BridgeStates
<1> HIDE DEF g, l
<1>4. /\ g \in BridgeStates /\ g.origin = e.origin /\ g.await = e.await /\ g.attachment = e.attachment
      /\ g.probe = e.probe /\ g.browser = e.browser /\ g.ledger = l
  BY <1>1, <1>2, <1>3 DEF BridgeStates
<1>5. \A c : PeerView(g, c) = PeerView(e, c)
  <2>1. \A c : PendingOf(g, c) = PendingOf(e, c) /\ ReadyOf(g, c) = ReadyOf(e, c)
                /\ AttachedOf(g, c) = AttachedOf(e, c)
    BY <1>4 DEF PendingOf, ReadyOf, AttachedOf
  <2> QED BY <1>2, <1>4, <2>1 DEF PeerView
<1>6. PeersApart(g)
  BY <1>2, <1>4, <1>5 DEF BridgeOK, PeersApart, EndsNamed
<1>7. BridgeOK(g)
  BY <1>4, <1>5, <1>6 DEF BridgeOK
<1> QED BY <1>7 DEF g

\* The release at the end: the probe is over.
LEMMA ReleaseKeeps ==
    ASSUME NEW r, NEW E, NEW c, NEW v, ProbeGoesOn(r, E, c, v), probe.stage = "release"
    PROVE  LET told == ~ probe.failed /\ ~ ReleaseFails(E, r) IN
           BridgeOK([AfterRelease(E, r) EXCEPT !.probe = NoProbe,
                        !.ledger.lied = @ \/ (told /\ probe.session \in browser[probe.client].live)])
<1> DEFINE A == AfterRelease(E, r)
           told == ~ probe.failed /\ ~ ReleaseFails(E, r)
           x == ledger.lied \/ (told /\ probe.session \in browser[probe.client].live)
<1>1. /\ c \in PeerIds /\ probe.client = c /\ PeerOK(v) /\ r \in v.ready /\ v.stage = "release" /\ v \in PeerViews
      /\ v.probed = probe.session /\ v.failed = probe.failed /\ r.by = "probe"
  BY ProbeGoesOnIs DEF ProbeGoesOn
<1>2. /\ A \in BridgeStates /\ A.ledger = ledger /\ BridgeOK(Unprobed(A))
      /\ ~ ReleaseFails(E, r) => ledger.mistaken \/ r.session \notin browser[c].live
  BY AfterReleaseKeeps DEF ProbeGoesOn
<1>3. ~ probe.failed => r.session = probe.session
  BY <1>1 DEF PeerOK, PeerServes
<1>4. ~ ledger.mistaken => ~ ledger.lied
  BY SharedHolds, BridgeIs DEF Shared, ProbeGoesOn
<1>5. ~ ledger.mistaken => ~ x
  BY <1>1, <1>2, <1>3, <1>4
<1>6. Unprobed(A).ledger = ledger
  BY <1>2, UnprobedIs
<1>7. BridgeOK([Unprobed(A) EXCEPT !.ledger.lied = x])
  BY <1>2, <1>5, <1>6, ToldKeeps
<1> HIDE DEF A, told
<1>8. [A EXCEPT !.probe = NoProbe, !.ledger.lied = @ \/ (told /\ probe.session \in browser[probe.client].live)]
      = [Unprobed(A) EXCEPT !.ledger.lied = x]
  BY <1>2 DEF Unprobed, BridgeStates
<1> QED BY <1>7, <1>8 DEF A, told

\* A continuation runs.
LEMMA ContinueKeeps ==
    ASSUME BridgeOK(Bridge), Continue
    PROVE  BridgeOK(Bridge')
<1> DEFINE r == Head(await.ready)
           E == [Bridge EXCEPT !.await.ready = Tail(@)]
           c == r.client
           v == PeerView(Bridge, c)
           G == IF r.by = "probe" THEN GoOn(E, r) ELSE AfterRelease(E, r)
<1>1. await.ready # <<>> /\ Becomes(G)
  BY DEF Continue, Calm
<1>2. BridgeOK(G)
  <2>1. CASE r.by = "probe"
    <3>1. ProbeGoesOn(r, E, c, v)
      BY <1>1, <2>1 DEF ProbeGoesOn
    <3>2. /\ probe.client = c
          /\ probe.stage \in {"leftover", "targets", "attach", "evaluate", "release"}
      BY <1>1, <2>1, BridgeIs, BridgeParts, AnswerIs DEF BridgeOK, ProbeStages
    <3> HIDE DEF r, E, c, v
    <3>3. G = GoOn(E, r)
      BY <2>1
    <3>4. CASE probe.stage = "leftover"
      <4>1. BridgeOK(IF ReleaseFails(E, r) THEN Finish(E, TRUE) ELSE AskTargets(AfterRelease(E, r), c))
        BY <3>1, <3>4, LeftoverKeeps
      <4>2. G = IF ReleaseFails(E, r) THEN Finish(E, TRUE) ELSE AskTargets(AfterRelease(E, r), c)
        BY <3>2, <3>3, <3>4 DEF GoOn
      <4> QED BY <4>1, <4>2
    <3>5. CASE probe.stage = "targets"
      <4>1. BridgeOK(IF r.ok THEN Step(E, c, "attach", "attach", 0) ELSE Finish(E, TRUE))
        BY <3>1, <3>5, TargetsKeep
      <4>2. G = IF r.ok THEN Step(E, c, "attach", "attach", 0) ELSE Finish(E, TRUE)
        BY <3>2, <3>3, <3>5 DEF GoOn
      <4> QED BY <4>1, <4>2
    <3>6. CASE probe.stage = "attach"
      <4>1. BridgeOK(IF r.ok THEN Probed(E, c, r) ELSE Finish(E, TRUE))
        BY <3>1, <3>6, AttachKeeps
      <4>2. G = IF r.ok THEN Probed(E, c, r) ELSE Finish(E, TRUE)
        BY <3>2, <3>3, <3>6 DEF GoOn
      <4> QED BY <4>1, <4>2
    <3>7. CASE probe.stage = "evaluate"
      BY <3>1, <3>3, <3>7, EvaluateKeeps DEF GoOn
    <3>8. CASE probe.stage = "release"
      <4> DEFINE told == ~ probe.failed /\ ~ ReleaseFails(E, r)
                 H == [AfterRelease(E, r) EXCEPT !.probe = NoProbe,
                          !.ledger.lied = @ \/ (told /\ probe.session \in browser[probe.client].live)]
      <4>1. BridgeOK(H)
        BY <3>1, <3>8, ReleaseKeeps
      <4>2. G = H
        BY <3>3, <3>8 DEF GoOn
      <4> QED BY <4>1, <4>2
    <3> QED BY <3>2, <3>4, <3>5, <3>6, <3>7, <3>8
  <2>2. CASE r.by # "probe"
    BY <1>1, <2>2, AnswerIs, AfterReleaseKeeps DEF Askers
  <2> QED BY <2>1, <2>2
<1> HIDE DEF G
<1>3. Bridge' = G
  BY <1>1, <1>2 DEF Becomes, Bridge, BridgeOK, BridgeStates
<1> QED BY <1>2, <1>3

-----------------------------------------------------------------------------
(* Probes begin, and their commands fail                                    *)

\* The state a step ends in.
LEMMA BecomesIs ==
    ASSUME NEW G, G \in BridgeStates, Becomes(G)
    PROVE  Bridge' = G
  BY DEF Becomes, Bridge, BridgeStates

\* What only counts.
Recounts(e, g) ==
    /\ g.origin = e.origin /\ g.await = e.await /\ g.attachment = e.attachment /\ g.browser = e.browser
    /\ g.ledger.ids = e.ledger.ids /\ g.ledger.attached = e.ledger.attached
    /\ g.ledger.links = e.ledger.links
    /\ g.ledger.lied = e.ledger.lied /\ g.ledger.mistaken = e.ledger.mistaken
    /\ g.probe = e.probe \/ (e.probe.stage = "none" /\ g.probe.stage = "none")

\* Counting, and asking for a probe that has not begun, leaves the bridge as it is.
LEMMA RecountsKeeps ==
    ASSUME NEW e, BridgeOK(e), NEW g \in BridgeStates, Recounts(e, g)
    PROVE  BridgeOK(g)
<1>1. e \in BridgeStates /\ Shared(e) /\ PeersApart(e)
  BY SharedHolds DEF BridgeOK
<1>2. \A c : PendingOf(g, c) = PendingOf(e, c) /\ ReadyOf(g, c) = ReadyOf(e, c)
              /\ AttachedOf(g, c) = AttachedOf(e, c)
  BY DEF PendingOf, ReadyOf, AttachedOf, Recounts
<1>3. ASSUME NEW c \in PeerIds
      PROVE  /\ PeerOK(PeerView(g, c))
             /\ \A i : PeerUses(PeerView(g, c), i) <=> PeerUses(PeerView(e, c), i)
  <2> DEFINE v == PeerView(e, c)
             w == PeerView(g, c)
  <2>1. v \in PeerViews /\ w \in PeerViews /\ PeerOK(v)
    BY <1>1, <1>3, ViewType DEF BridgeOK
  <2>2. SameOrigin(v, w) /\ SameBrowser(v, w)
    BY ViewOf DEF Recounts, SameOrigin, SameBrowser
  <2>3. SameAwait(v, w)
    BY <1>2, ViewOf DEF SameAwait
  <2>4. w.stage = v.stage
    BY ViewOf DEF Recounts
  <2>5. v.stage # "none" => w.probed = v.probed /\ w.failed = v.failed
    BY ViewOf DEF Recounts
  <2>6. w.ids = v.ids /\ w.attached = v.attached /\ w.mistaken = v.mistaken
    BY ViewOf DEF Recounts
  <2> HIDE DEF v, w
  <2>7. w.ids >= v.ids /\ w.attached >= v.attached /\ (v.mistaken => w.mistaken)
    BY <2>1, <2>6, PeerType
  <2>8. PeerOK(w)
    BY <2>1, <2>2, <2>3, <2>4, <2>5, <2>7, PeerGrows
  <2>9. \A i : PeerUses(w, i) <=> PeerUses(v, i)
    BY <2>2, <2>3 DEF PeerUses, SameAwait, SameBrowser
  <2> QED BY <2>8, <2>9 DEF v, w
<1>4. EndsNamed(g)
  BY <1>1 DEF Shared, Recounts, EndsNamed
<1>5. PeersApart(g)
  BY <1>1, <1>3, <1>4 DEF Recounts, PeersApart, Shared
<1> QED BY <1>3, <1>5 DEF BridgeOK

\* A probe is asked for.
LEMMA StartKeeps ==
    ASSUME BridgeOK(Bridge), lockState.gen \in Nat, NEW c \in PeerIds, StartProbe(c)
    PROVE  BridgeOK(Bridge')
<1> DEFINE P0 == [NoProbe EXCEPT !.client = c, !.gen = lockState.gen]
           e == [Bridge EXCEPT !.ledger.probes = @ + 1, !.probe = P0]
           s == origin[c].session
           A == [SendTo(e, c, "detach", s, "probe") EXCEPT !.probe.stage = "leftover"]
           B == [e EXCEPT !.probe = NoProbe]
           C == [SendTo(e, c, "targets", 0, "probe") EXCEPT !.probe.stage = "targets"]
           G == IF s # 0 THEN A ELSE IF Outstanding(e, c) THEN B ELSE C
           v == PeerView(Unprobed(e), c)
<1>1. probe.stage = "none" /\ origin[c].open /\ Becomes(G)
  BY DEF StartProbe
<1>2. Bridge \in BridgeStates /\ ledger \in Ledgers /\ ledger.attached \in Nat
  BY SharedHolds, BridgeIs, BridgeParts
<1>3. P0 \in ProbeStates /\ P0.stage = "none" /\ P0.client = c /\ P0.session = 0 /\ P0.failed = FALSE
  <2>1. c \in 0 .. MaxPeerLinks
    BY ProbeSizes DEF PeerIds
  <2> QED BY <2>1 DEF NoProbe, ProbeStates, ProbeStages
<1> HIDE DEF P0
<1>4. /\ e \in BridgeStates /\ e.origin = origin /\ e.await = await /\ e.attachment = attachment
      /\ e.browser = browser /\ e.probe = P0
      /\ e.ledger.ids = ledger.ids /\ e.ledger.attached = ledger.attached /\ e.ledger.links = ledger.links
      /\ e.ledger.lied = ledger.lied /\ e.ledger.mistaken = ledger.mistaken
  <2> DEFINE l == [ledger EXCEPT !.probes = @ + 1]
  <2>1. /\ l \in Ledgers /\ l.ids = ledger.ids /\ l.attached = ledger.attached /\ l.links = ledger.links
        /\ l.lied = ledger.lied /\ l.mistaken = ledger.mistaken
    BY <1>2 DEF Ledgers
  <2>2. e = [Bridge EXCEPT !.ledger = l, !.probe = P0]
    BY <1>2, BridgeIs DEF BridgeStates
  <2> HIDE DEF l, e
  <2>3. /\ e \in BridgeStates /\ e.origin = origin /\ e.await = await /\ e.attachment = attachment
        /\ e.browser = browser /\ e.probe = P0 /\ e.ledger = l
    BY <1>2, <1>3, <2>1, <2>2, BridgeIs DEF BridgeStates
  <2> QED BY <2>1, <2>3
<1> HIDE DEF e
<1>5. BridgeOK(Unprobed(e))
  BY <1>1, <1>4, UnprobedIs, BridgeIs, RecountsKeeps DEF Recounts
<1>6. PeerOK(v) /\ v.session = s /\ v.live = e.browser[c].live /\ v.att = AttachedOf(e, c)
  BY <1>4, <1>5, UnprobedViewed DEF BridgeOK
<1>7. s \in Nat /\ s \in 0 .. ledger.attached
  BY <1>2, <1>4, <1>6, UnprobedViewed DEF PeerOK, PeerSizes
<1>8. e.probe.stage = "none" /\ e.probe.client = c /\ e.origin[c].open
  BY <1>1, <1>3, <1>4
<1>9. ASSUME s # 0
      PROVE  BridgeOK(A)
  <2> DEFINE S == SendTo(e, c, "detach", s, "probe")
             P == [P0 EXCEPT !.stage = "leftover"]
  <2>1. P \in ProbeStates /\ P.stage = "leftover" /\ P.client = c
    BY <1>3 DEF ProbeStates, ProbeStages
  <2> HIDE DEF P, v, s
  <2>2. MayProbe(v, P, s)
    BY <1>6, <1>9, <2>1 DEF MayProbe
  <2>3. StageOp(P.stage) = "detach"
    BY <2>1 DEF StageOp
  <2>4. BridgeOK([S EXCEPT !.probe = P])
    BY <1>4, <1>5, <1>7, <1>8, <2>1, <2>2, <2>3, ProbeSends DEF v
  <2>5. S.probe = P0
    BY <1>4, <1>7, SendToIs DEF ProbeOps, Askers
  <2> HIDE DEF S
  <2>6. [S EXCEPT !.probe.stage = "leftover"] = [S EXCEPT !.probe = P]
    BY <2>5 DEF P
  <2> QED BY <2>4, <2>6 DEF S
<1>10. BridgeOK(B)
  BY <1>5 DEF Unprobed
<1>11. ASSUME s = 0, ~ Outstanding(e, c)
       PROVE  BridgeOK(C)
  <2> DEFINE S == SendTo(e, c, "targets", 0, "probe")
             P == [P0 EXCEPT !.stage = "targets"]
  <2>1. P \in ProbeStates /\ P.stage = "targets" /\ P.client = c
    BY <1>3 DEF ProbeStates, ProbeStages
  <2>20. v.att = {}
    BY <1>4, <1>6, <1>11, NotOutstanding
  <2>21. v.mistaken \/ v.live = {}
    <3> SUFFICES ASSUME ~ v.mistaken, NEW x \in v.live PROVE FALSE
      OBVIOUS
    <3>1. v.session = x
      BY <1>6, <2>20 DEF PeerOK, PeerFaithful
    <3>2. x \in 1 .. v.attached
      BY <1>6 DEF PeerOK, PeerSizes
    <3> HIDE DEF v
    <3>3. x # 0
      BY <3>2
    <3> QED BY <1>6, <1>11, <3>1, <3>3
  <2> HIDE DEF P, v, s
  <2>2. MayProbe(v, P, 0)
    BY <1>6, <2>1, <2>20, <2>21 DEF MayProbe
  <2>3. StageOp(P.stage) = "targets"
    BY <2>1 DEF StageOp
  <2>30. 0 \in 0 .. e.ledger.attached
    BY <1>2, <1>4
  <2>4. BridgeOK([S EXCEPT !.probe = P])
    BY <1>4, <1>5, <1>8, <2>1, <2>2, <2>3, <2>30, ProbeSends DEF v
  <2>5. S.probe = P0
    <3>1. 0 \in Nat /\ "targets" \in ProbeOps /\ "probe" \in Askers
      BY DEF ProbeOps, Askers
    <3>2. S.probe = e.probe
      BY <1>4, <3>1, SendToIs
    <3> QED BY <1>4, <3>2
  <2> HIDE DEF S
  <2>6. [S EXCEPT !.probe.stage = "targets"] = [S EXCEPT !.probe = P]
    BY <2>5 DEF P
  <2> QED BY <2>4, <2>6 DEF S
<1> HIDE DEF A, B, C, s
<1>12. BridgeOK(G)
  BY <1>9, <1>10, <1>11
<1>13. Bridge' = G
  BY <1>1, <1>12, BecomesIs DEF BridgeOK
<1> HIDE DEF G
<1> QED BY <1>12, <1>13

\* The release of what an event or a late reply brought.
LEMMA ScheduleKeeps ==
    ASSUME NEW e, BridgeOK(e), NEW c \in PeerIds
    PROVE  BridgeOK(ScheduleRelease(e, c))
<1> DEFINE s == e.origin[c].session
           g == SendTo(e, c, "detach", s, "background")
           p == Sent(e, c, "detach", s, "background")
           v == PeerView(e, c)
           w == PeerView(g, c)
<1>1. e \in BridgeStates /\ PeerOK(v) /\ s \in Nat
  BY SharedHolds, PeerParts
<1>2. CASE \/ e.probe.stage # "none" /\ e.probe.client = c
           \/ \E q \in e.await.pending : q.client = c /\ q.op = "detach"
           \/ e.origin[c].session = 0
  BY <1>2 DEF ScheduleRelease
<1>3. ASSUME ~ (\/ e.probe.stage # "none" /\ e.probe.client = c
                \/ \E q \in e.await.pending : q.client = c /\ q.op = "detach"
                \/ e.origin[c].session = 0)
      PROVE  BridgeOK(g)
  <2>1. g \in BridgeStates /\ Sends(e, g, c, p) /\ g.probe = e.probe /\ p \in ProbeRequests
    BY <1>1, SendToIs DEF ProbeOps, Askers
  <2>2. p.client = c /\ p.session = s /\ p.op = "detach" /\ p.by = "background"
    BY DEF Sent
  <2> HIDE DEF g, p
  <2>3. v.stage = "none" /\ w.stage = "none"
    BY <1>3, <2>1, ViewOf
  <2>4. v.session = s /\ s # 0
    BY <1>3, ViewOf
  <2>5. v.open
    BY <1>1, <2>4 DEF PeerOK, PeerShut
  <2>6. s \in 0 .. e.ledger.attached
    BY <1>1, <2>4, ViewOf DEF PeerOK, PeerSizes
  <2> HIDE DEF v, w, s
  <2>7. MaySend(v, w, p)
    BY <2>2, <2>3, <2>4, <2>5 DEF MaySend
  <2>8. p.session \in 0 .. e.ledger.attached
    BY <2>2, <2>6
  <2> QED BY <2>1, <2>2, <2>7, <2>8, SendsKeeps DEF v, w
<1> QED BY <1>2, <1>3 DEF ScheduleRelease

\* The outcomes of commands without reply.
Silence(ps) == {Unreplied(p) : p \in ps}

\* They are finitely many outcomes, of the commands they are of.
LEMMA SilenceIs ==
    ASSUME NEW ps \in SUBSET ProbeRequests, IsFiniteSet(ps)
    PROVE  /\ Silence(ps) \in SUBSET Outcomes /\ IsFiniteSet(Silence(ps))
           /\ \A x \in Silence(ps) : \E p \in ps : x = Unreplied(p)
           /\ \A p \in ps : Unreplied(p) \in Silence(ps)
<1>1. \A p \in ps : Unreplied(p) \in Outcomes
  BY DEF Unreplied, Outcomes, ProbeRequests
<1>2. \A p \in ps : Unreplied(p) \in Silence(ps)
  BY DEF Silence
<1>3. \A x \in Silence(ps) : \E p \in ps : x = Unreplied(p)
  BY DEF Silence
<1>4. IsFiniteSet(Silence(ps))
  <2> DEFINE m == [p \in ps |-> Unreplied(p)]
  <2>1. m \in [ps -> Silence(ps)]
    BY <1>2
  <2>2. \A t \in Silence(ps) : \E p \in ps : m[p] = t
    BY <1>3
  <2> QED BY <2>1, <2>2, ReachedFinite
<1>5. Silence(ps) \in SUBSET Outcomes
  BY <1>1, <1>3
<1> QED BY <1>2, <1>3, <1>4, <1>5

\* What commands without reply change.
GivesUp(e, g, ps) ==
    /\ g.origin = e.origin /\ g.attachment = e.attachment /\ g.browser = e.browser
    /\ g.probe = e.probe /\ g.ledger = e.ledger
    /\ g.await.pending = e.await.pending \ ps
    /\ PeerMore(e.await.ready, g.await.ready, Silence(ps))

\* So it does.
LEMMA UnansweredIs ==
    ASSUME NEW e \in BridgeStates, NEW ps \in SUBSET e.await.pending, IsFiniteSet(ps)
    PROVE  Unanswered(e, ps) \in BridgeStates /\ GivesUp(e, Unanswered(e, ps), ps)
<1> DEFINE g == Unanswered(e, ps)
           q == e.await.ready \o SetToSeq(Silence(ps))
<1>1. /\ e.await \in [pending : SUBSET ProbeRequests, ready : Seq(Outcomes)]
      /\ e.await.pending \in SUBSET ProbeRequests /\ e.await.ready \in Seq(Outcomes)
  BY BridgeParts
<1>2. Silence(ps) \in SUBSET Outcomes /\ IsFiniteSet(Silence(ps))
  BY <1>1, SilenceIs
<1>3. q \in Seq(Outcomes) /\ PeerMore(e.await.ready, q, Silence(ps))
  BY <1>1, <1>2, SetIsMore
<1>4. g = [e EXCEPT !.await.pending = @ \ ps, !.await.ready = q]
  BY DEF Unanswered, Silence, Unreplied
<1> HIDE DEF g, q
<1> DEFINE a == [e.await EXCEPT !.pending = e.await.pending \ ps, !.ready = q]
<1>5. a \in [pending : SUBSET ProbeRequests, ready : Seq(Outcomes)] /\ a.pending = e.await.pending \ ps /\ a.ready = q
  BY <1>1, <1>3
<1>6. g = [e EXCEPT !.await = a]
  BY <1>4 DEF BridgeStates
<1> HIDE DEF a
<1>7. /\ g \in BridgeStates /\ g.origin = e.origin /\ g.attachment = e.attachment /\ g.browser = e.browser
      /\ g.probe = e.probe /\ g.ledger = e.ledger /\ g.await = a
  BY <1>5, <1>6 DEF BridgeStates
<1>8. GivesUp(e, g, ps)
  BY <1>3, <1>5, <1>7 DEF GivesUp
<1> QED BY <1>7, <1>8 DEF g

\* Which outcomes are waiting, then.
LEMMA GivesUpReady ==
    ASSUME NEW e \in BridgeStates, NEW g \in BridgeStates, NEW ps \in SUBSET e.await.pending, GivesUp(e, g, ps),
           IsFiniteSet(ps)
    PROVE  /\ \A k \in DOMAIN e.await.ready : k \in DOMAIN g.await.ready /\ g.await.ready[k] = e.await.ready[k]
           /\ \A k \in DOMAIN g.await.ready :
                 \/ k \in DOMAIN e.await.ready /\ g.await.ready[k] = e.await.ready[k]
                 \/ k \notin DOMAIN e.await.ready /\ \E p \in ps : g.await.ready[k] = Unreplied(p)
           /\ \A j, k \in DOMAIN g.await.ready :
                 j \notin DOMAIN e.await.ready /\ k \notin DOMAIN e.await.ready
                 /\ g.await.ready[j] = g.await.ready[k] => j = k
<1>1. PeerMore(e.await.ready, g.await.ready, Silence(ps))
  BY DEF GivesUp
<1>2. \A x \in Silence(ps) : \E p \in ps : x = Unreplied(p)
  BY BridgeParts, SilenceIs
<1> QED BY <1>1, <1>2 DEF PeerMore

\* Who answers of a probe are for.
LEMMA ProbeAsks ==
    ASSUME NEW e, BridgeOK(e), NEW c \in PeerIds
    PROVE  /\ \A p \in e.await.pending : p.client = c /\ p.by = "probe" =>
                 /\ e.probe.stage # "none" /\ e.probe.client = c /\ p.op = StageOp(e.probe.stage)
           /\ \A k \in DOMAIN e.await.ready : e.await.ready[k].client = c /\ e.await.ready[k].by = "probe" =>
                 /\ e.probe.stage # "none" /\ e.probe.client = c
                 /\ \A p \in e.await.pending : p.client = c => p.by # "probe"
           /\ \A p, q \in e.await.pending : p.client = c /\ q.client = c /\ p.by = "probe" /\ q.by = "probe" => p = q
           /\ \A p \in e.await.pending : p.client = c /\ p.by = "background" => p.op = "detach"
<1> DEFINE v == PeerView(e, c)
<1>1. e \in BridgeStates /\ PeerServes(v)
  BY SharedHolds DEF PeerOK
<1>2. e.await.ready \in Seq(Outcomes)
  BY <1>1, BridgeParts
<1>3. v.pending = PendingOf(e, c) /\ v.ready = ReadyOf(e, c)
  BY ViewOf
<1>4. v.stage # "none" => e.probe.client = c /\ v.stage = e.probe.stage
  BY ViewOf
<1> HIDE DEF v
<1>5. \A p \in e.await.pending : p.client = c => p \in v.pending
  BY <1>3 DEF PendingOf
<1>6. \A k \in DOMAIN e.await.ready : e.await.ready[k].client = c => e.await.ready[k] \in v.ready
  BY <1>2, <1>3 DEF ReadyOf
<1> QED BY <1>1, <1>4, <1>5, <1>6 DEF PeerServes

\* Commands of a connection get no reply.
LEMMA GivesUpKeeps ==
    ASSUME NEW e, BridgeOK(e), NEW c \in PeerIds, NEW ps, ps \in SUBSET PendingOf(e, c),
           NEW g, g = Unanswered(e, ps)
    PROVE  BridgeOK(g)
<1> DEFINE v == PeerView(e, c)
           w == PeerView(g, c)
<1>1. e \in BridgeStates /\ Shared(e) /\ PeerOK(v) /\ v \in PeerViews
  BY SharedHolds
<1>2. ps \in SUBSET e.await.pending /\ (\A p \in ps : p.client = c) /\ IsFiniteSet(ps)
  BY <1>1, FS_Subset DEF PendingOf, Shared
<1>3. g \in BridgeStates /\ GivesUp(e, g, ps)
  BY <1>1, <1>2, UnansweredIs
<1>4. /\ \A k \in DOMAIN e.await.ready : k \in DOMAIN g.await.ready /\ g.await.ready[k] = e.await.ready[k]
      /\ \A k \in DOMAIN g.await.ready :
            \/ k \in DOMAIN e.await.ready /\ g.await.ready[k] = e.await.ready[k]
            \/ k \notin DOMAIN e.await.ready /\ \E p \in ps : g.await.ready[k] = Unreplied(p)
      /\ \A j, k \in DOMAIN g.await.ready :
            j \notin DOMAIN e.await.ready /\ k \notin DOMAIN e.await.ready
            /\ g.await.ready[j] = g.await.ready[k] => j = k
  BY <1>1, <1>2, <1>3, GivesUpReady
<1>5. w \in PeerViews
  BY <1>3, ViewType
<1>6. SameOrigin(v, w) /\ SameBrowser(v, w)
  BY <1>3, ViewOf DEF GivesUp, SameOrigin, SameBrowser
<1>7. SameLedger(v, w) /\ SameProbe(v, w)
  <2>1. g.probe = e.probe /\ g.ledger = e.ledger
    BY <1>3 DEF GivesUp
  <2>2. SameLedger(v, w)
    BY <2>1, ViewOf DEF SameLedger
  <2>3. w.probed = v.probed /\ w.failed = v.failed
    BY <2>1, ViewOf
  <2>4. w.stage = v.stage
    BY <2>1, ViewOf
  <2> HIDE DEF v, w
  <2> QED BY <2>2, <2>3, <2>4 DEF SameProbe
<1>8. w.att = v.att
  <2>1. AttachedOf(g, c) = AttachedOf(e, c)
    BY <1>3 DEF GivesUp, AttachedOf
  <2> QED BY <2>1, ViewOf
<1>9. w.pending = v.pending \ ps
  BY <1>3, ViewOf DEF GivesUp, PendingOf
<1>10. \A p \in ps : Unreplied(p).client = c /\ Unreplied(p).by = p.by /\ Unreplied(p).session = p.session
  BY <1>2 DEF Unreplied
<1>11. \A x \in w.ready : x \in v.ready \/ \E p \in ps : x = Unreplied(p)
  BY <1>4, ViewOf DEF ReadyOf
<1>12. ps \in SUBSET v.pending
  BY ViewOf
<1> HIDE DEF v, w
<1>13. PeerOK(w)
  BY <1>1, <1>5, <1>6, <1>7, <1>8, <1>9, <1>11, <1>12, PeerGivesUp
<1>14. \A i : PeerUses(w, i) => PeerUses(v, i)
  BY <1>6, <1>8, <1>9 DEF PeerUses, SameBrowser
<1>15. Beside(e, g, c)
  BY <1>1, <1>2, <1>3, <1>4, <1>10, BridgeParts DEF GivesUp, Beside
<1>16. \A p \in ps : p.by = "probe" \/ p.by = "background"
  BY <1>1, <1>2, BridgeParts DEF ProbeRequests, Askers
<1>17. EndsNamed(g)
  BY <1>1, <1>2, <1>3, <1>4, <1>10, <1>16, ProbeAsks DEF Shared, StageOp, EndsNamed, GivesUp
<1>18. \A j, k \in DOMAIN g.await.ready :
          g.await.ready[j].by = "probe" /\ g.await.ready[k].by = "probe" => j = k
  <2>1. \A p, q \in ps : p.by = "probe" /\ q.by = "probe" => p = q
    BY <1>2, ProbeAsks
  <2>2. ASSUME NEW j \in DOMAIN e.await.ready, e.await.ready[j].by = "probe", NEW p \in ps, p.by = "probe"
        PROVE  FALSE
    <3> DEFINE x == e.await.ready[j]
               d == x.client
    <3>1. d \in PeerIds
      <4>1. x \in Outcomes
        BY <1>1, <2>2, BridgeParts
      <4> QED BY <4>1 DEF Outcomes
    <3>2. e.probe.client = d /\ \A q \in e.await.pending : q.client = d => q.by # "probe"
      BY <2>2, <3>1, ProbeAsks
    <3>3. e.probe.client = c
      BY <1>2, <2>2, ProbeAsks
    <3> QED BY <1>2, <2>2, <3>2, <3>3
  <2>3. ASSUME NEW j \in DOMAIN g.await.ready, NEW k \in DOMAIN g.await.ready,
               g.await.ready[j].by = "probe", g.await.ready[k].by = "probe"
        PROVE  j = k
    BY <1>1, <1>4, <1>10, <2>1, <2>2, <2>3 DEF Shared
  <2> QED BY <2>3
<1>19. IsFiniteSet(g.await.pending)
  BY <1>1, <1>3, FS_Subset DEF GivesUp, Shared
<1>20. Shared(g)
  BY <1>1, <1>3, <1>17, <1>18, <1>19 DEF Shared, GivesUp
<1> QED BY <1>3, <1>13, <1>14, <1>15, <1>20, BridgeMoves DEF v, w

\* A command times out.
LEMMA TimesOutKeeps ==
    ASSUME BridgeOK(Bridge), NEW p \in await.pending, TimesOutProbe(p)
    PROVE  BridgeOK(Bridge')
<1> DEFINE ps == {p}
           c == p.client
           u == Unanswered(Bridge, ps)
           G == [u EXCEPT !.ledger = Troubled(@)]
<1>1. Becomes(G)
  BY DEF TimesOutProbe
<1>2. Bridge \in BridgeStates /\ c \in PeerIds
  BY SharedHolds, BridgeParts, BridgeIs DEF ProbeRequests
<1>3. ps \in SUBSET PendingOf(Bridge, c)
  BY BridgeIs DEF PendingOf
<1> HIDE DEF ps
<1>4. BridgeOK(u)
  BY <1>2, <1>3, GivesUpKeeps
<1> HIDE DEF u
<1>5. u \in BridgeStates /\ u.ledger \in Ledgers
  BY <1>4, SharedHolds, BridgeParts
<1>6. /\ G \in BridgeStates /\ G.origin = u.origin /\ G.await = u.await /\ G.attachment = u.attachment
      /\ G.browser = u.browser /\ G.probe = u.probe /\ G.ledger = Troubled(u.ledger)
  BY <1>5, TroubledIs DEF BridgeStates
<1> HIDE DEF G
<1>7. Recounts(u, G)
  BY <1>5, <1>6, TroubledIs DEF Recounts
<1>8. BridgeOK(G)
  BY <1>4, <1>6, <1>7, RecountsKeeps
<1> QED BY <1>1, <1>6, <1>8, BecomesIs

\* A connection is made.
LEMMA LinkKeeps ==
    ASSUME BridgeOK(Bridge), LinkPeer
    PROVE  BridgeOK(Bridge')
<1> DEFINE c == ledger.links + 1
           v == PeerView(Bridge, c)
           w == PeerView(Bridge', c)
<1>1. /\ await.ready = <<>> /\ ledger.links < MaxPeerLinks
      /\ origin' = [origin EXCEPT ![c].open = TRUE] /\ ledger' = [ledger EXCEPT !.links = c]
      /\ UNCHANGED <<await, attachment, probe, browser>>
  BY DEF LinkPeer, Calm
<1>2. /\ Bridge \in BridgeStates /\ Shared(Bridge)
      /\ origin \in [PeerIds -> Origins] /\ ledger \in Ledgers
      /\ await \in [pending : SUBSET ProbeRequests, ready : Seq(Outcomes)]
      /\ attachment \in SUBSET Attachments /\ probe \in ProbeStates
      /\ browser \in [PeerIds -> Browsers]
  BY SharedHolds, BridgeParts, BridgeIs
<1>3. c \in PeerIds /\ c \in 0 .. MaxPeerLinks /\ ledger.links \in Nat /\ c > ledger.links
  BY <1>1, <1>2, ProbeSizes DEF Ledgers, PeerIds
<1> HIDE DEF c
<1>4. /\ ledger' \in Ledgers /\ ledger'.ids = ledger.ids /\ ledger'.attached = ledger.attached
      /\ ledger'.lied = ledger.lied /\ ledger'.mistaken = ledger.mistaken /\ ledger'.links = c
  BY <1>1, <1>2, <1>3 DEF Ledgers
<1>5. /\ origin' \in [PeerIds -> Origins] /\ origin'[c].open = TRUE
      /\ origin'[c].session = origin[c].session /\ origin'[c].retired = origin[c].retired
      /\ \A d \in PeerIds : d # c => origin'[d] = origin[d]
  BY <1>1, <1>2, <1>3 DEF Origins
<1>6. Bridge' \in BridgeStates
  BY <1>1, <1>2, <1>4, <1>5 DEF Bridge, BridgeStates
<1>7. PeerOK(v) /\ v \in PeerViews /\ w \in PeerViews
  BY <1>2, <1>3, <1>6, ViewType, SharedHolds
<1>8. /\ Bridge'.origin = origin' /\ Bridge'.await = await /\ Bridge'.attachment = attachment
      /\ Bridge'.probe = probe /\ Bridge'.browser = browser /\ Bridge'.ledger = ledger'
      /\ Bridge.origin = origin /\ Bridge.await = await /\ Bridge.attachment = attachment
      /\ Bridge.probe = probe /\ Bridge.browser = browser /\ Bridge.ledger = ledger
  BY <1>1, BridgeIs
<1>9. w.open
  BY <1>5, <1>8, ViewOf
<1>10. w.session = v.session /\ w.retired = v.retired
  BY <1>5, <1>8, ViewOf
<1>11. SameAwait(v, w)
  <2>1. /\ PendingOf(Bridge', c) = PendingOf(Bridge, c) /\ ReadyOf(Bridge', c) = ReadyOf(Bridge, c)
        /\ AttachedOf(Bridge', c) = AttachedOf(Bridge, c)
    BY <1>8 DEF PendingOf, ReadyOf, AttachedOf
  <2> QED BY <2>1, ViewOf DEF SameAwait
<1>12. SameBrowser(v, w)
  BY <1>8, ViewOf DEF SameBrowser
<1>13. SameProbe(v, w)
  <2>1. w.probed = v.probed /\ w.failed = v.failed
    BY <1>8, ViewOf
  <2>2. w.stage = v.stage
    BY <1>8, ViewOf
  <2> HIDE DEF v, w
  <2> QED BY <2>1, <2>2 DEF SameProbe
<1>14. SameLedger(v, w)
  BY <1>4, <1>8, ViewOf DEF SameLedger
<1> HIDE DEF v, w
<1>15. PeerOK(w)
  BY <1>7, <1>9, <1>10, <1>11, <1>12, <1>13, <1>14, PeerLinks
<1>16. \A i : PeerUses(w, i) => PeerUses(v, i)
  BY <1>11, <1>12 DEF PeerUses, SameAwait, SameBrowser
<1>17. Beside(Bridge, Bridge', c)
  BY <1>2, <1>4, <1>5, <1>8 DEF Ledgers, Beside
<1>18. Shared(Bridge')
  BY <1>2, <1>3, <1>4, <1>5, <1>8, ProbeSizes DEF Shared, EndsNamed, PeerIds
<1> QED BY <1>3, <1>6, <1>15, <1>16, <1>17, <1>18, BridgeMoves DEF v, w

\* A connection is removed.
LEMMA UnlinkKeeps ==
    ASSUME BridgeOK(Bridge), NEW c \in PeerIds, UnlinkPeer(c)
    PROVE  BridgeOK(Bridge')
<1> DEFINE B == [live |-> {}, foreign |-> {}, owed |-> <<>>, out |-> <<>>, in |-> <<>>]
           e == [Bridge EXCEPT !.origin[c] = NoProbePeer, !.ledger = Troubled(@),
                    !.attachment = {a \in @ : a.client # c},
                    !.browser[c] = B]
           ps == {p \in await.pending : p.client = c}
           G == Unanswered(e, ps)
           v == PeerView(Bridge, c)
           w == PeerView(G, c)
           l == Troubled(ledger)
<1>1. await.ready = <<>> /\ Becomes(G)
  BY DEF Bridge, UnlinkPeer, Calm
<1>2. /\ Bridge \in BridgeStates /\ Shared(Bridge) /\ PeerOK(v) /\ v \in PeerViews
      /\ origin \in [PeerIds -> Origins] /\ ledger \in Ledgers
      /\ await \in [pending : SUBSET ProbeRequests, ready : Seq(Outcomes)]
      /\ attachment \in SUBSET Attachments /\ probe \in ProbeStates
      /\ browser \in [PeerIds -> Browsers]
  BY SharedHolds, BridgeParts, BridgeIs
<1>3. B \in Browsers /\ NoProbePeer \in Origins /\ NoProbePeer.open = FALSE /\ NoProbePeer.session = 0 /\ NoProbePeer.retired = {}
  BY DEF Browsers, Origins, NoProbePeer
<1>4. /\ B.live = {} /\ B.foreign = {} /\ B.owed = <<>> /\ B.out = <<>> /\ B.in = <<>>
  OBVIOUS
<1> HIDE DEF B
<1>5. /\ l \in Ledgers /\ l.ids = ledger.ids /\ l.attached = ledger.attached /\ l.links = ledger.links
      /\ l.lied = ledger.lied /\ l.mistaken = ledger.mistaken
  BY <1>2, TroubledIs
<1>6. /\ e \in BridgeStates /\ e.await = await /\ e.probe = probe /\ e.ledger = l
      /\ e.attachment = {a \in attachment : a.client # c}
      /\ e.origin = [origin EXCEPT ![c] = NoProbePeer] /\ e.browser = [browser EXCEPT ![c] = B]
  <2> DEFINE o == [origin EXCEPT ![c] = NoProbePeer]
             b == [browser EXCEPT ![c] = B]
             t == {a \in attachment : a.client # c}
  <2>1. o \in [PeerIds -> Origins] /\ b \in [PeerIds -> Browsers] /\ t \in SUBSET Attachments
    BY <1>2, <1>3
  <2>2. e = [Bridge EXCEPT !.origin = o, !.ledger = l, !.attachment = t, !.browser = b]
    BY <1>2, BridgeIs DEF BridgeStates
  <2> HIDE DEF o, b, t, e, l
  <2>3. /\ e \in BridgeStates /\ e.await = await /\ e.probe = probe /\ e.ledger = l
        /\ e.attachment = t /\ e.origin = o /\ e.browser = b
    BY <1>2, <1>5, <2>1, <2>2, BridgeIs DEF BridgeStates
  <2> QED BY <2>3 DEF o, b, t
<1> HIDE DEF e, l
<1>7. ps \in SUBSET e.await.pending /\ IsFiniteSet(ps) /\ ps \in SUBSET ProbeRequests /\ \A p \in ps : p.client = c
  BY <1>2, <1>6, BridgeIs, FS_Subset DEF Shared
<1>8. G \in BridgeStates /\ GivesUp(e, G, ps)
  BY <1>6, <1>7, UnansweredIs
<1>9. /\ \A k \in DOMAIN G.await.ready : \E p \in ps : G.await.ready[k] = Unreplied(p)
      /\ \A j, k \in DOMAIN G.await.ready : G.await.ready[j] = G.await.ready[k] => j = k
  <2>1. DOMAIN e.await.ready = {}
    BY <1>1, <1>6
  <2>2. /\ \A k \in DOMAIN G.await.ready :
              \/ k \in DOMAIN e.await.ready /\ G.await.ready[k] = e.await.ready[k]
              \/ k \notin DOMAIN e.await.ready /\ \E p \in ps : G.await.ready[k] = Unreplied(p)
        /\ \A j, k \in DOMAIN G.await.ready :
              j \notin DOMAIN e.await.ready /\ k \notin DOMAIN e.await.ready
              /\ G.await.ready[j] = G.await.ready[k] => j = k
    <3> HIDE DEF ps, G
    <3> QED BY <1>6, <1>7, <1>8, GivesUpReady
  <2> HIDE DEF ps, G
  <2> QED BY <2>1, <2>2
<1> HIDE DEF G
<1>10. /\ G.origin = [origin EXCEPT ![c] = NoProbePeer] /\ G.browser = [browser EXCEPT ![c] = B]
       /\ G.attachment = {a \in attachment : a.client # c} /\ G.probe = probe /\ G.ledger = l
       /\ G.await.pending = await.pending \ ps
  BY <1>6, <1>8 DEF GivesUp
<1>11. /\ G.origin[c] = NoProbePeer /\ G.browser[c] = B
       /\ \A d \in PeerIds : d # c => G.origin[d] = origin[d] /\ G.browser[d] = browser[d]
  BY <1>2, <1>10
<1>12. w \in PeerViews
  BY <1>8, ViewType
<1>13. w.session = 0 /\ w.retired = {}
  BY <1>3, <1>11, ViewOf
<1>14. w.live = {} /\ w.foreign = {} /\ w.owed = <<>> /\ w.out = <<>> /\ w.in = <<>>
  BY <1>4, <1>11, ViewOf
<1>15. w.pending = {}
  BY <1>10, ViewOf DEF PendingOf
<1>16. w.att = {}
  BY <1>10, ViewOf DEF AttachedOf
<1>17. SameProbe(v, w)
  <2>1. w.probed = v.probed /\ w.failed = v.failed
    BY <1>10, ViewOf, BridgeIs
  <2>2. w.stage = v.stage
    BY <1>10, ViewOf, BridgeIs
  <2> HIDE DEF v, w
  <2> QED BY <2>1, <2>2 DEF SameProbe
<1>18. SameLedger(v, w)
  BY <1>5, <1>10, ViewOf, BridgeIs DEF SameLedger
<1>19. v.ready = {}
  BY <1>1, BridgeIs, ViewOf DEF ReadyOf
<1>20. \A x \in w.ready : \E p \in v.pending : x = Unreplied(p)
  BY <1>9, ViewOf, BridgeIs DEF PendingOf, ReadyOf
<1> HIDE DEF v, w
<1>21. PeerOK(w)
  BY <1>2, <1>12, <1>13, <1>14, <1>15, <1>16, <1>17, <1>18, <1>19, <1>20, PeerUnlinks
<1>22. \A i : ~ PeerUses(w, i)
  BY <1>14, <1>15, <1>16 DEF PeerUses
<1>23. Beside(Bridge, G, c)
  <2>1. \A p : p.client # c => (p \in G.await.pending <=> p \in await.pending)
    BY <1>7, <1>10
  <2>2. \A x \in Outcomes : x.client # c =>
          ((\E k \in DOMAIN G.await.ready : G.await.ready[k] = x) <=>
           \E k \in DOMAIN await.ready : await.ready[k] = x)
    <3>1. DOMAIN await.ready = {}
      BY <1>1
    <3>2. \A p \in ps : Unreplied(p).client = c
      BY <1>7 DEF Unreplied
    <3> QED BY <1>9, <3>1, <3>2
  <2>3. G.ledger.ids >= ledger.ids /\ G.ledger.attached >= ledger.attached
    BY <1>2, <1>5, <1>10 DEF Ledgers
  <2>4. \A a : a.client # c => (a \in G.attachment <=> a \in attachment)
    BY <1>10
  <2>5. /\ G.probe = Bridge.probe
        /\ Bridge.ledger.mistaken => G.ledger.mistaken
        /\ \A d \in PeerIds : d # c => G.origin[d] = Bridge.origin[d] /\ G.browser[d] = Bridge.browser[d]
    BY <1>5, <1>10, <1>11, BridgeIs
  <2>6. Bridge.await = await /\ Bridge.attachment = attachment /\ Bridge.ledger = ledger
    BY BridgeIs
  <2> QED BY <2>1, <2>2, <2>3, <2>4, <2>5, <2>6 DEF Beside
<1>24. Shared(G)
  <2>1. \A p \in ps : p.by = "probe" \/ p.by = "background"
    BY <1>7 DEF ProbeRequests, Askers
  <2>2. \A p \in ps : Unreplied(p).by = p.by /\ Unreplied(p).session = p.session
    BY DEF Unreplied
  <2>3. /\ \A p \in ps : p.by = "background" => p.op = "detach"
        /\ \A p \in ps : p.by = "probe" => p.op = StageOp(probe.stage)
        /\ \A p, q \in ps : p.by = "probe" /\ q.by = "probe" => p = q
    BY <1>7, ProbeAsks, BridgeIs
  <2>4. EndsNamed(G)
    BY <1>2, <1>9, <1>10, <2>1, <2>2, <2>3, BridgeIs DEF Shared, EndsNamed, StageOp
  <2>5. \A j, k \in DOMAIN G.await.ready : G.await.ready[j].by = "probe" /\ G.await.ready[k].by = "probe" => j = k
    BY <1>9, <2>2, <2>3
  <2>6. IsFiniteSet(G.await.pending)
    BY <1>2, <1>10, BridgeIs, FS_Subset DEF Shared
  <2>7. \A d \in PeerIds : d > ledger.links => ~ G.origin[d].open
    BY <1>2, <1>3, <1>11, BridgeIs DEF Shared
  <2>8. /\ probe.stage # "none" => probe.client \in 1 .. ledger.links
        /\ ~ ledger.mistaken => ~ ledger.lied
    BY <1>2, BridgeIs DEF Shared
  <2> QED BY <1>5, <1>10, <2>4, <2>5, <2>6, <2>7, <2>8 DEF Shared
<1>25. BridgeOK(G)
  BY <1>8, <1>21, <1>22, <1>23, <1>24, BridgeMoves DEF v, w
<1> QED BY <1>1, <1>8, <1>25, BecomesIs DEF G

-----------------------------------------------------------------------------
(* Frames are heard                                                         *)

\* The first frame of connection c is taken.
Reads(e, g, c) ==
    /\ g.browser[c].in = Tail(e.browser[c].in)
    /\ g.browser[c].live = e.browser[c].live /\ g.browser[c].foreign = e.browser[c].foreign
    /\ g.browser[c].owed = e.browser[c].owed /\ g.browser[c].out = e.browser[c].out
    /\ \A d \in PeerIds : d # c => g.browser[d] = e.browser[d]
    /\ g.ledger.ids = e.ledger.ids /\ g.ledger.attached = e.ledger.attached
    /\ g.ledger.links = e.ledger.links /\ g.ledger.lied = e.ledger.lied

\* What the connection is like then.
LEMMA ReadsViewed ==
    ASSUME NEW e \in BridgeStates, NEW g, NEW c \in PeerIds, e.browser[c].in # <<>>, Reads(e, g, c)
    PROVE  /\ PeerReads(PeerView(e, c), PeerView(g, c))
           /\ PeerView(e, c).in[1] = Head(e.browser[c].in) /\ Head(e.browser[c].in) \in PeerFrames
           /\ 1 \in DOMAIN PeerView(e, c).in
<1> DEFINE v == PeerView(e, c)
           w == PeerView(g, c)
           q == e.browser[c].in
<1>1. q \in Seq(PeerFrames)
  BY PeerParts
<1>2. Head(q) = q[1] /\ q[1] \in PeerFrames /\ PeerRest(q, Tail(q))
  BY <1>1, TailIsRest
<1>3. v.in = q /\ w.in = Tail(q)
  BY ViewOf DEF Reads
<1>4. w.live = v.live /\ w.foreign = v.foreign /\ w.owed = v.owed /\ w.out = v.out
  BY ViewOf DEF Reads
<1>5. w.ids = v.ids /\ w.attached = v.attached
  BY ViewOf DEF Reads
<1> HIDE DEF v, w, q
<1>6. PeerReads(v, w) /\ v.in[1] = Head(q) /\ Head(q) \in PeerFrames
  BY <1>2, <1>3, <1>4, <1>5 DEF PeerReads
<1>7. 1 \in DOMAIN v.in
  BY <1>2, <1>3 DEF PeerRest
<1> QED BY <1>6, <1>7 DEF v, w, q

\* Reading it changes nothing for the other connections.
LEMMA ReadsBeside ==
    ASSUME NEW e \in BridgeStates, NEW g, NEW c, Reads(e, g, c)
    PROVE  /\ \A d \in PeerIds : d # c => g.browser[d] = e.browser[d]
           /\ g.ledger.ids >= e.ledger.ids /\ g.ledger.attached >= e.ledger.attached
<1>1. e.ledger.ids \in Nat /\ e.ledger.attached \in Nat
  BY BridgeParts
<1> QED BY <1>1 DEF Reads

\* No command more is in use, but for those of the bridge itself.
LEMMA ReadsUses ==
    ASSUME NEW v, NEW w, PeerReads(v, w), NEW i, PeerUses(w, i),
           \A p \in w.pending : p \in v.pending, \A b \in w.att : \E a \in v.att : b.id = a.id
    PROVE  PeerUses(v, i)
<1>1. \A k \in DOMAIN w.in : k + 1 \in DOMAIN v.in /\ w.in[k] = v.in[k + 1]
  BY PeerReadsLess
<1> QED BY <1>1 DEF PeerUses, PeerReads

\* A frame that does not matter.
MayIgnore(v, f) ==
    \/ f.kind = "reply" /\ (\A a \in v.att : a.id # f.id) /\ \A p \in v.pending : p.id # f.id
    \/ f.kind = "attached" /\ (v.att = {} \/ f.session \in v.retired)
    \/ f.kind = "detached" /\ f.session # v.session

\* It is read, and no more.
LEMMA IgnoresKeeps ==
    ASSUME NEW e, BridgeOK(e), NEW g \in BridgeStates, NEW c \in PeerIds, e.browser[c].in # <<>>, Reads(e, g, c),
           g.origin = e.origin, g.await = e.await, g.attachment = e.attachment, g.probe = e.probe,
           g.ledger = e.ledger, MayIgnore(PeerView(e, c), Head(e.browser[c].in))
    PROVE  BridgeOK(g)
<1> DEFINE v == PeerView(e, c)
           w == PeerView(g, c)
           f == Head(e.browser[c].in)
<1>1. e \in BridgeStates /\ Shared(e) /\ PeerOK(v) /\ v \in PeerViews /\ w \in PeerViews
  BY SharedHolds, ViewType
<1>2. PeerReads(v, w) /\ f = v.in[1]
  BY <1>1, ReadsViewed
<1>3. SameOrigin(v, w)
  BY ViewOf DEF SameOrigin
<1>4. SameAwait(v, w)
  <2>1. /\ PendingOf(g, c) = PendingOf(e, c) /\ ReadyOf(g, c) = ReadyOf(e, c)
        /\ AttachedOf(g, c) = AttachedOf(e, c)
    BY DEF PendingOf, ReadyOf, AttachedOf
  <2> QED BY <2>1, ViewOf DEF SameAwait
<1>5. SameProbe(v, w) /\ w.mistaken = v.mistaken
  <2>1. w.probed = v.probed /\ w.failed = v.failed /\ w.mistaken = v.mistaken
    BY ViewOf
  <2>2. w.stage = v.stage
    BY ViewOf
  <2> HIDE DEF v, w
  <2> QED BY <2>1, <2>2 DEF SameProbe
<1> HIDE DEF v, w, f
<1>6. MayIgnore(v, f)
  BY DEF v, f
<1>7. PeerOK(w)
  BY <1>1, <1>2, <1>3, <1>4, <1>5, <1>6, PeerIgnores DEF MayIgnore
<1>8. \A i : PeerUses(w, i) => PeerUses(v, i)
  BY <1>2, <1>4, ReadsUses DEF SameAwait
<1>9. Beside(e, g, c)
  BY <1>1, ReadsBeside DEF Beside
<1>10. Shared(g)
  BY <1>1 DEF Shared, EndsNamed
<1> QED BY <1>7, <1>8, <1>9, <1>10, BridgeMoves DEF v, w

\* The frame that is heard.
Heard(e, f, c) ==
    /\ BridgeOK(Bridge) /\ c \in PeerIds /\ browser[c].in # <<>>
    /\ f = Head(browser[c].in)
    /\ e = [Bridge EXCEPT !.browser[c].in = Tail(@)]

\* The bridge once it is taken.
LEMMA HeardIs ==
    ASSUME NEW e, NEW f, NEW c, Heard(e, f, c)
    PROVE  /\ e \in BridgeStates /\ Reads(Bridge, e, c)
           /\ e.origin = origin /\ e.await = await /\ e.attachment = attachment
           /\ e.probe = probe /\ e.ledger = ledger
           /\ c \in PeerIds /\ f \in PeerFrames /\ f = PeerView(Bridge, c).in[1]
           /\ 1 \in DOMAIN PeerView(Bridge, c).in
           /\ PeerOK(PeerView(Bridge, c)) /\ PeerView(Bridge, c) \in PeerViews
           /\ Bridge \in BridgeStates /\ f = Head(Bridge.browser[c].in) /\ Bridge.browser[c].in # <<>>
<1> USE DEF Heard
<1>1. Bridge \in BridgeStates /\ PeerOK(PeerView(Bridge, c)) /\ PeerView(Bridge, c) \in PeerViews
  BY SharedHolds
<1>2. browser \in [PeerIds -> Browsers] /\ browser[c] \in Browsers /\ browser[c].in \in Seq(PeerFrames)
  BY <1>1, BridgeParts, PeerParts, BridgeIs
<1> DEFINE B == [browser[c] EXCEPT !.in = Tail(@)]
           b == [browser EXCEPT ![c] = B]
<1>3. /\ B \in Browsers /\ B.in = Tail(browser[c].in) /\ B.live = browser[c].live /\ B.foreign = browser[c].foreign
      /\ B.owed = browser[c].owed /\ B.out = browser[c].out
  <2>1. Tail(browser[c].in) \in Seq(PeerFrames)
    BY <1>2, TailIsRest
  <2> QED BY <1>2, <2>1 DEF Browsers
<1>4. e = [Bridge EXCEPT !.browser = b]
  BY <1>1, <1>2, BridgeIs DEF BridgeStates
<1> HIDE DEF B
<1>5. b \in [PeerIds -> Browsers] /\ b[c] = B /\ \A d \in PeerIds : d # c => b[d] = browser[d]
  BY <1>2, <1>3
<1> HIDE DEF b
<1>6. /\ e \in BridgeStates /\ e.origin = origin /\ e.await = await /\ e.attachment = attachment
      /\ e.probe = probe /\ e.ledger = ledger /\ e.browser = b
  BY <1>1, <1>4, <1>5, BridgeIs DEF BridgeStates
<1>7. Reads(Bridge, e, c)
  BY <1>3, <1>5, <1>6, BridgeIs DEF Reads
<1>8. Bridge.browser[c].in # <<>> /\ f = Head(Bridge.browser[c].in)
  BY BridgeIs
<1>9. f \in PeerFrames /\ f = PeerView(Bridge, c).in[1] /\ 1 \in DOMAIN PeerView(Bridge, c).in
  BY <1>1, <1>7, <1>8, ReadsViewed
<1> QED BY <1>1, <1>6, <1>7, <1>8, <1>9

\* A session is detached.
LEMMA HearDetachedKeeps ==
    ASSUME NEW e, NEW f, NEW c, Heard(e, f, c), f.kind = "detached"
    PROVE  BridgeOK(HearDetached(e, c, f.session))
<1> DEFINE v == PeerView(Bridge, c)
           s == f.session
           R == Retire(Bridge, c, s)
           g == Retire(e, c, s)
           ps == {p \in g.await.pending : p.client = c /\ p.op = "evaluate" /\ p.session = s}
<1>1. /\ e \in BridgeStates /\ Reads(Bridge, e, c)
      /\ e.origin = origin /\ e.await = await /\ e.attachment = attachment
      /\ e.probe = probe /\ e.ledger = ledger
      /\ c \in PeerIds /\ f \in PeerFrames /\ f = v.in[1] /\ 1 \in DOMAIN v.in
      /\ PeerOK(v) /\ v \in PeerViews /\ Bridge \in BridgeStates
      /\ f = Head(Bridge.browser[c].in) /\ Bridge.browser[c].in # <<>>
  BY HeardIs
<1>2. v.session = origin[c].session /\ v.retired = origin[c].retired
  BY ViewOf, BridgeIs
<1>20. v.open = origin[c].open /\ v.live = browser[c].live /\ v.attached = ledger.attached
  BY ViewOf, BridgeIs
<1>3. v.session \notin v.retired /\ s \notin v.live /\ s \in 0 .. v.attached /\ s # 0 /\ v.open
  <2>1. v.session \notin v.retired
    BY <1>1 DEF PeerOK, PeerOrder
  <2>2. s \notin v.live
    BY <1>1 DEF PeerOK, PeerOrder
  <2>3. s \in 0 .. v.attached /\ s # 0
    BY <1>1 DEF PeerOK, PeerSizes
  <2>4. v.open
    BY <1>1 DEF PeerOK, PeerShut
  <2> QED BY <2>1, <2>2, <2>3, <2>4
<1>4. CASE s \in e.origin[c].retired \/ e.origin[c].session # s
  <2>1. s # v.session
    BY <1>1, <1>2, <1>3, <1>4
  <2>2. MayIgnore(v, f)
    BY <2>1 DEF MayIgnore
  <2>3. BridgeOK(e)
    BY <1>1, <2>2, IgnoresKeeps, BridgeIs DEF Heard
  <2> QED BY <1>4, <2>3 DEF HearDetached
<1>5. CASE ~ (s \in e.origin[c].retired \/ e.origin[c].session # s)
  <2>1. v.session = s /\ s \in Nat /\ s \in 1 .. ledger.attached
    BY <1>1, <1>2, <1>3, <1>5, <1>20, BridgeParts, BridgeIs
  <2> HIDE DEF s, v
  <2>2. R \in BridgeStates /\ Retires(Bridge, R, c, s) /\ g \in BridgeStates /\ Retires(e, g, c, s)
    BY <1>1, <2>1, RetireIs
  <2>3. R.origin = g.origin /\ R.attachment = g.attachment
    BY <1>1, <2>1, RetireTouches, BridgeIs
  <2> HIDE DEF R, g
  <2>4. BridgeOK(R)
    BY <1>1, <1>3, <1>20, <2>1, <2>2, BridgeIs, RetiresKeeps DEF PeerKnows, Heard, v
  <2>5. BridgeOK(g)
    <3>1. R.await = await /\ R.probe = probe /\ R.browser = browser /\ R.ledger = ledger
      BY <2>2, BridgeIs DEF Retires
    <3>2. g.await = await /\ g.probe = probe /\ g.browser = e.browser /\ g.ledger = ledger
      BY <1>1, <2>2 DEF Retires
    <3>3. Reads(R, g, c)
      BY <1>1, <3>1, <3>2, BridgeIs DEF Reads
    <3>4. PeerView(R, c).session = 0
      <4>1. R.origin[c].session = 0
        BY <1>2, <2>1, <2>2, BridgeIs DEF Retires
      <4> QED BY <4>1, ViewOf
    <3>5. MayIgnore(PeerView(R, c), f)
      BY <1>3, <3>4 DEF MayIgnore, s
    <3>6. R.browser[c].in # <<>> /\ f = Head(R.browser[c].in)
      BY <1>1, <3>1, BridgeIs
    <3> QED BY <1>1, <2>2, <2>3, <2>4, <3>1, <3>2, <3>3, <3>5, <3>6, IgnoresKeeps
  <2>6. BridgeOK(Unanswered(g, ps))
    <3>1. ps \in SUBSET PendingOf(g, c)
      BY DEF PendingOf
    <3> HIDE DEF ps
    <3> QED BY <1>1, <2>5, <3>1, GivesUpKeeps
  <2>7. HearDetached(e, c, s) = Unanswered(g, ps)
    BY <1>5, <2>2 DEF Retires, HearDetached, g
  <2> QED BY <2>6, <2>7 DEF s
<1> QED BY <1>4, <1>5

\* The session s of attachment a becomes known.
Learns(e, g, c, a, s) ==
    /\ g.origin[c].open = e.origin[c].open /\ g.origin[c].retired = e.origin[c].retired
    /\ g.origin[c].session = s
    /\ \A d \in PeerIds : d # c => g.origin[d] = e.origin[d]
    /\ g.await = e.await /\ g.probe = e.probe /\ g.browser = e.browser
    /\ g.attachment = (e.attachment \ {a}) \cup {[a EXCEPT !.session = s]}
    /\ g.ledger.mistaken = (e.ledger.mistaken \/ s \in browser[c].foreign)
    /\ g.ledger.ids = e.ledger.ids /\ g.ledger.attached = e.ledger.attached
    /\ g.ledger.links = e.ledger.links /\ g.ledger.lied = e.ledger.lied

\* The state of the bridge then.
LEMMA LearnsIs ==
    ASSUME NEW e \in BridgeStates, NEW c \in PeerIds, NEW a \in e.attachment, NEW s \in Nat,
           NEW g, g = [e EXCEPT !.origin[c].session = s,
                          !.ledger.mistaken = @ \/ s \in browser[c].foreign,
                          !.attachment = (@ \ {a}) \cup {[a EXCEPT !.session = s]}]
    PROVE  g \in BridgeStates /\ Learns(e, g, c, a, s)
<1> DEFINE x == s \in browser[c].foreign
           b == [a EXCEPT !.session = s]
           o == [e.origin EXCEPT ![c].session = s]
           l == [e.ledger EXCEPT !.mistaken = @ \/ x]
           t == (e.attachment \ {a}) \cup {b}
<1>1. e.origin \in [PeerIds -> Origins] /\ e.attachment \in SUBSET Attachments /\ e.ledger \in Ledgers
  BY BridgeParts
<1>2. g = [e EXCEPT !.origin = o, !.ledger = l, !.attachment = t]
  BY DEF BridgeStates
<1> HIDE DEF x
<1>3. /\ o \in [PeerIds -> Origins] /\ o[c].open = e.origin[c].open /\ o[c].retired = e.origin[c].retired
      /\ o[c].session = s /\ \A d \in PeerIds : d # c => o[d] = e.origin[d]
  BY <1>1 DEF Origins
<1>4. b \in Attachments
  BY <1>1 DEF Attachments
<1>5. t \in SUBSET Attachments
  BY <1>1, <1>4
<1>6. /\ l \in Ledgers /\ l.mistaken = (e.ledger.mistaken \/ x) /\ l.ids = e.ledger.ids
      /\ l.attached = e.ledger.attached /\ l.links = e.ledger.links /\ l.lied = e.ledger.lied
  <2>1. (e.ledger.mistaken \/ x) \in BOOLEAN
    OBVIOUS
  <2> DEFINE y == e.ledger.mistaken \/ x
  <2>2. l = [e.ledger EXCEPT !.mistaken = y]
    OBVIOUS
  <2> HIDE DEF y, l
  <2>3. l \in Ledgers /\ l.mistaken = y /\ l.ids = e.ledger.ids /\ l.links = e.ledger.links
        /\ l.attached = e.ledger.attached /\ l.lied = e.ledger.lied
    <3>1. y \in BOOLEAN
      BY DEF y
    <3> QED BY <1>1, <2>2, <3>1 DEF Ledgers
  <2> QED BY <2>3 DEF y
<1> HIDE DEF o, l, t
<1>7. /\ g \in BridgeStates /\ g.origin = o /\ g.ledger = l /\ g.attachment = t /\ g.await = e.await
      /\ g.probe = e.probe /\ g.browser = e.browser
  BY <1>2, <1>3, <1>5, <1>6 DEF BridgeStates
<1>8. Learns(e, g, c, a, s)
  BY <1>3, <1>6, <1>7 DEF Learns, x, t
<1> QED BY <1>7, <1>8

\* A session is attached.
LEMMA HearAttachedKeeps ==
    ASSUME NEW e, NEW f, NEW c, Heard(e, f, c), f.kind = "attached"
    PROVE  BridgeOK(HearAttached(e, c, f.session))
<1> DEFINE v == PeerView(Bridge, c)
           s == f.session
           awaited == {a \in e.attachment : a.client = c}
<1>1. /\ e \in BridgeStates /\ Reads(Bridge, e, c)
      /\ e.origin = origin /\ e.await = await /\ e.attachment = attachment
      /\ e.probe = probe /\ e.ledger = ledger
      /\ c \in PeerIds /\ f \in PeerFrames /\ f = v.in[1] /\ 1 \in DOMAIN v.in
      /\ PeerOK(v) /\ v \in PeerViews /\ Bridge \in BridgeStates
      /\ f = Head(Bridge.browser[c].in) /\ Bridge.browser[c].in # <<>>
  BY HeardIs
<1>2. v.att = awaited
  BY <1>1, ViewOf, BridgeIs DEF AttachedOf
<1>3. v.retired = e.origin[c].retired
  BY <1>1, ViewOf, BridgeIs
<1>4. CASE awaited = {} \/ s \in e.origin[c].retired
  <2>1. MayIgnore(v, f)
    BY <1>2, <1>3, <1>4 DEF MayIgnore
  <2>2. BridgeOK(e)
    BY <1>1, <2>1, IgnoresKeeps, BridgeIs DEF Heard
  <2> QED BY <1>4, <2>2 DEF HearAttached
<1>5. CASE ~ (awaited = {} \/ s \in e.origin[c].retired)
  <2> DEFINE a == CHOOSE x \in awaited : TRUE
             b == [a EXCEPT !.session = s]
             g == [e EXCEPT !.origin[c].session = s,
                       !.ledger.mistaken = @ \/ s \in browser[c].foreign,
                       !.attachment = (@ \ {a}) \cup {[a EXCEPT !.session = s]}]
             w == PeerView(g, c)
  <2>1. a \in awaited
    BY <1>5
  <2>2. a \in e.attachment /\ a.client = c /\ a \in Attachments
    BY <1>1, <2>1, BridgeParts
  <2> HIDE DEF a
  <2>3. /\ b \in Attachments /\ b.id = a.id /\ b.client = a.client /\ b.released = a.released /\ b.session = s
    BY <1>1, <2>2 DEF PeerFrames, PeerReplies, PeerNotices, Attachments
  <2>30. s \in Nat
    BY <1>1 DEF PeerFrames, PeerReplies, PeerNotices
  <2>4. g \in BridgeStates /\ Learns(e, g, c, a, s)
    BY <1>1, <2>2, <2>30, LearnsIs
  <2> HIDE DEF g, b
  <2>5. g.attachment = (attachment \ {a}) \cup {b}
    BY <1>1, <2>4 DEF Learns, b
  <2>6. w \in PeerViews
    BY <1>1, <2>4, ViewType
  <2>7. PeerReads(v, w)
    BY <1>1, <2>4, BridgeIs, ReadsViewed DEF Reads, Learns
  <2>8. SameProbe(v, w)
    <3>1. w.probed = v.probed /\ w.failed = v.failed
      BY <1>1, <2>4, ViewOf, BridgeIs DEF Learns
    <3>2. w.stage = v.stage
      BY <1>1, <2>4, ViewOf, BridgeIs DEF Learns
    <3> HIDE DEF v, w
    <3> QED BY <3>1, <3>2 DEF SameProbe
  <2>9. w.open = v.open /\ w.retired = v.retired /\ w.session = s
    BY <1>1, <2>4, ViewOf, BridgeIs DEF Learns
  <2>10. w.pending = v.pending /\ w.ready = v.ready
    <3>1. g.await = Bridge.await
      BY <1>1, <2>4, BridgeIs DEF Learns
    <3>2. PendingOf(g, c) = PendingOf(Bridge, c) /\ ReadyOf(g, c) = ReadyOf(Bridge, c)
      BY <3>1 DEF PendingOf, ReadyOf
    <3> QED BY <3>2, ViewOf
  <2>11. w.att = {b}
    BY <1>1, <1>2, <2>1, <2>2, <2>3, <2>5, ViewOf DEF PeerOK, PeerNumbers, AttachedOf
  <2>12. w.mistaken = (v.mistaken \/ s \in v.foreign)
    BY <1>1, <2>4, ViewOf, BridgeIs DEF Learns
  <2> HIDE DEF v, w
  <2>13. PeerOK(w)
    <3>1. a \in v.att /\ s \notin v.retired
      BY <1>2, <1>3, <1>5, <2>1
    <3> QED BY <1>1, <2>3, <2>6, <2>7, <2>8, <2>9, <2>10, <2>11, <2>12, <3>1, PeerAttaches
  <2>14. \A i : PeerUses(w, i) => PeerUses(v, i)
    BY <1>2, <2>1, <2>3, <2>7, <2>10, <2>11, ReadsUses
  <2>15. Beside(Bridge, g, c)
    <3>1. Reads(Bridge, g, c)
      BY <1>1, <2>4, BridgeIs DEF Reads, Learns
    <3>2. \A x : x.client # c => (x \in g.attachment <=> x \in attachment)
      BY <2>2, <2>3, <2>5
    <3>3. /\ g.ledger.ids >= Bridge.ledger.ids /\ g.ledger.attached >= Bridge.ledger.attached
          /\ \A d \in PeerIds : d # c => g.browser[d] = Bridge.browser[d]
      BY <1>1, <3>1, ReadsBeside
    <3>4. g.await = Bridge.await /\ g.probe = Bridge.probe
      BY <1>1, <2>4, BridgeIs DEF Learns
    <3>5. \A d \in PeerIds : d # c => g.origin[d] = Bridge.origin[d]
      BY <1>1, <2>4, BridgeIs DEF Learns
    <3>6. Bridge.ledger.mistaken => g.ledger.mistaken
      <4>1. Bridge.ledger = e.ledger
        BY <1>1, BridgeIs
      <4> QED BY <2>4, <4>1 DEF Learns
    <3> QED BY <3>2, <3>3, <3>4, <3>5, <3>6, BridgeIs DEF Beside
  <2>16. Shared(g)
    <3>1. Shared(Bridge)
      BY SharedHolds DEF Heard
    <3>2. g.await = Bridge.await /\ g.probe = Bridge.probe
      BY <1>1, <2>4, BridgeIs DEF Learns
    <3>3. /\ g.ledger.links = Bridge.ledger.links /\ g.ledger.lied = Bridge.ledger.lied
          /\ Bridge.ledger.mistaken => g.ledger.mistaken
      BY <1>1, <2>4, BridgeIs DEF Learns
    <3>4. \A d \in PeerIds : g.origin[d].open = Bridge.origin[d].open
      BY <1>1, <2>4, BridgeIs DEF Learns
    <3>5. EndsNamed(g)
      BY <3>1, <3>2 DEF Shared, EndsNamed
    <3> QED BY <3>1, <3>2, <3>3, <3>4, <3>5 DEF Shared
  <2>17. BridgeOK(g)
    BY <1>1, <2>4, <2>13, <2>14, <2>15, <2>16, BridgeMoves DEF Heard, v, w
  <2>18. BridgeOK(ScheduleRelease(g, c))
    BY <1>1, <2>17, ScheduleKeeps
  <2>19. HearAttached(e, c, s) = ScheduleRelease(g, c)
    BY <1>5 DEF HearAttached, g, a
  <2> QED BY <2>18, <2>19
<1> QED BY <1>4, <1>5

\* A number that connection c uses is no other connection's.
LEMMA OwnNumber ==
    ASSUME NEW e, BridgeOK(e), NEW c \in PeerIds, NEW i, PeerUses(PeerView(e, c), i)
    PROVE  /\ \A p \in e.await.pending : p.id = i => p.client = c
           /\ \A a \in e.attachment : a.id = i => a.client = c
<1>1. e \in BridgeStates /\ PeerOK(PeerView(e, c))
  BY SharedHolds
<1>2. i \in 1 .. e.ledger.ids
  BY <1>1, UsesGiven, ViewOf
<1>3. \A d \in PeerIds : d # c => ~ PeerUses(PeerView(e, d), i)
  BY <1>2 DEF BridgeOK, PeersApart
<1>4. \A p \in e.await.pending : p.id = i => p.client = c
  BY <1>1, <1>3, BridgeParts, ViewOf DEF ProbeRequests, PendingOf, PeerUses
<1>5. \A a \in e.attachment : a.id = i => a.client = c
  BY <1>1, <1>3, BridgeParts, ViewOf DEF Attachments, AttachedOf, PeerUses
<1> QED BY <1>4, <1>5

\* What the reply f of an attachment changes.
Attaches(e, g, c, f) ==
    /\ g.await = e.await /\ g.probe = e.probe /\ g.browser = e.browser /\ g.ledger = e.ledger
    /\ g.origin[c].open = e.origin[c].open /\ g.origin[c].retired = e.origin[c].retired
    /\ \A d \in PeerIds : d # c => g.origin[d] = e.origin[d]
    /\ \A a : a \in g.attachment <=> a \in e.attachment /\ a.id # f.id
    /\ g.origin[c].session =
          IF \/ f.session = 0 \/ \A a \in e.attachment : a.id # f.id
             \/ \E a \in e.attachment : a.id = f.id /\ a.released /\ a.session = f.session
          THEN e.origin[c].session ELSE f.session

\* The state of the bridge once its attachments know of the reply.
AfterAttach(e, c, f) ==
    LET attaches == {a \in e.attachment : a.id = f.id} IN
    IF attaches = {} THEN e ELSE HearAttachReply(e, c, f, CHOOSE a \in attaches : TRUE)

\* That it does.
LEMMA AttachesIs ==
    ASSUME NEW e \in BridgeStates, NEW c \in PeerIds, NEW f \in PeerFrames, f.kind = "reply",
           \A a, b \in e.attachment : a.id = f.id /\ b.id = f.id => a = b
    PROVE  AfterAttach(e, c, f) \in BridgeStates /\ Attaches(e, AfterAttach(e, c, f), c, f)
<1> DEFINE attaches == {a \in e.attachment : a.id = f.id}
           a == CHOOSE x \in attaches : TRUE
           g == AfterAttach(e, c, f)
           z == IF f.session = 0 \/ (a.released /\ a.session = f.session) THEN e.origin[c].session ELSE f.session
           o == [e.origin EXCEPT ![c].session = z]
           t == e.attachment \ {a}
<1>1. e.origin \in [PeerIds -> Origins] /\ e.attachment \in SUBSET Attachments
  BY BridgeParts
<1>2. CASE attaches = {}
  BY <1>2 DEF AfterAttach, Attaches
<1>3. CASE attaches # {}
  <2>1. a \in attaches
    BY <1>3
  <2>2. g = HearAttachReply(e, c, f, a)
    BY <1>3 DEF AfterAttach
  <2> HIDE DEF a, g
  <2>3. a \in e.attachment /\ a.id = f.id /\ \A x \in e.attachment : x.id = f.id => x = a
    BY <2>1
  <2>4. g = [e EXCEPT !.attachment = t, !.origin = o]
    BY <2>2 DEF HearAttachReply, BridgeStates
  <2>5. z \in Nat
    BY PeerParts DEF PeerFrames, PeerReplies, PeerNotices
  <2> HIDE DEF z
  <2>6. /\ o \in [PeerIds -> Origins] /\ o[c].open = e.origin[c].open /\ o[c].retired = e.origin[c].retired
        /\ o[c].session = z /\ \A d \in PeerIds : d # c => o[d] = e.origin[d]
    BY <1>1, <2>5 DEF Origins
  <2>7. t \in SUBSET Attachments /\ \A x : x \in t <=> x \in e.attachment /\ x.id # f.id
    BY <1>1, <2>3
  <2> HIDE DEF o, t
  <2>8. /\ g \in BridgeStates /\ g.origin = o /\ g.attachment = t /\ g.await = e.await
        /\ g.probe = e.probe /\ g.browser = e.browser /\ g.ledger = e.ledger
    BY <2>4, <2>6, <2>7 DEF BridgeStates
  <2>9. z = IF \/ f.session = 0 \/ \A x \in e.attachment : x.id # f.id
               \/ \E x \in e.attachment : x.id = f.id /\ x.released /\ x.session = f.session
            THEN e.origin[c].session ELSE f.session
    BY <2>3 DEF z
  <2>10. Attaches(e, g, c, f)
    BY <2>6, <2>7, <2>8, <2>9 DEF Attaches
  <2> QED BY <2>8, <2>10 DEF g
<1> QED BY <1>2, <1>3

\* The command p of connection c is answered with x.
Replies(e, g, p, x) ==
    /\ g.origin = e.origin /\ g.attachment = e.attachment /\ g.browser = e.browser
    /\ g.probe = e.probe /\ g.ledger = e.ledger
    /\ g.await.pending = e.await.pending \ {p}
    /\ PeerMore(e.await.ready, g.await.ready, {x})

\* The state of the bridge then.
LEMMA RepliesIs ==
    ASSUME NEW e \in BridgeStates, NEW p, NEW x \in Outcomes,
           NEW g, g = [e EXCEPT !.await.pending = @ \ {p}, !.await.ready = Append(@, x)]
    PROVE  g \in BridgeStates /\ Replies(e, g, p, x)
<1> DEFINE q == Append(e.await.ready, x)
           a == [e.await EXCEPT !.pending = e.await.pending \ {p}, !.ready = q]
<1>1. /\ e.await \in [pending : SUBSET ProbeRequests, ready : Seq(Outcomes)]
      /\ e.await.pending \in SUBSET ProbeRequests /\ e.await.ready \in Seq(Outcomes)
  BY BridgeParts
<1>2. q \in Seq(Outcomes) /\ PeerMore(e.await.ready, q, {x})
  BY <1>1, OneIsMore
<1> HIDE DEF q
<1>3. a \in [pending : SUBSET ProbeRequests, ready : Seq(Outcomes)] /\ a.pending = e.await.pending \ {p} /\ a.ready = q
  BY <1>1, <1>2
<1>4. g = [e EXCEPT !.await = a]
  BY DEF BridgeStates, q
<1> HIDE DEF a
<1>5. /\ g \in BridgeStates /\ g.origin = e.origin /\ g.attachment = e.attachment /\ g.browser = e.browser
      /\ g.probe = e.probe /\ g.ledger = e.ledger /\ g.await = a
  BY <1>3, <1>4 DEF BridgeStates
<1> QED BY <1>2, <1>3, <1>5 DEF Replies

\* What a reply f over connection c leaves awaited and answered.
Settles(g, c, f) ==
    /\ \A p : p \in g.await.pending <=> p \in await.pending /\ p.id # f.id
    /\ \A k \in DOMAIN await.ready : k \in DOMAIN g.await.ready /\ g.await.ready[k] = await.ready[k]
    /\ \A k \in DOMAIN g.await.ready :
          \/ k \in DOMAIN await.ready /\ g.await.ready[k] = await.ready[k]
          \/ /\ k \notin DOMAIN await.ready
             /\ g.await.ready[k].client = c
             /\ \E p \in await.pending : p.id = f.id /\ Answered(p, f, g.await.ready[k])
    /\ \A j, k \in DOMAIN g.await.ready : j \notin DOMAIN await.ready /\ k \notin DOMAIN await.ready => j = k

\* It leaves the bridge well.
LEMMA SettlesKeeps ==
    ASSUME NEW e, NEW f, NEW c, Heard(e, f, c), f.kind = "reply",
           NEW g \in BridgeStates, Settles(g, c, f),
           NEW d, Attaches(e, d, c, f), g.origin = d.origin, g.attachment = d.attachment, g.browser = d.browser,
           g.probe = d.probe, g.ledger = d.ledger
    PROVE  BridgeOK(g)
<1> DEFINE v == PeerView(Bridge, c)
           w == PeerView(g, c)
<1>1. /\ e \in BridgeStates /\ Reads(Bridge, e, c)
      /\ e.origin = origin /\ e.await = await /\ e.attachment = attachment
      /\ e.probe = probe /\ e.ledger = ledger
      /\ c \in PeerIds /\ f \in PeerFrames /\ f = v.in[1] /\ 1 \in DOMAIN v.in
      /\ PeerOK(v) /\ v \in PeerViews /\ Bridge \in BridgeStates
      /\ f = Head(Bridge.browser[c].in) /\ Bridge.browser[c].in # <<>>
  BY HeardIs
<1>2. BridgeOK(Bridge) /\ Shared(Bridge)
  BY SharedHolds DEF Heard
<1>3. PeerUses(v, f.id)
  BY <1>1 DEF PeerUses
<1>4. /\ \A p \in await.pending : p.id = f.id => p.client = c
      /\ \A a \in attachment : a.id = f.id => a.client = c
  BY <1>1, <1>2, <1>3, OwnNumber, BridgeIs
<1>5. /\ g.probe = probe /\ g.browser = e.browser /\ g.ledger = ledger
      /\ g.origin[c].open = origin[c].open /\ g.origin[c].retired = origin[c].retired
      /\ \A x \in PeerIds : x # c => g.origin[x] = origin[x]
      /\ \A a : a \in g.attachment <=> a \in attachment /\ a.id # f.id
  BY <1>1 DEF Attaches
<1>6. g.origin[c].session =
          IF \/ f.session = 0 \/ \A a \in attachment : a.id # f.id
             \/ \E a \in attachment : a.id = f.id /\ a.released /\ a.session = f.session
          THEN origin[c].session ELSE f.session
  BY <1>1 DEF Attaches
<1>7. Reads(Bridge, g, c)
  BY <1>1, <1>5, BridgeIs DEF Reads
<1>8. w \in PeerViews /\ PeerReads(v, w)
  BY <1>1, <1>7, ViewType, ReadsViewed
<1>9. SameProbe(v, w)
  <2>1. w.probed = v.probed /\ w.failed = v.failed
    BY <1>5, ViewOf, BridgeIs
  <2>2. w.stage = v.stage
    BY <1>5, ViewOf, BridgeIs
  <2> HIDE DEF v, w
  <2> QED BY <2>1, <2>2 DEF SameProbe
<1>10. PeerReadsReply(v, w, f)
  <2>1. w.open = v.open /\ w.retired = v.retired /\ w.mistaken = v.mistaken
    BY <1>5, ViewOf, BridgeIs
  <2>2. w.att = {a \in v.att : a.id # f.id}
    BY <1>5, BridgeIs, ViewOf DEF AttachedOf
  <2>3. w.session = IF \/ f.session = 0 \/ \A a \in v.att : a.id # f.id
                       \/ \E a \in v.att : a.id = f.id /\ a.released /\ a.session = f.session
                    THEN v.session ELSE f.session
    <3>1. w.session = g.origin[c].session /\ v.session = origin[c].session
      BY ViewOf, BridgeIs
    <3>2. v.att = {a \in attachment : a.client = c}
      BY ViewOf, BridgeIs DEF AttachedOf
    <3> HIDE DEF v, w
    <3>3. (\A a \in v.att : a.id # f.id) <=> \A a \in attachment : a.id # f.id
      BY <1>4, <3>2
    <3>4. (\E a \in v.att : a.id = f.id /\ a.released /\ a.session = f.session)
          <=> \E a \in attachment : a.id = f.id /\ a.released /\ a.session = f.session
      BY <1>4, <3>2
    <3> QED BY <1>6, <3>1, <3>3, <3>4
  <2>4. w.pending = {p \in v.pending : p.id # f.id}
    BY BridgeIs, ViewOf DEF PendingOf, Settles
  <2>5. \A x \in w.ready : x \in v.ready \/ \E p \in v.pending : p.id = f.id /\ Answered(p, f, x)
    <3>1. w.ready = ReadyOf(g, c) /\ v.ready = ReadyOf(Bridge, c) /\ v.pending = PendingOf(Bridge, c)
      BY ViewOf
    <3>2. \A p \in await.pending : p.id = f.id => p \in PendingOf(Bridge, c)
      BY <1>4, BridgeIs DEF PendingOf
    <3>3. \A x \in ReadyOf(g, c) :
             \/ \E k \in DOMAIN await.ready : await.ready[k] = x
             \/ \E p \in await.pending : p.id = f.id /\ Answered(p, f, x)
      BY DEF ReadyOf, Settles
    <3>4. \A x \in ReadyOf(g, c) : (\E k \in DOMAIN await.ready : await.ready[k] = x) => x \in ReadyOf(Bridge, c)
      BY BridgeIs DEF ReadyOf
    <3> QED BY <3>1, <3>2, <3>3, <3>4
  <2> HIDE DEF v, w
  <2> QED BY <2>1, <2>2, <2>3, <2>4, <2>5 DEF PeerReadsReply
<1> HIDE DEF v, w
<1>11. PeerOK(w)
  BY <1>1, <1>8, <1>9, <1>10, PeerReplied
<1>12. \A i : PeerUses(w, i) => PeerUses(v, i)
  BY <1>8, <1>10, ReadsUses DEF PeerReadsReply
<1>13. Beside(Bridge, g, c)
  BY <1>1, <1>4, <1>5, <1>7, BridgeIs, ReadsBeside DEF Settles, Beside
<1>14. \A p \in await.pending : p.id = f.id =>
          /\ p.by = "background" \/ p.by = "probe"
          /\ p.by = "background" => p.op = "detach"
          /\ p.by = "probe" => p.op = StageOp(probe.stage)
  BY <1>1, <1>2, <1>4, BridgeParts, BridgeIs, ProbeAsks DEF ProbeRequests, Askers
<1>15. EndsNamed(g)
  BY <1>2, <1>5, <1>14, BridgeIs DEF Shared, StageOp, EndsNamed, Settles, Answered
<1>16. \A j, k \in DOMAIN g.await.ready :
          g.await.ready[j].by = "probe" /\ g.await.ready[k].by = "probe" => j = k
  <2>1. ASSUME NEW j \in DOMAIN await.ready, await.ready[j].by = "probe",
               NEW p \in await.pending, p.id = f.id, p.by = "probe"
        PROVE  FALSE
    <3> DEFINE x == await.ready[j]
               b == x.client
    <3>1. b \in PeerIds
      <4>1. x \in Outcomes
        BY <1>1, <2>1, BridgeParts, BridgeIs
      <4> QED BY <4>1 DEF Outcomes
    <3>2. probe.client = b /\ \A q \in await.pending : q.client = b => q.by # "probe"
      BY <1>2, <2>1, <3>1, ProbeAsks, BridgeIs
    <3>3. probe.client = c /\ p.client = c
      BY <1>1, <1>2, <1>4, <2>1, ProbeAsks, BridgeIs
    <3> QED BY <2>1, <3>2, <3>3
  <2>2. ASSUME NEW j \in DOMAIN g.await.ready, NEW k \in DOMAIN g.await.ready,
               g.await.ready[j].by = "probe", g.await.ready[k].by = "probe"
        PROVE  j = k
    BY <1>2, <2>1, <2>2, BridgeIs DEF Shared, Settles, Answered
  <2> QED BY <2>2
<1>17. Shared(g)
  BY <1>2, <1>5, <1>15, <1>16, BridgeIs, FS_Subset DEF Shared, Settles
<1> QED BY <1>1, <1>2, <1>11, <1>12, <1>13, <1>17, BridgeMoves DEF v, w

\* A reply comes.
LEMMA HearReplyKeeps ==
    ASSUME NEW e, NEW f, NEW c, Heard(e, f, c), f.kind = "reply"
    PROVE  BridgeOK(HearReply(e, c, f))
<1> DEFINE v == PeerView(Bridge, c)
           d == AfterAttach(e, c, f)
           attaches == {a \in e.attachment : a.id = f.id}
           asked == {p \in e.await.pending : p.id = f.id}
           p == CHOOSE q \in asked : TRUE
           x == [by |-> p.by, client |-> c, ok |-> f.ok,
                 session |-> IF p.op = "attach" THEN f.session ELSE p.session]
           G == [d EXCEPT !.await.pending = @ \ {p}, !.await.ready = Append(@, x)]
           S == IF attaches # {} /\ f.session # 0 /\ d.origin[c].session = f.session
                THEN ScheduleRelease(d, c) ELSE d
<1>1. /\ e \in BridgeStates /\ e.await = await /\ e.attachment = attachment
      /\ c \in PeerIds /\ f \in PeerFrames /\ f = v.in[1] /\ 1 \in DOMAIN v.in
      /\ PeerOK(v) /\ v \in PeerViews /\ Bridge \in BridgeStates
  BY HeardIs
<1>2. BridgeOK(Bridge)
  BY DEF Heard
<1>3. PeerUses(v, f.id)
  BY <1>1 DEF PeerUses
<1>4. /\ \A q \in await.pending : q.id = f.id => q.client = c
      /\ \A a \in attachment : a.id = f.id => a.client = c
  BY <1>1, <1>2, <1>3, OwnNumber, BridgeIs
<1>5. v.att = {a \in attachment : a.client = c} /\ v.pending = {q \in await.pending : q.client = c}
  BY ViewOf, BridgeIs DEF AttachedOf, PendingOf
<1> HIDE DEF v
<1>6. \A a, b \in attachment : a.id = f.id /\ b.id = f.id => a = b
  BY <1>1, <1>4, <1>5 DEF PeerOK, PeerNumbers
<1>7. \A q, r \in await.pending : q.id = f.id /\ r.id = f.id => q = r
  BY <1>1, <1>4, <1>5 DEF PeerOK, PeerNumbers
<1>8. d \in BridgeStates /\ Attaches(e, d, c, f)
  BY <1>1, <1>6, AttachesIs
<1>9. HearReply(e, c, f) = IF asked # {} THEN G ELSE S
  BY DEF HearReply, AfterAttach
<1> HIDE DEF d, S
<1>10. d.await = await
  BY <1>1, <1>8 DEF Attaches
<1>11. CASE asked # {}
  <2>1. p \in asked
    BY <1>11
  <2> HIDE DEF p
  <2>2. p \in await.pending /\ p.id = f.id /\ p.client = c /\ \A q \in await.pending : q.id = f.id => q = p
    BY <1>1, <1>4, <1>7, <2>1
  <2>3. x \in Outcomes /\ Answered(p, f, x) /\ x.client = c
    BY <1>1, <2>2, BridgeParts, BridgeIs DEF PeerFrames, PeerNotices, Outcomes, ProbeRequests,
       PeerReplies, Answered
  <2> HIDE DEF x
  <2>4. G \in BridgeStates /\ Replies(d, G, p, x)
    BY <1>8, <2>3, RepliesIs
  <2> HIDE DEF G
  <2>5. Settles(G, c, f)
    BY <1>10, <2>2, <2>3, <2>4 DEF Replies, PeerMore, Settles
  <2>6. BridgeOK(G)
    BY <1>8, <2>4, <2>5, SettlesKeeps DEF Replies
  <2> QED BY <1>9, <1>11, <2>6 DEF G, p, x
<1>12. CASE asked = {}
  BY <1>1, <1>8, <1>9, <1>10, <1>12, SettlesKeeps, ScheduleKeeps DEF Settles, S
<1> QED BY <1>11, <1>12

\* A frame is heard.
LEMMA HearKeeps ==
    ASSUME BridgeOK(Bridge), NEW c \in PeerIds, HearFrame(c)
    PROVE  BridgeOK(Bridge')
<1> DEFINE f == Head(browser[c].in)
           e == [Bridge EXCEPT !.browser[c].in = Tail(@)]
           G == CASE f.kind = "reply" -> HearReply(e, c, f)
                  [] f.kind = "attached" -> HearAttached(e, c, f.session)
                  [] f.kind = "detached" -> HearDetached(e, c, f.session)
<1>1. browser[c].in # <<>> /\ Becomes(G)
  BY DEF HearFrame
<1>2. Heard(e, f, c)
  BY <1>1 DEF Heard
<1> HIDE DEF e, f
<1>3. f.kind = "reply" \/ f.kind = "attached" \/ f.kind = "detached"
  BY <1>2, HeardIs DEF PeerFrames, PeerReplies, PeerNotices
<1>4. BridgeOK(G)
  BY <1>2, <1>3, HearReplyKeeps, HearAttachedKeeps, HearDetachedKeeps
<1> HIDE DEF G
<1> QED BY <1>1, <1>4, BecomesIs DEF BridgeOK

\* Nothing is connected at first.
LEMMA NothingYet ==
    ASSUME ProbeInit
    PROVE  ProbeInv
<1> DEFINE B == [live |-> {}, foreign |-> {}, owed |-> <<>>, out |-> <<>>, in |-> <<>>]
           l == [links |-> 0, probes |-> 0, ids |-> 0, attached |-> 0, troubles |-> 0,
                 lied |-> FALSE, mistaken |-> FALSE]
<1>1. lockState \in [who : 0 .. MaxPeerLinks, gen : Nat]
  BY ProbeSizes DEF ProbeInit
<1>2. /\ origin = [c \in PeerIds |-> NoProbePeer] /\ await = [pending |-> {}, ready |-> <<>>]
      /\ attachment = {} /\ probe = NoProbe /\ browser = [c \in PeerIds |-> B] /\ ledger = l
  BY DEF ProbeInit
<1>3. /\ NoProbePeer \in Origins /\ NoProbePeer.open = FALSE /\ NoProbePeer.session = 0 /\ NoProbePeer.retired = {}
  BY DEF NoProbePeer, Origins
<1>4. /\ B \in Browsers /\ B.live = {} /\ B.foreign = {} /\ B.owed = <<>> /\ B.out = <<>> /\ B.in = <<>>
  BY DEF Browsers
<1>5. /\ l \in Ledgers /\ l.ids = 0 /\ l.links = 0 /\ l.attached = 0 /\ l.lied = FALSE /\ l.mistaken = FALSE
  BY ProbeSizes DEF Ledgers
<1> HIDE DEF B, l
<1>6. NoProbe \in ProbeStates /\ NoProbe.stage = "none"
  BY ProbeSizes DEF NoProbe, ProbeStates, ProbeStages
<1>7. await \in [pending : SUBSET ProbeRequests, ready : Seq(Outcomes)] /\ await.pending = {} /\ await.ready = <<>>
  BY <1>2
<1>8. Bridge \in BridgeStates
  BY <1>2, <1>3, <1>4, <1>5, <1>6, <1>7 DEF Bridge, BridgeStates
<1>9. ASSUME NEW c \in PeerIds
      PROVE  PeerOK(PeerView(Bridge, c)) /\ \A i : ~ PeerUses(PeerView(Bridge, c), i)
  <2> DEFINE v == PeerView(Bridge, c)
  <2>1. v \in PeerViews
    BY <1>8, <1>9, ViewType
  <2>2. v.session = 0 /\ v.retired = {} /\ v.open = FALSE
    BY <1>2, <1>3, <1>9, ViewOf, BridgeIs
  <2>3. v.live = {} /\ v.foreign = {} /\ v.owed = <<>> /\ v.out = <<>> /\ v.in = <<>>
    BY <1>2, <1>4, <1>9, ViewOf, BridgeIs
  <2>4. v.pending = {} /\ v.att = {}
    BY <1>2, <1>7, ViewOf, BridgeIs DEF PendingOf, AttachedOf
  <2>5. v.ready = {}
    BY <1>7, BridgeIs, ViewOf DEF ReadyOf
  <2>6. v.stage = "none"
    BY <1>2, <1>6, ViewOf, BridgeIs
  <2>7. v.attached = 0 /\ v.ids = 0
    BY <1>2, <1>5, ViewOf, BridgeIs
  <2> HIDE DEF v
  <2>8. DOMAIN v.in = {} /\ DOMAIN v.out = {} /\ DOMAIN v.owed = {}
    BY <2>3
  <2>9. PeerSizes(v) /\ PeerShut(v) /\ PeerNumbers(v)
    BY <2>2, <2>3, <2>4, <2>5, <2>7, <2>8 DEF PeerSizes, PeerShut, PeerNumbers
  <2>10. PeerAnswers(v) /\ PeerOrder(v) /\ PeerServes(v)
    BY <2>2, <2>3, <2>4, <2>5, <2>6, <2>8 DEF PeerAnswers, PeerOrder, PeerServes
  <2>11. PeerFaithful(v) /\ PeerStaged(v)
    BY <2>2, <2>3, <2>4, <2>5, <2>6, <2>8 DEF PeerFaithful, PeerStaged
  <2>12. \A i : ~ PeerUses(v, i)
    BY <2>4, <2>8 DEF PeerUses
  <2> QED BY <2>1, <2>9, <2>10, <2>11, <2>12 DEF PeerOK, v
<1>10. PeersApart(Bridge)
  <2>1. EndsNamed(Bridge)
    BY <1>7, BridgeIs DEF EndsNamed
  <2>2. \A c \in PeerIds : ~ origin[c].open
    BY <1>2, <1>3
  <2>3. IsFiniteSet(Bridge.await.pending)
    BY <1>7, FS_EmptySet, BridgeIs
  <2>4. \A j, k \in DOMAIN Bridge.await.ready :
          Bridge.await.ready[j].by = "probe" /\ Bridge.await.ready[k].by = "probe" => j = k
    BY <1>7, BridgeIs
  <2> QED BY <1>2, <1>5, <1>6, <1>9, <2>1, <2>2, <2>3, <2>4, BridgeIs DEF PeersApart
<1> QED BY <1>1, <1>8, <1>9, <1>10 DEF ProbeInv, BridgeOK

\* The lock stays one of the connections', or none's.
LEMMA LockKeeps ==
    ASSUME lockState \in [who : 0 .. MaxPeerLinks, gen : Nat], BridgeOK(Bridge), ProbeNext
    PROVE  lockState' \in [who : 0 .. MaxPeerLinks, gen : Nat]
<1>1. \A c \in PeerIds : c \in 0 .. MaxPeerLinks
  BY ProbeSizes DEF PeerIds
<1>2. CASE LinkPeer
  <2>1. ledger.links + 1 \in 0 .. MaxPeerLinks
    BY <1>2, SharedHolds, BridgeParts, BridgeIs, ProbeSizes DEF LinkPeer
  <2> QED BY <1>2, <2>1 DEF LinkPeer
<1>3. CASE PageRebuilt
  BY <1>3 DEF PageRebuilt
<1>4. CASE Continue \/ \E p \in await.pending : TimesOutProbe(p)
  BY <1>4 DEF Continue, TimesOutProbe
<1>5. ASSUME NEW c \in PeerIds,
             StartProbe(c) \/ HearFrame(c) \/ PageCloses(c) \/ DevToolsAttach(c) \/ PayReply(c)
             \/ \E ok \in BOOLEAN : Carry(c, ok)
      PROVE  lockState' = lockState
  BY <1>5 DEF StartProbe, HearFrame, PageCloses, DevToolsAttach, PayReply, Carry
<1>6. ASSUME NEW c \in PeerIds, UnlinkPeer(c)
      PROVE  lockState' \in [who : 0 .. MaxPeerLinks, gen : Nat]
  BY <1>6, ProbeSizes DEF UnlinkPeer
<1>7. ASSUME NEW c \in PeerIds, PinPeer(c)
      PROVE  lockState' \in [who : 0 .. MaxPeerLinks, gen : Nat]
  BY <1>1, <1>7 DEF PinPeer
<1> QED BY <1>2, <1>3, <1>4, <1>5, <1>6, <1>7 DEF ProbeNext

\* Every step keeps the invariant.
LEMMA ProbeInvKept ==
    ASSUME ProbeInv, [ProbeNext]_probeVars
    PROVE  ProbeInv'
<1>1. BridgeOK(Bridge) /\ lockState \in [who : 0 .. MaxPeerLinks, gen : Nat] /\ lockState.gen \in Nat
  BY DEF ProbeInv
<1>2. CASE UNCHANGED probeVars
  BY <1>1, <1>2 DEF Bridge, probeVars, ProbeInv
<1>3. CASE ProbeNext
  <2>1. lockState' \in [who : 0 .. MaxPeerLinks, gen : Nat]
    BY <1>1, <1>3, LockKeeps
  <2>2. BridgeOK(Bridge')
    <3>1. CASE Continue
      BY <1>1, <3>1, ContinueKeeps
    <3>2. CASE LinkPeer
      BY <1>1, <3>2, LinkKeeps
    <3>3. CASE PageRebuilt
      BY <1>1, <3>3, TroubleKeeps DEF PageRebuilt
    <3>4. ASSUME NEW p \in await.pending, TimesOutProbe(p)
          PROVE  BridgeOK(Bridge')
      BY <1>1, <3>4, TimesOutKeeps
    <3>5. ASSUME NEW c \in PeerIds, StartProbe(c)
          PROVE  BridgeOK(Bridge')
      BY <1>1, <3>5, StartKeeps
    <3>6. ASSUME NEW c \in PeerIds, HearFrame(c)
          PROVE  BridgeOK(Bridge')
      BY <1>1, <3>6, HearKeeps
    <3>7. ASSUME NEW c \in PeerIds, UnlinkPeer(c)
          PROVE  BridgeOK(Bridge')
      BY <1>1, <3>7, UnlinkKeeps
    <3>8. ASSUME NEW c \in PeerIds, PinPeer(c)
          PROVE  BridgeOK(Bridge')
      BY <1>1, <3>8, TroubleKeeps DEF PinPeer
    <3>9. ASSUME NEW c \in PeerIds, PageCloses(c)
          PROVE  BridgeOK(Bridge')
      BY <1>1, <3>9, PageClosesKeeps
    <3>10. ASSUME NEW c \in PeerIds, DevToolsAttach(c)
           PROVE  BridgeOK(Bridge')
      BY <1>1, <3>10, DevToolsKeeps
    <3>11. ASSUME NEW c \in PeerIds, PayReply(c)
           PROVE  BridgeOK(Bridge')
      BY <1>1, <3>11, PayReplyKeeps
    <3>12. ASSUME NEW c \in PeerIds, NEW ok \in BOOLEAN, Carry(c, ok)
           PROVE  BridgeOK(Bridge')
      BY <1>1, <3>12, CarryKeeps
    <3> QED BY <1>3, <3>1, <3>2, <3>3, <3>4, <3>5, <3>6, <3>7, <3>8, <3>9, <3>10, <3>11, <3>12 DEF ProbeNext
  <2> QED BY <2>1, <2>2 DEF ProbeInv
<1> QED BY <1>2, <1>3

\* What the invariant says of the sessions of probes.
LEMMA ProbeInvShows ==
    ASSUME ProbeInv
    PROVE  ProbesComeOff
<1>1. BridgeOK(Bridge) /\ Shared(Bridge) /\ \A c \in PeerIds : PeerOK(PeerView(Bridge, c))
  BY SharedHolds DEF ProbeInv
<1>2. RetiredStayRetired
  <2> SUFFICES ASSUME NEW c \in PeerIds PROVE origin[c].session \notin origin[c].retired
    BY DEF RetiredStayRetired
  <2> DEFINE v == PeerView(Bridge, c)
  <2>1. v.session \notin v.retired
    BY <1>1 DEF PeerOK, PeerOrder
  <2> QED BY <2>1, ViewOf, BridgeIs
<1>3. ASSUME ~ ledger.mistaken
      PROVE  NothingForgotten /\ OneProbeSession /\ ReleasedIsGone /\ ForeignKept
  <2>1. ReleasedIsGone
    BY <1>1, <1>3, BridgeIs DEF Shared, ReleasedIsGone
  <2>2. ASSUME NEW c \in PeerIds
        PROVE  /\ \A s, o \in browser[c].live : s = o
               /\ \A s \in browser[c].live : origin[c].session = s \/ Outstanding(Bridge, c)
               /\ \A k \in DOMAIN browser[c].out : browser[c].out[k].op = "detach" =>
                     browser[c].out[k].session \notin browser[c].foreign
    <3> DEFINE v == PeerView(Bridge, c)
    <3>1. ~ v.mistaken /\ v.live = browser[c].live /\ v.session = origin[c].session
      BY <1>3, ViewOf, BridgeIs
    <3>2. v.out = browser[c].out /\ v.foreign = browser[c].foreign /\ v.att = AttachedOf(Bridge, c)
      BY ViewOf, BridgeIs
    <3> HIDE DEF v
    <3>3. PeerFaithful(v)
      BY <1>1, <2>2 DEF PeerOK, v
    <3>4. v.att # {} => Outstanding(Bridge, c)
      BY <3>2 DEF AttachedOf, Outstanding
    <3> QED BY <3>1, <3>2, <3>3, <3>4 DEF PeerFaithful
  <2>3. NothingForgotten
    BY <2>2 DEF NothingForgotten
  <2>4. OneProbeSession
    <3> SUFFICES ASSUME NEW c \in PeerIds PROVE Cardinality(browser[c].live) <= 1
      BY DEF OneProbeSession
    <3>1. CASE browser[c].live = {}
      BY <3>1, FS_EmptySet
    <3>2. CASE browser[c].live # {}
      <4>1. PICK s \in browser[c].live : TRUE
        BY <3>2
      <4>2. browser[c].live = {s}
        BY <2>2, <4>1
      <4>3. Cardinality({s}) = 1
        BY FS_Singleton
      <4> QED BY <4>2, <4>3
    <3> QED BY <3>1, <3>2
  <2>5. ForeignKept
    BY <2>2 DEF ForeignKept
  <2> QED BY <2>1, <2>3, <2>4, <2>5
<1> QED BY <1>2, <1>3 DEF ProbesComeOff

\* However many connections, probes and sessions there are, and in whatever order
\* replies, events, timeouts and removals come: a retired session is never held
\* again; and while no session of the DevTools was taken for a probe's own, every
\* session the browser keeps for a probe is held or still awaited, one of them at
\* most, what a probe reported released is gone, and no session of the DevTools is
\* asked to detach (probeTarget, releaseProbeSession, receiveMiniapp).
THEOREM ProbesComeOffAlways == ProbeInit /\ [][ProbeNext]_probeVars => []ProbesComeOff
<1>1. ProbeInit => ProbeInv
  BY NothingYet
<1>2. ProbeInv /\ [ProbeNext]_probeVars => ProbeInv'
  BY ProbeInvKept
<1>3. ProbeInv => ProbesComeOff
  BY ProbeInvShows
<1> QED BY <1>1, <1>2, <1>3, PTL
=============================================================================
