----------------------------- MODULE CoreProcess -----------------------------
(* The Core processes of the shell: App.ensureEngine and currentEngine     *)
(* (src/desktop/app.go) spawn one, replace it when it is gone or its pipe  *)
(* is torn, and wire its callbacks; engine.Client captures its stderr and  *)
(* hands the lines to the callback (src/desktop/internal/engine/client.go).*)
(*                                                                         *)
(* A stderr line is the number of its capture.                             *)
EXTENDS Naturals, Sequences, FiniteSets

CONSTANTS
    Users,         \* goroutines that need the Core
    MaxCores,      \* bound: processes spawned
    PendingLines,  \* maxPendingStderr
    MaxStderr      \* bound: lines one process writes

ASSUME CoreBounds == MaxCores \in Nat /\ MaxStderr \in Nat
ASSUME PendingIsPositive == PendingLines \in Nat \ {0}

VARIABLES
    proc,       \* each process
    current,    \* App.engine, 0 for nil
    condemned,  \* processes whose background Shutdown is under way
    user,       \* where each goroutine is, and with which client
    captured,   \* lines each process has written
    pendingLog, \* Client.pendingLogs
    onLog,      \* Client.onLog is set
    logMu,      \* who holds Client.logMu
    inHand,     \* the lines the holder of logMu has yet to deliver
    shown,      \* the lines the callback has received
    consumers   \* goroutines that consume the client's events

processes == <<proc, current, condemned>>
stderrPipe == <<captured, pendingLog, onLog, logMu, inHand, shown>>
coreVars == <<processes, user, stderrPipe, consumers>>

Cores == 1 .. MaxCores
Idle == [pc |-> "idle", core |-> 0]
LastLines(s, n) == IF Len(s) > n THEN SubSeq(s, Len(s) - n + 1, Len(s)) ELSE s
Alive(c) == proc[c] \in {"running", "broken"}

CoreInit ==
    /\ proc = [c \in Cores |-> "unborn"] /\ current = 0 /\ condemned = {}
    /\ user = [u \in Users |-> Idle]
    /\ captured = [c \in Cores |-> 0]
    /\ pendingLog = [c \in Cores |-> <<>>]
    /\ onLog = [c \in Cores |-> FALSE]
    /\ logMu = [c \in Cores |-> "free"]
    /\ inHand = [c \in Cores |-> <<>>]
    /\ shown = [c \in Cores |-> <<>>]
    /\ consumers = [c \in Cores |-> 0]

-----------------------------------------------------------------------------
\* Mutant: the client given up is not shut down.
SpawnForgetsVictim(u, c) ==
    /\ proc[c] = "unborn"
    /\ proc' = [proc EXCEPT ![c] = "running"] /\ current' = c
    /\ user' = [user EXCEPT ![u] = [pc |-> "onlog", core |-> c]]
    /\ UNCHANGED condemned

(* ensureEngine spawns: the client it gives up is shut down in the         *)
(* background, and its creator alone has callbacks to wire.                *)
Spawn(u, c) ==
    /\ proc[c] = "unborn"
    /\ proc' = [proc EXCEPT ![c] = "running"] /\ current' = c
    /\ condemned' = condemned \cup ({current} \ {0})
    /\ user' = [user EXCEPT ![u] = [pc |-> "onlog", core |-> c]]

(* currentEngine: one lock section finds the live client or replaces it.   *)
NeedCore(u) ==
    /\ user[u].pc = "idle"
    /\ IF current # 0 /\ proc[current] = "running"
       THEN /\ user' = [user EXCEPT ![u] = [pc |-> "calling", core |-> current]]
            /\ UNCHANGED processes
       ELSE \E c \in Cores : /\ \A d \in Cores : d < c => proc[d] # "unborn"
                             /\ Spawn(u, c)
    /\ UNCHANGED <<stderrPipe, consumers>>

(* OnLog takes logMu, sets the callback and takes the lines kept for it,   *)
(* which it delivers before it lets the lock go.                           *)
OnLog(u) ==
    LET c == user[u].core
    IN /\ user[u].pc = "onlog" /\ logMu[c] = "free"
       /\ logMu' = [logMu EXCEPT ![c] = "replay"]
       /\ onLog' = [onLog EXCEPT ![c] = TRUE]
       /\ inHand' = [inHand EXCEPT ![c] = pendingLog[c]]
       /\ pendingLog' = [pendingLog EXCEPT ![c] = <<>>]
       /\ user' = [user EXCEPT ![u].pc = "replay"]
       /\ UNCHANGED <<processes, captured, shown, consumers>>

OnLogEnd(u) ==
    LET c == user[u].core
    IN /\ user[u].pc = "replay" /\ inHand[c] = <<>>
       /\ logMu' = [logMu EXCEPT ![c] = "free"]
       /\ user' = [user EXCEPT ![u].pc = "onevent"]
       /\ UNCHANGED <<processes, captured, pendingLog, onLog, inHand, shown, consumers>>

(* OnEvent starts a goroutine each time it is called.                      *)
OnEvent(u) ==
    LET c == user[u].core
    IN /\ user[u].pc = "onevent"
       /\ consumers' = [consumers EXCEPT ![c] = @ + 1]
       /\ user' = [user EXCEPT ![u].pc = "calling"]
       /\ UNCHANGED <<processes, stderrPipe>>

(* The call is over; one that was cancelled in the middle of its write has *)
(* torn the pipe, and the process lives on.                                *)
CallEnds(u) ==
    /\ user[u].pc = "calling"
    /\ proc' \in {proc, IF proc[user[u].core] = "running"
                        THEN [proc EXCEPT ![user[u].core] = "broken"] ELSE proc}
    /\ user' = [user EXCEPT ![u] = Idle]
    /\ UNCHANGED <<current, condemned, stderrPipe, consumers>>

-----------------------------------------------------------------------------
(* The process ends by itself.                                             *)
ProcessExits(c) ==
    /\ Alive(c)
    /\ proc' = [proc EXCEPT ![c] = "exited"]
    /\ UNCHANGED <<current, condemned, user, stderrPipe, consumers>>

(* Client.Shutdown of a client given up: killed and waited for.            *)
KillVictim(c) ==
    /\ c \in condemned
    /\ proc' = [proc EXCEPT ![c] = "exited"]
    /\ condemned' = condemned \ {c}
    /\ UNCHANGED <<current, user, stderrPipe, consumers>>

\* Mutant: captureStderr takes no logMu.
CaptureUnlocked(c) ==
    /\ Alive(c) /\ captured[c] < MaxStderr
    /\ captured' = [captured EXCEPT ![c] = @ + 1]
    /\ IF onLog[c]
       THEN /\ shown' = [shown EXCEPT ![c] = Append(@, captured[c] + 1)]
            /\ UNCHANGED pendingLog
       ELSE /\ pendingLog' = [pendingLog EXCEPT
                                ![c] = LastLines(Append(@, captured[c] + 1), PendingLines)]
            /\ UNCHANGED shown
    /\ UNCHANGED <<processes, user, onLog, logMu, inHand, consumers>>

(* captureStderr: under logMu a line is kept for the callback to come, the *)
(* newest PendingLines of them, or delivered to the one there is.          *)
CaptureLine(c) ==
    /\ Alive(c) /\ captured[c] < MaxStderr /\ logMu[c] = "free"
    /\ captured' = [captured EXCEPT ![c] = @ + 1]
    /\ IF onLog[c]
       THEN /\ logMu' = [logMu EXCEPT ![c] = "capture"]
            /\ inHand' = [inHand EXCEPT ![c] = <<captured[c] + 1>>]
            /\ UNCHANGED pendingLog
       ELSE /\ pendingLog' = [pendingLog EXCEPT
                                ![c] = LastLines(Append(@, captured[c] + 1), PendingLines)]
            /\ UNCHANGED <<logMu, inHand>>
    /\ UNCHANGED <<processes, user, onLog, shown, consumers>>

(* The callback runs, under logMu.                                         *)
Show(c) ==
    /\ inHand[c] # <<>>
    /\ shown' = [shown EXCEPT ![c] = Append(@, Head(inHand[c]))]
    /\ inHand' = [inHand EXCEPT ![c] = Tail(@)]
    /\ logMu' = [logMu EXCEPT ![c] = IF @ = "capture" THEN "free" ELSE @]
    /\ UNCHANGED <<processes, user, captured, pendingLog, onLog, consumers>>

-----------------------------------------------------------------------------
CoreNext ==
    \/ \E u \in Users : NeedCore(u) \/ OnLog(u) \/ OnLogEnd(u) \/ OnEvent(u) \/ CallEnds(u)
    \/ \E c \in Cores : ProcessExits(c) \/ KillVictim(c) \/ CaptureLine(c) \/ Show(c)

(* A goroutine that kills a process is run.                                *)
CoreFairness == \A c \in Cores : WF_coreVars(KillVictim(c))

CoreSpec == CoreInit /\ [][CoreNext]_coreVars

-----------------------------------------------------------------------------
CoreTypeOK ==
    /\ proc \in [Cores -> {"unborn", "running", "broken", "exited"}]
    /\ current \in 0 .. MaxCores /\ condemned \subseteq Cores
    /\ user \in [Users -> [pc : {"idle", "onlog", "replay", "onevent", "calling"},
                           core : 0 .. MaxCores]]
    /\ logMu \in [Cores -> {"free", "replay", "capture"}]
    /\ onLog \in [Cores -> BOOLEAN]

(* Every stderr line reaches the log once and in the order of its capture, *)
(* whether it came before the callback, while the earlier ones were being  *)
(* replayed or after; only the oldest beyond the replay buffer are lost,   *)
(* and none after the first one shown (client.go:55-81).                   *)
StderrInOrder ==
    \A c \in Cores :
        LET seen == shown[c] \o inHand[c] \o pendingLog[c]
        IN /\ \A i \in DOMAIN seen : seen[i] = captured[c] - Len(seen) + i
           /\ Len(seen) < captured[c] => Len(seen) >= PendingLines

(* A client's events are consumed by one goroutine: each reaches the shell *)
(* once, in order (app.go:357-359).                                        *)
OneConsumer == \A c \in Cores : consumers[c] <= 1

\* The two together: what a Core writes reaches the shell once and in order.
CoreOutputInOrder == StderrInOrder /\ OneConsumer

(* A process given up is killed: it does not hold the port and the Frida   *)
(* attach against its replacement for ever (app.go:386-392).               *)
AbandonedCoresDie == \A c \in Cores : (Alive(c) /\ current # c) ~> ~Alive(c)
=============================================================================
