----------------------------- MODULE RuntimeLog -----------------------------
(* The runtime log of the shell: emitLog stores a line in the ring of      *)
(* src/desktop/runtime_log.go and then broadcasts it; the panel subscribes *)
(* late, replays the ring once and merges the replay with the lines that   *)
(* arrived meanwhile (frontend/src/stores/engine.ts).                      *)
(*                                                                         *)
(* A line is its sequence number.                                          *)
EXTENDS Naturals, Sequences, FiniteSets, Selection

CONSTANTS
    Emitters,      \* goroutines that log
    LogCapacity,   \* runtimeLogCapacity
    MaxLines,      \* bound: lines logged
    MaxLogClears   \* bound: uses of the panel's clear button

ASSUME LogCapacityIsPositive == LogCapacity \in Nat \ {0}

VARIABLES
    lines,        \* runtimeLog.records
    lineSeq,      \* runtimeLog.seq
    lineDropped,  \* runtimeLog.dropped
    emitting,     \* for each emitter, the line it stored and has not broadcast
    wire,         \* broadcast lines on their way to the webview
    view,         \* the panel's subscription and its replay
    held,         \* LogBuffer.pending
    timer,        \* the flush timer is armed
    rows,         \* logs
    clearCall,    \* log.clear calls on their way
    raced,        \* history: replayed lines whose event had not arrived
    gone          \* history: lines evicted before the replay, or cleared

logVars == <<lines, lineSeq, lineDropped, emitting, wire, view, held, timer,
             rows, clearCall, raced, gone>>

LinesOf(s) == {s[i] : i \in DOMAIN s}
NewestLines(s) == IF Len(s) > LogCapacity THEN SubSeq(s, 2, Len(s)) ELSE s
Quiet == 0

LogInit ==
    /\ lines = <<>> /\ lineSeq = 0 /\ lineDropped = 0
    /\ emitting = [e \in Emitters |-> Quiet] /\ wire = <<>>
    /\ view = [pc |-> "off", epoch |-> 0, asked |-> 0, snapshot |-> <<>>, cleared |-> 0]
    /\ held = <<>> /\ timer = FALSE /\ rows = <<>> /\ clearCall = 0
    /\ raced = {} /\ gone = {}

-----------------------------------------------------------------------------
\* Mutant: the event goes out before the line is stored.
LogLineEventFirst(e) ==
    /\ emitting[e] = Quiet /\ lineSeq < MaxLines
    /\ lineSeq' = lineSeq + 1
    /\ emitting' = [emitting EXCEPT ![e] = lineSeq + 1]
    /\ UNCHANGED <<lines, lineDropped, wire, view, held, timer, rows, clearCall,
                   raced, gone>>

(* recordLog: the line is stored, the ring keeps the newest.               *)
LogLine(e) ==
    /\ emitting[e] = Quiet /\ lineSeq < MaxLines
    /\ lineSeq' = lineSeq + 1
    /\ lines' = NewestLines(Append(lines, lineSeq + 1))
    /\ lineDropped' = IF Len(lines) = LogCapacity THEN lineDropped + 1 ELSE lineDropped
    /\ gone' = IF Len(lines) = LogCapacity /\ view.pc \in {"off", "asked"}
               THEN gone \cup {Head(lines)} ELSE gone
    /\ emitting' = [emitting EXCEPT ![e] = lineSeq + 1]
    /\ UNCHANGED <<wire, view, held, timer, rows, clearCall, raced>>

(* emitLog: the stored line is broadcast, in whatever order the emitters   *)
(* get here; before the panel listens nobody receives it.                  *)
Broadcast(e) ==
    /\ emitting[e] # Quiet
    /\ wire' = IF view.pc = "off" THEN wire ELSE Append(wire, emitting[e])
    /\ emitting' = [emitting EXCEPT ![e] = Quiet]
    /\ UNCHANGED <<lines, lineSeq, lineDropped, view, held, timer, rows, clearCall,
                   raced, gone>>

(* listen: the panel subscribes and asks for the replay.                   *)
Listen ==
    /\ view.pc = "off"
    /\ view' = [view EXCEPT !.pc = "asked", !.asked = view.epoch]
    /\ UNCHANGED <<lines, lineSeq, lineDropped, emitting, wire, held, timer, rows,
                   clearCall, raced, gone>>

(* log.list: Tail's snapshot of the ring.                                  *)
Replay ==
    /\ view.pc = "asked"
    /\ view' = [view EXCEPT !.pc = "answered", !.snapshot = lines]
    /\ raced' = LinesOf(lines) \ LinesOf(held)
    /\ UNCHANGED <<lines, lineSeq, lineDropped, emitting, wire, held, timer, rows,
                   clearCall, gone>>

(* The subscription receives a line: it is held, and flushed by a timer    *)
(* once the replay has been merged.                                        *)
Receive ==
    /\ wire # <<>>
    /\ wire' = Tail(wire)
    /\ held' = Append(held, Head(wire))
    /\ timer' = (timer \/ view.pc = "seeded")
    /\ UNCHANGED <<lines, lineSeq, lineDropped, emitting, view, rows, clearCall,
                   raced, gone>>

(* seedLogs merges: the held lines the snapshot covers are dropped, the    *)
(* others follow it.  A clear since the request voids the replay, and the  *)
(* held lines stay where they are.                                         *)
Seed ==
    /\ view.pc = "answered"
    /\ view' = [view EXCEPT !.pc = "seeded", !.snapshot = <<>>]
    /\ IF view.asked = view.epoch
       THEN LET through == IF view.snapshot = <<>> THEN 0
                           ELSE view.snapshot[Len(view.snapshot)]
            IN /\ rows' = view.snapshot \o Pick(held, {i \in DOMAIN held : held[i] > through})
               /\ held' = <<>>
               /\ raced' = raced \ LinesOf(held)
       ELSE UNCHANGED <<rows, held, raced>>
    /\ UNCHANGED <<lines, lineSeq, lineDropped, emitting, wire, timer, clearCall, gone>>

(* The replay fails: the live stream goes on without the history.          *)
SeedFailed ==
    /\ view.pc = "asked"
    /\ view' = [view EXCEPT !.pc = "seeded"]
    /\ gone' = gone \cup (1 .. lineSeq)
    /\ UNCHANGED <<lines, lineSeq, lineDropped, emitting, wire, held, timer, rows,
                   clearCall, raced>>

(* flushLogs.                                                              *)
Flush ==
    /\ timer
    /\ timer' = FALSE
    /\ rows' = rows \o held
    /\ held' = <<>>
    /\ UNCHANGED <<lines, lineSeq, lineDropped, emitting, wire, view, clearCall,
                   raced, gone>>

(* clearLogs: the panel forgets at once, log.clear follows.                *)
ClearView ==
    /\ view.pc # "off" /\ view.cleared < MaxLogClears
    /\ view' = [view EXCEPT !.epoch = @ + 1, !.cleared = @ + 1]
    /\ held' = <<>> /\ timer' = FALSE /\ rows' = <<>>
    /\ clearCall' = clearCall + 1
    /\ gone' = gone \cup (1 .. lineSeq)
    /\ UNCHANGED <<lines, lineSeq, lineDropped, emitting, wire, raced>>

(* log.clear: the ring forgets, the sequence goes on.                      *)
ClearRingCopy ==
    /\ clearCall > 0
    /\ clearCall' = clearCall - 1
    /\ lines' = <<>> /\ lineDropped' = 0
    /\ gone' = IF view.pc \in {"off", "asked"} THEN gone \cup LinesOf(lines) ELSE gone
    /\ UNCHANGED <<lineSeq, emitting, wire, view, held, timer, rows, raced>>

LogNext ==
    \/ \E e \in Emitters : LogLine(e) \/ Broadcast(e)
    \/ Listen \/ Replay \/ Receive \/ Seed \/ SeedFailed \/ Flush
    \/ ClearView \/ ClearRingCopy

LogSpec == LogInit /\ [][LogNext]_logVars

-----------------------------------------------------------------------------
LogTypeOK ==
    /\ lines \in Seq(Nat) /\ lineSeq \in Nat /\ lineDropped \in Nat
    /\ emitting \in [Emitters -> Nat] /\ clearCall \in Nat

(* Once the replay is merged no line is missing: each one logged is shown, *)
(* held for the next flush, on its way, or was evicted before the replay   *)
(* or cleared.  emitLog stores a line before it broadcasts it for this.    *)
NoLineIsMissing ==
    view.pc = "seeded" =>
        \A s \in 1 .. lineSeq :
            \/ s \in LinesOf(rows) \cup LinesOf(held) \cup LinesOf(wire) \cup gone
            \/ \E e \in Emitters : emitting[e] = s

(* A line is shown twice only if its event was still to come when the      *)
(* replay took it: merging never repeats a line it already held.           *)
OnlyRacedLinesRepeat ==
    \A i, j \in DOMAIN rows : i # j /\ rows[i] = rows[j] => rows[i] \in raced

\* The two together: the replay and the live stream make one list.
LogReplayMerges == NoLineIsMissing /\ OnlyRacedLinesRepeat

=============================================================================
