----------------------------- MODULE DebugTools -----------------------------
(* The debugger tools of agents (mcp/debug_tools.go) over the debug state   *)
(* of the CDP bridge (cdp-bridge.ts: enableDebugger, captureDebuggerEvent,  *)
(* debugState). A tool changes the target and then polls the bridge's       *)
(* snapshot, since an agent receives no events: the snapshot has to tell a  *)
(* stop the command led to from the stop it started in.                     *)
(*                                                                          *)
(* The Core serves one request at a time: while it awaits the answer to one *)
(* agent's command, no other agent's request is looked at. A stop of a      *)
(* target has a number of its own, its frames.                              *)
EXTENDS Naturals, Sequences, FiniteSets

CONSTANTS
    Agents,     \* clients with a tool call each
    MaxSides,   \* bound: connections made
    MaxUses     \* bound: what agents, users, targets and timeouts start

ASSUME DebugToolsSizes ==
    IsFiniteSet(Agents) /\ MaxSides \in Nat /\ MaxUses \in Nat

VARIABLES
    aim,      \* [on, who]: lockEnabled, lockedClientId (0: undefined)
    side,     \* per connection: open, and whether it is in debuggerEnabled
    debug,    \* the snapshot; stale: it is of another target or realm
    host,     \* the target behind a connection and the frames both ways
    flight,   \* the command the Core awaits, and for whom
    call,     \* the tool call of an agent and its last answer
    used      \* the bounds, the numbers given out, a failed enabling

debugVars == <<aim, side, debug, host, flight, call, used>>

Sides == 1 .. MaxSides
NoSide == [open |-> FALSE, mark |-> FALSE]
NoHost == [live |-> FALSE, stop |-> 0, out |-> <<>>, in |-> <<>>]
NoFlight == [by |-> 0, id |-> 0]
NoCall == [pc |-> "idle", op |-> "none", before |-> 0, saw |-> 0, told |-> "nothing", stop |-> 0]
DebugOps == {"pause", "step", "resume"}

DebugInit ==
    /\ aim = [on |-> TRUE, who |-> 0]
    /\ side = [c \in Sides |-> NoSide] /\ host = [c \in Sides |-> NoHost]
    /\ debug = [wanted |-> FALSE, paused |-> FALSE, seq |-> 0, shown |-> 0, stale |-> TRUE]
    /\ flight = NoFlight /\ call = [a \in Agents |-> NoCall]
    /\ used = [sides |-> 0, spent |-> 0, ids |-> 0, stops |-> 0, failed |-> FALSE]

Present == {c \in Sides : side[c].open}
Aimed(c) == aim.on /\ aim.who = c
Shut(c) == aim.on /\ aim.who \notin {0, c}
\* sendToActive under a lock state: the locked one, or all while none is.
Takers(lock) == IF lock.who \in Present THEN {lock.who} ELSE Present
NewestSide == CHOOSE c \in Present : \A d \in Present : d <= c
Use == used.spent < MaxUses
Using(u) == [u EXCEPT !.spent = @ + 1]
CoreFree == flight = NoFlight

-----------------------------------------------------------------------------
(* Enabling the debugger                                                    *)

\* The command is routed like every other one; the mark is the connection's.
EnableOn(c, lock, takers, s, h) ==
    IF s[c].mark THEN side' = s /\ host' = h
    ELSE /\ side' = [s EXCEPT ![c].mark = TRUE]
         /\ host' = [d \in Sides |-> IF d \in takers
              THEN [h[d] EXCEPT !.out = Append(@, [op |-> "enable", id |-> c])] ELSE h[d]]

\* A refusal is read, or the answer does not come within eight seconds.
EnableFails(c) ==
    /\ Use /\ side[c].mark /\ ~ host[c].live
    /\ side' = [side EXCEPT ![c].mark = FALSE]
    /\ used' = [Using(used) EXCEPT !.failed = TRUE]
    /\ UNCHANGED <<aim, debug, host, flight, call>>

-----------------------------------------------------------------------------
(* Connections and the lock                                                 *)

AddSide ==
    /\ used.sides < MaxSides
    /\ LET c == used.sides + 1
           lock == IF aim.on /\ aim.who = 0 THEN [aim EXCEPT !.who = c] ELSE aim
           there == [side EXCEPT ![c].open = TRUE]
       IN /\ aim' = lock
          /\ debug' = [debug EXCEPT !.stale = @ \/ lock # aim]
          /\ IF debug.wanted /\ (~ lock.on \/ lock.who \in {0, c})
             THEN EnableOn(c, lock, IF lock.who = c THEN {c} ELSE Present \cup {c}, there, host)
             ELSE side' = there /\ UNCHANGED host
          /\ used' = [used EXCEPT !.sides = c]
    /\ UNCHANGED <<flight, call>>

RemoveSide(c) ==
    /\ Use /\ c \in Present
    /\ side' = [side EXCEPT ![c] = NoSide] /\ host' = [host EXCEPT ![c] = NoHost]
    /\ aim' = IF aim.who = c THEN [aim EXCEPT !.who = 0] ELSE aim
    /\ debug' = [debug EXCEPT !.stale = @ \/ aim.who \in {0, c}]
    /\ used' = Using(used) /\ UNCHANGED <<flight, call>>

\* miniapp.switch: the new target gets the debugger that was asked for.
SwitchSide(c) ==
    /\ Use /\ CoreFree /\ c \in Present
    /\ aim' = [on |-> TRUE, who |-> c]
    /\ debug' = [debug EXCEPT !.stale = @ \/ ~ Aimed(c)]
    /\ IF debug.wanted THEN EnableOn(c, aim', {c}, side, host) ELSE UNCHANGED <<side, host>>
    /\ used' = Using(used) /\ UNCHANGED <<flight, call>>

\* miniapp.setLock: locking without a target pins the newest connection, and
\* sends it nothing.
SetAim(on) ==
    /\ Use /\ CoreFree
    /\ aim' = [on |-> on, who |-> IF ~ on THEN 0
                                  ELSE IF aim.who = 0 /\ Present # {} THEN NewestSide ELSE aim.who]
    /\ debug' = [debug EXCEPT !.stale = @ \/ aim' # aim]
    /\ used' = Using(used) /\ UNCHANGED <<side, host, flight, call>>

-----------------------------------------------------------------------------
(* The target                                                               *)

Fitting(h, op) == op \in {"enable", "pause"} \/ (h.live /\ h.stop # 0)

\* It executes a command; a held pause is given up by resume and by a step.
Perform(c) ==
    /\ c \in Present /\ host[c].out # <<>>
    /\ LET do == Head(host[c].out)
           h == host[c]
           ok == Fitting(h, do.op)
           goes == ok /\ do.op \in {"step", "resume"}
           reply == IF do.op = "enable" THEN <<>>
                    ELSE <<[op |-> "reply", id |-> do.id, ok |-> ok, stop |-> 0]>>
           event == IF goes THEN <<[op |-> "resumed", id |-> 0, ok |-> TRUE, stop |-> 0]>> ELSE <<>>
       IN host' = [host EXCEPT ![c] =
            [live |-> h.live \/ do.op = "enable", stop |-> IF goes THEN 0 ELSE h.stop,
             out |-> Tail(h.out), in |-> h.in \o reply \o event]]
    /\ UNCHANGED <<aim, side, debug, flight, call, used>>

\* A breakpoint, a step that ends, or a pause that was asked for.
Stop(c) ==
    /\ Use /\ c \in Present /\ host[c].live /\ host[c].stop = 0
    /\ host' = [host EXCEPT ![c].stop = used.stops + 1, ![c].in = Append(@,
           [op |-> "paused", id |-> 0, ok |-> TRUE, stop |-> used.stops + 1])]
    /\ used' = [Using(used) EXCEPT !.stops = @ + 1]
    /\ UNCHANGED <<aim, side, debug, flight, call>>

\* A reload ends the pause without an event of the debugger for it.
ReloadHost(c) ==
    /\ Use /\ c \in Present
    /\ host' = [host EXCEPT ![c].stop = 0]
    /\ debug' = [debug EXCEPT !.stale = @ \/ aim.who = c]
    /\ used' = Using(used) /\ UNCHANGED <<aim, side, flight, call>>

-----------------------------------------------------------------------------
(* receiveMiniapp                                                           *)

\* captureDebuggerEvent, of connections the lock does not exclude; the answer
\* the Core awaits is handed on to the agent.
ReadHost(c) ==
    /\ host[c].in # <<>>
    /\ LET frame == Head(host[c].in)
           answer == frame.op = "reply" /\ ~ Shut(c) /\ frame.id = flight.id
       IN
       /\ debug' = IF Shut(c) \/ frame.op = "reply" THEN debug
                   ELSE IF frame.op = "paused"
                   THEN [debug EXCEPT !.paused = TRUE, !.seq = @ + 1, !.shown = frame.stop,
                                      !.stale = ~ (Aimed(c) /\ host[c].stop # 0)]
                   ELSE [debug EXCEPT !.paused = FALSE, !.shown = 0, !.stale = ~ Aimed(c)]
       /\ flight' = IF answer THEN NoFlight ELSE flight
       /\ call' = IF answer
                  THEN [call EXCEPT ![flight.by].pc = IF frame.ok THEN "await" ELSE "idle",
                                    ![flight.by].told = IF frame.ok THEN @ ELSE "error"]
                  ELSE call
    /\ host' = [host EXCEPT ![c].in = Tail(@)]
    /\ UNCHANGED <<aim, side, used>>

-----------------------------------------------------------------------------
(* The tools                                                                *)

\* The snapshot a call starts from; a step needs a pause to step from, and a
\* pause asks for the debugger, on the target that is active or becomes it.
BeginTool(a, op) ==
    /\ Use /\ CoreFree /\ call[a].pc = "idle"
    /\ op = "step" => debug.paused
    /\ call' = [call EXCEPT ![a] = [NoCall EXCEPT !.pc = "send", !.op = op, !.before = debug.seq,
                                                  !.saw = debug.shown]]
    /\ IF op = "pause" /\ Present # {}
       THEN EnableOn(IF aim.who # 0 THEN aim.who ELSE NewestSide, aim, Takers(aim), side, host)
       ELSE UNCHANGED <<side, host>>
    /\ debug' = [debug EXCEPT !.wanted = @ \/ op = "pause"]
    /\ used' = Using(used) /\ UNCHANGED <<aim, flight>>

\* cdp.command, which holds the Core.
SendTool(a) ==
    /\ CoreFree /\ call[a].pc = "send"
    /\ call' = [call EXCEPT ![a].pc = "sent"]
    /\ flight' = [by |-> a, id |-> used.ids + 1]
    /\ host' = [c \in Sides |-> IF c \in Takers(aim)
           THEN [host[c] EXCEPT !.out = Append(@, [op |-> call[a].op, id |-> used.ids + 1])]
           ELSE host[c]]
    /\ used' = [used EXCEPT !.ids = @ + 1] /\ UNCHANGED <<aim, side, debug>>

\* The command is not answered within five seconds.
ToolTimesOut(a) ==
    /\ Use /\ flight.by = a
    /\ flight' = NoFlight
    /\ call' = [call EXCEPT ![a].pc = "idle", ![a].told = "error"]
    /\ used' = Using(used) /\ UNCHANGED <<aim, side, debug, host>>

\* As a bug would have it: any held pause answers the call.
AnyStop(c) == debug.paused

\* awaitPause: a pause newer than the one the call began in.
NewStop(c) == debug.paused /\ debug.seq > c.before

Told(a, what) == call' = [call EXCEPT ![a].pc = "idle", ![a].told = what, ![a].stop = debug.shown]

\* awaitPause, awaitResume: a poll that finds what the call waits for.
PollTool(a) ==
    /\ CoreFree /\ call[a].pc = "await"
    /\ IF call[a].op = "resume" THEN ~ debug.paused /\ Told(a, "running")
       ELSE NewStop(call[a]) /\ Told(a, "stopped")
    /\ UNCHANGED <<aim, side, debug, host, flight, used>>

\* The deadline of the polls: the snapshot as it is, not as a confirmation.
PollGivesUp(a) ==
    /\ Use /\ CoreFree /\ call[a].pc = "await"
    /\ Told(a, "unconfirmed")
    /\ used' = Using(used) /\ UNCHANGED <<aim, side, debug, host, flight>>

DebugNext ==
    \/ AddSide \/ \E on \in BOOLEAN : SetAim(on)
    \/ \E c \in Sides :
          \/ RemoveSide(c) \/ SwitchSide(c) \/ EnableFails(c)
          \/ Perform(c) \/ Stop(c) \/ ReloadHost(c) \/ ReadHost(c)
    \/ \E a \in Agents :
          \/ SendTool(a) \/ ToolTimesOut(a) \/ PollTool(a) \/ PollGivesUp(a)
          \/ \E op \in DebugOps : BeginTool(a, op)

(* Debugger and agents by themselves.                                      *)
DebugSpec == DebugInit /\ [][DebugNext]_debugVars

-----------------------------------------------------------------------------
(* Properties                                                               *)

\* Every variable has its type.
DebugTypeOK ==
    /\ aim \in [on : BOOLEAN, who : 0 .. MaxSides]
    /\ side \in [Sides -> [open : BOOLEAN, mark : BOOLEAN]]
    /\ flight.by \in Agents \cup {0}
    /\ \A a \in Agents : call[a].pc \in {"idle", "send", "sent", "await"}
    /\ used.spent \in 0 .. MaxUses

\* A pause or a step that is answered as stopped shows a stop other than the
\* one the call began in, whatever the other agents did (awaitPause).
StopsAreNew == \A a \in Agents : call[a].told = "stopped" => call[a].stop # call[a].saw

\* With nothing on the way, the snapshot shows the stop of the locked target;
\* only a reload, or a lock that moved, leaves that of another (debugState).
SnapshotIsTrue ==
    \A c \in Present :
        Aimed(c) /\ host[c].in = <<>> /\ ~ debug.stale =>
            debug.paused = (host[c].stop # 0) /\ (debug.paused => debug.shown = host[c].stop)

\* A connection marked as enabled was sent the command: whatever was locked
\* when it was asked for (enableDebuggerOnConnection).
MarkedIsEnabled ==
    \A c \in Present :
        side[c].mark => host[c].live \/ \E i \in DOMAIN host[c].out : host[c].out[i].op = "enable"

DebugToolsAreTrue == StopsAreNew /\ SnapshotIsTrue /\ MarkedIsEnabled

\* An agent that asked for the debugger has it on the locked target: unless
\* enabling failed, the target is enabled or about to be (addMiniapp,
\* switchMiniapp: "or debugState would advertise an empty on").
WantedIsEnabled ==
    \A c \in Present : debug.wanted /\ Aimed(c) /\ ~ used.failed => side[c].mark \/ host[c].live
=============================================================================
