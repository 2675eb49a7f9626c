------------------------------ MODULE CoreRpc ------------------------------
(***************************************************************************)
(* rpc.Client: concurrent calls over one pipe to the Core.  A call is one  *)
(* goroutine in Call and is known by its id; the read loop is another; the *)
(* connection is torn down by Close or by a call whose write is cut.       *)
(*                                                                         *)
(* failAll runs in two places, at most once in each: in the teardown and   *)
(* at the end of the read loop.  The Core may stop reading or answering at *)
(* any time without exiting (no step of its is fair), and push events.     *)
(***************************************************************************)
EXTENDS Naturals

CONSTANTS
    Calls,     \* the calls that may be made
    Unbounded, \* those made under a context that never ends
    None       \* no call

ASSUME CoreRpcAssumption == Unbounded \subseteq Calls /\ None \notin Calls

VARIABLES
    pc,      \* where each call is
    expired, \* running calls whose context has ended
    box,     \* responses in each call's channel, which holds one
    pending, \* Client.pending
    writer,  \* the call holding writeMu
    stdin,   \* the pipe's write end is open
    tear,    \* teardown, under closeOnce; "no" until `closed` is closed
    reader,  \* the read loop
    handed,  \* the call the read loop took out of pending
    failing, \* where each failAll is
    victims, \* the calls each failAll took out of pending
    panicked,     \* a send on the closed channel
    gone,    \* the Core has exited
    wire,    \* requests the Core has and did not answer
    cut      \* a write was given up half-way

vars == <<pc, expired, box, pending, writer, stdin, tear, reader, handed, failing,
          victims, panicked, gone, wire, cut>>
calls == <<pc, expired, box, pending, writer>>
fails == <<tear, failing, victims, stdin>>
loop  == <<reader, handed, panicked>>
core  == <<gone, wire, cut>>

Failers == {"teardown", "reader"}

\* Client.events is closed: failAll ends with it, once (eventsOnce).
eventsClosed == \E f \in Failers : failing[f] = "done"

Init ==
    /\ pc = [c \in Calls |-> "start"] /\ expired = {}
    /\ box = [c \in Calls |-> 0] /\ pending = {} /\ writer = None
    /\ stdin = TRUE /\ tear = "no"
    /\ reader = "reading" /\ handed = None
    /\ failing = [f \in Failers |-> "no"] /\ victims = [f \in Failers |-> {}]
    /\ panicked = FALSE
    /\ gone = FALSE /\ wire = {} /\ cut = FALSE

Goto(c, step) == pc' = [pc EXCEPT ![c] = step]

\* A context is of no interest once its call has returned.
Return(c) == Goto(c, "returned") /\ expired' = expired \ {c}

-----------------------------------------------------------------------------
(* Call and writeLine.                                                     *)

CheckClosed(c) ==
    /\ pc[c] = "start"
    /\ Goto(c, IF tear = "no" THEN "open" ELSE "returned")
    /\ UNCHANGED <<expired, box, pending, writer, fails, loop, core>>

Register(c) ==
    /\ pc[c] = "open"
    /\ pending' = pending \cup {c} /\ Goto(c, "queued")
    /\ UNCHANGED <<expired, box, writer, fails, loop, core>>

\* The lock is not waited for under the context; a context that ended in the
\* queue costs only this call.
LockWriter(c) ==
    /\ pc[c] = "queued" /\ writer = None
    /\ IF c \in expired
       THEN Goto(c, "leaving") /\ UNCHANGED writer
       ELSE Goto(c, "writing") /\ writer' = c
    /\ UNCHANGED <<expired, box, pending, fails, loop, core>>

\* Mutant: only the write end is closed, after the lock is given up.
CutWriteUnlocked(c) ==
    /\ pc[c] = "writing" /\ c \in expired
    /\ cut' = TRUE /\ writer' = None /\ Goto(c, "leaving")
    /\ IF tear = "no"
       THEN /\ tear' = "failing" /\ failing' = [failing EXCEPT !["teardown"] = "swap"]
       ELSE UNCHANGED <<tear, failing>>
    /\ UNCHANGED <<expired, box, pending, victims, stdin, loop, gone, wire>>

Written(c) ==
    /\ pc[c] = "writing" /\ stdin /\ ~ gone
    /\ wire' = wire \cup {c} /\ writer' = None /\ Goto(c, "awaiting")
    /\ UNCHANGED <<expired, box, pending, fails, loop, gone, cut>>

WriteFails(c) ==
    /\ pc[c] = "writing" /\ (~ stdin \/ gone)
    /\ writer' = None /\ Goto(c, "leaving")
    /\ UNCHANGED <<expired, box, pending, fails, loop, core>>

TearDown ==
    IF tear = "no"
    THEN tear' = "failing" /\ failing' = [failing EXCEPT !["teardown"] = "swap"]
    ELSE UNCHANGED <<tear, failing>>

\* The context ends during the write: the connection is torn down, with the
\* lock held.  The Core may still get the whole line.
CutWrite(c) ==
    /\ pc[c] = "writing" /\ c \in expired
    /\ cut' = TRUE /\ Goto(c, "cutting") /\ TearDown
    /\ wire' \in {wire, wire \cup {c}}
    /\ UNCHANGED <<expired, box, pending, writer, victims, stdin, loop, gone>>

\* Mutant: the lock is not given up after a teardown.
CutReturnsLocked(c) ==
    /\ pc[c] = "cutting" /\ tear = "done"
    /\ Goto(c, "leaving")
    /\ UNCHANGED <<expired, box, pending, writer, fails, loop, core>>

CutReturns(c) ==
    /\ pc[c] = "cutting" /\ tear = "done"
    /\ writer' = None /\ Goto(c, "leaving")
    /\ UNCHANGED <<expired, box, pending, fails, loop, core>>

\* Mutant: a call that gives up stays in pending.
LeavePending(c) ==
    /\ pc[c] = "leaving" /\ Return(c)
    /\ UNCHANGED <<box, pending, writer, fails, loop, core>>

\* removePending
Leave(c) ==
    /\ pc[c] = "leaving"
    /\ pending' = pending \ {c} /\ Return(c)
    /\ UNCHANGED <<box, writer, fails, loop, core>>

Answered(c) ==
    /\ pc[c] = "awaiting" /\ box[c] > 0
    /\ box' = [box EXCEPT ![c] = @ - 1] /\ Return(c)
    /\ UNCHANGED <<pending, writer, fails, loop, core>>

TimedOut(c) ==
    /\ pc[c] = "awaiting" /\ c \in expired /\ Goto(c, "leaving")
    /\ UNCHANGED <<expired, box, pending, writer, fails, loop, core>>

\* A context that ended earlier is first seen once the call is queued.
Expire(c) ==
    /\ pc[c] \in {"queued", "writing", "awaiting"} /\ c \notin Unbounded \cup expired
    /\ expired' = expired \cup {c}
    /\ UNCHANGED <<pc, box, pending, writer, fails, loop, core>>

-----------------------------------------------------------------------------
(* readLoop and handleLine.                                                *)

\* A response: the call is taken out of pending under the lock, and answered
\* after it.  A late one finds no call and is dropped.
TakePending(c) ==
    /\ reader = "reading" /\ c \in wire
    /\ wire' = wire \ {c} /\ pending' = pending \ {c}
    /\ IF c \in pending THEN reader' = "handling" /\ handed' = c
                        ELSE UNCHANGED <<reader, handed>>
    /\ UNCHANGED <<pc, expired, box, writer, fails, panicked, gone, cut>>

HandResponse ==
    /\ reader = "handling"
    /\ box' = [box EXCEPT ![handed] = @ + 1]
    /\ reader' = "reading" /\ handed' = None
    /\ UNCHANGED <<pc, expired, pending, writer, fails, panicked, core>>

\* An event is sent or dropped; a send on a closed channel panics, in a
\* select with a default too.
HandleEvent ==
    /\ reader = "reading" /\ eventsClosed
    /\ panicked' = TRUE
    /\ UNCHANGED <<calls, fails, reader, handed, core>>

\* The end of the Core's output, or a line beyond the limit.
ReadEnds ==
    /\ reader = "reading"
    /\ reader' = "ended" /\ failing' = [failing EXCEPT !["reader"] = "swap"]
    /\ UNCHANGED <<calls, tear, victims, stdin, handed, panicked, core>>

-----------------------------------------------------------------------------
(* failAll and teardown.                                                   *)

SwapPending(f) ==
    /\ failing[f] = "swap" /\ failing' = [failing EXCEPT ![f] = "send"]
    /\ victims' = [victims EXCEPT ![f] = pending] /\ pending' = {}
    /\ UNCHANGED <<pc, expired, box, writer, tear, stdin, loop, core>>

\* The calls are answered one by one, then the events channel is closed (once,
\* by whichever of the two comes first).
FailCalls(f) ==
    /\ failing[f] = "send" /\ failing' = [failing EXCEPT ![f] = "done"]
    /\ box' = [c \in Calls |-> IF c \in victims[f] THEN box[c] + 1 ELSE box[c]]
    /\ victims' = [victims EXCEPT ![f] = {}]
    /\ UNCHANGED <<pc, expired, pending, writer, tear, stdin, loop, core>>

CloseStdin ==
    /\ tear = "failing" /\ failing["teardown"] = "done"
    /\ tear' = "done" /\ stdin' = FALSE
    /\ UNCHANGED <<calls, failing, victims, loop, core>>

Close ==
    /\ tear = "no" /\ TearDown
    /\ UNCHANGED <<calls, victims, stdin, loop, core>>

CoreExits ==
    /\ ~ gone /\ gone' = TRUE
    /\ UNCHANGED <<calls, fails, loop, wire, cut>>

-----------------------------------------------------------------------------
\* What a goroutine of the shell does by itself, and a context's deadline.
CallStep(c) ==
    \/ Register(c) \/ LockWriter(c) \/ WriteFails(c)
    \/ CutWrite(c) \/ CutReturns(c) \/ Leave(c)
    \/ Answered(c) \/ TimedOut(c) \/ Expire(c)

FailStep ==
    \/ \E f \in Failers : SwapPending(f) \/ FailCalls(f)
    \/ CloseStdin

Next ==
    /\ ~ panicked
    /\ \/ \E c \in Calls : CheckClosed(c) \/ CallStep(c) \/ Written(c) \/ TakePending(c)
       \/ HandResponse \/ HandleEvent \/ ReadEnds
       \/ FailStep \/ Close \/ CoreExits

\* The shell's goroutines run and a deadline passes.  The Core owes nothing,
\* and a write completes only if the Core reads.
Spec ==
    /\ Init /\ [][Next]_vars
    /\ \A c \in Calls : WF_vars(~ panicked /\ CallStep(c))
    /\ WF_vars(~ panicked /\ FailStep)

-----------------------------------------------------------------------------
\* A call's channel never gets a second response while it holds one: whoever
\* takes a call out of pending is the only one to answer it, so neither the
\* read loop nor a teardown ever blocks on a call.
TypeOK ==
    /\ pc \in [Calls -> {"start", "open", "queued", "writing", "cutting",
                         "awaiting", "leaving", "returned"}]
    /\ expired \subseteq Calls /\ box \in [Calls -> 0 .. 1]
    /\ pending \subseteq Calls /\ writer \in Calls \cup {None}
    /\ stdin \in BOOLEAN /\ tear \in {"no", "failing", "done"}
    /\ reader \in {"reading", "handling", "ended"} /\ handed \in Calls \cup {None}
    /\ failing \in [Failers -> {"no", "swap", "send", "done"}]
    /\ victims \in [Failers -> SUBSET Calls]
    /\ panicked \in BOOLEAN
    /\ gone \in BOOLEAN /\ wire \subseteq Calls /\ cut \in BOOLEAN

\* Nothing is left in pending for a call that has returned, whether it was
\* answered, timed out, was failed by a teardown or registered after one.
PendingIsLive == \A c \in pending : pc[c] \notin {"start", "open", "returned"}

\* Every call has one answer at most and leaves nothing behind.
CallsAreAnsweredOnce == TypeOK /\ PendingIsLive

\* Once a write was given up, half a line may be in the pipe: no later request
\* is written behind it (writeLine holds writeMu until the pipe is closed).
NothingAfterACutWrite ==
    [][ cut => \A c \in Calls : ~ (pc[c] = "writing" /\ pc'[c] = "awaiting") ]_vars

\* A call with a deadline returns, whatever the Core does: blocks the pipe,
\* never answers, exits, or is torn down while calls queue behind a wedged write
\* ("instead of everyone hanging forever behind the stuck writer") -- but for a
\* write without a deadline (code.format's), behind which all others do hang.
EveryCallReturns ==
    \A c \in Calls \ Unbounded :
        pc[c] = "open" ~> \/ pc[c] = "returned" \/ panicked
                          \/ [](writer \in Unbounded)

\* "a second close would panic the reader": the read loop never sends on the
\* channel that a teardown has closed.
ReaderNeverPanics == ~ panicked
=============================================================================
