----------------------------- MODULE PageStream -----------------------------
(***************************************************************************)
(* One capture stream of a page hook (core/hooks/wxapi.js, its executable  *)
(* reference core/src/hooks/drain.ts) and the cursors of the two parties   *)
(* that read it: the shell's feeder, one request at a time, and the MCP    *)
(* tool hook_drain.                                                        *)
(*                                                                         *)
(* Sequence numbers are dense, so the ring is an interval: it always holds *)
(* exactly base+1 .. seq.  A record is its sequence number.                *)
(***************************************************************************)
EXTENDS Integers, FiniteSets

CONSTANTS
    Capacity,   \* RECORD_BUFFER_CAPACITY / UPDATE_BUFFER_CAPACITY
    Limit,      \* records in one drain page (feedDrainLimit)
    MaxSeq,     \* bound: captures per page realm
    MaxRealm,   \* bound: page realms (reloads)
    MaxGen      \* bound: generations of the feeder (resets and clears)

ASSUME PageStreamAssumption ==
    /\ Capacity \in Nat \ {0}
    /\ Limit \in Nat \ {0}
    /\ {MaxSeq, MaxRealm, MaxGen} \subseteq Nat

VARIABLES
    realm,      \* identity of the page context; the stream restarts with it
    seq,        \* hookState.seq
    base,       \* seq of the newest record no longer in hookState.buffer
    accounted,  \* hookState.accountedSeq
    dropped,    \* hookState.droppedRecords
    ack,        \* the feeder's cursor, with the realm it was learnt from
    gen,        \* HookFeeder.gen
    call,       \* the feeder's drain in progress
    mcp,        \* the cursor the MCP agent holds
    read,       \* history: records of this realm a reader accepted
    cleared,    \* history: seq at the last clearHookedCalls() of this realm
    foreign     \* history: a drain of this realm used another realm's cursor

page == <<realm, seq, base, accounted, dropped>>
feeder == <<ack, gen, call>>
history == <<read, cleared, foreign>>
vars == <<page, feeder, mcp, history>>

Later(a, b) == IF a > b THEN a ELSE b
Sooner(a, b) == IF a < b THEN a ELSE b

Cursor == [at : Nat, realm : Nat]

(* A cursor tells its holder where it stands in the stream of this page,   *)
(* unless it was learnt from an earlier realm.                             *)
Genuine(c) == c.at = 0 \/ c.realm = realm

NoCall == [pc |-> "idle", after |-> [at |-> 0, realm |-> 0], gen |-> 0,
           lo |-> 0, hi |-> 0, next |-> 0, realm |-> 0]

Call == [pc : {"idle", "asked", "answered", "stored"}, after : Cursor, gen : Nat,
         lo : Nat, hi : Nat, next : Nat, realm : Nat]

Init ==
    /\ realm = 0 /\ seq = 0 /\ base = 0 /\ accounted = 0 /\ dropped = 0
    /\ ack = [at |-> 0, realm |-> 0] /\ gen = 0 /\ call = NoCall
    /\ mcp = [at |-> 0, realm |-> 0]
    /\ read = {} /\ cleared = 0 /\ foreign = FALSE

-----------------------------------------------------------------------------
(* The page.                                                               *)

(* pushRecord / pushUpdate: the newest is never lost, the oldest is.       *)
Push ==
    /\ seq < MaxSeq
    /\ seq' = seq + 1
    /\ base' = Later(base, seq + 1 - Capacity)
    /\ UNCHANGED <<realm, accounted, dropped, feeder, mcp, history>>

(* What a drain after `after` returns: the records lo+1 .. hi.             *)
PageLo(after) == Later(after, base)
PageHi(after) == Sooner(PageLo(after) + Limit, Later(seq, PageLo(after)))
NextSeq(after) == IF PageHi(after) > PageLo(after) THEN PageHi(after) ELSE after

(* The accounting every drain does first: gaps below the cursor or below   *)
(* what was already accounted are not counted.                             *)
Floor(after) == Later(after, accounted)

\* Mutant: what the page answers is taken as read at once.
AccountAnswered(c) ==
    /\ dropped' = dropped + Later(0, base - Floor(c.at))
    /\ accounted' = Later(Later(Floor(c.at), base), PageHi(c.at))
    /\ foreign' = (foreign \/ ~Genuine(c))
    /\ UNCHANGED <<realm, seq, base>>

Account(c) ==
    /\ dropped' = dropped + Later(0, base - Floor(c.at))
    /\ accounted' = Later(Floor(c.at), base)
    /\ foreign' = (foreign \/ ~Genuine(c))
    /\ UNCHANGED <<realm, seq, base>>

(* clearHookedCalls: the buffer empties, the sequence does not rewind, the *)
(* drop count restarts.                                                    *)
ClearHookedCalls ==
    /\ base' = seq /\ accounted' = seq /\ cleared' = seq /\ dropped' = 0
    /\ UNCHANGED <<realm, seq, feeder, mcp, read, foreign>>

(* The page reloads, or the user switches to another miniapp: a new realm  *)
(* whose stream starts over.                                               *)
Reload ==
    /\ realm < MaxRealm
    /\ realm' = realm + 1
    /\ seq' = 0 /\ base' = 0 /\ accounted' = 0 /\ dropped' = 0
    /\ read' = {} /\ cleared' = 0 /\ foreign' = FALSE
    /\ UNCHANGED <<feeder, mcp>>

-----------------------------------------------------------------------------
(* The feeder (HookFeeder.drainOnce).                                      *)

Ask ==
    /\ call.pc = "idle"
    /\ call' = [NoCall EXCEPT !.pc = "asked", !.after = ack, !.gen = gen]
    /\ UNCHANGED <<page, ack, gen, mcp, history>>

(* The page evaluates the drain and its answer travels back.               *)
Answer ==
    /\ call.pc = "asked"
    /\ Account(call.after)
    /\ call' = [call EXCEPT !.pc = "answered", !.realm = realm,
                            !.lo = PageLo(call.after.at), !.hi = PageHi(call.after.at),
                            !.next = NextSeq(call.after.at)]
    /\ UNCHANGED <<ack, gen, mcp, read, cleared>>

(* The request or its answer is lost, or storing the records or the        *)
(* settled frames failed: the tick ends and the next one asks again from   *)
(* the same cursor.                                                        *)
Abandon ==
    /\ call.pc # "idle"
    /\ call' = NoCall
    /\ UNCHANGED <<page, ack, gen, mcp, history>>

(* The page is persisted unless the generation moved during the drain.     *)
Ingest ==
    /\ call.pc = "answered"
    /\ call.gen = gen
    /\ call' = [call EXCEPT !.pc = "stored"]
    /\ read' = IF call.realm = realm THEN read \cup (call.lo + 1 .. call.hi) ELSE read
    /\ UNCHANGED <<page, ack, gen, mcp, cleared, foreign>>

(* A page whose generation moved during the ingest leaves the cursor alone. *)
WriteBack ==
    /\ call.pc = "stored"
    /\ ack' = IF call.gen = gen /\ call.next > ack.at
              THEN [at |-> call.next, realm |-> call.realm] ELSE ack
    /\ call' = NoCall
    /\ UNCHANGED <<page, gen, mcp, history>>

(* ResetAck: the hook was (re)installed or the miniapp switched.           *)
ResetAck ==
    /\ gen < MaxGen
    /\ ack' = [at |-> 0, realm |-> 0]
    /\ gen' = gen + 1
    /\ UNCHANGED <<page, call, mcp, history>>

(* HookFeeder.Clear: the cursor stays, the page in flight is void.         *)
Clear ==
    /\ gen < MaxGen
    /\ gen' = gen + 1
    /\ UNCHANGED <<page, ack, call, mcp, history>>

-----------------------------------------------------------------------------
(* The MCP agent reads the same stream with a cursor of its own: the one   *)
(* it was given last, or 0.                                                *)
McpHookDrain(c) ==
    /\ c.at = 0 \/ c = mcp
    /\ Account(c)
    /\ read' = read \cup (PageLo(c.at) + 1 .. PageHi(c.at))
    /\ mcp' = [at |-> NextSeq(c.at),
               realm |-> IF PageHi(c.at) > PageLo(c.at) THEN realm ELSE c.realm]
    /\ UNCHANGED <<feeder, cleared>>

(* The page answered, the agent never saw it.                              *)
McpHookDrainLost(c) ==
    /\ c.at = 0 \/ c = mcp
    /\ Account(c)
    /\ UNCHANGED <<feeder, mcp, read, cleared>>

McpLoses == McpHookDrainLost(mcp) \/ McpHookDrainLost([at |-> 0, realm |-> 0])

McpReads == McpHookDrain(mcp) \/ McpHookDrain([at |-> 0, realm |-> 0])

Next ==
    \/ Push \/ ClearHookedCalls \/ Reload
    \/ Ask \/ Answer \/ Abandon \/ Ingest \/ WriteBack
    \/ ResetAck \/ Clear
    \/ McpReads \/ McpLoses

Spec == Init /\ [][Next]_vars

-----------------------------------------------------------------------------
(* The value of every variable; the ring never exceeds its capacity.       *)
TypeOK ==
    /\ {realm, seq, base, accounted, dropped, gen, cleared} \subseteq Nat
    /\ base <= seq /\ seq - base <= Capacity
    /\ ack \in Cursor /\ mcp \in Cursor /\ call \in Call
    /\ read \subseteq Nat /\ foreign \in BOOLEAN

(* Records the drops stand for: below the accounting mark, not emptied by  *)
(* a clear, and accepted by no reader.                                     *)
Unread == (cleared + 1 .. accounted) \ read

(* The page's drop count (droppedRecords, shown as "discarded" in the      *)
(* panel) never hides a loss: it is at least the number of accounted       *)
(* records no reader accepted, whatever requests were lost, retried, made  *)
(* void or interleaved with another reader - provided the page was not     *)
(* drained with a cursor of another realm.                                 *)
NeverUnderstates == foreign \/ Cardinality(Unread) <= dropped

(* A reader's cursor skips nothing silently: every record of this realm at *)
(* or below it was accepted by a reader, counted by the page's accounting  *)
(* or emptied by a clear (drainOnce's "page.NextSeq > f.ack").             *)
SkipsNothing(c) ==
    c.at > 0 /\ c.realm = realm =>
        /\ c.at <= seq
        /\ \A s \in 1 .. c.at : s \in read \/ s <= accounted \/ s <= cleared

CursorsSkipNothing == SkipsNothing(ack) /\ SkipsNothing(mcp)

(* Whatever the readers of one page do to each other, a record they did    *)
(* not get is one the page counts.                                         *)
StreamIsHonest == NeverUnderstates /\ CursorsSkipNothing

(* What makes the two invariants inductive: where the marks stand to each  *)
(* other, that no cursor comes from a realm or a generation yet to be, and *)
(* what the answer on its way to the feeder may claim.                     *)
Marks == cleared <= base /\ cleared <= accounted

Past ==
    /\ ack.realm <= realm /\ mcp.realm <= realm
    /\ call.after.realm <= realm /\ call.realm <= realm
    /\ call.gen <= gen

CallInOrder ==
    /\ call.pc # "idle" /\ call.gen = gen => ack = call.after
    /\ call.pc \in {"answered", "stored"} =>
        /\ call.next = IF call.hi > call.lo THEN call.hi ELSE call.after.at
        /\ call.realm = realm /\ call.hi > call.lo =>
            call.lo <= accounted /\ call.hi <= seq
    /\ call.pc = "stored" /\ call.realm = realm => call.lo + 1 .. call.hi \subseteq read

StreamInv ==
    /\ TypeOK /\ Marks /\ Past /\ CallInOrder
    /\ CursorsSkipNothing /\ SkipsNothing(call.after)
    /\ NeverUnderstates
=============================================================================
