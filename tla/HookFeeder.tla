----------------------------- MODULE HookFeeder -----------------------------
(***************************************************************************)
(* A capture from the page to the shell: the page hook (core/hooks/         *)
(* wxapi.js), the shell's drain loop (hookfeeder.go, drainOnce) and the    *)
(* traffic store behind its ingest and apply callbacks, with the handlers  *)
(* that run against the loop: polling, clearing, and hook injection after  *)
(* the page realm was rebuilt.  What the capture panel makes of polls and  *)
(* events is CapturePanel's.                                               *)
(*                                                                         *)
(* A capture is identified by its rid, here the realm it was made in and   *)
(* its sequence number there.  A call is "pending" until its one callback  *)
(* settles it; its payload is left out.                                    *)
(***************************************************************************)
EXTENDS Integers, FiniteSets, Sequences, Selection

CONSTANTS
    RecordCap,       \* RECORD_BUFFER_CAPACITY
    UpdateCap,       \* UPDATE_BUFFER_CAPACITY
    DrainLimit,      \* feedDrainLimit
    UpdateLimit,     \* feedUpdateLimit
    MaxRecordRounds, \* maxRecordRounds
    MaxUpdateRounds, \* maxUpdateRounds
    MaxPending,      \* maxPendingRecords
    DeliveredCap,    \* deliveredCapacity
    PollLimit,       \* records in one wxapi.poll answer
    MaxSeq,          \* bound: captures per realm
    MaxRealm,        \* bound: reloads of the page
    MaxRefresh,      \* bound: no in-realm refresh starts from this generation on
    MaxClear         \* bound: no clear starts from this generation on

(* The FIFO holds more than both buffers of the page (16384 against 5000 + *)
(* 5000), which hookfeeder_test.go:944-953 asserts.                        *)
ASSUME HookFeederAssumption ==
    /\ {RecordCap, UpdateCap, DrainLimit, UpdateLimit, MaxRecordRounds,
        MaxUpdateRounds, MaxPending, DeliveredCap, PollLimit} \subseteq Nat \ {0}
    /\ DeliveredCap > RecordCap + UpdateCap
    /\ {MaxSeq, MaxRealm, MaxRefresh, MaxClear} \subseteq Nat

VARIABLES
    \* the page
    realm,      \* identity of the page context
    hooked,     \* the hook is installed in it
    recordSeq,  \* hookState.seq
    records,    \* hookState.buffer: [seq, status]
    updateSeq,  \* hookState.updateSeq
    updates,    \* hookState.updates: [seq, rid]
    \* the feeder
    ack,        \* HookFeeder.ack
    updateAck,  \* HookFeeder.updateAck
    gen,        \* HookFeeder.gen
    pending,    \* HookFeeder.pending: [rid, status], oldest first
    delivered,  \* HookFeeder.deliveredFIFO, oldest first: <<flow, rid>>
    tick,       \* locals of the drainOnce in progress
    \* the traffic store
    rows,       \* rids with a row
    landed,     \* rids whose row carries the outcome
    \* handlers in progress
    inject,     \* autoInjectHooks
    clear,      \* wxapi.clear
    \* histories
    buffered,   \* rids that entered `pending`
    repeated,   \* rids that entered it more than once
    gone        \* rids the user cleared

page == <<realm, hooked, recordSeq, records, updateSeq, updates>>
feeder == <<ack, updateAck, gen, pending, delivered>>
store == <<rows, landed>>
history == <<buffered, repeated, gone>>
vars == <<page, feeder, tick, store, inject, clear, history>>

Status == {"pending", "settled"}
Rid == (0 .. MaxRealm) \X (1 .. MaxSeq)
Record == [seq : Nat \ {0}, status : Status]
Frame == [seq : Nat \ {0}, rid : Rid]
Captured == [rid : Rid, status : Status]
Drained == [seq : Nat \ {0}, rid : Rid, status : Status]
Tick == [pc : {"idle", "round", "ask", "persist", "write", "deliver", "emit"},
         tickGen : Nat, gen : Nat, ack : Nat, updateAck : Nat,
         records : Seq(Drained), updates : Seq(Frame), hasMore : BOOLEAN,
         captures : Seq(Captured), patches : SUBSET Rid,
         recordRounds : Nat, updateRounds : Nat]

\* The newest n elements of a bounded buffer.
Newest(s, n) == IF Len(s) > n THEN SubSeq(s, Len(s) - n + 1, Len(s)) ELSE s
RidsOf(s) == {s[i].rid : i \in DOMAIN s}
Settled(s) == {s[i].rid : i \in {j \in DOMAIN s : s[j].status = "settled"}}

NoTick == [pc |-> "idle", tickGen |-> 0, gen |-> 0, ack |-> 0, updateAck |-> 0,
           records |-> <<>>, updates |-> <<>>, hasMore |-> FALSE,
           captures |-> <<>>, patches |-> {}, recordRounds |-> 0, updateRounds |-> 0]

Init ==
    /\ realm = 0 /\ hooked = TRUE
    /\ recordSeq = 0 /\ records = <<>> /\ updateSeq = 0 /\ updates = <<>>
    /\ ack = 0 /\ updateAck = 0 /\ gen = 0 /\ pending = <<>> /\ delivered = <<>>
    /\ tick = NoTick
    /\ rows = {} /\ landed = {}
    /\ inject = "idle" /\ clear = [pc |-> "idle", mark |-> {}]
    /\ buffered = {} /\ repeated = {} /\ gone = {}

-----------------------------------------------------------------------------
(* The page.                                                               *)

PushUpdate(r) ==
    /\ updateSeq' = updateSeq + 1
    /\ updates' = Newest(Append(updates, [seq |-> updateSeq + 1, rid |-> r]), UpdateCap)

(* A wrapped wx.* call is recorded; a synchronous one is settled at once.  *)
Capture(status) ==
    /\ hooked /\ recordSeq < MaxSeq
    /\ recordSeq' = recordSeq + 1
    /\ records' = Newest(Append(records, [seq |-> recordSeq + 1, status |-> status]), RecordCap)
    /\ IF status = "settled" THEN PushUpdate(<<realm, recordSeq + 1>>)
       ELSE UNCHANGED <<updateSeq, updates>>
    /\ UNCHANGED <<realm, hooked, feeder, tick, store, inject, clear, history>>

(* A callback settles its record in the buffer, if it is still there.      *)
SettleBySeq(i) ==
    /\ records[i].status = "pending"
    /\ records' = [records EXCEPT ![i].status = "settled"]
    /\ PushUpdate(<<realm, records[i].seq>>)
    /\ UNCHANGED <<realm, hooked, recordSeq, feeder, tick, store, inject, clear, history>>

(* The page is rebuilt: a new realm without the hook; the status poller    *)
(* notices the new generation and schedules the injection.  An injection   *)
(* still under way for the old realm becomes the new one's.                *)
Reload ==
    /\ realm < MaxRealm
    /\ realm' = realm + 1 /\ hooked' = FALSE
    /\ recordSeq' = 0 /\ records' = <<>> /\ updateSeq' = 0 /\ updates' = <<>>
    /\ inject' = "install"
    /\ UNCHANGED <<feeder, tick, store, clear, history>>

(* setupContext again in the same realm: the generation moves, the page    *)
(* keeps its buffers.                                                      *)
SetupContext ==
    /\ gen < MaxRefresh /\ inject = "idle"
    /\ inject' = "install"
    /\ UNCHANGED <<page, feeder, tick, store, clear, history>>

-----------------------------------------------------------------------------
(* autoInjectHooks: install the hook, then restart the cursors, whether    *)
(* the installation succeeded or not.                                      *)

InstallHook ==
    /\ inject = "install"
    /\ \E ok \in BOOLEAN : hooked' = (hooked \/ ok)
    /\ inject' = "reset"
    /\ UNCHANGED <<realm, recordSeq, records, updateSeq, updates, feeder, tick, store,
                   clear, history>>

\* Mutant: the cursors restart, the generation does not move.
ResetAckKeepsGen ==
    /\ inject = "reset"
    /\ ack' = 0 /\ updateAck' = 0
    /\ inject' = "idle"
    /\ UNCHANGED <<page, gen, pending, delivered, tick, store, clear, history>>

ResetAck ==
    /\ inject = "reset"
    /\ ack' = 0 /\ updateAck' = 0 /\ gen' = gen + 1
    /\ inject' = "idle"
    /\ UNCHANGED <<page, pending, delivered, tick, store, clear, history>>

-----------------------------------------------------------------------------
(* wxapi.clear: first the page, over CDP and ignoring its failure, then    *)
(* the shell.                                                              *)

HookClear ==
    /\ clear.pc = "idle" /\ gen < MaxClear
    /\ \/ /\ records' = <<>> /\ updates' = <<>>
          /\ clear' = [pc |-> "shell", mark |-> {realm} \X (1 .. recordSeq)]
       \/ /\ clear' = [pc |-> "shell", mark |-> {}]
          /\ UNCHANGED <<records, updates>>
    /\ UNCHANGED <<realm, hooked, recordSeq, updateSeq, feeder, tick, store,
                   inject, history>>

FeederClear ==
    /\ clear.pc = "shell"
    /\ pending' = <<>> /\ gen' = gen + 1
    /\ gone' = gone \cup clear.mark
    /\ clear' = [pc |-> "idle", mark |-> {}]
    /\ UNCHANGED <<page, ack, updateAck, delivered, tick, store, inject,
                   buffered, repeated>>

-----------------------------------------------------------------------------
(* wxapi.poll: the oldest PollLimit buffered records leave for the panel.  *)
PollPage == SubSeq(pending, 1, IF Len(pending) > PollLimit THEN PollLimit ELSE Len(pending))

TakePending ==
    /\ pending # <<>>
    /\ pending' = SubSeq(pending, Len(PollPage) + 1, Len(pending))
    /\ UNCHANGED <<page, ack, updateAck, gen, delivered, tick, store, inject, clear, history>>

-----------------------------------------------------------------------------
(* drainOnce: one tick, a few rounds.                                      *)

TickStart ==
    /\ tick.pc = "idle"
    /\ tick' = [NoTick EXCEPT !.pc = "round", !.tickGen = gen]
    /\ UNCHANGED <<page, feeder, store, inject, clear, history>>

RoundStart ==
    /\ tick.pc = "round"
    /\ tick' = [tick EXCEPT !.pc = "ask", !.gen = gen, !.ack = ack, !.updateAck = updateAck]
    /\ UNCHANGED <<page, feeder, store, inject, clear, history>>

\* A page of a stream: what lies beyond the cursor, up to the limit.
Beyond(stream, cursor) ==
    Pick(stream, {i \in DOMAIN stream : stream[i].seq > cursor})
PageOf(stream, cursor, limit) ==
    LET all == Beyond(stream, cursor)
    IN  IF Len(all) > limit THEN SubSeq(all, 1, limit) ELSE all
NextSeq(answer, cursor) == IF answer = <<>> THEN cursor ELSE answer[Len(answer)].seq

(* The page evaluates the drain and answers with both streams.             *)
HookDrain ==
    /\ tick.pc = "ask" /\ hooked
    /\ tick' = [tick EXCEPT
           !.pc = "persist",
           !.records = [i \in DOMAIN PageOf(records, tick.ack, DrainLimit) |->
               [seq |-> PageOf(records, tick.ack, DrainLimit)[i].seq,
                rid |-> <<realm, PageOf(records, tick.ack, DrainLimit)[i].seq>>,
                status |-> PageOf(records, tick.ack, DrainLimit)[i].status]],
           !.updates = PageOf(updates, tick.updateAck, UpdateLimit),
           !.hasMore = Len(Beyond(records, tick.ack)) > DrainLimit]
    /\ UNCHANGED <<page, feeder, store, inject, clear, history>>

(* The engine is offline, the page has no hook or the answer is lost.      *)
HookDrainFails ==
    /\ tick.pc = "ask"
    /\ tick' = [tick EXCEPT !.pc = "deliver"]
    /\ UNCHANGED <<page, feeder, store, inject, clear, history>>

EndRound(pc) == tick' = [tick EXCEPT !.pc = pc]

\* Mutant: the generation is not compared.
NeverVoid == FALSE

(* The generation moved since the round began: its page is void.           *)
PageVoid == tick.gen # gen

StalePage ==
    /\ tick.pc = "persist" /\ PageVoid
    /\ EndRound("deliver")
    /\ UNCHANGED <<page, feeder, store, inject, clear, history>>

(* markKey for a batch of keys: those already in the FIFO are filtered,    *)
(* the others enter it and push the oldest out.                            *)
Keys == {delivered[i] : i \in DOMAIN delivered}
NewKeys(flow, entries) ==
    Pick(entries, {i \in DOMAIN entries : <<flow, entries[i].rid>> \notin Keys})

\* Mutant: the FIFO holds one key less.
RegisterShort(fifo, flow, entries) ==
    Newest(fifo \o [i \in DOMAIN entries |-> <<flow, entries[i].rid>>], DeliveredCap - 1)

Register(fifo, flow, entries) ==
    Newest(fifo \o [i \in DOMAIN entries |-> <<flow, entries[i].rid>>], DeliveredCap)

\* Settled frames not delivered before (freshUpdates).
Fresh == NewKeys("update", tick.updates)

(* INSERT OR IGNORE: a row that is already there keeps its outcome, or its *)
(* lack of one.                                                            *)
Ingest ==
    /\ rows' = rows \cup RidsOf(tick.records)
    /\ landed' = landed \cup (Settled(tick.records) \ rows)

\* Ingest, then UPDATE ... WHERE rid: a frame without a row changes nothing.
IngestAndApply ==
    /\ rows' = rows \cup RidsOf(tick.records)
    /\ landed' = landed \cup (Settled(tick.records) \ rows) \cup (RidsOf(Fresh) \cap rows')

(* Nothing but this tick changes the store or the FIFO, so ingest and      *)
(* apply may stand as one step.                                            *)
Persist ==
    /\ tick.pc = "persist" /\ ~PageVoid
    /\ IngestAndApply
    /\ EndRound("write")
    /\ UNCHANGED <<page, feeder, inject, clear, history>>

\* Mutant: the storage error is ignored and the round goes on.
PersistErrorIgnored ==
    /\ tick.pc = "persist" /\ ~PageVoid
    /\ Ingest \/ UNCHANGED store
    /\ EndRound("write")
    /\ UNCHANGED <<page, feeder, inject, clear, history>>

(* ingest fails and stores nothing, or apply fails after it: the whole     *)
(* page is left to the next tick.                                          *)
PersistFails ==
    /\ tick.pc = "persist" /\ ~PageVoid
    /\ Ingest \/ UNCHANGED store
    /\ EndRound("deliver")
    /\ UNCHANGED <<page, feeder, inject, clear, history>>

\* patchPending: a settled frame reaches the record still in the buffer.
Patched(buffer, rids) ==
    [i \in DOMAIN buffer |->
        IF buffer[i].rid \in rids THEN [buffer[i] EXCEPT !.status = "settled"] ELSE buffer[i]]

\* A full round with more behind it continues within its budget.
RecordMore(rounds) ==
    /\ Len(tick.records) >= DrainLimit /\ tick.hasMore
    /\ NextSeq(tick.records, tick.ack) > tick.ack /\ rounds < MaxRecordRounds
UpdateMore(rounds) ==
    /\ Len(tick.updates) >= UpdateLimit
    /\ NextSeq(tick.updates, tick.updateAck) > tick.updateAck /\ rounds < MaxUpdateRounds

Forward(cursor, next) == IF next > cursor THEN next ELSE cursor
Full(answer, limit) == IF Len(answer) >= limit THEN 1 ELSE 0

StaleWriteBack ==
    /\ tick.pc = "write" /\ PageVoid
    /\ EndRound("deliver")
    /\ UNCHANGED <<page, feeder, store, inject, clear, history>>

(* The critical section of a round: buffer and register the new records,   *)
(* patch and register the new frames, advance both cursors, decide whether *)
(* to go on.                                                               *)
WriteBack ==
    /\ tick.pc = "write" /\ ~PageVoid
    /\ LET new == NewKeys("record", tick.records)
           batch == [i \in DOMAIN new |-> [rid |-> new[i].rid, status |-> new[i].status]]
           frames == Fresh
           rr == tick.recordRounds + Full(tick.records, DrainLimit)
           ur == tick.updateRounds + Full(tick.updates, UpdateLimit)
       IN  /\ pending' = Patched(Newest(pending \o batch, MaxPending), RidsOf(frames))
           /\ delivered' = Register(Register(delivered, "record", new), "update", frames)
           /\ ack' = Forward(ack, NextSeq(tick.records, tick.ack))
           /\ updateAck' = Forward(updateAck, NextSeq(tick.updates, tick.updateAck))
           /\ tick' = [tick EXCEPT
                  !.pc = IF RecordMore(rr) \/ UpdateMore(ur) THEN "round" ELSE "deliver",
                  !.records = <<>>, !.updates = <<>>, !.hasMore = FALSE,
                  !.captures = @ \o batch, !.patches = @ \cup RidsOf(frames),
                  !.recordRounds = rr, !.updateRounds = ur]
           /\ buffered' = buffered \cup RidsOf(batch)
           /\ repeated' = repeated \cup (RidsOf(batch) \cap buffered)
    /\ UNCHANGED <<page, gen, store, inject, clear, gone>>

(* deliver: a clear or a reset since the tick began voids the events.      *)
Deliver ==
    /\ tick.pc = "deliver"
    /\ tick' = IF tick.tickGen = gen
               THEN [NoTick EXCEPT !.pc = "emit", !.tickGen = gen,
                                   !.captures = tick.captures, !.patches = tick.patches]
               ELSE NoTick
    /\ UNCHANGED <<page, feeder, store, inject, clear, history>>

(* The tick's events leave for the panel, outside the lock.                *)
Emit ==
    /\ tick.pc = "emit"
    /\ tick' = NoTick
    /\ UNCHANGED <<page, feeder, store, inject, clear, history>>

-----------------------------------------------------------------------------
PageSteps == (\E st \in Status : Capture(st)) \/ (\E i \in DOMAIN records : SettleBySeq(i))
             \/ Reload \/ SetupContext

InjectHooks == InstallHook \/ ResetAck

Rounds == \/ TickStart \/ RoundStart \/ HookDrain \/ HookDrainFails \/ StalePage
          \/ Persist \/ PersistFails \/ StaleWriteBack \/ WriteBack \/ Deliver

Next == PageSteps \/ InjectHooks \/ HookClear \/ FeederClear \/ TakePending \/ Rounds \/ Emit

Spec == Init /\ [][Next]_vars

(* The ticker keeps running (every step of a tick ends in bounded time or  *)
(* by its context) and handlers finish; the engine and the store may fail  *)
(* any number of times, but not forever.                                   *)
Fairness ==
    /\ WF_vars(Rounds \/ Emit) /\ WF_vars(InstallHook) /\ WF_vars(ResetAck)
    /\ WF_vars(FeederClear)
    /\ SF_vars(HookDrain) /\ SF_vars(Persist)

FairSpec == Spec /\ Fairness

-----------------------------------------------------------------------------
(* The values of the variables; every buffer within its capacity.          *)
TypeOK ==
    /\ realm \in 0 .. MaxRealm /\ hooked \in BOOLEAN
    /\ recordSeq \in 0 .. MaxSeq /\ updateSeq \in Nat
    /\ records \in Seq(Record) /\ Len(records) <= RecordCap
    /\ updates \in Seq(Frame) /\ Len(updates) <= UpdateCap
    /\ {ack, updateAck, gen} \subseteq Nat
    /\ pending \in Seq(Captured) /\ Len(pending) <= MaxPending
    /\ delivered \in Seq({"record", "update"} \X Rid) /\ Len(delivered) <= DeliveredCap
    /\ tick \in Tick
    /\ {rows, landed, buffered, repeated, gone} \subseteq SUBSET Rid
    /\ inject \in {"idle", "install", "reset"}
    /\ clear.pc \in {"idle", "shell"} /\ clear.mark \subseteq Rid

(* No capture is handed to the user twice, although every reset of the     *)
(* cursors re-reads the whole page buffer and a failed tick re-reads its   *)
(* page (markDelivered; deliveredCapacity's comment, hookfeeder.go:110-120).   *)
NoDuplicate == repeated = {}

(* A capture that was handed on and could be read again is in the FIFO:    *)
(* "16384 keeps every replayed entry covered with headroom"                *)
(* (hookfeeder.go:116-117).                                                *)
ReplaysAreCovered ==
    \A i \in DOMAIN records :
        <<realm, records[i].seq>> \in buffered => <<"record", <<realm, records[i].seq>>>> \in Keys

(* What the cursors acknowledge is safely in the store: outside the window *)
(* in which a rebuilt realm waits for its reset, every buffered record at  *)
(* or below ack has its row, and every buffered frame at or below          *)
(* updateAck, or filtered by the FIFO, has settled its row if there is one.*)
AcknowledgedIsStored ==
    inject = "idle" =>
        /\ \A i \in DOMAIN records :
              records[i].seq <= ack => <<realm, records[i].seq>> \in rows
        /\ \A i \in DOMAIN updates :
              /\ updates[i].seq <= updateAck \/ <<"update", updates[i].rid>> \in Keys
              /\ updates[i].rid \in rows
              => updates[i].rid \in landed

(* What the user cleared stays cleared: once wxapi.clear emptied page and  *)
(* shell, no poll returns a capture made before it, and no tick of the new *)
(* generation emits one (R10, Clear's comment hookfeeder.go:375-382).      *)
ClearedStaysGone ==
    /\ RidsOf(pending) \cap gone = {}
    /\ tick.tickGen = gen => RidsOf(tick.captures) \cap gone = {}

(* No capture the page still holds stays out of the history: whatever      *)
(* fails in between, its row is written unless the page loses it first.    *)
EventuallyStored ==
    \A r \in Rid :
        (r[1] = realm /\ \E i \in DOMAIN records : records[i].seq = r[2])
        ~> (r \in rows \/ ~hooked \/ r[1] # realm \/ \A i \in DOMAIN records : records[i].seq # r[2])

(* No row stays pending while the page holds its outcome.                  *)
EventuallyLanded ==
    \A r \in Rid :
        (r \in rows /\ \E i \in DOMAIN updates : updates[i].rid = r)
        ~> (r \in landed \/ ~hooked \/ \A i \in DOMAIN updates : updates[i].rid # r)

(* What the page holds arrives: the calls, and how they settled.           *)
EverythingArrives == EventuallyStored /\ EventuallyLanded
=============================================================================
