----------------------------- MODULE ConsoleLog -----------------------------
(* The console capture of the shell: the bounded ring of                   *)
(* src/desktop/console_log.go, its two producers (the collector that polls *)
(* the console feeder and the events the Core pushes), the console.clear   *)
(* handler and the panel that reads the ring by sequence number.           *)
(*                                                                         *)
(* A record is the number of its birth.  What matters about it is the      *)
(* order of the steps that move it, so every hand-over is its own step.    *)
EXTENDS Integers, Sequences, FiniteSets, Selection

CONSTANTS
    Capacity,   \* consoleCapacity: records the ring retains
    PageSize,   \* CONSOLE_PAGE_SIZE: rows one console.list returns
    MaxBorn,    \* bound: records the page and the Core produce
    MaxClears   \* bound: runs of console.clear

ASSUME ConsoleCapacity == Capacity \in Nat \ {0}
ASSUME ConsolePageSize == PageSize \in Nat \ {0}

VARIABLES
    born,            \* records produced so far
    buffer,          \* the page's console buffer past the feeder's cursor
    drain,           \* the page the feeder has drained and not yet stored
    feederGen,       \* HookFeeder.gen
    pending,         \* HookFeeder.pending
    events,          \* console events the Core pushed, in order
    handler,         \* handleCoreEvent between its two calls on the ring
    collector,       \* one tick of startConsoleCollector
    ring,            \* consoleLog.records
    ringSeq,         \* consoleLog.seq
    ringEpoch,       \* consoleLog.epoch
    clearedThrough,  \* consoleLog.clearedThrough
    clear,           \* the console.clear in progress and who asked for it
    panel,           \* the panel: its marker, epoch, rows and dropped count
    poll,            \* the answer of the panel's console.list on its way
    told,            \* history: what the panel was told is lost
    wiped,           \* history: what another client cleared under the panel
    base,            \* history: clearedThrough when the panel last cleared
    doomed,          \* history: records a clear has discarded
    clears           \* bound: how many clears ran

source == <<born, buffer, drain, feederGen, pending, events>>
log == <<ring, ringSeq, ringEpoch, clearedThrough>>
reader == <<panel, poll, told, base>>
consoleVars == <<source, handler, collector, log, clear, reader, wiped, doomed,
                 clears>>

LaterOf(a, b) == IF a > b THEN a ELSE b
Elements(s) == {s[i] : i \in DOMAIN s}
Newest(s, n) == IF Len(s) > n THEN SubSeq(s, Len(s) - n + 1, Len(s)) ELSE s
Oldest(s, n) == IF Len(s) > n THEN SubSeq(s, 1, n) ELSE s

NoDrain == [pc |-> "idle", batch |-> <<>>, gen |-> 0]
NoEvent == [pc |-> "idle", id |-> 0, epoch |-> 0]
NoTick == [pc |-> "idle", batch |-> <<>>, epoch |-> 0]
NoClear == [pc |-> "idle", by |-> "panel", ids |-> {}]
NoPoll == [pc |-> "idle", epoch |-> 0, rows |-> <<>>, more |-> FALSE, lost |-> {}]

ConsoleInit ==
    /\ born = 0 /\ buffer = <<>> /\ drain = NoDrain /\ feederGen = 0
    /\ pending = <<>> /\ events = <<>>
    /\ handler = NoEvent /\ collector = NoTick
    /\ ring = <<>> /\ ringSeq = 0 /\ ringEpoch = 0 /\ clearedThrough = 0
    /\ clear = NoClear /\ poll = NoPoll
    /\ panel = [marker |-> 0, epoch |-> 0, rows |-> <<>>, dropped |-> 0]
    /\ told = {} /\ wiped = {} /\ base = 0 /\ doomed = {} /\ clears = 0

-----------------------------------------------------------------------------
(* The ring.                                                               *)

Stamped(batch) == [i \in 1 .. Len(batch) |-> [seq |-> ringSeq + i, id |-> batch[i]]]

(* consoleLog.Append: a batch whose epoch is over is dropped, the ring     *)
(* keeps its newest Capacity records.                                      *)
AppendToRing(batch, epoch) ==
    IF batch = <<>> \/ epoch # ringEpoch THEN UNCHANGED log
    ELSE /\ ringSeq' = ringSeq + Len(batch)
         /\ ring' = Newest(ring \o Stamped(batch), Capacity)
         /\ UNCHANGED <<ringEpoch, clearedThrough>>

(* consoleLog.List: the records after a sequence number, one page of them, *)
(* and the gap before them, measured from the later of the marker and the  *)
(* last clear.                                                             *)
List(after, limit) ==
    LET fresh == Pick(ring, {i \in DOMAIN ring : ring[i].seq > after})
        floor == LaterOf(after, clearedThrough)
    IN [rows |-> Oldest(fresh, limit), more |-> Len(fresh) > limit,
        lost |-> IF ring = <<>> THEN {} ELSE floor + 1 .. ring[1].seq - 1]

-----------------------------------------------------------------------------
(* The producers.                                                          *)

(* An uncaught error of the page: the console hook buffers it.             *)
PageRecord ==
    /\ born < MaxBorn
    /\ born' = born + 1
    /\ buffer' = Append(buffer, born + 1)
    /\ UNCHANGED <<drain, feederGen, pending, events, handler, collector, log,
                   clear, reader, wiped, doomed, clears>>

(* A console call: the Core sees it on CDP and pushes an event.            *)
CoreRecord ==
    /\ born < MaxBorn
    /\ born' = born + 1
    /\ events' = Append(events, born + 1)
    /\ UNCHANGED <<buffer, drain, feederGen, pending, handler, collector, log,
                   clear, reader, wiped, doomed, clears>>

(* drainOnce asks: the page answers what is behind the cursor.             *)
DrainAnswer ==
    /\ drain.pc = "idle" /\ buffer # <<>>
    /\ drain' = [pc |-> "answered", batch |-> buffer, gen |-> feederGen]
    /\ UNCHANGED <<born, buffer, feederGen, pending, events, handler, collector,
                   log, clear, reader, wiped, doomed, clears>>

(* drainOnce stores: a page drained before a clear is dropped, and its     *)
(* records stay behind the cursor.                                         *)
DrainStore ==
    /\ drain.pc = "answered"
    /\ drain' = NoDrain
    /\ IF drain.gen = feederGen
       THEN /\ pending' = pending \o drain.batch
            /\ buffer' = Pick(buffer, {i \in DOMAIN buffer : buffer[i] \notin Elements(drain.batch)})
       ELSE UNCHANGED <<pending, buffer>>
    /\ UNCHANGED <<born, feederGen, events, handler, collector, log, clear,
                   reader, wiped, doomed, clears>>

\* Mutant: the epoch is taken after the poll.
CollectorEpochLate ==
    \/ /\ collector.pc = "idle" /\ pending # <<>>
       /\ collector' = [pc |-> "epoch", batch |-> pending, epoch |-> 0]
       /\ pending' = <<>>
       /\ UNCHANGED <<born, buffer, drain, feederGen, events, handler, log, clear,
                      reader, wiped, doomed, clears>>
    \/ /\ collector.pc = "epoch"
       /\ collector' = [collector EXCEPT !.pc = "batch", !.epoch = ringEpoch]
       /\ UNCHANGED <<source, handler, log, clear, reader, wiped, doomed, clears>>

(* A tick of the collector takes the ring's epoch, and then polls.         *)
CollectorTake ==
    \/ /\ collector.pc = "idle" /\ pending # <<>>
       /\ collector' = [NoTick EXCEPT !.pc = "epoch", !.epoch = ringEpoch]
       /\ UNCHANGED <<source, handler, log, clear, reader, wiped, doomed, clears>>
    \/ /\ collector.pc = "epoch"
       /\ collector' = [collector EXCEPT !.pc = "batch", !.batch = pending]
       /\ pending' = <<>>
       /\ UNCHANGED <<born, buffer, drain, feederGen, events, handler, log, clear,
                      reader, wiped, doomed, clears>>

CollectorAppend ==
    /\ collector.pc = "batch"
    /\ AppendToRing(collector.batch, collector.epoch)
    /\ collector' = NoTick
    /\ UNCHANGED <<source, handler, clear, reader, wiped, doomed, clears>>

(* handleCoreEvent: Append(record, Epoch()) evaluates Epoch first and      *)
(* takes the lock again for Append.                                        *)
EventTake ==
    /\ handler.pc = "idle" /\ events # <<>>
    /\ handler' = [pc |-> "epoch", id |-> Head(events), epoch |-> ringEpoch]
    /\ events' = Tail(events)
    /\ UNCHANGED <<born, buffer, drain, feederGen, pending, collector, log, clear,
                   reader, wiped, doomed, clears>>

EventAppend ==
    /\ handler.pc = "epoch"
    /\ AppendToRing(<<handler.id>>, handler.epoch)
    /\ handler' = NoEvent
    /\ UNCHANGED <<source, collector, clear, reader, wiped, doomed, clears>>

-----------------------------------------------------------------------------
(* console.clear, asked for by the panel or by an agent.                   *)

(* The page first: HookClear is a round-trip whose failure is ignored.     *)
ClearPage(by, answered) ==
    /\ clear.pc = "idle" /\ clears < MaxClears
    /\ clears' = clears + 1
    /\ clear' = [pc |-> "page", by |-> by, ids |-> IF answered THEN Elements(buffer) ELSE {}]
    /\ buffer' = IF answered THEN <<>> ELSE buffer
    /\ UNCHANGED <<born, drain, feederGen, pending, events, handler, collector,
                   log, reader, wiped, doomed>>

(* Then the feeder: its buffer is dropped and the page in flight voided.   *)
ClearFeeder ==
    /\ clear.pc = "page"
    /\ clear' = [clear EXCEPT !.pc = "feeder", !.ids = @ \cup Elements(pending)]
    /\ pending' = <<>>
    /\ feederGen' = feederGen + 1
    /\ UNCHANGED <<born, buffer, drain, events, handler, collector, log, reader,
                   wiped, doomed, clears>>

(* Then the ring: everything up to ringSeq left by the user's own request, *)
(* and whatever a producer already holds belongs to the epoch that ends.   *)
ClearRing ==
    /\ clear.pc = "feeder"
    /\ ring' = <<>> /\ clearedThrough' = ringSeq /\ ringEpoch' = ringEpoch + 1
    /\ UNCHANGED ringSeq
    /\ doomed' = doomed \cup clear.ids \cup {ring[i].id : i \in DOMAIN ring}
                        \cup Elements(collector.batch)
                        \cup (IF handler.pc = "epoch" THEN {handler.id} ELSE {})
    /\ wiped' = wiped \cup (panel.marker + 1 .. ringSeq)
    /\ IF clear.by = "panel" THEN clear' = [clear EXCEPT !.pc = "answered"]
       ELSE clear' = NoClear
    /\ UNCHANGED <<source, handler, collector, reader, clears>>

-----------------------------------------------------------------------------
(* The panel.                                                              *)

(* pollConsole asks for what is behind its marker; one poll at a time.     *)
PanelAsk ==
    /\ poll.pc = "idle"
    /\ LET page == List(panel.marker, PageSize)
       IN  poll' = [pc |-> "answered", epoch |-> panel.epoch,
                    rows |-> page.rows, more |-> page.more, lost |-> page.lost]
    /\ UNCHANGED <<source, handler, collector, log, clear, panel, told, base,
                   wiped, doomed, clears>>

(* The answer arrives: it is dropped when the panel was cleared meanwhile, *)
(* rows at or below the marker are skipped, and the gap counts only when   *)
(* rows came with it.  The poll goes on while there is more.               *)
PanelTake ==
    /\ poll.pc = "answered"
    /\ LET fresh == Pick(poll.rows, {i \in DOMAIN poll.rows : poll.rows[i].seq > panel.marker})
       IN IF poll.epoch = panel.epoch /\ fresh # <<>>
          THEN /\ panel' = [panel EXCEPT
                              !.marker = fresh[Len(fresh)].seq,
                              !.rows = @ \o fresh,
                              !.dropped = @ + Cardinality(poll.lost)]
               /\ told' = told \cup poll.lost
          ELSE UNCHANGED <<panel, told>>
    /\ poll' = NoPoll
    /\ UNCHANGED <<source, handler, collector, log, clear, base, wiped, doomed, clears>>

(* clearConsole, after console.clear answered: the panel starts over.      *)
PanelCleared ==
    /\ clear.pc = "answered"
    /\ clear' = NoClear
    /\ panel' = [marker |-> 0, epoch |-> panel.epoch + 1, rows |-> <<>>, dropped |-> 0]
    /\ told' = {} /\ wiped' = {} /\ base' = clearedThrough
    /\ UNCHANGED <<source, handler, collector, log, poll, doomed, clears>>

-----------------------------------------------------------------------------
ConsoleNext ==
    \/ PageRecord \/ CoreRecord
    \/ DrainAnswer \/ DrainStore
    \/ CollectorTake \/ CollectorAppend
    \/ EventTake \/ EventAppend
    \/ \E by \in {"panel", "agent"}, answered \in BOOLEAN : ClearPage(by, answered)
    \/ ClearFeeder \/ ClearRing
    \/ PanelAsk \/ PanelTake \/ PanelCleared

ConsoleSpec == ConsoleInit /\ [][ConsoleNext]_consoleVars

-----------------------------------------------------------------------------
(* Types.                                                                  *)
RingRecord == [seq : Nat, id : Nat]

ConsoleTypeOK ==
    /\ ring \in Seq(RingRecord) /\ ringSeq \in Nat
    /\ ringEpoch \in Nat /\ clearedThrough \in Nat /\ feederGen \in Nat
    /\ panel.marker \in Nat /\ panel.epoch \in Nat /\ panel.dropped \in Nat

(* The ring is the window of the newest records since the last clear: its  *)
(* sequence numbers have no hole, never exceed the capacity and never      *)
(* reach below the clear.  The evicted count of console.list's tail and    *)
(* the dropped count of its pages are right only because of it.            *)
RingIsWindow ==
    /\ Len(ring) <= Capacity
    /\ clearedThrough + Len(ring) <= ringSeq
    /\ \A i \in 1 .. Len(ring) : ring[i].seq = ringSeq - Len(ring) + i

(* What console.clear discarded does not come back as new rows, whichever  *)
(* producer held it when the clear ran (console_log.go:50).                *)
ClearedRowsStayGone == \A i \in DOMAIN ring : ring[i].id \notin doomed

(* The panel never shows a silent gap: every sequence number behind its    *)
(* marker was shown, was reported as discarded, or was cleared by another  *)
(* client; none is reported and shown, or shown twice.                     *)
GapsAreReported ==
    LET shown == {panel.rows[i].seq : i \in DOMAIN panel.rows}
    IN clear.pc # "answered" =>
         /\ \A s \in base + 1 .. panel.marker : s \in shown \cup told \cup wiped
         /\ shown \cap told = {}
         /\ Cardinality(shown) = Len(panel.rows)
         /\ panel.dropped = Cardinality(told)

\* The three together: what the panel and the console's tools rely on.
ConsoleKeepsItsWord == RingIsWindow /\ ClearedRowsStayGone /\ GapsAreReported

=============================================================================
