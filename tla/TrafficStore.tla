----------------------------- MODULE TrafficStore -----------------------------
(* The traffic history: src/desktop/internal/traffic/repository.go and     *)
(* maintenance.go, Convert of internal/cloud/drainer.go, the ingest and    *)
(* update sides of src/desktop/ipc_bridge.go, and the pages that the       *)
(* panel and traffic_records of internal/mcp/traffic_tools.go read.        *)
(*                                                                         *)
(* SQLite runs one transaction at a time: each is one step.  A reader asks *)
(* for one page after the other while records arrive, settle and go; a     *)
(* deletion commits first and hands the space back afterwards.             *)
EXTENDS Naturals, FiniteSets

CONSTANTS
    Calls,       \* the captured calls, by row id
    Captured,    \* of a call: when (at), its number in the page (seq), its program and type (owner)
    PageSize,    \* rows of a page
    VacuumRatio, \* vacuumRatioDenominator
    None

ASSUME StoreSizes ==
    /\ Calls \subseteq Nat /\ IsFiniteSet(Calls)
    /\ PageSize \in Nat \ {0} /\ VacuumRatio \in Nat \ {0}
    /\ Captured \in [Calls -> [at : Nat, seq : Nat, owner : {"wxapi", "cloud"}]]

VARIABLES
    stored,     \* the rows: their status and whether a response is stored
    walk,       \* the reader: its filter, its next page, the rows it is still owed
    bodies,     \* listed rows whose announced bodies traffic_records has yet to fetch
    refused,    \* history: the calls an insert left out
    blanked,    \* a body that the list announced was not there
    trim        \* the deletion whose space is being handed back

trafficVars == <<stored, walk, bodies, refused, blanked, trim>>

Rows == DOMAIN stored
Kept == [status : {"pending", "settled"}, body : BOOLEAN]
NoTrim == [pc |-> "none", deleted |-> 0]
NoWalk == [filter |-> "all", page |-> 0, owed |-> {}]

TrafficInit ==
    /\ stored = [c \in {} |-> None] /\ walk = NoWalk
    /\ bodies = {} /\ blanked = FALSE /\ refused = {} /\ trim = NoTrim

\* listWhere: the rows a filter keeps.
Matching(filter) ==
    {c \in Rows : filter = "all" \/ stored[c].status = filter}

\* What a writer does to the reader: once a row has left its filter, the rows
\* behind it have moved up and none is owed; a body that is gone is an error.
WriterPassed ==
    /\ walk' = IF Matching(walk.filter) \subseteq {c \in DOMAIN stored' :
                      walk.filter = "all" \/ stored'[c].status = walk.filter}
               THEN walk ELSE [walk EXCEPT !.owed = {}]
    /\ bodies' = bodies \cap DOMAIN stored'
    /\ UNCHANGED blanked

-----------------------------------------------------------------------------
\* Mutant: the key of migration 001.
KeyWithoutOwner(c) == <<Captured[c].at, Captured[c].seq>>

\* UNIQUE (appid, api_type, captured_at, seq).
Key(c) == <<Captured[c].owner, Captured[c].at, Captured[c].seq>>

\* Convert: a record is drained while its call waits, or after it settled
\* with or without something to show.
Convert == {k \in Kept : k.status = "settled" \/ ~ k.body}

\* InsertBatch: INSERT OR IGNORE, in one transaction.
InsertBatch(batch, drained) ==
    LET fresh == {c \in batch \ Rows : \A d \in Rows \cup batch :
                     d # c /\ Key(d) = Key(c) => d \notin Rows /\ c < d}
    IN  /\ stored' = [c \in Rows \cup fresh |-> IF c \in Rows THEN stored[c] ELSE drained]
        /\ refused' = refused \cup (batch \ (Rows \cup fresh))

\* ingestHookBatch (bound: batches of one or two records).
IngestHookBatch(batch) ==
    /\ \E drained \in Convert : InsertBatch(batch, drained)
    /\ WriterPassed /\ UNCHANGED trim

\* Mutant: one statement for every frame: one without a response stores none.
BlankingUpdate(c, body) ==
    stored' = IF c \in Rows
              THEN [stored EXCEPT ![c] = [status |-> "settled", body |-> body]] ELSE stored

\* ApplyUpdates: a frame without a response settles the status alone; one for
\* a row that is not stored matches nothing.
ApplyUpdate(c, body) ==
    stored' = IF c \in Rows
              THEN [stored EXCEPT ![c] = [status |-> "settled", body |-> @.body \/ body]] ELSE stored

\* applyHookUpdates: only a settled frame with a rid passes
\* settledTrafficRecordFor.
ApplyHookUpdate(c) ==
    \E frame \in {"answer", "status", "other"} :
        /\ IF frame = "other" THEN UNCHANGED stored ELSE ApplyUpdate(c, frame = "answer")
        /\ WriterPassed /\ UNCHANGED <<refused, trim>>

-----------------------------------------------------------------------------
\* ORDER BY captured_at DESC, seq DESC, id DESC.
NewerRow(c, d) ==
    LET x == Captured[c] y == Captured[d]
    IN  \/ x.at > y.at \/ (x.at = y.at /\ x.seq > y.seq)
        \/ x.at = y.at /\ x.seq = y.seq /\ c > d

\* List: LIMIT PageSize OFFSET (page - 1) * PageSize.
Page(filter, page) ==
    LET rank(c) == Cardinality({d \in Matching(filter) : NewerRow(d, c)})
    IN  {c \in Matching(filter) : (page - 1) * PageSize <= rank(c) /\ rank(c) < page * PageSize}

\* (Bound: the reader waits while space is handed back, which moves no row.)
ReaderRuns == trim.pc = "none"

\* The reader starts over with a filter.
BeginWalk(filter) ==
    /\ ReaderRuns /\ walk.page = 0
    /\ walk' = [filter |-> filter, page |-> 1, owed |-> Matching(filter)]
    /\ UNCHANGED <<stored, bodies, refused, blanked, trim>>

\* List: the page and the total that travels with it come from one read
\* transaction; the reader asks for pages as far as the total says.
ListPage ==
    LET items == Page(walk.filter, walk.page)
        total == Cardinality(Matching(walk.filter))
    IN  /\ ReaderRuns /\ walk.page > 0 /\ ~ (walk.page > 1 /\ (walk.page - 1) * PageSize >= total)
        /\ walk' = [walk EXCEPT !.page = @ + 1, !.owed = @ \ items]
        /\ bodies' = {c \in items : stored[c].body}
        /\ UNCHANGED <<stored, refused, blanked, trim>>

\* The last page was read.
WalkIsOver ==
    walk.page > 1 /\ (walk.page - 1) * PageSize >= Cardinality(Matching(walk.filter))

EndList ==
    /\ ReaderRuns /\ WalkIsOver /\ walk' = NoWalk
    /\ UNCHANGED <<stored, bodies, refused, blanked, trim>>

\* bodyPreview: GetBody of one listed row, in a transaction of its own.  A
\* row that is gone is an error in its entry.
PreviewBody(c) ==
    /\ ReaderRuns /\ c \in bodies /\ bodies' = bodies \ {c}
    /\ blanked' = (blanked \/ ~ stored[c].body)
    /\ UNCHANGED <<stored, walk, refused, trim>>

-----------------------------------------------------------------------------
\* Delete: the rows go in one transaction (bound: one deletion at a time has
\* its space handed back).
DeleteRows(ids) ==
    /\ trim.pc = "none"
    /\ stored' = [c \in Rows \ ids |-> stored[c]]
    /\ trim' = [pc |-> "checkpoint", deleted |-> Cardinality(ids \cap Rows)]
    /\ WriterPassed /\ UNCHANGED refused

\* Clear: every row, the same way.
ClearStore == DeleteRows(Calls)

\* reclaim: a checkpoint; nothing more after an empty deletion.
Checkpoint ==
    /\ trim.pc = "checkpoint"
    /\ trim' = IF trim.deleted = 0 THEN NoTrim ELSE [trim EXCEPT !.pc = "count"]
    /\ UNCHANGED <<stored, walk, bodies, refused, blanked>>

\* Less than a fifth of what there was.
TooSmall(remaining) == trim.deleted * VacuumRatio < remaining + trim.deleted

\* reclaim: the rows are counted after the commit, and after whatever else
\* was committed since; a count that fails ends it.
CountRecords ==
    /\ trim.pc = "count"
    /\ \/ trim' = NoTrim
       \/ ~ TooSmall(Cardinality(Rows)) /\ trim' = [trim EXCEPT !.pc = "vacuum"]
    /\ UNCHANGED <<stored, walk, bodies, refused, blanked>>

\* VACUUM rewrites the file; whether each step succeeded is told in the
\* answer, and the deletion stands either way.
Vacuum ==
    /\ trim.pc = "vacuum" /\ trim' = NoTrim
    /\ UNCHANGED <<stored, walk, bodies, refused, blanked>>

TrafficNext ==
    \/ \E c, d \in Calls : c <= d /\ IngestHookBatch({c, d})
    \/ \E c \in Calls : ApplyHookUpdate(c) \/ PreviewBody(c)
    \/ \E filter \in {"all", "pending"} : BeginWalk(filter)
    \/ ListPage \/ EndList
    \/ \E c \in Calls : DeleteRows({c})
    \/ ClearStore \/ Checkpoint \/ CountRecords \/ Vacuum

TrafficSpec == TrafficInit /\ [][TrafficNext]_trafficVars

-----------------------------------------------------------------------------
\* Every variable has its type.
TrafficTypeOK ==
    /\ Rows \subseteq Calls /\ stored \in [Rows -> Kept]
    /\ walk \in [filter : {"all", "pending"}, page : Nat, owed : SUBSET Calls]
    /\ blanked \in BOOLEAN
    /\ refused \subseteq Calls /\ bodies \subseteq Calls
    /\ trim \in [pc : {"none", "checkpoint", "count", "vacuum"}, deleted : Nat]

\* A reader that reads page after page, newest first, is shown every row its
\* filter matched when it began, however many arrive meanwhile: only a row
\* that leaves the filter lets another slip from one page past the next.
NoRowIsSkipped == WalkIsOver => walk.owed = {}

\* A body that a page announced is there when it is fetched, unless its row
\* was deleted between the two reads.
AnnouncedBodiesAreThere == ~ blanked

\* A call that is ingested is stored, even when another page captured one in
\* the same millisecond with the same number.
IngestedIsStored == refused = {}

\* The history shows what was captured: every call is stored, pages skip none,
\* and what a page announces is there.
HistoryIsHonest == IngestedIsStored /\ NoRowIsSkipped /\ AnnouncedBodiesAreThere

\* What the rows tell of every call. (A row that waits holds no response.)
shown == [c \in Calls |-> IF c \notin Rows THEN "unknown"
                          ELSE IF stored[c].status = "pending" THEN "waiting"
                          ELSE IF stored[c].body THEN "answered" ELSE "settled"]

History == INSTANCE Evidence WITH evidence <- shown

\* What is captured stays: the history implements Evidence. Until its row is
\* deleted, a settled call never waits again and a stored response is never
\* blanked by a late, partial or replayed frame.
KeepsTheEvidence == History!EvidenceSpec
==============================================================================
