------------------------------ MODULE ScanJobs ------------------------------
(***************************************************************************)
(* The scans of unpacked packages an agent asks for (internal/mcp/         *)
(* scanjob.go): requestScan accepts a job, answers polls from the registry *)
(* of jobs, and serves a finished result as long as the modification time  *)
(* of the directory has not moved.  One goroutine per accepted job queues  *)
(* for the only slot, scans outside the lock and stores its payload under  *)
(* the modification time the directory has THEN.                           *)
(*                                                                         *)
(* A directory is abstracted to the number of its contents, which stands   *)
(* for its modification time too; a payload to the contents it was read    *)
(* from.                                                                   *)
(***************************************************************************)
EXTENDS Naturals, Sequences, FiniteSets, SequencesExt, Selection

CONSTANTS
    Dirs,           \* the directories that are scanned
    ScanMaxCached,  \* scanMaxCached
    MaxEdits,       \* bound: how often the contents of a directory change
    MaxScans        \* bound: how many jobs are accepted

ASSUME ScanJobsAssumption ==
    /\ ScanMaxCached \in Nat \ {0}
    /\ MaxEdits \in Nat
    /\ MaxScans \in Nat

VARIABLES
    contents,   \* what each directory holds
    scanJob,    \* scanJobs: for each directory its job, NoJob without one
    worker,     \* the goroutine of each job: its directory, place and first reading
    slotQueue,  \* scanSlots: the job that holds it, then those blocked on it
    cache,      \* scanCache, oldest first: [dir, modTime, payload]
    served,     \* the last cached answer and what the directory held then
    raced,      \* history: directories whose cached payload was read while they changed
    untold      \* history: directories whose failed scan nobody was told about

scanVars == <<contents, scanJob, worker, slotQueue, cache, served, raced, untold>>

JobIds == 1 .. MaxScans
NoJob == [id |-> 0, err |-> FALSE]
NoReply == [payload |-> 0, held |-> 0, raced |-> FALSE]
Unborn == [dir |-> "none", pc |-> "unborn", began |-> 0]

ScanInit ==
    /\ contents = [d \in Dirs |-> 0]
    /\ scanJob = [d \in Dirs |-> NoJob]
    /\ worker = [j \in JobIds |-> Unborn]
    /\ slotQueue = <<>> /\ cache = <<>>
    /\ served = NoReply
    /\ raced = {} /\ untold = {}

\* Mutant: a cached payload is served whatever the directory holds by now.
HitsAnyTime(d) == {e \in ToSet(cache) : e.dir = d}
Hits(d) == {e \in ToSet(cache) : e.dir = d /\ e.modTime = contents[d]}

\* The unpacker or the user rewrites the directory.
Edit(d) ==
    /\ contents[d] < MaxEdits
    /\ contents' = [contents EXCEPT ![d] = @ + 1]
    /\ UNCHANGED <<scanJob, worker, slotQueue, cache, served, raced, untold>>

(* requestScan: the answer "running" changes nothing.                      *)

RequestHit(d) ==
    /\ \E e \in Hits(d) :
         served' = [payload |-> e.payload, held |-> contents[d], raced |-> d \in raced]
    /\ UNCHANGED <<contents, scanJob, worker, slotQueue, cache, raced, untold>>

\* A parked failure is reported once, and the next request starts over.
RequestTold(d) ==
    /\ Hits(d) = {} /\ scanJob[d].err
    /\ scanJob' = [scanJob EXCEPT ![d] = NoJob]
    /\ untold' = untold \ {d}
    /\ UNCHANGED <<contents, worker, slotQueue, cache, served, raced>>

Acceptable(d) == scanJob[d] = NoJob

RequestAccept(d) ==
    /\ Hits(d) = {} /\ Acceptable(d)
    /\ \E j \in JobIds :
         /\ \A i \in JobIds : i < j <=> worker[i] # Unborn
         /\ scanJob' = [scanJob EXCEPT ![d] = [id |-> j, err |-> FALSE]]
         /\ worker' = [worker EXCEPT ![j] = [dir |-> d, pc |-> "queued", began |-> 0]]
         /\ slotQueue' = Append(slotQueue, j)
    /\ UNCHANGED <<contents, cache, served, raced, untold>>

RequestScan(d) == RequestHit(d) \/ RequestTold(d) \/ RequestAccept(d)

(* The goroutine of a job.                                                 *)

HasSlot(j, pc) == worker[j].pc = pc /\ Head(slotQueue) = j

\* A result that came into the cache while this one queued is enough.
WorkerReuses(j) ==
    /\ HasSlot(j, "queued") /\ Hits(worker[j].dir) # {}
    /\ scanJob' = [scanJob EXCEPT ![worker[j].dir] = NoJob]
    /\ worker' = [worker EXCEPT ![j].pc = "leaving"]
    /\ UNCHANGED <<contents, slotQueue, cache, served, raced, untold>>

WorkerScans(j) ==
    /\ HasSlot(j, "queued") /\ Hits(worker[j].dir) = {}
    /\ worker' = [worker EXCEPT ![j].pc = "scanning", ![j].began = contents[worker[j].dir]]
    /\ UNCHANGED <<contents, scanJob, slotQueue, cache, served, raced, untold>>

ScanFails(j) ==
    /\ HasSlot(j, "scanning")
    /\ scanJob' = [scanJob EXCEPT ![worker[j].dir].err = TRUE]
    /\ worker' = [worker EXCEPT ![j].pc = "leaving"]
    /\ untold' = untold \cup {worker[j].dir}
    /\ UNCHANGED <<contents, slotQueue, cache, served, raced>>

\* evictScanCacheLocked: one entry too many costs the oldest.
EvictScanCache(entries) == IF Len(entries) > ScanMaxCached THEN Tail(entries) ELSE entries

Stored(entry) ==
    EvictScanCache(Append(Pick(cache, {i \in DOMAIN cache : cache[i].dir # entry.dir}), entry))

\* The payload shows what the directory held at some point of the scan; the
\* modification time is the one it has at the end.
ScanEnds(j) ==
    LET d == worker[j].dir
        began == worker[j].began
    IN  /\ HasSlot(j, "scanning")
        /\ \E read \in began .. contents[d] :
             cache' = Stored([dir |-> d, modTime |-> contents[d], payload |-> read])
        /\ raced' = IF began = contents[d] THEN raced \ {d} ELSE raced \cup {d}
        /\ scanJob' = [scanJob EXCEPT ![d] = NoJob]
        /\ worker' = [worker EXCEPT ![j].pc = "leaving"]
        /\ UNCHANGED <<contents, slotQueue, served, untold>>

ReleaseSlot(j) ==
    /\ HasSlot(j, "leaving")
    /\ worker' = [worker EXCEPT ![j].pc = "gone"]
    /\ slotQueue' = Tail(slotQueue)
    /\ UNCHANGED <<contents, scanJob, cache, served, raced, untold>>

WorkerStep(j) ==
    \/ WorkerReuses(j) \/ WorkerScans(j) \/ ScanFails(j) \/ ScanEnds(j) \/ ReleaseSlot(j)

ScanNext ==
    \/ \E d \in Dirs : Edit(d) \/ RequestScan(d)
    \/ \E j \in JobIds : WorkerStep(j)

ScanSpec == ScanInit /\ [][ScanNext]_scanVars

\* Goroutines run, and a scan ends.
ScanFairness == \A j \in JobIds : WF_scanVars(WorkerStep(j))

-----------------------------------------------------------------------------

\* Types; and the registry and the slot agree: a job in the registry that has
\* not failed has a goroutine that is still going to take it out.
ScanTypeOK ==
    /\ contents \in [Dirs -> 0 .. MaxEdits]
    /\ \A d \in Dirs : scanJob[d].id \in 0 .. MaxScans /\ scanJob[d].err \in BOOLEAN
    /\ \A j \in JobIds : worker[j].pc \in {"unborn", "queued", "scanning", "leaving", "gone"}
    /\ ToSet(slotQueue) \subseteq JobIds /\ Len(cache) <= ScanMaxCached
    /\ raced \subseteq Dirs /\ untold \subseteq Dirs

\* A cached answer shows what the directory holds, unless the directory changed
\* while it was being scanned: only then is an old payload filed under the new
\* modification time (scanjob.go, the cache hit and the stat after the scan).
OnlyRacedScansAreStale == served.payload = served.held \/ served.raced

\* A failed scan is told before the directory is scanned again.
FailureToldFirst == \A d \in untold : scanJob[d].err

\* The two together: what requestScan answers.
ScanAnswersHold == OnlyRacedScansAreStale /\ FailureToldFirst

\* Every accepted job leaves the registry or parks its error: the slot is handed
\* on whatever became of the scan that held it.
AcceptedScansSettle ==
    \A j \in JobIds : (worker[j].pc = "queued") ~> (worker[j].pc = "gone")

=============================================================================
