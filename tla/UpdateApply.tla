---------------------------- MODULE UpdateApply ----------------------------
(***************************************************************************)
(* The self-update: a release staged by a running shell, swapped into the  *)
(* install by the next launch, undone entry by entry when a call fails,    *)
(* and swept up by the launch after that.  The process may die between any *)
(* two calls on the file system, and any of them may fail.                 *)
(*                                                                         *)
(* An entry of the layout is its position, the order swapInto visits them  *)
(* in.  What an entry holds is the version it was built from, Absent, or   *)
(* Torn: a copy or a removal that stopped half-way.  Files outside the     *)
(* layout are never named by the code and are left out.                    *)
(*                                                                         *)
(* One process at a time: an old shell that outlives the 30 s its          *)
(* successor waits, or overlaps it on macOS, is left out, and so is a      *)
(* record (a few bytes) that cannot be written.                            *)
(***************************************************************************)
EXTENDS Naturals

CONSTANTS
    N,          \* entries of the layout
    Exe,        \* the entry this process runs from
    Required,   \* layout.required
    Trees,      \* the entries that are directories
    MaxVersion, \* bound: releases, 1 being the one first installed
    MaxFaults,  \* bound: file system calls that fail
    MaxCrashes  \* bound: deaths of a process that is starting up

Entries  == 1 .. N
Versions == 1 .. MaxVersion
Absent   == 0
Torn     == MaxVersion + 1
Contents == 0 .. MaxVersion + 1

ASSUME UpdateApplyAssumption ==
    /\ N \in Nat /\ Required \subseteq Entries /\ Trees \subseteq Entries
    /\ Exe \in Required /\ Exe \notin Trees
    /\ MaxVersion \in Nat \ {0} /\ MaxFaults \in Nat /\ MaxCrashes \in Nat

VARIABLES
    target,  \* the install: what each entry's path holds
    aside,   \* what its .old path holds
    staged,  \* each version's staging tree: the entries still in it
    pending, \* the version pending.json names, 0 without the file
    record,  \* last-apply.json
    phase,   \* where the process is
    image,   \* the version of the running executable
    at,      \* the entry swapInto, or its rollback, is at
    had,     \* hadOld of that entry
    swapped  \* the entries swapInto has moved into place

\* What only the bounds and the properties read.
VARIABLES
    faults,  \* calls that failed
    crashes, \* processes that died while starting up
    before,  \* the install when this swap began
    slipped, \* a call of this swap's undoing failed
    clean    \* no swap so far was cut short by a death or slipped

files == <<target, aside, staged, pending, record>>
job   == <<at, had, swapped, before, slipped>>
vars  == <<files, phase, image, job, faults, crashes, clean>>

NoRecord == [version |-> 0, outcome |-> "none"]

NoInstall == [e \in Entries |-> Absent]

Init ==
    /\ target \in [Entries -> {Absent, 1}]
    /\ \A e \in Required : target[e] = 1
    /\ aside = NoInstall
    /\ staged = [v \in Versions |-> {}]
    /\ pending = 0 /\ record = NoRecord
    /\ phase = "running" /\ image = 1
    /\ at = 0 /\ had = FALSE /\ swapped = {}
    /\ before = NoInstall /\ slipped = FALSE
    /\ faults = 0 /\ crashes = 0 /\ clean = TRUE

Fault == faults < MaxFaults /\ faults' = faults + 1

\* swapInto's locals end with it.
SwapEnds ==
    /\ at' = 0 /\ had' = FALSE /\ swapped' = {}
    /\ before' = NoInstall /\ slipped' = FALSE

-----------------------------------------------------------------------------
(* A running shell.                                                        *)

Offered(v) == phase = "running" /\ v > image /\ v # pending

\* Every archive is verified and unpacked, then the marker is written.  A
\* tree that lacks a required entry is dropped instead.
StageVersion(v, tree) ==
    /\ Offered(v)
    /\ LET whole == Required \subseteq tree
       IN  /\ staged' = [staged EXCEPT ![v] = IF whole THEN tree ELSE {}]
           /\ pending' = IF whole THEN v ELSE pending
    /\ UNCHANGED <<target, aside, record, phase, image, job, faults, crashes, clean>>

\* An archive that fails to unpack, or the process ending meanwhile: no marker.
StageAbandoned(v, tree) ==
    /\ Offered(v)
    /\ staged' = [staged EXCEPT ![v] = tree]
    /\ phase' \in {"running", "down"}
    /\ UNCHANGED <<target, aside, pending, record, image, job, faults, crashes, clean>>

Boot ==
    /\ target[Exe] \in Versions
    /\ image' = target[Exe] /\ phase' = "boot"

Quit ==
    /\ phase = "running" /\ phase' = "down"
    /\ UNCHANGED <<files, image, job, faults, crashes, clean>>

Launch ==
    /\ phase = "down" /\ Boot
    /\ UNCHANGED <<files, job, faults, crashes, clean>>

\* update.restart: a new process, and this one steps aside.
Restart ==
    /\ phase = "running" /\ Boot
    /\ UNCHANGED <<files, job, faults, crashes, clean>>

-----------------------------------------------------------------------------
(* A launch, before the window opens.                                      *)

\* Nothing is pending: the leftovers are swept; `kept` could not be removed.
CleanupAfterLaunch(kept) ==
    /\ phase = "boot" /\ pending = 0
    /\ IF kept = {} THEN UNCHANGED faults ELSE Fault
    /\ aside' = [e \in Entries |-> IF e \in kept THEN aside[e] ELSE Absent]
    /\ staged' = [v \in Versions |-> {}]
    /\ phase' = "open"
    /\ UNCHANGED <<target, pending, record, image, job, crashes, clean>>

Attempted(outcome) == record' = [version |-> pending, outcome |-> outcome]

\* validateStagedTree
Valid == Required \subseteq staged[pending]

\* The staged tree is no longer complete: it is dropped with its marker,
\* unless the marker or a part of the tree cannot be removed.
DiscardStaged(rest, marker) ==
    /\ phase = "boot" /\ pending # 0 /\ ~ Valid
    /\ rest \subseteq staged[pending]
    /\ IF rest = {} /\ marker = 0 THEN UNCHANGED faults ELSE Fault
    /\ staged' = [staged EXCEPT ![pending] = rest]
    /\ pending' = marker
    /\ Attempted("failed") /\ phase' = "open"
    /\ UNCHANGED <<target, aside, image, job, crashes, clean>>

ApplyPending ==
    /\ phase = "boot" /\ pending # 0 /\ Valid
    /\ Attempted("attempt") /\ phase' = "swap"
    /\ at' = 1 /\ had' = FALSE /\ swapped' = {}
    /\ before' = target /\ slipped' = FALSE
    /\ UNCHANGED <<target, aside, staged, pending, image, faults, crashes, clean>>

-----------------------------------------------------------------------------
(* swapInto.                                                               *)

\* A release may omit an entry.
SkipEntry ==
    /\ phase = "swap" /\ at <= N /\ at \notin staged[pending]
    /\ at' = at + 1
    /\ UNCHANGED <<files, phase, image, had, swapped, before, slipped, faults, crashes, clean>>

\* Mutant: an .old that is already there is taken for this entry's.
PutAsideKeepsStale ==
    /\ phase = "swap" /\ at <= N /\ at \in staged[pending]
    /\ had' = (target[at] # Absent) /\ phase' = "move"
    /\ aside' = [aside EXCEPT ![at] = IF @ = Absent THEN target[at] ELSE @]
    /\ target' = [target EXCEPT ![at] = Absent]
    /\ UNCHANGED <<staged, pending, record, image, at, swapped, before, slipped,
                   faults, crashes, clean>>

PutAside ==
    /\ phase = "swap" /\ at <= N /\ at \in staged[pending]
    /\ had' = (target[at] # Absent) /\ phase' = "move"
    /\ IF target[at] # Absent
       THEN /\ aside' = [aside EXCEPT ![at] = target[at]]
            /\ target' = [target EXCEPT ![at] = Absent]
       ELSE UNCHANGED <<target, aside>>
    /\ UNCHANGED <<staged, pending, record, image, at, swapped, before, slipped,
                   faults, crashes, clean>>

\* The rename fails, the stale .old removed already or not (or half of it).
PutAsideFails(stale) ==
    /\ phase = "swap" /\ at <= N /\ at \in staged[pending] /\ target[at] # Absent
    /\ Fault
    /\ stale \in {Absent, aside[at]} \cup (IF aside[at] = Absent THEN {} ELSE {Torn})
    /\ aside' = [aside EXCEPT ![at] = stale]
    /\ phase' = "rollback" /\ at' = at - 1
    /\ UNCHANGED <<target, staged, pending, record, image, had, swapped, before,
                   slipped, crashes, clean>>

\* movePath: a rename takes the entry out of the staging tree, the copy it
\* falls back to leaves it there.
MovePath(copied) ==
    /\ phase = "move"
    /\ target' = [target EXCEPT ![at] = pending]
    /\ staged' = IF copied THEN staged
                 ELSE [staged EXCEPT ![pending] = @ \ {at}]
    /\ swapped' = swapped \cup {at}
    /\ phase' = "swap" /\ at' = at + 1
    /\ UNCHANGED <<aside, pending, record, image, had, before, slipped, faults, crashes, clean>>

\* Both ways fail, the copy leaving nothing or a part behind.  The previous
\* entry is renamed back; a partial directory in its place prevents that, and
\* the rename may fail by itself.
MovePathFails(left, back) ==
    /\ phase = "move" /\ Fault
    /\ left \in {Absent, Torn}
    /\ back => had /\ ~ (left = Torn /\ at \in Trees)
    /\ target' = [target EXCEPT ![at] = IF back THEN aside[at] ELSE left]
    /\ aside' = IF back THEN [aside EXCEPT ![at] = Absent] ELSE aside
    /\ slipped' = (slipped \/ (had /\ ~ back))
    /\ clean' = (clean /\ (back \/ ~ had))
    /\ phase' = "rollback" /\ at' = at - 1
    /\ UNCHANGED <<staged, pending, record, image, had, swapped, before, crashes>>

SwapDone ==
    /\ phase = "swap" /\ at = N + 1 /\ phase' = "mark" /\ SwapEnds
    /\ UNCHANGED <<files, image, faults, crashes, clean>>

-----------------------------------------------------------------------------
(* The rollback, from the last entry to the first.                         *)

Restorable == at \in swapped /\ aside[at] # Absent

RestoreEntry ==
    /\ phase = "rollback" /\ at >= 1 /\ at' = at - 1
    /\ IF Restorable
       THEN /\ target' = [target EXCEPT ![at] = aside[at]]
            /\ aside' = [aside EXCEPT ![at] = Absent]
       ELSE UNCHANGED <<target, aside>>
    /\ UNCHANGED <<staged, pending, record, phase, image, had, swapped, before,
                   slipped, faults, crashes, clean>>

\* The new entry is not removed, half removed, or removed and the old one
\* not renamed.  The error is dropped and the rollback goes on.
RestoreEntryFails(left) ==
    /\ phase = "rollback" /\ at >= 1 /\ Restorable /\ Fault
    /\ left \in {target[at], Torn, Absent}
    /\ target' = [target EXCEPT ![at] = left]
    /\ at' = at - 1 /\ slipped' = TRUE /\ clean' = FALSE
    /\ UNCHANGED <<aside, staged, pending, record, phase, image, had, swapped,
                   before, crashes>>

\* Mutant: swapInto's error is not looked at.
RollbackIgnored ==
    /\ phase = "rollback" /\ at = 0 /\ phase' = "mark" /\ SwapEnds
    /\ UNCHANGED <<files, image, faults, crashes, clean>>

\* The marker stays: the next launch tries again.
RollbackDone ==
    /\ phase = "rollback" /\ at = 0
    /\ Attempted("failed") /\ phase' = "open" /\ SwapEnds
    /\ UNCHANGED <<target, aside, staged, pending, image, faults, crashes, clean>>

-----------------------------------------------------------------------------
(* After the swap, and the start of the shell proper.                      *)

ClearMarker(marker) ==
    /\ phase = "mark" /\ marker \in {0, pending}
    /\ IF marker = 0 THEN UNCHANGED faults ELSE Fault
    /\ pending' = marker /\ phase' = "record"
    /\ UNCHANGED <<target, aside, staged, record, image, job, crashes, clean>>

RecordApplied ==
    /\ phase = "record" /\ phase' = "exit"
    /\ record' = [record EXCEPT !.outcome = "applied"]
    /\ UNCHANGED <<target, aside, staged, pending, image, job, faults, crashes, clean>>

Relaunch ==
    /\ phase = "exit" /\ Boot
    /\ UNCHANGED <<files, job, faults, crashes, clean>>

RelaunchFails ==
    /\ phase = "exit" /\ Fault /\ phase' = "down"
    /\ UNCHANGED <<files, image, job, crashes, clean>>

\* startup(): the record is logged, once.
LogApplyRecord ==
    /\ phase = "open" /\ phase' = "running" /\ record' = NoRecord
    /\ UNCHANGED <<target, aside, staged, pending, image, job, faults, crashes, clean>>

Crash ==
    /\ phase \notin {"running", "down"} /\ crashes < MaxCrashes
    /\ crashes' = crashes + 1 /\ phase' = "down"
    /\ clean' = (clean /\ phase \notin {"swap", "move", "rollback"})
    /\ SwapEnds
    /\ UNCHANGED <<files, image, faults>>

-----------------------------------------------------------------------------
Startup ==
    \/ \E kept \in SUBSET Entries : CleanupAfterLaunch(kept)
    \/ \E rest \in SUBSET Entries, marker \in {0, pending} : DiscardStaged(rest, marker)
    \/ ApplyPending
    \/ SkipEntry \/ PutAside \/ SwapDone
    \/ \E stale \in Contents : PutAsideFails(stale)
    \/ \E copied \in BOOLEAN : MovePath(copied)
    \/ \E left \in {Absent, Torn}, back \in BOOLEAN : MovePathFails(left, back)
    \/ RestoreEntry \/ RollbackDone
    \/ \E left \in Contents : RestoreEntryFails(left)
    \/ \E marker \in {0, pending} : ClearMarker(marker)
    \/ RecordApplied \/ Relaunch \/ RelaunchFails \/ LogApplyRecord

User ==
    \/ \E v \in Versions, tree \in SUBSET Entries :
          StageVersion(v, tree) \/ StageAbandoned(v, tree)
    \/ Quit \/ Launch \/ Restart

Next == Startup \/ User \/ Crash

\* The operating system keeps a process running until it dies; a user need
\* not start one.
Spec == Init /\ [][Next]_vars /\ WF_vars(Startup)

-----------------------------------------------------------------------------
Records == [version : 0 .. MaxVersion,
            outcome : {"none", "attempt", "failed", "applied"}]

TypeOK ==
    /\ target \in [Entries -> Contents] /\ aside \in [Entries -> Contents]
    /\ staged \in [Versions -> SUBSET Entries] /\ pending \in 0 .. MaxVersion
    /\ record \in Records
    /\ phase \in {"running", "down", "boot", "open", "swap", "move", "rollback",
                  "mark", "record", "exit"}
    /\ image \in Versions
    /\ at \in 0 .. N + 1 /\ had \in BOOLEAN /\ swapped \subseteq Entries
    /\ before \in [Entries -> Contents]
    /\ slipped \in BOOLEAN /\ clean \in BOOLEAN
    /\ faults \in 0 .. MaxFaults /\ crashes \in 0 .. MaxCrashes

\* A swap that fails at any entry leaves every entry that was installed as it
\* was, provided no call of the undoing itself failed: whichever entries the
\* release omits, whichever were renamed and whichever copied, and whatever
\* .old copies an earlier swap left behind (swapInto, restoreEntry).
FailedSwapUndone ==
    phase = "rollback" /\ at = 0 /\ ~ slipped =>
        \A e \in Entries : before[e] # Absent => target[e] = before[e]

\* The shell never runs with another version's Core: the required entries are
\* those of the running executable, after any sequence of staged, failed,
\* retried and discarded updates and of deaths outside a swap
\* (applyStagedUpdate: "continuing would run the old shell against a new Core").
ShellMatchesCore ==
    phase = "running" /\ clean => \A e \in Required : target[e] = image

\* A swap is whole or undone, whichever of its calls fails.
SwapIsSound == FailedSwapUndone /\ ShellMatchesCore

\* An update is recorded as applied only with the required entries of that
\* very version in place, deaths and retries included (applyPendingFor).
AppliedIsInstalled ==
    [][ (record' # record /\ record'.outcome = "applied")
        => \A e \in Required : target'[e] = record'.version ]_vars

\* A launch ends: with the shell running, or with the process gone.  An
\* applied update relaunches, and must not do so for ever.
LaunchSettles ==
    phase \notin {"running", "down"} ~> phase \in {"running", "down"}

\* CleanupAfterLaunch "is only safe once a launch has found no pending version,
\* which means the swap it follows already succeeded": an old entry is thrown
\* away only with a whole one in its place.
CleanupAfterSuccess ==
    [][ (phase = "boot" /\ pending = 0)
        => \A e \in Entries : (aside[e] # Absent /\ aside'[e] = Absent)
                              => target[e] \in Versions ]_vars
=============================================================================
