------------------------------ MODULE Extraction ------------------------------
(* The decompiled outputs on disk: decompiling (internal/extract/          *)
(* packages.go), listing, scanning, formatting, deleting and clearing them *)
(* (the extract.* and code.* handlers of src/desktop/ipc_bridge.go, over   *)
(* internal/api/ipc/extractsvc.go and codeservice.go).  Handlers run       *)
(* concurrently, for the GUI and for agents, and nothing locks an output.  *)
(*                                                                         *)
(* A tree is known by the version of the package it was restored from and  *)
(* by the version its source files show: a formatter rewrites them.        *)
EXTENDS Naturals, FiniteSets

CONSTANTS
    Apps,         \* mini programs
    Handlers,     \* concurrent handlers
    MaxVersions,  \* bound: versions of a package
    MaxRuns,      \* bound: handlers run
    MaxDeaths     \* bound: deaths of the process

ASSUME ExtractionBounds == MaxVersions \in Nat /\ MaxRuns \in Nat /\ MaxDeaths \in Nat

VARIABLES
    package,   \* the version of each app's package
    packaged,  \* apps with a package on disk
    dirs,      \* what the output root holds: directory -> tree
    run,       \* each handler
    runs,      \* handlers run so far
    deaths,    \* deaths so far
    owned,     \* apps decompiled with success and not deleted since
    overtaken, \* apps whose output was replaced under a formatter
    misread    \* a scan found no file in an output nobody touched

extractionVars ==
    <<package, packaged, dirs, run, runs, deaths, owned, overtaken, misread>>

\* The root's other directories: work directories and backups of a run.
WorkOf(h) == <<"work", run[h].id>>
BackupOf(h) == <<"backup", run[h].id>>
Temporary == {"work", "backup"} \X (1 .. MaxRuns)

\* Their names begin with a dot, which no appid does.
ASSUME AppsAreNamedApart == Apps \cap Temporary = {} /\ "none" \notin Apps

Trees == [app : Apps, version : 0 .. MaxVersions, shows : 0 .. MaxVersions]
NoRun == [pc |-> "idle", app |-> "none", id |-> 0, version |-> 0, touched |-> FALSE]

ExtractionInit ==
    /\ package = [a \in Apps |-> 1] /\ packaged = Apps
    /\ dirs = [d \in {} |-> 0]
    /\ run = [h \in Handlers |-> NoRun] /\ runs = 0 /\ deaths = 0
    /\ owned = {} /\ overtaken = {} /\ misread = FALSE

Exists(d) == d \in DOMAIN dirs
Put(ds, d, tree) == [e \in DOMAIN ds \cup {d} |-> IF e = d THEN tree ELSE ds[e]]
Without(ds, gone) == [e \in DOMAIN ds \ gone |-> ds[e]]
Moved(ds, from, to) == Without(Put(ds, to, ds[from]), {from})

\* The handlers after the output of app a has changed under them.
Touched(rs, a) == [k \in Handlers |-> IF rs[k].app = a THEN [rs[k] EXCEPT !.touched = TRUE]
                                      ELSE rs[k]]
At(rs, h, pc) == [rs EXCEPT ![h].pc = pc]
Ended(rs, h) == [rs EXCEPT ![h] = NoRun]

Start(h, pc, a) ==
    /\ run[h] = NoRun /\ runs < MaxRuns /\ runs' = runs + 1
    /\ run' = [run EXCEPT ![h] = [NoRun EXCEPT !.pc = pc, !.app = a, !.id = runs + 1]]

-----------------------------------------------------------------------------
\* WeChat installs a newer package.
Install(a) ==
    /\ package[a] < MaxVersions /\ package' = [package EXCEPT ![a] = @ + 1]
    /\ packaged' = packaged \cup {a}
    /\ UNCHANGED <<dirs, run, runs, deaths, owned, overtaken, misread>>

\* extract.decompile, and each app of extract.decompileAll.
Decompile(h, a) ==
    /\ a \in packaged /\ Start(h, "unpack", a)
    /\ UNCHANGED <<package, packaged, dirs, deaths, owned, overtaken, misread>>

\* Every package of the app is restored in a work directory of the run ...
Unpack(h) ==
    LET a == run[h].app IN
    /\ run[h].pc = "unpack" /\ a \in packaged
    /\ dirs' = Put(dirs, WorkOf(h), [app |-> a, version |-> package[a], shows |-> package[a]])
    /\ run' = At(run, h, "stat")
    /\ UNCHANGED <<package, packaged, runs, deaths, owned, overtaken, misread>>

\* ... unless one cannot be.
UnpackFails(h) ==
    /\ run[h].pc = "unpack" /\ run' = Ended(run, h)
    /\ UNCHANGED <<package, packaged, dirs, runs, deaths, owned, overtaken, misread>>

\* replaceDirectory looks whether there is an output to put aside.
StatTarget(h) ==
    /\ run[h].pc = "stat"
    /\ run' = At(run, h, IF Exists(run[h].app) THEN "aside" ELSE "place")
    /\ UNCHANGED <<package, packaged, dirs, runs, deaths, owned, overtaken, misread>>

\* Renaming the staged tree into place: it must be there, and no output.
Movable(h) == Exists(WorkOf(h)) /\ ~ Exists(run[h].app)
MoveIn(h) ==
    /\ Movable(h) /\ dirs' = Moved(dirs, WorkOf(h), run[h].app)
    /\ owned' = owned \cup {run[h].app}

\* The error return: the deferred removal of the work directory.
GiveUp(h) ==
    /\ dirs' = Without(dirs, {WorkOf(h)}) /\ run' = Ended(run, h) /\ UNCHANGED owned

Place(h) ==
    /\ run[h].pc = "place"
    /\ \/ MoveIn(h) /\ run' = Touched(Ended(run, h), run[h].app)
       \/ ~ Movable(h) /\ GiveUp(h)
    /\ UNCHANGED <<package, packaged, runs, deaths, overtaken, misread>>

\* Mutant: the output is removed instead of put aside.
PutAsideRemoves(h) ==
    /\ run[h].pc = "aside"
    /\ dirs' = Without(dirs, {run[h].app}) /\ run' = At(run, h, "swap")
    /\ UNCHANGED <<package, packaged, runs, deaths, owned, overtaken, misread>>

\* The output is put aside; another run may have done that first.
PutAside(h) ==
    LET a == run[h].app IN
    /\ run[h].pc = "aside"
    /\ \/ /\ Exists(a) /\ dirs' = Moved(dirs, a, BackupOf(h))
          /\ run' = Touched(At(run, h, "swap"), a)
          /\ UNCHANGED owned
       \/ ~ Exists(a) /\ GiveUp(h)
    /\ UNCHANGED <<package, packaged, runs, deaths, overtaken, misread>>

Swap(h) ==
    /\ run[h].pc = "swap" /\ MoveIn(h)
    /\ run' = Touched(At(run, h, "drop"), run[h].app)
    /\ UNCHANGED <<package, packaged, runs, deaths, overtaken, misread>>

\* Another run has put its output there, or the disk refuses the move.
SwapFails(h) ==
    /\ run[h].pc = "swap" /\ run' = At(run, h, "restore")
    /\ UNCHANGED <<package, packaged, dirs, runs, deaths, owned, overtaken, misread>>

\* The old output is put back; the error of that is dropped.
Restore(h) ==
    LET a == run[h].app IN
    /\ run[h].pc = "restore"
    /\ \/ /\ Exists(BackupOf(h)) /\ ~ Exists(a)
          /\ dirs' = Without(Moved(dirs, BackupOf(h), a), {WorkOf(h)})
          /\ run' = Touched(Ended(run, h), a)
       \/ dirs' = Without(dirs, {WorkOf(h)}) /\ run' = Ended(run, h)
    /\ UNCHANGED <<package, packaged, runs, deaths, owned, overtaken, misread>>

DropBackup(h) ==
    /\ run[h].pc = "drop" /\ run' = Ended(run, h)
    /\ dirs' = Without(dirs, {WorkOf(h), BackupOf(h)})
    /\ UNCHANGED <<package, packaged, runs, deaths, owned, overtaken, misread>>

-----------------------------------------------------------------------------
\* code.formatFile and formatAll read a file of an output ...
FormatRead(h, a) ==
    /\ Exists(a) /\ run[h] = NoRun /\ runs < MaxRuns /\ runs' = runs + 1
    /\ run' = [run EXCEPT ![h] = [NoRun EXCEPT !.pc = "format", !.app = a,
                                               !.version = dirs[a].shows]]
    /\ UNCHANGED <<package, packaged, dirs, deaths, owned, overtaken, misread>>

\* ... and write it back by its path when the Core has formatted it.
FormatWrite(h) ==
    LET a == run[h].app IN
    /\ run[h].pc = "format" /\ run' = Ended(run, h)
    /\ dirs' = IF Exists(a) THEN [dirs EXCEPT ![a].shows = run[h].version] ELSE dirs
    /\ overtaken' = IF run[h].touched THEN overtaken \cup {a} ELSE overtaken
    /\ UNCHANGED <<package, packaged, runs, deaths, owned, misread>>

\* extract.scan finds the output and scans it in the background ...
ScanBegin(h, a) ==
    /\ Exists(a) /\ Start(h, "scan", a)
    /\ UNCHANGED <<package, packaged, dirs, deaths, owned, overtaken, misread>>

\* ... where a directory that is gone reads as one without findings.
ScanEnd(h) ==
    /\ run[h].pc = "scan" /\ run' = Ended(run, h)
    /\ misread' = (misread \/ (~ Exists(run[h].app) /\ ~ run[h].touched))
    /\ UNCHANGED <<package, packaged, dirs, runs, deaths, owned, overtaken>>

\* extract.delete removes the packages and the output of an app.
Delete(a) ==
    /\ a \in packaged \/ Exists(a)
    /\ packaged' = packaged \ {a}
    /\ dirs' = Without(dirs, {a}) /\ run' = Touched(run, a) /\ owned' = owned \ {a}
    /\ UNCHANGED <<package, runs, deaths, overtaken, misread>>

\* extract.clearOutput of the decompiled outputs removes the root.
ClearOutput ==
    /\ DOMAIN dirs # {} /\ dirs' = [d \in {} |-> 0] /\ owned' = {}
    /\ run' = [h \in Handlers |-> [run[h] EXCEPT !.touched = run[h] # NoRun]]
    /\ UNCHANGED <<package, packaged, runs, deaths, overtaken, misread>>

\* The process dies: its runs end where they are.
Die ==
    /\ deaths < MaxDeaths /\ deaths' = deaths + 1
    /\ run' = [h \in Handlers |-> NoRun]
    /\ UNCHANGED <<package, packaged, dirs, runs, owned, overtaken, misread>>

DecompileStep(h) ==
    \/ Unpack(h) \/ UnpackFails(h) \/ StatTarget(h) \/ Place(h) \/ PutAside(h)
    \/ Swap(h) \/ SwapFails(h) \/ Restore(h) \/ DropBackup(h)

ExtractionNext ==
    \/ \E h \in Handlers : \/ DecompileStep(h) \/ FormatWrite(h) \/ ScanEnd(h)
                           \/ \E a \in Apps : \/ Decompile(h, a) \/ FormatRead(h, a)
                                              \/ ScanBegin(h, a)
    \/ \E a \in Apps : Install(a) \/ Delete(a)
    \/ ClearOutput \/ Die

ExtractionSpec == ExtractionInit /\ [][ExtractionNext]_extractionVars

-----------------------------------------------------------------------------
\* Every variable has its type.
ExtractionTypeOK ==
    /\ package \in [Apps -> 0 .. MaxVersions] /\ packaged \subseteq Apps
    /\ DOMAIN dirs \subseteq Apps \cup Temporary
    /\ \A d \in DOMAIN dirs : dirs[d] \in Trees
    /\ run \in [Handlers -> [pc : {"idle", "unpack", "stat", "place", "aside", "swap",
                                   "restore", "drop", "format", "scan"},
                             app : Apps \cup {"none"}, id : 0 .. MaxRuns,
                             version : 0 .. MaxVersions, touched : BOOLEAN]]
    /\ runs \in 0 .. MaxRuns /\ deaths \in 0 .. MaxDeaths
    /\ owned \subseteq Apps /\ overtaken \subseteq Apps /\ misread \in BOOLEAN

(* What was decompiled and not deleted is never lost: the app's output is  *)
(* in place, or whole in a backup of the root, at every step of any runs   *)
(* that replace it, after failed moves and deaths.                         *)
OutputSurvives ==
    \A a \in owned : \E d \in DOMAIN dirs :
        dirs[d].app = a /\ (d = a \/ d \in {"backup"} \X (1 .. MaxRuns))

(* An output is of one package version, as it was swapped in whole, unless *)
(* a formatter wrote back a file it had read before the swap; and a scan   *)
(* finds nothing only in an output that was touched under it.              *)
OnlyOvertakenReadersErr ==
    /\ \A a \in Apps \ overtaken : Exists(a) => dirs[a].shows = dirs[a].version
    /\ ~ misread

(* What the agent decompiled is kept, and shown as it is.                  *)
OutputsAreKept == OutputSurvives /\ OnlyOvertakenReadersErr
==============================================================================
