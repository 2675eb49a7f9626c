--------------------------- MODULE UpdateDownload ---------------------------
(* How a release gets into the staging area: the published manifest, its   *)
(* version order, the update.downloadRelease handler, and StageVersion,    *)
(* which downloads the shards, unpacks them into a fresh tree and names    *)
(* the tree in the pending marker at the very end (src/desktop/internal/   *)
(* update, ipc_bridge.go).  What the next launch does with the marker is   *)
(* in UpdateApply; here a launch just takes the tree or drops it.          *)
(*                                                                         *)
(* A shard's bytes are the number of the build they belong to, and so are  *)
(* its declared size and digest.                                           *)
EXTENDS Integers, Sequences, FiniteSets

CONSTANTS
    Releases,   \* versions: [numbers |-> sequence of numbers, pre |-> rank of the suffix, 0 without]
    FirstRelease,
    Builds,     \* numbers of the builds that are published under them
    Shards,     \* the archives of a release, a sequence
    Required,   \* the shards the required entries of the layout are in
    Windows,    \* callers of update.downloadRelease
    MaxPublications, \* bound: manifests published
    MaxLaunches \* bound: processes

NoMarker == [numbers |-> <<>>, pre |-> 0]

ASSUME UpdateMarkers == NoMarker \notin Releases
ASSUME UpdateReleases == FirstRelease \in Releases /\ Builds \subseteq Nat \ {0}
ASSUME UpdateVersions == \A v \in Releases : v.numbers \in Seq(Nat) /\ v.pre \in Nat
ASSUME UpdateBounds == MaxPublications \in Nat /\ MaxLaunches \in Nat

VARIABLES
    manifest,   \* the published document: [version, build]
    published,  \* history: every document so far
    installed,  \* appVersion of the installed program
    running,    \* the process is up
    launches,   \* bound
    downloads,  \* the verified archive in the cache under each shard's name, or 0
    tree,       \* staged/<version>: the build each shard was unpacked from, or 0
    marker,     \* pending.json's version, or NoMarker
    claimed,    \* updateRunning
    request,    \* each window's request
    staging,    \* the goroutine of StageVersion
    overlapped, \* history: versions staged again by a request that looked too early
    applied     \* history: the tree the last launch installed

downloadVars == <<manifest, published, installed, running, launches, downloads, tree,
                  marker, claimed, request, staging, overlapped, applied>>
shopState == <<manifest, published>>
processState == <<installed, running, launches, applied>>

NoManifest == [version |-> FirstRelease, build |-> 0]
IdleRequest == [pc |-> "idle", manifest |-> NoManifest]
IdleStaging == [pc |-> "idle", manifest |-> NoManifest, next |-> 1]
ShardSet == {Shards[k] : k \in DOMAIN Shards}
NoTree == [s \in ShardSet |-> 0]

ASSUME UpdateShards == Required \subseteq ShardSet /\ Len(Shards) \in Nat /\ DOMAIN Shards = 1 .. Len(Shards)

-----------------------------------------------------------------------------
(* version.go.                                                             *)

SegmentAt(numbers, i) == IF i \in DOMAIN numbers THEN numbers[i] ELSE 0

\* The first segment that differs decides, a missing one counting as zero.
FirstDifference(a, b) ==
    LET differs == {i \in DOMAIN a \cup DOMAIN b : SegmentAt(a, i) # SegmentAt(b, i)}
    IN  IF differs = {} THEN 0 ELSE CHOOSE i \in differs : \A j \in differs : i <= j

\* Equal segments: a release outranks its pre-releases.
Newer(a, b) ==
    LET i == FirstDifference(a.numbers, b.numbers)
    IN  IF i # 0 THEN SegmentAt(a.numbers, i) > SegmentAt(b.numbers, i)
        ELSE a.pre # b.pre /\ (a.pre = 0 \/ (b.pre # 0 /\ a.pre > b.pre))

\* Mutant: whatever is published and differs is an update.
HasUpdateByInequality(current, latest) == latest # current
HasUpdate(current, latest) == Newer(latest, current)

-----------------------------------------------------------------------------
DownloadInit ==
    /\ \E b \in Builds : manifest = [version |-> FirstRelease, build |-> b]
    /\ published = {manifest}
    /\ installed = FirstRelease /\ running = TRUE /\ launches = 1
    /\ downloads = NoTree
    /\ tree = [v \in Releases |-> NoTree]
    /\ marker = NoMarker /\ claimed = FALSE
    /\ request = [w \in Windows |-> IdleRequest]
    /\ staging = IdleStaging
    /\ overlapped = {} /\ applied = [version |-> FirstRelease, tree |-> NoTree]

\* The maintainer publishes any release, an older one or the same one rebuilt
\* included.
Publish ==
    /\ Cardinality(published) < MaxPublications
    /\ \E v \in Releases, b \in Builds :
         /\ [version |-> v, build |-> b] \notin published
         /\ manifest' = [version |-> v, build |-> b]
         /\ published' = published \cup {manifest'}
    /\ UNCHANGED <<processState, downloads, tree, marker, claimed, request, staging, overlapped>>

-----------------------------------------------------------------------------
(* update.downloadRelease.                                                 *)

\* FetchManifest: the newest document, an older one from a cache on the way, or none.
Fetch(w) ==
    /\ running /\ request[w].pc = "idle"
    /\ \E m \in published :
         request' = [request EXCEPT ![w] = [pc |-> "fetched", manifest |-> m]]
    /\ UNCHANGED <<shopState, processState, downloads, tree, marker, claimed, staging, overlapped>>

\* Nothing newer, or a marker that names it already: there is nothing to do.
LookAtMarker(w) ==
    /\ request[w].pc = "fetched"
    /\ LET wanted == request[w].manifest.version
       IN  request' = [request EXCEPT ![w] =
                         IF HasUpdate(installed, wanted) /\ marker # wanted
                         THEN [@ EXCEPT !.pc = "looked"] ELSE IdleRequest]
    /\ UNCHANGED <<shopState, processState, downloads, tree, marker, claimed, staging, overlapped>>

\* claimUpdateSlot, and the goroutine that stages the manifest of this request.
ClaimUpdateSlot(w) ==
    /\ request[w].pc = "looked"
    /\ request' = [request EXCEPT ![w] = IdleRequest]
    /\ IF claimed THEN UNCHANGED <<claimed, staging, overlapped>>
       ELSE /\ claimed' = TRUE
            /\ staging' = [pc |-> "download", manifest |-> request[w].manifest, next |-> 1]
            /\ overlapped' = IF marker = request[w].manifest.version
                             THEN overlapped \cup {marker} ELSE overlapped
    /\ UNCHANGED <<shopState, processState, downloads, tree, marker>>

-----------------------------------------------------------------------------
(* StageVersion.                                                           *)

Stage(pc) == staging.pc = pc
Shard == Shards[staging.next]

\* Mutant: an archive of the right name is reused.
MatchesAnyAsset(held, build) == held # 0
MatchesAsset(held, build) == held = build

\* An archive that verifies is reused; another is fetched from the sources in
\* order, and takes its name only when its digest is the manifest's.
DownloadAsset ==
    /\ Stage("download") /\ staging.next <= Len(Shards)
    /\ downloads' = IF MatchesAsset(downloads[Shard], staging.manifest.build) THEN downloads
                    ELSE [downloads EXCEPT ![Shard] = staging.manifest.build]
    /\ staging' = [staging EXCEPT !.next = @ + 1]
    /\ UNCHANGED <<shopState, processState, tree, marker, claimed, request, overlapped>>

\* Every source failed, or what it sent was not what the manifest declared.
DownloadFails ==
    /\ Stage("download") /\ staging.next <= Len(Shards)
    /\ ~MatchesAsset(downloads[Shard], staging.manifest.build)
    /\ staging' = [staging EXCEPT !.pc = "over"]
    /\ UNCHANGED <<shopState, processState, downloads, tree, marker, claimed, request, overlapped>>

\* The tree is built from scratch.
ClearTree ==
    /\ Stage("download") /\ staging.next > Len(Shards)
    /\ tree' = [tree EXCEPT ![staging.manifest.version] = NoTree]
    /\ staging' = [staging EXCEPT !.pc = "unpack", !.next = 1]
    /\ UNCHANGED <<shopState, processState, downloads, marker, claimed, request, overlapped>>

ExtractTarGz ==
    /\ Stage("unpack") /\ staging.next <= Len(Shards)
    /\ tree' = [tree EXCEPT ![staging.manifest.version][Shard] = downloads[Shard]]
    /\ staging' = [staging EXCEPT !.next = @ + 1]
    /\ UNCHANGED <<shopState, processState, downloads, marker, claimed, request, overlapped>>

ExtractFails ==
    /\ Stage("unpack") /\ staging.next <= Len(Shards)
    /\ tree' = [tree EXCEPT ![staging.manifest.version] = NoTree]
    /\ staging' = [staging EXCEPT !.pc = "over"]
    /\ UNCHANGED <<shopState, processState, downloads, marker, claimed, request, overlapped>>

\* validateStagedTree found the entries it asks for; the marker comes last.
WritePending ==
    /\ Stage("unpack") /\ staging.next > Len(Shards)
    /\ marker' = staging.manifest.version
    /\ staging' = [staging EXCEPT !.pc = "over"]
    /\ UNCHANGED <<shopState, processState, downloads, tree, claimed, request, overlapped>>

\* Mutant: a failed staging keeps the slot.
ReleaseSlotWhenStaged ==
    /\ Stage("over")
    /\ staging' = IdleStaging /\ claimed' = (marker # staging.manifest.version)
    /\ UNCHANGED <<shopState, processState, downloads, tree, marker, request, overlapped>>

\* Staged or failed, the slot is free again.
ReleaseUpdateSlot ==
    /\ Stage("over")
    /\ staging' = IdleStaging /\ claimed' = FALSE
    /\ UNCHANGED <<shopState, processState, downloads, tree, marker, request, overlapped>>

-----------------------------------------------------------------------------
(* Processes.                                                              *)

\* The process ends, by a restart, by quitting or by dying; with the write of
\* the marker cut short there is none to read.
Ends ==
    /\ running /\ running' = FALSE
    /\ claimed' = FALSE /\ staging' = IdleStaging
    /\ request' = [w \in Windows |-> IdleRequest]
    /\ marker' \in IF Stage("unpack") /\ staging.next > Len(Shards)
                   THEN {marker, NoMarker} ELSE {marker}
    /\ UNCHANGED <<shopState, installed, launches, applied, downloads, tree, overlapped>>

Complete(t) == \A s \in Required : t[s] # 0

\* The next process installs a tree its check of the required entries lets
\* through, and drops any other.
Launch ==
    /\ ~running /\ launches < MaxLaunches
    /\ running' = TRUE /\ launches' = launches + 1
    /\ marker' = NoMarker
    /\ IF marker # NoMarker /\ Complete(tree[marker])
       THEN /\ installed' = marker
            /\ applied' = [version |-> marker, tree |-> tree[marker]]
       ELSE UNCHANGED <<installed, applied>>
    /\ tree' = IF marker = NoMarker THEN tree ELSE [tree EXCEPT ![marker] = NoTree]
    /\ UNCHANGED <<shopState, downloads, claimed, request, staging, overlapped>>

StageStep ==
    \/ DownloadAsset \/ DownloadFails \/ ClearTree \/ ExtractTarGz \/ ExtractFails
    \/ WritePending \/ ReleaseUpdateSlot

DownloadNext ==
    \/ Publish
    \/ \E w \in Windows : Fetch(w) \/ LookAtMarker(w) \/ ClaimUpdateSlot(w)
    \/ StageStep
    \/ Ends \/ Launch

DownloadSpec == DownloadInit /\ [][DownloadNext]_downloadVars

-----------------------------------------------------------------------------
DownloadTypeOK ==
    /\ manifest \in published /\ installed \in Releases
    /\ marker \in Releases \cup {NoMarker}
    /\ \A v \in Releases : tree[v] \in [ShardSet -> Builds \cup {0}]
    /\ downloads \in [ShardSet -> Builds \cup {0}]
    /\ claimed <=> staging.pc # "idle"

WholeRelease(v, t) == \E m \in published : m.version = v /\ \A s \in ShardSet : t[s] = m.build

(* A marker names a tree that is one published build of its version,       *)
(* verified and unpacked to the last shard, unless a request that had      *)
(* looked before the marker was written staged the version once more.      *)
OnlyOverlapBreaksMarker ==
    marker # NoMarker => marker \in overlapped \/ WholeRelease(marker, tree[marker])

(* Whatever is published, in whatever order it is fetched and staged, a    *)
(* launch never installs an older version than the one it replaces.        *)
NeverInstallsOlder == [][~Newer(installed, installed')]_installed
=============================================================================
