------------------------ MODULE Agent_proofs ------------------------
(* Proofs about what the agents and the panel read and leave behind, for   *)
(* any agents, mini programs, calls and releases: the session record        *)
(* (McpSession), the inventory (AssetInventory), the extraction (Extraction),*)
(* the database (StoreOpen), the traffic history (TrafficStore) and the     *)
(* download of updates (UpdateDownload).                                    *)
EXTENDS McpSession, AssetInventory, Extraction, StoreOpen, TrafficStore,
        UpdateDownload, SequenceTheorems, FiniteSetTheorems, TLAPS

-----------------------------------------------------------------------------
(* The session record (McpSession)                                          *)

Phases == {"idle", "stats", "current", "alive", "stop", "wait", "uninstall", "start", "install",
           "record", "done", "unwatch", "watches", "running", "compare", "probe"}
Requests == [pc : Phases, tool : Tools \cup {"none"}, forced : BOOLEAN, gen : Nat, seen : Nat,
             at : Nat, alone : BOOLEAN]

\* The phases of a health check, and those of no request.
Elsewhere == {"idle", "watches", "running", "compare", "probe"}

\* What an actor believes about the page is so as long as the realm stays, and
\* what it did to the capture alone is as it left it.
RequestOK(b) ==
    /\ req[b].seen <= site.realm /\ (req[b].seen = site.realm => site.object)
    /\ req[b].at <= site.realm
    /\ req[b].pc \in {"running", "compare"} /\ req[b].at = site.realm => req[b].gen \in {0, site.gen}
    /\ req[b].pc \in Elsewhere => req[b].tool # "ensure"
    /\ req[b].tool = "ensure" /\ req[b].alone =>
          /\ req[b].pc \in {"wait", "uninstall", "start"} => ~ feeding
          /\ req[b].pc = "record" /\ req[b].at = site.realm => site.hooked

\* The record of a hook seen in a realm counts with the realms of its numbering.
RecordOK ==
    pinned # NowherePinned =>
        /\ pinned.realm <= site.realm /\ (pinned.realm = site.realm => site.object)
        /\ pinned.numbering <= site.numbering
        /\ pinned.numbering = site.numbering /\ installGen.gen # 0
             => site.gen + pinned.realm = site.realm + installGen.gen

McpShapes ==
    /\ site \in [realm : Nat \ {0}, gen : Nat \ {0}, numbering : Nat \ {0},
                 object : BOOLEAN, hooked : BOOLEAN]
    /\ feeding \in BOOLEAN
    /\ installGen \in [on : BOOLEAN, gen : Nat]
    /\ pinned \in [realm : Nat, numbering : Nat]
    /\ req \in [Actors -> Requests]

McpKept == McpShapes /\ RecordOK /\ AgentIsToldTheTruth
McpInv == McpKept /\ \A b \in Actors : RequestOK(b)


LEMMA RequestShape ==
    /\ NoReq \in Requests
    /\ \A r \in Requests :
          /\ r.pc \in Phases /\ r.gen \in Nat /\ r.seen \in Nat /\ r.at \in Nat /\ r.alone \in BOOLEAN
          /\ \A x \in BOOLEAN : [r EXCEPT !.alone = x] \in Requests
          /\ \A p \in Phases : [r EXCEPT !.pc = p] \in Requests
          /\ \A p \in Phases, n \in Nat : /\ [r EXCEPT !.pc = p, !.seen = n] \in Requests
                                          /\ [r EXCEPT !.pc = p, !.gen = n] \in Requests
<1>1. NoReq \in Requests
  BY DEF NoReq, Requests, Phases
<1>2. ASSUME NEW r \in Requests
      PROVE  /\ r.pc \in Phases /\ r.gen \in Nat /\ r.seen \in Nat /\ r.at \in Nat /\ r.alone \in BOOLEAN
             /\ \A x \in BOOLEAN : [r EXCEPT !.alone = x] \in Requests
             /\ \A p \in Phases : [r EXCEPT !.pc = p] \in Requests
  BY DEF Requests
<1>3. ASSUME NEW r \in Requests, NEW p \in Phases, NEW n \in Nat
      PROVE  [r EXCEPT !.pc = p, !.seen = n] \in Requests
  BY DEF Requests
<1>4. ASSUME NEW r \in Requests, NEW p \in Phases, NEW n \in Nat
      PROVE  [r EXCEPT !.pc = p, !.gen = n] \in Requests
  BY DEF Requests
<1> QED
  BY <1>1, <1>2, <1>3, <1>4

LEMMA McpInitially == McpInit => McpInv
<1> SUFFICES ASSUME McpInit PROVE McpInv
  OBVIOUS
<1>1. McpShapes
  <2>1. req \in [Actors -> Requests]
    BY RequestShape DEF McpInit
  <2>2. site \in [realm : Nat \ {0}, gen : Nat \ {0}, numbering : Nat \ {0}, object : BOOLEAN, hooked : BOOLEAN]
    BY DEF McpInit
  <2> QED
    BY <2>1, <2>2 DEF McpInit, McpShapes, NowherePinned, Unwatched
<1>2. \A b \in Actors : RequestOK(b)
  BY DEF McpInit, RequestOK, Elsewhere, NoReq
<1>3. RecordOK
  BY DEF McpInit, RecordOK
<1>4. answer.says = "nothing"
  BY DEF McpInit, NoAnswer
<1> QED
  BY <1>1, <1>2, <1>3, <1>4 DEF McpInv, McpKept, AgentIsToldTheTruth, OnlyCollisionsHideALoss, SoleEnsureHooks

-----------------------------------------------------------------------------
(* Requests                                                                 *)

\* A request that is over, or about to begin, has nothing to keep.
LEMMA IdleIsOK ==
    ASSUME McpShapes, NEW b, req[b] = NoReq
    PROVE  RequestOK(b)
  BY DEF McpShapes, RequestOK, Elsewhere, NoReq

\* The page moves on, or keeps its realm and loses a hook to an actor that
\* everybody else is no longer alone with.
PageGoesOn(b) ==
    \/ site'.realm > site.realm
    \/ /\ site'.realm = site.realm /\ site'.gen = site.gen
       /\ site.object => site'.object
       /\ site.hooked => site'.hooked \/ ~ req'[b].alone

\* An actor that another one leaves alone, or outdoes.
LEMMA OthersStay ==
    ASSUME NEW b \in Actors, RequestOK(b), McpShapes, McpShapes',
           req'[b] = req[b] \/ req'[b] = [req[b] EXCEPT !.alone = FALSE],
           PageGoesOn(b), feeding' => feeding \/ ~ req'[b].alone
    PROVE  RequestOK(b)'
<1>1. /\ req'[b].seen = req[b].seen /\ req'[b].at = req[b].at
      /\ req'[b].gen = req[b].gen /\ req'[b].pc = req[b].pc /\ req'[b].tool = req[b].tool
      /\ req'[b].alone => req[b].alone
      /\ req[b].seen \in Nat /\ req[b].at \in Nat
  <2>1. req[b] \in Requests
    BY DEF McpShapes
  <2> QED
    BY <2>1 DEF Requests
<1>2. site.realm \in Nat /\ site'.realm \in Nat
  BY DEF McpShapes
<1> QED
  BY <1>1, <1>2 DEF RequestOK, Elsewhere, PageGoesOn

\* What Crowd leaves of the others.
LEMMA CrowdOf ==
    ASSUME McpShapes, NEW a \in Actors
    PROVE  /\ Crowd(a) \in [Actors -> Requests]
           /\ Crowd(a)[a] = req[a]
           /\ \A b \in Actors \ {a} : Crowd(a)[b] = [req[b] EXCEPT !.alone = FALSE]
                                      /\ ~ Crowd(a)[b].alone
<1>1. \A b \in Actors : [req[b] EXCEPT !.alone = @ /\ b = a] \in Requests
  BY RequestShape DEF McpShapes
<1>2. Crowd(a) \in [Actors -> Requests]
  BY <1>1 DEF Crowd
<1>3. Crowd(a)[a] = req[a]
  BY DEF Crowd, McpShapes, Requests
<1>4. \A b \in Actors \ {a} : Crowd(a)[b] = [req[b] EXCEPT !.alone = FALSE]
  BY DEF Crowd, McpShapes
<1>5. \A b \in Actors \ {a} : ~ [req[b] EXCEPT !.alone = FALSE].alone
  BY DEF McpShapes, Requests
<1> QED
  BY <1>2, <1>3, <1>4, <1>5

\* A step of one actor: it is right to go on as it does, and the others stay.
LEMMA OneActor ==
    ASSUME McpInv, NEW a \in Actors, NEW r \in Requests,
           req' = [req EXCEPT ![a] = r] \/ req' = [Crowd(a) EXCEPT ![a] = r],
           McpKept', RequestOK(a)',
           \A b \in Actors \ {a} :
              PageGoesOn(b) /\ (feeding' => feeding \/ ~ req'[b].alone)
    PROVE  McpInv'
<1>1. \A b \in Actors \ {a} : req'[b] = req[b] \/ req'[b] = [req[b] EXCEPT !.alone = FALSE]
  <2>1. CASE req' = [req EXCEPT ![a] = r]
    BY <2>1 DEF McpInv, McpKept, McpShapes
  <2>2. CASE req' = [Crowd(a) EXCEPT ![a] = r]
    <3>1. McpShapes
      BY DEF McpInv, McpKept
    <3>2. /\ Crowd(a) \in [Actors -> Requests]
          /\ \A b \in Actors \ {a} : Crowd(a)[b] = [req[b] EXCEPT !.alone = FALSE]
      BY <3>1, CrowdOf
    <3>3. \A b \in Actors \ {a} : req'[b] = Crowd(a)[b]
      BY <2>2, <3>2
    <3> QED
      BY <3>2, <3>3
  <2> QED
    BY <2>1, <2>2
<1>2. \A b \in Actors \ {a} : RequestOK(b)'
  BY <1>1, OthersStay DEF McpInv, McpKept
<1> QED
  BY <1>2 DEF McpInv

\* A step that changes nothing but the phase of one actor's request.
LEMMA GoKeeps ==
    ASSUME McpInv, NEW a \in Actors, NEW pc \in Phases, Go(a, pc),
           UNCHANGED <<site, feeding, installGen, pinned, answer>>,
           pc \in {"running", "compare"} => req[a].pc \in {"running", "compare"},
           pc \in Elsewhere => req[a].pc \in Elsewhere,
           req[a].tool = "ensure" /\ req[a].alone =>
              /\ pc \in {"wait", "uninstall", "start"} => ~ feeding
              /\ pc = "record" /\ req[a].at = site.realm => site.hooked
    PROVE  McpInv'
<1>1. req[a] \in Requests
  BY DEF McpInv, McpKept, McpShapes
<1> DEFINE r == [req[a] EXCEPT !.pc = pc]
<1>2. r \in Requests /\ req' = [req EXCEPT ![a] = r]
  BY <1>1, RequestShape DEF Go
<1>3. req'[a] = r /\ r.pc = pc /\ r.tool = req[a].tool /\ r.alone = req[a].alone
      /\ r.at = req[a].at /\ r.seen = req[a].seen /\ r.gen = req[a].gen
  BY <1>1, <1>2 DEF McpInv, McpKept, McpShapes, Requests
<1> HIDE DEF r
<1>4. RequestOK(a)'
  BY <1>3 DEF McpInv, RequestOK, Elsewhere
<1>5. McpKept'
  BY <1>2 DEF McpInv, McpKept, McpShapes, RecordOK, AgentIsToldTheTruth, OnlyCollisionsHideALoss, SoleEnsureHooks
<1> QED
  BY <1>2, <1>4, <1>5, OneActor DEF PageGoesOn

\* A request ends.
LEMMA EndKeeps ==
    ASSUME McpInv, NEW a \in Actors, End(a), McpKept', UNCHANGED <<site, feeding>>
    PROVE  McpInv'
<1>1. NoReq \in Requests /\ req' = [req EXCEPT ![a] = NoReq] /\ req'[a] = NoReq
  BY RequestShape DEF End, McpInv, McpKept, McpShapes
<1>2. RequestOK(a)'
  BY <1>1 DEF McpKept, McpShapes, RequestOK, Elsewhere, NoReq
<1> QED
  BY <1>1, <1>2, OneActor DEF PageGoesOn

-----------------------------------------------------------------------------
(* The page                                                                 *)

LEMMA PageMoves ==
    ASSUME McpInv, NewPageRealm \/ Renumbered
    PROVE  McpInv'
<1>1. /\ site' \in [realm : Nat \ {0}, gen : Nat \ {0}, numbering : Nat \ {0}, object : BOOLEAN, hooked : BOOLEAN]
      /\ site'.realm = site.realm + 1 /\ site.realm \in Nat /\ site.gen \in Nat /\ site.numbering \in Nat
      /\ \/ site'.gen = site.gen + 1 /\ site'.numbering = site.numbering
         \/ site'.numbering = site.numbering + 1
      /\ UNCHANGED <<feeding, installGen, pinned, req, answer>>
  <2>1. site \in [realm : Nat \ {0}, gen : Nat \ {0}, numbering : Nat \ {0}, object : BOOLEAN, hooked : BOOLEAN]
    BY DEF McpInv, McpKept, McpShapes
  <2>2. CASE NewPageRealm
    <3>1. site' = [realm |-> site.realm + 1, gen |-> site.gen + 1, numbering |-> site.numbering,
                   object |-> FALSE, hooked |-> FALSE]
      BY <2>1, <2>2 DEF NewPageRealm
    <3>2. UNCHANGED <<feeding, installGen, pinned, req, answer>>
      BY <2>2 DEF NewPageRealm
    <3> QED
      BY <2>1, <3>1, <3>2
  <2>3. CASE Renumbered
    BY <2>1, <2>3 DEF Renumbered
  <2> QED
    BY <2>2, <2>3
<1>2. McpShapes'
  BY <1>1 DEF McpInv, McpKept, McpShapes
<1>3. RecordOK'
  <2>1. pinned.realm \in Nat /\ pinned.numbering \in Nat /\ installGen.gen \in Nat
    BY DEF McpInv, McpKept, McpShapes
  <2> QED
    BY <1>1, <2>1 DEF McpInv, McpKept, RecordOK
<1>4. AgentIsToldTheTruth'
  BY <1>1 DEF McpInv, McpKept, AgentIsToldTheTruth, OnlyCollisionsHideALoss, SoleEnsureHooks
<1>5. \A b \in Actors : RequestOK(b)'
  BY <1>1, <1>2, OthersStay DEF McpInv, McpKept, PageGoesOn
<1> QED
  BY <1>2, <1>3, <1>4, <1>5 DEF McpInv, McpKept

\* The hook comes back where the realm stays: what is known of it still holds.
LEMMA SiteKeeps ==
    ASSUME McpKept, UNCHANGED <<feeding, installGen, pinned, answer>>, req' \in [Actors -> Requests],
           NEW object \in BOOLEAN, NEW hooked \in BOOLEAN, site.object => object,
           site' = [site EXCEPT !.object = object, !.hooked = hooked]
    PROVE  /\ McpKept'
           /\ site'.realm = site.realm /\ site'.gen = site.gen /\ site'.object = object
           /\ site'.hooked = hooked
<1>1. /\ site' \in [realm : Nat \ {0}, gen : Nat \ {0}, numbering : Nat \ {0}, object : BOOLEAN, hooked : BOOLEAN]
      /\ site'.realm = site.realm /\ site'.gen = site.gen /\ site'.numbering = site.numbering
      /\ site'.object = object /\ site'.hooked = hooked
  BY DEF McpKept, McpShapes
<1>2. McpShapes'
  BY <1>1 DEF McpKept, McpShapes
<1>3. RecordOK'
  BY <1>1 DEF McpKept, RecordOK
<1>4. AgentIsToldTheTruth'
  BY DEF McpKept, AgentIsToldTheTruth, OnlyCollisionsHideALoss, SoleEnsureHooks
<1> QED
  BY <1>1, <1>2, <1>3, <1>4 DEF McpKept

LEMMA RehookKeeps == ASSUME McpInv, Rehook PROVE McpInv'
<1>1. req' = req /\ UNCHANGED <<feeding, installGen, pinned, answer>> /\ req \in [Actors -> Requests]
      /\ site.object \in BOOLEAN /\ site.hooked \in BOOLEAN
  BY DEF Rehook, McpInv, McpKept, McpShapes
<1>2. ASSUME NEW hooked \in {TRUE, site.hooked}, site' = [site EXCEPT !.object = TRUE, !.hooked = hooked]
      PROVE  McpInv'
  <2>1. /\ McpKept' /\ site'.realm = site.realm /\ site'.gen = site.gen /\ site'.object = TRUE /\ site'.hooked = hooked
    BY <1>1, <1>2, SiteKeeps DEF McpInv
  <2>2. \A b \in Actors : PageGoesOn(b)
    BY <1>2, <2>1 DEF PageGoesOn
  <2> QED
    BY <1>1, <2>1, <2>2, OthersStay DEF McpInv, McpKept
<1>3. CASE UNCHANGED site
  BY <1>1, <1>3 DEF McpInv, McpKept, McpShapes, RecordOK, RequestOK, Elsewhere, AgentIsToldTheTruth,
                    OnlyCollisionsHideALoss, SoleEnsureHooks
<1> QED
  BY <1>2, <1>3 DEF Rehook

-----------------------------------------------------------------------------
(* The capture is switched                                                  *)

\* An actor at work on the capture leaves no other alone with it.
LEMMA SwitchKeeps ==
    ASSUME McpInv, NEW a \in Actors, NEW r \in Requests, req' = [Crowd(a) EXCEPT ![a] = r],
           NEW object \in BOOLEAN, NEW hooked \in BOOLEAN, site.object => object,
           \/ UNCHANGED site
           \/ site' = [site EXCEPT !.object = object, !.hooked = hooked],
           feeding' \in BOOLEAN, UNCHANGED <<installGen, pinned, answer>>,
           RequestOK(a)'
    PROVE  McpInv'
<1>1. /\ req' \in [Actors -> Requests]
      /\ \A b \in Actors \ {a} : ~ req'[b].alone
  <2>1. McpShapes
    BY DEF McpInv, McpKept
  <2>2. /\ Crowd(a) \in [Actors -> Requests]
        /\ \A b \in Actors \ {a} : ~ Crowd(a)[b].alone
    BY <2>1, CrowdOf
  <2> QED
    BY <2>2
<1>2. /\ site' \in [realm : Nat \ {0}, gen : Nat \ {0}, numbering : Nat \ {0}, object : BOOLEAN, hooked : BOOLEAN]
      /\ site'.realm = site.realm /\ site'.gen = site.gen /\ site'.numbering = site.numbering
      /\ site.object => site'.object
  BY DEF McpInv, McpKept, McpShapes
<1>3. McpShapes'
  BY <1>1, <1>2 DEF McpInv, McpKept, McpShapes
<1>4. RecordOK' /\ AgentIsToldTheTruth'
  BY <1>2 DEF McpInv, McpKept, RecordOK, AgentIsToldTheTruth, OnlyCollisionsHideALoss, SoleEnsureHooks
<1>5. \A b \in Actors \ {a} : PageGoesOn(b)
  BY <1>1, <1>2 DEF PageGoesOn
<1> QED
  BY <1>1, <1>3, <1>4, <1>5, OneActor DEF McpKept

LEMMA SwitchesKeep ==
    ASSUME McpInv, NEW a \in Actors, SwitchStep(a)
    PROVE  McpInv'
<1>1. /\ req \in [Actors -> Requests] /\ req[a] \in Requests /\ RequestOK(a)
      /\ site.object \in BOOLEAN /\ site.hooked \in BOOLEAN /\ feeding \in BOOLEAN
      /\ site.realm \in Nat
  BY DEF McpInv, McpKept, McpShapes
<1>2. /\ Crowd(a) \in [Actors -> Requests] /\ Crowd(a)[a] = req[a]
  BY CrowdOf DEF McpInv, McpKept
<1>3. CASE StartFlag(a)
  <2>1. CASE feeding
    <3>1. Go(a, AfterStart(a)) /\ UNCHANGED <<site, feeding, installGen, pinned, answer>>
      BY <1>3, <2>1 DEF StartFlag
    <3>2. AfterStart(a) \in {"record", "done"}
      BY DEF AfterStart
    <3>3. ~ (req[a].tool = "ensure" /\ req[a].alone)
      BY <1>1, <1>3, <2>1 DEF StartFlag, RequestOK
    <3> QED
      BY <3>1, <3>2, <3>3, GoKeeps DEF Phases, Elsewhere
  <2>2. CASE ~ feeding
    <3> DEFINE r == [req[a] EXCEPT !.pc = "install"]
    <3>0. "install" \in Phases
      BY DEF Phases
    <3>1. r \in Requests /\ r.pc = "install" /\ r.seen = req[a].seen /\ r.at = req[a].at
      BY <1>1, <3>0, RequestShape DEF Requests
    <3>2. req' = [Crowd(a) EXCEPT ![a] = r] /\ feeding' = TRUE
          /\ UNCHANGED <<site, installGen, pinned, answer>>
      BY <1>2, <1>3, <2>2 DEF StartFlag
    <3> HIDE DEF r
    <3>3. req'[a] = r
      BY <1>2, <3>2
    <3>4. RequestOK(a)'
      BY <1>1, <3>1, <3>2, <3>3 DEF RequestOK, Elsewhere
    <3> QED
      BY <1>1, <3>1, <3>2, <3>4, SwitchKeeps
  <2> QED
    BY <2>1, <2>2
<1>4. CASE StartInstall(a)
  <2> DEFINE r == [req[a] EXCEPT !.pc = AfterStart(a), !.seen = site.realm]
  <2>1. AfterStart(a) \in {"record", "done"} /\ AfterStart(a) \in Phases
    BY DEF AfterStart, Phases
  <2>2. r \in Requests /\ r.pc = AfterStart(a) /\ r.seen = site.realm /\ r.at = req[a].at
    BY <1>1, <2>1, RequestShape DEF Requests
  <2>3. req' = [Crowd(a) EXCEPT ![a] = r] /\ UNCHANGED <<feeding, installGen, pinned, answer>>
        /\ site' = [site EXCEPT !.object = TRUE, !.hooked = TRUE]
    BY <1>2, <1>4 DEF StartInstall
  <2> HIDE DEF r
  <2>4. req'[a] = r
    BY <1>2, <2>3
  <2>5. site'.realm = site.realm /\ site'.object /\ site'.hooked
    BY <2>3 DEF McpInv, McpKept, McpShapes
  <2>6. RequestOK(a)'
    BY <1>1, <2>1, <2>2, <2>4, <2>5 DEF RequestOK, Elsewhere
  <2>7. feeding' \in BOOLEAN
    BY <1>1, <2>3
  <2> QED
    BY <2>2, <2>3, <2>6, <2>7, SwitchKeeps
<1>5. CASE StartFails(a)
  <2>1. NoReq \in Requests /\ req' = [Crowd(a) EXCEPT ![a] = NoReq] /\ feeding' = FALSE
        /\ UNCHANGED <<site, installGen, pinned, answer>>
    BY <1>5, RequestShape DEF StartFails
  <2>2. RequestOK(a)'
    BY <1>1, <1>2, <2>1 DEF RequestOK, Elsewhere, NoReq, McpInv, McpKept, McpShapes
  <2> QED
    BY <1>1, <2>1, <2>2, SwitchKeeps
<1>6. CASE StopFlag(a)
  <2> DEFINE pc == IF feeding THEN "wait" ELSE "uninstall"
             r == [req[a] EXCEPT !.pc = pc]
  <2>1. pc \in {"wait", "uninstall"} /\ pc \in Phases
    BY DEF Phases
  <2>2. r \in Requests /\ r.pc = pc /\ r.seen = req[a].seen /\ r.at = req[a].at
    BY <1>1, <2>1, RequestShape DEF Requests
  <2>3. req' = [Crowd(a) EXCEPT ![a] = r] /\ feeding' = FALSE
        /\ UNCHANGED <<site, installGen, pinned, answer>>
    BY <1>2, <1>6 DEF StopFlag
  <2> HIDE DEF r, pc
  <2>4. req'[a] = r
    BY <1>2, <2>3
  <2>5. RequestOK(a)'
    BY <1>1, <2>1, <2>2, <2>3, <2>4 DEF RequestOK, Elsewhere
  <2> QED
    BY <1>1, <2>2, <2>3, <2>5, SwitchKeeps
<1>7. CASE StopWait(a)
  BY <1>7, GoKeeps DEF StopWait, Phases, Elsewhere
<1>8. CASE StopUninstall(a)
  <2> DEFINE pc == CASE req[a].tool = "ensure" -> "start"
                     [] req[a].tool = "hook_stop" -> "unwatch"
                     [] OTHER -> "done"
             r == [req[a] EXCEPT !.pc = pc]
  <2>1. pc \in {"start", "unwatch", "done"} /\ pc \in Phases
    BY DEF Phases
  <2>2. r \in Requests /\ r.pc = pc /\ r.seen = req[a].seen /\ r.at = req[a].at /\ r.tool = req[a].tool
        /\ r.alone = req[a].alone
    BY <1>1, <2>1, RequestShape DEF Requests
  <2>3. req' = [Crowd(a) EXCEPT ![a] = r] /\ UNCHANGED <<feeding, installGen, pinned, answer>>
    BY <1>2, <1>8 DEF StopUninstall
  <2> HIDE DEF r, pc
  <2>4. req'[a] = r /\ req[a].pc = "uninstall"
    BY <1>2, <1>8, <2>3 DEF StopUninstall
  <2>5. UNCHANGED site \/ site' = [site EXCEPT !.object = site.object, !.hooked = FALSE]
    BY <1>8 DEF StopUninstall, McpInv, McpKept, McpShapes
  <2>6. site'.realm = site.realm /\ site'.object = site.object
    BY <2>5 DEF McpInv, McpKept, McpShapes
  <2>7. RequestOK(a)'
    BY <1>1, <2>1, <2>2, <2>3, <2>4, <2>6 DEF RequestOK, Elsewhere
  <2>8. feeding' \in BOOLEAN /\ FALSE \in BOOLEAN
    BY <1>1, <2>3
  <2> QED
    BY <1>1, <2>2, <2>3, <2>5, <2>7, <2>8, SwitchKeeps
<1>9. CASE Done(a)
  <2>1. McpKept'
    BY <1>9, RequestShape DEF Done, End, McpInv, McpKept, McpShapes, RecordOK, AgentIsToldTheTruth,
                OnlyCollisionsHideALoss, SoleEnsureHooks
  <2> QED
    BY <1>9, <2>1, EndKeeps DEF Done
<1> QED
  BY <1>3, <1>4, <1>5, <1>6, <1>7, <1>8, <1>9 DEF SwitchStep

-----------------------------------------------------------------------------
(* The tools                                                                *)

LEMMA AskKeeps ==
    ASSUME McpInv, NEW a \in Agents, NEW tool \in Tools, AskTool(a, tool)
    PROVE  McpInv'
<1> DEFINE pc == CASE tool = "ensure" -> "stats" [] tool = "hook_stop" -> "stop"
                   [] OTHER -> "watches"
           alone == \A b \in Actors : req[b].pc \notin {"install", "wait", "uninstall"}
           r(forced) == [NoReq EXCEPT !.tool = tool, !.forced = forced, !.at = site.realm,
                                      !.alone = alone, !.pc = pc]
<1>1. PICK forced \in {FALSE, tool = "ensure"} : req' = [req EXCEPT ![a] = r(forced)]
  BY DEF AskTool
<1>2. UNCHANGED <<site, feeding, installGen, pinned, answer>> /\ a \in Actors /\ site.realm \in Nat \ {0}
  BY DEF AskTool, Actors, McpInv, McpKept, McpShapes
<1>3. pc \in {"stats", "stop", "watches"} /\ alone \in BOOLEAN
  OBVIOUS
<1> HIDE DEF pc, alone
<1>4. NoReq \in Requests /\ NoReq.gen = 0 /\ NoReq.seen = 0
  BY RequestShape DEF NoReq
<1>5. /\ r(forced) \in Requests
      /\ r(forced).pc = pc /\ r(forced).tool = tool /\ r(forced).seen = 0
      /\ r(forced).at = site.realm
  BY <1>2, <1>3, <1>4 DEF Requests, Phases
<1> HIDE DEF r
<1>6. req'[a] = r(forced)
  BY <1>1, <1>2 DEF McpInv, McpKept, McpShapes
<1>7. RequestOK(a)'
  <2>1. pc = "stats" \/ tool # "ensure"
    BY DEF pc
  <2> QED
    BY <1>2, <1>3, <1>5, <1>6, <2>1 DEF RequestOK, Elsewhere
<1>8. McpKept'
  BY <1>1, <1>2, <1>5 DEF McpInv, McpKept, McpShapes, RecordOK, AgentIsToldTheTruth, OnlyCollisionsHideALoss, SoleEnsureHooks
<1> QED
  BY <1>1, <1>2, <1>5, <1>7, <1>8, OneActor DEF PageGoesOn

\* ensureHook decides: a feeder found running is stopped first.
LEMMA EnsureKeeps ==
    ASSUME McpInv, NEW a \in Actors, EnsureStep(a)
    PROVE  McpInv'
<1> USE DEF Restart
<1>1. CASE EnsureStats(a)
  BY <1>1, GoKeeps DEF EnsureStats, Phases, Elsewhere
<1>2. CASE EnsureCurrent(a)
  <2>1. PICK now \in CurrentGeneration :
            Go(a, IF installGen.on /\ installGen.gen = now THEN "alive" ELSE Restart(TRUE))
    BY <1>2 DEF EnsureCurrent
  <2> QED
    BY <1>2, <2>1, GoKeeps DEF EnsureCurrent, Phases, Elsewhere
<1>3. CASE EnsureAlive(a)
  <2>1. PICK alive \in {site.object, FALSE} : Go(a, IF alive THEN "done" ELSE Restart(TRUE))
    BY <1>3 DEF EnsureAlive
  <2> QED
    BY <1>3, <2>1, GoKeeps DEF EnsureAlive, Phases, Elsewhere
<1> QED
  BY <1>1, <1>2, <1>3 DEF EnsureStep

\* The record is of the realm its hook was seen in, or of none; what ensureHook
\* started alone is hooked.
LEMMA RecordKeeps ==
    ASSUME McpInv, NEW a \in Actors, RecordStep(a)
    PROVE  McpInv'
<1>1. /\ req \in [Actors -> Requests] /\ req[a] \in Requests /\ RequestOK(a) /\ site.realm \in Nat \ {0}
      /\ site.gen \in Nat \ {0} /\ site.numbering \in Nat \ {0}
  BY DEF McpInv, McpKept, McpShapes
<1>2. CASE RecordInstall(a)
  <2>1. PICK now \in CurrentGeneration : installGen' = [on |-> TRUE, gen |-> now]
    BY <1>2 DEF RecordInstall
  <2>2. /\ req[a].pc = "record" /\ End(a) /\ UNCHANGED <<site, feeding>>
        /\ pinned' = IF req[a].seen = site.realm THEN Here ELSE NowherePinned
        /\ IF req[a].tool = "ensure" THEN Says("started", req[a].at # site.realm, req[a].alone)
           ELSE UNCHANGED answer
    BY <1>2 DEF RecordInstall
  <2>3. now \in {0, site.gen} /\ installGen'.gen = now
    BY <2>1 DEF CurrentGeneration
  <2>4. McpShapes'
    <3>1. req' \in [Actors -> Requests]
      BY <1>1, <2>2, RequestShape DEF End
    <3>2. pinned' \in [realm : Nat, numbering : Nat]
      BY <1>1, <2>2 DEF Here, NowherePinned
    <3>3. installGen' \in [on : BOOLEAN, gen : Nat]
      BY <1>1, <2>1, <2>3
    <3> QED
      BY <2>2, <3>1, <3>2, <3>3 DEF McpInv, McpKept, McpShapes
  <2>5. RecordOK'
    BY <1>1, <2>2, <2>3 DEF RecordOK, RequestOK, Elsewhere, Here
  <2>6. AgentIsToldTheTruth'
    <3>1. CASE req[a].tool = "ensure"
      <4>1. /\ answer'.says = "started" /\ answer'.hooked = site.hooked
            /\ answer'.excused = (req[a].at # site.realm) /\ answer'.alone = req[a].alone
        BY <2>2, <3>1 DEF Says
      <4> QED
        BY <1>1, <2>2, <3>1, <4>1 DEF RequestOK, Elsewhere, AgentIsToldTheTruth, OnlyCollisionsHideALoss, SoleEnsureHooks
    <3>2. CASE req[a].tool # "ensure"
      BY <2>2, <3>2 DEF McpInv, McpKept, AgentIsToldTheTruth, OnlyCollisionsHideALoss, SoleEnsureHooks
    <3> QED
      BY <3>1, <3>2
  <2> QED
    BY <2>2, <2>4, <2>5, <2>6, EndKeeps DEF McpKept
<1>3. CASE Unwatch(a)
  <2>1. /\ End(a) /\ UNCHANGED <<site, feeding, answer>>
        /\ installGen' = Unwatched /\ pinned' = NowherePinned
    BY <1>3 DEF Unwatch
  <2>2. McpShapes'
    BY <1>1, <2>1, RequestShape DEF End, McpInv, McpKept, McpShapes, Unwatched, NowherePinned
  <2>3. RecordOK' /\ AgentIsToldTheTruth'
    BY <2>1 DEF RecordOK, McpInv, McpKept, AgentIsToldTheTruth, OnlyCollisionsHideALoss, SoleEnsureHooks
  <2> QED
    BY <2>1, <2>2, <2>3, EndKeeps DEF McpKept
<1> QED
  BY <1>2, <1>3 DEF RecordStep

\* A request that ends with an answer which is true, or with none.
LEMMA AnswerKeeps ==
    ASSUME McpInv, NEW a \in Actors, End(a), UNCHANGED <<site, feeding, installGen, pinned>>,
           AgentIsToldTheTruth'
    PROVE  McpInv'
<1>1. McpShapes'
  BY RequestShape DEF End, McpInv, McpKept, McpShapes
<1>2. RecordOK'
  BY DEF McpInv, McpKept, RecordOK
<1> QED
  BY <1>1, <1>2, EndKeeps DEF McpKept

LEMMA HealthKeeps ==
    ASSUME McpInv, NEW a \in Actors, HealthStep(a)
    PROVE  McpInv'
<1>1. /\ req \in [Actors -> Requests] /\ req[a] \in Requests /\ RequestOK(a)
      /\ site.realm \in Nat \ {0} /\ site.gen \in Nat \ {0}
  BY DEF McpInv, McpKept, McpShapes
<1>2. UNCHANGED answer => AgentIsToldTheTruth'
  BY DEF McpInv, McpKept, AgentIsToldTheTruth, OnlyCollisionsHideALoss, SoleEnsureHooks
<1>3. \A excused, alone : Says("abnormal", excused, alone) => AgentIsToldTheTruth'
  BY DEF Says, AgentIsToldTheTruth, OnlyCollisionsHideALoss, SoleEnsureHooks
<1>4. CASE HealthWatches(a)
  <2>1. CASE installGen.on
    <3>1. PICK now \in CurrentGeneration : req' = [req EXCEPT ![a].pc = "running", ![a].gen = now]
      BY <1>4, <2>1 DEF HealthWatches
    <3> DEFINE r == [req[a] EXCEPT !.pc = "running", !.gen = now]
    <3>2. now \in Nat /\ "running" \in Phases /\ now \in {0, site.gen}
      BY <1>1 DEF CurrentGeneration, Phases
    <3>3. r \in Requests /\ r.pc = "running" /\ r.gen = now /\ r.seen = req[a].seen /\ r.at = req[a].at
          /\ r.tool = req[a].tool
      BY <1>1, <3>2, RequestShape DEF Requests
    <3>4. req' = [req EXCEPT ![a] = r]
      BY <1>1, <3>1
    <3> HIDE DEF r
    <3>5. UNCHANGED <<site, feeding, installGen, pinned, answer>> /\ req'[a] = r /\ req[a].pc = "watches"
      BY <1>1, <1>4, <3>4 DEF HealthWatches
    <3>6. RequestOK(a)'
      BY <1>1, <3>2, <3>3, <3>5 DEF RequestOK, Elsewhere
    <3>7. McpKept'
      BY <1>2, <3>3, <3>4, <3>5 DEF McpInv, McpKept, McpShapes, RecordOK
    <3> QED
      BY <3>3, <3>4, <3>5, <3>6, <3>7, OneActor DEF PageGoesOn
  <2>2. CASE ~ installGen.on
    BY <1>2, <1>4, <2>2, AnswerKeeps DEF HealthWatches
  <2> QED
    BY <2>1, <2>2
<1>5. CASE HealthRunning(a)
  <2>1. CASE feeding
    BY <1>5, <2>1, GoKeeps DEF HealthRunning, Phases, Elsewhere
  <2>2. CASE ~ feeding
    BY <1>3, <1>5, <2>2, AnswerKeeps DEF HealthRunning
  <2> QED
    BY <2>1, <2>2
<1>6. CASE HealthCompare(a)
  <2>1. CASE SameGeneration(req[a].gen)
    <3> DEFINE excused == \/ req[a].gen = 0 \/ req[a].at # site.realm
                          \/ pinned = NowherePinned \/ pinned.numbering # site.numbering
    <3>1. Says("healthy", excused, FALSE) /\ End(a) /\ UNCHANGED <<site, feeding, installGen, pinned>>
      BY <1>6, <2>1 DEF HealthCompare
    <3>2. ASSUME ~ excused PROVE site.object
      <4>1. req[a].gen = site.gen
        BY <1>1, <1>6, <3>2 DEF HealthCompare, RequestOK
      <4>2. /\ pinned # NowherePinned /\ pinned.numbering = site.numbering
            /\ installGen.gen = site.gen /\ installGen.gen # 0
        BY <1>1, <2>1, <3>2, <4>1 DEF SameGeneration
      <4>3. site.gen + pinned.realm = site.realm + site.gen
        BY <4>2 DEF McpInv, McpKept, RecordOK
      <4>4. pinned.realm \in Nat
        BY DEF McpInv, McpKept, McpShapes
      <4>5. pinned.realm = site.realm
        BY <1>1, <4>3, <4>4
      <4> QED
        BY <4>2, <4>5 DEF McpInv, McpKept, RecordOK
    <3> HIDE DEF excused
    <3>3. answer'.says = "healthy" /\ answer'.object = site.object /\ answer'.excused = excused
      BY <3>1 DEF Says
    <3>4. AgentIsToldTheTruth'
      BY <3>2, <3>3 DEF AgentIsToldTheTruth, OnlyCollisionsHideALoss, SoleEnsureHooks
    <3> QED
      BY <3>1, <3>4, AnswerKeeps
  <2>2. CASE ~ SameGeneration(req[a].gen)
    BY <1>6, <2>2, GoKeeps DEF HealthCompare, Phases, Elsewhere
  <2> QED
    BY <2>1, <2>2
<1>7. CASE HealthProbe(a)
  <2>1. CASE Says("abnormal", FALSE, FALSE) /\ End(a)
    BY <1>3, <1>7, <2>1, AnswerKeeps DEF HealthProbe
  <2>2. CASE site.object /\ req' = [req EXCEPT ![a].pc = "record", ![a].seen = site.realm] /\ UNCHANGED answer
    <3> DEFINE r == [req[a] EXCEPT !.pc = "record", !.seen = site.realm]
    <3>2. "record" \in Phases
      BY DEF Phases
    <3>3. r \in Requests /\ r.pc = "record" /\ r.seen = site.realm /\ r.at = req[a].at /\ r.tool = req[a].tool
      BY <1>1, <3>2, RequestShape DEF Requests
    <3>4. req' = [req EXCEPT ![a] = r]
      BY <1>1, <2>2
    <3> HIDE DEF r
    <3>5. UNCHANGED <<site, feeding, installGen, pinned, answer>> /\ req'[a] = r /\ req[a].pc = "probe"
      BY <1>1, <1>7, <2>2, <3>4 DEF HealthProbe
    <3>6. RequestOK(a)'
      BY <1>1, <2>2, <3>3, <3>5 DEF RequestOK, Elsewhere
    <3>7. McpKept'
      BY <1>2, <3>3, <3>4, <3>5 DEF McpInv, McpKept, McpShapes, RecordOK
    <3> QED
      BY <3>3, <3>4, <3>5, <3>6, <3>7, OneActor DEF PageGoesOn
  <2> QED
    BY <1>7, <2>1, <2>2 DEF HealthProbe
<1> QED
  BY <1>4, <1>5, <1>6, <1>7 DEF HealthStep

LEMMA McpStep == ASSUME McpInv, [McpNext]_mcpVars PROVE McpInv'
<1>1. Agents \subseteq Actors /\ ThePanel \in Actors
  BY DEF Actors
<1>2. CASE PanelPress
  <2>1. PICK pc \in {"start", "stop"} : req' = [req EXCEPT ![ThePanel].pc = pc]
    BY <1>2 DEF PanelPress
  <2> QED
    <3>1. req[ThePanel].tool # "ensure"
      BY <1>1, <1>2 DEF PanelPress, McpInv, RequestOK, Elsewhere
    <3> QED
      BY <1>1, <1>2, <2>1, <3>1, GoKeeps DEF PanelPress, Go, Phases, Elsewhere
<1>3. CASE UNCHANGED mcpVars
  BY <1>3 DEF mcpVars, McpInv, McpKept, McpShapes, RecordOK, RequestOK, Elsewhere, AgentIsToldTheTruth,
              OnlyCollisionsHideALoss, SoleEnsureHooks
<1> QED
  BY <1>1, <1>2, <1>3, PageMoves, RehookKeeps, AskKeeps, SwitchesKeep, EnsureKeeps, RecordKeeps,
     HealthKeeps DEF McpNext

\* A capture whose audit object is gone is called healthy over a collision of
\* generations only, and what ensureHook started alone is hooked
\* (session_tools.go, captureHealth; server.go, ensureHook).
THEOREM AgentHearsTheTruth == McpSpec => []AgentIsToldTheTruth
<1>1. McpInv => AgentIsToldTheTruth
  BY DEF McpInv, McpKept
<1> QED
  BY McpInitially, McpStep, <1>1, PTL DEF McpSpec

-----------------------------------------------------------------------------
(* The extraction (Extraction)                                              *)

Phase == {"idle", "unpack", "stat", "place", "aside", "swap", "restore", "drop", "format", "scan"}
Runs == [pc : Phase, app : Apps \cup {"none"}, id : Nat, version : Nat, touched : BOOLEAN]
Decompiling == {"unpack", "stat", "place", "aside", "swap", "restore", "drop"}

\* The handlers at work: a decompilation has a number of its own.
RunsOK ==
    /\ run \in [Handlers -> Runs]
    /\ runs \in Nat /\ runs <= MaxRuns
    /\ \A h \in Handlers : /\ run[h].id <= runs
                           /\ run[h].pc \in Decompiling => run[h].id # 0
                           /\ run[h].pc # "idle" => run[h].app \in Apps
    /\ \A g, h \in Handlers : run[g].id # 0 /\ run[g].id = run[h].id => g = h

\* What the root holds: an output is of its app, so are the work directory and
\* the backup of a run, and the backup is there only once the output was put
\* aside.
Backups == {"backup"} \X (1 .. MaxRuns)
AFunction(f) == f = [d \in DOMAIN f |-> f[d]]
Restored == [app : Apps, version : Nat, shows : Nat]
RootOK ==
    /\ package \in [Apps -> Nat]
    /\ \A d \in DOMAIN dirs : dirs[d] \in Restored
    /\ AFunction(dirs)
    /\ DOMAIN dirs \subseteq Apps \cup Temporary
    /\ owned \subseteq Apps
    /\ \A d \in DOMAIN dirs : d \in Apps => dirs[d].app = d
    /\ \A n \in 1 .. MaxRuns : <<"backup", n>> \in DOMAIN dirs => n <= runs
    /\ \A h \in Handlers : run[h].pc \in Decompiling =>
          /\ run[h].pc \in {"unpack", "stat", "place", "aside"} => BackupOf(h) \notin DOMAIN dirs
          /\ BackupOf(h) \in DOMAIN dirs => dirs[BackupOf(h)].app = run[h].app
          /\ run[h].pc # "unpack" /\ WorkOf(h) \in DOMAIN dirs => dirs[WorkOf(h)].app = run[h].app

\* A copy that no run is about to remove.
Lasting(d) == \A h \in Handlers : run[h].pc = "drop" => d # BackupOf(h)
Copy(a, d) == d \in DOMAIN dirs /\ dirs[d].app = a /\ (d = a \/ (d \in Backups /\ Lasting(d)))
CopiesOK == \A a \in owned : \E d \in DOMAIN dirs : Copy(a, d)

\* Every unpacked is as it was swapped in, but for the formatters that were
\* overtaken; who was not still sees the output it began with.
ReadersOK ==
    /\ \A d \in DOMAIN dirs : dirs[d].app \notin overtaken => dirs[d].shows = dirs[d].version
    /\ \A h \in Handlers : ~ run[h].touched =>
          /\ run[h].pc = "scan" => Exists(run[h].app)
          /\ run[h].pc = "format" /\ run[h].app \notin overtaken =>
                Exists(run[h].app) /\ run[h].version = dirs[run[h].app].version
    /\ misread = FALSE

ExtractionInv == RunsOK /\ RootOK /\ CopiesOK /\ ReadersOK

-----------------------------------------------------------------------------
LEMMA Names ==
    ASSUME RunsOK, NEW h \in Handlers, run[h].pc \in Decompiling
    PROVE  /\ run[h].id \in 1 .. MaxRuns
           /\ WorkOf(h) \in Temporary /\ BackupOf(h) \in Temporary /\ BackupOf(h) \in Backups
           /\ WorkOf(h) \notin Backups /\ WorkOf(h) \notin Apps /\ BackupOf(h) \notin Apps
           /\ \A g \in Handlers \ {h} : run[g].pc \in Decompiling =>
                 WorkOf(g) # WorkOf(h) /\ BackupOf(g) # BackupOf(h)
           /\ \A g \in Handlers : WorkOf(g) # BackupOf(h) /\ BackupOf(g) # WorkOf(h)
<1>1. run[h].id \in 1 .. MaxRuns
  BY ExtractionBounds DEF RunsOK, Runs
<1> QED
  BY <1>1, AppsAreNamedApart DEF RunsOK, WorkOf, BackupOf, Temporary, Backups

LEMMA PutHolds ==
    ASSUME NEW ds, NEW d, NEW unpacked
    PROVE  /\ DOMAIN Put(ds, d, unpacked) = DOMAIN ds \cup {d}
           /\ Put(ds, d, unpacked)[d] = unpacked
           /\ \A e \in DOMAIN ds \ {d} : Put(ds, d, unpacked)[e] = ds[e]
           /\ AFunction(Put(ds, d, unpacked))
  BY DEF Put, AFunction

LEMMA WithoutHolds ==
    ASSUME NEW ds, NEW gone
    PROVE  /\ DOMAIN Without(ds, gone) = DOMAIN ds \ gone
           /\ \A e \in DOMAIN ds \ gone : Without(ds, gone)[e] = ds[e]
           /\ AFunction(Without(ds, gone))
  BY DEF Without, AFunction

IsMoved(new, ds, from, to) ==
    /\ DOMAIN new = (DOMAIN ds \ {from}) \cup {to} /\ new[to] = ds[from]
    /\ \A e \in DOMAIN ds \ {from, to} : new[e] = ds[e]
    /\ AFunction(new)

LEMMA MovedHolds ==
    ASSUME NEW ds, NEW from \in DOMAIN ds, NEW to, from # to
    PROVE  IsMoved(Moved(ds, from, to), ds, from, to)
<1>1. AFunction(Moved(ds, from, to))
  BY DEF Moved, Without, AFunction
<1> QED
  BY <1>1 DEF IsMoved, Moved, Put, Without

\* A handler that another one's step touches at most.
TouchedAtMost(g) ==
    /\ run'[g].pc = run[g].pc /\ run'[g].app = run[g].app /\ run'[g].id = run[g].id
    /\ run'[g].version = run[g].version /\ (run[g].touched => run'[g].touched)

LEMMA RunShapes ==
    /\ NoRun \in Runs
    /\ \A r \in Runs : /\ [r EXCEPT !.touched = TRUE] \in Runs
                       /\ \A pc \in Phase : [r EXCEPT !.pc = pc] \in Runs
<1>1. NoRun \in Runs
  BY DEF NoRun, Runs, Phase
<1>2. ASSUME NEW r \in Runs
      PROVE  [r EXCEPT !.touched = TRUE] \in Runs /\ \A pc \in Phase : [r EXCEPT !.pc = pc] \in Runs
  BY DEF Runs
<1> QED
  BY <1>1, <1>2

Fresh(pc, a, n) == [NoRun EXCEPT !.pc = pc, !.app = a, !.id = n]
LEMMA FreshRun ==
    ASSUME NEW pc \in Phase, NEW a \in Apps, NEW n \in Nat
    PROVE  /\ Fresh(pc, a, n) \in Runs
           /\ Fresh(pc, a, n).pc = pc /\ Fresh(pc, a, n).app = a /\ Fresh(pc, a, n).id = n
<1>1. \A o \in Runs : /\ [o EXCEPT !.pc = pc, !.app = a, !.id = n] \in Runs
                      /\ [o EXCEPT !.pc = pc, !.app = a, !.id = n].pc = pc
                      /\ [o EXCEPT !.pc = pc, !.app = a, !.id = n].app = a
                      /\ [o EXCEPT !.pc = pc, !.app = a, !.id = n].id = n
  BY DEF Runs
<1> QED
  BY <1>1, RunShapes DEF Fresh

LEMMA TouchedHolds ==
    ASSUME NEW rs \in [Handlers -> Runs], NEW a
    PROVE  /\ Touched(rs, a) \in [Handlers -> Runs]
           /\ \A g \in Handlers : /\ Touched(rs, a)[g].pc = rs[g].pc /\ Touched(rs, a)[g].app = rs[g].app
                                  /\ Touched(rs, a)[g].id = rs[g].id
                                  /\ Touched(rs, a)[g].version = rs[g].version
                                  /\ (rs[g].touched => Touched(rs, a)[g].touched)
                                  /\ rs[g].app = a => Touched(rs, a)[g].touched
<1>1. \A r \in Runs : /\ [r EXCEPT !.touched = TRUE] \in Runs
                      /\ [r EXCEPT !.touched = TRUE].touched = TRUE
                      /\ [r EXCEPT !.touched = TRUE].pc = r.pc /\ [r EXCEPT !.touched = TRUE].app = r.app
                      /\ [r EXCEPT !.touched = TRUE].id = r.id
                      /\ [r EXCEPT !.touched = TRUE].version = r.version
  BY DEF Runs
<1> QED
  BY <1>1 DEF Touched

LEMMA AtHolds ==
    ASSUME NEW rs \in [Handlers -> Runs], NEW h \in Handlers, NEW pc \in Phase
    PROVE  /\ At(rs, h, pc) \in [Handlers -> Runs]
           /\ At(rs, h, pc)[h].pc = pc /\ At(rs, h, pc)[h].app = rs[h].app /\ At(rs, h, pc)[h].id = rs[h].id
           /\ \A g \in Handlers \ {h} : At(rs, h, pc)[g] = rs[g]
<1>1. \A r \in Runs : /\ [r EXCEPT !.pc = pc] \in Runs
                      /\ [r EXCEPT !.pc = pc].pc = pc /\ [r EXCEPT !.pc = pc].app = r.app
                      /\ [r EXCEPT !.pc = pc].id = r.id
  BY DEF Runs
<1> QED
  BY <1>1 DEF At

LEMMA EndedHolds ==
    ASSUME NEW rs \in [Handlers -> Runs], NEW h \in Handlers
    PROVE  /\ Ended(rs, h) \in [Handlers -> Runs] /\ Ended(rs, h)[h] = NoRun
           /\ \A g \in Handlers \ {h} : Ended(rs, h)[g] = rs[g]
  BY RunShapes DEF Ended

-----------------------------------------------------------------------------
LEMMA ExtractionInitially == ExtractionInit => ExtractionInv
<1> SUFFICES ASSUME ExtractionInit PROVE ExtractionInv
  OBVIOUS
<1>1. RunsOK
  BY ExtractionBounds, RunShapes DEF ExtractionInit, RunsOK, NoRun, Decompiling
<1>2. DOMAIN dirs = {} /\ AFunction(dirs)
  BY DEF ExtractionInit, AFunction
<1>3. \A h \in Handlers : run[h].pc = "idle"
  BY DEF ExtractionInit, NoRun
<1> QED
  BY <1>1, <1>2, <1>3 DEF ExtractionInit, ExtractionInv, RootOK, CopiesOK, ReadersOK, Decompiling

\* A step that leaves the root alone: a run begins, goes on or ends.
GoesOn(g) ==
    /\ run[g].pc \in Decompiling /\ run'[g].id = run[g].id /\ run'[g].app = run[g].app
    /\ run'[g].pc \in {"unpack", "stat", "place", "aside"} => run[g].pc \in {"unpack", "stat", "place", "aside"}
    /\ run[g].pc = "unpack" => run'[g].pc = "unpack"
    /\ run'[g].pc = "drop" => run[g].pc = "drop"
Begins(g) == run'[g].pc = "unpack" /\ run'[g].id = runs + 1 /\ runs' = runs + 1 /\ runs' <= MaxRuns

LEMMA RootStays ==
    ASSUME ExtractionInv, UNCHANGED <<dirs, owned, package>>, runs' >= runs, runs' \in Nat,
           \A g \in Handlers : run'[g].pc \in Decompiling => GoesOn(g) \/ Begins(g)
    PROVE  RootOK' /\ CopiesOK'
<1>1. \A n \in 1 .. MaxRuns : <<"backup", n>> \in DOMAIN dirs => n <= runs /\ n <= runs'
  BY ExtractionBounds DEF ExtractionInv, RootOK, RunsOK
<1>2. ASSUME NEW g \in Handlers, run'[g].pc \in Decompiling
      PROVE  /\ run'[g].pc \in {"unpack", "stat", "place", "aside"} => BackupOf(g)' \notin DOMAIN dirs
             /\ BackupOf(g)' \in DOMAIN dirs => dirs[BackupOf(g)'].app = run'[g].app
             /\ run'[g].pc # "unpack" /\ WorkOf(g)' \in DOMAIN dirs => dirs[WorkOf(g)'].app = run'[g].app
  <2>1. CASE GoesOn(g)
    BY <2>1 DEF GoesOn, ExtractionInv, RootOK, WorkOf, BackupOf
  <2>2. CASE Begins(g)
    <3>1. runs + 1 \in 1 .. MaxRuns /\ ~ (runs + 1 <= runs)
      BY <2>2, ExtractionBounds DEF Begins, ExtractionInv, RunsOK
    <3>2. BackupOf(g)' = <<"backup", runs + 1>> /\ <<"backup", runs + 1>> \notin DOMAIN dirs
      BY <1>1, <2>2, <3>1 DEF Begins, BackupOf
    <3> QED
      BY <2>2, <3>2 DEF Begins
  <2> QED
    BY <1>2, <2>1, <2>2
<1>3. RootOK'
  BY <1>1, <1>2 DEF ExtractionInv, RootOK
<1>4. \A d : Lasting(d) => Lasting(d)'
  BY DEF Lasting, GoesOn, Begins, Decompiling, BackupOf
<1>5. CopiesOK'
  BY <1>4 DEF ExtractionInv, CopiesOK, Copy
<1> QED
  BY <1>3, <1>5

\* A step of run h that changes nothing but its app's output, its own work
\* directory and its own backup.
Own(h) == {run[h].app, WorkOf(h), BackupOf(h)}
OwnChange(h) ==
    /\ UNCHANGED <<runs, overtaken, misread, package>>
    /\ AFunction(dirs')
    /\ DOMAIN dirs' \subseteq DOMAIN dirs \cup Own(h)
    /\ DOMAIN dirs \subseteq DOMAIN dirs' \cup Own(h)
    /\ \A d \in DOMAIN dirs \ Own(h) : dirs'[d] = dirs[d]
    /\ \A d \in Own(h) \cap DOMAIN dirs' :
          /\ dirs'[d] \in Restored /\ dirs'[d].app = run[h].app
          /\ run[h].app \notin overtaken => dirs'[d].shows = dirs'[d].version
    /\ owned' \subseteq owned \cup {run[h].app}
    /\ run[h].app \in owned' =>
          \/ run[h].app \in DOMAIN dirs'
          \/ BackupOf(h) \in DOMAIN dirs' /\ run'[h].pc # "drop"
          \/ /\ run[h].app \in owned /\ run[h].app \notin DOMAIN dirs
             /\ BackupOf(h) \notin DOMAIN dirs \/ run[h].pc = "drop"
    /\ run' \in [Handlers -> Runs]
    /\ \A g \in Handlers \ {h} : TouchedAtMost(g)
    /\ \/ run'[h].pc = "idle" /\ run'[h].id = 0
       \/ /\ run'[h].pc \in Decompiling \ {"unpack"}
          /\ run'[h].app = run[h].app /\ run'[h].id = run[h].id
          /\ run'[h].pc \in {"stat", "place", "aside"} => BackupOf(h) \notin DOMAIN dirs'
    /\ \/ \A g \in Handlers \ {h} : run[g].app = run[h].app => run'[g].touched
       \/ /\ run[h].app \in DOMAIN dirs => run[h].app \in DOMAIN dirs'
          /\ run[h].app \in DOMAIN dirs => dirs'[run[h].app] = dirs[run[h].app]

LEMMA OwnStep ==
    ASSUME ExtractionInv, NEW h \in Handlers, run[h].pc \in Decompiling, OwnChange(h)
    PROVE  ExtractionInv'
<1> USE DEF OwnChange
<1> PICK a, W, B : a = run[h].app /\ W = WorkOf(h) /\ B = BackupOf(h)
  OBVIOUS
<1>1. /\ a \in Apps /\ run[h].id \in 1 .. MaxRuns /\ W \in Temporary /\ B \in Temporary /\ B \in Backups
      /\ W \notin Backups /\ W \notin Apps /\ B \notin Apps
      /\ \A g \in Handlers \ {h} : run[g].pc \in Decompiling => WorkOf(g) # W /\ BackupOf(g) # B
      /\ \A g \in Handlers : WorkOf(g) # B /\ BackupOf(g) # W
  BY Names DEF ExtractionInv, RunsOK, Decompiling
<1>2. RunsOK'
  <2>1. run'[h].id <= runs /\ (run'[h].pc \in Decompiling => run'[h].id # 0)
        /\ (run'[h].pc # "idle" => run'[h].app \in Apps)
    BY <1>1 DEF ExtractionInv, RunsOK, Decompiling
  <2>2. \A g \in Handlers \ {h} : run'[g].id <= runs /\ (run'[g].pc \in Decompiling => run'[g].id # 0)
                                  /\ (run'[g].pc # "idle" => run'[g].app \in Apps)
    BY DEF ExtractionInv, RunsOK, TouchedAtMost
  <2>3. \A g \in Handlers : run'[g].id # 0 => run'[g].id = run[g].id
    BY DEF TouchedAtMost
  <2> QED
    BY <2>1, <2>2, <2>3 DEF ExtractionInv, RunsOK
<1>3. \A g \in Handlers \ {h} : WorkOf(g)' = WorkOf(g) /\ BackupOf(g)' = BackupOf(g)
  BY DEF TouchedAtMost, WorkOf, BackupOf
<1>4. run'[h].pc \in Decompiling => WorkOf(h)' = W /\ BackupOf(h)' = B
  BY DEF WorkOf, BackupOf, Decompiling
<1>5. Own(h) = {a, W, B} /\ run[h].app = a
  BY DEF Own
<1>6. RootOK'
  <2>1. DOMAIN dirs' \subseteq Apps \cup Temporary /\ owned' \subseteq Apps
    BY <1>1, <1>5 DEF ExtractionInv, RootOK
  <2>2. \A d \in DOMAIN dirs' : d \in Apps => dirs'[d].app = d
    BY <1>1, <1>5 DEF ExtractionInv, RootOK
  <2>3. \A n \in 1 .. MaxRuns : <<"backup", n>> \in DOMAIN dirs' => n <= runs'
    <3> TAKE n \in 1 .. MaxRuns
    <3>1. CASE <<"backup", n>> = B
      BY <3>1 DEF BackupOf, ExtractionInv, RunsOK
    <3>2. CASE <<"backup", n>> # B
      <4>1. <<"backup", n>> # W /\ <<"backup", n>> # a
        BY <1>1, AppsAreNamedApart DEF Backups, Temporary, WorkOf
      <4> QED
        BY <1>5, <3>2, <4>1 DEF ExtractionInv, RootOK
    <3> QED
      BY <3>1, <3>2
  <2>4. ASSUME NEW g \in Handlers, run'[g].pc \in Decompiling
        PROVE  /\ run'[g].pc \in {"unpack", "stat", "place", "aside"} => BackupOf(g)' \notin DOMAIN dirs'
               /\ BackupOf(g)' \in DOMAIN dirs' => dirs'[BackupOf(g)'].app = run'[g].app
               /\ run'[g].pc # "unpack" /\ WorkOf(g)' \in DOMAIN dirs' => dirs'[WorkOf(g)'].app = run'[g].app
    <3>1. CASE g = h
      BY <1>4, <1>5, <2>4, <3>1 DEF Decompiling
    <3>2. CASE g # h
      <4>1. /\ run[g].pc \in Decompiling /\ run'[g].pc = run[g].pc /\ run'[g].app = run[g].app
            /\ WorkOf(g)' = WorkOf(g) /\ BackupOf(g)' = BackupOf(g)
        BY <1>3, <2>4, <3>2 DEF TouchedAtMost
      <4>2. WorkOf(g) \notin Own(h) /\ BackupOf(g) \notin Own(h)
        <5>1. WorkOf(g) \notin Apps /\ BackupOf(g) \notin Apps
          BY <4>1, Names DEF ExtractionInv
        <5> QED
          BY <1>1, <1>5, <3>2, <4>1, <5>1
      <4> QED
        BY <4>1, <4>2 DEF ExtractionInv, RootOK
    <3> QED
      BY <3>1, <3>2
  <2>5. package' \in [Apps -> Nat] /\ \A d \in DOMAIN dirs' : dirs'[d] \in Restored
    BY <1>5 DEF ExtractionInv, RootOK
  <2> QED
    BY <2>1, <2>2, <2>3, <2>4, <2>5 DEF RootOK
<1>7. CopiesOK'
  <2>1. \A d : d # B /\ Lasting(d) => Lasting(d)'
    BY <1>3, <1>4 DEF Lasting, TouchedAtMost, Decompiling
  <2>2. run'[h].pc # "drop" => Lasting(B)'
    BY <1>1, <1>3 DEF Lasting, TouchedAtMost, Decompiling
  <2>3. ASSUME NEW b \in owned', b # a PROVE \E d \in DOMAIN dirs' : Copy(b, d)'
    <3>1. PICK d \in DOMAIN dirs : Copy(b, d)
      BY <1>5, <2>3 DEF ExtractionInv, CopiesOK
    <3>2. d # B /\ d # W /\ d # a
      <4>1. d # W
        <5>1. b \in Apps
          BY <1>5, <2>3 DEF ExtractionInv, RootOK
        <5> QED
          BY <1>1, <3>1, <5>1 DEF Copy
      <4>2. d # a
        BY <1>1, <2>3, <3>1 DEF Copy, ExtractionInv, RootOK
      <4>3. d # B
        BY <1>5, <2>3, <3>1 DEF Copy, ExtractionInv, RootOK
      <4> QED
        BY <4>1, <4>2, <4>3
    <3>3. d \in DOMAIN dirs' /\ dirs'[d] = dirs[d]
      BY <1>5, <3>1, <3>2
    <3> QED
      BY <2>1, <3>1, <3>2, <3>3 DEF Copy
  <2>4. ASSUME a \in owned' PROVE \E d \in DOMAIN dirs' : Copy(a, d)'
    <3>1. CASE a \in DOMAIN dirs'
      BY <1>5, <3>1 DEF Copy
    <3>2. CASE B \in DOMAIN dirs' /\ run'[h].pc # "drop"
      BY <1>1, <1>5, <2>2, <3>2 DEF Copy
    <3>3. CASE a \in owned /\ a \notin DOMAIN dirs /\ (B \notin DOMAIN dirs \/ run[h].pc = "drop")
      <4>1. PICK d \in DOMAIN dirs : Copy(a, d)
        BY <3>3 DEF ExtractionInv, CopiesOK
      <4>2. d # a /\ d # W /\ d # B /\ d \in Backups /\ Lasting(d)
        BY <1>1, <3>3, <4>1 DEF Copy, Lasting
      <4>3. d \in DOMAIN dirs' /\ dirs'[d] = dirs[d]
        BY <1>5, <4>1, <4>2
      <4> QED
        BY <2>1, <4>1, <4>2, <4>3 DEF Copy
    <3> QED
      BY <1>5, <2>4, <3>1, <3>2, <3>3
  <2> QED
    BY <2>3, <2>4 DEF CopiesOK
<1>8. ReadersOK'
  <2>1. \A d \in DOMAIN dirs' : dirs'[d].app \notin overtaken' => dirs'[d].shows = dirs'[d].version
    BY <1>5 DEF ExtractionInv, ReadersOK
  <2>2. ASSUME NEW g \in Handlers, ~ run'[g].touched
        PROVE  /\ run'[g].pc = "scan" => Exists(run[g].app)'
               /\ run'[g].pc = "format" /\ run'[g].app \notin overtaken' =>
                     Exists(run[g].app)' /\ run'[g].version = dirs'[run'[g].app].version
    <3>1. CASE g = h
      BY <3>1 DEF Decompiling
    <3>2. CASE g # h
      <4>1. /\ run'[g].pc = run[g].pc /\ run'[g].app = run[g].app /\ run'[g].version = run[g].version
            /\ ~ run[g].touched
        BY <2>2, <3>2 DEF TouchedAtMost
      <4>2. CASE run[g].app = a
        BY <1>5, <2>2, <3>2, <4>1, <4>2 DEF ExtractionInv, ReadersOK, Exists
      <4>3. CASE run[g].app # a /\ run[g].pc # "idle"
        <5>1. run[g].app \notin Own(h)
          BY <1>1, <1>5, <4>3 DEF ExtractionInv, RunsOK
        <5> QED
          BY <4>1, <5>1 DEF ExtractionInv, ReadersOK, Exists
      <4> QED
        BY <4>1, <4>2, <4>3
    <3> QED
      BY <3>1, <3>2
  <2> QED
    BY <2>1, <2>2 DEF ExtractionInv, ReadersOK
<1> QED
  BY <1>2, <1>6, <1>7, <1>8 DEF ExtractionInv

-----------------------------------------------------------------------------
LEMMA UnpackKeepsOutputs ==
    ASSUME ExtractionInv, NEW h \in Handlers, Unpack(h) PROVE ExtractionInv'
<1> PICK a, W, unpacked : /\ a = run[h].app /\ W = WorkOf(h)
                      /\ unpacked = [app |-> a, version |-> package[a], shows |-> package[a]]
  OBVIOUS
<1>1. run[h].pc = "unpack" /\ run[h].pc \in Decompiling /\ a \in Apps /\ run \in [Handlers -> Runs]
  BY DEF Unpack, Decompiling, ExtractionInv, RunsOK
<1>2. W # a /\ BackupOf(h) # W /\ BackupOf(h) # a
  BY <1>1, Names DEF ExtractionInv
<1>3. unpacked \in Restored /\ unpacked.app = a /\ unpacked.shows = unpacked.version
  BY <1>1 DEF ExtractionInv, RootOK, Restored
<1>4. dirs' = Put(dirs, W, unpacked) /\ run' = At(run, h, "stat")
  BY DEF Unpack
<1>5. /\ DOMAIN dirs' = DOMAIN dirs \cup {W} /\ dirs'[W] = unpacked
      /\ \A e \in DOMAIN dirs \ {W} : dirs'[e] = dirs[e]
      /\ AFunction(dirs')
  BY <1>4 DEF Put, AFunction
<1>6. /\ run' \in [Handlers -> Runs]
      /\ run'[h].pc = "stat" /\ run'[h].app = a /\ run'[h].id = run[h].id
      /\ \A g \in Handlers \ {h} : run'[g] = run[g]
  BY <1>1, <1>4, AtHolds DEF Phase
<1>7. BackupOf(h) \notin DOMAIN dirs
  BY <1>1 DEF ExtractionInv, RootOK
<1>8. \A g \in Handlers \ {h} : TouchedAtMost(g)
  BY <1>6 DEF TouchedAtMost
<1>9. Own(h) = {a, W, BackupOf(h)} /\ UNCHANGED <<runs, overtaken, misread, package, owned>>
  BY DEF Own, Unpack
<1>10. \A d \in Own(h) \cap DOMAIN dirs' :
          dirs'[d] \in Restored /\ dirs'[d].app = a /\ (a \notin overtaken => dirs'[d].shows = dirs'[d].version)
  BY <1>1, <1>2, <1>3, <1>5, <1>7, <1>9 DEF ExtractionInv, RootOK, ReadersOK
<1> QED
  BY <1>1, <1>2, <1>5, <1>6, <1>7, <1>8, <1>9, <1>10, OwnStep DEF OwnChange, Decompiling

\* The staged unpacked takes its place.
LEMMA MovedIn ==
    ASSUME ExtractionInv, NEW h \in Handlers, run[h].pc \in {"place", "swap"}, MoveIn(h),
           UNCHANGED <<runs, overtaken, misread, package>>,
           run' \in [Handlers -> Runs],
           \A g \in Handlers \ {h} : TouchedAtMost(g) /\ (run[g].app = run[h].app => run'[g].touched),
           \/ run'[h].pc = "idle" /\ run'[h].id = 0
           \/ run'[h].pc = "drop" /\ run'[h].app = run[h].app /\ run'[h].id = run[h].id
    PROVE  ExtractionInv'
<1> PICK a, W : a = run[h].app /\ W = WorkOf(h)
  OBVIOUS
<1>1. run[h].pc \in Decompiling /\ a \in Apps
  BY DEF Decompiling, ExtractionInv, RunsOK
<1>2. W # a /\ BackupOf(h) # W /\ BackupOf(h) # a
  BY <1>1, Names DEF ExtractionInv
<1>3. W \in DOMAIN dirs /\ a \notin DOMAIN dirs /\ dirs' = Moved(dirs, W, a) /\ owned' = owned \cup {a}
  BY DEF MoveIn, Movable, Exists
<1>4. /\ DOMAIN dirs' = (DOMAIN dirs \ {W}) \cup {a} /\ dirs'[a] = dirs[W]
      /\ \A e \in DOMAIN dirs \ {W, a} : dirs'[e] = dirs[e]
      /\ AFunction(dirs')
  <2>1. IsMoved(dirs', dirs, W, a)
    BY <1>2, <1>3, MovedHolds
  <2> QED
    BY <2>1 DEF IsMoved
<1>5. dirs[W] \in Restored /\ dirs[W].app = a /\ (a \notin overtaken => dirs[W].shows = dirs[W].version)
  BY <1>1, <1>3 DEF ExtractionInv, RootOK, ReadersOK
<1>6. Own(h) = {a, W, BackupOf(h)}
  BY DEF Own
<1>7. \A d \in Own(h) \cap DOMAIN dirs' :
         dirs'[d] \in Restored /\ dirs'[d].app = a /\ (a \notin overtaken => dirs'[d].shows = dirs'[d].version)
  <2>1. BackupOf(h) \in DOMAIN dirs =>
           /\ dirs[BackupOf(h)] \in Restored /\ dirs[BackupOf(h)].app = a
           /\ (a \notin overtaken => dirs[BackupOf(h)].shows = dirs[BackupOf(h)].version)
    BY <1>1 DEF ExtractionInv, RootOK, ReadersOK
  <2> QED
    BY <1>2, <1>4, <1>5, <1>6, <2>1
<1>8. /\ DOMAIN dirs' \subseteq DOMAIN dirs \cup Own(h) /\ DOMAIN dirs \subseteq DOMAIN dirs' \cup Own(h)
      /\ \A d \in DOMAIN dirs \ Own(h) : dirs'[d] = dirs[d]
      /\ a \in DOMAIN dirs'
  BY <1>4, <1>6
<1>9. "drop" \in Decompiling \ {"unpack"}
  BY DEF Decompiling
<1>10. OwnChange(h)
  BY <1>3, <1>4, <1>7, <1>8, <1>9 DEF OwnChange
<1> QED
  BY <1>1, <1>10, OwnStep

\* The work directory goes, and the backup too once the output is in place.
LEMMA ThrownAway ==
    ASSUME ExtractionInv, NEW h \in Handlers, run[h].pc \in Decompiling, NEW gone,
           \/ gone = {WorkOf(h)}
           \/ gone = {WorkOf(h), BackupOf(h)} /\ run[h].pc = "drop",
           dirs' = Without(dirs, gone), run' = Ended(run, h),
           UNCHANGED <<runs, overtaken, misread, package, owned>>
    PROVE  ExtractionInv'
<1> PICK a, W, B : a = run[h].app /\ W = WorkOf(h) /\ B = BackupOf(h)
  OBVIOUS
<1>1. a \in Apps /\ W # a /\ B # W /\ B # a /\ run \in [Handlers -> Runs]
  BY Names DEF ExtractionInv, RunsOK, Decompiling
<1>2. /\ DOMAIN dirs' = DOMAIN dirs \ gone /\ \A e \in DOMAIN dirs \ gone : dirs'[e] = dirs[e]
      /\ AFunction(dirs')
  BY DEF Without, AFunction
<1>3. /\ run' \in [Handlers -> Runs] /\ run'[h] = NoRun
      /\ \A g \in Handlers \ {h} : run'[g] = run[g]
  BY <1>1, EndedHolds
<1>4. run'[h].pc = "idle" /\ run'[h].id = 0 /\ \A g \in Handlers \ {h} : TouchedAtMost(g)
  BY <1>3 DEF NoRun, TouchedAtMost
<1>5. Own(h) = {a, W, B}
  BY DEF Own
<1>6. \A d \in Own(h) \cap DOMAIN dirs' :
         dirs'[d] \in Restored /\ dirs'[d].app = a /\ (a \notin overtaken => dirs'[d].shows = dirs'[d].version)
  <2>1. B \in DOMAIN dirs => /\ dirs[B] \in Restored /\ dirs[B].app = a
                             /\ (a \notin overtaken => dirs[B].shows = dirs[B].version)
    BY DEF ExtractionInv, RootOK, ReadersOK
  <2>2. a \in DOMAIN dirs => /\ dirs[a] \in Restored /\ dirs[a].app = a
                             /\ (a \notin overtaken => dirs[a].shows = dirs[a].version)
    BY <1>1 DEF ExtractionInv, RootOK, ReadersOK
  <2> QED
    BY <1>2, <1>5, <2>1, <2>2
<1>7. a \in owned' => \/ a \in DOMAIN dirs'
                      \/ B \in DOMAIN dirs' /\ run'[h].pc # "drop"
                      \/ a \in owned /\ a \notin DOMAIN dirs /\ (B \notin DOMAIN dirs \/ run[h].pc = "drop")
  BY <1>1, <1>2, <1>4
<1>8. a \in DOMAIN dirs => a \in DOMAIN dirs' /\ dirs'[a] = dirs[a]
  BY <1>1, <1>2
<1> QED
  BY <1>1, <1>2, <1>3, <1>4, <1>5, <1>6, <1>7, <1>8, OwnStep DEF OwnChange

LEMMA PutAsideKeeps ==
    ASSUME ExtractionInv, NEW h \in Handlers, PutAside(h) PROVE ExtractionInv'
<1> PICK a, B : a = run[h].app /\ B = BackupOf(h)
  OBVIOUS
<1>1. run[h].pc = "aside" /\ run[h].pc \in Decompiling /\ run \in [Handlers -> Runs]
      /\ UNCHANGED <<runs, overtaken, misread, package>>
  BY DEF PutAside, Decompiling, ExtractionInv, RunsOK
<1>2. CASE Exists(a) /\ dirs' = Moved(dirs, a, B) /\ run' = Touched(At(run, h, "swap"), a) /\ UNCHANGED owned
  <2>1. B # a /\ WorkOf(h) # B /\ WorkOf(h) # a /\ a \in DOMAIN dirs /\ a \in Apps
    BY <1>1, <1>2, Names DEF ExtractionInv, RunsOK, Exists
  <2>2. /\ DOMAIN dirs' = (DOMAIN dirs \ {a}) \cup {B} /\ dirs'[B] = dirs[a]
        /\ \A e \in DOMAIN dirs \ {a, B} : dirs'[e] = dirs[e]
        /\ AFunction(dirs')
    <3>1. IsMoved(dirs', dirs, a, B)
      BY <1>2, <2>1, MovedHolds
    <3> QED
      BY <3>1 DEF IsMoved
  <2>3. /\ At(run, h, "swap") \in [Handlers -> Runs] /\ At(run, h, "swap")[h].pc = "swap"
        /\ At(run, h, "swap")[h].app = a /\ At(run, h, "swap")[h].id = run[h].id
        /\ \A g \in Handlers \ {h} : At(run, h, "swap")[g] = run[g]
    BY <1>1, AtHolds DEF Phase
  <2>4. /\ run' \in [Handlers -> Runs]
        /\ run'[h].pc = "swap" /\ run'[h].app = a /\ run'[h].id = run[h].id
        /\ \A g \in Handlers \ {h} : TouchedAtMost(g) /\ (run[g].app = a => run'[g].touched)
    <3>1. /\ run' \in [Handlers -> Runs]
          /\ \A g \in Handlers : /\ run'[g].pc = At(run, h, "swap")[g].pc /\ run'[g].app = At(run, h, "swap")[g].app
                                 /\ run'[g].id = At(run, h, "swap")[g].id
                                 /\ run'[g].version = At(run, h, "swap")[g].version
                                 /\ (At(run, h, "swap")[g].touched => run'[g].touched)
                                 /\ At(run, h, "swap")[g].app = a => run'[g].touched
      BY <1>2, <2>3, TouchedHolds
    <3> QED
      BY <2>3, <3>1 DEF TouchedAtMost
  <2>5. Own(h) = {a, WorkOf(h), B}
    BY DEF Own
  <2>6. \A d \in Own(h) \cap DOMAIN dirs' :
           dirs'[d] \in Restored /\ dirs'[d].app = a /\ (a \notin overtaken => dirs'[d].shows = dirs'[d].version)
    <3>1. /\ dirs[a] \in Restored /\ dirs[a].app = a
          /\ (a \notin overtaken => dirs[a].shows = dirs[a].version)
      BY <2>1 DEF ExtractionInv, RootOK, ReadersOK
    <3>2. WorkOf(h) \in DOMAIN dirs =>
             /\ dirs[WorkOf(h)] \in Restored /\ dirs[WorkOf(h)].app = a
             /\ (a \notin overtaken => dirs[WorkOf(h)].shows = dirs[WorkOf(h)].version)
      BY <1>1 DEF ExtractionInv, RootOK, ReadersOK
    <3> QED
      BY <2>1, <2>2, <2>5, <3>1, <3>2
  <2>7. /\ DOMAIN dirs' \subseteq DOMAIN dirs \cup Own(h) /\ DOMAIN dirs \subseteq DOMAIN dirs' \cup Own(h)
        /\ \A d \in DOMAIN dirs \ Own(h) : dirs'[d] = dirs[d]
        /\ B \in DOMAIN dirs'
    BY <2>1, <2>2, <2>5
  <2>8. run'[h].pc \in Decompiling \ {"unpack"} /\ run'[h].pc \notin {"stat", "place", "aside", "drop"}
    BY <2>4 DEF Decompiling
  <2>9. a \in owned' => B \in DOMAIN dirs' /\ run'[h].pc # "drop"
    BY <2>7, <2>8
  <2>10. OwnChange(h)
    BY <1>1, <1>2, <2>2, <2>4, <2>6, <2>7, <2>8, <2>9 DEF OwnChange
  <2> QED
    BY <1>1, <2>10, OwnStep
<1>3. CASE GiveUp(h)
  BY <1>1, <1>3, ThrownAway DEF GiveUp
<1> QED
  BY <1>2, <1>3 DEF PutAside

\* The output is put back: it was in the backup.
LEMMA RestoreKeeps ==
    ASSUME ExtractionInv, NEW h \in Handlers, Restore(h) PROVE ExtractionInv'
<1> PICK a, W, B : a = run[h].app /\ W = WorkOf(h) /\ B = BackupOf(h)
  OBVIOUS
<1>1. run[h].pc = "restore" /\ run[h].pc \in Decompiling /\ run \in [Handlers -> Runs]
      /\ UNCHANGED <<runs, overtaken, misread, package, owned>>
  BY DEF Restore, Decompiling, ExtractionInv, RunsOK
<1>2. CASE /\ Exists(B) /\ ~ Exists(a) /\ dirs' = Without(Moved(dirs, B, a), {W})
           /\ run' = Touched(Ended(run, h), a)
  <2>1. B # a /\ W # B /\ W # a /\ B \in DOMAIN dirs /\ a \notin DOMAIN dirs /\ a \in Apps
    BY <1>1, <1>2, Names DEF ExtractionInv, RunsOK, Exists
  <2>2. /\ DOMAIN dirs' = ((DOMAIN dirs \ {B}) \cup {a}) \ {W} /\ dirs'[a] = dirs[B]
        /\ \A e \in DOMAIN dirs \ {a, B, W} : dirs'[e] = dirs[e]
        /\ AFunction(dirs')
    <3> PICK moved : moved = Moved(dirs, B, a)
      OBVIOUS
    <3>1. IsMoved(moved, dirs, B, a)
      BY <2>1, MovedHolds
    <3>2. dirs' = Without(moved, {W})
      BY <1>2
    <3>3. /\ DOMAIN dirs' = DOMAIN moved \ {W} /\ \A e \in DOMAIN moved \ {W} : dirs'[e] = moved[e]
          /\ AFunction(dirs')
      BY <3>2 DEF Without, AFunction
    <3> QED
      BY <2>1, <3>1, <3>3 DEF IsMoved
  <2>3. /\ Ended(run, h) \in [Handlers -> Runs] /\ Ended(run, h)[h] = NoRun
        /\ \A g \in Handlers \ {h} : Ended(run, h)[g] = run[g]
    BY <1>1, EndedHolds
  <2>4. /\ run' \in [Handlers -> Runs] /\ run'[h].pc = "idle" /\ run'[h].id = 0
        /\ \A g \in Handlers \ {h} : TouchedAtMost(g) /\ (run[g].app = a => run'[g].touched)
    BY <1>2, <2>3, TouchedHolds DEF TouchedAtMost, NoRun
  <2>5. Own(h) = {a, W, B}
    BY DEF Own
  <2>6. \A d \in Own(h) \cap DOMAIN dirs' :
           dirs'[d] \in Restored /\ dirs'[d].app = a /\ (a \notin overtaken => dirs'[d].shows = dirs'[d].version)
    <3>1. /\ dirs[B] \in Restored /\ dirs[B].app = a
          /\ (a \notin overtaken => dirs[B].shows = dirs[B].version)
      BY <1>1, <2>1 DEF ExtractionInv, RootOK, ReadersOK
    <3> QED
      BY <2>1, <2>2, <2>5, <3>1
  <2>7. /\ DOMAIN dirs' \subseteq DOMAIN dirs \cup Own(h) /\ DOMAIN dirs \subseteq DOMAIN dirs' \cup Own(h)
        /\ \A d \in DOMAIN dirs \ Own(h) : dirs'[d] = dirs[d]
        /\ a \in DOMAIN dirs'
    BY <2>1, <2>2, <2>5
  <2> QED
    BY <1>1, <2>2, <2>4, <2>6, <2>7, OwnStep DEF OwnChange
<1>3. CASE dirs' = Without(dirs, {W}) /\ run' = Ended(run, h)
  BY <1>1, <1>3, ThrownAway
<1> QED
  BY <1>2, <1>3 DEF Restore

LEMMA PlaceKeeps ==
    ASSUME ExtractionInv, NEW h \in Handlers, Place(h) \/ Swap(h) PROVE ExtractionInv'
<1> PICK a : a = run[h].app
  OBVIOUS
<1>1. run \in [Handlers -> Runs] /\ UNCHANGED <<runs, overtaken, misread, package>>
      /\ run[h].pc \in {"place", "swap"}
  BY DEF Place, Swap, ExtractionInv, RunsOK
<1>2. CASE MoveIn(h) /\ run' = Touched(Ended(run, h), a)
  <2>1. /\ Ended(run, h) \in [Handlers -> Runs] /\ Ended(run, h)[h] = NoRun
        /\ \A g \in Handlers \ {h} : Ended(run, h)[g] = run[g]
    BY <1>1, EndedHolds
  <2>2. /\ run' \in [Handlers -> Runs] /\ run'[h].pc = "idle" /\ run'[h].id = 0
        /\ \A g \in Handlers \ {h} : TouchedAtMost(g) /\ (run[g].app = a => run'[g].touched)
    BY <1>2, <2>1, TouchedHolds DEF TouchedAtMost, NoRun
  <2> QED
    BY <1>1, <1>2, <2>2, MovedIn
<1>3. CASE MoveIn(h) /\ run' = Touched(At(run, h, "drop"), a)
  <2>1. /\ At(run, h, "drop") \in [Handlers -> Runs] /\ At(run, h, "drop")[h].pc = "drop"
        /\ At(run, h, "drop")[h].app = a /\ At(run, h, "drop")[h].id = run[h].id
        /\ \A g \in Handlers \ {h} : At(run, h, "drop")[g] = run[g]
    BY <1>1, AtHolds DEF Phase
  <2>2. /\ run' \in [Handlers -> Runs] /\ run'[h].pc = "drop" /\ run'[h].app = a /\ run'[h].id = run[h].id
        /\ \A g \in Handlers \ {h} : TouchedAtMost(g) /\ (run[g].app = a => run'[g].touched)
    BY <1>3, <2>1, TouchedHolds DEF TouchedAtMost
  <2> QED
    BY <1>1, <1>3, <2>2, MovedIn
<1>4. CASE GiveUp(h)
  BY <1>1, <1>4, ThrownAway DEF GiveUp, Decompiling
<1> QED
  BY <1>2, <1>3, <1>4 DEF Place, Swap

LEMMA DropBackupKeeps ==
    ASSUME ExtractionInv, NEW h \in Handlers, DropBackup(h) PROVE ExtractionInv'
<1>1. run[h].pc = "drop" /\ run[h].pc \in Decompiling /\ run' = Ended(run, h)
      /\ dirs' = Without(dirs, {WorkOf(h), BackupOf(h)})
      /\ UNCHANGED <<runs, overtaken, misread, package, owned>>
  BY DEF DropBackup, Decompiling
<1> QED
  BY <1>1, ThrownAway

-----------------------------------------------------------------------------
\* A step of one handler that leaves the root as it is.
LEMMA RootUntouched ==
    ASSUME ExtractionInv, NEW h \in Handlers, NEW r \in Runs, run' = [run EXCEPT ![h] = r],
           UNCHANGED <<dirs, owned, package, overtaken>>, misread' = FALSE,
           runs' = runs \/ (runs' = runs + 1 /\ runs < MaxRuns),
           r.id \in {0, run[h].id} \/ (r.id = runs + 1 /\ runs' = runs + 1),
           r.pc \in Decompiling => /\ r.id # 0
                                   /\ \/ r.pc = "unpack" /\ runs' = runs + 1 /\ r.id = runs + 1
                                      \/ /\ run[h].pc \in Decompiling \ {"unpack"}
                                         /\ r.id = run[h].id /\ r.app = run[h].app
                                         /\ r.pc \in {"place", "aside"} => run[h].pc = "stat"
                                         /\ r.pc \notin {"drop", "stat", "unpack"},
           r.pc # "idle" => r.app \in Apps,
           r.pc \in {"scan", "format"} => Exists(r.app) /\ (r.pc = "format" => r.version = dirs[r.app].shows)
    PROVE  ExtractionInv'
<1>1. run' \in [Handlers -> Runs] /\ run'[h] = r /\ \A g \in Handlers \ {h} : run'[g] = run[g]
  BY DEF ExtractionInv, RunsOK
<1>2. runs' \in Nat /\ runs' <= MaxRuns /\ runs' >= runs /\ runs \in Nat
  BY ExtractionBounds DEF ExtractionInv, RunsOK
<1>3. \A g \in Handlers : run[g].id \in Nat /\ run[g].id <= runs
  BY DEF ExtractionInv, RunsOK, Runs
<1>4. RunsOK'
  <2>1. \A g \in Handlers : /\ run'[g].id <= runs'
                            /\ run'[g].pc \in Decompiling => run'[g].id # 0
                            /\ run'[g].pc # "idle" => run'[g].app \in Apps
    BY <1>1, <1>2, <1>3 DEF ExtractionInv, RunsOK
  <2>2. \A f, g \in Handlers : run'[f].id # 0 /\ run'[f].id = run'[g].id => f = g
    BY <1>1, <1>2, <1>3 DEF ExtractionInv, RunsOK
  <2> QED
    BY <1>1, <1>2, <2>1, <2>2 DEF RunsOK
<1>5. ASSUME NEW g \in Handlers, run'[g].pc \in Decompiling PROVE GoesOn(g) \/ Begins(g)
  BY <1>1, <1>2, <1>5 DEF GoesOn, Begins, Decompiling
<1>6. RootOK' /\ CopiesOK'
  BY <1>2, <1>5, RootStays
<1>7. ReadersOK'
  <2>1. \A d \in DOMAIN dirs : dirs[d].app \notin overtaken => dirs[d].shows = dirs[d].version
    BY DEF ExtractionInv, ReadersOK
  <2>2. ASSUME NEW g \in Handlers, ~ run'[g].touched
        PROVE  /\ run'[g].pc = "scan" => Exists(run'[g].app)
               /\ run'[g].pc = "format" /\ run'[g].app \notin overtaken =>
                     Exists(run'[g].app) /\ run'[g].version = dirs[run'[g].app].version
    <3>1. CASE g = h
      <4>1. r.pc = "format" /\ r.app \notin overtaken => dirs[r.app].shows = dirs[r.app].version
        BY <2>1 DEF Exists, ExtractionInv, RootOK
      <4> QED
        BY <1>1, <3>1, <4>1
    <3>2. CASE g # h
      BY <1>1, <2>2, <3>2 DEF ExtractionInv, ReadersOK
    <3> QED
      BY <3>1, <3>2
  <2> QED
    BY <2>1, <2>2 DEF ReadersOK, Exists
<1> QED
  BY <1>4, <1>6, <1>7 DEF ExtractionInv

LEMMA StartKeeps ==
    ASSUME ExtractionInv, NEW h \in Handlers, NEW a \in Apps,
           Decompile(h, a) \/ FormatRead(h, a) \/ ScanBegin(h, a)
    PROVE  ExtractionInv'
<1>1. runs \in Nat /\ runs < MaxRuns /\ runs' = runs + 1 /\ misread' = FALSE
      /\ UNCHANGED <<dirs, owned, package, overtaken>>
  BY DEF Decompile, FormatRead, ScanBegin, Start, ExtractionInv, RunsOK, ReadersOK
<1>2. CASE Decompile(h, a)
  <2> PICK r : r = Fresh("unpack", a, runs + 1)
    OBVIOUS
  <2>1. r \in Runs /\ r.pc = "unpack" /\ r.app = a /\ r.id = runs + 1 /\ r.id # 0
    <3>1. runs + 1 \in Nat /\ runs + 1 # 0 /\ "unpack" \in Phase
      BY <1>1 DEF Phase
    <3>2. r \in Runs /\ r.pc = "unpack" /\ r.app = a /\ r.id = runs + 1
      BY <3>1, FreshRun
    <3> QED
      BY <3>1, <3>2
  <2>2. run' = [run EXCEPT ![h] = r]
    BY <1>2 DEF Decompile, Start, Fresh
  <2> QED
    BY <1>1, <2>1, <2>2, RootUntouched
<1>3. CASE ScanBegin(h, a)
  <2> PICK r : r = Fresh("scan", a, runs + 1)
    OBVIOUS
  <2>1. r \in Runs /\ r.pc = "scan" /\ r.app = a /\ r.id = runs + 1 /\ r.pc \notin Decompiling
    <3>1. runs + 1 \in Nat /\ "scan" \in Phase /\ "scan" \notin Decompiling
      BY <1>1 DEF Phase, Decompiling
    <3>2. r \in Runs /\ r.pc = "scan" /\ r.app = a /\ r.id = runs + 1
      BY <3>1, FreshRun
    <3> QED
      BY <3>1, <3>2
  <2>2. run' = [run EXCEPT ![h] = r] /\ Exists(a)
    BY <1>3 DEF ScanBegin, Start, Fresh
  <2> QED
    BY <1>1, <2>1, <2>2, RootUntouched
<1>4. CASE FormatRead(h, a)
  <2> PICK r : r = [NoRun EXCEPT !.pc = "format", !.app = a, !.version = dirs[a].shows]
    OBVIOUS
  <2>1. dirs[a].shows \in Nat /\ Exists(a)
    BY <1>4 DEF FormatRead, Exists, ExtractionInv, RootOK, Restored
  <2>2. r \in Runs /\ r.pc = "format" /\ r.app = a /\ r.id = 0 /\ r.version = dirs[a].shows
        /\ r.pc \notin Decompiling
    BY <2>1 DEF NoRun, Runs, Phase, Decompiling
  <2>3. run' = [run EXCEPT ![h] = r]
    BY <1>4 DEF FormatRead
  <2> QED
    BY <1>1, <2>1, <2>2, <2>3, RootUntouched
<1> QED
  BY <1>2, <1>3, <1>4

LEMMA PhaseKeeps ==
    ASSUME ExtractionInv, NEW h \in Handlers,
           UnpackFails(h) \/ StatTarget(h) \/ SwapFails(h) \/ ScanEnd(h)
    PROVE  ExtractionInv'
<1>1. /\ UNCHANGED <<dirs, owned, package, overtaken, runs>> /\ run[h] \in Runs
      /\ run[h].pc # "idle" /\ run[h].app \in Apps
  BY DEF UnpackFails, StatTarget, SwapFails, ScanEnd, ExtractionInv, RunsOK
<1>2. misread' = FALSE
  BY DEF UnpackFails, StatTarget, SwapFails, ScanEnd, ExtractionInv, ReadersOK
<1>3. CASE run' = Ended(run, h)
  <2>1. NoRun \in Runs /\ NoRun.pc = "idle" /\ NoRun.id = 0 /\ NoRun.pc \notin Decompiling
    BY RunShapes DEF NoRun, Decompiling
  <2> QED
    BY <1>1, <1>2, <1>3, <2>1, RootUntouched DEF Ended
<1>4. ASSUME NEW pc \in {"aside", "place", "restore"}, run' = At(run, h, pc),
             run[h].pc \in {"stat", "swap"}, run[h].pc = "stat" <=> pc # "restore"
      PROVE  ExtractionInv'
  <2> PICK r : r = [run[h] EXCEPT !.pc = pc]
    OBVIOUS
  <2>1. r \in Runs /\ r.pc = pc /\ r.app = run[h].app /\ r.id = run[h].id
    <3>1. At(run, h, pc)[h] = r
      BY DEF At, ExtractionInv, RunsOK
    <3>2. pc \in Phase /\ run \in [Handlers -> Runs]
      BY DEF Phase, ExtractionInv, RunsOK
    <3> QED
      BY <3>1, <3>2, AtHolds
  <2>2. run' = [run EXCEPT ![h] = r]
    BY <1>4 DEF At, ExtractionInv, RunsOK
  <2>3. run[h].pc \in Decompiling \ {"unpack"} /\ run[h].id # 0
    BY <1>4 DEF Decompiling, ExtractionInv, RunsOK
  <2> QED
    BY <1>1, <1>2, <1>4, <2>1, <2>2, <2>3, RootUntouched
<1> QED
  BY <1>3, <1>4 DEF UnpackFails, StatTarget, SwapFails, ScanEnd

\* A formatter writes what it read: the unpacked is the one it read from, unless
\* it was touched meanwhile.
LEMMA FormatWriteKeeps ==
    ASSUME ExtractionInv, NEW h \in Handlers, FormatWrite(h) PROVE ExtractionInv'
<1> PICK a, v : a = run[h].app /\ v = run[h].version
  OBVIOUS
<1>1. /\ run \in [Handlers -> Runs] /\ run[h].pc = "format" /\ a \in Apps /\ v \in Nat
      /\ UNCHANGED <<owned, package, runs, misread>> /\ runs \in Nat
  BY DEF FormatWrite, ExtractionInv, RunsOK, Runs
<1>2. run' \in [Handlers -> Runs] /\ run'[h] = NoRun /\ \A g \in Handlers \ {h} : run'[g] = run[g]
  BY <1>1, EndedHolds DEF FormatWrite
<1>3. NoRun.pc = "idle" /\ NoRun.id = 0
  BY DEF NoRun
<1>4. RunsOK'
  BY <1>1, <1>2, <1>3 DEF ExtractionInv, RunsOK, Decompiling
<1>5. /\ DOMAIN dirs' = DOMAIN dirs /\ AFunction(dirs')
      /\ \A d \in DOMAIN dirs : /\ dirs'[d] \in Restored /\ dirs'[d].app = dirs[d].app
                                /\ dirs'[d].version = dirs[d].version
                                /\ (d # a => dirs'[d].shows = dirs[d].shows)
      /\ (a \in DOMAIN dirs => dirs'[a].shows = v)
  <2>1. CASE a \in DOMAIN dirs
    <3>1. \A t \in Restored : /\ [t EXCEPT !.shows = v] \in Restored /\ [t EXCEPT !.shows = v].shows = v
                              /\ [t EXCEPT !.shows = v].app = t.app
                              /\ [t EXCEPT !.shows = v].version = t.version
      BY <1>1 DEF Restored
    <3>2. dirs' = [dirs EXCEPT ![a] = [dirs[a] EXCEPT !.shows = v]]
      BY <2>1 DEF FormatWrite, Exists
    <3>3. \A d \in DOMAIN dirs : dirs[d] \in Restored
      BY DEF ExtractionInv, RootOK
    <3>4. AFunction(dirs')
      BY <3>2 DEF AFunction
    <3> QED
      BY <2>1, <3>1, <3>2, <3>3, <3>4
  <2>2. CASE a \notin DOMAIN dirs
    BY <2>2 DEF FormatWrite, Exists, ExtractionInv, RootOK
  <2> QED
    BY <2>1, <2>2
<1>6. \A g \in Handlers : run'[g].pc \in Decompiling =>
         run[g].pc \in Decompiling /\ run'[g] = run[g] /\ WorkOf(g)' = WorkOf(g) /\ BackupOf(g)' = BackupOf(g)
  BY <1>2, <1>3 DEF Decompiling, WorkOf, BackupOf
<1>7. RootOK'
  BY <1>1, <1>5, <1>6 DEF ExtractionInv, RootOK
<1>8. CopiesOK'
  <2>1. \A d : Lasting(d) => Lasting(d)'
    BY <1>6 DEF Lasting, Decompiling
  <2> QED
    BY <1>1, <1>5, <2>1 DEF ExtractionInv, CopiesOK, Copy
<1>9. ReadersOK'
  <2>1. overtaken \subseteq overtaken' /\ (run[h].touched => a \in overtaken')
    BY DEF FormatWrite
  <2>2. ASSUME NEW d \in DOMAIN dirs', dirs'[d].app \notin overtaken'
        PROVE  dirs'[d].shows = dirs'[d].version
    <3>1. CASE d = a
      <4>1. dirs[a].app = a /\ a \notin overtaken /\ ~ run[h].touched
        BY <1>1, <1>5, <2>1, <2>2, <3>1 DEF ExtractionInv, RootOK
      <4>2. v = dirs[a].version
        BY <1>1, <4>1 DEF ExtractionInv, ReadersOK
      <4> QED
        BY <1>5, <2>2, <3>1, <4>2
    <3>2. CASE d # a
      BY <1>5, <2>1, <2>2, <3>2 DEF ExtractionInv, ReadersOK
    <3> QED
      BY <3>1, <3>2
  <2>3. ASSUME NEW g \in Handlers, ~ run'[g].touched, run'[g].pc \in {"scan", "format"}
        PROVE  /\ run'[g].pc = "scan" => Exists(run[g].app)'
               /\ run'[g].pc = "format" /\ run'[g].app \notin overtaken' =>
                     Exists(run[g].app)' /\ run'[g].version = dirs'[run'[g].app].version
    <3>1. g # h /\ run'[g] = run[g]
      BY <1>2, <1>3, <2>3
    <3> QED
      BY <1>5, <2>1, <2>3, <3>1 DEF ExtractionInv, ReadersOK, Exists
  <2> QED
    BY <1>1, <2>2, <2>3 DEF ExtractionInv, ReadersOK
<1> QED
  BY <1>4, <1>7, <1>8, <1>9 DEF ExtractionInv

\* An output that is deleted, or the root cleared under the runs.
Shrinks(gone) ==
    /\ gone \subseteq Apps \/ DOMAIN dirs \subseteq gone
    /\ UNCHANGED <<package, runs, overtaken, misread>>
    /\ DOMAIN dirs' = DOMAIN dirs \ gone /\ AFunction(dirs')
    /\ \A d \in DOMAIN dirs' : dirs'[d] = dirs[d]
    /\ owned' = owned \ gone /\ (DOMAIN dirs \subseteq gone => owned' = {})
    /\ run' \in [Handlers -> Runs]
    /\ \A g \in Handlers :
          /\ run'[g].pc = run[g].pc /\ run'[g].app = run[g].app /\ run'[g].id = run[g].id
          /\ run'[g].version = run[g].version
          /\ ~ run'[g].touched => ~ run[g].touched /\ (run[g].pc = "idle" \/ run[g].app \notin gone)

LEMMA RootShrinks ==
    ASSUME ExtractionInv, NEW gone, Shrinks(gone)
    PROVE  ExtractionInv'
<1> USE DEF Shrinks
<1>1. RunsOK'
  BY DEF ExtractionInv, RunsOK
<1>2. \A g \in Handlers : WorkOf(g)' = WorkOf(g) /\ BackupOf(g)' = BackupOf(g)
  BY DEF WorkOf, BackupOf
<1>3. RootOK'
  BY <1>2 DEF ExtractionInv, RootOK
<1>4. CopiesOK'
  <2>1. \A d : Lasting(d) => Lasting(d)'
    BY <1>2 DEF Lasting
  <2>2. CASE DOMAIN dirs \subseteq gone
    BY <2>2 DEF CopiesOK
  <2>3. CASE gone \subseteq Apps
    <3> SUFFICES ASSUME NEW a \in owned' PROVE \E d \in DOMAIN dirs' : Copy(a, d)'
      BY DEF CopiesOK
    <3>1. PICK d \in DOMAIN dirs : Copy(a, d)
      BY DEF ExtractionInv, CopiesOK
    <3>2. d \notin gone
      <4>1. a \notin gone /\ a \in Apps
        BY DEF ExtractionInv, RootOK
      <4>2. CASE d \in Backups
        BY <2>3, <4>2, AppsAreNamedApart DEF Backups, Temporary
      <4> QED
        BY <3>1, <4>1, <4>2 DEF Copy
    <3> QED
      BY <2>1, <3>1, <3>2 DEF Copy
  <2> QED
    BY <2>2, <2>3
<1>5. ReadersOK'
  BY DEF ExtractionInv, ReadersOK, Exists, RunsOK
<1> QED
  BY <1>1, <1>3, <1>4, <1>5 DEF ExtractionInv

LEMMA DeleteKeeps ==
    ASSUME ExtractionInv, NEW a \in Apps, Delete(a) PROVE ExtractionInv'
<1>1. /\ UNCHANGED <<package, runs, overtaken, misread>> /\ owned' = owned \ {a}
      /\ dirs' = Without(dirs, {a}) /\ run' = Touched(run, a) /\ run \in [Handlers -> Runs]
  BY DEF Delete, ExtractionInv, RunsOK
<1>2. /\ DOMAIN dirs' = DOMAIN dirs \ {a} /\ AFunction(dirs') /\ \A d \in DOMAIN dirs' : dirs'[d] = dirs[d]
  BY <1>1 DEF Without, AFunction
<1>3. /\ run' \in [Handlers -> Runs]
      /\ \A g \in Handlers :
            /\ run'[g].pc = run[g].pc /\ run'[g].app = run[g].app /\ run'[g].id = run[g].id
            /\ run'[g].version = run[g].version
            /\ ~ run'[g].touched => ~ run[g].touched /\ (run[g].pc = "idle" \/ run[g].app \notin {a})
  BY <1>1, TouchedHolds
<1>4. DOMAIN dirs \subseteq {a} => owned' = {}
  BY <1>1, AppsAreNamedApart DEF ExtractionInv, RootOK, CopiesOK, Copy, Backups, Temporary
<1> QED
  BY <1>1, <1>2, <1>3, <1>4, RootShrinks DEF Shrinks

LEMMA TouchedIs ==
    ASSUME NEW r \in Runs, NEW t \in BOOLEAN
    PROVE  /\ [r EXCEPT !.touched = t] \in Runs /\ [r EXCEPT !.touched = t].touched = t
           /\ [r EXCEPT !.touched = t].pc = r.pc /\ [r EXCEPT !.touched = t].app = r.app
           /\ [r EXCEPT !.touched = t].id = r.id /\ [r EXCEPT !.touched = t].version = r.version
  BY DEF Runs

LEMMA ClearKeeps ==
    ASSUME ExtractionInv, ClearOutput PROVE ExtractionInv'
<1>1. /\ UNCHANGED <<package, runs, overtaken, misread>> /\ owned' = {} /\ dirs' = [d \in {} |-> 0]
      /\ run' = [h \in Handlers |-> [run[h] EXCEPT !.touched = run[h] # NoRun]]
      /\ run \in [Handlers -> Runs]
  BY DEF ClearOutput, ExtractionInv, RunsOK
<1> PICK gone : gone = DOMAIN dirs \cup owned
  OBVIOUS
<1>2. DOMAIN dirs' = DOMAIN dirs \ gone /\ AFunction(dirs') /\ \A d \in DOMAIN dirs' : dirs'[d] = dirs[d]
  BY <1>1 DEF AFunction
<1>5. /\ run' \in [Handlers -> Runs]
      /\ \A g \in Handlers :
            /\ run'[g].pc = run[g].pc /\ run'[g].app = run[g].app /\ run'[g].id = run[g].id
            /\ run'[g].version = run[g].version
            /\ ~ run'[g].touched => run[g] = NoRun
  <2>1. ASSUME NEW g \in Handlers
        PROVE  \E t \in BOOLEAN : (t \/ run[g] = NoRun) /\ run'[g] = [run[g] EXCEPT !.touched = t]
    BY <1>1
  <2>2. ASSUME NEW g \in Handlers
        PROVE  /\ run'[g] \in Runs
               /\ run'[g].pc = run[g].pc /\ run'[g].app = run[g].app /\ run'[g].id = run[g].id
               /\ run'[g].version = run[g].version
               /\ ~ run'[g].touched => run[g] = NoRun
    <3>1. PICK t \in BOOLEAN : (t \/ run[g] = NoRun) /\ run'[g] = [run[g] EXCEPT !.touched = t]
      BY <2>1
    <3>2. run[g] \in Runs
      BY <1>1
    <3>3. /\ [run[g] EXCEPT !.touched = t] \in Runs /\ [run[g] EXCEPT !.touched = t].touched = t
          /\ [run[g] EXCEPT !.touched = t].pc = run[g].pc /\ [run[g] EXCEPT !.touched = t].app = run[g].app
          /\ [run[g] EXCEPT !.touched = t].id = run[g].id
          /\ [run[g] EXCEPT !.touched = t].version = run[g].version
      BY <3>2, TouchedIs, Zenon
    <3> QED
      BY <3>1, <3>3, Zenon
  <2> QED
    BY <1>1, <2>2
<1>6. NoRun.touched = FALSE /\ NoRun.pc = "idle"
  BY DEF NoRun
<1>7. \A g \in Handlers : ~ run'[g].touched => ~ run[g].touched /\ (run[g].pc = "idle" \/ run[g].app \notin gone)
  BY <1>5, <1>6
<1>8. DOMAIN dirs \subseteq gone /\ owned' = owned \ gone
  BY <1>1
<1>9. Shrinks(gone)
  BY <1>1, <1>2, <1>5, <1>7, <1>8 DEF Shrinks
<1> QED
  BY <1>9, RootShrinks

LEMMA DieKeeps ==
    ASSUME ExtractionInv, Die PROVE ExtractionInv'
<1>1. /\ UNCHANGED <<package, dirs, runs, owned, overtaken, misread>>
      /\ run' = [h \in Handlers |-> NoRun] /\ NoRun \in Runs
      /\ \A h \in Handlers : run'[h].pc = "idle" /\ run'[h].id = 0
  BY RunShapes DEF Die, NoRun
<1>2. \A h \in Handlers : run'[h].pc \notin Decompiling
  BY <1>1 DEF Decompiling
<1>3. RunsOK'
  BY <1>1, <1>2 DEF ExtractionInv, RunsOK
<1>4. RootOK' /\ CopiesOK'
  BY <1>1, <1>2, RootStays DEF ExtractionInv, RunsOK
<1>5. ReadersOK'
  BY <1>1 DEF ExtractionInv, ReadersOK
<1> QED
  BY <1>3, <1>4, <1>5 DEF ExtractionInv

LEMMA ExtractionKeeps ==
    ExtractionInv /\ [ExtractionNext]_extractionVars => ExtractionInv'
<1> SUFFICES ASSUME ExtractionInv, [ExtractionNext]_extractionVars PROVE ExtractionInv'
  OBVIOUS
<1>1. ASSUME UNCHANGED <<package, dirs, run, runs, owned, overtaken, misread>> PROVE ExtractionInv'
  BY <1>1 DEF ExtractionInv, RunsOK, RootOK, CopiesOK, Copy, Lasting, ReadersOK, Exists, WorkOf, BackupOf
<1>2. ASSUME NEW h \in Handlers, DecompileStep(h) PROVE ExtractionInv'
  <2>1. CASE Unpack(h)
    BY <2>1, UnpackKeepsOutputs
  <2>2. CASE UnpackFails(h) \/ StatTarget(h) \/ SwapFails(h)
    BY <2>2, PhaseKeeps
  <2>3. CASE Place(h) \/ Swap(h)
    BY <2>3, PlaceKeeps
  <2>4. CASE PutAside(h)
    BY <2>4, PutAsideKeeps
  <2>5. CASE Restore(h)
    BY <2>5, RestoreKeeps
  <2>6. CASE DropBackup(h)
    BY <2>6, DropBackupKeeps
  <2> QED
    BY <1>2, <2>1, <2>2, <2>3, <2>4, <2>5, <2>6 DEF DecompileStep
<1>3. ASSUME NEW h \in Handlers, FormatWrite(h) \/ ScanEnd(h) PROVE ExtractionInv'
  BY <1>3, FormatWriteKeeps, PhaseKeeps
<1>4. ASSUME NEW h \in Handlers, NEW a \in Apps, Decompile(h, a) \/ FormatRead(h, a) \/ ScanBegin(h, a)
      PROVE  ExtractionInv'
  BY <1>4, StartKeeps
<1>5. ASSUME NEW a \in Apps, Install(a) PROVE ExtractionInv'
  <2>1. package' \in [Apps -> Nat]
    BY <1>5 DEF Install, ExtractionInv, RootOK
  <2> QED
    BY <1>5, <2>1 DEF Install, ExtractionInv, RunsOK, RootOK, CopiesOK, Copy, Lasting, ReadersOK,
       Exists, WorkOf, BackupOf
<1>6. ASSUME NEW a \in Apps, Delete(a) PROVE ExtractionInv'
  BY <1>6, DeleteKeeps
<1>7. CASE ClearOutput
  BY <1>7, ClearKeeps
<1>8. CASE Die
  BY <1>8, DieKeeps
<1>9. CASE UNCHANGED extractionVars
  BY <1>1, <1>9 DEF extractionVars
<1> QED
  BY <1>2, <1>3, <1>4, <1>5, <1>6, <1>7, <1>8, <1>9 DEF ExtractionNext

(* What was decompiled and not deleted is never lost, whatever runs, fails *)
(* and dies on the way, and only an overtaken formatter or a scan of an    *)
(* output that was touched under it reads it wrong (replaceDirectory,      *)
(* internal/extract/packages.go, and the handlers over it).                *)
THEOREM OutputsAreSafe == ExtractionSpec => []OutputsAreKept
<1>1. ExtractionInv => OutputsAreKept
  BY DEF ExtractionInv, CopiesOK, Copy, Backups, ReadersOK, RootOK, OutputsAreKept, OutputSurvives,
         OnlyOvertakenReadersErr, Exists
<1> QED
  BY <1>1, ExtractionInitially, ExtractionKeeps, PTL DEF ExtractionSpec

-----------------------------------------------------------------------------
(* Opening the database (StoreOpen)                                         *)

\* A process is never beyond what took effect, and what took effect is what
\* is recorded: script and record commit together (applyMigrations).
OpenInv ==
    /\ Len(effective) \in Nat /\ Len(effective) <= Len(Scripts)
    /\ effective \in Seq({Scripts[k] : k \in DOMAIN Scripts})
    /\ \A k \in 1 .. Len(effective) : effective[k] = Scripts[k]
    /\ recorded = {Scripts[k] : k \in 1 .. Len(effective)}
    /\ opener \in [Openers -> [at : Nat \ {0}, pc : {"check", "apply", "open", "failed"}]]
    /\ \A p \in Openers :
        /\ opener[p].at <= Len(effective) + 1
        /\ opener[p].pc = "apply" => opener[p].at <= Len(Scripts)
        /\ opener[p].pc = "open" => Len(effective) = Len(Scripts)

\* A script is recorded exactly when it is among those that took effect.
LEMMA RecordedIsEffective ==
    ASSUME OpenInv, NEW k \in 1 .. Len(Scripts)
    PROVE  Scripts[k] \in recorded <=> k <= Len(effective)
<1>1. Scripts \in Seq({Scripts[i] : i \in DOMAIN Scripts})
  BY ScriptNames
<1>2. DOMAIN Scripts = 1 .. Len(Scripts) /\ Len(Scripts) \in Nat
  BY <1>1
<1>3. ASSUME Scripts[k] \in recorded PROVE k <= Len(effective)
  <2>1. PICK i \in 1 .. Len(effective) : Scripts[i] = Scripts[k]
    BY <1>3 DEF OpenInv
  <2>2. i \in DOMAIN Scripts
    BY <1>2, <2>1 DEF OpenInv
  <2>3. i = k
    BY <1>2, <2>1, <2>2, ScriptNames
  <2> QED
    BY <2>1, <2>3 DEF OpenInv
<1>4. ASSUME k <= Len(effective) PROVE Scripts[k] \in recorded
  BY <1>2, <1>4 DEF OpenInv
<1> QED
  BY <1>3, <1>4

\* A process that only moves keeps what is known of the database.
LEMMA MovesKeep ==
    ASSUME OpenInv, NEW p \in Openers, UNCHANGED <<effective, recorded>>,
           NEW at \in Nat \ {0}, NEW pc \in {"check", "apply", "open", "failed"}, Moves(p, at, pc),
           at <= Len(effective) + 1,
           pc = "apply" => at <= Len(Scripts), pc = "open" => Len(effective) = Len(Scripts)
    PROVE  OpenInv'
<1>1. opener' \in [Openers -> [at : Nat \ {0}, pc : {"check", "apply", "open", "failed"}]]
  BY DEF OpenInv, Moves
<1>2. \A q \in Openers : opener'[q] = IF q = p THEN [at |-> at, pc |-> pc] ELSE opener[q]
  BY DEF OpenInv, Moves
<1>3. \A q \in Openers :
        /\ opener'[q].at <= Len(effective) + 1
        /\ opener'[q].pc = "apply" => opener'[q].at <= Len(Scripts)
        /\ opener'[q].pc = "open" => Len(effective) = Len(Scripts)
  BY <1>2 DEF OpenInv
<1> QED
  BY <1>1, <1>3 DEF OpenInv

\* The transaction that commits is the one of the next script.
LEMMA ApplyKeeps ==
    ASSUME OpenInv, NEW p \in Openers, ApplyScript(p)
    PROVE  OpenInv'
<1> DEFINE at == opener[p].at
<1>1. /\ at \in Nat \ {0} /\ at <= Len(effective) + 1 /\ at <= Len(Scripts)
      /\ Len(Scripts) \in Nat /\ DOMAIN Scripts = 1 .. Len(Scripts)
  BY ScriptNames DEF OpenInv, ApplyScript
<1>2. CASE Scripts[at] \in recorded
  BY <1>1, <1>2, MovesKeep DEF ApplyScript
<1>3. CASE Scripts[at] \notin recorded
  <2>1. at = Len(effective) + 1
    BY <1>1, <1>3, RecordedIsEffective DEF OpenInv
  <2>2. /\ effective' = Append(effective, Scripts[at])
        /\ recorded' = recorded \cup {Scripts[at]}
        /\ opener' = [opener EXCEPT ![p] = [at |-> at + 1, pc |-> "check"]]
    BY <1>3 DEF ApplyScript, Moves
  <2>3. /\ effective' \in Seq({Scripts[k] : k \in DOMAIN Scripts}) /\ Len(effective') = at
        /\ \A k \in 1 .. at : effective'[k] = IF k = at THEN Scripts[at] ELSE effective[k]
    BY <1>1, <2>1, <2>2 DEF OpenInv
  <2>4. \A k \in 1 .. at : effective'[k] = Scripts[k]
    <3>1. ASSUME NEW k \in 1 .. at, k # at PROVE k \in 1 .. Len(effective) /\ effective[k] = Scripts[k]
      <4>1. k \in 1 .. Len(effective)
        BY <1>1, <2>1, <3>1 DEF OpenInv
      <4> QED
        BY <4>1 DEF OpenInv
    <3> QED
      BY <2>3, <3>1
  <2>5. recorded' = {Scripts[k] : k \in 1 .. at}
    BY <1>1, <2>1, <2>2 DEF OpenInv
  <2>6. opener' \in [Openers -> [at : Nat \ {0}, pc : {"check", "apply", "open", "failed"}]]
    BY <1>1, <2>2 DEF OpenInv
  <2>7. ASSUME NEW q \in Openers
        PROVE  /\ opener'[q].at <= at + 1
               /\ opener'[q].pc = "apply" => opener'[q].at <= Len(Scripts)
               /\ opener'[q].pc = "open" => at = Len(Scripts)
    <3>1. opener'[q] = IF q = p THEN [at |-> at + 1, pc |-> "check"] ELSE opener[q]
      BY <2>2 DEF OpenInv
    <3>2. opener[q].at <= Len(effective) + 1 /\ (opener[q].pc = "open" => Len(effective) = Len(Scripts))
      BY DEF OpenInv
    <3>3. opener[q].pc = "apply" => opener[q].at <= Len(Scripts)
      BY DEF OpenInv
    <3>4. opener[q].at \in Nat /\ Len(effective) \in Nat
      BY DEF OpenInv
    <3>5. opener[q].pc # "open" /\ Len(Scripts) \in Nat /\ at \in Nat
      BY <1>1, <2>1, <3>2, <3>4
    <3> HIDE DEF at
    <3>6. CASE q = p
      BY <3>1, <3>5, <3>6
    <3>7. CASE q # p
      BY <2>1, <3>1, <3>2, <3>3, <3>4, <3>5, <3>7
    <3> QED
      BY <3>6, <3>7
  <2> QED
    BY <1>1, <2>3, <2>4, <2>5, <2>6, <2>7 DEF OpenInv
<1> QED
  BY <1>2, <1>3

\* What a process has seen recorded it passes over.
LEMMA CheckKeeps ==
    ASSUME OpenInv, NEW p \in Openers, CheckScript(p)
    PROVE  OpenInv'
<1>1. /\ opener[p].at \in 1 .. Len(Scripts) /\ Len(Scripts) \in Nat
      /\ effective' = effective /\ recorded' = recorded
  BY ScriptNames DEF OpenInv, CheckScript
<1>2. CASE Scripts[opener[p].at] \in recorded
  <2>1. opener[p].at <= Len(effective)
    BY <1>1, <1>2, RecordedIsEffective
  <2>2. Moves(p, opener[p].at + 1, "check") /\ opener[p].at + 1 \in Nat \ {0}
    BY <1>1, <1>2 DEF CheckScript
  <2>3. opener[p].at + 1 <= Len(effective) + 1
    BY <1>1, <2>1 DEF OpenInv
  <2> QED
    BY <1>1, <2>2, <2>3, MovesKeep
<1>3. CASE Scripts[opener[p].at] \notin recorded
  BY <1>1, <1>3, MovesKeep DEF CheckScript, OpenInv
<1> QED
  BY <1>2, <1>3

LEMMA OpenInitially == OpenInit => OpenInv
<1> SUFFICES ASSUME OpenInit PROVE OpenInv
  OBVIOUS
<1>1. Len(Scripts) \in Nat /\ effective = <<>> /\ Len(effective) = 0
  BY ScriptNames DEF OpenInit
<1>2. {Scripts[k] : k \in 1 .. 0} = {}
  OBVIOUS
<1> QED
  BY <1>1, <1>2 DEF OpenInit, OpenInv

LEMMA OpenStepKeeps == OpenInv /\ [StoreOpenNext]_openVars => OpenInv'
<1> SUFFICES ASSUME OpenInv, [StoreOpenNext]_openVars PROVE OpenInv'
  OBVIOUS
<1>1. ASSUME NEW p \in Openers, CheckScript(p) PROVE OpenInv'
  BY <1>1, CheckKeeps
<1>2. ASSUME NEW p \in Openers, ApplyScript(p) PROVE OpenInv'
  BY <1>2, ApplyKeeps
<1>3. ASSUME NEW p \in Openers, OpenStore(p) PROVE OpenInv'
  <2>1. Len(Scripts) \in Nat
    BY ScriptNames
  <2>2. opener[p].at \in Nat \ {0} /\ opener[p].at <= Len(effective) + 1 /\ Len(effective) = Len(Scripts)
    BY <1>3, <2>1 DEF OpenStore, OpenInv
  <2> QED
    BY <1>3, <2>2, MovesKeep DEF OpenStore
<1>4. ASSUME NEW p \in Openers, FailOpen(p) PROVE OpenInv'
  BY <1>4, MovesKeep DEF FailOpen, OpenInv
<1>5. ASSUME NEW p \in Openers, StartAgain(p) PROVE OpenInv'
  BY <1>5, MovesKeep DEF StartAgain, OpenInv
<1>6. CASE UNCHANGED openVars
  BY <1>6 DEF openVars, OpenInv
<1> QED
  BY <1>1, <1>2, <1>3, <1>4, <1>5, <1>6 DEF StoreOpenNext

THEOREM OpenInvariant == StoreOpenSpec => []OpenInv
  BY OpenInitially, OpenStepKeeps, PTL DEF StoreOpenSpec

(* For any number of processes that open the database at once and die where *)
(* they will, the schema is the directory's scripts, each once and in order *)
(* (applyMigrations).                                                       *)
THEOREM SchemaStaysWhole == StoreOpenSpec => []SchemaIsWhole
<1>1. OpenInv => SchemaIsWhole
  BY DEF OpenInv, SchemaIsWhole
<1> QED
  BY <1>1, OpenInvariant, PTL

-----------------------------------------------------------------------------
(* What the history keeps (TrafficStore)                                    *)

\* The rows as far as the refinement needs them.
RowsOK == Rows \subseteq Calls /\ stored \in [Rows -> Kept]

USE DEF RowsOK, Rows, Kept

-----------------------------------------------------------------------------
(* Every writer, on the rows alone                                          *)

\* As long as the rows stay, so does the evidence.
LEMMA ShownStays == UNCHANGED stored => UNCHANGED shown
  BY DEF shown

\* An insert captures the calls that were not stored (repository.go,
\* InsertBatch).
LEMMA InsertCaptures ==
    ASSUME RowsOK, NEW batch \in SUBSET Calls, NEW drained \in Kept,
           InsertBatch(batch, drained)
    PROVE  RowsOK' /\ \E fresh \in SUBSET Calls, how \in History!Known : History!Capture(fresh, how)
<1> DEFINE fresh == {c \in batch \ Rows : \A d \in Rows \cup batch :
                        d # c /\ Key(d) = Key(c) => d \notin Rows /\ c < d}
           how == IF drained.status = "pending" THEN "waiting"
                  ELSE IF drained.body THEN "answered" ELSE "settled"
<1>1. stored' = [c \in Rows \cup fresh |-> IF c \in Rows THEN stored[c] ELSE drained]
  BY DEF InsertBatch
<1>2. fresh \in SUBSET Calls /\ fresh \cap Rows = {}
  OBVIOUS
<1> HIDE DEF fresh
<1>3. RowsOK'
  BY <1>1, <1>2
<1>4. how \in History!Known
  BY DEF History!Known
<1>5. \A c \in fresh : shown[c] = "unknown"
  BY <1>2 DEF shown
<1>6. shown' = [c \in Calls |-> IF c \in fresh THEN how ELSE shown[c]]
  BY <1>1, <1>2 DEF shown
<1> HIDE DEF how
<1>7. History!Capture(fresh, how)
  BY <1>5, <1>6 DEF History!Capture
<1>. QED
  BY <1>2, <1>3, <1>4, <1>7

\* A frame teaches at most that its call settled, or how (ApplyUpdates).
LEMMA UpdateLearns ==
    ASSUME RowsOK, NEW c \in Calls, NEW body \in BOOLEAN, ApplyUpdate(c, body)
    PROVE  /\ RowsOK'
           /\ UNCHANGED shown \/ \E more \in History!Known : History!Learn(c, more)
<1>1. CASE c \notin Rows
  <2>1. UNCHANGED stored
    BY <1>1 DEF ApplyUpdate
  <2>. QED
    BY <2>1, ShownStays
<1>2. CASE c \in Rows
  <2> DEFINE row == [status |-> "settled", body |-> stored[c].body \/ body]
             more == IF row.body THEN "answered" ELSE "settled"
  <2>1. stored' = [stored EXCEPT ![c] = row]
    BY <1>2 DEF ApplyUpdate
  <2>2. row \in Kept
    BY <1>2
  <2>3. RowsOK'
    BY <2>1, <2>2
  <2>4. shown' = [shown EXCEPT ![c] = more]
    BY <1>2, <2>1 DEF shown
  <2>5. more \in History!Known /\ more \in {"settled", "answered"}
    BY DEF History!Known
  <2>6. CASE shown[c] = "waiting"
    BY <2>3, <2>4, <2>5, <2>6 DEF History!Learn
  <2>7. CASE shown[c] = "settled" /\ more = "answered"
    BY <2>3, <2>4, <2>5, <2>7 DEF History!Learn
  <2>8. CASE shown[c] = more
    <3>1. UNCHANGED shown
      BY <2>4, <2>8 DEF shown
    <3>. QED
      BY <2>3, <3>1
  <2>9. shown[c] = "waiting" \/ shown[c] = more \/ (shown[c] = "settled" /\ more = "answered")
    BY <1>2 DEF shown
  <2>. QED
    BY <2>6, <2>7, <2>8, <2>9
<1>. QED
  BY <1>1, <1>2

\* A deletion forgets its rows (Delete, Clear).
LEMMA DeleteForgets ==
    ASSUME RowsOK, NEW ids \in SUBSET Calls, DeleteRows(ids)
    PROVE  RowsOK' /\ History!Forget(ids)
<1>1. stored' = [c \in Rows \ ids |-> stored[c]]
  BY DEF DeleteRows
<1>2. RowsOK'
  BY <1>1
<1>3. shown' = [c \in Calls |-> IF c \in ids THEN "unknown" ELSE shown[c]]
  BY <1>1 DEF shown
<1>. QED
  BY <1>2, <1>3 DEF History!Forget

-----------------------------------------------------------------------------
(* The steps                                                                *)

\* Readers and the hand-back of space leave the rows alone.
LEMMA ReadersKeepRows ==
    ASSUME RowsOK,
           \/ \E c \in Calls : PreviewBody(c)
           \/ \E filter \in {"all", "pending"} : BeginWalk(filter)
           \/ ListPage \/ EndList \/ Checkpoint \/ CountRecords \/ Vacuum
           \/ UNCHANGED trafficVars
    PROVE  RowsOK' /\ UNCHANGED shown
<1>1. UNCHANGED stored
  BY DEF PreviewBody, BeginWalk, ListPage, EndList, Checkpoint, CountRecords, Vacuum, trafficVars
<1>. QED
  BY <1>1, ShownStays

\* Every step of the store is a step of Evidence, or none.
LEMMA StepImplements ==
    ASSUME RowsOK, [TrafficNext]_trafficVars
    PROVE  RowsOK' /\ [History!EvidenceNext]_shown
<1>1. ASSUME NEW c \in Calls, NEW d \in Calls, IngestHookBatch({c, d})
      PROVE  RowsOK' /\ History!EvidenceNext
  <2>1. PICK drained \in Convert : InsertBatch({c, d}, drained)
    BY <1>1 DEF IngestHookBatch
  <2>2. {c, d} \in SUBSET Calls /\ drained \in Kept
    BY DEF Convert
  <2>. QED
    BY <2>1, <2>2, InsertCaptures DEF History!EvidenceNext
<1>2. ASSUME NEW c \in Calls, ApplyHookUpdate(c)
      PROVE  RowsOK' /\ [History!EvidenceNext]_shown
  <2>1. PICK frame \in {"answer", "status", "other"} :
            IF frame = "other" THEN UNCHANGED stored ELSE ApplyUpdate(c, frame = "answer")
    BY <1>2 DEF ApplyHookUpdate
  <2>2. CASE frame = "other"
    BY <2>1, <2>2, ShownStays
  <2>3. CASE frame # "other"
    <3>1. ApplyUpdate(c, frame = "answer") /\ (frame = "answer") \in BOOLEAN
      BY <2>1, <2>3
    <3>. QED
      BY <3>1, UpdateLearns DEF History!EvidenceNext
  <2>. QED
    BY <2>2, <2>3
<1>3. ASSUME NEW ids \in SUBSET Calls, DeleteRows(ids)
      PROVE  RowsOK' /\ History!EvidenceNext
  BY <1>3, DeleteForgets DEF History!EvidenceNext
<1>4. CASE ClearStore
  BY <1>3, <1>4 DEF ClearStore
<1>5. CASE \E c \in Calls : DeleteRows({c})
  BY <1>3, <1>5
<1>. QED
  BY <1>1, <1>2, <1>4, <1>5, ReadersKeepRows DEF TrafficNext

-----------------------------------------------------------------------------
(* The theorems                                                             *)

\* The store implements Evidence: of every call, however its records, its
\* frames and its deletion interleave, what is stored only grows until the
\* call is deleted.
THEOREM StoreKeepsTheEvidence == TrafficSpec => KeepsTheEvidence
<1>1. TrafficInit => RowsOK /\ History!EvidenceInit
  BY DEF TrafficInit, History!EvidenceInit, shown
<1>2. RowsOK /\ [TrafficNext]_trafficVars => RowsOK' /\ [History!EvidenceNext]_shown
  BY StepImplements
<1>. QED
  BY <1>1, <1>2, PTL DEF TrafficSpec, KeepsTheEvidence, History!EvidenceSpec

\* What Evidence allows never unlearns.
LEMMA EvidenceStepGrows ==
    History!EvidenceNext => \A c \in Calls : History!More(shown[c], shown'[c])
  BY DEF History!EvidenceNext, History!Capture, History!Learn, History!Forget,
         History!More, History!Known, shown

\* No frame and no replay blanks a stored response or makes a settled call
\* wait again (repository.go, ApplyUpdates and InsertBatch).
THEOREM NothingStoredIsUnlearned == TrafficSpec => History!NothingIsUnlearned
<1>1. [History!EvidenceNext]_shown => [\A c \in Calls : History!More(shown[c], shown'[c])]_shown
  BY EvidenceStepGrows
<1>. QED
  BY <1>1, StoreKeepsTheEvidence, PTL
     DEF KeepsTheEvidence, History!EvidenceSpec, History!NothingIsUnlearned

HIDE DEF RowsOK, Rows, Kept

-----------------------------------------------------------------------------
(* What the history shows (TrafficStore)                                    *)

\* The rows that a filter keeps, newest first: how many are before one.
Rank(rows, c) == Cardinality({d \in rows : NewerRow(d, c)})
NumberedPages == {"all", "pending"}
Trims == [pc : {"none", "checkpoint", "count", "vacuum"}, deleted : Nat]
Walks == [filter : NumberedPages, page : Nat, owed : SUBSET Calls]

StoreShapes ==
    /\ Rows \subseteq Calls /\ stored \in [Rows -> Kept] /\ walk \in Walks

\* A row the reader is still owed is behind the pages it has read.
OwedAreAhead ==
    \A c \in walk.owed : /\ c \in Matching(walk.filter)
                         /\ walk.page > 0 /\ (walk.page - 1) * PageSize <= Rank(Matching(walk.filter), c)

\* A body that was announced is there as long as its row is.
BodiesAreStored == blanked = FALSE /\ \A c \in bodies : c \in Rows /\ stored[c].body

\* A call is left out only where another has its key.
OnlyTwinsRefused == \A c \in refused : c \in Calls /\ \E d \in Calls : d # c /\ Key(d) = Key(c)

HistoryInv == StoreShapes /\ OwedAreAhead /\ BodiesAreStored /\ OnlyTwinsRefused

LEMMA RanksGrow ==
    ASSUME NEW rows \in SUBSET Calls, NEW more \in SUBSET Calls, rows \subseteq more, NEW c \in Calls
    PROVE  /\ Rank(rows, c) \in Nat /\ Rank(more, c) \in Nat /\ Rank(rows, c) <= Rank(more, c)
           /\ c \in rows => Rank(rows, c) < Cardinality(rows)
<1>1. IsFiniteSet(rows) /\ IsFiniteSet(more)
  BY StoreSizes, FS_Subset
<1> PICK before, later : before = {d \in rows : NewerRow(d, c)} /\ later = {d \in more : NewerRow(d, c)}
  OBVIOUS
<1>2. before \subseteq rows /\ later \subseteq more /\ before \subseteq later
  OBVIOUS
<1>3. IsFiniteSet(before) /\ IsFiniteSet(later)
  BY <1>1, <1>2, FS_Subset
<1>4. Cardinality(before) <= Cardinality(later)
  BY <1>2, <1>3, FS_Subset
<1>5. ASSUME c \in rows PROVE Cardinality(before) < Cardinality(rows)
  <2>1. c \notin before
    <3>1. Captured[c].at \in Nat /\ Captured[c].seq \in Nat /\ c \in Nat
      BY StoreSizes
    <3>2. ~ NewerRow(c, c)
      BY <3>1 DEF NewerRow
    <3> QED
      BY <3>2
  <2>2. before # rows
    BY <1>5, <2>1
  <2>3. Cardinality(before) <= Cardinality(rows) /\ Cardinality(before) # Cardinality(rows)
    BY <1>1, <1>2, <2>2, FS_Subset
  <2>4. Cardinality(before) \in Nat /\ Cardinality(rows) \in Nat
    BY <1>1, <1>3, FS_CardinalityType
  <2> QED
    BY <2>3, <2>4
<1>6. Cardinality(before) \in Nat /\ Cardinality(later) \in Nat
  BY <1>3, FS_CardinalityType
<1> QED
  BY <1>4, <1>5, <1>6 DEF Rank

LEMMA MatchingRows == StoreShapes => \A filter : Matching(filter) \in SUBSET Calls
  BY DEF Matching, StoreShapes

LEMMA HistoryInitially == TrafficInit => HistoryInv
<1> SUFFICES ASSUME TrafficInit PROVE HistoryInv
  OBVIOUS
<1>1. Rows = {} /\ stored = [c \in {} |-> None] /\ walk = NoWalk /\ bodies = {} /\ blanked = FALSE /\ refused = {}
  BY DEF TrafficInit, Rows
<1>2. stored \in [Rows -> Kept]
  BY <1>1
<1>3. walk \in Walks /\ walk.owed = {}
  BY <1>1 DEF NoWalk, Walks, NumberedPages
<1> QED
  BY <1>1, <1>2, <1>3 DEF HistoryInv, StoreShapes, OwedAreAhead, BodiesAreStored, OnlyTwinsRefused

\* A writer that adds, settles or deletes rows passes the reader by.
LEMMA WritersKeep ==
    ASSUME HistoryInv, WriterPassed, DOMAIN stored' \subseteq Calls, stored' \in [DOMAIN stored' -> Kept],
           \A c \in Rows \cap DOMAIN stored' : stored[c].body => stored'[c].body, OnlyTwinsRefused'
    PROVE  HistoryInv'
<1> PICK now : now = {c \in DOMAIN stored' : walk.filter = "all" \/ stored'[c].status = walk.filter}
  OBVIOUS
<1>1. /\ walk' = IF Matching(walk.filter) \subseteq now THEN walk ELSE [walk EXCEPT !.owed = {}]
      /\ bodies' = bodies \cap DOMAIN stored' /\ blanked' = blanked
  BY DEF WriterPassed
<1>2. walk \in Walks
  BY DEF HistoryInv, StoreShapes
<1>3. walk' \in Walks /\ walk'.filter = walk.filter /\ walk'.page = walk.page
      /\ (walk'.owed = {} \/ (walk'.owed = walk.owed /\ Matching(walk.filter) \subseteq now))
  BY <1>1, <1>2 DEF Walks
<1>4. StoreShapes'
  BY <1>3 DEF StoreShapes, Rows
<1>5. BodiesAreStored'
  BY <1>1 DEF HistoryInv, BodiesAreStored, Rows
<1>6. OwedAreAhead'
  <2>1. Matching(walk.filter)' = now
    BY <1>3 DEF Matching, Rows
  <2> SUFFICES ASSUME NEW c \in walk'.owed
               PROVE  c \in now /\ walk.page > 0 /\ (walk.page - 1) * PageSize <= Rank(now, c)
    BY <1>3, <2>1 DEF OwedAreAhead
  <2>2. walk'.owed = walk.owed /\ Matching(walk.filter) \subseteq now
    BY <1>3
  <2>3. c \in Matching(walk.filter) /\ walk.page > 0
        /\ (walk.page - 1) * PageSize <= Rank(Matching(walk.filter), c)
    BY <2>2 DEF HistoryInv, OwedAreAhead
  <2>4. now \in SUBSET Calls /\ Matching(walk.filter) \in SUBSET Calls /\ c \in Calls
    BY <2>3, MatchingRows DEF HistoryInv
  <2>5. Rank(Matching(walk.filter), c) \in Nat /\ Rank(now, c) \in Nat
        /\ Rank(Matching(walk.filter), c) <= Rank(now, c)
    BY <2>2, <2>4, RanksGrow
  <2> PICK read : read = (walk.page - 1) * PageSize
    OBVIOUS
  <2>6. read \in Int
    BY <1>2, StoreSizes DEF Walks
  <2> QED
    BY <2>2, <2>3, <2>5, <2>6
<1> QED
  BY <1>4, <1>5, <1>6 DEF HistoryInv

LEMMA InsertsKeep ==
    ASSUME HistoryInv, NEW c \in Calls, NEW d \in Calls, IngestHookBatch({c, d}) PROVE HistoryInv'
<1>1. PICK drained \in Convert : InsertBatch({c, d}, drained)
  BY DEF IngestHookBatch
<1> PICK fresh : fresh = {e \in {c, d} \ Rows : \A f \in Rows \cup {c, d} :
                             f # e /\ Key(f) = Key(e) => f \notin Rows /\ e < f}
  OBVIOUS
<1>2. /\ stored' = [e \in Rows \cup fresh |-> IF e \in Rows THEN stored[e] ELSE drained]
      /\ refused' = refused \cup ({c, d} \ (Rows \cup fresh))
  BY <1>1 DEF InsertBatch
<1>3. drained \in Kept /\ Rows \subseteq Calls /\ stored \in [Rows -> Kept] /\ fresh \subseteq Calls
  BY DEF Convert, HistoryInv, StoreShapes
<1>4. DOMAIN stored' \subseteq Calls /\ stored' \in [DOMAIN stored' -> Kept]
      /\ \A e \in Rows \cap DOMAIN stored' : stored[e].body => stored'[e].body
  BY <1>2, <1>3
<1>5. OnlyTwinsRefused'
  <2> SUFFICES ASSUME NEW e \in {c, d}, e \notin Rows, e \notin fresh
               PROVE  \E f \in Calls : f # e /\ Key(f) = Key(e)
    BY <1>2 DEF HistoryInv, OnlyTwinsRefused, Key
  <2>1. PICK f \in Rows \cup {c, d} : f # e /\ Key(f) = Key(e)
    OBVIOUS
  <2> QED
    BY <1>3, <2>1
<1> QED
  BY <1>4, <1>5, WritersKeep DEF IngestHookBatch

LEMMA UpdatesKeep == ASSUME HistoryInv, NEW c \in Calls, ApplyHookUpdate(c) PROVE HistoryInv'
<1>1. WriterPassed /\ UNCHANGED refused
  BY DEF ApplyHookUpdate
<1>2. Rows \subseteq Calls /\ stored \in [Rows -> Kept] /\ Rows = DOMAIN stored
  BY DEF HistoryInv, StoreShapes, Rows
<1>3. UNCHANGED stored \/ \E body \in BOOLEAN : c \in Rows
          /\ stored' = [stored EXCEPT ![c] = [status |-> "settled", body |-> @.body \/ body]]
  BY DEF ApplyHookUpdate, ApplyUpdate
<1>4. DOMAIN stored' \subseteq Calls /\ stored' \in [DOMAIN stored' -> Kept]
      /\ \A e \in Rows \cap DOMAIN stored' : stored[e].body => stored'[e].body
  <2>1. CASE UNCHANGED stored
    BY <1>2, <2>1
  <2>2. ASSUME NEW body \in BOOLEAN, c \in Rows,
               stored' = [stored EXCEPT ![c] = [status |-> "settled", body |-> @.body \/ body]]
        PROVE  DOMAIN stored' \subseteq Calls /\ stored' \in [DOMAIN stored' -> Kept]
               /\ \A e \in Rows \cap DOMAIN stored' : stored[e].body => stored'[e].body
    <3>1. PICK b \in BOOLEAN : b = (stored[c].body \/ body)
      OBVIOUS
    <3> PICK row : row = [status |-> "settled", body |-> b]
      OBVIOUS
    <3>2. row \in Kept /\ row.body = b
      BY <3>1 DEF Kept
    <3>3. stored' = [stored EXCEPT ![c] = row]
      BY <2>2, <3>1, Zenon
    <3>4. DOMAIN stored' = Rows /\ stored'[c] = row /\ \A e \in Rows \ {c} : stored'[e] = stored[e]
      BY <1>2, <2>2, <3>3
    <3>5. stored' \in [Rows -> Kept]
      BY <1>2, <3>2, <3>3
    <3> QED
      BY <1>2, <3>1, <3>2, <3>4, <3>5
  <2> QED
    BY <1>3, <2>1, <2>2
<1>5. OnlyTwinsRefused'
  BY <1>1 DEF HistoryInv, OnlyTwinsRefused, Key
<1> QED
  BY <1>1, <1>4, <1>5, WritersKeep

LEMMA DeletesKeep == ASSUME HistoryInv, NEW ids \in SUBSET Calls, DeleteRows(ids) PROVE HistoryInv'
<1>1. WriterPassed /\ UNCHANGED refused /\ stored' = [c \in Rows \ ids |-> stored[c]]
  BY DEF DeleteRows
<1>2. Rows \subseteq Calls /\ stored \in [Rows -> Kept]
  BY DEF HistoryInv, StoreShapes
<1>3. DOMAIN stored' \subseteq Calls /\ stored' \in [DOMAIN stored' -> Kept]
      /\ \A e \in Rows \cap DOMAIN stored' : stored[e].body => stored'[e].body
  BY <1>1, <1>2
<1>4. OnlyTwinsRefused'
  BY <1>1 DEF HistoryInv, OnlyTwinsRefused, Key
<1> QED
  BY <1>1, <1>3, <1>4, WritersKeep

\* The reader's steps.
LEMMA ReaderKeeps ==
    ASSUME HistoryInv, (\E filter \in {"all", "pending"} : BeginWalk(filter)) \/ ListPage \/ EndList
    PROVE  HistoryInv'
<1>1. UNCHANGED <<stored, refused, blanked>>
  BY DEF BeginWalk, ListPage, EndList
<1>2. Rows' = Rows /\ OnlyTwinsRefused' /\ \A filter : Matching(filter)' = Matching(filter)
  BY <1>1 DEF HistoryInv, OnlyTwinsRefused, Rows, Matching, Key
<1>3. walk \in Walks /\ Rows \subseteq Calls /\ stored \in [Rows -> Kept]
  BY DEF HistoryInv, StoreShapes
<1>4. ASSUME NEW filter \in {"all", "pending"}, BeginWalk(filter) PROVE HistoryInv'
  <2>1. walk' = [filter |-> filter, page |-> 1, owed |-> Matching(filter)] /\ UNCHANGED bodies
    BY <1>4 DEF BeginWalk
  <2>2. Matching(filter) \in SUBSET Calls
    BY MatchingRows DEF HistoryInv
  <2>3. walk' \in Walks /\ walk'.page = 1 /\ walk'.owed = Matching(filter) /\ walk'.filter = filter
    BY <2>1, <2>2 DEF Walks, NumberedPages
  <2>4. \A c \in Matching(filter) : Rank(Matching(filter), c) \in Nat
    BY <2>2, RanksGrow
  <2>5. (1 - 1) * PageSize = 0
    BY StoreSizes
  <2>6. OwedAreAhead'
    <3> SUFFICES ASSUME NEW c \in Matching(filter)
                 PROVE  1 > 0 /\ (1 - 1) * PageSize <= Rank(Matching(filter), c)
      BY <1>2, <2>3 DEF OwedAreAhead
    <3> QED
      BY <2>4, <2>5
  <2> QED
    BY <1>1, <1>2, <1>3, <2>1, <2>3, <2>6 DEF HistoryInv, StoreShapes, BodiesAreStored
<1>5. CASE ListPage
  <2> PICK items, rows : items = Page(walk.filter, walk.page) /\ rows = Matching(walk.filter)
    OBVIOUS
  <2>1. walk' = [walk EXCEPT !.page = @ + 1, !.owed = @ \ items] /\ bodies' = {c \in items : stored[c].body}
        /\ walk.page > 0
    BY <1>5 DEF ListPage
  <2>2. walk' \in Walks /\ walk'.page = walk.page + 1 /\ walk'.owed = walk.owed \ items /\ walk'.filter = walk.filter
    <3>1. PICK next \in Nat : next = walk.page + 1
      BY <1>3 DEF Walks
    <3>2. PICK left \in SUBSET Calls : left = walk.owed \ items
      BY <1>3 DEF Walks
    <3>3. walk' = [walk EXCEPT !.page = next, !.owed = left]
      BY <2>1, <3>1, <3>2
    <3> QED
      BY <1>3, <3>1, <3>2, <3>3 DEF Walks
  <2>3. /\ \A c \in items : c \in rows
        /\ \A c \in rows : (walk.page - 1) * PageSize <= Rank(rows, c) /\ Rank(rows, c) < walk.page * PageSize
                              => c \in items
    BY DEF Page, Rank
  <2>4. rows \in SUBSET Calls /\ rows \subseteq Rows
    BY MatchingRows DEF HistoryInv, Matching
  <2> PICK next : next = walk.page + 1
    OBVIOUS
  <2>5. ASSUME NEW c \in walk.owed, c \notin items
        PROVE  c \in rows /\ next > 0 /\ (next - 1) * PageSize <= Rank(rows, c)
    <3>1. c \in rows /\ (walk.page - 1) * PageSize <= Rank(rows, c)
      BY DEF HistoryInv, OwedAreAhead
    <3>2. ~ (Rank(rows, c) < walk.page * PageSize)
      BY <2>3, <2>5, <3>1
    <3>3. Rank(rows, c) \in Nat
      BY <2>4, <3>1, RanksGrow
    <3> PICK read : read = walk.page * PageSize
      OBVIOUS
    <3>4. walk.page \in Nat /\ PageSize \in Nat
      BY <1>3, StoreSizes DEF Walks
    <3>5. read \in Nat /\ next > 0 /\ next - 1 = walk.page
      BY <3>4
    <3>6. read <= Rank(rows, c)
      BY <3>2, <3>3, <3>5
    <3> QED
      BY <3>1, <3>4, <3>5, <3>6
  <2>7. OwedAreAhead'
    <3>1. Matching(walk.filter)' = rows
      BY <1>1, <2>2 DEF Matching, Rows
    <3> QED
      BY <2>2, <2>5, <3>1 DEF OwedAreAhead
  <2>6. BodiesAreStored'
    BY <1>1, <1>2, <2>1, <2>3, <2>4 DEF HistoryInv, BodiesAreStored
  <2> QED
    BY <1>1, <1>2, <1>3, <2>2, <2>6, <2>7 DEF HistoryInv, StoreShapes
<1>6. CASE EndList
  <2>1. walk' = NoWalk /\ UNCHANGED bodies /\ walk'.owed = {} /\ walk' \in Walks
    BY <1>6 DEF EndList, NoWalk, Walks, NumberedPages
  <2> QED
    BY <1>1, <1>2, <1>3, <2>1 DEF HistoryInv, StoreShapes, BodiesAreStored, OwedAreAhead
<1> QED
  BY <1>4, <1>5, <1>6

LEMMA HistoryKeeps == HistoryInv /\ [TrafficNext]_trafficVars => HistoryInv'
<1> SUFFICES ASSUME HistoryInv, [TrafficNext]_trafficVars PROVE HistoryInv'
  OBVIOUS
<1>1. ASSUME NEW c \in Calls, NEW d \in Calls, IngestHookBatch({c, d}) PROVE HistoryInv'
  BY <1>1, InsertsKeep
<1>2. ASSUME NEW c \in Calls, ApplyHookUpdate(c) PROVE HistoryInv'
  BY <1>2, UpdatesKeep
<1>3. ASSUME NEW c \in Calls, DeleteRows({c}) PROVE HistoryInv'
  BY <1>3, DeletesKeep
<1>4. CASE ClearStore
  BY <1>4, DeletesKeep DEF ClearStore
<1>5. CASE (\E filter \in {"all", "pending"} : BeginWalk(filter)) \/ ListPage \/ EndList
  BY <1>5, ReaderKeeps
<1>6. CASE (\E c \in Calls : PreviewBody(c)) \/ Checkpoint \/ CountRecords \/ Vacuum \/ UNCHANGED trafficVars
  <2>1. UNCHANGED <<stored, walk, refused>> /\ bodies' \subseteq bodies /\ blanked' = blanked
    BY <1>6 DEF PreviewBody, Checkpoint, CountRecords, Vacuum, trafficVars, HistoryInv, BodiesAreStored
  <2> QED
    BY <2>1 DEF HistoryInv, StoreShapes, OwedAreAhead, BodiesAreStored, OnlyTwinsRefused, Rows, Matching, Rank, Key
<1> QED
  BY <1>1, <1>2, <1>3, <1>4, <1>5, <1>6 DEF TrafficNext

LEMMA HistoryHolds == TrafficSpec => []HistoryInv
  BY HistoryInitially, HistoryKeeps, PTL DEF TrafficSpec

LEMMA WalkEndsEmpty == HistoryInv => NoRowIsSkipped
<1> SUFFICES ASSUME HistoryInv, WalkIsOver, NEW c \in walk.owed PROVE FALSE
  BY DEF NoRowIsSkipped, HistoryInv, StoreShapes, Walks
<1> PICK rows, read : rows = Matching(walk.filter) /\ read = (walk.page - 1) * PageSize
  OBVIOUS
<1>1. read >= Cardinality(rows) /\ c \in rows /\ read <= Rank(rows, c)
  BY DEF WalkIsOver, HistoryInv, OwedAreAhead
<1>2. rows \in SUBSET Calls
  BY MatchingRows DEF HistoryInv
<1>3. Rank(rows, c) \in Nat /\ Rank(rows, c) < Cardinality(rows)
  BY <1>1, <1>2, RanksGrow
<1>4. Cardinality(rows) \in Nat
  BY <1>2, StoreSizes, FS_Subset, FS_CardinalityType
<1>5. read \in Int
  BY StoreSizes DEF HistoryInv, StoreShapes, Walks
<1> QED
  BY <1>1, <1>3, <1>4, <1>5

(* Whatever was captured when: reading page after page skips no row, and a *)
(* body that a page announced is there; a call is left out only if another *)
(* of the same program and type has its time and number (repository.go).   *)
THEOREM PagesAreWhole == TrafficSpec => [](NoRowIsSkipped /\ AnnouncedBodiesAreThere /\ OnlyTwinsRefused)
<1>1. HistoryInv => NoRowIsSkipped /\ AnnouncedBodiesAreThere /\ OnlyTwinsRefused
  BY WalkEndsEmpty DEF HistoryInv, BodiesAreStored, AnnouncedBodiesAreThere
<1> QED
  BY <1>1, HistoryHolds, PTL

(* The history shows what was captured, where a page never gives one       *)
(* number twice in a millisecond: every call is stored (InsertBatch), no   *)
(* row is skipped (List), and bodies are there when fetched (GetBody).     *)
THEOREM HistoryShowsItAll ==
    (\A c, d \in Calls : Key(c) = Key(d) => c = d) => (TrafficSpec => []HistoryIsHonest)
<1> SUFFICES ASSUME \A c, d \in Calls : Key(c) = Key(d) => c = d PROVE TrafficSpec => []HistoryIsHonest
  OBVIOUS
<1>1. HistoryInv => HistoryIsHonest
  <2> SUFFICES ASSUME HistoryInv PROVE HistoryIsHonest
    OBVIOUS
  <2>1. IngestedIsStored
    BY DEF HistoryInv, OnlyTwinsRefused, IngestedIsStored
  <2> QED
    BY <2>1, WalkEndsEmpty DEF HistoryInv, BodiesAreStored, AnnouncedBodiesAreThere, HistoryIsHonest
<1> QED
  BY <1>1, HistoryHolds, PTL

-----------------------------------------------------------------------------
(* The download (UpdateDownload)                                            *)

Builds0 == Builds \cup {0}
Published == [version : Releases, build : Builds]

\* Where the manifests are, and what runs while the process does not.
Shapes ==
    /\ published \subseteq Published
    /\ installed \in Releases
    /\ marker \in Releases \cup {NoMarker}
    /\ tree \in [Releases -> [ShardSet -> Builds0]]
    /\ downloads \in [ShardSet -> Builds0]
    /\ claimed \in BOOLEAN
    /\ request \in [Windows -> [pc : {"idle", "fetched", "looked"}, manifest : Published \cup {NoManifest}]]
    /\ staging \in [pc : {"idle", "download", "unpack", "over"},
                    manifest : Published \cup {NoManifest}, next : Nat \ {0}]

Sources ==
    /\ \A w \in Windows : request[w].pc # "idle" => request[w].manifest \in published
    /\ staging.pc # "idle" => staging.manifest \in published /\ claimed
    /\ ~running => staging.pc = "idle" /\ \A w \in Windows : request[w].pc = "idle"

\* Whoever passed the version check is newer than what is installed, and that
\* only changes while nobody is past it.
Upgrades ==
    /\ marker # NoMarker => Newer(marker, installed)
    /\ staging.pc # "idle" => Newer(staging.manifest.version, installed)
    /\ \A w \in Windows : request[w].pc = "looked" => Newer(request[w].manifest.version, installed)

\* How far the staging got, and the tree the marker names.
Verified(k) == downloads[Shards[k]] = staging.manifest.build
Unpacked(k) == tree[staging.manifest.version][Shards[k]] = staging.manifest.build

Progress ==
    /\ staging.pc \in {"download", "unpack"} => staging.next <= Len(Shards) + 1
    /\ staging.pc = "download" => \A k \in 1 .. staging.next - 1 : Verified(k)
    /\ staging.pc = "unpack" => /\ \A k \in 1 .. Len(Shards) : Verified(k)
                                /\ \A k \in 1 .. staging.next - 1 : Unpacked(k)
    /\ staging.pc \in {"download", "unpack"} /\ marker = staging.manifest.version
        => marker \in overlapped

DownloadInv == Shapes /\ Sources /\ Upgrades /\ Progress /\ OnlyOverlapBreaksMarker

-----------------------------------------------------------------------------
(* The version order                                                        *)

\* Which segment decides does not depend on who is compared with whom.
LEMMA DifferenceIsMutual ==
    ASSUME NEW a, NEW b
    PROVE  FirstDifference(a, b) = FirstDifference(b, a)
<1> DEFINE D(x, y) == {i \in DOMAIN x \cup DOMAIN y : SegmentAt(x, i) # SegmentAt(y, i)}
           First(S) == IF S = {} THEN 0 ELSE CHOOSE i \in S : \A j \in S : i <= j
<1>1. D(a, b) = D(b, a)
  OBVIOUS
<1>2. FirstDifference(a, b) = First(D(a, b)) /\ FirstDifference(b, a) = First(D(b, a))
  BY DEF FirstDifference
<1> HIDE DEF D, First
<1> QED
  BY <1>1, <1>2

LEMMA SegmentsAreNumbers ==
    ASSUME NEW v \in Releases, NEW i
    PROVE  SegmentAt(v.numbers, i) \in Nat /\ v.pre \in Nat
<1>1. v.numbers \in Seq(Nat) /\ v.pre \in Nat
  BY UpdateVersions
<1>2. \A j \in DOMAIN v.numbers : v.numbers[j] \in Nat
  BY <1>1
<1> QED
  BY <1>1, <1>2 DEF SegmentAt

\* Of two releases at most one is the newer (version.go, Compare).
LEMMA NewerIsOneWay ==
    ASSUME NEW a \in Releases, NEW b \in Releases, Newer(a, b)
    PROVE  ~ Newer(b, a)
<1> DEFINE i == FirstDifference(a.numbers, b.numbers)
<1>1. FirstDifference(b.numbers, a.numbers) = i
  BY DifferenceIsMutual
<1>2. /\ SegmentAt(a.numbers, i) \in Nat /\ SegmentAt(b.numbers, i) \in Nat
      /\ a.pre \in Nat /\ b.pre \in Nat
  BY SegmentsAreNumbers
<1> HIDE DEF i
<1>3. IF i # 0 THEN SegmentAt(a.numbers, i) > SegmentAt(b.numbers, i)
      ELSE a.pre # b.pre /\ (a.pre = 0 \/ (b.pre # 0 /\ a.pre > b.pre))
  BY DEF Newer, i
<1>4. ASSUME Newer(b, a)
      PROVE  IF i # 0 THEN SegmentAt(b.numbers, i) > SegmentAt(a.numbers, i)
             ELSE b.pre # a.pre /\ (b.pre = 0 \/ (a.pre # 0 /\ b.pre > a.pre))
  BY <1>1, <1>4 DEF Newer
<1> QED
  BY <1>2, <1>3, <1>4

-----------------------------------------------------------------------------
(* Every step keeps the invariant                                           *)

LEMMA ShardFacts ==
    /\ Len(Shards) \in Nat /\ DOMAIN Shards = 1 .. Len(Shards)
    /\ \A k \in 1 .. Len(Shards) : Shards[k] \in ShardSet
    /\ \A s \in ShardSet : \E k \in 1 .. Len(Shards) : s = Shards[k]
  BY UpdateShards DEF ShardSet

LEMMA DownloadInitially == DownloadInit => DownloadInv
<1> SUFFICES ASSUME DownloadInit PROVE DownloadInv
  OBVIOUS
<1>1. PICK b \in Builds : manifest = [version |-> FirstRelease, build |-> b]
  BY DEF DownloadInit
<1>2. NoTree \in [ShardSet -> Builds0]
  BY DEF NoTree, Builds0
<1>. manifest \in Published /\ FirstRelease \in Releases
  BY <1>1, UpdateReleases DEF Published
<1>. Shapes
  <2>1. published \subseteq Published /\ installed \in Releases /\ marker \in Releases \cup {NoMarker}
        /\ claimed \in BOOLEAN
    BY DEF DownloadInit
  <2>2. tree \in [Releases -> [ShardSet -> Builds0]] /\ downloads \in [ShardSet -> Builds0]
    BY <1>2 DEF DownloadInit
  <2>3. request \in [Windows -> [pc : {"idle", "fetched", "looked"}, manifest : Published \cup {NoManifest}]]
    BY DEF DownloadInit, IdleRequest
  <2>4. staging \in [pc : {"idle", "download", "unpack", "over"},
                     manifest : Published \cup {NoManifest}, next : Nat \ {0}]
    BY DEF DownloadInit, IdleStaging
  <2> QED
    BY <2>1, <2>2, <2>3, <2>4 DEF Shapes
<1>3. Sources /\ Upgrades /\ Progress /\ OnlyOverlapBreaksMarker
  BY DEF DownloadInit, Sources, Upgrades, Progress, OnlyOverlapBreaksMarker, IdleRequest, IdleStaging
<1> QED
  BY <1>3 DEF DownloadInv

\* The published documents only grow: a release that was whole stays so.
LEMMA PublishKeeps == DownloadInv /\ Publish => DownloadInv'
<1> SUFFICES ASSUME DownloadInv, Publish PROVE DownloadInv'
  OBVIOUS
<1>1. PICK v \in Releases, b \in Builds :
          manifest' = [version |-> v, build |-> b] /\ published' = published \cup {manifest'}
  BY DEF Publish
<1>2. published \subseteq published' /\ published' \subseteq Published
  BY <1>1 DEF DownloadInv, Shapes, Published
<1>3. /\ UNCHANGED <<installed, running, downloads, tree, marker, claimed>>
      /\ UNCHANGED <<request, staging, overlapped>>
  BY DEF Publish, processState
<1>4. Shapes' /\ Sources' /\ Upgrades' /\ Progress'
  BY <1>2, <1>3 DEF DownloadInv, Shapes, Sources, Upgrades, Progress, Verified, Unpacked
<1>5. OnlyOverlapBreaksMarker'
  BY <1>2, <1>3 DEF DownloadInv, OnlyOverlapBreaksMarker, WholeRelease
<1> QED
  BY <1>4, <1>5 DEF DownloadInv

\* A request takes a published document, and goes on with it only when it is
\* newer than the program.
LEMMA RequestKeeps ==
    ASSUME DownloadInv, NEW w \in Windows, Fetch(w) \/ LookAtMarker(w)
    PROVE  DownloadInv'
<1>1. /\ UNCHANGED <<published, installed, running, downloads, tree, marker, claimed>>
      /\ UNCHANGED <<staging, overlapped>> /\ running
  BY DEF Fetch, LookAtMarker, shopState, processState, DownloadInv, Sources
<1>2. \E r \in [pc : {"idle", "fetched", "looked"}, manifest : Published \cup {NoManifest}] :
        /\ request' = [request EXCEPT ![w] = r]
        /\ r.pc # "idle" => r.manifest \in published
        /\ r.pc = "looked" => Newer(r.manifest.version, installed)
  <2>1. CASE Fetch(w)
    <3>1. PICK m \in published : request' = [request EXCEPT ![w] = [pc |-> "fetched", manifest |-> m]]
      BY <2>1 DEF Fetch
    <3>. m \in Published
      BY DEF DownloadInv, Shapes
    <3> WITNESS [pc |-> "fetched", manifest |-> m]
                  \in [pc : {"idle", "fetched", "looked"}, manifest : Published \cup {NoManifest}]
    <3> QED
      BY <3>1
  <2>2. CASE LookAtMarker(w)
    <3> DEFINE wanted == request[w].manifest.version
    <3>1. request[w].pc = "fetched" /\ request[w].manifest \in published
          /\ request[w] \in [pc : {"idle", "fetched", "looked"}, manifest : Published \cup {NoManifest}]
      BY <2>2 DEF LookAtMarker, DownloadInv, Sources, Shapes
    <3>2. CASE HasUpdate(installed, wanted) /\ marker # wanted
      <4>1. request' = [request EXCEPT ![w] = [request[w] EXCEPT !.pc = "looked"]]
        BY <2>2, <3>2 DEF LookAtMarker
      <4> DEFINE r == [request[w] EXCEPT !.pc = "looked"]
      <4>2. /\ r \in [pc : {"idle", "fetched", "looked"}, manifest : Published \cup {NoManifest}]
            /\ r.manifest = request[w].manifest
        BY <3>1
      <4>3. Newer(r.manifest.version, installed)
        BY <3>2, <4>2 DEF HasUpdate
      <4> HIDE DEF r
      <4> QED
        BY <3>1, <4>1, <4>2, <4>3 DEF r
    <3>3. CASE ~ (HasUpdate(installed, wanted) /\ marker # wanted)
      <4>1. request' = [request EXCEPT ![w] = IdleRequest]
        BY <2>2, <3>3 DEF LookAtMarker
      <4>2. IdleRequest \in [pc : {"idle", "fetched", "looked"}, manifest : Published \cup {NoManifest}]
        BY DEF IdleRequest
      <4> QED
        BY <4>1, <4>2 DEF IdleRequest
    <3> QED
      BY <3>2, <3>3
  <2> QED
    BY <2>1, <2>2
<1>3. Shapes' /\ Sources' /\ Upgrades'
  BY <1>1, <1>2 DEF DownloadInv, Shapes, Sources, Upgrades
<1>4. Progress' /\ OnlyOverlapBreaksMarker'
  BY <1>1 DEF DownloadInv, Progress, Verified, Unpacked, OnlyOverlapBreaksMarker, WholeRelease
<1> QED
  BY <1>3, <1>4 DEF DownloadInv

\* A claim takes the request's manifest over, and remembers when the marker
\* named that version already.
LEMMA ClaimKeeps ==
    ASSUME DownloadInv, NEW w \in Windows, ClaimUpdateSlot(w)
    PROVE  DownloadInv'
<1>1. /\ UNCHANGED <<published, installed, running, downloads, tree, marker>> /\ running
      /\ request[w].manifest \in published /\ request[w].manifest \in Published
      /\ Newer(request[w].manifest.version, installed)
  BY DEF ClaimUpdateSlot, shopState, processState, DownloadInv, Sources, Upgrades, Shapes
<1>2. /\ request' = [request EXCEPT ![w] = IdleRequest] /\ IdleRequest.pc = "idle"
      /\ IdleRequest \in [pc : {"idle", "fetched", "looked"}, manifest : Published \cup {NoManifest}]
  BY DEF ClaimUpdateSlot, IdleRequest
<1>3. CASE claimed
  <2>1. UNCHANGED <<claimed, staging, overlapped>>
    BY <1>3 DEF ClaimUpdateSlot
  <2>2. Shapes' /\ Sources' /\ Upgrades'
    BY <1>1, <1>2, <2>1 DEF DownloadInv, Shapes, Sources, Upgrades
  <2>3. Progress' /\ OnlyOverlapBreaksMarker'
    BY <1>1, <2>1 DEF DownloadInv, Progress, Verified, Unpacked, OnlyOverlapBreaksMarker, WholeRelease
  <2> QED
    BY <2>2, <2>3 DEF DownloadInv
<1>4. CASE ~ claimed
  <2> DEFINE s == [pc |-> "download", manifest |-> request[w].manifest, next |-> 1]
  <2>1. /\ claimed' = TRUE /\ staging' = s /\ overlapped \subseteq overlapped'
        /\ marker = request[w].manifest.version => marker \in overlapped'
    BY <1>4 DEF ClaimUpdateSlot
  <2>2. /\ s \in [pc : {"idle", "download", "unpack", "over"},
                  manifest : Published \cup {NoManifest}, next : Nat \ {0}]
        /\ s.pc = "download" /\ s.next = 1 /\ s.manifest = request[w].manifest
    BY <1>1
  <2> HIDE DEF s
  <2>3. Shapes' /\ Sources' /\ Upgrades'
    BY <1>1, <1>2, <2>1, <2>2 DEF DownloadInv, Shapes, Sources, Upgrades
  <2>4. Progress'
    BY <1>1, <2>1, <2>2, ShardFacts DEF Progress
  <2>5. OnlyOverlapBreaksMarker'
    BY <1>1, <2>1 DEF DownloadInv, OnlyOverlapBreaksMarker, WholeRelease
  <2> QED
    BY <2>3, <2>4, <2>5 DEF DownloadInv
<1> QED
  BY <1>3, <1>4

\* Everything but Progress and the tree, for a step of the staging.
LEMMA StagingKeeps ==
    ASSUME DownloadInv, UNCHANGED <<published, installed, running, request>>,
           staging.pc # "idle", claimed' \in BOOLEAN, marker' \in {marker, staging.manifest.version},
           marker' = NoMarker \/ marker' = marker \/ staging.pc = "unpack",
           staging' \in [pc : {"idle", "download", "unpack", "over"},
                         manifest : Published \cup {NoManifest}, next : Nat \ {0}],
           staging'.pc # "idle" => staging'.manifest = staging.manifest /\ claimed',
           tree' \in [Releases -> [ShardSet -> Builds0]], downloads' \in [ShardSet -> Builds0]
    PROVE  Shapes' /\ Sources' /\ Upgrades'
<1>1. staging.manifest \in published /\ staging.manifest.version \in Releases /\ running
      /\ Newer(staging.manifest.version, installed)
  BY DEF DownloadInv, Shapes, Sources, Upgrades, Published
<1>2. Shapes'
  BY <1>1 DEF DownloadInv, Shapes
<1>3. Sources'
  BY <1>1 DEF DownloadInv, Sources
<1>4. Upgrades'
  BY <1>1 DEF DownloadInv, Upgrades
<1> QED
  BY <1>2, <1>3, <1>4

\* What a step of the staging is taken from.
LEMMA StagingFacts ==
    ASSUME DownloadInv, staging.pc # "idle"
    PROVE  /\ staging.manifest \in published /\ claimed
           /\ staging.manifest.version \in Releases /\ staging.manifest.build \in Builds0
           /\ staging.next \in Nat \ {0} /\ staging.manifest \in Published
           /\ staging = [pc |-> staging.pc, manifest |-> staging.manifest, next |-> staging.next]
  BY DEF DownloadInv, Sources, Shapes, Published, Builds0

LEMMA DownloadKeeps == DownloadInv /\ (DownloadAsset \/ DownloadFails) => DownloadInv'
<1> SUFFICES ASSUME DownloadInv, DownloadAsset \/ DownloadFails PROVE DownloadInv'
  OBVIOUS
<1>1. /\ UNCHANGED <<published, installed, running, request, tree, marker, claimed, overlapped>>
      /\ staging.pc = "download" /\ staging.next <= Len(Shards)
  BY DEF DownloadAsset, DownloadFails, shopState, processState, Stage
<1>2. /\ Shard \in ShardSet /\ \A k \in 1 .. staging.next - 1 : Verified(k) /\ k \in 1 .. Len(Shards)
      /\ marker = staging.manifest.version => marker \in overlapped
  BY <1>1, ShardFacts, StagingFacts DEF DownloadInv, Progress, Shard
<1>3. OnlyOverlapBreaksMarker'
  BY <1>1 DEF DownloadInv, OnlyOverlapBreaksMarker, WholeRelease
<1>4. CASE DownloadAsset
  <2>1. staging' = [staging EXCEPT !.next = @ + 1]
    BY <1>4 DEF DownloadAsset
  <2>2. /\ staging'.pc = "download" /\ staging'.manifest = staging.manifest
        /\ staging'.next = staging.next + 1
        /\ staging' \in [pc : {"idle", "download", "unpack", "over"},
                         manifest : Published \cup {NoManifest}, next : Nat \ {0}]
    BY <1>1, <2>1, StagingFacts
  <2>3. /\ downloads' \in [ShardSet -> Builds0]
        /\ \A s \in ShardSet : downloads'[s] = IF s = Shard THEN staging.manifest.build ELSE downloads[s]
    BY <1>1, <1>2, <1>4, StagingFacts DEF DownloadAsset, MatchesAsset, DownloadInv, Shapes
  <2>4. \A k \in 1 .. staging'.next - 1 : downloads'[Shards[k]] = staging.manifest.build
    <3>1. \A k \in 1 .. staging.next : k \in 1 .. Len(Shards) /\ Shards[k] \in ShardSet
      BY <1>1, ShardFacts, StagingFacts
    <3>2. \A k \in 1 .. staging.next : k = staging.next \/ k \in 1 .. staging.next - 1
      BY <1>1, StagingFacts
    <3>3. staging'.next - 1 = staging.next
      BY <1>1, <2>2, StagingFacts
    <3> QED
      BY <1>2, <2>3, <3>1, <3>2, <3>3 DEF Verified, Shard
  <2>5. staging'.next <= Len(Shards) + 1
    BY <1>1, <2>2, ShardFacts, StagingFacts
  <2>6. Progress'
    BY <1>1, <1>2, <2>2, <2>4, <2>5 DEF Progress, Verified
  <2>7. Shapes' /\ Sources' /\ Upgrades'
    BY <1>1, <2>2, <2>3, StagingKeeps, StagingFacts DEF DownloadInv, Shapes
  <2> QED
    BY <1>3, <2>6, <2>7 DEF DownloadInv
<1>5. CASE DownloadFails
  <2>1. staging' = [staging EXCEPT !.pc = "over"] /\ downloads' = downloads
    BY <1>5 DEF DownloadFails
  <2>2. /\ staging'.pc = "over" /\ staging'.manifest = staging.manifest
        /\ staging' \in [pc : {"idle", "download", "unpack", "over"},
                         manifest : Published \cup {NoManifest}, next : Nat \ {0}]
    BY <1>1, <2>1, StagingFacts
  <2>3. Progress'
    BY <2>2 DEF Progress
  <2>4. Shapes' /\ Sources' /\ Upgrades'
    BY <1>1, <2>1, <2>2, StagingKeeps, StagingFacts DEF DownloadInv, Shapes
  <2> QED
    BY <1>3, <2>3, <2>4 DEF DownloadInv
<1> QED
  BY <1>4, <1>5

\* Only the tree of the version that is staged changes.  If the marker names
\* it, its claim came too late and is remembered.
LEMMA UnpackKeeps == DownloadInv /\ (ClearTree \/ ExtractTarGz \/ ExtractFails) => DownloadInv'
<1> SUFFICES ASSUME DownloadInv, ClearTree \/ ExtractTarGz \/ ExtractFails PROVE DownloadInv'
  OBVIOUS
<1> DEFINE v == staging.manifest.version
           b == staging.manifest.build
<1>1. /\ UNCHANGED <<published, installed, running, request, downloads, marker, claimed, overlapped>>
      /\ staging.pc \in {"download", "unpack"}
  BY DEF ClearTree, ExtractTarGz, ExtractFails, shopState, processState, Stage
<1>2. /\ v \in Releases /\ b \in Builds0 /\ staging.next \in Nat \ {0}
      /\ (marker = v => marker \in overlapped)
      /\ tree \in [Releases -> [ShardSet -> Builds0]] /\ downloads \in [ShardSet -> Builds0]
  BY <1>1, StagingFacts DEF DownloadInv, Progress, Shapes
<1>3. NoTree \in [ShardSet -> Builds0]
  BY DEF NoTree, Builds0
<1>4. \E t \in [ShardSet -> Builds0] :
        /\ tree' = [tree EXCEPT ![v] = t]
        /\ \/ ClearTree
           \/ ExtractFails
           \/ ExtractTarGz /\ t = [tree[v] EXCEPT ![Shard] = downloads[Shard]]
  <2>1. CASE ClearTree \/ ExtractFails
    BY <1>3, <2>1 DEF ClearTree, ExtractFails
  <2>2. CASE ExtractTarGz
    <3> DEFINE t == [tree[v] EXCEPT ![Shard] = downloads[Shard]]
    <3>1. Shard \in ShardSet
      BY <1>2, <2>2, ShardFacts DEF ExtractTarGz, Shard
    <3>2. t \in [ShardSet -> Builds0]
      BY <1>2, <3>1
    <3>3. tree' = [tree EXCEPT ![v] = t]
      BY <2>2 DEF ExtractTarGz
    <3> HIDE DEF t
    <3> QED
      BY <2>2, <3>2, <3>3 DEF t
  <2> QED
    BY <2>1, <2>2
<1>5. PICK t \in [ShardSet -> Builds0] :
        /\ tree' = [tree EXCEPT ![v] = t]
        /\ \/ ClearTree
           \/ ExtractFails
           \/ ExtractTarGz /\ t = [tree[v] EXCEPT ![Shard] = downloads[Shard]]
  BY <1>4
<1>6. tree' \in [Releases -> [ShardSet -> Builds0]] /\ tree'[v] = t
      /\ \A u \in Releases : u # v => tree'[u] = tree[u]
  BY <1>2, <1>5
<1>7. OnlyOverlapBreaksMarker'
  <2>1. CASE marker = v
    BY <1>1, <1>2, <2>1 DEF OnlyOverlapBreaksMarker
  <2>2. CASE marker # v
    <3>1. marker # NoMarker => tree'[marker] = tree[marker]
      BY <1>6, <2>2 DEF DownloadInv, Shapes
    <3> QED
      BY <1>1, <3>1 DEF DownloadInv, OnlyOverlapBreaksMarker, WholeRelease
  <2> QED
    BY <2>1, <2>2
<1>8. \E next \in Nat \ {0}, pc \in {"unpack", "over"} :
        /\ staging' = [pc |-> pc, manifest |-> staging.manifest, next |-> next]
        /\ pc = "unpack" => /\ next <= Len(Shards) + 1
                            /\ \A k \in 1 .. Len(Shards) : Verified(k)
                            /\ \A k \in 1 .. next - 1 : t[Shards[k]] = b
  <2>1. CASE ClearTree
    <3>1. staging' = [pc |-> "unpack", manifest |-> staging.manifest, next |-> 1]
      BY <1>1, <2>1, StagingFacts DEF ClearTree
    <3>2. \A k \in 1 .. Len(Shards) : Verified(k)
      <4>1. staging.next > Len(Shards) /\ staging.next \in Nat /\ Len(Shards) \in Nat
            /\ \A k \in 1 .. staging.next - 1 : Verified(k)
        BY <1>2, <2>1, ShardFacts DEF ClearTree, Stage, DownloadInv, Progress
      <4>2. \A k \in 1 .. Len(Shards) : k \in 1 .. staging.next - 1
        BY <4>1
      <4> QED
        BY <4>1, <4>2, Zenon
    <3>3. 1 \in Nat \ {0} /\ 1 <= Len(Shards) + 1 /\ \A k \in 1 .. 1 - 1 : FALSE
      BY ShardFacts
    <3> QED
      BY <3>1, <3>2, <3>3, Zenon
  <2>2. CASE ExtractFails
    <3>1. staging' = [pc |-> "over", manifest |-> staging.manifest, next |-> staging.next]
      BY <1>1, <2>2, StagingFacts DEF ExtractFails
    <3> QED
      BY <1>2, <3>1
  <2>3. CASE ExtractTarGz /\ t = [tree[v] EXCEPT ![Shard] = downloads[Shard]]
    <3>1. /\ staging.pc = "unpack" /\ staging.next <= Len(Shards)
          /\ \A k \in 1 .. Len(Shards) : Verified(k)
          /\ \A k \in 1 .. staging.next - 1 : Unpacked(k)
      BY <2>3 DEF ExtractTarGz, Stage, DownloadInv, Progress
    <3>2. staging' = [pc |-> "unpack", manifest |-> staging.manifest, next |-> staging.next + 1]
      BY <1>1, <2>3, <3>1, StagingFacts DEF ExtractTarGz
    <3>3. ASSUME NEW k \in 1 .. staging.next PROVE t[Shards[k]] = b
      <4>1. k \in 1 .. Len(Shards) /\ staging.next \in 1 .. Len(Shards)
        BY <1>2, <3>1, ShardFacts
      <4>2. Shards[k] \in ShardSet /\ Shard \in ShardSet /\ downloads[Shard] = b
        BY <3>1, <4>1, ShardFacts DEF Shard, Verified
      <4>3. k = staging.next \/ k \in 1 .. staging.next - 1
        BY <1>2
      <4>4. t[Shards[k]] = IF Shards[k] = Shard THEN b ELSE tree[v][Shards[k]]
        BY <1>2, <2>3, <4>2
      <4> QED
        BY <3>1, <4>3, <4>4 DEF Unpacked, Shard
    <3>4. staging.next + 1 \in Nat \ {0} /\ staging.next + 1 <= Len(Shards) + 1
          /\ (staging.next + 1) - 1 = staging.next
      BY <1>2, <3>1, ShardFacts
    <3> QED
      BY <3>1, <3>2, <3>3, <3>4
  <2> QED
    BY <1>5, <2>1, <2>2, <2>3
<1>9. PICK next \in Nat \ {0}, pc \in {"unpack", "over"} :
        /\ staging' = [pc |-> pc, manifest |-> staging.manifest, next |-> next]
        /\ pc = "unpack" => /\ next <= Len(Shards) + 1
                            /\ \A k \in 1 .. Len(Shards) : Verified(k)
                            /\ \A k \in 1 .. next - 1 : t[Shards[k]] = b
  BY <1>8
<1>10. Progress'
  BY <1>1, <1>2, <1>6, <1>9 DEF Progress, Verified, Unpacked
<1>11. staging' \in [pc : {"idle", "download", "unpack", "over"},
                     manifest : Published \cup {NoManifest}, next : Nat \ {0}]
       /\ staging'.manifest = staging.manifest
  BY <1>1, <1>9, StagingFacts
<1>12. Shapes' /\ Sources' /\ Upgrades'
  BY <1>1, <1>2, <1>6, <1>11, StagingKeeps, StagingFacts DEF DownloadInv, Shapes
<1> QED
  BY <1>7, <1>10, <1>12 DEF DownloadInv

\* The marker is written over a tree unpacked to its last shard.
LEMMA MarkerKeeps == DownloadInv /\ WritePending => DownloadInv'
<1> SUFFICES ASSUME DownloadInv, WritePending PROVE DownloadInv'
  OBVIOUS
<1>1. /\ UNCHANGED <<published, installed, running, request, downloads, tree, claimed, overlapped>>
      /\ staging.pc = "unpack" /\ staging.next > Len(Shards)
      /\ marker' = staging.manifest.version /\ staging' = [staging EXCEPT !.pc = "over"]
  BY DEF WritePending, shopState, processState, Stage
<1>2. /\ staging'.pc = "over" /\ staging'.manifest = staging.manifest
      /\ staging' \in [pc : {"idle", "download", "unpack", "over"},
                       manifest : Published \cup {NoManifest}, next : Nat \ {0}]
  BY <1>1, StagingFacts
<1>3. Shapes' /\ Sources' /\ Upgrades'
  BY <1>1, <1>2, StagingKeeps, StagingFacts DEF DownloadInv, Shapes
<1>4. WholeRelease(staging.manifest.version, tree[staging.manifest.version])
  <2>1. \A k \in 1 .. Len(Shards) : Unpacked(k)
    BY <1>1, ShardFacts, StagingFacts DEF DownloadInv, Progress
  <2> QED
    BY <1>1, <2>1, ShardFacts, StagingFacts DEF WholeRelease, Unpacked
<1>5. OnlyOverlapBreaksMarker' /\ Progress'
  BY <1>1, <1>2, <1>4 DEF OnlyOverlapBreaksMarker, WholeRelease, Progress
<1> QED
  BY <1>3, <1>5 DEF DownloadInv

LEMMA ReleaseKeeps == DownloadInv /\ ReleaseUpdateSlot => DownloadInv'
<1> SUFFICES ASSUME DownloadInv, ReleaseUpdateSlot PROVE DownloadInv'
  OBVIOUS
<1>1. /\ UNCHANGED <<published, installed, running, request, downloads, tree, marker, overlapped>>
      /\ staging.pc = "over" /\ staging' = IdleStaging /\ claimed' = FALSE
  BY DEF ReleaseUpdateSlot, shopState, processState, Stage
<1>2. /\ IdleStaging.pc = "idle"
      /\ IdleStaging \in [pc : {"idle", "download", "unpack", "over"},
                          manifest : Published \cup {NoManifest}, next : Nat \ {0}]
  BY DEF IdleStaging
<1>3. Shapes' /\ Sources' /\ Upgrades'
  BY <1>1, <1>2, StagingKeeps DEF DownloadInv, Shapes
<1>4. OnlyOverlapBreaksMarker' /\ Progress'
  BY <1>1, <1>2 DEF DownloadInv, OnlyOverlapBreaksMarker, WholeRelease, Progress
<1> QED
  BY <1>3, <1>4 DEF DownloadInv

\* What a process was doing ends with it, and only the next one installs.
LEMMA ProcessKeeps == DownloadInv /\ (Ends \/ Launch) => DownloadInv'
<1> SUFFICES ASSUME DownloadInv, Ends \/ Launch PROVE DownloadInv'
  OBVIOUS
<1>1. /\ IdleStaging.pc = "idle" /\ IdleRequest.pc = "idle" /\ NoTree \in [ShardSet -> Builds0]
      /\ IdleStaging \in [pc : {"idle", "download", "unpack", "over"},
                          manifest : Published \cup {NoManifest}, next : Nat \ {0}]
      /\ IdleRequest \in [pc : {"idle", "fetched", "looked"}, manifest : Published \cup {NoManifest}]
  BY DEF IdleStaging, IdleRequest, NoTree, Builds0
<1>2. CASE Ends
  <2>1. /\ UNCHANGED <<published, installed, downloads, tree, overlapped>> /\ running' = FALSE
        /\ claimed' = FALSE /\ staging' = IdleStaging
        /\ request' = [w \in Windows |-> IdleRequest] /\ marker' \in {marker, NoMarker}
    BY <1>2 DEF Ends, shopState
  <2>2. Shapes' /\ Sources' /\ Upgrades'
    BY <1>1, <2>1 DEF DownloadInv, Shapes, Sources, Upgrades
  <2>3. Progress' /\ OnlyOverlapBreaksMarker'
    BY <1>1, <2>1 DEF DownloadInv, Progress, OnlyOverlapBreaksMarker, WholeRelease
  <2> QED
    BY <2>2, <2>3 DEF DownloadInv
<1>3. CASE Launch
  <2>1. /\ UNCHANGED <<published, downloads, claimed, request, staging, overlapped>>
        /\ ~running /\ running' = TRUE /\ marker' = NoMarker
        /\ installed' \in {installed, marker} /\ (marker = NoMarker => installed' = installed)
        /\ tree' = IF marker = NoMarker THEN tree ELSE [tree EXCEPT ![marker] = NoTree]
    BY <1>3 DEF Launch, shopState
  <2>2. staging.pc = "idle" /\ \A w \in Windows : request[w].pc = "idle"
    BY <2>1 DEF DownloadInv, Sources
  <2>3. Shapes'
    BY <1>1, <2>1 DEF DownloadInv, Shapes
  <2>4. Sources' /\ Upgrades' /\ Progress' /\ OnlyOverlapBreaksMarker'
    BY <2>1, <2>2 DEF Sources, Upgrades, Progress, OnlyOverlapBreaksMarker
  <2> QED
    BY <2>3, <2>4 DEF DownloadInv
<1> QED
  BY <1>2, <1>3

LEMMA DownloadStepKeeps == DownloadInv /\ [DownloadNext]_downloadVars => DownloadInv'
<1> SUFFICES ASSUME DownloadInv, [DownloadNext]_downloadVars PROVE DownloadInv'
  OBVIOUS
<1>1. CASE UNCHANGED downloadVars
  BY <1>1 DEF downloadVars, DownloadInv, Shapes, Sources, Upgrades, Progress, Verified, Unpacked,
              OnlyOverlapBreaksMarker, WholeRelease
<1>2. CASE DownloadNext
  BY <1>2, PublishKeeps, RequestKeeps, ClaimKeeps, DownloadKeeps, UnpackKeeps, MarkerKeeps,
     ReleaseKeeps, ProcessKeeps DEF DownloadNext, StageStep
<1> QED
  BY <1>1, <1>2

THEOREM DownloadInvariant == DownloadSpec => []DownloadInv
  BY DownloadInitially, DownloadStepKeeps, PTL DEF DownloadSpec

-----------------------------------------------------------------------------
(* The theorems                                                             *)

(* Whatever number of windows ask, whatever fails and whenever the process  *)
(* dies: a marker names one published build of its version, whole, unless a *)
(* request that had looked before it was written staged the version again   *)
(* (stage.go, StageVersion; ipc_bridge.go, update.downloadRelease).         *)
THEOREM MarkerNamesAWhole == DownloadSpec => []OnlyOverlapBreaksMarker
<1>1. DownloadInv => OnlyOverlapBreaksMarker
  BY DEF DownloadInv
<1> QED
  BY <1>1, DownloadInvariant, PTL

(* For any version numbers, in whatever order they are published, fetched   *)
(* and staged: no launch installs an older version (version.go, Compare).   *)
THEOREM NoDowngrade == DownloadSpec => NeverInstallsOlder
<1>1. ASSUME DownloadInv, [DownloadNext]_downloadVars, installed' # installed
      PROVE  ~ Newer(installed, installed')
  <2>1. Launch
    BY <1>1 DEF DownloadNext, StageStep, Publish, Fetch, LookAtMarker, ClaimUpdateSlot, DownloadAsset,
       DownloadFails, ClearTree, ExtractTarGz, ExtractFails, WritePending, ReleaseUpdateSlot, Ends,
       downloadVars, processState
  <2>2. marker # NoMarker /\ installed' = marker
    BY <1>1, <2>1 DEF Launch
  <2>3. Newer(marker, installed) /\ marker \in Releases /\ installed \in Releases
    BY <1>1, <2>2 DEF DownloadInv, Upgrades, Shapes
  <2> QED
    BY <2>2, <2>3, NewerIsOneWay
<1>2. DownloadInv /\ [DownloadNext]_downloadVars => [~ Newer(installed, installed')]_installed
  BY <1>1
<1> QED
  BY <1>2, DownloadInvariant, PTL DEF DownloadSpec, NeverInstallsOlder

-----------------------------------------------------------------------------
(* The inventory (AssetInventory)                                           *)

Configs == [target : Targets \cup {NoApp}, name : Nat, setting : Nat]

\* Where the loaded inventory will be found again, unless a learned name put
\* an older target back.
Found ==
    inventory.app # NoApp /\ "target" \notin straddled =>
        /\ config.target = inventory.app
        /\ archive[inventory.app] = inventory.at

\* What each phase of a build has made sure of; a learner still holds what was
\* last saved, of every key that was not saved since.
InventoryInv ==
    /\ config \in Configs /\ saved \in Configs /\ archive \in [Targets -> Nat]
    /\ inventory \in [app : Targets \cup {NoApp}, at : Nat]
    /\ building \in [pc : {"idle", "reading", "remember", "archive"},
                     built : [app : Targets \cup {NoApp}, at : Nat]]
    /\ learner \in [pc : {"idle", "loaded"}, loaded : Configs]
    /\ building.pc \in {"idle", "reading"} => Found
    /\ building.pc \in {"remember", "archive"} => inventory = building.built
    /\ building.pc = "archive" /\ inventory.app # NoApp /\ "target" \notin straddled
        => config.target = inventory.app
    /\ \A k \in Keys : k \notin straddled => config[k] = saved[k]
    /\ learner.pc = "loaded" => \A k \in Keys : k \notin straddled => learner.loaded[k] = saved[k]

\* Field by field.
KeyByKey(c, d) ==
    /\ "target" \notin straddled => c.target = d.target
    /\ "name" \notin straddled => c.name = d.name
    /\ "setting" \notin straddled => c.setting = d.setting

USE NoAppIsNone, InventoryBounds

LEMMA ByKey ==
    \A c, d : (\A k \in Keys : k \notin straddled => c[k] = d[k]) <=> KeyByKey(c, d)
  BY DEF Keys, KeyByKey

LEMMA ByKeyNext ==
    \A c, d : (\A k \in Keys : k \notin straddled' => c[k] = d[k])
        <=> /\ "target" \notin straddled' => c.target = d.target
            /\ "name" \notin straddled' => c.name = d.name
            /\ "setting" \notin straddled' => c.setting = d.setting
  BY DEF Keys

LEMMA InventoryInitially == InventoryInit => InventoryInv
  BY DEF InventoryInit, InventoryInv, Configs, Found, NoLearner, NoBuild, Nothing, Keys

LEMMA InventoryStep ==
    ASSUME InventoryInv, [InventoryNext]_inventoryVars
    PROVE  InventoryInv'
<1>0. /\ KeyByKey(config, saved)
      /\ learner.pc = "loaded" => KeyByKey(learner.loaded, saved)
  BY ByKey DEF InventoryInv
<1>k. /\ (\A k \in Keys : k \notin straddled' => config'[k] = saved'[k])
            <=> /\ "target" \notin straddled' => config'.target = saved'.target
                /\ "name" \notin straddled' => config'.name = saved'.name
                /\ "setting" \notin straddled' => config'.setting = saved'.setting
      /\ (\A k \in Keys : k \notin straddled' => learner'.loaded[k] = saved'[k])
            <=> /\ "target" \notin straddled' => learner'.loaded.target = saved'.target
                /\ "name" \notin straddled' => learner'.loaded.name = saved'.name
                /\ "setting" \notin straddled' => learner'.loaded.setting = saved'.setting
  BY ByKeyNext
<1> USE DEF InventoryInv, Found, Configs, KeyByKey
<1>1. CASE SaveSetting
  BY <1>0, <1>k, <1>1 DEF SaveSetting, SaveKey
<1>2. CASE LoadNames
  BY <1>0, <1>k, <1>2 DEF LoadNames
<1>3. CASE SaveName
  BY <1>0, <1>k, <1>3 DEF SaveName, NoLearner
<1>4. CASE NameIsKnown
  BY <1>0, <1>k, <1>4 DEF NameIsKnown, NoLearner
<1>5. ASSUME NEW a \in Targets \cup {NoApp}, AssetsScan(a) PROVE InventoryInv'
  BY <1>0, <1>k, <1>5 DEF AssetsScan, NoBuild
<1>6. CASE BuildFails
  BY <1>0, <1>k, <1>6 DEF BuildFails, EndBuild, NoBuild, Nothing
<1>7. CASE BuildLands
  BY <1>0, <1>k, <1>7 DEF BuildLands
<1>8. CASE RememberTarget
  BY <1>0, <1>k, <1>8 DEF RememberTarget, SaveKey
<1>9. CASE SaveArchive
  BY <1>0, <1>k, <1>9 DEF SaveArchive, EndBuild, NoBuild, Nothing
<1>10. CASE RestartShell
  BY <1>0, <1>k, <1>10 DEF RestartShell, RestoredFor, NoBuild, Nothing, NoLearner
<1>11. CASE UNCHANGED inventoryVars
  BY <1>0, <1>k, <1>11 DEF inventoryVars
<1> QED
  BY <1>1, <1>2, <1>3, <1>4, <1>5, <1>6, <1>7, <1>8, <1>9, <1>10, <1>11 DEF InventoryNext

\* A restart finds the inventory the page shows, and a saved key stays saved
\* unless a learned name straddled it (audit.go, NewAuditService).
THEOREM InventorySurvives == InventorySpec => []InventoryIsKept
<1>1. InventoryInv => InventoryIsKept
  BY DEF InventoryInv, InventoryIsKept, RestartFindsInventory, OnlyStraddledSavesAreLost,
         Found, NoBuild
<1> QED
  BY InventoryInitially, InventoryStep, <1>1, PTL DEF InventorySpec

=============================================================================
