--------------------------- MODULE ConsoleSources ---------------------------
(* The two sources of the console capture, as the CDP bridge decides which *)
(* one reports (cdp-bridge.ts, with installHook of app.ts and the install  *)
(* of core/hooks/console.js): the hook in the page records what it wraps,  *)
(* the CDP events of a connection report what the page does not cover.     *)
(*                                                                         *)
(* The Core serves one request at a time, so no two installs overlap and   *)
(* the lock does not move under one; connections come and go, and realms   *)
(* are rebuilt, at any time.  What runs between two awaits is one step;    *)
(* but the socket hands over every frame of a chunk before a continuation  *)
(* runs, so further frames can be read before an answer is used.           *)
EXTENDS Naturals, Sequences

CONSTANTS
    MaxLinks,      \* bound: connections made
    MaxOccasions   \* bound: what users, pages and timeouts start

ASSUME ConsoleSourcesSizes == MaxLinks \in Nat /\ MaxOccasions \in Nat

VARIABLES
    pin,       \* [on, who]: lockEnabled, lockedClientId (0: undefined)
    link,      \* per connection: whether it is open, set up, asked to enable
    cover,     \* consolePageErrors, consolePageFull; stale: see FinishInstall
    world,     \* the realm behind a connection and the frames both ways
    hookup,    \* the hook.install(console) under way
    tally      \* the generations, the bounds, and what was lost

sourceVars == <<pin, link, cover, world, hookup, tally>>

Links == 1 .. MaxLinks
NoLink == [open |-> FALSE, ready |-> FALSE, mark |-> "no"]
NoWorld == [wraps |-> FALSE, script |-> FALSE, calls |-> FALSE, errors |-> FALSE,
            live |-> FALSE, out |-> <<>>, in |-> <<>>]
NoHookup == [stage |-> "none", id |-> 0, from |-> 0, full |-> FALSE, gen |-> 0, late |-> FALSE]
NoCover == [errors |-> FALSE, full |-> FALSE, stale |-> FALSE]

SourcesInit ==
    /\ pin = [on |-> TRUE, who |-> 0]
    /\ link = [c \in Links |-> NoLink] /\ world = [c \in Links |-> NoWorld]
    /\ cover = NoCover /\ hookup = NoHookup
    /\ tally = [links |-> 0, spent |-> 0, ids |-> 0, gen |-> 0, hookedAt |-> 0,
                refreshed |-> FALSE, lost |-> FALSE]

OpenLinks == {c \in Links : link[c].open}
Pinned(c) == pin.on /\ pin.who = c
Excluded(c) == pin.on /\ pin.who \notin {0, c}
\* sendToActive: the locked connection, or every one while none is locked.
Routed == IF pin.who \in OpenLinks THEN {pin.who} ELSE OpenLinks
\* The continuation of an answer that was read runs before any other event.
Idle == hookup.stage # "answered"
Occasion == Idle /\ tally.spent < MaxOccasions
Spent(t) == [t EXCEPT !.spent = @ + 1]
\* A command: the evaluation it belongs to, or the connection it enables.
Sent(w, op, id) == [w EXCEPT !.out = Append(@, [op |-> op, id |-> id])]

-----------------------------------------------------------------------------
(* Connections and the lock                                                *)

\* The target sets its context up first of all.
AddLink(wraps) ==
    /\ Idle /\ tally.links < MaxLinks
    /\ LET c == tally.links + 1 IN
       /\ link' = [link EXCEPT ![c].open = TRUE]
       /\ world' = [world EXCEPT ![c].wraps = wraps, ![c].in = <<[op |-> "rebuilt"]>>]
       /\ pin' = IF pin.on /\ pin.who = 0 THEN [pin EXCEPT !.who = c] ELSE pin
       /\ tally' = [tally EXCEPT !.links = c]
    /\ UNCHANGED <<cover, hookup>>

RemoveLink(c) ==
    /\ Occasion /\ c \in OpenLinks
    /\ link' = [link EXCEPT ![c] = NoLink] /\ world' = [world EXCEPT ![c] = NoWorld]
    /\ IF pin.who = c THEN pin' = [pin EXCEPT !.who = 0] /\ cover' = NoCover
       ELSE UNCHANGED <<pin, cover>>
    /\ tally' = Spent(tally) /\ UNCHANGED hookup

\* enableConsoleEvents: once per connection, on the connection itself.
EnableConsoleEvents(c, l, w) ==
    IF l[c].mark # "no" THEN link' = l /\ world' = w
    ELSE /\ link' = [l EXCEPT ![c].mark = "asked"]
         /\ world' = [w EXCEPT ![c] = Sent(@, "enable", c)]

\* The request fails, or is not answered within eight seconds.
EnableExpires(c) ==
    /\ Occasion /\ link[c].mark = "asked"
    /\ link' = [link EXCEPT ![c].mark = "no"]
    /\ tally' = Spent(tally) /\ UNCHANGED <<pin, cover, world, hookup>>

\* miniapp.switch: another target is another generation, whose page nobody
\* has covered yet.  Requests wait for the install under way.
SwitchLink(c) ==
    /\ Occasion /\ hookup.stage = "none" /\ c \in OpenLinks
    /\ pin' = [on |-> TRUE, who |-> c]
    /\ cover' = IF pin.who # c THEN NoCover ELSE cover
    /\ EnableConsoleEvents(c, link, world)
    /\ tally' = Spent([tally EXCEPT !.gen = IF pin.who # c THEN @ + 1 ELSE @])
    /\ UNCHANGED hookup

\* miniapp.setLock: unlocking forgets the target, locking without one pins the
\* newest connection.
SetPin(on) ==
    /\ Occasion /\ hookup.stage = "none"
    /\ LET newest == CHOOSE c \in OpenLinks : \A d \in OpenLinks : d <= c
           pins == on /\ pin.who = 0 /\ OpenLinks # {}
       IN
       /\ pin' = [on |-> on, who |-> IF ~ on THEN 0 ELSE IF pins THEN newest ELSE pin.who]
       /\ cover' = IF ~ on \/ pins THEN NoCover ELSE cover
       /\ tally' = Spent([tally EXCEPT !.gen = IF pins THEN @ + 1 ELSE @])
    /\ UNCHANGED <<link, world, hookup>>

-----------------------------------------------------------------------------
(* hook.install of the console hook                                        *)

\* An evaluation goes to every routed connection; the first answer counts.
EvaluateAll(op, w, stage) ==
    /\ world' = [c \in Links |-> IF c \in Routed THEN Sent(w[c], op, tally.ids + 1) ELSE w[c]]
    /\ hookup' = [hookup EXCEPT !.stage = stage, !.id = tally.ids + 1,
                                !.gen = IF stage = "script" THEN tally.gen ELSE @]

BeginInstall ==
    /\ Occasion /\ hookup.stage = "none" /\ OpenLinks # {}
    /\ EvaluateAll("script", world, "script")
    /\ tally' = Spent([tally EXCEPT !.ids = @ + 1])
    /\ UNCHANGED <<pin, link, cover>>

InstallExpires ==
    /\ Occasion /\ hookup.stage \in {"script", "surface"}
    /\ hookup' = NoHookup
    /\ tally' = Spent(tally) /\ UNCHANGED <<pin, link, cover, world>>

\* setConsolePageCoverage.  When the realm was set up anew between the answer
\* and its use, the coverage of a realm that is gone is taken over: stale.
FinishInstall ==
    /\ hookup.stage = "answered"
    /\ cover' = [errors |-> TRUE, full |-> hookup.full, stale |-> hookup.late]
    /\ tally' = [tally EXCEPT !.hookedAt = hookup.gen, !.refreshed = FALSE]
    /\ hookup' = NoHookup /\ UNCHANGED <<pin, link, world>>

-----------------------------------------------------------------------------
(* The target                                                              *)

\* It executes a command.  install() throws when no script was evaluated, and
\* wraps the console when the page lets it; errors are hooked in any case, and
\* the answer says whether every call is.
ExecuteNext(c, ok) ==
    /\ Idle /\ c \in OpenLinks /\ world[c].out # <<>>
    /\ LET do == Head(world[c].out)
           w == world[c]
           works == ok /\ (do.op = "surface" => w.script)
           calls == w.calls \/ (do.op = "surface" /\ works /\ w.wraps)
       IN world' = [world EXCEPT ![c] = [w EXCEPT
            !.out = Tail(@),
            !.live = @ \/ (do.op = "enable" /\ ok),
            !.script = @ \/ (do.op = "script" /\ ok),
            !.calls = calls,
            !.errors = @ \/ (do.op = "surface" /\ works),
            !.in = Append(@, [op |-> do.op, id |-> do.id, ok |-> works, full |-> calls])]]
    /\ IF ok THEN UNCHANGED tally ELSE tally.spent < MaxOccasions /\ tally' = Spent(tally)
    /\ UNCHANGED <<pin, link, cover, hookup>>

\* A console call or an uncaught error: the hook records it if it wraps it,
\* and a target whose Runtime is enabled sends the event too.
Emit(c, kind) ==
    /\ Occasion /\ c \in OpenLinks
    /\ world[c].live
    /\ LET recorded == IF kind = "call" THEN world[c].calls ELSE world[c].errors
       IN  world' = [world EXCEPT ![c].in =
             Append(@, [op |-> "event", kind |-> kind, recorded |-> recorded])]
    /\ tally' = Spent(tally) /\ UNCHANGED <<pin, link, cover, hookup>>

\* A reload: the hooks of the page are gone, the enabled domain stays.
RebuildWorld(c, wraps) ==
    /\ Occasion /\ c \in OpenLinks
    /\ world' = [world EXCEPT ![c] = [NoWorld EXCEPT
           !.wraps = wraps, !.live = world[c].live, !.out = world[c].out,
           !.in = Append(world[c].in, [op |-> "rebuilt"])]]
    /\ tally' = Spent(tally) /\ UNCHANGED <<pin, link, cover, hookup>>

-----------------------------------------------------------------------------
(* receiveMiniapp                                                          *)

Next1(c) == Head(world[c].in)
Read(c) == [world EXCEPT ![c].in = Tail(@)]
Readable(c) == world[c].in # <<>> /\ (Idle \/ hookup.from = c)

\* setupContext: whatever page it is, no coverage survives it.  Only the
\* active realm is a new generation.
ReadRebuilt(c) ==
    /\ Readable(c) /\ Next1(c).op = "rebuilt"
    /\ cover' = NoCover
    /\ pin' = pin
    /\ EnableConsoleEvents(c, [link EXCEPT ![c].ready = TRUE], Read(c))
    /\ hookup' = [hookup EXCEPT !.late = hookup.stage = "answered"]
    /\ tally' = [tally EXCEPT !.gen = IF Excluded(c) THEN @ ELSE @ + 1,
                              !.refreshed = @ \/ Excluded(c)]

\* forwardConsoleEvent: what the page covers is not reported again.
ReadEvent(c) ==
    /\ Readable(c) /\ Next1(c).op = "event"
    /\ world' = Read(c)
    /\ LET covered == IF Next1(c).kind = "call" THEN cover.full ELSE cover.errors
       IN  tally' = [tally EXCEPT !.lost = @ \/
             (Pinned(c) /\ covered /\ ~ Next1(c).recorded /\ ~ cover.stale)]
    /\ UNCHANGED <<pin, link, cover, hookup>>

\* An answer nobody waits for, or of a connection the lock excludes, is
\* dropped; the answer to the script is followed by the surface.
ReadReply(c) ==
    LET reply == Next1(c)
        awaited == reply.id = hookup.id /\ hookup.stage = reply.op
    IN
    /\ Readable(c) /\ reply.op \in {"enable", "script", "surface"}
    /\ IF Excluded(c) THEN world' = Read(c) /\ UNCHANGED <<link, hookup, tally>>
       ELSE IF reply.op = "enable"
       THEN /\ link' = [link EXCEPT ![reply.id].mark =
                  IF @ # "asked" THEN @ ELSE IF reply.ok THEN "yes" ELSE "no"]
            /\ world' = Read(c) /\ UNCHANGED <<hookup, tally>>
       ELSE IF ~ awaited THEN world' = Read(c) /\ UNCHANGED <<link, hookup, tally>>
       ELSE IF ~ reply.ok
       THEN hookup' = NoHookup /\ world' = Read(c) /\ UNCHANGED <<link, tally>>
       ELSE IF reply.op = "script"
       THEN EvaluateAll("surface", Read(c), "surface")
            /\ tally' = [tally EXCEPT !.ids = @ + 1] /\ UNCHANGED link
       ELSE /\ hookup' = [hookup EXCEPT !.stage = "answered", !.from = c, !.full = reply.full]
            /\ world' = Read(c) /\ UNCHANGED <<link, tally>>
    /\ UNCHANGED <<pin, cover>>

SourcesNext ==
    \/ \E b \in BOOLEAN : AddLink(b) \/ SetPin(b)
    \/ BeginInstall \/ InstallExpires \/ FinishInstall
    \/ \E c \in Links :
          \/ RemoveLink(c) \/ SwitchLink(c) \/ EnableExpires(c)
          \/ ReadRebuilt(c) \/ ReadEvent(c) \/ ReadReply(c)
          \/ \E b \in BOOLEAN : ExecuteNext(c, b) \/ RebuildWorld(c, b)
          \/ \E kind \in {"call", "error"} : Emit(c, kind)

(* The two sources by themselves.                                          *)
SourcesSpec == SourcesInit /\ [][SourcesNext]_sourceVars

-----------------------------------------------------------------------------
(* Properties                                                              *)

\* Every variable has its type.
SourcesTypeOK ==
    /\ pin \in [on : BOOLEAN, who : 0 .. MaxLinks]
    /\ \A c \in Links : link[c].mark \in {"no", "asked", "yes"}
    /\ cover \in [errors : BOOLEAN, full : BOOLEAN, stale : BOOLEAN]
    /\ hookup.stage \in {"none", "script", "surface", "answered"}
    /\ tally.spent \in 0 .. MaxOccasions

\* An event of the locked miniapp that the bridge keeps to itself was recorded
\* by the page: nothing goes unreported (setConsolePageCoverage and the resets
\* of the coverage), but for an answer that is used after its realm is gone.
NothingUnreported == ~ tally.lost

\* While the locked page records what the bridge reports as well, the
\* generation has moved since the last install, so that the shell installs
\* again and the doubles end; a background refresh is the exception.
DoublesAreNoticed ==
    \A c \in OpenLinks :
        Pinned(c) /\ hookup.stage = "none" /\ world[c].in = <<>> /\ world[c].errors
          /\ ~ cover.errors /\ ~ tally.refreshed /\ tally.hookedAt # 0
        => tally.gen # tally.hookedAt

\* A connection whose enabling was acknowledged sends its events, whoever was
\* locked when it was asked (enableConsoleEvents).
EnabledIsLive == \A c \in OpenLinks : link[c].mark = "yes" => world[c].live

ConsoleHeard == NothingUnreported /\ DoublesAreNoticed /\ EnabledIsLive
=============================================================================
