----------------------------- MODULE H5Sessions -----------------------------
(* The debugging windows of H5 pages (h5-sessions.ts): a window attaches a  *)
(* session to one web page of the locked miniapp, forwards its events, and  *)
(* must give the session back. Replies and events of the target are read    *)
(* before the bridge's main channel, which must never see one of them.      *)
(*                                                                          *)
(* One source and one page. `h5` is the state of the class, changed in one  *)
(* step by each frame with everything it resumes; `target` is the browser's   *)
(* side: commands it has not executed, frames not read, sessions that live. *)
EXTENDS Naturals, Sequences, FiniteSets, SequencesExt

CONSTANTS
    Windows,      \* sockets of windows, each opened once
    MaxRetired,   \* 4096: tombstones of closed sessions kept per source
    MaxRequests,  \* bound: commands sent
    MaxSessions,  \* bound: sessions the browser makes
    MaxHappenings     \* bound: what users and the page start, replies lost

ASSUME H5Sizes ==
    /\ IsFiniteSet(Windows)
    /\ {MaxRetired, MaxRequests, MaxSessions, MaxHappenings} \subseteq Nat

VARIABLES h5, target, happened

h5Vars == <<h5, target, happened>>

Sessions == 1..MaxSessions

\* An entry: a member of `entries` while `in`; `stage` is what initialize
\* awaits; `detaching` the detach request its close loop awaits (0: none).
NoEntry == [used |-> FALSE, in |-> FALSE, stage |-> "none", root |-> 0, extra |-> {},
            closed |-> FALSE, attachPending |-> FALSE, targetGone |-> FALSE, detaching |-> 0]

H5Init ==
    /\ h5 = [entry |-> [w \in Windows |-> NoEntry], pending |-> {}, retired |-> {},
             destroyed |-> FALSE, exhausted |-> FALSE, ids |-> 0, sent |-> <<>>]
    /\ target = [dead |-> FALSE, live |-> {}, made |-> 0, ours |-> {}, in |-> <<>>]
    /\ happened = [events |-> 0, leaked |-> FALSE, mistaken |-> FALSE]

Happens == happened.events < MaxHappenings
Counted == happened' = [happened EXCEPT !.events = @ + 1]

-----------------------------------------------------------------------------
(* Requests, tombstones and the close loop, as functions of the state *)

Request(h, w, method, s) == [h EXCEPT
    !.ids = @ + 1,
    !.pending = @ \cup {[id |-> h.ids + 1, w |-> w, method |-> method, s |-> s, late |-> FALSE]},
    !.sent = Append(@, [id |-> h.ids + 1, method |-> method, s |-> s]),
    !.entry[w].attachPending = @ \/ method = "attach"]

\* Closing goes on while a session is attached; ownership ends with the last
\* one, unless an attachment is still unanswered.
CloseLoop(h, w) ==
    LET e == h.entry[w] IN
    IF e.extra # {} \/ e.root # 0
    THEN LET s == IF e.extra # {} THEN CHOOSE x \in e.extra : TRUE ELSE e.root
         IN Request([h EXCEPT !.entry[w].detaching = h.ids + 1], w, "detach", s)
    ELSE [h EXCEPT !.entry[w].detaching = 0, !.entry[w].in = @ /\ e.attachPending]

\* close: only attachments and detachments stay awaited.
CloseWindow(h, w) ==
    IF h.entry[w].detaching # 0 THEN h
    ELSE CloseLoop([h EXCEPT
            !.entry[w].closed = TRUE,
            !.entry[w].stage = "closed",
            !.pending = {p \in @ : p.w # w \/ p.method \in {"attach", "detach"}}], w)

Owners(h) == {w \in Windows : h.entry[w].in}
CloseAll(h) == FoldSet(LAMBDA w, acc : CloseWindow(acc, w), h, Owners(h))

\* A tombstone is never evicted: at the limit every window is closed, and the
\* source's session frames are swallowed until it reconnects. Of several, the
\* oldest are kept.
RetireIds(h, S) ==
    LET fit == {s \in S : Cardinality(h.retired \cup {x \in S : x <= s}) <= MaxRetired}
        r == [h EXCEPT !.retired = @ \cup fit]
    IN IF S \subseteq r.retired \/ h.exhausted THEN r
       ELSE CloseAll([r EXCEPT !.exhausted = TRUE])

\* The session s of w is gone: confirmed by a reply or by an event.
Released(h, w, s) ==
    LET r == RetireIds(h, {s}) IN
    [r EXCEPT !.entry[w].extra = @ \ {s},
              !.entry[w].attachPending = @ /\ r.entry[w].root # s,
              !.entry[w].root = IF @ = s THEN 0 ELSE @]

\* A detach request of w for s that is awaited is confirmed without its reply.
ConfirmDetach(h, w, s) ==
    LET mine == {p \in h.pending : p.w = w /\ p.method = "detach" /\ p.s = s} IN
    IF mine = {} THEN h ELSE CloseLoop([h EXCEPT !.pending = @ \ mine], w)

-----------------------------------------------------------------------------
(* What users do *)

Open(w) ==
    /\ ~ h5.entry[w].used /\ ~ h5.exhausted /\ Owners(h5) = {}
    /\ h5.ids < MaxRequests
    /\ h5' = Request([h5 EXCEPT !.entry[w] =
                 [NoEntry EXCEPT !.used = TRUE, !.in = TRUE, !.stage = "targets"]], w, "targets", 0)
    /\ UNCHANGED <<target, happened>>

\* The window is closed.
Disconnect(w) ==
    /\ Happens /\ h5.entry[w].in
    /\ h5' = CloseWindow(h5, w)
    /\ Counted /\ UNCHANGED target

\* closeTarget retries a release; an unanswered attachment cannot be released.
CloseTarget(w) ==
    /\ Happens /\ h5.entry[w].in
    /\ ~ (h5.entry[w].attachPending /\ h5.entry[w].root = 0)
    /\ h5' = CloseWindow(h5, w)
    /\ Counted /\ UNCHANGED target

\* The source's realm is rebuilt, or the lock leaves it.
InvalidateSource ==
    /\ Happens /\ Owners(h5) # {}
    /\ h5' = CloseAll(h5)
    /\ Counted /\ UNCHANGED target

\* As a bug would have it: an attachment is given up like any other request.
TimesOutAlike(p) ==
    /\ Happens /\ ~ p.late
    /\ h5' = IF p.method = "detach"
             THEN [h5 EXCEPT !.pending = @ \ {p}, !.entry[p.w].detaching = 0]
             ELSE CloseWindow([h5 EXCEPT !.pending = @ \ {p},
                                   !.entry[p.w].attachPending = FALSE], p.w)
    /\ Counted /\ UNCHANGED target

\* A request is given up; an attachment stays tracked until its late reply.
TimesOut(p) ==
    /\ Happens /\ ~ p.late
    /\ h5' = CASE p.method = "detach" ->
                    [h5 EXCEPT !.pending = @ \ {p}, !.entry[p.w].detaching = 0]
               [] p.method = "attach" /\ ~ h5.entry[p.w].targetGone ->
                    CloseWindow([h5 EXCEPT !.pending = (@ \ {p}) \cup {[p EXCEPT !.late = TRUE]}], p.w)
               [] OTHER -> CloseWindow([h5 EXCEPT !.pending = @ \ {p}], p.w)
    /\ Counted /\ UNCHANGED target

-----------------------------------------------------------------------------
(* receive: replies *)

\* The reply of an attachment: its session is the entry's root, another one it
\* had becomes an extra root; a window closed meanwhile gives it back.
Attached(h, p, frame) ==
    LET e == h.entry[p.w]
        fresh == frame.ok /\ frame.s \notin h.retired
        h1 == [h EXCEPT !.entry[p.w].attachPending = FALSE]
        h2 == IF fresh
              THEN [h1 EXCEPT
                      !.entry[p.w].extra = IF e.root \notin {0, frame.s} THEN @ \cup {e.root} ELSE @,
                      !.entry[p.w].root = frame.s,
                      !.entry[p.w].in = @ \/ e.closed]
              ELSE h1
    IN IF e.targetGone THEN IF frame.ok THEN RetireIds(h1, {frame.s}) ELSE h1
       ELSE IF e.closed \/ p.late \/ ~ fresh THEN CloseWindow(h2, p.w)
       ELSE Request([h2 EXCEPT !.entry[p.w].stage = "info"], p.w, "info", frame.s)

Replied(h, p, frame) ==
    CASE p.method = "attach" -> Attached(h, p, frame)
      [] p.method = "targets" /\ frame.ok ->
            Request([h EXCEPT !.entry[p.w].stage = "attach"], p.w, "attach", 0)
      [] p.method = "info" /\ frame.ok -> [h EXCEPT !.entry[p.w].stage = "connected"]
      [] p.method = "detach" /\ frame.ok -> CloseLoop(Released(h, p.w, p.s), p.w)
      [] p.method = "detach" /\ ~ frame.ok -> [h EXCEPT !.entry[p.w].detaching = 0]
      [] OTHER -> CloseWindow(h, p.w)

(* receive: events *)

\* The page's session s was attached, by a request or by somebody else: an
\* entry adopts its first session, and gives every other one back.
SessionAttached(h, w, s) ==
    LET e == h.entry[w]
        again == e.root \notin {0, s}
        h1 == IF again THEN [h EXCEPT !.entry[w].extra = @ \cup {s}]
              ELSE [h EXCEPT !.entry[w].root = s]
    IN IF again \/ e.closed THEN CloseWindow(h1, w) ELSE h1

SessionDetached(h, w, s) ==
    IF s \in h.entry[w].extra
    THEN ConfirmDetach(RetireIds([h EXCEPT !.entry[w].extra = @ \ {s}], {s}), w, s)
    ELSE CloseWindow(ConfirmDetach(Released(h, w, s), w, s), w)

\* The page is gone: so are its sessions, whatever is awaited for them.
Forgets(h, w) ==
    LET mine == {p \in h.pending : p.w = w /\ p.method = "detach"}
        free == [h EXCEPT !.entry[w].extra = {}, !.entry[w].root = 0, !.pending = @ \ mine]
    IN CloseWindow(IF mine = {} THEN free ELSE CloseLoop(free, w), w)

TargetDestroyed(h, w) ==
    LET e == h.entry[w] IN
    Forgets(RetireIds([h EXCEPT !.destroyed = TRUE, !.entry[w].targetGone = TRUE,
                                !.entry[w].attachPending = FALSE],
                      (e.extra \cup {e.root}) \ {0}), w)

\* The main channel takes what `receive` does not: nothing of a session of ours.
Leaks(s) == happened' = [happened EXCEPT !.leaked = @ \/ s \in target.ours]
Stays == UNCHANGED happened

\* An entry that awaits its attachment takes a session somebody else made for
\* the one it asked for, and counts itself answered when that one ends.
Mistakes(w, s) == happened' = [happened EXCEPT !.mistaken =
    @ \/ (h5.entry[w].root = 0 /\ s \notin target.ours)]

ReceiveFrame ==
    /\ target.in # <<>> /\ h5.ids + 2 <= MaxRequests
    /\ target' = [target EXCEPT !.in = Tail(@)]
    /\ LET frame == Head(target.in)
           s == frame.s
           known == {w \in Owners(h5) : h5.entry[w].root = s \/ s \in h5.entry[w].extra}
       IN
       \/ /\ frame.op = "reply"
          /\ \E p \in h5.pending :
                p.id = frame.id /\ h5' = Replied([h5 EXCEPT !.pending = @ \ {p}], p, frame)
          /\ Stays
       \/ /\ frame.op = "reply" /\ \A p \in h5.pending : p.id # frame.id
          /\ Stays /\ UNCHANGED h5
       \/ /\ frame.op # "reply" /\ s \in h5.retired
          /\ Stays /\ UNCHANGED h5
       \/ /\ frame.op = "attached" /\ s \notin h5.retired
          /\ IF h5.destroyed THEN Stays /\ h5' = RetireIds(h5, {s})
             ELSE IF Owners(h5) = {}
             THEN UNCHANGED h5 /\ (IF h5.exhausted THEN Stays ELSE Leaks(s))
             ELSE \E w \in Owners(h5) :
                    h5' = SessionAttached(h5, w, s) /\ Mistakes(w, s)
       \/ /\ frame.op \in {"detached", "event"} /\ s \notin h5.retired /\ known = {}
          /\ UNCHANGED h5 /\ (IF h5.exhausted THEN Stays ELSE Leaks(s))
       \/ /\ frame.op = "detached" /\ s \notin h5.retired
          /\ Stays /\ \E w \in known : h5' = SessionDetached(h5, w, s)
       \/ /\ frame.op = "event" /\ s \notin h5.retired /\ known # {}
          /\ Stays /\ UNCHANGED h5
       \/ /\ frame.op = "destroyed"
          /\ Stays
          /\ IF Owners(h5) = {} THEN UNCHANGED h5
             ELSE \E w \in Owners(h5) : h5' = TargetDestroyed(h5, w)

-----------------------------------------------------------------------------
(* The browser *)

Frame(op, id, ok, s) == [op |-> op, id |-> id, ok |-> ok, s |-> s]
Either(a, b) == {<<a, b>>, <<b, a>>}

\* Commands run in order; a reply and the event of the same change come in
\* either order.
BrowserExecutes ==
    /\ h5.sent # <<>>
    /\ h5' = [h5 EXCEPT !.sent = Tail(@)]
    /\ LET do == Head(h5.sent)
           next == target.made + 1
           found == do.method = "targets" /\ ~ target.dead
       IN
       \/ /\ do.method = "attach" /\ ~ target.dead /\ next \in Sessions
          /\ \E two \in Either(Frame("attached", 0, TRUE, next), Frame("reply", do.id, TRUE, next)) :
                target' = [target EXCEPT !.made = next, !.live = @ \cup {next},
                                     !.ours = @ \cup {next}, !.in = @ \o two]
       \/ /\ do.method = "detach" /\ do.s \in target.live
          /\ \E two \in Either(Frame("detached", 0, TRUE, do.s), Frame("reply", do.id, TRUE, 0)) :
                target' = [target EXCEPT !.live = @ \ {do.s}, !.in = @ \o two]
       \/ /\ do.method \in {"targets", "info"} \/ target.dead \/ do.s \notin target.live
          /\ do.method = "attach" => target.dead
          /\ target' = [target EXCEPT !.in = Append(@,
                 Frame("reply", do.id, found \/ (do.method = "info" /\ do.s \in target.live), 0))]
    /\ UNCHANGED happened

\* A session of the page is ended by the browser; it says something; somebody
\* else attaches; the page is closed.
PageActs ==
    /\ Happens
    /\ \/ \E s \in target.live : target' = [target EXCEPT
              !.live = @ \ {s}, !.in = Append(@, Frame("detached", 0, TRUE, s))]
       \/ \E s \in target.live : target' = [target EXCEPT !.in = Append(@, Frame("event", 0, TRUE, s))]
       \/ /\ target.made < MaxSessions /\ ~ target.dead
          /\ target' = [target EXCEPT !.made = @ + 1, !.live = @ \cup {target.made + 1},
                                  !.in = Append(@, Frame("attached", 0, TRUE, target.made + 1))]
       \/ /\ ~ target.dead
          /\ target' = [target EXCEPT !.dead = TRUE, !.live = {},
                                  !.in = Append(@, Frame("destroyed", 0, TRUE, 0))]
    /\ Counted /\ UNCHANGED h5

H5Next ==
    \/ \E w \in Windows : Open(w) \/ Disconnect(w) \/ CloseTarget(w)
    \/ InvalidateSource
    \/ \E p \in h5.pending : TimesOut(p)
    \/ ReceiveFrame
    \/ BrowserExecutes
    \/ PageActs

-----------------------------------------------------------------------------
(* Properties *)

\* Every variable has its type.
H5TypeOK ==
    /\ \A w \in Windows :
          /\ h5.entry[w].root \in Sessions \cup {0}
          /\ h5.entry[w].extra \subseteq Sessions
    /\ h5.retired \subseteq Sessions /\ Cardinality(h5.retired) <= MaxRetired
    /\ h5.ids \in 0..MaxRequests
    /\ target.live \subseteq Sessions
    /\ happened.events \in 0..MaxHappenings

\* A page no window owns has no session of ours, nor will it have one: it can
\* be attached again without orphaning any (close, request, receive).
NothingIsOrphaned ==
    Owners(h5) = {} =>
        /\ target.live \cap target.ours = {}
        /\ target.dead \/ \A i \in 1..Len(h5.sent) : h5.sent[i].method # "attach"

\* One window owns the page, even when a late reply revives a closed one.
OneOwner == Cardinality(Owners(h5)) <= 1

\* A window shown as connected has its session, or a frame the bridge has not
\* read says that it ended.
ConnectedIsAttached ==
    \A w \in Windows :
        h5.entry[w].stage = "connected" =>
            \/ h5.entry[w].root \in target.live
            \/ \E i \in 1..Len(target.in) :
                  \/ target.in[i].op = "destroyed"
                  \/ target.in[i].op = "detached" /\ target.in[i].s = h5.entry[w].root

\* No frame of a window's session, late or not, reaches the main channel.
NothingLeaks == ~ happened.leaked

\* The windows keep to themselves, as long as nobody else attaches the page
\* while a window awaits its own attachment (`mistaken`: the code cannot tell
\* whose session it is then).
H5IsIsolated ==
    ~ happened.mistaken =>
        NothingIsOrphaned /\ OneOwner /\ ConnectedIsAttached /\ NothingLeaks
=============================================================================
