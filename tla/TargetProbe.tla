----------------------------- MODULE TargetProbe -----------------------------
(* Verifying an H5 target through a temporary session of its own: probeTarget *)
(* of cdp-bridge.ts, the release of what it attached, and what              *)
(* receiveMiniapp does with the frames about it.                            *)
(*                                                                          *)
(* The Core serves one request at a time, so one probe runs at a time; the   *)
(* releases scheduled for late frames run beside it, and connections, the   *)
(* lock and the page generation change between its awaits.  What runs       *)
(* between two awaits is one step; but the socket hands over every frame of *)
(* a chunk before a continuation runs (`ready`).                            *)
(*                                                                          *)
(* All probes are of one H5 page per connection; the DevTools may attach to *)
(* it as well, with sessions of their own. The cap of 128 retired sessions  *)
(* is left out.                                                             *)
EXTENDS Naturals, FiniteSets, SequencesExt

CONSTANTS
    MaxPeerLinks,  \* bound: connections made
    MaxAttached,   \* bound: sessions attached, ours and the DevTools'
    MaxProbes,     \* bound: probes asked for
    MaxTroubles    \* bound: timeouts, refusals, and what pages and users do

ASSUME ProbeSizes ==
    /\ MaxPeerLinks \in Nat /\ MaxAttached \in Nat
    /\ MaxProbes \in Nat /\ MaxTroubles \in Nat

VARIABLES
    lockState,  \* the locked connection (0: undefined) and the page generation
    origin,     \* per connection: whether it is open, its entries in
                \* probeSessions and retiredProbeSessions
    await,      \* the isolated commands in `pending`, and the answered ones
                \* whose continuation has yet to run
    attachment, \* probeAttachments: the attach commands without a reply
    probe,      \* the probe that is served
    browser,    \* the sessions attached and the frames both ways
    ledger      \* the bounds, and what probes were told

probeVars == <<lockState, origin, await, attachment, probe, browser, ledger>>

PeerIds == 1 .. MaxPeerLinks
NoProbePeer == [open |-> FALSE, session |-> 0, retired |-> {}]
NoProbe == [stage |-> "none", client |-> 0, gen |-> 0, session |-> 0, failed |-> FALSE]

ProbeInit ==
    /\ lockState = [who |-> 0, gen |-> 0]
    /\ origin = [c \in PeerIds |-> NoProbePeer]
    /\ await = [pending |-> {}, ready |-> <<>>]
    /\ attachment = {} /\ probe = NoProbe
    /\ browser = [c \in PeerIds |-> [live |-> {}, foreign |-> {}, owed |-> <<>>,
                                 out |-> <<>>, in |-> <<>>]]
    /\ ledger = [links |-> 0, probes |-> 0, ids |-> 0, attached |-> 0, troubles |-> 0,
                 lied |-> FALSE, mistaken |-> FALSE]

Calm == await.ready = <<>>
Trouble == ledger.troubles < MaxTroubles
Troubled(l) == [l EXCEPT !.troubles = @ + 1]

\* sendCommandTo, isolated: the command goes out and awaits its answer.
\* `e` is the state of the bridge so far: the parts a step works on.
Bridge == [origin |-> origin, await |-> await, attachment |-> attachment,
           probe |-> probe, browser |-> browser, ledger |-> ledger]

SendTo(e, c, op, s, by) ==
    LET id == e.ledger.ids + 1 IN
    [e EXCEPT !.ledger.ids = id,
              !.await.pending = @ \cup {[id |-> id, op |-> op, client |-> c, session |-> s, by |-> by]},
              !.attachment = IF op = "attach"
                             THEN @ \cup {[id |-> id, client |-> c, session |-> 0, released |-> FALSE]}
                             ELSE @,
              !.browser[c].out = Append(@, [id |-> id, op |-> op, session |-> s])]

Becomes(e) ==
    /\ origin' = e.origin /\ await' = e.await /\ attachment' = e.attachment
    /\ probe' = e.probe /\ browser' = e.browser /\ ledger' = e.ledger

\* retireProbeSession, and the attachments it was heard of in.
Retire(e, c, s) ==
    [e EXCEPT !.origin[c].session = IF @ = s THEN 0 ELSE @,
              !.origin[c].retired = @ \cup {s},
              !.attachment = {IF a.client = c /\ a.session = s
                              THEN [a EXCEPT !.released = TRUE] ELSE a : a \in @}]

\* releaseProbeSession after its await: an error counts unless an event has
\* confirmed meanwhile that the session is gone.
ReleaseFails(e, r) ==
    ~ r.ok /\ (~ e.origin[r.client].open \/ e.origin[r.client].session = r.session)
AfterRelease(e, r) == IF ReleaseFails(e, r) THEN e ELSE Retire(e, r.client, r.session)

\* scheduleProbeRelease: not beside a probe, which releases at its end, nor
\* beside another detach.
ScheduleRelease(e, c) ==
    IF \/ e.probe.stage # "none" /\ e.probe.client = c
       \/ \E p \in e.await.pending : p.client = c /\ p.op = "detach"
       \/ e.origin[c].session = 0
    THEN e ELSE SendTo(e, c, "detach", e.origin[c].session, "background")

-----------------------------------------------------------------------------
(* probeTarget                                                              *)

OnTarget == lockState.who = probe.client /\ origin[probe.client].open /\ lockState.gen = probe.gen

\* The end of a probe: what it holds is released.
Finish(e, failed) ==
    LET c == e.probe.client
        f == [e EXCEPT !.probe.failed = @ \/ failed]
    IN  IF e.origin[c].session = 0 \/ ~ e.origin[c].open
        THEN [f EXCEPT !.probe = NoProbe]
        ELSE [SendTo(f, c, "detach", e.origin[c].session, "probe") EXCEPT !.probe.stage = "release"]

Step(e, c, stage, op, s) ==
    IF OnTarget THEN [SendTo(e, c, op, s, "probe") EXCEPT !.probe.stage = stage]
    ELSE Finish(e, TRUE)

Outstanding(e, c) == \E a \in e.attachment : a.client = c

AskTargets(e, c) == IF Outstanding(e, c) THEN Finish(e, TRUE) ELSE Step(e, c, "targets", "targets", 0)

StartProbe(c) ==
    /\ Calm /\ probe.stage = "none" /\ ledger.probes < MaxProbes
    /\ lockState.who = c /\ origin[c].open
    /\ LET e == [Bridge EXCEPT !.ledger.probes = @ + 1,
                    !.probe = [NoProbe EXCEPT !.client = c, !.gen = lockState.gen]]
       IN  Becomes(IF origin[c].session # 0
                   THEN [SendTo(e, c, "detach", origin[c].session, "probe") EXCEPT !.probe.stage = "leftover"]
                   ELSE IF Outstanding(e, c) THEN [e EXCEPT !.probe = NoProbe]
                   ELSE [SendTo(e, c, "targets", 0, "probe") EXCEPT !.probe.stage = "targets"])
    /\ UNCHANGED lockState

\* The session an attach was answered with, unless it is already retired.
Probed(e, c, r) ==
    IF r.session \in e.origin[c].retired THEN Finish(e, TRUE)
    ELSE Step([e EXCEPT !.origin[c].session = r.session, !.probe.session = r.session],
              c, "evaluate", "evaluate", r.session)

\* The probe goes on with the answer it awaited. "verified" and "released" are
\* what it tells its caller.
GoOn(e, r) ==
    LET c == probe.client IN
    CASE probe.stage = "leftover" ->
             IF ReleaseFails(e, r) THEN Finish(e, TRUE) ELSE AskTargets(AfterRelease(e, r), c)
      [] probe.stage = "targets" -> IF r.ok THEN Step(e, c, "attach", "attach", 0) ELSE Finish(e, TRUE)
      [] probe.stage = "attach" -> IF r.ok THEN Probed(e, c, r) ELSE Finish(e, TRUE)
      [] probe.stage = "evaluate" -> Finish(e, ~ r.ok \/ ~ OnTarget)
      [] probe.stage = "release" ->
             LET told == ~ probe.failed /\ ~ ReleaseFails(e, r) IN
             [AfterRelease(e, r) EXCEPT !.probe = NoProbe,
                 !.ledger.lied = @ \/ (told /\ probe.session \in browser[c].live)]

Continue ==
    /\ ~ Calm
    /\ LET r == Head(await.ready)
           e == [Bridge EXCEPT !.await.ready = Tail(@)]
       IN  Becomes(IF r.by = "probe" THEN GoOn(e, r) ELSE AfterRelease(e, r))
    /\ UNCHANGED lockState

\* Commands that get no reply: their continuations run with an error.
Unanswered(e, ps) ==
    [e EXCEPT !.await.pending = @ \ ps,
              !.await.ready = @ \o SetToSeq({[by |-> p.by, client |-> p.client,
                                            session |-> p.session, ok |-> FALSE] : p \in ps})]

TimesOutProbe(p) ==
    /\ Calm /\ Trouble /\ p \in await.pending
    /\ Becomes([Unanswered(Bridge, {p}) EXCEPT !.ledger = Troubled(@)])
    /\ UNCHANGED lockState

-----------------------------------------------------------------------------
(* receiveMiniapp                                                           *)

\* Target.attachedToTarget of a page a probe awaits to be attached to.
HearAttached(e, c, s) ==
    LET awaited == {a \in e.attachment : a.client = c} IN
    IF awaited = {} \/ s \in e.origin[c].retired THEN e
    ELSE LET a == CHOOSE x \in awaited : TRUE IN
         ScheduleRelease([e EXCEPT !.origin[c].session = s,
                             !.ledger.mistaken = @ \/ s \in browser[c].foreign,
                             !.attachment = (@ \ {a}) \cup {[a EXCEPT !.session = s]}], c)

\* As a bug would have it: a late reply brings back what is released.
HearAttachReplyAnyway(e, c, f, a) ==
    [e EXCEPT !.attachment = @ \ {a}, !.origin[c].session = IF f.session = 0 THEN @ ELSE f.session]

\* The reply to an attach: its session is held, unless it is released already.
HearAttachReply(e, c, f, a) ==
    [e EXCEPT !.attachment = @ \ {a},
              !.origin[c].session = IF f.session = 0 \/ (a.released /\ a.session = f.session)
                                  THEN @ ELSE f.session]

\* A reply in the reserved range. One that comes too late for its command
\* leaves its session to be released.
HearReply(e, c, f) ==
    LET attaches == {a \in e.attachment : a.id = f.id}
        asked == {p \in e.await.pending : p.id = f.id}
        d == IF attaches = {} THEN e
             ELSE HearAttachReply(e, c, f, CHOOSE a \in attaches : TRUE)
    IN  IF asked # {}
        THEN LET p == CHOOSE q \in asked : TRUE IN
             [d EXCEPT !.await.pending = @ \ {p},
                       !.await.ready = Append(@, [by |-> p.by, client |-> c, ok |-> f.ok,
                           session |-> IF p.op = "attach" THEN f.session ELSE p.session])]
        ELSE IF attaches # {} /\ f.session # 0 /\ d.origin[c].session = f.session
        THEN ScheduleRelease(d, c) ELSE d

\* Target.detachedFromTarget of the session that is held.
HearDetached(e, c, s) ==
    IF s \in e.origin[c].retired \/ e.origin[c].session # s THEN e
    ELSE Unanswered(Retire(e, c, s),
            {p \in e.await.pending : p.client = c /\ p.op = "evaluate" /\ p.session = s})

HearFrame(c) ==
    /\ browser[c].in # <<>>
    /\ \A k \in DOMAIN await.ready : await.ready[k].client = c
    /\ LET f == Head(browser[c].in)
           e == [Bridge EXCEPT !.browser[c].in = Tail(@)]
       IN  Becomes(CASE f.kind = "reply" -> HearReply(e, c, f)
                     [] f.kind = "attached" -> HearAttached(e, c, f.session)
                     [] f.kind = "detached" -> HearDetached(e, c, f.session))
    /\ UNCHANGED lockState

-----------------------------------------------------------------------------
(* Connections and the lock                                                 *)

LinkPeer ==
    /\ Calm /\ ledger.links < MaxPeerLinks
    /\ LET c == ledger.links + 1 IN
       /\ origin' = [origin EXCEPT ![c].open = TRUE]
       /\ lockState' = [lockState EXCEPT !.who = IF @ = 0 THEN c ELSE @]
       /\ ledger' = [ledger EXCEPT !.links = c]
    /\ UNCHANGED <<await, attachment, probe, browser>>

\* removeMiniapp: everything about it goes, and its sessions with it.
UnlinkPeer(c) ==
    /\ Calm /\ Trouble /\ origin[c].open
    /\ LET e == [Bridge EXCEPT !.origin[c] = NoProbePeer, !.ledger = Troubled(@),
                    !.attachment = {a \in @ : a.client # c},
                    !.browser[c] = [live |-> {}, foreign |-> {}, owed |-> <<>>,
                                 out |-> <<>>, in |-> <<>>]]
       IN  Becomes(Unanswered(e, {p \in await.pending : p.client = c}))
    /\ lockState' = [lockState EXCEPT !.who = IF @ = c THEN 0 ELSE @]

\* The lock is switched, or the page of the locked connection is rebuilt.
PinPeer(c) ==
    /\ Calm /\ Trouble /\ origin[c].open /\ lockState.who # c
    /\ lockState' = [lockState EXCEPT !.who = c]
    /\ ledger' = Troubled(ledger) /\ UNCHANGED <<origin, await, attachment, probe, browser>>

PageRebuilt ==
    /\ Calm /\ Trouble /\ lockState.who # 0
    /\ lockState' = [lockState EXCEPT !.gen = @ + 1]
    /\ ledger' = Troubled(ledger) /\ UNCHANGED <<origin, await, attachment, probe, browser>>

-----------------------------------------------------------------------------
(* The browser                                                              *)

\* Events come before the reply of what caused them, or after it.
Hand(c, b, replies, events) ==
    \E q \in {b.in \o events \o replies, b.in \o replies \o events} :
        browser' = [browser EXCEPT ![c] = [b EXCEPT !.in = q, !.out = Tail(@)]]

Reply(f, ok, s) == <<[kind |-> "reply", id |-> f.id, ok |-> ok, session |-> s]>>
Notice(kind, s) == <<[kind |-> kind, session |-> s]>>

\* A command is carried out, or refused.
Carry(c, ok) ==
    /\ browser[c].out # <<>> /\ (ok \/ Trouble)
    /\ LET f == Head(browser[c].out)
           b == browser[c]
           s == ledger.attached + 1
           held == f.session \in b.live \cup b.foreign
       IN  /\ CASE f.op \in {"attach", "foreign"} /\ ok ->
                      /\ s <= MaxAttached
                      /\ IF f.op = "attach"
                         THEN \/ Hand(c, [b EXCEPT !.live = @ \cup {s}], Reply(f, TRUE, s), Notice("attached", s))
                              \/ Hand(c, [b EXCEPT !.live = @ \cup {s}, !.owed = Reply(f, TRUE, s)],
                                      <<>>, Notice("attached", s))
                         ELSE Hand(c, [b EXCEPT !.foreign = @ \cup {s}], <<>>, Notice("attached", s))
                [] f.op = "foreign" /\ ~ ok -> Hand(c, b, <<>>, <<>>)
                [] f.op = "detach" /\ ok /\ held ->
                      Hand(c, [b EXCEPT !.live = @ \ {f.session}, !.foreign = @ \ {f.session}],
                           Reply(f, TRUE, 0), Notice("detached", f.session))
                [] f.op \in {"detach", "evaluate"} /\ ~ held -> ok /\ Hand(c, b, Reply(f, FALSE, 0), <<>>)
                [] OTHER -> Hand(c, b, Reply(f, ok, 0), <<>>)
           /\ ledger' = [(IF ok THEN ledger ELSE Troubled(ledger)) EXCEPT
                  !.attached = IF ok /\ f.op \in {"attach", "foreign"} THEN s ELSE @]
    /\ UNCHANGED <<lockState, origin, await, attachment, probe>>

\* The reply to an attachment may come any time after the event.
PayReply(c) ==
    /\ browser[c].owed # <<>>
    /\ browser' = [browser EXCEPT ![c].in = @ \o browser[c].owed, ![c].owed = <<>>]
    /\ UNCHANGED <<lockState, origin, await, attachment, probe, ledger>>

\* The page closes, and what was attached to it is detached.
PageCloses(c) ==
    /\ Trouble /\ browser[c].live # {}
    /\ browser' = [browser EXCEPT ![c].live = {}, ![c].foreign = {},
           ![c].in = @ \o SetToSeq({[kind |-> "detached", session |-> s] :
                                       s \in browser[c].live \cup browser[c].foreign})]
    /\ ledger' = Troubled(ledger) /\ UNCHANGED <<lockState, origin, await, attachment, probe>>

\* The DevTools attach to the page, which the bridge refuses while a probe
\* awaits its own attachment.
DevToolsAttach(c) ==
    /\ Calm /\ Trouble /\ origin[c].open /\ lockState.who = c /\ ~ Outstanding(Bridge, c)
    /\ browser' = [browser EXCEPT ![c].out = Append(@, [id |-> 0, op |-> "foreign", session |-> 0])]
    /\ ledger' = Troubled(ledger) /\ UNCHANGED <<lockState, origin, await, attachment, probe>>

ProbeNext ==
    \/ Continue \/ LinkPeer \/ PageRebuilt
    \/ \E p \in await.pending : TimesOutProbe(p)
    \/ \E c \in PeerIds :
          \/ StartProbe(c) \/ HearFrame(c) \/ UnlinkPeer(c) \/ PinPeer(c)
          \/ PageCloses(c) \/ DevToolsAttach(c) \/ PayReply(c)
          \/ \E ok \in BOOLEAN : Carry(c, ok)

-----------------------------------------------------------------------------
(* Properties                                                               *)

\* Every variable has its type.
ProbeTypeOK ==
    /\ lockState.who \in 0 .. MaxPeerLinks
    /\ \A c \in PeerIds : /\ origin[c].session \in 0 .. MaxAttached
                          /\ origin[c].retired \subseteq 1 .. MaxAttached
    /\ probe.stage \in {"none", "leftover", "targets", "attach", "evaluate", "release"}
    /\ ledger.troubles \in 0 .. MaxTroubles

\* No session of a probe is forgotten in the browser, whatever timed out, came
\* late or failed: it is held for its release, its reply is awaited, or its
\* release is under way ("the next explicit probe retries it").
NothingForgotten ==
    Calm => \A c \in PeerIds : origin[c].open => \A s \in browser[c].live :
        \/ origin[c].session = s
        \/ Outstanding(Bridge, c)
        \/ \E k \in DOMAIN browser[c].out : browser[c].out[k].op = "detach" /\ browser[c].out[k].session = s

\* A session that was retired never comes back, in whatever order its events
\* and replies arrive.
RetiredStayRetired == \A c \in PeerIds : origin[c].session \notin origin[c].retired

\* At most one session of ours is attached over a connection.
OneProbeSession == \A c \in PeerIds : Cardinality(browser[c].live) <= 1

\* A probe that reports "released: true" has no session left in the browser.
ReleasedIsGone == ~ ledger.lied

\* The DevTools keep the sessions of their own.
ForeignKept == \A c \in PeerIds : \A k \in DOMAIN browser[c].out :
    browser[c].out[k].op = "detach" => browser[c].out[k].session \notin browser[c].foreign

\* All this as long as no event of a session of the DevTools was taken for
\* that of the attachment a probe awaits.
ProbesComeOff ==
    /\ RetiredStayRetired
    /\ ~ ledger.mistaken =>
           NothingForgotten /\ OneProbeSession /\ ReleasedIsGone /\ ForeignKept
=============================================================================
