---------------------------- MODULE PausePolicy -----------------------------
(* The pause policy of the CDP bridge (cdp-bridge.ts): whether a miniapp's  *)
(* debugger skips every pause is set on one locked connection, by commands  *)
(* that are awaited. Realms are rebuilt, the lock moves, connections come   *)
(* and go, and other debugger clients change the same setting meanwhile.    *)
(*                                                                          *)
(* A connection keeps its order both ways: `out` holds the commands the     *)
(* target has not executed, `in` the frames the bridge has not read. What   *)
(* runs between two awaits is one step, since the bridge is single-threaded.*)
(* Replacing a policy object orphans the call that set the former one (it   *)
(* compares the object's identity), hence at most one `setter` per peer.    *)
EXTENDS Naturals, Sequences

CONSTANTS
    MaxPeers,     \* bound: connections made
    MaxCommands,  \* bound: commands the policy calls send
    MaxEvents     \* bound: what users, other clients and targets start

ASSUME PauseSizes == MaxPeers \in Nat /\ MaxCommands \in Nat /\ MaxEvents \in Nat

VARIABLES
    lock,     \* [enabled, target]: lockEnabled, lockedClientId (0: undefined)
    peer,     \* what the bridge keeps of each connection
    runtime,    \* the target behind each connection
    spent     \* [peers, commands, events]: how much of the bounds is used

pauseVars == <<lock, peer, runtime, spent>>

Peers == 1..MaxPeers
NoPolicy == [enabled |-> FALSE, known |-> FALSE, busy |-> FALSE]
NoSetter == [step |-> "none", id |-> 0, prev |-> FALSE]
NoPeer == [on |-> FALSE, has |-> FALSE, policy |-> NoPolicy, reloaded |-> FALSE,
           paused |-> FALSE, setter |-> NoSetter, stray |-> FALSE]
NoRealm == [skip |-> FALSE, stopped |-> FALSE, out |-> <<>>, in |-> <<>>]

PauseInit ==
    /\ lock = [enabled |-> TRUE, target |-> 0]
    /\ peer = [c \in Peers |-> NoPeer]
    /\ runtime = [c \in Peers |-> NoRealm]
    /\ spent = [peers |-> 0, commands |-> 0, events |-> 0]

Connected == {c \in Peers : peer[c].on}
IsLocked(c) == lock.enabled /\ lock.target = c
Event == spent.events < MaxEvents
Spend == spent' = [spent EXCEPT !.events = @ + 1]

-----------------------------------------------------------------------------
(* setSkipAllPauses *)

\* The call replaces the policy and awaits the reply of its first command.
Setting(p, enabled) == [p EXCEPT
    !.has = TRUE, !.reloaded = FALSE, !.stray = FALSE,
    !.policy = [enabled |-> enabled, known |-> FALSE, busy |-> TRUE],
    !.setter = [step |-> "enable", id |-> spent.commands + 1, prev |-> p.policy.enabled]]

\* The call's next command, behind what the target has not executed yet.
Send(r, op, value) == [r EXCEPT !.out =
    Append(@, [op |-> op, value |-> value, id |-> spent.commands + 1])]

Sending == spent.commands < MaxCommands

\* A user sets the policy of the locked peer, unless a call is under way.
SetSkipAllPauses(c, enabled) ==
    /\ Event /\ Sending
    /\ IsLocked(c) /\ peer[c].on /\ ~ peer[c].policy.busy
    /\ peer' = [peer EXCEPT ![c] = Setting(@, enabled)]
    /\ runtime' = [runtime EXCEPT ![c] = Send(@, "enable", enabled)]
    /\ spent' = [spent EXCEPT !.events = @ + 1, !.commands = @ + 1]
    /\ UNCHANGED lock

\* The call fails: the choice of before is shown again, as not known.
Failed(p) == [p EXCEPT
    !.policy = [enabled |-> p.setter.prev, known |-> FALSE, busy |-> FALSE],
    !.setter = NoSetter]

\* The command that follows the acknowledged one: a peer that is stopped when
\* its pauses are to be skipped is resumed.
NextStep(p) ==
    IF p.setter.step = "enable" THEN "skip"
    ELSE IF p.setter.step = "skip" /\ p.policy.enabled /\ p.paused THEN "resume"
    ELSE "done"

\* The reply the call awaits is read; the target must still be the locked one.
Acknowledged(c, ok) ==
    LET p == peer[c]
        read == [runtime[c] EXCEPT !.in = Tail(@)]
    IN
    \/ /\ ~ ok \/ ~ IsLocked(c)
       /\ peer' = [peer EXCEPT ![c] = Failed(p)]
       /\ runtime' = [runtime EXCEPT ![c] = read]
       /\ UNCHANGED spent
    \/ /\ ok /\ IsLocked(c) /\ NextStep(p) = "done"
       /\ peer' = [peer EXCEPT ![c] = [p EXCEPT
              !.policy.known = TRUE, !.policy.busy = FALSE, !.setter = NoSetter,
              !.paused = @ /\ p.setter.step # "resume"]]
       /\ runtime' = [runtime EXCEPT ![c] = read]
       /\ UNCHANGED spent
    \/ /\ ok /\ IsLocked(c) /\ NextStep(p) # "done" /\ Sending
       /\ peer' = [peer EXCEPT ![c].setter =
              [@ EXCEPT !.step = NextStep(p), !.id = spent.commands + 1]]
       /\ runtime' = [runtime EXCEPT ![c] = Send(read, NextStep(p), p.policy.enabled)]
       /\ spent' = [spent EXCEPT !.commands = @ + 1]

\* The reply does not come within eight seconds.
SetTimesOut(c) ==
    /\ Event /\ peer[c].setter # NoSetter
    /\ peer' = [peer EXCEPT ![c] = Failed(@)]
    /\ Spend /\ UNCHANGED <<lock, runtime>>

-----------------------------------------------------------------------------
(* What invalidates a policy *)

\* invalidateExternalPauseCommand: the policies of every peer without a lock,
\* of the locked peer under it.
Invalidated(p) == [p EXCEPT
    !.policy.known = FALSE, !.policy.busy = FALSE, !.reloaded = FALSE, !.setter = NoSetter]

\* sendToActive: the locked peer, or every one while no target is locked.
Reached == IF lock.target \in Connected THEN {lock.target} ELSE Connected

\* Another debugger client skips pauses (v), or stops to (setSkipAllPauses,
\* disable). With the lock on and no target it reaches peers whose policies
\* stay as they are: `stray` remembers them.
ExternalCommand(v) ==
    /\ Event /\ Connected # {}
    /\ peer' = [c \in Peers |->
           IF peer[c].has /\ (~ lock.enabled \/ lock.target = c) THEN Invalidated(peer[c])
           ELSE [peer[c] EXCEPT !.stray = @ \/ (c \in Reached /\ lock.enabled /\ lock.target = 0)]]
    /\ runtime' = [c \in Peers |->
           IF c \in Reached
           THEN [runtime[c] EXCEPT !.out = Append(@, [op |-> "other", value |-> v, id |-> 0])]
           ELSE runtime[c]]
    /\ Spend /\ UNCHANGED lock

\* reconfirmPausePolicy: a choice that was known, being set or already waiting
\* is unknown in a new realm, and set again at once on the locked peer.

\* As a bug would have it: a call under way is left to end by itself.
WaitsIfKnown(p) == p.has /\ (p.policy.known \/ p.reloaded)

Waits(p) == p.has /\ (p.policy.known \/ p.policy.busy \/ p.reloaded)
Unconfirmed(p) == [p EXCEPT
    !.reloaded = TRUE, !.policy.known = FALSE, !.policy.busy = FALSE, !.setter = NoSetter]

Reconfirm(c, p, r, locked) ==
    LET again == Waits(p) /\ locked IN
    /\ again => Sending
    /\ peer' = [peer EXCEPT ![c] =
           IF again THEN Setting(Unconfirmed(p), p.policy.enabled)
           ELSE IF Waits(p) THEN Unconfirmed(p) ELSE p]
    /\ runtime' = [runtime EXCEPT ![c] = IF again THEN Send(r, "enable", p.policy.enabled) ELSE r]
    /\ spent' = IF again THEN [spent EXCEPT !.commands = @ + 1] ELSE spent

\* receiveMiniapp: a rebuilt realm (setupContext, globalObjectCleared) holds no
\* pause; pauses are kept per peer, whoever is locked; a reply is dropped when
\* it comes from a peer the lock excludes, or when nobody waits for it.
ReadFrame(c) ==
    /\ runtime[c].in # <<>>
    /\ LET frame == Head(runtime[c].in)
           read == [runtime[c] EXCEPT !.in = Tail(@)]
           excluded == lock.enabled /\ lock.target \notin {0, c}
       IN
       \/ /\ frame.op = "rebuilt"
          /\ Reconfirm(c, [peer[c] EXCEPT !.paused = FALSE], read, IsLocked(c))
       \/ /\ frame.op \in {"paused", "resumed"}
          /\ peer' = [peer EXCEPT ![c].paused = (frame.op = "paused")]
          /\ runtime' = [runtime EXCEPT ![c] = read]
          /\ UNCHANGED spent
       \/ /\ frame.op = "reply" /\ ~ excluded /\ frame.id = peer[c].setter.id
          /\ Acknowledged(c, frame.ok)
       \/ /\ frame.op = "reply" /\ (excluded \/ frame.id # peer[c].setter.id)
          /\ runtime' = [runtime EXCEPT ![c] = read]
          /\ UNCHANGED <<peer, spent>>
    /\ UNCHANGED lock

-----------------------------------------------------------------------------
(* Connections and the lock *)

AddMiniapp ==
    /\ spent.peers < MaxPeers
    /\ LET c == spent.peers + 1 IN
       /\ peer' = [peer EXCEPT ![c].on = TRUE]
       /\ lock' = IF lock.enabled /\ lock.target = 0 THEN [lock EXCEPT !.target = c] ELSE lock
       /\ spent' = [spent EXCEPT !.peers = c]
    /\ UNCHANGED runtime

RemoveMiniapp(c) ==
    /\ Event /\ peer[c].on
    /\ peer' = [peer EXCEPT ![c] = NoPeer]
    /\ runtime' = [runtime EXCEPT ![c] = NoRealm]
    /\ lock' = IF lock.target = c THEN [lock EXCEPT !.target = 0] ELSE lock
    /\ Spend

\* The lock moves to c, whose rebuilt realm may still wait for its policy.
LockOn(c) ==
    /\ lock' = [enabled |-> TRUE, target |-> c]
    /\ IF peer[c].reloaded
       THEN /\ Sending
            /\ peer' = [peer EXCEPT ![c] = Setting(Unconfirmed(@), @.policy.enabled)]
            /\ runtime' = [runtime EXCEPT ![c] = Send(@, "enable", peer[c].policy.enabled)]
            /\ spent' = [spent EXCEPT !.events = @ + 1, !.commands = @ + 1]
       ELSE Spend /\ UNCHANGED <<peer, runtime>>

SwitchMiniapp(c) == Event /\ peer[c].on /\ LockOn(c)

\* Locking again without a target pins the newest connection.
SetLock(enabled) ==
    /\ Event
    /\ IF enabled /\ Connected # {}
       THEN LockOn(IF lock.target # 0 THEN lock.target
                   ELSE CHOOSE c \in Connected : \A d \in Connected : d <= c)
       ELSE /\ lock' = [enabled |-> enabled, target |-> IF enabled THEN lock.target ELSE 0]
            /\ Spend /\ UNCHANGED <<peer, runtime>>

-----------------------------------------------------------------------------
(* The target behind a connection *)

\* It executes its commands in order; it may refuse one. Resuming says so.
Execute(c, ok) ==
    /\ peer[c].on /\ runtime[c].out # <<>>
    /\ LET do == Head(runtime[c].out)
           r == runtime[c]
           resumes == do.op = "resume" /\ ok /\ r.stopped
       IN runtime' = [runtime EXCEPT ![c] =
            [skip |-> IF do.op \in {"skip", "other"} /\ ok THEN do.value ELSE r.skip,
             stopped |-> r.stopped /\ ~ resumes,
             out |-> Tail(r.out),
             in |-> r.in \o (IF resumes THEN <<[op |-> "resumed"]>> ELSE <<>>)
                         \o (IF do.op = "other" THEN <<>>
                             ELSE <<[op |-> "reply", id |-> do.id, ok |-> ok]>>)]]
    /\ IF ok THEN UNCHANGED spent ELSE Event /\ Spend
    /\ UNCHANGED <<lock, peer>>

\* A breakpoint is hit, unless pauses are skipped.
HitBreakpoint(c) ==
    /\ Event /\ peer[c].on /\ ~ runtime[c].skip /\ ~ runtime[c].stopped
    /\ runtime' = [runtime EXCEPT ![c].stopped = TRUE, ![c].in = Append(@, [op |-> "paused"])]
    /\ Spend /\ UNCHANGED <<lock, peer>>

\* A reload: the new realm runs, and may have lost the setting.
RebuildRealm(c, kept) ==
    /\ Event /\ peer[c].on
    /\ runtime' = [runtime EXCEPT ![c].skip = @ /\ kept, ![c].stopped = FALSE,
                              ![c].in = Append(@, [op |-> "rebuilt"])]
    /\ Spend /\ UNCHANGED <<lock, peer>>

PauseNext ==
    \/ AddMiniapp
    \/ \E enabled \in BOOLEAN : SetLock(enabled) \/ ExternalCommand(enabled)
    \/ \E c \in Peers :
          \/ RemoveMiniapp(c) \/ SwitchMiniapp(c)
          \/ ReadFrame(c) \/ SetTimesOut(c) \/ HitBreakpoint(c)
          \/ \E b \in BOOLEAN : SetSkipAllPauses(c, b) \/ Execute(c, b) \/ RebuildRealm(c, b)

(* The bridge, its clients and its targets by themselves.                   *)
PauseSpec == PauseInit /\ [][PauseNext]_pauseVars

-----------------------------------------------------------------------------
(* Properties *)

\* Every variable has its type.
PauseTypeOK ==
    /\ lock \in [enabled : BOOLEAN, target : 0..MaxPeers]
    /\ \A c \in Peers :
          /\ peer[c].setter.step \in {"none", "enable", "skip", "resume"}
          /\ peer[c].setter.id \in 0..MaxCommands
          /\ runtime[c].skip \in BOOLEAN /\ runtime[c].stopped \in BOOLEAN
    /\ spent.events \in 0..MaxEvents /\ spent.commands \in 0..MaxCommands

\* No reload of c is on its way to the bridge.
NoReloadUnread(c) == \A i \in 1..Len(runtime[c].in) : runtime[c].in[i].op # "rebuilt"

\* A policy the bridge shows as known is the setting of the realm that runs
\* now, and a peer whose pauses are skipped is not left stopped
\* (setSkipAllPauses, reconfirmPausePolicy, invalidateExternalPauseCommand).
KnownIsInForce ==
    \A c \in Connected :
        peer[c].policy.known /\ NoReloadUnread(c) /\ ~ peer[c].stray =>
            /\ runtime[c].skip = peer[c].policy.enabled
            /\ runtime[c].skip => ~ runtime[c].stopped

\* A policy shown as busy has a call that will settle it: nothing is left that
\* refuses every later call.
BusyHasItsCall == \A c \in Peers : peer[c].policy.busy <=> peer[c].setter # NoSetter

\* The locked peer never waits for its choice to be set again.
LockedIsReconfirmed == \A c \in Peers : IsLocked(c) => ~ peer[c].reloaded

PausePolicyIsTrue == KnownIsInForce /\ BusyHasItsCall /\ LockedIsReconfirmed
=============================================================================
