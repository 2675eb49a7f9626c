---------------------------- MODULE CapturePanel ----------------------------
(***************************************************************************)
(* The capture panel (desktop/frontend/src/views/WxApiView.vue) on top of  *)
(* the feeder.  A capture reaches it twice, by the events of a tick and by *)
(* wxapi.poll, each with the status it had when it left; an outcome may    *)
(* also come alone, as a patch.  The panel merges them by rid.             *)
(*                                                                         *)
(* The panel's batch queue is merged into the step that fills it: a clear  *)
(* empties queue and list together.                                        *)
(***************************************************************************)
EXTENDS HookFeeder

VARIABLES
    shown,     \* rids with a row in `items`
    settled,   \* those among them whose row has an outcome
    orphans,   \* orphanUpdates: outcomes that came before their row
    poll,      \* the runs of pollOnce: epoch, page answered, disowned by a clear
    pollEpoch, \* pollEpoch
    clearing   \* performClear is waiting for wxapi.clear

panel == <<shown, settled, orphans, poll, pollEpoch, clearing>>
pvars == <<vars, panel>>

Runs == 1 .. 2    \* bound: runs of pollOnce in flight together
NoPoll == [pc |-> "idle", epoch |-> 0, page |-> <<>>, disowned |-> FALSE]

PInit ==
    /\ Init
    /\ shown = {} /\ settled = {} /\ orphans = {}
    /\ poll = [p \in Runs |-> NoPoll] /\ pollEpoch = 0 /\ clearing = FALSE

\* Mutant: a pending copy overwrites the row's outcome.
Overwritten(entries) == (settled \ RidsOf(entries)) \cup Settled(entries)
                        \cup (RidsOf(entries) \cap orphans)

(* upsert and patch: a row that has its outcome is not overwritten by an   *)
(* older pending copy; an outcome without a row waits for it.              *)
Outcomes(entries) == settled \cup Settled(entries) \cup (RidsOf(entries) \cap orphans)

Receive(entries, patches) ==
    /\ shown' = shown \cup RidsOf(entries)
    /\ settled' = Outcomes(entries) \cup (patches \cap shown')
    /\ orphans' = (orphans \ RidsOf(entries)) \cup (patches \ shown')

-----------------------------------------------------------------------------
(* The events of a tick.                                                   *)
ReceiveEvents ==
    /\ Emit
    /\ Receive(tick.captures, tick.patches)
    /\ UNCHANGED <<poll, pollEpoch, clearing>>

(* pollOnce: remember the epoch, ask the shell for a page, and let it in   *)
(* only if the epoch is still the same.  The timer starts no second run    *)
(* while one is in flight, except that a clear disowns the one it finds.   *)
PollAsk(p) ==
    /\ poll[p].pc = "idle" /\ ~clearing
    /\ \A q \in Runs : poll[q].pc = "idle" \/ poll[q].disowned
    /\ poll' = [poll EXCEPT ![p] = [NoPoll EXCEPT !.pc = "asked", !.epoch = pollEpoch]]
    /\ UNCHANGED <<vars, shown, settled, orphans, pollEpoch, clearing>>

PollTake(p) ==
    /\ poll[p].pc = "asked"
    /\ TakePending
    /\ poll' = [poll EXCEPT ![p].pc = "answered", ![p].page = PollPage]
    /\ UNCHANGED <<shown, settled, orphans, pollEpoch, clearing>>

PollEmpty(p) ==
    /\ poll[p].pc = "asked" /\ pending = <<>>
    /\ poll' = [poll EXCEPT ![p] = NoPoll]
    /\ UNCHANGED <<vars, shown, settled, orphans, pollEpoch, clearing>>

Accept(epoch) == epoch = pollEpoch

(* A full page that was let in is followed by another request of the same  *)
(* run, up to POLL_MAX_ROUNDS of them; a clear does not stop that.         *)
PollLand(p) ==
    /\ poll[p].pc = "answered"
    /\ IF Accept(poll[p].epoch) THEN Receive(poll[p].page, {})
       ELSE UNCHANGED <<shown, settled, orphans>>
    /\ \/ poll' = [poll EXCEPT ![p] = NoPoll]
       \/ /\ Accept(poll[p].epoch) /\ Len(poll[p].page) = PollLimit
          /\ poll' = [poll EXCEPT ![p].pc = "asked", ![p].epoch = pollEpoch, ![p].page = <<>>]
    /\ UNCHANGED <<vars, pollEpoch, clearing>>

(* performClear: stop the timer, call wxapi.clear, and when it returned, a *)
(* new epoch and an empty list.                                            *)
ClearAsk ==
    /\ ~clearing
    /\ HookClear
    /\ clearing' = TRUE
    /\ poll' = [p \in Runs |-> [poll[p] EXCEPT !.disowned = poll[p].pc # "idle"]]
    /\ UNCHANGED <<shown, settled, orphans, pollEpoch>>

ClearDone ==
    /\ clearing /\ clear.pc = "idle"
    /\ pollEpoch' = pollEpoch + 1
    /\ shown' = {} /\ settled' = {} /\ orphans' = {}
    /\ clearing' = FALSE
    /\ UNCHANGED <<vars, poll>>

Shell == PageSteps \/ InjectHooks \/ FeederClear \/ Rounds

PNext ==
    \/ Shell /\ UNCHANGED panel
    \/ ReceiveEvents
    \/ \E p \in Runs : PollAsk(p) \/ PollTake(p) \/ PollEmpty(p) \/ PollLand(p)
    \/ ClearAsk \/ ClearDone

PSpec == PInit /\ [][PNext]_pvars

(* The panel polls every two seconds and every answer arrives; the feeder's *)
(* fairness as in HookFeeder.                                               *)
PFairness ==
    /\ WF_pvars((Rounds /\ UNCHANGED panel) \/ ReceiveEvents)
    /\ WF_pvars(InjectHooks /\ UNCHANGED panel) /\ WF_pvars(FeederClear /\ UNCHANGED panel)
    /\ \A p \in Runs : WF_pvars(PollTake(p) \/ PollEmpty(p) \/ PollLand(p))
    /\ WF_pvars(\E p \in Runs : PollAsk(p)) /\ WF_pvars(ClearDone)
    /\ SF_pvars(HookDrain /\ UNCHANGED panel) /\ SF_pvars(Persist /\ UNCHANGED panel)

PFairSpec == PSpec /\ PFairness

-----------------------------------------------------------------------------
(* The values of the panel's variables; an orphan is an outcome without a  *)
(* row.                                                                    *)
PanelTypeOK ==
    /\ TypeOK
    /\ settled \subseteq shown /\ shown \subseteq Rid
    /\ orphans \subseteq Rid \ shown
    /\ poll \in [Runs -> [pc : {"idle", "asked", "answered"}, epoch : Nat,
                          page : Seq(Captured), disowned : BOOLEAN]]
    /\ pollEpoch \in Nat /\ clearing \in BOOLEAN

(* A row that shows its outcome never turns pending again, although a poll *)
(* answer in flight carries the copy taken before the call settled and the *)
(* outcome is not sent twice (the comment in upsert, WxApiView.vue:253).   *)
SettledRowStays == [][\A r \in settled : r \in settled' \/ r \notin shown']_pvars

(* A cleared capture does not come back by a poll: not by one that was     *)
(* answered before the clear and lands after it, nor by a later one.  (The *)
(* event of a tick that had passed its generation check before the clear   *)
(* may still land.)                                                        *)
ClearedNotPolledBack ==
    [][(shown' \ shown) \cap gone = {} \/ clearing \/ tick.pc = "emit"]_pvars

(* The panel keeps what it shows, and keeps nothing of what was cleared.   *)
PanelKeepsRows == SettledRowStays /\ ClearedNotPolledBack

(* A row of the panel learns its outcome once the store has it: dropping a *)
(* tick's events on ResetAck "loses nothing - the same records are drained *)
(* again from seq 0 on the next tick" (hookfeeder.go:647-648).             *)
OutcomeReachesPanel ==
    \A r \in Rid : (r \in shown /\ r \in landed) ~> (r \in settled \/ r \notin shown)
=============================================================================
