---------------------------- MODULE MCHookFeeder ----------------------------
(* Reloads of the page, without refresh and clear.  `ReloadSpec` runs with *)
(* all that can fail, two captures a realm and budgets of one round;       *)
(* `RebuiltSpec` with four captures a realm, where nothing fails and the   *)
(* page acts between the ticks.                                            *)
EXTENDS HookFeeder

ReloadNext ==
    \/ \E st \in Status : Capture(st)
    \/ \E i \in DOMAIN records : SettleBySeq(i)
    \/ Reload \/ InjectHooks \/ TakePending \/ Rounds \/ Emit

ReloadSpec == Init /\ [][ReloadNext]_vars /\ Fairness

CaughtUp == ack = recordSeq /\ updateAck = updateSeq

PageBetweenTicks ==
    /\ tick.pc = "idle"
    /\ \/ \E st \in Status : Capture(st)
       \/ \E i \in DOMAIN records : SettleBySeq(i)
       \/ ResetAck
       \/ CaughtUp /\ (Reload \/ SetupContext)

RebuiltNext ==
    \/ PageBetweenTicks \/ InstallHook
    \/ TickStart /\ ~CaughtUp
    \/ RoundStart \/ HookDrain \/ Persist \/ WriteBack \/ Deliver \/ Emit

RebuiltSpec == Init /\ [][RebuiltNext]_vars
=============================================================================
