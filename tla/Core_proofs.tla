----------------------------- MODULE Core_proofs -----------------------------
(* The two ends of the Core's work: the shell's calls into it (CoreRpc), and *)
(* the debugging windows it opens on H5 pages (H5Sessions).                 *)
(*                                                                          *)
(* For any number of concurrent calls: a call is answered at most once,     *)
(* leaves nothing behind in pending, and a connection whose pipe may hold   *)
(* half a line is never written to again.                                   *)
(*                                                                          *)
(* For any windows, sessions and requests, windows keep to themselves. Three *)
(* orders carry it. A session of ours has an owner, or the answer that makes *)
(* one is still to be read. What makes a session known comes before what    *)
(* ends it, so no frame brings back what is given back. And a session that  *)
(* is asked back is nobody else's.                                          *)
EXTENDS CoreRpc, H5Sessions, FiniteSetTheorems, TLAPS

-----------------------------------------------------------------------------
(* Calls into the Core                                                      *)

(* A call that has not registered is nowhere.                              *)
Unseen ==
    \A c \in Calls : pc[c] \in {"start", "open"} =>
        /\ c \notin pending /\ box[c] = 0 /\ handed # c
        /\ \A f \in Failers : c \notin victims[f]

(* A registered call is in one place: pending, the read loop's hand, the   *)
(* hand of one failAll, or its own channel.                                *)
InPending ==
    \A c \in pending :
        /\ box[c] = 0 /\ handed # c
        /\ \A f \in Failers : c \notin victims[f]
InHand ==
    handed # None => box[handed] = 0 /\ \A f \in Failers : handed \notin victims[f]
InVictims ==
    /\ \A f \in Failers, c \in Calls : c \in victims[f] => box[c] = 0
    /\ \A f, g \in Failers, c \in Calls :
          c \in victims[f] /\ c \in victims[g] => f = g

(* What each of the two answerers holds while it is not answering.         *)
Hands ==
    /\ reader = "handling" => handed # None
    /\ reader # "handling" => handed = None
    /\ \A f \in Failers : failing[f] # "send" => victims[f] = {}
    /\ tear = "no" => failing["teardown"] = "no"
    /\ reader # "ended" => failing["reader"] = "no"

(* The writer's lock covers the write and the teardown that ends it, and   *)
(* that teardown has closed the pipe when the lock is given up.            *)
Lock ==
    /\ \A c \in Calls : pc[c] \in {"writing", "cutting"} => writer = c
    /\ tear = "done" => ~ stdin
    /\ cut => ~ stdin \/ \E c \in Calls : pc[c] = "cutting"

RpcInv ==
    /\ TypeOK /\ Unseen /\ InPending /\ InHand /\ InVictims /\ Hands
    /\ PendingIsLive /\ Lock

-----------------------------------------------------------------------------
(* The invariant holds on a new connection.                                *)
LEMMA InitInv == Init => RpcInv
<1> SUFFICES ASSUME Init PROVE RpcInv
    OBVIOUS
<1>1. TypeOK
    <2>1. 0 \in 0 .. 1
        OBVIOUS
    <2>2. pc \in [Calls -> {"start", "open", "queued", "writing", "cutting",
                         "awaiting", "leaving", "returned"}]
        BY DEF Init
    <2>3. box \in [Calls -> 0 .. 1] /\ failing \in [Failers -> {"no", "swap", "send", "done"}]
          /\ victims \in [Failers -> SUBSET Calls]
        BY <2>1 DEF Init
    <2> QED
        BY <2>2, <2>3 DEF Init, TypeOK
<1>2. Unseen /\ InPending /\ PendingIsLive
    BY CoreRpcAssumption DEF Init, Unseen, InPending, PendingIsLive
<1>3. InHand /\ InVictims /\ Hands /\ Lock
    BY DEF Init, InHand, InVictims, Hands, Lock, Failers
<1> QED
    BY <1>1, <1>2, <1>3 DEF RpcInv

-----------------------------------------------------------------------------
(* Every step of a call, the read loop, a teardown or the Core keeps it.   *)
LEMMA StepInv == RpcInv /\ [Next]_vars => RpcInv'
<1> SUFFICES ASSUME RpcInv, [Next]_vars PROVE RpcInv'
    OBVIOUS
<1> USE CoreRpcAssumption DEF Failers
<1>t. TypeOK /\ Unseen /\ InPending /\ InHand /\ InVictims /\ Hands /\ PendingIsLive /\ Lock
    BY DEF RpcInv
<1>1. ASSUME NEW c \in Calls, CheckClosed(c) PROVE RpcInv'
    <2>1. TypeOK'
        BY <1>t, <1>1 DEF CheckClosed, fails, loop, core, Goto, TypeOK, InPending, InHand, InVictims, Hands
    <2>2. Unseen'
        BY <1>t, <1>1 DEF CheckClosed, fails, loop, core, Goto, TypeOK, Unseen, Hands
    <2>3. InPending'
        BY <1>t, <1>1 DEF CheckClosed, fails, loop, core, Goto, TypeOK, InPending, Unseen, Hands, InVictims
    <2>4. InHand'
        BY <1>t, <1>1 DEF CheckClosed, fails, loop, core, Goto, TypeOK, InHand, InPending, Hands
    <2>5. InVictims'
        BY <1>t, <1>1 DEF CheckClosed, fails, loop, core, Goto, TypeOK, InVictims, InPending, Hands, InHand
    <2>6. Hands'
        BY <1>t, <1>1 DEF CheckClosed, fails, loop, core, Goto, TypeOK, Hands
    <2>7. PendingIsLive'
        BY <1>t, <1>1 DEF CheckClosed, fails, loop, core, Goto, TypeOK, PendingIsLive, Unseen, InPending
    <2>8. Lock'
        BY <1>t, <1>1 DEF CheckClosed, fails, loop, core, Goto, TypeOK, Lock
    <2> QED
        BY <2>1, <2>2, <2>3, <2>4, <2>5, <2>6, <2>7, <2>8 DEF RpcInv
<1>2. ASSUME NEW c \in Calls, Register(c) PROVE RpcInv'
    <2>1. TypeOK'
        BY <1>t, <1>2 DEF Register, fails, loop, core, Goto, TypeOK, InPending, InHand, InVictims, Hands
    <2>2. Unseen'
        BY <1>t, <1>2 DEF Register, fails, loop, core, Goto, TypeOK, Unseen, Hands
    <2>3. InPending'
        BY <1>t, <1>2 DEF Register, fails, loop, core, Goto, TypeOK, InPending, Unseen, Hands, InVictims
    <2>4. InHand'
        BY <1>t, <1>2 DEF Register, fails, loop, core, Goto, TypeOK, InHand, InPending, Hands
    <2>5. InVictims'
        BY <1>t, <1>2 DEF Register, fails, loop, core, Goto, TypeOK, InVictims, InPending, Hands, InHand
    <2>6. Hands'
        BY <1>t, <1>2 DEF Register, fails, loop, core, Goto, TypeOK, Hands
    <2>7. PendingIsLive'
        BY <1>t, <1>2 DEF Register, fails, loop, core, Goto, TypeOK, PendingIsLive, Unseen, InPending
    <2>8. Lock'
        BY <1>t, <1>2 DEF Register, fails, loop, core, Goto, TypeOK, Lock
    <2> QED
        BY <2>1, <2>2, <2>3, <2>4, <2>5, <2>6, <2>7, <2>8 DEF RpcInv
<1>3. ASSUME NEW c \in Calls, LockWriter(c) PROVE RpcInv'
    <2>1. TypeOK'
        BY <1>t, <1>3 DEF LockWriter, fails, loop, core, Goto, TypeOK, InPending, InHand, InVictims, Hands
    <2>2. Unseen'
        BY <1>t, <1>3 DEF LockWriter, fails, loop, core, Goto, TypeOK, Unseen, Hands
    <2>3. InPending'
        BY <1>t, <1>3 DEF LockWriter, fails, loop, core, Goto, TypeOK, InPending, Unseen, Hands, InVictims
    <2>4. InHand'
        BY <1>t, <1>3 DEF LockWriter, fails, loop, core, Goto, TypeOK, InHand, InPending, Hands
    <2>5. InVictims'
        BY <1>t, <1>3 DEF LockWriter, fails, loop, core, Goto, TypeOK, InVictims, InPending, Hands, InHand
    <2>6. Hands'
        BY <1>t, <1>3 DEF LockWriter, fails, loop, core, Goto, TypeOK, Hands
    <2>7. PendingIsLive'
        BY <1>t, <1>3 DEF LockWriter, fails, loop, core, Goto, TypeOK, PendingIsLive, Unseen, InPending
    <2>8. Lock'
        BY <1>t, <1>3 DEF LockWriter, fails, loop, core, Goto, TypeOK, Lock
    <2> QED
        BY <2>1, <2>2, <2>3, <2>4, <2>5, <2>6, <2>7, <2>8 DEF RpcInv
<1>4. ASSUME NEW c \in Calls, Written(c) PROVE RpcInv'
    <2>1. TypeOK'
        BY <1>t, <1>4 DEF Written, fails, loop, Goto, TypeOK, InPending, InHand, InVictims, Hands
    <2>2. Unseen'
        BY <1>t, <1>4 DEF Written, fails, loop, Goto, TypeOK, Unseen, Hands
    <2>3. InPending'
        BY <1>t, <1>4 DEF Written, fails, loop, Goto, TypeOK, InPending, Unseen, Hands, InVictims
    <2>4. InHand'
        BY <1>t, <1>4 DEF Written, fails, loop, Goto, TypeOK, InHand, InPending, Hands
    <2>5. InVictims'
        BY <1>t, <1>4 DEF Written, fails, loop, Goto, TypeOK, InVictims, InPending, Hands, InHand
    <2>6. Hands'
        BY <1>t, <1>4 DEF Written, fails, loop, Goto, TypeOK, Hands
    <2>7. PendingIsLive'
        BY <1>t, <1>4 DEF Written, fails, loop, Goto, TypeOK, PendingIsLive, Unseen, InPending
    <2>8. Lock'
        BY <1>t, <1>4 DEF Written, fails, loop, Goto, TypeOK, Lock
    <2> QED
        BY <2>1, <2>2, <2>3, <2>4, <2>5, <2>6, <2>7, <2>8 DEF RpcInv
<1>5. ASSUME NEW c \in Calls, WriteFails(c) PROVE RpcInv'
    <2>1. TypeOK'
        BY <1>t, <1>5 DEF WriteFails, fails, loop, core, Goto, TypeOK, InPending, InHand, InVictims, Hands
    <2>2. Unseen'
        BY <1>t, <1>5 DEF WriteFails, fails, loop, core, Goto, TypeOK, Unseen, Hands
    <2>3. InPending'
        BY <1>t, <1>5 DEF WriteFails, fails, loop, core, Goto, TypeOK, InPending, Unseen, Hands, InVictims
    <2>4. InHand'
        BY <1>t, <1>5 DEF WriteFails, fails, loop, core, Goto, TypeOK, InHand, InPending, Hands
    <2>5. InVictims'
        BY <1>t, <1>5 DEF WriteFails, fails, loop, core, Goto, TypeOK, InVictims, InPending, Hands, InHand
    <2>6. Hands'
        BY <1>t, <1>5 DEF WriteFails, fails, loop, core, Goto, TypeOK, Hands
    <2>7. PendingIsLive'
        BY <1>t, <1>5 DEF WriteFails, fails, loop, core, Goto, TypeOK, PendingIsLive, Unseen, InPending
    <2>8. Lock'
        BY <1>t, <1>5 DEF WriteFails, fails, loop, core, Goto, TypeOK, Lock
    <2> QED
        BY <2>1, <2>2, <2>3, <2>4, <2>5, <2>6, <2>7, <2>8 DEF RpcInv
<1>6. ASSUME NEW c \in Calls, CutWrite(c) PROVE RpcInv'
    <2>1. TypeOK'
        BY <1>t, <1>6 DEF CutWrite, TearDown, loop, Goto, TypeOK, InPending, InHand, InVictims, Hands
    <2>2. Unseen'
        BY <1>t, <1>6 DEF CutWrite, TearDown, loop, Goto, TypeOK, Unseen, Hands
    <2>3. InPending'
        BY <1>t, <1>6 DEF CutWrite, TearDown, loop, Goto, TypeOK, InPending, Unseen, Hands, InVictims
    <2>4. InHand'
        BY <1>t, <1>6 DEF CutWrite, TearDown, loop, Goto, TypeOK, InHand, InPending, Hands
    <2>5. InVictims'
        BY <1>t, <1>6 DEF CutWrite, TearDown, loop, Goto, TypeOK, InVictims, InPending, Hands, InHand
    <2>6. Hands'
        BY <1>t, <1>6 DEF CutWrite, TearDown, loop, Goto, TypeOK, Hands
    <2>7. PendingIsLive'
        BY <1>t, <1>6 DEF CutWrite, TearDown, loop, Goto, TypeOK, PendingIsLive, Unseen, InPending
    <2>8. Lock'
        BY <1>t, <1>6 DEF CutWrite, TearDown, loop, Goto, TypeOK, Lock
    <2> QED
        BY <2>1, <2>2, <2>3, <2>4, <2>5, <2>6, <2>7, <2>8 DEF RpcInv
<1>7. ASSUME NEW c \in Calls, CutReturns(c) PROVE RpcInv'
    <2>1. TypeOK'
        BY <1>t, <1>7 DEF CutReturns, fails, loop, core, Goto, Return, TypeOK, InPending, InHand, InVictims, Hands
    <2>2. Unseen'
        BY <1>t, <1>7 DEF CutReturns, fails, loop, core, Goto, Return, TypeOK, Unseen, Hands
    <2>3. InPending'
        BY <1>t, <1>7 DEF CutReturns, fails, loop, core, Goto, Return, TypeOK, InPending, Unseen, Hands, InVictims
    <2>4. InHand'
        BY <1>t, <1>7 DEF CutReturns, fails, loop, core, Goto, Return, TypeOK, InHand, InPending, Hands
    <2>5. InVictims'
        BY <1>t, <1>7 DEF CutReturns, fails, loop, core, Goto, Return, TypeOK, InVictims, InPending, Hands, InHand
    <2>6. Hands'
        BY <1>t, <1>7 DEF CutReturns, fails, loop, core, Goto, Return, TypeOK, Hands
    <2>7. PendingIsLive'
        BY <1>t, <1>7 DEF CutReturns, fails, loop, core, Goto, Return, TypeOK, PendingIsLive, Unseen, InPending
    <2>8. Lock'
        BY <1>t, <1>7 DEF CutReturns, fails, loop, core, Goto, Return, TypeOK, Lock
    <2> QED
        BY <2>1, <2>2, <2>3, <2>4, <2>5, <2>6, <2>7, <2>8 DEF RpcInv
<1>8. ASSUME NEW c \in Calls, Leave(c) PROVE RpcInv'
    <2>1. TypeOK'
        BY <1>t, <1>8 DEF Leave, fails, loop, core, Return, Goto, TypeOK, InPending, InHand, InVictims, Hands
    <2>2. Unseen'
        BY <1>t, <1>8 DEF Leave, fails, loop, core, Return, Goto, TypeOK, Unseen, Hands
    <2>3. InPending'
        BY <1>t, <1>8 DEF Leave, fails, loop, core, Return, Goto, TypeOK, InPending, Unseen, Hands, InVictims
    <2>4. InHand'
        BY <1>t, <1>8 DEF Leave, fails, loop, core, Return, Goto, TypeOK, InHand, InPending, Hands
    <2>5. InVictims'
        BY <1>t, <1>8 DEF Leave, fails, loop, core, Return, Goto, TypeOK, InVictims, InPending, Hands, InHand
    <2>6. Hands'
        BY <1>t, <1>8 DEF Leave, fails, loop, core, Return, Goto, TypeOK, Hands
    <2>7. PendingIsLive'
        BY <1>t, <1>8 DEF Leave, fails, loop, core, Return, Goto, TypeOK, PendingIsLive, Unseen, InPending
    <2>8. Lock'
        BY <1>t, <1>8 DEF Leave, fails, loop, core, Return, Goto, TypeOK, Lock
    <2> QED
        BY <2>1, <2>2, <2>3, <2>4, <2>5, <2>6, <2>7, <2>8 DEF RpcInv
<1>9. ASSUME NEW c \in Calls, Answered(c) PROVE RpcInv'
    <2>1. TypeOK'
        BY <1>t, <1>9 DEF Answered, fails, loop, core, Return, Goto, TypeOK, InPending, InHand, InVictims, Hands
    <2>2. Unseen'
        BY <1>t, <1>9 DEF Answered, fails, loop, core, Return, Goto, TypeOK, Unseen, Hands
    <2>3. InPending'
        BY <1>t, <1>9 DEF Answered, fails, loop, core, Return, Goto, TypeOK, InPending, Unseen, Hands, InVictims
    <2>4. InHand'
        BY <1>t, <1>9 DEF Answered, fails, loop, core, Return, Goto, TypeOK, InHand, InPending, Hands
    <2>5. InVictims'
        BY <1>t, <1>9 DEF Answered, fails, loop, core, Return, Goto, TypeOK, InVictims, InPending, Hands, InHand
    <2>6. Hands'
        BY <1>t, <1>9 DEF Answered, fails, loop, core, Return, Goto, TypeOK, Hands
    <2>7. PendingIsLive'
        BY <1>t, <1>9 DEF Answered, fails, loop, core, Return, Goto, TypeOK, PendingIsLive, Unseen, InPending
    <2>8. Lock'
        BY <1>t, <1>9 DEF Answered, fails, loop, core, Return, Goto, TypeOK, Lock
    <2> QED
        BY <2>1, <2>2, <2>3, <2>4, <2>5, <2>6, <2>7, <2>8 DEF RpcInv
<1>10. ASSUME NEW c \in Calls, TimedOut(c) PROVE RpcInv'
    <2>1. TypeOK'
        BY <1>t, <1>10 DEF TimedOut, fails, loop, core, Goto, TypeOK, InPending, InHand, InVictims, Hands
    <2>2. Unseen'
        BY <1>t, <1>10 DEF TimedOut, fails, loop, core, Goto, TypeOK, Unseen, Hands
    <2>3. InPending'
        BY <1>t, <1>10 DEF TimedOut, fails, loop, core, Goto, TypeOK, InPending, Unseen, Hands, InVictims
    <2>4. InHand'
        BY <1>t, <1>10 DEF TimedOut, fails, loop, core, Goto, TypeOK, InHand, InPending, Hands
    <2>5. InVictims'
        BY <1>t, <1>10 DEF TimedOut, fails, loop, core, Goto, TypeOK, InVictims, InPending, Hands, InHand
    <2>6. Hands'
        BY <1>t, <1>10 DEF TimedOut, fails, loop, core, Goto, TypeOK, Hands
    <2>7. PendingIsLive'
        BY <1>t, <1>10 DEF TimedOut, fails, loop, core, Goto, TypeOK, PendingIsLive, Unseen, InPending
    <2>8. Lock'
        BY <1>t, <1>10 DEF TimedOut, fails, loop, core, Goto, TypeOK, Lock
    <2> QED
        BY <2>1, <2>2, <2>3, <2>4, <2>5, <2>6, <2>7, <2>8 DEF RpcInv
<1>11. ASSUME NEW c \in Calls, Expire(c) PROVE RpcInv'
    <2>1. TypeOK'
        BY <1>t, <1>11 DEF Expire, fails, loop, core, TypeOK, InPending, InHand, InVictims, Hands
    <2>2. Unseen'
        BY <1>t, <1>11 DEF Expire, fails, loop, core, TypeOK, Unseen, Hands
    <2>3. InPending'
        BY <1>t, <1>11 DEF Expire, fails, loop, core, TypeOK, InPending, Unseen, Hands, InVictims
    <2>4. InHand'
        BY <1>t, <1>11 DEF Expire, fails, loop, core, TypeOK, InHand, InPending, Hands
    <2>5. InVictims'
        BY <1>t, <1>11 DEF Expire, fails, loop, core, TypeOK, InVictims, InPending, Hands, InHand
    <2>6. Hands'
        BY <1>t, <1>11 DEF Expire, fails, loop, core, TypeOK, Hands
    <2>7. PendingIsLive'
        BY <1>t, <1>11 DEF Expire, fails, loop, core, TypeOK, PendingIsLive, Unseen, InPending
    <2>8. Lock'
        BY <1>t, <1>11 DEF Expire, fails, loop, core, TypeOK, Lock
    <2> QED
        BY <2>1, <2>2, <2>3, <2>4, <2>5, <2>6, <2>7, <2>8 DEF RpcInv
<1>12. ASSUME NEW c \in Calls, TakePending(c) PROVE RpcInv'
    <2>1. TypeOK'
        BY <1>t, <1>12 DEF TakePending, fails, TypeOK, InPending, InHand, InVictims, Hands
    <2>2. Unseen'
        BY <1>t, <1>12 DEF TakePending, fails, TypeOK, Unseen, Hands
    <2>3. InPending'
        BY <1>t, <1>12 DEF TakePending, fails, TypeOK, InPending, Unseen, Hands, InVictims
    <2>4. InHand'
        BY <1>t, <1>12 DEF TakePending, fails, TypeOK, InHand, InPending, Hands
    <2>5. InVictims'
        BY <1>t, <1>12 DEF TakePending, fails, TypeOK, InVictims, InPending, Hands, InHand
    <2>6. Hands'
        BY <1>t, <1>12 DEF TakePending, fails, TypeOK, Hands
    <2>7. PendingIsLive'
        BY <1>t, <1>12 DEF TakePending, fails, TypeOK, PendingIsLive, Unseen, InPending
    <2>8. Lock'
        BY <1>t, <1>12 DEF TakePending, fails, TypeOK, Lock
    <2> QED
        BY <2>1, <2>2, <2>3, <2>4, <2>5, <2>6, <2>7, <2>8 DEF RpcInv
<1>13. ASSUME HandResponse PROVE RpcInv'
    <2>1. TypeOK'
        BY <1>t, <1>13 DEF HandResponse, fails, core, TypeOK, InPending, InHand, InVictims, Hands
    <2>2. Unseen'
        BY <1>t, <1>13 DEF HandResponse, fails, core, TypeOK, Unseen, Hands
    <2>3. InPending'
        BY <1>t, <1>13 DEF HandResponse, fails, core, TypeOK, InPending, Unseen, Hands, InVictims
    <2>4. InHand'
        BY <1>t, <1>13 DEF HandResponse, fails, core, TypeOK, InHand, InPending, Hands
    <2>5. InVictims'
        BY <1>t, <1>13 DEF HandResponse, fails, core, TypeOK, InVictims, InPending, Hands, InHand
    <2>6. Hands'
        BY <1>t, <1>13 DEF HandResponse, fails, core, TypeOK, Hands
    <2>7. PendingIsLive'
        BY <1>t, <1>13 DEF HandResponse, fails, core, TypeOK, PendingIsLive, Unseen, InPending
    <2>8. Lock'
        BY <1>t, <1>13 DEF HandResponse, fails, core, TypeOK, Lock
    <2> QED
        BY <2>1, <2>2, <2>3, <2>4, <2>5, <2>6, <2>7, <2>8 DEF RpcInv
<1>14. ASSUME HandleEvent PROVE RpcInv'
    <2>1. TypeOK'
        BY <1>t, <1>14 DEF HandleEvent, calls, fails, core, TypeOK, InPending, InHand, InVictims, Hands
    <2>2. Unseen'
        BY <1>t, <1>14 DEF HandleEvent, calls, fails, core, TypeOK, Unseen, Hands
    <2>3. InPending'
        BY <1>t, <1>14 DEF HandleEvent, calls, fails, core, TypeOK, InPending, Unseen, Hands, InVictims
    <2>4. InHand'
        BY <1>t, <1>14 DEF HandleEvent, calls, fails, core, TypeOK, InHand, InPending, Hands
    <2>5. InVictims'
        BY <1>t, <1>14 DEF HandleEvent, calls, fails, core, TypeOK, InVictims, InPending, Hands, InHand
    <2>6. Hands'
        BY <1>t, <1>14 DEF HandleEvent, calls, fails, core, TypeOK, Hands
    <2>7. PendingIsLive'
        BY <1>t, <1>14 DEF HandleEvent, calls, fails, core, TypeOK, PendingIsLive, Unseen, InPending
    <2>8. Lock'
        BY <1>t, <1>14 DEF HandleEvent, calls, fails, core, TypeOK, Lock
    <2> QED
        BY <2>1, <2>2, <2>3, <2>4, <2>5, <2>6, <2>7, <2>8 DEF RpcInv
<1>15. ASSUME ReadEnds PROVE RpcInv'
    <2>1. TypeOK'
        BY <1>t, <1>15 DEF ReadEnds, calls, core, TypeOK, InPending, InHand, InVictims, Hands
    <2>2. Unseen'
        BY <1>t, <1>15 DEF ReadEnds, calls, core, TypeOK, Unseen, Hands
    <2>3. InPending'
        BY <1>t, <1>15 DEF ReadEnds, calls, core, TypeOK, InPending, Unseen, Hands, InVictims
    <2>4. InHand'
        BY <1>t, <1>15 DEF ReadEnds, calls, core, TypeOK, InHand, InPending, Hands
    <2>5. InVictims'
        BY <1>t, <1>15 DEF ReadEnds, calls, core, TypeOK, InVictims, InPending, Hands, InHand
    <2>6. Hands'
        BY <1>t, <1>15 DEF ReadEnds, calls, core, TypeOK, Hands
    <2>7. PendingIsLive'
        BY <1>t, <1>15 DEF ReadEnds, calls, core, TypeOK, PendingIsLive, Unseen, InPending
    <2>8. Lock'
        BY <1>t, <1>15 DEF ReadEnds, calls, core, TypeOK, Lock
    <2> QED
        BY <2>1, <2>2, <2>3, <2>4, <2>5, <2>6, <2>7, <2>8 DEF RpcInv
<1>16. ASSUME NEW f \in Failers, SwapPending(f) PROVE RpcInv'
    <2>1. TypeOK'
        BY <1>t, <1>16 DEF SwapPending, loop, core, TypeOK, InPending, InHand, InVictims, Hands
    <2>2. Unseen'
        BY <1>t, <1>16 DEF SwapPending, loop, core, TypeOK, Unseen, Hands
    <2>3. InPending'
        BY <1>t, <1>16 DEF SwapPending, loop, core, TypeOK, InPending, Unseen, Hands, InVictims
    <2>4. InHand'
        BY <1>t, <1>16 DEF SwapPending, loop, core, TypeOK, InHand, InPending, Hands
    <2>5. InVictims'
        BY <1>t, <1>16 DEF SwapPending, loop, core, TypeOK, InVictims, InPending, Hands, InHand
    <2>6. Hands'
        BY <1>t, <1>16 DEF SwapPending, loop, core, TypeOK, Hands
    <2>7. PendingIsLive'
        BY <1>t, <1>16 DEF SwapPending, loop, core, TypeOK, PendingIsLive, Unseen, InPending
    <2>8. Lock'
        BY <1>t, <1>16 DEF SwapPending, loop, core, TypeOK, Lock
    <2> QED
        BY <2>1, <2>2, <2>3, <2>4, <2>5, <2>6, <2>7, <2>8 DEF RpcInv
<1>17. ASSUME NEW f \in Failers, FailCalls(f) PROVE RpcInv'
    <2>1. TypeOK'
        BY <1>t, <1>17 DEF FailCalls, loop, core, TypeOK, InPending, InHand, InVictims, Hands
    <2>2. Unseen'
        BY <1>t, <1>17 DEF FailCalls, loop, core, TypeOK, Unseen, Hands
    <2>3. InPending'
        BY <1>t, <1>17 DEF FailCalls, loop, core, TypeOK, InPending, Unseen, Hands, InVictims
    <2>4. InHand'
        BY <1>t, <1>17 DEF FailCalls, loop, core, TypeOK, InHand, InPending, Hands
    <2>5. InVictims'
        BY <1>t, <1>17 DEF FailCalls, loop, core, TypeOK, InVictims, InPending, Hands, InHand
    <2>6. Hands'
        BY <1>t, <1>17 DEF FailCalls, loop, core, TypeOK, Hands
    <2>7. PendingIsLive'
        BY <1>t, <1>17 DEF FailCalls, loop, core, TypeOK, PendingIsLive, Unseen, InPending
    <2>8. Lock'
        BY <1>t, <1>17 DEF FailCalls, loop, core, TypeOK, Lock
    <2> QED
        BY <2>1, <2>2, <2>3, <2>4, <2>5, <2>6, <2>7, <2>8 DEF RpcInv
<1>18. ASSUME CloseStdin PROVE RpcInv'
    <2>1. TypeOK'
        BY <1>t, <1>18 DEF CloseStdin, calls, loop, core, TypeOK, InPending, InHand, InVictims, Hands
    <2>2. Unseen'
        BY <1>t, <1>18 DEF CloseStdin, calls, loop, core, TypeOK, Unseen, Hands
    <2>3. InPending'
        BY <1>t, <1>18 DEF CloseStdin, calls, loop, core, TypeOK, InPending, Unseen, Hands, InVictims
    <2>4. InHand'
        BY <1>t, <1>18 DEF CloseStdin, calls, loop, core, TypeOK, InHand, InPending, Hands
    <2>5. InVictims'
        BY <1>t, <1>18 DEF CloseStdin, calls, loop, core, TypeOK, InVictims, InPending, Hands, InHand
    <2>6. Hands'
        BY <1>t, <1>18 DEF CloseStdin, calls, loop, core, TypeOK, Hands
    <2>7. PendingIsLive'
        BY <1>t, <1>18 DEF CloseStdin, calls, loop, core, TypeOK, PendingIsLive, Unseen, InPending
    <2>8. Lock'
        BY <1>t, <1>18 DEF CloseStdin, calls, loop, core, TypeOK, Lock
    <2> QED
        BY <2>1, <2>2, <2>3, <2>4, <2>5, <2>6, <2>7, <2>8 DEF RpcInv
<1>19. ASSUME Close PROVE RpcInv'
    <2>1. TypeOK'
        BY <1>t, <1>19 DEF Close, TearDown, calls, loop, core, TypeOK, InPending, InHand, InVictims, Hands
    <2>2. Unseen'
        BY <1>t, <1>19 DEF Close, TearDown, calls, loop, core, TypeOK, Unseen, Hands
    <2>3. InPending'
        BY <1>t, <1>19 DEF Close, TearDown, calls, loop, core, TypeOK, InPending, Unseen, Hands, InVictims
    <2>4. InHand'
        BY <1>t, <1>19 DEF Close, TearDown, calls, loop, core, TypeOK, InHand, InPending, Hands
    <2>5. InVictims'
        BY <1>t, <1>19 DEF Close, TearDown, calls, loop, core, TypeOK, InVictims, InPending, Hands, InHand
    <2>6. Hands'
        BY <1>t, <1>19 DEF Close, TearDown, calls, loop, core, TypeOK, Hands
    <2>7. PendingIsLive'
        BY <1>t, <1>19 DEF Close, TearDown, calls, loop, core, TypeOK, PendingIsLive, Unseen, InPending
    <2>8. Lock'
        BY <1>t, <1>19 DEF Close, TearDown, calls, loop, core, TypeOK, Lock
    <2> QED
        BY <2>1, <2>2, <2>3, <2>4, <2>5, <2>6, <2>7, <2>8 DEF RpcInv
<1>20. ASSUME CoreExits PROVE RpcInv'
    <2>1. TypeOK'
        BY <1>t, <1>20 DEF CoreExits, calls, fails, loop, TypeOK, InPending, InHand, InVictims, Hands
    <2>2. Unseen'
        BY <1>t, <1>20 DEF CoreExits, calls, fails, loop, TypeOK, Unseen, Hands
    <2>3. InPending'
        BY <1>t, <1>20 DEF CoreExits, calls, fails, loop, TypeOK, InPending, Unseen, Hands, InVictims
    <2>4. InHand'
        BY <1>t, <1>20 DEF CoreExits, calls, fails, loop, TypeOK, InHand, InPending, Hands
    <2>5. InVictims'
        BY <1>t, <1>20 DEF CoreExits, calls, fails, loop, TypeOK, InVictims, InPending, Hands, InHand
    <2>6. Hands'
        BY <1>t, <1>20 DEF CoreExits, calls, fails, loop, TypeOK, Hands
    <2>7. PendingIsLive'
        BY <1>t, <1>20 DEF CoreExits, calls, fails, loop, TypeOK, PendingIsLive, Unseen, InPending
    <2>8. Lock'
        BY <1>t, <1>20 DEF CoreExits, calls, fails, loop, TypeOK, Lock
    <2> QED
        BY <2>1, <2>2, <2>3, <2>4, <2>5, <2>6, <2>7, <2>8 DEF RpcInv
<1>21. CASE UNCHANGED vars
    BY <1>t, <1>21 DEF vars, RpcInv, TypeOK, Unseen, InPending, InHand, InVictims, Hands, PendingIsLive, Lock
<1> QED
    BY <1>1, <1>2, <1>3, <1>4, <1>5, <1>6, <1>7, <1>8, <1>9, <1>10, <1>11, <1>12, <1>13, <1>14, <1>15, <1>16, <1>17, <1>18, <1>19, <1>20, <1>21 DEF Next, CallStep, FailStep

-----------------------------------------------------------------------------
(* The invariant holds throughout.                                         *)
THEOREM RpcInvariant == Spec => []RpcInv
BY InitInv, StepInv, PTL DEF Spec

(* No channel ever gets a second response: neither the read loop nor a     *)
(* teardown blocks on a call, whichever of them answers it.                *)
THEOREM AnsweredOnce == Spec => []TypeOK
<1>1. RpcInv => TypeOK
    BY DEF RpcInv
<1> QED
    BY <1>1, RpcInvariant, PTL

(* A call that has returned left nothing in pending, even one that         *)
(* registered after the connection was torn down.                          *)
THEOREM NothingLeftPending == Spec => []PendingIsLive
<1>1. RpcInv => PendingIsLive
    BY DEF RpcInv
<1> QED
    BY <1>1, RpcInvariant, PTL

(* No request is written behind half a line.                               *)
THEOREM CutPipeStaysSilent == Spec => NothingAfterACutWrite
<1> DEFINE Silent == cut => \A c \in Calls : ~ (pc[c] = "writing" /\ pc'[c] = "awaiting")
<1>1. ASSUME RpcInv, [Next]_vars PROVE [Silent]_vars
    <2> SUFFICES ASSUME cut, NEW c \in Calls, pc[c] = "writing", pc'[c] = "awaiting", Next
                 PROVE  FALSE
        BY <1>1
    <2>t. TypeOK /\ Lock
        BY <1>1 DEF RpcInv
    <2>1. ~ stdin
        BY <2>t DEF Lock
    <2>2. Written(c)
        <3>1. pc' # pc /\ c \in DOMAIN pc
            BY <2>t DEF TypeOK
        <3>2. PICK d \in Calls : CheckClosed(d) \/ CallStep(d) \/ Written(d)
            BY <3>1 DEF Next, TakePending, HandResponse, HandleEvent, ReadEnds, FailStep, SwapPending,
                        FailCalls, CloseStdin, Close, CoreExits, calls
        <3>3. pc' = [pc EXCEPT ![d] = pc'[d]]
            BY <3>2, <2>t DEF CheckClosed, CallStep, Written, Register, LockWriter, WriteFails, CutWrite,
                        CutReturns, Leave, Answered, TimedOut, Expire, Goto, Return, TypeOK
        <3>4. d = c
            BY <3>3, <2>t DEF TypeOK
        <3> QED
            BY <3>2, <3>4, <2>t DEF CheckClosed, CallStep, Register, LockWriter, WriteFails, CutWrite,
                        CutReturns, Leave, Answered, TimedOut, Expire, Goto, Return, TypeOK
    <2> QED
        BY <2>1, <2>2 DEF Written
<1> QED
    BY <1>1, RpcInvariant, PTL DEF Spec, NothingAfterACutWrite

(* For any number of calls and Cores: a call gets one answer, and whoever   *)
(* waits is registered with a client that lives (core_rpc.go, call).        *)
THEOREM CallsStayAnsweredOnce == Spec => []CallsAreAnsweredOnce
<1>1. TypeOK /\ PendingIsLive => CallsAreAnsweredOnce
  BY DEF CallsAreAnsweredOnce
<1> QED
  BY <1>1, AnsweredOnce, NothingLeftPending, PTL

-----------------------------------------------------------------------------
(* Windows on H5 pages: h is a state of the class, r one that it becomes, t a *)
(* state of the target.                                                     *)

(* The invariant                                                            *)

\* A number is one request's: one command, one reply, which is of its kind.
Numbering(h, t) ==
    /\ \A p, q \in h.pending : p.id = q.id => p = q
    /\ \A i, j \in DOMAIN h.sent : h.sent[i].id = h.sent[j].id => i = j
    /\ \A i, j \in DOMAIN t.in :
          t.in[i].op = "reply" /\ t.in[j].op = "reply" =>
             /\ t.in[i].id = t.in[j].id => i = j
             /\ t.in[i].s = t.in[j].s /\ t.in[i].s # 0 => i = j
    /\ \A i \in DOMAIN t.in, j \in DOMAIN h.sent :
          t.in[i].op = "reply" => t.in[i].id # h.sent[j].id
    /\ \A p \in h.pending : \A i \in DOMAIN h.sent :
          h.sent[i].id = p.id => h.sent[i].method = p.method /\ h.sent[i].s = p.s
    /\ \A p \in h.pending : \A i \in DOMAIN t.in :
          t.in[i].op = "reply" /\ t.in[i].id = p.id =>
             /\ p.method = "attach" => t.in[i].s \in t.ours \cup {0} /\ (t.in[i].ok <=> t.in[i].s # 0)
             /\ p.method # "attach" => t.in[i].s = 0
             /\ p.method = "detach" /\ t.in[i].ok => p.s \notin t.live

\* Only numbers given out and sessions made are spoken of.
Known(h, t) ==
    /\ \A p \in h.pending : p.id \in 1 .. h.ids /\ p.s \in 0 .. t.made
    /\ \A i \in DOMAIN h.sent : h.sent[i].id \in 1 .. h.ids /\ h.sent[i].s \in 0 .. t.made
    /\ \A i \in DOMAIN t.in : t.in[i].id \in 0 .. h.ids /\ t.in[i].s \in 0 .. t.made
    /\ \A i \in DOMAIN t.in : t.in[i].op \in {"attached", "detached", "event"} => t.in[i].s # 0
    /\ \A i \in DOMAIN t.in : t.in[i].op = "destroyed" => t.in[i].s = 0
    /\ h.retired \cup t.live \cup t.ours \subseteq 1 .. t.made
    /\ \A w \in Windows : h.entry[w].root \in 0 .. t.made /\ h.entry[w].extra \subseteq 1 .. t.made

\* What the flags of an entry, and the requests of its window, say together.
WindowOK(h, w) ==
    LET e == h.entry[w] IN
    /\ ~ e.used => ~ e.in /\ ~ e.closed /\ e.stage = "none" /\ \A p \in h.pending : p.w # w
    /\ ~ e.in => e.root = 0 /\ e.extra = {} /\ ~ e.attachPending
    /\ e.used /\ ~ e.closed => e.in
    /\ e.closed => e.stage = "closed"
    /\ e.detaching # 0 => e.closed
    /\ e.targetGone => h.destroyed
    /\ e.stage = "targets" => e.root = 0 /\ e.extra = {} /\ e.used
    /\ \A p \in h.pending : p.w = w =>
          /\ p.method = "targets" => e.stage = "targets"
          /\ p.method = "info" => e.stage = "info"
          /\ p.method = "detach" => e.closed /\ p.s # 0
          /\ p.method = "attach" => (e.attachPending \/ e.targetGone) /\ e.stage \notin {"targets", "info"}
    /\ \A p, q \in h.pending : p.w = w /\ q.w = w /\ p.method = q.method /\ p.method # "detach" => p = q

\* The session s is the root of an entry.
Owned(h, s) == \E w \in Windows : h.entry[w].root = s

\* Frame i answers the attachment p with the session s.
AnsweredBy(h, t, s, p, i) ==
    p.method = "attach" /\ t.in[i].op = "reply" /\ t.in[i].id = p.id /\ t.in[i].s = s

\* The session s comes with the answer of a request that is awaited.
Coming(h, t, s) == \E p \in h.pending : \E i \in DOMAIN t.in : AnsweredBy(h, t, s, p, i)

\* A frame that tells of the session s, and one that tells of its end.
Makes(f, s) == f.op \in {"attached", "reply"} /\ f.s = s

\* After such a frame nothing may make the session s known again.
Unmakes(h, f, s) ==
    \/ f.op = "destroyed"
    \/ f.op \in {"detached", "event"} /\ f.s = s
    \/ f.op = "reply" /\ \E p \in h.pending : p.method = "detach" /\ p.id = f.id /\ p.s = s

\* An event that the session s ended.
EndOf(f, s) == f.op = "destroyed" \/ (f.op = "detached" /\ f.s = s)

\* Every session of ours has an owner or comes with an answer, and no frame
\* makes it known after one that ends it.
SessionsOK(h, t) ==
    /\ \A v, w \in Windows : h.entry[v].in /\ h.entry[w].in => v = w
    /\ \A w \in Windows : h.entry[w].root \in t.ours \cup {0} /\ h.entry[w].extra \cap t.ours = {}
    /\ h.retired \cap t.live = {}
    /\ \A s \in t.ours \cap t.live : Owned(h, s) \/ Coming(h, t, s)
    /\ \A i \in DOMAIN t.in : t.in[i].s \in t.ours =>
          /\ t.in[i].op = "attached" => Owned(h, t.in[i].s) \/ Coming(h, t, t.in[i].s)
          /\ t.in[i].op \in {"detached", "event"} =>
                \/ t.in[i].s \in h.retired \/ h.exhausted
                \/ Owned(h, t.in[i].s) \/ Coming(h, t, t.in[i].s)
    /\ \A i, j \in DOMAIN t.in : \A s \in 1 .. t.made :
          Makes(t.in[i], s) /\ Unmakes(h, t.in[j], s) => i < j
    /\ \A i \in DOMAIN t.in : t.in[i].op = "reply" => t.in[i].s \notin h.retired
    /\ \A i \in DOMAIN t.in : t.in[i].op = "detached" => t.in[i].s \notin t.live
    /\ \A i \in DOMAIN t.in : t.in[i].op = "reply" /\ t.in[i].s # 0 =>
          t.in[i].s \in t.live \/ \E j \in DOMAIN t.in : EndOf(t.in[j], t.in[i].s)
    /\ \A p \in h.pending : p.method = "attach" =>
          \/ h.entry[p.w].root = 0 /\ h.entry[p.w].extra = {}
          \/ \E i \in DOMAIN t.in : AnsweredBy(h, t, h.entry[p.w].root, p, i)

\* A page ends once; an attachment that is asked for is awaited.
PageOK(h, t) ==
    /\ t.dead => t.live = {}
    /\ \A i, j \in DOMAIN t.in : t.in[i].op = "destroyed" => t.dead /\ (t.in[j].op = "destroyed" => i = j)
    /\ h.destroyed => /\ t.dead
                      /\ \A i \in DOMAIN t.in : /\ t.in[i].op \notin {"attached", "destroyed"}
                                                /\ t.in[i].op = "reply" => t.in[i].s = 0
    /\ \A i \in DOMAIN h.sent : h.sent[i].method = "attach" =>
          t.dead \/ \E p \in h.pending : p.method = "attach" /\ p.id = h.sent[i].id

\* Who gives a session back is the one who has it.
Releases(h, t) == \A p \in h.pending : p.method = "detach" =>
    /\ \A v \in Windows : h.entry[v].root = p.s => v = p.w
    /\ \A q \in h.pending, i \in DOMAIN t.in : AnsweredBy(h, t, p.s, q, i) => q.w = p.w

\* What a step keeps, wherever in `receive` it is.
Core(h, t) == Numbering(h, t) /\ Known(h, t) /\ (\A w \in Windows : WindowOK(h, w)) /\ SessionsOK(h, t) /\ PageOK(h, t) /\ Releases(h, t)

\* No window holds a session that is given back.
Roots(h) == \A w \in Windows : h.entry[w].root \notin h.retired

\* A window that initializes or is connected has its session, or will read
\* that it ended.
Conn(h, t) == \A w \in Windows : h.entry[w].stage \in {"info", "connected"} =>
    /\ h.entry[w].root # 0
    /\ h.entry[w].root \in t.live \/ \E i \in DOMAIN t.in : EndOf(t.in[i], h.entry[w].root)

-----------------------------------------------------------------------------
(* What closing does                                                        *)

\* The shapes of the state of the class and of the target.
Stages == {"none", "targets", "attach", "info", "connected", "closed"}
Entries == [used : BOOLEAN, in : BOOLEAN, stage : Stages, root : Nat, extra : SUBSET Nat,
            closed : BOOLEAN, attachPending : BOOLEAN, targetGone : BOOLEAN, detaching : Nat]
Methods == {"targets", "attach", "info", "detach"}
Requests == [id : Nat, w : Windows, method : Methods, s : Nat, late : BOOLEAN]
Commands == [id : Nat, method : Methods, s : Nat]
H5States == [entry : [Windows -> Entries], pending : SUBSET Requests, retired : SUBSET Nat,
             destroyed : BOOLEAN, exhausted : BOOLEAN, ids : Nat, sent : Seq(Commands)]
Frames == [op : {"reply", "attached", "detached", "event", "destroyed"}, id : Nat,
           ok : BOOLEAN, s : Nat]
TargetStates == [dead : BOOLEAN, live : SUBSET Nat, made : Nat, ours : SUBSET Nat, in : Seq(Frames)]

\* What stays of an entry, whatever closes.
SameHold(e, f) ==
    /\ f.used = e.used /\ f.root = e.root /\ f.extra = e.extra
    /\ f.attachPending = e.attachPending /\ f.targetGone = e.targetGone

Closing(e, f) ==
    /\ f.in = e.in \/ (~ f.in /\ e.root = 0 /\ e.extra = {} /\ ~ e.attachPending /\ f.closed)
    /\ \/ f.closed = e.closed /\ f.stage = e.stage
       \/ f.closed /\ f.stage = "closed" /\ e.used
    /\ f.detaching = e.detaching \/ f.closed

\* Closing asks for nothing, or for one detachment.
NoRequest(h, r) == r.ids = h.ids /\ r.sent = h.sent /\ r.pending \subseteq h.pending

OneDetach(h, r) == \E w \in Windows, s \in Nat, X \in SUBSET h.pending :
    /\ r.ids = h.ids + 1
    /\ s # 0 /\ (s = h.entry[w].root \/ s \in h.entry[w].extra)
    /\ r.entry[w].closed /\ h.entry[w].used
    /\ r.sent = Append(h.sent, [id |-> r.ids, method |-> "detach", s |-> s])
    /\ r.pending = X \cup {[id |-> r.ids, w |-> w, method |-> "detach", s |-> s, late |-> FALSE]}

\* All that closing windows does to the state.
Closes(h, r) ==
    /\ r \in H5States
    /\ r.retired = h.retired /\ r.destroyed = h.destroyed /\ r.exhausted = h.exhausted
    /\ \A w \in Windows : SameHold(h.entry[w], r.entry[w]) /\ Closing(h.entry[w], r.entry[w])
    /\ NoRequest(h, r) \/ OneDetach(h, r)
    /\ \A p \in h.pending : p \in r.pending
          \/ (p.method \in {"targets", "info"} /\ r.entry[p.w].stage = "closed")
    /\ \A p \in h.pending \cap r.pending : p.method \in {"targets", "info"} =>
          r.entry[p.w].stage = h.entry[p.w].stage

\* Entries have their shape.
LEMMA EntryOf == ASSUME NEW h \in H5States, NEW w \in Windows PROVE h.entry[w] \in Entries
  BY DEF H5States

\* What Request does.
Requested(h, r, w, method, s) ==
    /\ r \in H5States
    /\ r.retired = h.retired /\ r.destroyed = h.destroyed /\ r.exhausted = h.exhausted
    /\ r.ids = h.ids + 1
    /\ r.sent = Append(h.sent, [id |-> r.ids, method |-> method, s |-> s])
    /\ r.pending = h.pending \cup {[id |-> r.ids, w |-> w, method |-> method, s |-> s, late |-> FALSE]}
    /\ r.entry = [h.entry EXCEPT ![w].attachPending = @ \/ method = "attach"]
    /\ method # "attach" => r.entry = h.entry

\* Request does that.
LEMMA RequestDoes ==
    ASSUME NEW h \in H5States, NEW w \in Windows, NEW method \in Methods, NEW s \in Nat
    PROVE  Requested(h, Request(h, w, method, s), w, method, s)
<1> DEFINE r == Request(h, w, method, s)
           new == [id |-> h.ids + 1, w |-> w, method |-> method, s |-> s, late |-> FALSE]
           cmd == [id |-> h.ids + 1, method |-> method, s |-> s]
           ent == [h.entry EXCEPT ![w].attachPending = @ \/ method = "attach"]
<1>1. h.ids \in Nat /\ h.sent \in Seq(Commands) /\ h.pending \subseteq Requests
      /\ h.entry \in [Windows -> Entries] /\ h.retired \in SUBSET Nat
      /\ h.destroyed \in BOOLEAN /\ h.exhausted \in BOOLEAN
  BY DEF H5States
<1>2. new \in Requests /\ cmd \in Commands
  BY <1>1 DEF Requests, Commands
<1>3. h = [entry |-> h.entry, pending |-> h.pending, retired |-> h.retired, destroyed |-> h.destroyed,
           exhausted |-> h.exhausted, ids |-> h.ids, sent |-> h.sent]
  BY DEF H5States
<1>4. /\ r.entry = ent /\ r.pending = h.pending \cup {new} /\ r.ids = h.ids + 1
      /\ r.sent = Append(h.sent, cmd)
  BY <1>3 DEF Request
<1>10. r.retired = h.retired /\ r.destroyed = h.destroyed /\ r.exhausted = h.exhausted
  BY <1>3 DEF Request
<1>11. r = [h EXCEPT !.ids = h.ids + 1, !.pending = h.pending \cup {new},
                     !.sent = Append(h.sent, cmd), !.entry = ent]
  BY DEF Request
<1>5. h.entry[w] \in Entries
  BY <1>1
<1>6. ent \in [Windows -> Entries]
  <2>1. [h.entry[w] EXCEPT !.attachPending = @ \/ method = "attach"] \in Entries
    BY <1>5 DEF Entries
  <2> QED BY <1>1, <2>1
<1> HIDE DEF new, cmd
<1>7. Append(h.sent, cmd) \in Seq(Commands) /\ h.pending \cup {new} \in SUBSET Requests
  BY <1>1, <1>2
<1> DEFINE cmds == Append(h.sent, cmd)
           news == h.pending \cup {new}
<1> HIDE DEF ent, r, cmds, news
<1>8. r \in H5States
  <2>1. r = [h EXCEPT !.ids = h.ids + 1, !.pending = news, !.sent = cmds, !.entry = ent]
    BY <1>11 DEF cmds, news
  <2>2. cmds \in Seq(Commands) /\ news \in SUBSET Requests /\ h.ids + 1 \in Nat
    BY <1>1, <1>7 DEF cmds, news
  <2> QED BY <1>6, <2>1, <2>2 DEF H5States
<1> USE DEF ent
<1>9. method # "attach" => ent = h.entry
  <2>1. SUFFICES ASSUME method # "attach" PROVE ent[w] = h.entry[w]
    BY <1>1, <1>6
  <2>2. h.entry[w].attachPending \in BOOLEAN
    BY <1>5 DEF Entries
  <2>3. [h.entry[w] EXCEPT !.attachPending = @ \/ method = "attach"] = h.entry[w]
    BY <1>5, <2>1, <2>2 DEF Entries
  <2> QED BY <1>1, <2>3
<1> QED BY <1>4, <1>8, <1>9, <1>10 DEF r, new, cmd, Requested

\* The loop of a window that is closed only closes.
LEMMA CloseLoopCloses ==
    ASSUME NEW h \in H5States, NEW w \in Windows, h.entry[w].closed, h.entry[w].used,
           h.entry[w].stage = "closed", 0 \notin h.entry[w].extra
    PROVE  Closes(h, CloseLoop(h, w))
<1> DEFINE e == h.entry[w]
           r == CloseLoop(h, w)
<1>1. h.ids \in Nat /\ h.sent \in Seq(Commands) /\ h.pending \subseteq Requests
      /\ h.entry \in [Windows -> Entries] /\ e \in Entries
  BY DEF H5States
<1>2. CASE e.extra # {} \/ e.root # 0
  <2> DEFINE s == IF e.extra # {} THEN CHOOSE x \in e.extra : TRUE ELSE e.root
             g == [h EXCEPT !.entry[w].detaching = h.ids + 1]
  <2>1. s \in Nat /\ s # 0 /\ (s = e.root \/ s \in e.extra)
    BY <1>1, <1>2 DEF Entries
  <2>2. r = Request(g, w, "detach", s)
    BY <1>2 DEF CloseLoop
  <2>3. g \in H5States /\ g.ids = h.ids /\ g.sent = h.sent /\ g.pending = h.pending
        /\ g.retired = h.retired /\ g.destroyed = h.destroyed /\ g.exhausted = h.exhausted
        /\ g.entry = [h.entry EXCEPT ![w] = [e EXCEPT !.detaching = h.ids + 1]]
    <3>1. [e EXCEPT !.detaching = h.ids + 1] \in Entries
      BY <1>1 DEF Entries
    <3>2. [h.entry EXCEPT ![w] = [e EXCEPT !.detaching = h.ids + 1]] \in [Windows -> Entries]
      BY <1>1, <3>1
    <3> HIDE DEF e
    <3> QED BY <3>2 DEF H5States, e
  <2> HIDE DEF g, s
  <2>4. /\ r \in H5States
        /\ r.retired = h.retired /\ r.destroyed = h.destroyed /\ r.exhausted = h.exhausted
        /\ r.ids = h.ids + 1
        /\ r.sent = Append(h.sent, [id |-> r.ids, method |-> "detach", s |-> s])
        /\ r.pending = h.pending \cup {[id |-> r.ids, w |-> w, method |-> "detach", s |-> s, late |-> FALSE]}
        /\ r.entry = [h.entry EXCEPT ![w] = [e EXCEPT !.detaching = h.ids + 1]]
    <3>1. "detach" \in Methods /\ "detach" # "attach"
      BY DEF Methods
    <3>2. Requested(g, Request(g, w, "detach", s), w, "detach", s)
      BY <2>1, <2>3, <3>1, RequestDoes
    <3> HIDE DEF r
    <3> QED BY <2>2, <2>3, <3>1, <3>2 DEF Requested
  <2>5. \A v \in Windows : SameHold(h.entry[v], r.entry[v]) /\ Closing(h.entry[v], r.entry[v])
        /\ r.entry[v].stage = h.entry[v].stage
    BY <1>1, <2>4 DEF SameHold, Closing, Entries
  <2>6. r.entry[w].closed
    BY <1>1, <2>4 DEF Entries
  <2>7. OneDetach(h, r)
    BY <2>1, <2>4, <2>6 DEF OneDetach
  <2> QED BY <2>4, <2>5, <2>7, <1>1 DEF Closes, Requests
<1>3. CASE ~ (e.extra # {} \/ e.root # 0)
  <2>1. r = [h EXCEPT !.entry = [h.entry EXCEPT ![w] = [e EXCEPT !.detaching = 0, !.in = @ /\ e.attachPending]]]
    BY <1>3 DEF CloseLoop
  <2> DEFINE f == [e EXCEPT !.detaching = 0, !.in = @ /\ e.attachPending]
  <2>2. f \in Entries /\ SameHold(e, f) /\ Closing(e, f) /\ f.stage = e.stage
    BY <1>1, <1>3 DEF Entries, SameHold, Closing
  <2>3. [h.entry EXCEPT ![w] = f] \in [Windows -> Entries]
    BY <1>1, <2>2
  <2> HIDE DEF f
  <2>4. r \in H5States /\ r.entry = [h.entry EXCEPT ![w] = f] /\ r.retired = h.retired
        /\ r.destroyed = h.destroyed /\ r.exhausted = h.exhausted /\ r.ids = h.ids
        /\ r.sent = h.sent /\ r.pending = h.pending
    BY <2>1, <2>3 DEF H5States, f
  <2>5. \A v \in Windows : SameHold(h.entry[v], r.entry[v]) /\ Closing(h.entry[v], r.entry[v])
        /\ r.entry[v].stage = h.entry[v].stage
    BY <1>1, <2>2, <2>4 DEF SameHold, Closing
  <2> QED BY <2>4, <2>5, <1>1 DEF Closes, NoRequest, Requests
<1> QED BY <1>2, <1>3

\* Nothing happens, for one.
LEMMA ClosesNothing == ASSUME NEW h \in H5States PROVE Closes(h, h)
  BY DEF Closes, SameHold, Closing, NoRequest

\* CloseWindow only closes.
LEMMA CloseCloses ==
    ASSUME NEW h \in H5States, NEW w \in Windows, h.entry[w].used, 0 \notin h.entry[w].extra
    PROVE  Closes(h, CloseWindow(h, w)) /\ (h.entry[w].detaching = 0 => CloseWindow(h, w).entry[w].stage = "closed")
<1> DEFINE e == h.entry[w]
           r == CloseWindow(h, w)
<1>1. CASE e.detaching # 0
  BY <1>1, ClosesNothing DEF CloseWindow
<1>2. CASE e.detaching = 0
  <2> DEFINE f == [e EXCEPT !.closed = TRUE, !.stage = "closed"]
             kept == {p \in h.pending : p.w # w \/ p.method \in {"attach", "detach"}}
             ents == [h.entry EXCEPT ![w] = f]
             g == [h EXCEPT !.entry = ents, !.pending = kept]
  <2>1. h.pending \in SUBSET Requests /\ h.entry \in [Windows -> Entries] /\ e \in Entries
    BY DEF H5States
  <2>2. r = CloseLoop(g, w)
    BY ZenonT(40), <1>2 DEF CloseWindow
  <2>3. f \in Entries /\ SameHold(e, f) /\ f.in = e.in /\ f.detaching = e.detaching
        /\ f.closed /\ f.stage = "closed"
    BY <2>1 DEF Entries, Stages, SameHold
  <2>4. kept \in SUBSET Requests /\ kept \subseteq h.pending
    BY <2>1
  <2>5. \A p \in h.pending : p \in kept \/ (p.w = w /\ p.method \in {"targets", "info"})
    BY <2>1 DEF Requests, Methods
  <2>6. \A p \in kept : p.method \in {"targets", "info"} => p.w # w
    BY <2>1
  <2> HIDE DEF f, kept
  <2>7. ents \in [Windows -> Entries] /\ ents[w] = f /\ \A v \in Windows : v # w => ents[v] = h.entry[v]
    BY <2>1, <2>3
  <2> HIDE DEF ents
  <2>8. g \in H5States /\ g.entry = ents /\ g.pending = kept /\ g.ids = h.ids /\ g.sent = h.sent
        /\ g.retired = h.retired /\ g.destroyed = h.destroyed /\ g.exhausted = h.exhausted
    BY <2>4, <2>7 DEF H5States
  <2> HIDE DEF g, r, e
  <2>9. /\ g.entry[w].closed /\ g.entry[w].used /\ g.entry[w].stage = "closed"
        /\ 0 \notin g.entry[w].extra
    BY <2>3, <2>7, <2>8 DEF SameHold, e
  <2>10. Closes(g, r)
    BY <2>2, <2>8, <2>9, CloseLoopCloses
  <2>11. /\ r \in H5States
         /\ r.retired = h.retired /\ r.destroyed = h.destroyed /\ r.exhausted = h.exhausted
    BY <2>8, <2>10 DEF Closes
  <2>12. ASSUME NEW v \in Windows
         PROVE  SameHold(h.entry[v], r.entry[v]) /\ Closing(h.entry[v], r.entry[v])
    <3>1. SameHold(g.entry[v], r.entry[v]) /\ Closing(g.entry[v], r.entry[v])
      BY <2>10 DEF Closes
    <3>2. CASE v # w
      BY <3>1, <3>2, <2>7, <2>8
    <3>3. CASE v = w
      BY ZenonT(40), <3>1, <3>3, <2>3, <2>7, <2>8 DEF SameHold, Closing, e
    <3> QED BY <3>2, <3>3
  <2>13. r.entry[w].stage = "closed"
    BY <2>9, <2>10 DEF Closes, Closing
  <2>14. NoRequest(h, r) \/ OneDetach(h, r)
    <3>1. CASE NoRequest(g, r)
      BY <3>1, <2>4, <2>8 DEF NoRequest
    <3>2. CASE OneDetach(g, r)
      <4>1. PICK x \in Windows, s \in Nat, X \in SUBSET g.pending :
              /\ r.ids = g.ids + 1
              /\ s # 0 /\ (s = g.entry[x].root \/ s \in g.entry[x].extra)
              /\ r.entry[x].closed /\ g.entry[x].used
              /\ r.sent = Append(g.sent, [id |-> r.ids, method |-> "detach", s |-> s])
              /\ r.pending = X \cup {[id |-> r.ids, w |-> x, method |-> "detach", s |-> s, late |-> FALSE]}
        BY <3>2 DEF OneDetach
      <4>2. g.entry[x].root = h.entry[x].root /\ g.entry[x].extra = h.entry[x].extra
            /\ g.entry[x].used = h.entry[x].used
        BY <2>3, <2>7, <2>8 DEF SameHold, e
      <4>3. X \in SUBSET h.pending
        BY <2>4, <2>8
      <4> QED BY ZenonT(40), <4>1, <4>2, <4>3, <2>8 DEF OneDetach
    <3> QED BY <3>1, <3>2, <2>10 DEF Closes
  <2>15. ASSUME NEW p \in h.pending
         PROVE  p \in r.pending \/ (p.method \in {"targets", "info"} /\ r.entry[p.w].stage = "closed")
    BY <2>5, <2>8, <2>10, <2>13 DEF Closes
  <2>16. ASSUME NEW p \in h.pending \cap r.pending, p.method \in {"targets", "info"}
         PROVE  r.entry[p.w].stage = h.entry[p.w].stage
    <3>1. CASE p \in kept
      BY <2>1, <2>6, <2>7, <2>8, <2>10, <2>16, <3>1 DEF Requests, Closes
    <3>2. CASE p \notin kept
      <4>1. p.method # "detach"
        BY <2>16
      <4>2. p \in g.pending
        <5>1. CASE NoRequest(g, r)
          BY <5>1, <2>16 DEF NoRequest
        <5>2. CASE OneDetach(g, r)
          BY <4>1, <5>2, <2>16 DEF OneDetach
        <5> QED BY <5>1, <5>2, <2>10 DEF Closes
      <4> QED BY <3>2, <4>2, <2>8
    <3> QED BY <3>1, <3>2
  <2> QED BY <2>11, <2>12, <2>13, <2>14, <2>15, <2>16 DEF Closes, r
<1> QED BY <1>1, <1>2 DEF e

\* Closing all windows closes the one that owns the page.
LEMMA OneOwned ==
    ASSUME NEW h, NEW w, Owners(h) = {w}
    PROVE  CloseAll(h) = CloseWindow(h, w)
<1> DEFINE iter == [s \in SUBSET {w} |-> IF s = {} THEN h ELSE CloseWindow(h, w)]
           F(g) == [s \in SUBSET {w} |-> IF s = {} THEN h
                      ELSE LET x == CHOOSE x \in s : TRUE IN CloseWindow(g[s \ {x}], x)]
           good(g) == g = F(g)
           pick == CHOOSE g : good(g)
<1>1. good(iter)
  OBVIOUS
<1>2. good(pick)
  BY <1>1
<1>3. pick[{}] = h
  BY <1>2
<1>4. pick[{w}] = CloseWindow(h, w)
  <2>1. (CHOOSE x \in {w} : TRUE) = w /\ {w} \ {w} = {}
    OBVIOUS
  <2> HIDE DEF pick
  <2> QED BY <1>2, <1>3, <2>1
<1>5. CloseAll(h) = pick[{w}]
  BY DEF CloseAll, FoldSet, MapThenFoldSet
<1> QED BY <1>4, <1>5

-----------------------------------------------------------------------------
(* Closing keeps the invariant                                              *)

\* A state of the class and of the target in which the core of the invariant holds.
Good(h, t) == h \in H5States /\ t \in TargetStates /\ Core(h, t)

\* The request, and the command, that closing may add.
NewDetach(h, t, r, p) ==
    /\ r.ids = h.ids + 1 /\ p.id = r.ids /\ p.method = "detach" /\ p.s \in 1 .. t.made
    /\ p.w \in Windows /\ r.entry[p.w].closed /\ h.entry[p.w].used

NewSent(h, t, r, i) ==
    /\ r.ids = h.ids + 1 /\ i = Len(h.sent) + 1
    /\ r.sent[i].id = r.ids /\ r.sent[i].method = "detach" /\ r.sent[i].s \in 1 .. t.made
    /\ \A p \in r.pending \ h.pending : p.s = r.sent[i].s

\* What is new after closing, in terms of ids.
News(h, t, r) ==
    /\ r.ids \in Nat /\ r.ids >= h.ids
    /\ \A p \in r.pending : p \in h.pending \/ NewDetach(h, t, r, p)
    /\ \A p, q \in r.pending \ h.pending : p = q
    /\ \A i \in DOMAIN r.sent : (i \in DOMAIN h.sent /\ r.sent[i] = h.sent[i]) \/ NewSent(h, t, r, i)
    /\ DOMAIN h.sent \subseteq DOMAIN r.sent
    /\ \A i \in DOMAIN h.sent : r.sent[i] = h.sent[i]
    /\ \A p \in h.pending : p.method \in {"attach", "detach"} => p \in r.pending

\* Closing adds nothing else.
LEMMA ClosesIsNews ==
    ASSUME NEW h, NEW t, NEW r, Good(h, t), Closes(h, r)
    PROVE  News(h, t, r)
<1>1. h \in H5States /\ t \in TargetStates /\ Known(h, t) /\ r \in H5States
  BY DEF Good, Core, Closes
<1>2. h.ids \in Nat /\ h.sent \in Seq(Commands) /\ t.made \in Nat /\ r.ids \in Nat /\ h.pending \subseteq Requests
  BY <1>1 DEF H5States, TargetStates
<1>3. \A p \in h.pending : p.method \in {"attach", "detach"} => p \in r.pending
  BY DEF Closes
<1>4. CASE NoRequest(h, r)
  BY <1>1, <1>2, <1>3, <1>4 DEF News, NoRequest
<1>5. CASE OneDetach(h, r)
  <2>1. PICK w \in Windows, s \in Nat, X \in SUBSET h.pending :
          /\ r.ids = h.ids + 1
          /\ s # 0 /\ (s = h.entry[w].root \/ s \in h.entry[w].extra)
          /\ r.entry[w].closed /\ h.entry[w].used
          /\ r.sent = Append(h.sent, [id |-> r.ids, method |-> "detach", s |-> s])
          /\ r.pending = X \cup {[id |-> r.ids, w |-> w, method |-> "detach", s |-> s, late |-> FALSE]}
    BY <1>5 DEF OneDetach
  <2> DEFINE req == [id |-> r.ids, w |-> w, method |-> "detach", s |-> s, late |-> FALSE]
  <2>9. req.s = s
    OBVIOUS
  <2>10. r.pending = X \cup {req}
    BY <2>1
  <2>2. s \in 1 .. t.made
    BY <1>1, <1>2, <2>1 DEF Known
  <2> DEFINE cmd == [id |-> r.ids, method |-> "detach", s |-> s]
  <2>3. cmd \in Commands /\ cmd.id = r.ids /\ cmd.method = "detach" /\ cmd.s = s
    BY <1>2 DEF Commands, Methods
  <2> HIDE DEF cmd
  <2>4. r.sent = Append(h.sent, cmd)
    BY <2>1 DEF cmd
  <2>5. /\ DOMAIN r.sent = 1 .. (Len(h.sent) + 1) /\ DOMAIN h.sent = 1 .. Len(h.sent) /\ Len(h.sent) \in Nat
        /\ r.sent[Len(h.sent) + 1] = cmd
        /\ \A i \in DOMAIN h.sent : r.sent[i] = h.sent[i]
    BY <1>2, <2>3, <2>4
  <2>6. \A p \in r.pending : p \in h.pending \/ NewDetach(h, t, r, p)
    BY <2>1, <2>2 DEF NewDetach
  <2>7. \A p, q \in r.pending \ h.pending : p = q /\ p.s = s
    <3> HIDE DEF req
    <3> QED BY <2>9, <2>10
  <2>8. \A i \in DOMAIN r.sent : (i \in DOMAIN h.sent /\ r.sent[i] = h.sent[i]) \/ NewSent(h, t, r, i)
    BY <2>1, <2>2, <2>3, <2>5, <2>7 DEF NewSent
  <2> QED BY <1>2, <1>3, <2>1, <2>5, <2>6, <2>7, <2>8 DEF News
<1> QED BY <1>4, <1>5 DEF Closes

\* Closing keeps the numbering.
LEMMA ClosesNumbering ==
    ASSUME NEW h, NEW t, NEW r, Good(h, t), Closes(h, r)
    PROVE  Numbering(r, t)
<1>1. News(h, t, r)
  BY ClosesIsNews
<1>2. h \in H5States /\ t \in TargetStates /\ Known(h, t) /\ Numbering(h, t)
  BY DEF Good, Core
<1>3. h.ids \in Nat /\ h.sent \in Seq(Commands)
  BY <1>2 DEF H5States
<1>4. \A p \in h.pending : p.id \in 1 .. h.ids
  BY <1>2 DEF Known
<1>5. \A i \in DOMAIN h.sent : h.sent[i].id \in 1 .. h.ids
  BY <1>2 DEF Known
<1>6. \A i \in DOMAIN t.in : t.in[i].id \in 0 .. h.ids
  BY <1>2 DEF Known
<1>7. \A p, q \in r.pending : p.id = q.id => p = q
  BY <1>1, <1>2, <1>3, <1>4 DEF News, Numbering, NewDetach
<1>8. \A i, j \in DOMAIN r.sent : r.sent[i].id = r.sent[j].id => i = j
  BY <1>1, <1>2, <1>3, <1>5 DEF News, Numbering, NewSent
<1>9. \A i \in DOMAIN t.in, j \in DOMAIN r.sent : t.in[i].op = "reply" => t.in[i].id # r.sent[j].id
  BY <1>1, <1>2, <1>3, <1>6 DEF News, Numbering, NewSent
<1>10. \A p \in r.pending : \A i \in DOMAIN r.sent :
          r.sent[i].id = p.id => r.sent[i].method = p.method /\ r.sent[i].s = p.s
  <2> SUFFICES ASSUME NEW p \in r.pending, NEW i \in DOMAIN r.sent, r.sent[i].id = p.id
               PROVE  r.sent[i].method = p.method /\ r.sent[i].s = p.s
    OBVIOUS
  <2>1. CASE p \in h.pending
    BY <1>1, <1>2, <1>3, <1>4, <2>1 DEF News, Numbering, NewSent
  <2>2. CASE p \notin h.pending
    BY <1>1, <1>2, <1>3, <1>5, <2>2 DEF News, NewDetach, NewSent
  <2> QED BY <2>1, <2>2
<1>11. \A p \in r.pending : \A i \in DOMAIN t.in :
          t.in[i].op = "reply" /\ t.in[i].id = p.id =>
             /\ p.method = "attach" => t.in[i].s \in t.ours \cup {0} /\ (t.in[i].ok <=> t.in[i].s # 0)
             /\ p.method # "attach" => t.in[i].s = 0
             /\ p.method = "detach" /\ t.in[i].ok => p.s \notin t.live
  BY <1>1, <1>2, <1>3, <1>6 DEF News, Numbering, NewDetach
<1> QED BY <1>2, <1>7, <1>8, <1>9, <1>10, <1>11 DEF Numbering

\* Numbers that are known.
LEMMA ClosesKnown ==
    ASSUME NEW h, NEW t, NEW r, Good(h, t), Closes(h, r)
    PROVE  Known(r, t)
<1>1. News(h, t, r)
  BY ClosesIsNews
<1>2. h \in H5States /\ t \in TargetStates /\ Known(h, t)
  BY DEF Good, Core
<1>3. h.ids \in Nat /\ r.ids \in Nat /\ t.made \in Nat
  BY <1>1, <1>2 DEF H5States, TargetStates, News
<1>4. \A p \in r.pending : p.id \in 1 .. r.ids /\ p.s \in 0 .. t.made
  BY <1>1, <1>2, <1>3 DEF News, Known, NewDetach
<1>5. \A i \in DOMAIN r.sent : r.sent[i].id \in 1 .. r.ids /\ r.sent[i].s \in 0 .. t.made
  BY <1>1, <1>2, <1>3 DEF News, Known, NewSent
<1>6. \A i \in DOMAIN t.in : t.in[i].id \in 0 .. r.ids /\ t.in[i].s \in 0 .. t.made
  BY <1>1, <1>2, <1>3 DEF News, Known
<1>7. r.retired = h.retired /\ \A w \in Windows : r.entry[w].root = h.entry[w].root
                                              /\ r.entry[w].extra = h.entry[w].extra
  BY DEF Closes, SameHold
<1> QED BY <1>2, <1>4, <1>5, <1>6, <1>7 DEF Known

\* The flags and requests of windows.
LEMMA ClosesWindows ==
    ASSUME NEW h, NEW t, NEW r, Good(h, t), Closes(h, r), NEW w \in Windows
    PROVE  WindowOK(r, w)
<1> DEFINE e == h.entry[w]
           f == r.entry[w]
<1>1. News(h, t, r)
  BY ClosesIsNews
<1>2. WindowOK(h, w) /\ h \in H5States /\ r \in H5States
  BY DEF Good, Core, Closes
<1>3. SameHold(e, f) /\ Closing(e, f)
  BY DEF Closes
<1>4. f.stage = e.stage \/ f.stage = "closed"
  BY <1>3 DEF Closing
<1>5. ASSUME NEW p \in r.pending, p.w = w
      PROVE  /\ f.used
             /\ p.method = "targets" => f.stage = "targets"
             /\ p.method = "info" => f.stage = "info"
             /\ p.method = "detach" => f.closed /\ p.s # 0
             /\ p.method = "attach" => (f.attachPending \/ f.targetGone) /\ f.stage \notin {"targets", "info"}
  BY SMTT(80), <1>1, <1>2, <1>3, <1>4, <1>5 DEF WindowOK, Closes, SameHold, Closing, News, NewDetach
<1>6. \A p, q \in r.pending : p.w = w /\ q.w = w /\ p.method = q.method /\ p.method # "detach" => p = q
  BY <1>1, <1>2 DEF News, NewDetach, WindowOK
<1>7. r.destroyed = h.destroyed
  BY DEF Closes
<1>8. e \in Entries /\ f \in Entries
  BY <1>2 DEF H5States
<1>9. /\ ~ f.used => ~ f.in /\ ~ f.closed /\ f.stage = "none"
      /\ ~ f.in => f.root = 0 /\ f.extra = {} /\ ~ f.attachPending
      /\ f.used /\ ~ f.closed => f.in
      /\ f.closed => f.stage = "closed"
      /\ f.detaching # 0 => f.closed
      /\ f.targetGone => r.destroyed
      /\ f.stage = "targets" => f.root = 0 /\ f.extra = {} /\ f.used
  BY <1>2, <1>3, <1>7, <1>8 DEF WindowOK, SameHold, Closing, Entries
<1> QED BY <1>5, <1>6, <1>9 DEF WindowOK

\* Owners of sessions, and the order of frames.
LEMMA ClosesSessions ==
    ASSUME NEW h, NEW t, NEW r, Good(h, t), Closes(h, r)
    PROVE  SessionsOK(r, t)
<1>1. News(h, t, r)
  BY ClosesIsNews
<1>2. h \in H5States /\ t \in TargetStates /\ Known(h, t) /\ SessionsOK(h, t)
  BY DEF Good, Core
<1>3. h.ids \in Nat /\ t.made \in Nat
  BY <1>2 DEF H5States, TargetStates
<1>4. r.retired = h.retired /\ r.exhausted = h.exhausted
      /\ \A w \in Windows : /\ r.entry[w].root = h.entry[w].root
                            /\ r.entry[w].extra = h.entry[w].extra
                            /\ r.entry[w].in => h.entry[w].in
  BY DEF Closes, SameHold, Closing
<1>5. \A s : Owned(h, s) <=> Owned(r, s)
  BY <1>4 DEF Owned
<1>6. \A s, p, i : AnsweredBy(h, t, s, p, i) <=> AnsweredBy(r, t, s, p, i)
  BY DEF AnsweredBy
<1>7. \A s : Coming(h, t, s) => Coming(r, t, s)
  BY <1>1, <1>6 DEF Coming, News, AnsweredBy
<1>8. ASSUME NEW i \in DOMAIN t.in, NEW j \in DOMAIN t.in, NEW s \in 1 .. t.made,
             Makes(t.in[i], s), Unmakes(r, t.in[j], s)
      PROVE  i < j
  BY <1>1, <1>2, <1>3, <1>8 DEF Known, News, NewDetach, Unmakes, SessionsOK
<1>9. \A p \in r.pending : p.method = "attach" =>
          \/ r.entry[p.w].root = 0 /\ r.entry[p.w].extra = {}
          \/ \E i \in DOMAIN t.in : AnsweredBy(r, t, r.entry[p.w].root, p, i)
  BY <1>1, <1>2, <1>4, <1>6 DEF News, NewDetach, H5States, Requests, SessionsOK
<1>10. \A v, w \in Windows : r.entry[v].in /\ r.entry[w].in => v = w
  BY <1>2, <1>4 DEF SessionsOK
<1>11. \A w \in Windows : r.entry[w].root \in t.ours \cup {0} /\ r.entry[w].extra \cap t.ours = {}
  BY <1>2, <1>4 DEF SessionsOK
<1>12. \A s \in t.ours \cap t.live : Owned(r, s) \/ Coming(r, t, s)
  BY <1>2, <1>5, <1>7 DEF SessionsOK
<1>13. \A i \in DOMAIN t.in : t.in[i].s \in t.ours =>
          /\ t.in[i].op = "attached" => Owned(r, t.in[i].s) \/ Coming(r, t, t.in[i].s)
          /\ t.in[i].op \in {"detached", "event"} =>
                \/ t.in[i].s \in r.retired \/ r.exhausted
                \/ Owned(r, t.in[i].s) \/ Coming(r, t, t.in[i].s)
  BY <1>2, <1>4, <1>5, <1>7 DEF SessionsOK
<1> QED BY <1>2, <1>4, <1>8, <1>9, <1>10, <1>11, <1>12, <1>13 DEF SessionsOK

\* The end of the page.
LEMMA ClosesPage ==
    ASSUME NEW h, NEW t, NEW r, Good(h, t), Closes(h, r)
    PROVE  PageOK(r, t)
<1>1. News(h, t, r)
  BY ClosesIsNews
<1>2. PageOK(h, t) /\ r.destroyed = h.destroyed
  BY DEF Good, Core, Closes
<1>3. ASSUME NEW i \in DOMAIN r.sent, r.sent[i].method = "attach"
      PROVE  t.dead \/ \E p \in r.pending : p.method = "attach" /\ p.id = r.sent[i].id
  BY <1>1, <1>2, <1>3 DEF News, NewSent, PageOK
<1> QED BY <1>2, <1>3 DEF PageOK

\* Who gives back a session.
LEMMA ClosesReleases ==
    ASSUME NEW h, NEW t, NEW r, Good(h, t), Closes(h, r)
    PROVE  Releases(r, t)
<1>1. News(h, t, r)
  BY ClosesIsNews
<1>2. h \in H5States /\ t \in TargetStates /\ Known(h, t) /\ SessionsOK(h, t) /\ PageOK(h, t) /\ Releases(h, t)
      /\ (\A w \in Windows : WindowOK(h, w))
  BY DEF Good, Core
<1>3. \A v \in Windows : r.entry[v].root = h.entry[v].root
  BY DEF Closes, SameHold
<1>4. \A q \in r.pending : q.method = "attach" => q \in h.pending
  BY <1>1 DEF News, NewDetach
<1>5. ASSUME NEW p \in r.pending, p.method = "detach", p \in h.pending
      PROVE  /\ \A v \in Windows : r.entry[v].root = p.s => v = p.w
             /\ \A q \in r.pending, i \in DOMAIN t.in : AnsweredBy(r, t, p.s, q, i) => q.w = p.w
  BY <1>2, <1>3, <1>4, <1>5 DEF Releases, AnsweredBy
<1>6. CASE NoRequest(h, r)
  BY <1>5, <1>6 DEF Releases, NoRequest
<1>7. CASE OneDetach(h, r)
  <2>1. PICK w \in Windows, s \in Nat, X \in SUBSET h.pending :
          /\ s # 0 /\ (s = h.entry[w].root \/ s \in h.entry[w].extra)
          /\ r.pending = X \cup {[id |-> r.ids, w |-> w, method |-> "detach", s |-> s, late |-> FALSE]}
    BY <1>7 DEF OneDetach
  <2> DEFINE new == [id |-> r.ids, w |-> w, method |-> "detach", s |-> s, late |-> FALSE]
  <2>2. new.s = s /\ new.w = w /\ r.pending = X \cup {new}
    BY <2>1
  <2> HIDE DEF new
  <2>3. h.entry[w].in
    BY <1>2, <2>1 DEF WindowOK
  <2>4. ASSUME NEW v \in Windows, h.entry[v].root = s PROVE v = w
    BY <1>2, <2>1, <2>3, <2>4 DEF WindowOK, SessionsOK
  <2>5. ASSUME NEW q \in h.pending, NEW i \in DOMAIN t.in, AnsweredBy(h, t, s, q, i) PROVE q.w = w
    BY <1>2, <2>1, <2>3, <2>5 DEF H5States, Requests, PageOK, AnsweredBy, WindowOK, SessionsOK
  <2>6. /\ \A v \in Windows : r.entry[v].root = new.s => v = new.w
        /\ \A q \in r.pending, i \in DOMAIN t.in : AnsweredBy(r, t, new.s, q, i) => q.w = new.w
    BY <1>3, <1>4, <2>2, <2>4, <2>5 DEF AnsweredBy
  <2> QED BY <1>5, <2>2, <2>6 DEF Releases
<1> QED BY <1>6, <1>7 DEF Closes

\* Closing keeps the core of the invariant.
LEMMA ClosesKeeps ==
    ASSUME NEW h, NEW t, NEW r, Good(h, t), Closes(h, r)
    PROVE  Good(r, t)
<1>1. r \in H5States /\ t \in TargetStates
  BY DEF Good, Closes
<1>2. \A w \in Windows : WindowOK(r, w)
  BY ClosesWindows
<1> QED BY <1>1, <1>2, ClosesNumbering, ClosesKnown, ClosesSessions, ClosesPage, ClosesReleases DEF Good, Core

\* An entry that changes its sessions only.
SameFlags(e, f) ==
    /\ f.used = e.used /\ f.in = e.in /\ f.closed = e.closed /\ f.attachPending = e.attachPending
    /\ f.stage = e.stage /\ f.targetGone = e.targetGone /\ f.detaching = e.detaching

LEMMA SameWindow ==
    ASSUME NEW h, NEW g, NEW w, WindowOK(h, w), g.pending = h.pending, g.destroyed = h.destroyed,
           SameFlags(h.entry[w], g.entry[w]), h.entry[w].used,
           h.entry[w].in \/ (g.entry[w].root = 0 /\ g.entry[w].extra = {}),
           h.entry[w].stage = "targets" => g.entry[w].root = 0 /\ g.entry[w].extra = {}
    PROVE  WindowOK(g, w)
<1> DEFINE e == h.entry[w]
           f == g.entry[w]
<1>1. SameFlags(e, f) /\ e.used /\ (e.in \/ (f.root = 0 /\ f.extra = {}))
  OBVIOUS
<1>2. e.stage = "targets" => f.root = 0 /\ f.extra = {}
  OBVIOUS
<1>3. /\ e.used /\ ~ e.closed => e.in
      /\ e.closed => e.stage = "closed"
      /\ e.detaching # 0 => e.closed
      /\ e.targetGone => h.destroyed
      /\ ~ e.in => ~ e.attachPending
  BY DEF WindowOK
<1>4. \A p \in h.pending : p.w = w =>
          /\ p.method = "targets" => e.stage = "targets"
          /\ p.method = "info" => e.stage = "info"
          /\ p.method = "detach" => e.closed /\ p.s # 0
          /\ p.method = "attach" => (e.attachPending \/ e.targetGone) /\ e.stage \notin {"targets", "info"}
  BY DEF WindowOK
<1>5. \A p, q \in g.pending : p.w = w /\ q.w = w /\ p.method = q.method /\ p.method # "detach" => p = q
  BY DEF WindowOK
<1>6. g.pending = h.pending /\ g.destroyed = h.destroyed
  OBVIOUS
<1> HIDE DEF e
<1>7. \A p \in g.pending : p.w = w =>
          /\ p.method = "targets" => f.stage = "targets"
          /\ p.method = "info" => f.stage = "info"
          /\ p.method = "detach" => f.closed /\ p.s # 0
          /\ p.method = "attach" => (f.attachPending \/ f.targetGone) /\ f.stage \notin {"targets", "info"}
  <2> HIDE DEF f
  <2> QED BY <1>1, <1>4, <1>6 DEF SameFlags
<1>8. /\ f.used /\ (~ f.in => f.root = 0 /\ f.extra = {} /\ ~ f.attachPending)
      /\ f.used /\ ~ f.closed => f.in
      /\ f.closed => f.stage = "closed"
      /\ f.detaching # 0 => f.closed
      /\ f.targetGone => g.destroyed
      /\ f.stage = "targets" => f.root = 0 /\ f.extra = {} /\ f.used
  <2> HIDE DEF f
  <2> QED BY <1>1, <1>2, <1>3, <1>6 DEF SameFlags
<1> QED BY <1>5, <1>7, <1>8 DEF WindowOK

-----------------------------------------------------------------------------
(* Changes of one entry                                                     *)

\* Nothing but entries and requests differs.
Alike(h, r) ==
    /\ r \in H5States
    /\ r.retired = h.retired /\ r.destroyed = h.destroyed /\ r.exhausted = h.exhausted
    /\ r.ids = h.ids /\ r.sent = h.sent

\* An attachment nobody waits for any more owes nothing.
Settled(h, t, p) == p.method = "attach" =>
    /\ t.dead \/ \A i \in DOMAIN h.sent : h.sent[i].id # p.id
    /\ \A s \in t.ours, i \in DOMAIN t.in : AnsweredBy(h, t, s, p, i) => Owned(h, s)

\* Requests that are settled may be dropped.
LEMMA DropKeeps ==
    ASSUME NEW h, NEW t, NEW r, NEW X, Good(h, t), Alike(h, r), r.entry = h.entry,
           r.pending = h.pending \ X, \A p \in X \cap h.pending : Settled(h, t, p)
    PROVE  Good(r, t)
<1>1. h \in H5States /\ t \in TargetStates /\ r \in H5States /\ Core(h, t)
      /\ r.retired = h.retired /\ r.destroyed = h.destroyed /\ r.exhausted = h.exhausted
      /\ r.ids = h.ids /\ r.sent = h.sent
  BY DEF Good, Alike
<1>2. Numbering(r, t)
  BY <1>1 DEF Core, Numbering
<1>3. Known(r, t)
  BY <1>1 DEF Core, Known
<1>4. ASSUME NEW w \in Windows PROVE WindowOK(r, w)
  BY <1>1 DEF Core, WindowOK
<1>5. \A s : Owned(h, s) <=> Owned(r, s)
  BY DEF Owned
<1>6. \A s \in t.ours : Coming(h, t, s) => Coming(r, t, s) \/ Owned(r, s)
  BY <1>5 DEF Coming, Settled, AnsweredBy
<1>7. SessionsOK(r, t)
  BY <1>1, <1>5, <1>6 DEF Core, SessionsOK, Unmakes, AnsweredBy
<1>8. PageOK(r, t)
  BY <1>1 DEF Core, PageOK, Settled
<1>9. Releases(r, t)
  BY <1>1 DEF Core, Releases, AnsweredBy
<1> QED BY <1>1, <1>2, <1>3, <1>4, <1>7, <1>8, <1>9 DEF Good, Core

\* What the entry of w becomes, when only entries change.
Becomes(h, t, r, w) ==
    LET e == h.entry[w]
        f == r.entry[w]
    IN /\ f.in => e.in
       /\ f.root \in t.ours \cup {0} /\ f.extra \subseteq 1 .. t.made /\ f.extra \cap t.ours = {}
       /\ \/ f.root = e.root \/ f.root = 0
          \/ \E p \in h.pending, i \in DOMAIN t.in : p.w = w /\ AnsweredBy(h, t, f.root, p, i)
       /\ e.root \in t.ours => \/ f.root = e.root \/ Coming(h, t, e.root)
                               \/ /\ e.root \notin t.live
                                  /\ e.root \in h.retired \/ h.exhausted
                                  /\ \A i \in DOMAIN t.in : t.in[i].op = "attached" => t.in[i].s # e.root
       /\ \A p \in h.pending : p.w = w /\ p.method = "attach" =>
             \/ f.root = 0 /\ f.extra = {}
             \/ \E i \in DOMAIN t.in : AnsweredBy(h, t, f.root, p, i)

\* An entry may become whatever is in order with the rest.
LEMMA EntryKeeps ==
    ASSUME NEW h, NEW t, NEW r, NEW w \in Windows, Good(h, t), Alike(h, r), r.pending = h.pending,
           \A v \in Windows : v # w => r.entry[v] = h.entry[v],
           WindowOK(r, w), Becomes(h, t, r, w)
    PROVE  Good(r, t)
<1>1. h \in H5States /\ t \in TargetStates /\ r \in H5States /\ Core(h, t)
      /\ r.retired = h.retired /\ r.destroyed = h.destroyed /\ r.exhausted = h.exhausted
      /\ r.ids = h.ids /\ r.sent = h.sent
  BY DEF Good, Alike
<1>0. t.ours \subseteq 1 .. t.made /\ t.made \in Nat
  BY <1>1 DEF Core, Known, TargetStates
<1>2. Numbering(r, t)
  BY <1>1 DEF Core, Numbering
<1>3. Known(r, t)
  BY <1>0, <1>1 DEF Becomes, Core, Known
<1>4. ASSUME NEW v \in Windows PROVE WindowOK(r, v)
  BY <1>1 DEF Core, WindowOK
<1>5. \A s, p, i : AnsweredBy(h, t, s, p, i) <=> AnsweredBy(r, t, s, p, i)
  BY DEF AnsweredBy
<1>6. \A s : Coming(h, t, s) <=> Coming(r, t, s)
  BY <1>5 DEF Coming
<1>7. ASSUME NEW s \in t.ours, Owned(h, s)
      PROVE  \/ Owned(r, s) \/ Coming(r, t, s)
             \/ /\ s \notin t.live
                /\ s \in h.retired \/ h.exhausted
                /\ \A i \in DOMAIN t.in : t.in[i].op = "attached" => t.in[i].s # s
  BY <1>6, <1>7 DEF Owned, Becomes
<1>8. SessionsOK(r, t)
  <2>1. SessionsOK(h, t)
    BY <1>1 DEF Core
  <2>2. ASSUME NEW s \in t.ours \cap t.live PROVE Owned(r, s) \/ Coming(r, t, s)
    BY <1>6, <1>7, <2>1 DEF SessionsOK
  <2>3. \A i \in DOMAIN t.in : t.in[i].s \in t.ours =>
          /\ t.in[i].op = "attached" => Owned(r, t.in[i].s) \/ Coming(r, t, t.in[i].s)
          /\ t.in[i].op \in {"detached", "event"} =>
                \/ t.in[i].s \in r.retired \/ r.exhausted
                \/ Owned(r, t.in[i].s) \/ Coming(r, t, t.in[i].s)
    BY <2>1, <1>1, <1>6, <1>7 DEF SessionsOK
  <2>4. \A j \in DOMAIN t.in : \A s : Unmakes(r, t.in[j], s) <=> Unmakes(h, t.in[j], s)
    BY DEF Unmakes
  <2>5. ASSUME NEW p \in r.pending, p.method = "attach"
        PROVE  \/ r.entry[p.w].root = 0 /\ r.entry[p.w].extra = {}
               \/ \E i \in DOMAIN t.in : AnsweredBy(r, t, r.entry[p.w].root, p, i)
    BY <1>1, <1>5, <2>1, <2>5 DEF H5States, Requests, Becomes, SessionsOK
  <2>6. \A v, u \in Windows : r.entry[v].in /\ r.entry[u].in => v = u
    BY <2>1 DEF SessionsOK, Becomes
  <2>7. \A v \in Windows : r.entry[v].root \in t.ours \cup {0} /\ r.entry[v].extra \cap t.ours = {}
    BY <2>1 DEF SessionsOK, Becomes
  <2> QED BY <1>1, <2>1, <2>2, <2>3, <2>4, <2>5, <2>6, <2>7 DEF SessionsOK
<1>9. PageOK(r, t)
  BY <1>1 DEF Core, PageOK
<1>10. Releases(r, t)
  BY <1>1, <1>5 DEF Core, H5States, Requests, WindowOK, Becomes, Releases
<1> QED BY <1>1, <1>2, <1>3, <1>4, <1>8, <1>9, <1>10 DEF Good, Core

-----------------------------------------------------------------------------
(* Frames read, tombstones and requests                                     *)

\* Reading the first frame.
LEMMA TailOfFrames ==
    ASSUME NEW t \in TargetStates, t.in # <<>>
    PROVE  /\ Tail(t.in) \in Seq(Frames) /\ Head(t.in) = t.in[1] /\ 1 \in DOMAIN t.in /\ Head(t.in) \in Frames
           /\ \A i \in DOMAIN Tail(t.in) : i \in Nat /\ i >= 1 /\ i + 1 \in DOMAIN t.in /\ Tail(t.in)[i] = t.in[i + 1]
           /\ \A i \in DOMAIN t.in : i \in Nat /\ i >= 1 /\ (i # 1 => i - 1 \in DOMAIN Tail(t.in))
<1>1. t.in \in Seq(Frames)
  BY DEF TargetStates
<1> QED BY <1>1

\* The frame that is read is not the answer of an attachment still awaited.
LEMMA ConsumeKeeps ==
    ASSUME NEW h, NEW t, Good(h, t), t.in # <<>>,
           Head(t.in).op = "reply" =>
              \A p \in h.pending : p.method = "attach" => p.id # Head(t.in).id
    PROVE  Good(h, [t EXCEPT !.in = Tail(@)])
<1> DEFINE u == [t EXCEPT !.in = Tail(@)]
<1>1. h \in H5States /\ t \in TargetStates /\ Core(h, t)
  BY DEF Good
<1>2. /\ Tail(t.in) \in Seq(Frames) /\ Head(t.in) = t.in[1] /\ 1 \in DOMAIN t.in
      /\ \A i \in DOMAIN Tail(t.in) : i \in Nat /\ i >= 1 /\ i + 1 \in DOMAIN t.in /\ Tail(t.in)[i] = t.in[i + 1]
      /\ \A i \in DOMAIN t.in : i \in Nat /\ i >= 1 /\ (i # 1 => i - 1 \in DOMAIN Tail(t.in))
  BY <1>1, TailOfFrames
<1>3. /\ u \in TargetStates /\ u.in = Tail(t.in)
      /\ u.dead = t.dead /\ u.live = t.live /\ u.made = t.made /\ u.ours = t.ours
  BY <1>1, <1>2 DEF TargetStates
<1> HIDE DEF u
<1> DEFINE Old(i) == i + 1
<1>4. \A i \in DOMAIN u.in : i \in Nat /\ i >= 1 /\ Old(i) \in DOMAIN t.in /\ u.in[i] = t.in[Old(i)]
  BY <1>2, <1>3
<1>5. \A j \in DOMAIN t.in : j # 1 => \E i \in DOMAIN u.in : Old(i) = j
  <2>1. \A j \in DOMAIN t.in : j # 1 => j - 1 \in DOMAIN u.in /\ Old(j - 1) = j
    BY <1>2, <1>3
  <2> QED BY <2>1
<1>6. \A i, j \in DOMAIN u.in : (Old(i) = Old(j) => i = j) /\ (Old(i) < Old(j) => i < j)
  BY <1>4
<1>14. \A i \in DOMAIN u.in : Old(i) \in Nat /\ Old(i) # 1 /\ ~ (Old(i) < 1)
  BY <1>4
<1> HIDE DEF Old
<1>7. Numbering(h, u)
  BY <1>1, <1>3, <1>4, <1>6 DEF Core, Numbering
<1>8. Known(h, u)
  BY <1>1, <1>3, <1>4 DEF Core, Known
<1>9. \A s, p, j : AnsweredBy(h, t, s, p, j) /\ p \in h.pending /\ j \in DOMAIN t.in =>
          \E i \in DOMAIN u.in : AnsweredBy(h, u, s, p, i)
  BY <1>2, <1>4, <1>5 DEF AnsweredBy
<1>10. \A s : Coming(h, t, s) => Coming(h, u, s)
  BY <1>9 DEF Coming
<1>11. SessionsOK(h, u)
  <2>1. SessionsOK(h, t) /\ Known(h, t)
    BY <1>1 DEF Core
  <2>2. \A i \in DOMAIN u.in : u.in[i].s \in u.ours =>
          /\ u.in[i].op = "attached" => Owned(h, u.in[i].s) \/ Coming(h, u, u.in[i].s)
          /\ u.in[i].op \in {"detached", "event"} =>
                \/ u.in[i].s \in h.retired \/ h.exhausted
                \/ Owned(h, u.in[i].s) \/ Coming(h, u, u.in[i].s)
    BY <2>1, <1>3, <1>4, <1>10 DEF SessionsOK
  <2>3. \A i, j \in DOMAIN u.in : \A s \in 1 .. u.made :
            Makes(u.in[i], s) /\ Unmakes(h, u.in[j], s) => i < j
    BY <2>1, <1>3, <1>4, <1>6 DEF SessionsOK
  <2>4. ASSUME NEW i \in DOMAIN u.in, u.in[i].op = "reply", u.in[i].s # 0, u.in[i].s \notin u.live
        PROVE  \E j \in DOMAIN u.in : EndOf(u.in[j], u.in[i].s)
    <3>1. Old(i) \in DOMAIN t.in /\ u.in[i] = t.in[Old(i)]
      BY <1>4
    <3>2. PICK k \in DOMAIN t.in : EndOf(t.in[k], u.in[i].s)
      BY <2>1, <2>4, <1>3, <3>1 DEF SessionsOK
    <3>3. u.in[i].s \in 1 .. t.made
      BY <2>1, <2>4, <1>1, <3>1 DEF Known, TargetStates
    <3>4. Makes(t.in[Old(i)], u.in[i].s) /\ Unmakes(h, t.in[k], u.in[i].s)
      BY <2>4, <3>1, <3>2 DEF Makes, Unmakes, EndOf
    <3>5. k # 1
      BY <2>1, <3>1, <3>3, <3>4, <1>14 DEF SessionsOK
    <3> QED BY <1>4, <1>5, <3>2, <3>5
  <2>5. \A p \in h.pending : p.method = "attach" =>
          \/ h.entry[p.w].root = 0 /\ h.entry[p.w].extra = {}
          \/ \E i \in DOMAIN u.in : AnsweredBy(h, u, h.entry[p.w].root, p, i)
    BY <2>1, <1>9 DEF SessionsOK
  <2>6. \A s \in u.ours \cap u.live : Owned(h, s) \/ Coming(h, u, s)
    BY <2>1, <1>3, <1>10 DEF SessionsOK
  <2>7. \A i \in DOMAIN u.in : /\ u.in[i].op = "reply" => u.in[i].s \notin h.retired
                               /\ u.in[i].op = "detached" => u.in[i].s \notin u.live
    BY <2>1, <1>3, <1>4 DEF SessionsOK
  <2> QED BY <2>1, <2>2, <2>3, <2>4, <2>5, <2>6, <2>7, <1>3 DEF SessionsOK
<1>12. PageOK(h, u)
  BY <1>1, <1>3, <1>4, <1>6 DEF Core, PageOK
<1>13. \A w \in Windows : WindowOK(h, w)
  BY <1>1 DEF Core
<1>15. Releases(h, u)
  BY <1>1, <1>4 DEF Core, Releases, AnsweredBy
<1> QED BY <1>1, <1>3, <1>7, <1>8, <1>11, <1>12, <1>13, <1>15 DEF Good, Core, u

\* Only tombstones are added, those of S.
Grown(h, r, S) ==
    /\ r \in H5States /\ r.entry = h.entry /\ r.pending = h.pending
    /\ r.destroyed = h.destroyed /\ r.ids = h.ids /\ r.sent = h.sent
    /\ h.retired \subseteq r.retired /\ r.retired \subseteq h.retired \cup S
    /\ h.exhausted => r.exhausted

\* The tombstone of a session that ended disturbs nothing.
LEMMA GrownKeeps ==
    ASSUME NEW h, NEW t, NEW r, NEW S, Good(h, t), Grown(h, r, S), S \subseteq 1 .. t.made,
           S \cap t.live = {},
           \A i \in DOMAIN t.in : t.in[i].op = "reply" => t.in[i].s \notin S
    PROVE  Good(r, t)
<1>1. h \in H5States /\ t \in TargetStates /\ r \in H5States /\ Core(h, t)
      /\ r.entry = h.entry /\ r.pending = h.pending
      /\ r.destroyed = h.destroyed /\ r.ids = h.ids /\ r.sent = h.sent
  BY DEF Good, Grown
<1>2. Numbering(r, t)
  BY <1>1 DEF Core, Numbering
<1>3. Known(r, t)
  BY <1>1 DEF Core, Known, Grown
<1>4. ASSUME NEW w \in Windows PROVE WindowOK(r, w)
  BY <1>1 DEF Core, WindowOK
<1>5. \A s : (Owned(h, s) <=> Owned(r, s)) /\ (Coming(h, t, s) <=> Coming(r, t, s))
  BY <1>1 DEF Owned, Coming, AnsweredBy
<1>8. SessionsOK(r, t)
  BY <1>1, <1>5 DEF Core, SessionsOK, Grown, Unmakes, AnsweredBy
<1>9. PageOK(r, t)
  BY <1>1 DEF Core, PageOK
<1>10. Releases(r, t)
  BY <1>1 DEF Core, Releases, AnsweredBy
<1> QED BY <1>1, <1>2, <1>3, <1>4, <1>8, <1>9, <1>10 DEF Good, Core

\* A request that is not a release.
LEMMA RequestKeeps ==
    ASSUME NEW h, NEW t, NEW r, NEW w \in Windows, NEW method \in Methods, NEW s,
           Good(h, t), Requested(h, r, w, method, s), WindowOK(r, w),
           method # "detach", s \in 0 .. t.made,
           method = "attach" => h.entry[w].root = 0 /\ h.entry[w].extra = {}
    PROVE  Good(r, t)
<1> DEFINE new == [id |-> r.ids, w |-> w, method |-> method, s |-> s, late |-> FALSE]
           cmd == [id |-> r.ids, method |-> method, s |-> s]
           n == Len(h.sent) + 1
<1>1. h \in H5States /\ t \in TargetStates /\ r \in H5States /\ Core(h, t)
      /\ r.retired = h.retired /\ r.destroyed = h.destroyed /\ r.exhausted = h.exhausted
      /\ r.ids = h.ids + 1 /\ r.sent = Append(h.sent, cmd) /\ r.pending = h.pending \cup {new}
      /\ \A v \in Windows : /\ SameHold([h.entry[v] EXCEPT !.attachPending = r.entry[v].attachPending], r.entry[v])
                            /\ r.entry[v].in = h.entry[v].in /\ r.entry[v].stage = h.entry[v].stage
                            /\ v # w => r.entry[v] = h.entry[v]
  BY DEF Good, H5States, Requested, SameHold, Entries
<1>2. h.ids \in Nat /\ h.sent \in Seq(Commands) /\ t.made \in Nat /\ s \in Nat
  BY <1>1 DEF H5States, TargetStates
<1>3. new.id = r.ids /\ new.w = w /\ new.method = method /\ new.s = s
  OBVIOUS
<1>4. cmd.id = r.ids /\ cmd.method = method /\ cmd.s = s /\ cmd \in Commands
  BY <1>1, <1>2 DEF Commands
<1> HIDE DEF new, cmd
<1>5. /\ DOMAIN r.sent = 1 .. n /\ DOMAIN h.sent = 1 .. Len(h.sent) /\ Len(h.sent) \in Nat
      /\ r.sent[n] = cmd /\ \A i \in DOMAIN h.sent : r.sent[i] = h.sent[i]
  BY <1>1, <1>2, <1>4
<1>16. \A i \in DOMAIN r.sent : i = n \/ i \in DOMAIN h.sent
  BY <1>5
<1> HIDE DEF n
<1>6. Known(h, t) /\ Numbering(h, t) /\ SessionsOK(h, t) /\ PageOK(h, t)
  BY <1>1 DEF Core
<1>7. /\ \A p \in h.pending : p.id \in Nat /\ p.id < r.ids
      /\ \A i \in DOMAIN h.sent : h.sent[i].id \in Nat /\ h.sent[i].id < r.ids
      /\ \A i \in DOMAIN t.in : t.in[i].id \in Nat /\ t.in[i].id < r.ids
  BY <1>1, <1>2, <1>6 DEF Known
<1>8. Numbering(r, t)
  <2>1. \A p, q \in r.pending : p.id = q.id => p = q
    BY <1>1, <1>3, <1>6, <1>7 DEF Numbering
  <2>2. \A i, j \in DOMAIN r.sent : r.sent[i].id = r.sent[j].id => i = j
    <3>1. r.sent[n].id = r.ids /\ \A i \in DOMAIN h.sent : r.sent[i].id # r.ids
      BY <1>4, <1>5, <1>7
    <3>2. \A i, j \in DOMAIN h.sent : r.sent[i].id = r.sent[j].id => i = j
      BY <1>5, <1>6 DEF Numbering
    <3> QED BY <3>1, <3>2, <1>16
  <2>3. \A i \in DOMAIN t.in, j \in DOMAIN r.sent : t.in[i].op = "reply" => t.in[i].id # r.sent[j].id
    BY <1>4, <1>5, <1>6, <1>7, <1>16 DEF Numbering
  <2>4. \A p \in r.pending : \A i \in DOMAIN r.sent :
          r.sent[i].id = p.id => r.sent[i].method = p.method /\ r.sent[i].s = p.s
    BY <1>1, <1>3, <1>4, <1>5, <1>6, <1>7, <1>16 DEF Numbering
  <2>5. \A p \in r.pending : \A i \in DOMAIN t.in :
          t.in[i].op = "reply" /\ t.in[i].id = p.id =>
             /\ p.method = "attach" => t.in[i].s \in t.ours \cup {0} /\ (t.in[i].ok <=> t.in[i].s # 0)
             /\ p.method # "attach" => t.in[i].s = 0
             /\ p.method = "detach" /\ t.in[i].ok => p.s \notin t.live
    BY <1>1, <1>3, <1>6, <1>7 DEF Numbering
  <2> QED BY <1>6, <2>1, <2>2, <2>3, <2>4, <2>5 DEF Numbering
<1>9. Known(r, t)
  <2>1. \A p \in r.pending : p.id \in 1 .. r.ids /\ p.s \in 0 .. t.made
    BY <1>1, <1>2, <1>3, <1>6 DEF Known
  <2>2. \A i \in DOMAIN r.sent : r.sent[i].id \in 1 .. r.ids /\ r.sent[i].s \in 0 .. t.made
    BY SMTT(20), <1>1, <1>2, <1>4, <1>5, <1>6, <1>16 DEF Known
  <2>3. \A i \in DOMAIN t.in : t.in[i].id \in 0 .. r.ids /\ t.in[i].s \in 0 .. t.made
    BY <1>1, <1>2, <1>6, <1>7 DEF Known
  <2>4. \A v \in Windows : r.entry[v].root = h.entry[v].root /\ r.entry[v].extra = h.entry[v].extra
    BY <1>1, EntryOf DEF SameHold, Entries
  <2> QED BY <1>1, <1>6, <2>1, <2>2, <2>3, <2>4 DEF Known
<1>10. ASSUME NEW v \in Windows PROVE WindowOK(r, v)
  <2>1. CASE v # w
    <3>1. WindowOK(h, v) /\ r.entry[v] = h.entry[v] /\ r.destroyed = h.destroyed
      BY <1>1, <2>1 DEF Core
    <3>2. \A p \in r.pending : p.w = v => p \in h.pending
      BY <1>1, <1>3, <2>1
    <3> QED BY <3>1, <3>2 DEF WindowOK
  <2> QED BY <2>1
<1>11. \A v \in Windows : /\ r.entry[v].root = h.entry[v].root /\ r.entry[v].extra = h.entry[v].extra
                          /\ r.entry[v].in = h.entry[v].in
  BY <1>1, EntryOf DEF SameHold, Entries
<1>12. \A x : (Owned(h, x) => Owned(r, x)) /\ (Coming(h, t, x) => Coming(r, t, x))
  BY <1>1, <1>11 DEF Owned, Coming, AnsweredBy
<1>13. SessionsOK(r, t)
  <2>1. \A x \in t.ours \cap t.live : Owned(r, x) \/ Coming(r, t, x)
    BY <1>6, <1>12 DEF SessionsOK
  <2>2. \A i \in DOMAIN t.in : t.in[i].s \in t.ours =>
          /\ t.in[i].op = "attached" => Owned(r, t.in[i].s) \/ Coming(r, t, t.in[i].s)
          /\ t.in[i].op \in {"detached", "event"} =>
                \/ t.in[i].s \in r.retired \/ r.exhausted
                \/ Owned(r, t.in[i].s) \/ Coming(r, t, t.in[i].s)
    BY <1>1, <1>6, <1>12 DEF SessionsOK
  <2>3. \A j \in DOMAIN t.in : \A x : Unmakes(r, t.in[j], x) => Unmakes(h, t.in[j], x)
    BY <1>1, <1>3, <1>7 DEF Unmakes
  <2>4. \A p \in r.pending : p.method = "attach" =>
          \/ r.entry[p.w].root = 0 /\ r.entry[p.w].extra = {}
          \/ \E i \in DOMAIN t.in : AnsweredBy(r, t, r.entry[p.w].root, p, i)
    <3> SUFFICES ASSUME NEW p \in r.pending, p.method = "attach"
                 PROVE  \/ r.entry[p.w].root = 0 /\ r.entry[p.w].extra = {}
                        \/ \E i \in DOMAIN t.in : AnsweredBy(r, t, r.entry[p.w].root, p, i)
      OBVIOUS
    <3>1. CASE p = new
      BY <1>3, <1>11, <3>1
    <3>2. CASE p \in h.pending
      <4>1. p.w \in Windows
        BY <1>1, <3>2 DEF H5States, Requests
      <4> QED BY <1>6, <1>11, <3>2, <4>1 DEF SessionsOK, AnsweredBy
    <3> QED BY <1>1, <3>1, <3>2
  <2>5. /\ \A v, u \in Windows : r.entry[v].in /\ r.entry[u].in => v = u
        /\ \A v \in Windows : r.entry[v].root \in t.ours \cup {0} /\ r.entry[v].extra \cap t.ours = {}
    BY <1>6, <1>11 DEF SessionsOK
  <2> QED BY <1>1, <1>6, <2>1, <2>2, <2>3, <2>4, <2>5 DEF SessionsOK
<1>14. PageOK(r, t)
  BY <1>1, <1>3, <1>4, <1>5, <1>6, <1>16 DEF PageOK
<1>15. Releases(r, t)
  BY <1>1, <1>3, <1>7, <1>11 DEF Core, AnsweredBy, Releases
<1> QED BY <1>1, <1>8, <1>9, <1>10, <1>13, <1>14, <1>15 DEF Good, Core

\* CloseWindow keeps the core.
LEMMA CloseKeeps ==
    ASSUME NEW h, NEW t, NEW w \in Windows, Good(h, t), h.entry[w].used
    PROVE  /\ Closes(h, CloseWindow(h, w)) /\ Good(CloseWindow(h, w), t)
           /\ h.entry[w].detaching = 0 => CloseWindow(h, w).entry[w].stage = "closed"
<1>1. h \in H5States /\ Known(h, t)
  BY DEF Good, Core
<1>2. 0 \notin h.entry[w].extra
  BY <1>1 DEF Known
<1> QED BY <1>1, <1>2, CloseCloses, ClosesKeeps

\* The loop keeps the core.
LEMMA CloseLoopKeeps ==
    ASSUME NEW h, NEW t, NEW w \in Windows, Good(h, t), h.entry[w].closed, h.entry[w].used
    PROVE  Closes(h, CloseLoop(h, w)) /\ Good(CloseLoop(h, w), t)
<1>1. h \in H5States /\ Known(h, t) /\ WindowOK(h, w)
  BY DEF Good, Core
<1>2. 0 \notin h.entry[w].extra /\ h.entry[w].stage = "closed"
  BY <1>1 DEF Known, WindowOK
<1> QED BY <1>1, <1>2, CloseLoopCloses, ClosesKeeps

\* Without owners there is nothing to close.
LEMMA NoneOwned ==
    ASSUME NEW h, Owners(h) = {}
    PROVE  CloseAll(h) = h
<1> DEFINE iter == [s \in SUBSET {} |-> h]
           F(g) == [s \in SUBSET {} |-> IF s = {} THEN h
                      ELSE LET x == CHOOSE x \in s : TRUE IN CloseWindow(g[s \ {x}], x)]
           good(g) == g = F(g)
           pick == CHOOSE g : good(g)
<1>1. good(iter)
  OBVIOUS
<1>2. good(pick)
  BY <1>1
<1>3. pick[{}] = h
  BY <1>2
<1>5. CloseAll(h) = pick[{}]
  BY DEF CloseAll, FoldSet, MapThenFoldSet
<1> QED BY <1>3, <1>5

\* Closing all windows keeps the core.
LEMMA CloseAllKeeps ==
    ASSUME NEW h, NEW t, Good(h, t)
    PROVE  Closes(h, CloseAll(h)) /\ Good(CloseAll(h), t)
<1>1. CASE Owners(h) = {}
  BY <1>1, NoneOwned, ClosesNothing DEF Good
<1>2. CASE Owners(h) # {}
  <2>1. PICK w \in Windows : h.entry[w].in
    BY <1>2 DEF Owners
  <2>2. SessionsOK(h, t) /\ WindowOK(h, w) /\ h \in H5States
    BY DEF Good, Core
  <2>3. Owners(h) = {w}
    BY <2>1, <2>2 DEF Owners, SessionsOK
  <2>4. h.entry[w].used
    BY <2>1, <2>2, EntryOf DEF WindowOK, Entries
  <2> QED BY <2>3, <2>4, OneOwned, CloseKeeps
<1> QED BY <1>1, <1>2

\* What a retirement does to the rest.
Retires(h, r, S) ==
    /\ r \in H5States
    /\ h.retired \subseteq r.retired /\ r.retired \subseteq h.retired \cup S
    /\ h.exhausted => r.exhausted
    /\ S \subseteq r.retired \/ r.exhausted
    /\ r.destroyed = h.destroyed
    /\ \A w \in Windows : SameHold(h.entry[w], r.entry[w]) /\ Closing(h.entry[w], r.entry[w])
    /\ \A p \in h.pending : p.method \in {"attach", "detach"} => p \in r.pending
    /\ \A p \in r.pending : p.method # "detach" => p \in h.pending

\* Sessions that ended can be retired, even if that closes all windows.
LEMMA RetireKeeps ==
    ASSUME NEW h, NEW t, NEW S, Good(h, t), S \subseteq 1 .. t.made, S \cap t.live = {},
           \A i \in DOMAIN t.in : t.in[i].op = "reply" => t.in[i].s \notin S
    PROVE  Retires(h, RetireIds(h, S), S) /\ Good(RetireIds(h, S), t)
<1>0. S \in SUBSET Nat
  BY DEF Good, TargetStates
<1> DEFINE fit == {s \in S : Cardinality(h.retired \cup {x \in S : x <= s}) <= MaxRetired}
           r == [h EXCEPT !.retired = @ \cup fit]
           x == [r EXCEPT !.exhausted = TRUE]
<1>1. h \in H5States /\ t.made \in Nat
  BY DEF Good, TargetStates
<1>2. fit \subseteq S
  OBVIOUS
<1>3. RetireIds(h, S) = IF S \subseteq r.retired \/ h.exhausted THEN r ELSE CloseAll(x)
  BY DEF RetireIds
<1> HIDE DEF fit
<1>4. h.retired \cup fit \in SUBSET Nat
  <2>1. h.retired \in SUBSET Nat
    BY <1>1 DEF H5States
  <2> HIDE DEF r, x
  <2> QED BY <1>0, <1>2, <2>1
<1>5. /\ r.retired = h.retired \cup fit /\ r.exhausted = h.exhausted
      /\ Grown(h, r, S)
  BY <1>1, <1>2, <1>4 DEF Grown, H5States
<1>6. /\ x.retired = h.retired \cup fit /\ x.exhausted
      /\ Grown(h, x, S)
  BY <1>1, <1>2, <1>4 DEF Grown, H5States
<1> HIDE DEF r, x
<1>7. Good(r, t) /\ Good(x, t)
  BY <1>5, <1>6, GrownKeeps
<1>8. ASSUME NEW g, NEW y, Grown(h, g, S), Closes(g, y), Good(g, t), S \subseteq g.retired \/ g.exhausted
      PROVE  Retires(h, y, S)
  <2>1. News(g, t, y)
    BY <1>8, ClosesIsNews
  <2>2. \A p \in h.pending : p.method \in {"attach", "detach"} => p \in y.pending
    BY <1>8, <2>1 DEF News, Grown
  <2>3. \A p \in y.pending : p.method # "detach" => p \in h.pending
    BY <1>8, <2>1 DEF News, NewDetach, Grown
  <2>4. \A w \in Windows : SameHold(h.entry[w], y.entry[w]) /\ Closing(h.entry[w], y.entry[w])
    BY <1>8 DEF Closes, Grown
  <2> QED BY <1>8, <2>2, <2>3, <2>4 DEF Retires, Closes, Grown
<1>9. CASE S \subseteq r.retired \/ h.exhausted
  BY <1>3, <1>5, <1>7, <1>8, <1>9, ClosesNothing DEF Grown
<1>10. CASE ~ (S \subseteq r.retired \/ h.exhausted)
  BY <1>3, <1>6, <1>7, <1>8, <1>10, CloseAllKeeps
<1> QED BY <1>9, <1>10

\* Closing disturbs neither the roots nor what is shown as connected.
LEMMA ClosesShown ==
    ASSUME NEW h, NEW t, NEW r, Closes(h, r)
    PROVE  (Roots(h) => Roots(r)) /\ (Conn(h, t) => Conn(r, t))
<1>1. \A w \in Windows : /\ r.entry[w].root = h.entry[w].root
                         /\ r.entry[w].stage = h.entry[w].stage \/ r.entry[w].stage = "closed"
  BY DEF Closes, SameHold, Closing
<1>2. r.retired = h.retired
  BY DEF Closes
<1> QED BY <1>1, <1>2 DEF Roots, Conn

\* The page is known to be gone.
LEMMA DestroyKeeps ==
    ASSUME NEW h, NEW t, NEW r, Good(h, t), r \in H5States,
           r.entry = h.entry, r.pending = h.pending, r.retired = h.retired,
           r.exhausted = h.exhausted, r.ids = h.ids, r.sent = h.sent, r.destroyed = TRUE,
           t.dead, \A i \in DOMAIN t.in : /\ t.in[i].op \notin {"attached", "destroyed"}
                                          /\ t.in[i].op = "reply" => t.in[i].s = 0
    PROVE  Good(r, t)
<1>1. h \in H5States /\ t \in TargetStates /\ Core(h, t)
  BY DEF Good
<1>2. Numbering(r, t)
  BY <1>1 DEF Core, Numbering
<1>3. Known(r, t)
  BY <1>1 DEF Core, Known
<1>4. ASSUME NEW w \in Windows PROVE WindowOK(r, w)
  BY <1>1 DEF Core, WindowOK
<1>5. SessionsOK(r, t)
  BY <1>1 DEF Owned, Coming, AnsweredBy, Unmakes, Core, SessionsOK
<1>6. PageOK(r, t)
  BY <1>1 DEF Core, PageOK
<1>7. Releases(r, t)
  BY <1>1 DEF Core, Releases, AnsweredBy
<1> QED BY <1>1, <1>2, <1>3, <1>4, <1>5, <1>6, <1>7 DEF Good, Core

\* An attachment is given up: only its late reply is awaited.
LEMMA LateKeeps ==
    ASSUME NEW h, NEW t, NEW r, NEW p \in h.pending, NEW q \in Requests, Good(h, t), Alike(h, r),
           r.entry = h.entry, r.pending = (h.pending \ {p}) \cup {q},
           q.id = p.id, q.w = p.w, q.method = p.method, q.s = p.s
    PROVE  Good(r, t)
<1>1. h \in H5States /\ t \in TargetStates /\ r \in H5States /\ Core(h, t)
      /\ r.retired = h.retired /\ r.destroyed = h.destroyed /\ r.exhausted = h.exhausted
      /\ r.ids = h.ids /\ r.sent = h.sent
  BY DEF Good, Alike
<1> DEFINE Was(x) == IF x = q THEN p ELSE x
<1>2. \A x \in r.pending : /\ Was(x) \in h.pending
                           /\ Was(x).id = x.id /\ Was(x).w = x.w
                           /\ Was(x).method = x.method /\ Was(x).s = x.s
  OBVIOUS
<1>3. \A x \in h.pending : \E y \in r.pending : y.id = x.id /\ y.method = x.method
  OBVIOUS
<1>4. \A x, y \in h.pending : x.id = y.id => x = y
  BY <1>1 DEF Core, Numbering
<1>5. \A x, y \in r.pending : Was(x) = Was(y) => x = y
  OBVIOUS
<1> HIDE DEF Was
<1>6. Numbering(r, t)
  BY <1>1, <1>2, <1>4, <1>5 DEF Core, Numbering
<1>7. Known(r, t)
  BY <1>1, <1>2 DEF Core, Known
<1>8. ASSUME NEW w \in Windows PROVE WindowOK(r, w)
  BY <1>1, <1>2, <1>5 DEF Core, WindowOK
<1>9. \A s, i : \A x \in r.pending : AnsweredBy(r, t, s, x, i) <=> AnsweredBy(h, t, s, Was(x), i)
  BY <1>2 DEF AnsweredBy
<1>10. \A s : (Owned(h, s) <=> Owned(r, s)) /\ (Coming(h, t, s) => Coming(r, t, s))
  BY <1>3 DEF Owned, Coming, AnsweredBy
<1>11. SessionsOK(r, t)
  BY SMTT(20), <1>1, <1>2, <1>9, <1>10 DEF Core, Unmakes, SessionsOK
<1>12. PageOK(r, t)
  BY <1>1, <1>3 DEF Core, PageOK
<1>13. Releases(r, t)
  BY <1>1, <1>2, <1>9 DEF Core, Releases
<1> QED BY <1>1, <1>6, <1>7, <1>8, <1>11, <1>12, <1>13 DEF Good, Core

-----------------------------------------------------------------------------
(* What users do, and dropped requests                                      *)

\* The invariant of the class and the target together.
Inv(h, t) == Good(h, t) /\ Roots(h) /\ Conn(h, t)

\* Closing keeps it.
LEMMA InvCloses ==
    ASSUME NEW h, NEW t, NEW r, Inv(h, t), Closes(h, r)
    PROVE  Inv(r, t)
  BY ClosesKeeps, ClosesShown DEF Inv

\* CloseWindow keeps it.
LEMMA InvClose ==
    ASSUME NEW h, NEW t, NEW w \in Windows, Inv(h, t), h.entry[w].used
    PROVE  Inv(CloseWindow(h, w), t)
  BY CloseKeeps, InvCloses DEF Inv

\* The state with another entry for w and other requests.
With(h, w, f, P) == [h EXCEPT !.entry = [h.entry EXCEPT ![w] = f], !.pending = P]

\* That leaves the rest alone.
LEMMA WithEntry ==
    ASSUME NEW h \in H5States, NEW w \in Windows, NEW f \in Entries, NEW P \in SUBSET Requests
    PROVE  LET r == With(h, w, f, P) IN
           /\ Alike(h, r) /\ r.pending = P /\ r.entry[w] = f
           /\ \A v \in Windows : v # w => r.entry[v] = h.entry[v]
<1> DEFINE ents == [h.entry EXCEPT ![w] = f]
           r == [h EXCEPT !.entry = ents, !.pending = P]
<1>1. h.entry \in [Windows -> Entries]
  BY DEF H5States
<1>2. ents \in [Windows -> Entries] /\ ents[w] = f /\ \A v \in Windows : v # w => ents[v] = h.entry[v]
  BY <1>1
<1> HIDE DEF ents
<1>3. Alike(h, r) /\ r.pending = P /\ r.entry = ents
  BY <1>2 DEF Alike, H5States
<1> QED BY <1>2, <1>3 DEF ents, With

\* Dropping requests leaves the rest alone.
LEMMA WithoutRequests ==
    ASSUME NEW h \in H5States, NEW X
    PROVE  LET r == [h EXCEPT !.pending = @ \ X] IN
           Alike(h, r) /\ r.entry = h.entry /\ r.pending = h.pending \ X
  BY DEF Alike, H5States

\* An entry that owns nothing new, for what its requests await.
LEMMA SameRootsBecome ==
    ASSUME NEW h, NEW t, NEW r, NEW w \in Windows, Good(h, t), r.entry[w].in => h.entry[w].in,
           r.entry[w].root = h.entry[w].root, r.entry[w].extra = h.entry[w].extra
    PROVE  Becomes(h, t, r, w)
<1>1. Known(h, t) /\ SessionsOK(h, t)
  BY DEF Good, Core
<1> QED BY <1>1 DEF Becomes, Known, SessionsOK

\* Requests given up, and flags of one entry set: roots and extra stay.
LEMMA FlagsKeep ==
    ASSUME NEW h, NEW t, NEW r, NEW w \in Windows, Good(h, t), Alike(h, r), r.pending = h.pending,
           \A v \in Windows : v # w => r.entry[v] = h.entry[v],
           WindowOK(r, w), r.entry[w].in => h.entry[w].in,
           r.entry[w].root = h.entry[w].root, r.entry[w].extra = h.entry[w].extra
    PROVE  Good(r, t)
  BY SameRootsBecome, EntryKeeps

\* A window is closed, by its user or by closeTarget.
LEMMA InvDisconnect ==
    ASSUME NEW h, NEW t, NEW w \in Windows, Inv(h, t), h.entry[w].in
    PROVE  Inv(CloseWindow(h, w), t)
<1>1. WindowOK(h, w) /\ h.entry[w] \in Entries
  BY DEF Inv, Good, Core, H5States
<1>2. h.entry[w].used
  BY <1>1 DEF WindowOK, Entries
<1> QED BY <1>2, InvClose

\* The source is invalidated.
LEMMA InvCloseAll ==
    ASSUME NEW h, NEW t, Inv(h, t)
    PROVE  Inv(CloseAll(h), t)
  BY CloseAllKeeps, InvCloses DEF Inv

\* A request that is not an attachment, or one for a page that is gone.
LEMMA InvDrop ==
    ASSUME NEW h, NEW t, NEW r, NEW X, Inv(h, t), Alike(h, r), r.entry = h.entry,
           r.pending = h.pending \ X, \A p \in X \cap h.pending : Settled(h, t, p)
    PROVE  Inv(r, t)
<1>1. Good(r, t)
  BY DropKeeps DEF Inv
<1>2. r.retired = h.retired
  BY DEF Alike
<1> QED BY <1>1, <1>2 DEF Inv, Roots, Conn

\* Nothing is owed for a request that attaches nothing, or nothing any more.
LEMMA GoneIsSettled ==
    ASSUME NEW h, NEW t, Good(h, t), NEW p \in h.pending,
           p.method # "attach" \/ h.entry[p.w].targetGone
    PROVE  Settled(h, t, p)
<1>1. SUFFICES ASSUME p.method = "attach", h.entry[p.w].targetGone PROVE Settled(h, t, p)
  BY DEF Settled
<1>2. h \in H5States /\ (\A w \in Windows : WindowOK(h, w)) /\ PageOK(h, t) /\ Known(h, t)
  BY DEF Good, Core
<1>3. p.w \in Windows
  BY <1>2 DEF H5States, Requests
<1>4. h.destroyed
  BY <1>1, <1>2, <1>3 DEF WindowOK
<1>5. 0 \notin t.ours
  BY <1>2 DEF Known
<1> QED BY <1>2, <1>4, <1>5 DEF Settled, PageOK, AnsweredBy

\* A request is given up.
LEMMA InvTimesOut ==
    ASSUME NEW h, NEW t, NEW p \in h.pending, Inv(h, t)
    PROVE  Inv(CASE p.method = "detach" ->
                    [h EXCEPT !.pending = @ \ {p}, !.entry[p.w].detaching = 0]
               [] p.method = "attach" /\ ~ h.entry[p.w].targetGone ->
                    CloseWindow([h EXCEPT !.pending = (@ \ {p}) \cup {[p EXCEPT !.late = TRUE]}], p.w)
               [] OTHER -> CloseWindow([h EXCEPT !.pending = @ \ {p}], p.w), t)
<1>1. h \in H5States /\ p \in Requests /\ p.w \in Windows /\ Good(h, t) /\ h.pending \in SUBSET Requests
  BY DEF Inv, Good, H5States, Requests
<1>2. WindowOK(h, p.w) /\ h.entry[p.w] \in Entries
  BY <1>1 DEF Good, Core, H5States
<1>3. h.entry[p.w].used
  BY <1>2 DEF WindowOK, Entries
<1> DEFINE d == [h EXCEPT !.pending = @ \ {p}]
<1>4. Alike(h, d) /\ d.entry = h.entry /\ d.pending = h.pending \ {p}
  BY <1>1, WithoutRequests
<1>5. CASE p.method = "detach"
  <2> DEFINE e == h.entry[p.w]
             f == [e EXCEPT !.detaching = 0]
             r == With(d, p.w, f, d.pending)
  <2>1. Inv(d, t)
    BY <1>1, <1>4, <1>5, InvDrop, GoneIsSettled
  <2>2. [h EXCEPT !.pending = @ \ {p}, !.entry[p.w].detaching = 0] = r
    BY <1>1, <1>2 DEF H5States, With
  <2>3. f \in Entries /\ f.root = e.root /\ f.extra = e.extra /\ f.in = e.in /\ f.stage = e.stage
        /\ f.used = e.used /\ f.closed = e.closed /\ f.attachPending = e.attachPending
        /\ f.targetGone = e.targetGone /\ f.detaching = 0
    BY <1>2 DEF Entries
  <2> HIDE DEF f, d
  <2>4. /\ Alike(d, r) /\ r.pending = d.pending /\ r.entry[p.w] = f
        /\ \A v \in Windows : v # p.w => r.entry[v] = d.entry[v]
    BY <1>1, <2>1, <2>3, WithEntry DEF Inv, Good, H5States
  <2> HIDE DEF r
  <2>5. WindowOK(d, p.w)
    BY <1>1, <2>1 DEF Inv, Good, Core
  <2>6. WindowOK(r, p.w)
    BY SMTT(20), <1>4, <2>3, <2>4, <2>5 DEF WindowOK, Alike
  <2>7. Good(r, t)
    BY <1>1, <1>4, <2>1, <2>3, <2>4, <2>6, FlagsKeep DEF Inv
  <2>8. \A v \in Windows : r.entry[v].root = d.entry[v].root /\ r.entry[v].stage = d.entry[v].stage
    BY <1>4, <2>3, <2>4
  <2>9. Roots(r) /\ Conn(r, t)
    BY <2>1, <2>4, <2>8 DEF Inv, Roots, Conn, Alike
  <2> QED BY <1>5, <2>2, <2>7, <2>9 DEF Inv
<1>6. CASE p.method = "attach" /\ ~ h.entry[p.w].targetGone
  <2> DEFINE q == [p EXCEPT !.late = TRUE]
             r == [h EXCEPT !.pending = (@ \ {p}) \cup {q}]
  <2>1. q \in Requests /\ q.id = p.id /\ q.w = p.w /\ q.method = p.method /\ q.s = p.s
    BY <1>1 DEF Requests
  <2> HIDE DEF q
  <2>2. Alike(h, r) /\ r.entry = h.entry /\ r.pending = (h.pending \ {p}) \cup {q}
    BY <1>1, <2>1 DEF Alike, H5States
  <2> HIDE DEF r
  <2>3. Good(r, t)
    BY <1>1, <2>1, <2>2, LateKeeps
  <2>4. Inv(r, t)
    BY <2>2, <2>3 DEF Inv, Roots, Conn, Alike
  <2>5. Inv(CloseWindow(r, p.w), t)
    BY <1>1, <1>3, <2>2, <2>4, InvClose
  <2> QED BY <1>6, <2>5 DEF r, q
<1>7. CASE p.method # "detach" /\ ~ (p.method = "attach" /\ ~ h.entry[p.w].targetGone)
  <2>1. Inv(d, t)
    BY <1>1, <1>4, <1>7, InvDrop, GoneIsSettled
  <2>2. Inv(CloseWindow(d, p.w), t)
    BY <1>1, <1>3, <1>4, <2>1, InvClose
  <2> QED BY <1>7, <2>2
<1> QED BY <1>5, <1>6, <1>7

\* A window is opened on a page that no window owns.
LEMMA InvOpen ==
    ASSUME NEW h, NEW t, NEW w \in Windows, Inv(h, t), ~ h.entry[w].used, Owners(h) = {}
    PROVE  Inv(Request([h EXCEPT !.entry[w] = [NoEntry EXCEPT !.used = TRUE, !.in = TRUE, !.stage = "targets"]],
                       w, "targets", 0), t)
<1> DEFINE f == [NoEntry EXCEPT !.used = TRUE, !.in = TRUE, !.stage = "targets"]
           g == With(h, w, f, h.pending)
           r == Request(g, w, "targets", 0)
<1>1. h \in H5States /\ Good(h, t) /\ h.pending \in SUBSET Requests /\ h.entry \in [Windows -> Entries]
      /\ h.entry[w] \in Entries
  BY DEF Inv, Good, H5States
<1>2. f \in Entries /\ f.used /\ f.in /\ f.stage = "targets" /\ f.root = 0 /\ f.extra = {}
      /\ ~ f.closed /\ ~ f.attachPending /\ ~ f.targetGone /\ f.detaching = 0
  BY DEF NoEntry, Entries, Stages
<1> HIDE DEF f
<1>3. [h EXCEPT !.entry[w] = f] = g
  BY <1>1 DEF H5States, With
<1>4. /\ Alike(h, g) /\ g.pending = h.pending /\ g.entry[w] = f
      /\ \A v \in Windows : v # w => g.entry[v] = h.entry[v]
  BY <1>1, <1>2, WithEntry
<1> HIDE DEF g
<1>5. WindowOK(h, w) /\ SessionsOK(h, t) /\ Known(h, t)
  BY <1>1 DEF Good, Core
<1>6. \A p \in h.pending : p.w # w
  BY <1>5 DEF WindowOK
<1>7. \A v \in Windows : ~ h.entry[v].in
  BY DEF Owners
<1>8. Requested(g, r, w, "targets", 0)
  BY <1>4, RequestDoes DEF Alike, Methods
<1> HIDE DEF r
<1>9. r.entry = g.entry /\ r.retired = g.retired /\ r.destroyed = g.destroyed
  BY <1>8 DEF Requested
<1>10. Good(g, t)
  <2>1. \A v \in Windows : h.entry[v].root = 0
    BY <1>1, <1>7 DEF Good, Core, WindowOK
  <2>2. WindowOK(g, w)
    BY <1>2, <1>4, <1>6 DEF WindowOK
  <2>3. Numbering(g, t) /\ Known(g, t) /\ PageOK(g, t) /\ SessionsOK(g, t) /\ Releases(g, t)
    <3>1. Numbering(g, t)
      BY <1>1, <1>4 DEF Good, Core, Numbering, Alike
    <3>2. Known(g, t)
      BY <1>1, <1>2, <1>4, <1>5 DEF Good, TargetStates, Known, Alike
    <3>3. PageOK(g, t)
      BY <1>1, <1>4 DEF Good, Core, PageOK, Alike
    <3>4. SessionsOK(g, t)
      BY <1>1, <1>2, <1>4, <1>5, <1>6, <1>7, <2>1 DEF Owned, Coming, AnsweredBy, Unmakes,
         SessionsOK, Alike, Requests
    <3>5. Releases(g, t)
      BY <1>1, <1>2, <1>4, <2>1 DEF Good, Core, Releases, AnsweredBy
    <3> QED BY <3>1, <3>2, <3>3, <3>4, <3>5
  <2>4. \A v \in Windows : WindowOK(g, v)
    BY <1>1, <1>4, <2>2 DEF Good, Core, WindowOK, Alike
  <2> QED BY <1>1, <1>4, <2>3, <2>4 DEF Good, Core, Alike
<1>11. WindowOK(r, w)
  <2> DEFINE new == [id |-> r.ids, w |-> w, method |-> "targets", s |-> 0, late |-> FALSE]
  <2>1. r.pending = h.pending \cup {new} /\ new.method = "targets"
    BY <1>4, <1>8 DEF Requested
  <2> HIDE DEF new
  <2>2. \A p \in r.pending : p.w = w => p = new
    BY <1>6, <2>1
  <2> QED BY <1>2, <1>4, <1>9, <2>1, <2>2 DEF WindowOK
<1>12. Good(r, t)
  BY <1>1, <1>8, <1>10, <1>11, RequestKeeps DEF Good, TargetStates, Methods
<1>13. Roots(r) /\ Conn(r, t)
  BY <1>2, <1>4, <1>5, <1>9 DEF Known, Alike, Inv, Roots, Conn
<1> QED BY <1>3, <1>12, <1>13 DEF Inv, r, f

-----------------------------------------------------------------------------
(* Frames and replies                                                       *)

\* The target without the frame that is read.
Read(t) == [t EXCEPT !.in = Tail(@)]

\* The other frames stay.
LEMMA ReadFrame ==
    ASSUME NEW t \in TargetStates, t.in # <<>>
    PROVE  /\ Read(t) \in TargetStates /\ Read(t).in = Tail(t.in)
           /\ Read(t).dead = t.dead /\ Read(t).live = t.live
           /\ Read(t).made = t.made /\ Read(t).ours = t.ours
           /\ 1 \in DOMAIN t.in /\ Head(t.in) = t.in[1] /\ t.in[1] \in Frames
           /\ \A i \in DOMAIN Read(t).in : i + 1 \in DOMAIN t.in /\ i + 1 # 1 /\ Read(t).in[i] = t.in[i + 1]
           /\ \A j \in DOMAIN t.in : j # 1 => \E i \in DOMAIN Read(t).in : Read(t).in[i] = t.in[j]
<1>1. /\ Tail(t.in) \in Seq(Frames) /\ Head(t.in) = t.in[1] /\ 1 \in DOMAIN t.in /\ Head(t.in) \in Frames
      /\ \A i \in DOMAIN Tail(t.in) : i \in Nat /\ i >= 1 /\ i + 1 \in DOMAIN t.in /\ Tail(t.in)[i] = t.in[i + 1]
      /\ \A i \in DOMAIN t.in : i \in Nat /\ i >= 1 /\ (i # 1 => i - 1 \in DOMAIN Tail(t.in))
  BY TailOfFrames
<1>2. /\ Read(t) \in TargetStates /\ Read(t).in = Tail(t.in)
      /\ Read(t).dead = t.dead /\ Read(t).live = t.live
      /\ Read(t).made = t.made /\ Read(t).ours = t.ours
  BY <1>1 DEF TargetStates, Read
<1>3. \A j \in DOMAIN t.in : j # 1 => \E i \in DOMAIN Read(t).in : Read(t).in[i] = t.in[j]
  <2> SUFFICES ASSUME NEW j \in DOMAIN t.in, j # 1
               PROVE  \E i \in DOMAIN Read(t).in : Read(t).in[i] = t.in[j]
    OBVIOUS
  <2>1. j \in Nat /\ j - 1 \in DOMAIN Tail(t.in)
    BY <1>1
  <2> DEFINE k == j - 1
  <2>2. k + 1 = j
    BY <2>1
  <2>3. k \in DOMAIN Tail(t.in)
    BY <2>1
  <2> HIDE DEF k
  <2>4. Tail(t.in)[k] = t.in[k + 1]
    BY <1>1, <2>3
  <2> QED BY <1>2, <2>2, <2>3, <2>4
<1> QED BY <1>1, <1>2, <1>3

\* The session shown as connected does not end with the frame that is read.
LEMMA ReadShown ==
    ASSUME NEW h, NEW t \in TargetStates, t.in # <<>>, Conn(h, t),
           \A w \in Windows : h.entry[w].stage \in {"info", "connected"} =>
              ~ EndOf(Head(t.in), h.entry[w].root)
    PROVE  Conn(h, Read(t))
<1>1. /\ Head(t.in) = t.in[1] /\ Read(t).live = t.live
      /\ \A j \in DOMAIN t.in : j # 1 => \E i \in DOMAIN Read(t).in : Read(t).in[i] = t.in[j]
  BY ReadFrame
<1>2. ASSUME NEW w \in Windows, h.entry[w].stage \in {"info", "connected"}
      PROVE  /\ h.entry[w].root # 0
             /\ h.entry[w].root \in Read(t).live \/ \E i \in DOMAIN Read(t).in : EndOf(Read(t).in[i], h.entry[w].root)
  BY <1>1, <1>2 DEF Conn
<1> QED BY <1>2 DEF Conn

\* A frame is read that ends nothing shown and answers no attachment.
LEMMA InvRead ==
    ASSUME NEW h, NEW t, Inv(h, t), t.in # <<>>,
           Head(t.in).op = "reply" =>
              \A p \in h.pending : p.method = "attach" => p.id # Head(t.in).id,
           \A w \in Windows : h.entry[w].stage \in {"info", "connected"} =>
              ~ EndOf(Head(t.in), h.entry[w].root)
    PROVE  Inv(h, Read(t))
<1>1. Good(h, Read(t))
  BY ConsumeKeeps DEF Inv, Read
<1>2. Conn(h, Read(t))
  BY ReadShown DEF Inv, Good
<1> QED BY <1>1, <1>2 DEF Inv

\* A reply is read once: no other frame, command or request has its number.
LEMMA OneReply ==
    ASSUME NEW h, NEW t, Good(h, t), t.in # <<>>, Head(t.in).op = "reply",
           NEW p \in h.pending, p.id = Head(t.in).id
    PROVE  /\ \A i \in DOMAIN t.in : t.in[i].op = "reply" /\ t.in[i].id = p.id => i = 1
           /\ \A i \in DOMAIN h.sent : h.sent[i].id # p.id
           /\ \A q \in h.pending : q.id = p.id => q = p
           /\ p.method = "attach" => Head(t.in).s \in t.ours \cup {0} /\ (Head(t.in).ok <=> Head(t.in).s # 0)
           /\ p.method # "attach" => Head(t.in).s = 0
           /\ p.method = "detach" /\ Head(t.in).ok => p.s \notin t.live
           /\ p.w \in Windows /\ h.entry[p.w] \in Entries /\ WindowOK(h, p.w) /\ h.entry[p.w].used
<1>1. 1 \in DOMAIN t.in /\ Head(t.in) = t.in[1]
  BY ReadFrame DEF Good
<1>2. Numbering(h, t) /\ h \in H5States
  BY DEF Good, Core
<1>3. p.w \in Windows /\ h.entry[p.w] \in Entries
  BY <1>2 DEF H5States, Requests
<1>4. WindowOK(h, p.w)
  BY <1>3 DEF Good, Core
<1>5. h.entry[p.w].used
  BY <1>3, <1>4 DEF WindowOK, Entries
<1> QED BY <1>1, <1>2, <1>3, <1>4, <1>5 DEF Numbering

\* The state without the request p.
Without(h, p) == [h EXCEPT !.pending = @ \ {p}]

\* The request answered is dropped, and the reply read, unless it made a session.
LEMMA InvAnswered ==
    ASSUME NEW h, NEW t, Inv(h, t), t.in # <<>>, Head(t.in).op = "reply",
           NEW p \in h.pending, p.id = Head(t.in).id,
           p.method = "attach" => Head(t.in).s = 0 \/ Owned(h, Head(t.in).s)
    PROVE  /\ Inv(Without(h, p), Read(t))
           /\ Alike(h, Without(h, p)) /\ Without(h, p).entry = h.entry
           /\ Without(h, p).pending = h.pending \ {p}
<1> DEFINE d == Without(h, p)
<1>0. h \in H5States /\ Known(h, t) /\ Good(h, t)
  BY DEF Inv, Good, Core
<1>1. Alike(h, d) /\ d.entry = h.entry /\ d.pending = h.pending \ {p}
  BY <1>0, WithoutRequests DEF Without
<1> HIDE DEF d
<1>2. /\ \A i \in DOMAIN t.in : t.in[i].op = "reply" /\ t.in[i].id = p.id => i = 1
      /\ \A i \in DOMAIN h.sent : h.sent[i].id # p.id
      /\ \A q \in h.pending : q.id = p.id => q = p
  BY <1>0, OneReply
<1>3. 0 \notin t.ours /\ Head(t.in) = t.in[1]
  BY <1>0, ReadFrame DEF Known, Good
<1>4. Settled(h, t, p)
  BY <1>2, <1>3 DEF Settled, AnsweredBy
<1>5. Inv(d, t)
  BY <1>1, <1>4, InvDrop
<1>6. \A w : ~ EndOf(Head(t.in), w)
  BY DEF EndOf
<1>7. \A q \in d.pending : q.id # Head(t.in).id
  BY <1>1, <1>2
<1>8. Inv(d, Read(t))
  BY <1>5, <1>6, <1>7, InvRead
<1> QED BY <1>1, <1>8 DEF d

\* A reply nobody waits for; an event of no window or of a closed session.
LEMMA InvIgnored ==
    ASSUME NEW h, NEW t, Inv(h, t), t.in # <<>>,
           \/ Head(t.in).op = "reply" /\ \A p \in h.pending : p.id # Head(t.in).id
           \/ Head(t.in).op # "reply" /\ Head(t.in).s \in h.retired
           \/ Head(t.in).op \in {"attached", "event"}
           \/ Head(t.in).op = "detached" /\ {w \in Owners(h) : h.entry[w].root = Head(t.in).s} = {}
           \/ Head(t.in).op = "destroyed" /\ Owners(h) = {}
    PROVE  Inv(h, Read(t))
<1>1. h \in H5States /\ t \in TargetStates /\ Known(h, t) /\ \A w \in Windows : WindowOK(h, w)
  BY DEF Inv, Good, Core
<1>2. Head(t.in) = t.in[1] /\ 1 \in DOMAIN t.in
  BY <1>1, ReadFrame
<1>3. \A w \in Windows : h.entry[w].root \notin h.retired
                         /\ (h.entry[w].stage \in {"info", "connected"} => h.entry[w].root # 0)
                         /\ (h.entry[w].root # 0 => w \in Owners(h))
  BY <1>1 DEF Inv, Roots, Conn, WindowOK, Owners
<1>4. 0 \notin h.retired /\ (Head(t.in).op = "destroyed" => Head(t.in).s = 0)
  BY <1>1, <1>2 DEF Known
<1>5. \A w \in Windows : h.entry[w].stage \in {"info", "connected"} =>
              ~ EndOf(Head(t.in), h.entry[w].root)
  BY <1>3, <1>4 DEF EndOf
<1> QED BY <1>5, InvRead

-----------------------------------------------------------------------------
(* Replies                                                                  *)

\* Requests that stay, flags that change: the frame of the proofs below.
LEMMA InvFlags ==
    ASSUME NEW h, NEW t, NEW r, NEW w \in Windows, Inv(h, t), Alike(h, r), r.pending = h.pending,
           \A v \in Windows : v # w => r.entry[v] = h.entry[v],
           WindowOK(r, w), r.entry[w].in => h.entry[w].in,
           r.entry[w].root = h.entry[w].root, r.entry[w].extra = h.entry[w].extra,
           r.entry[w].stage \in {"info", "connected"} =>
              /\ r.entry[w].root # 0
              /\ r.entry[w].root \in t.live \/ \E i \in DOMAIN t.in : EndOf(t.in[i], r.entry[w].root)
    PROVE  Inv(r, t)
<1>1. Good(r, t)
  BY FlagsKeep DEF Inv
<1>2. \A v \in Windows : r.entry[v].root = h.entry[v].root
  OBVIOUS
<1>3. Roots(r)
  BY <1>2 DEF Inv, Roots, Alike
<1>4. Conn(r, t)
  BY DEF Inv, Conn
<1> QED BY <1>1, <1>3, <1>4 DEF Inv

\* A request made for w, which shows nothing as connected by it.
LEMMA InvRequest ==
    ASSUME NEW h, NEW t, NEW r, NEW w \in Windows, NEW method \in Methods, NEW s,
           Inv(h, t), Requested(h, r, w, method, s), WindowOK(r, w),
           method # "detach", s \in 0 .. t.made,
           method = "attach" => h.entry[w].root = 0 /\ h.entry[w].extra = {}
    PROVE  Inv(r, t)
<1>1. Good(r, t)
  BY RequestKeeps DEF Inv
<1>2. h.entry \in [Windows -> Entries] /\ \A v \in Windows : h.entry[v] \in Entries
  BY DEF Inv, Good, H5States
<1>3. r.retired = h.retired /\ \A v \in Windows : /\ r.entry[v].root = h.entry[v].root
                                                 /\ r.entry[v].stage = h.entry[v].stage
  BY <1>2 DEF Requested, Entries
<1> QED BY <1>1, <1>3 DEF Inv, Roots, Conn

\* What an entry with another stage is.
LEMMA StageEntry ==
    ASSUME NEW e \in Entries, NEW st \in Stages
    PROVE  LET f == [e EXCEPT !.stage = st] IN
           /\ f \in Entries /\ f.stage = st
           /\ f.used = e.used /\ f.in = e.in /\ f.root = e.root /\ f.extra = e.extra /\ f.closed = e.closed
           /\ f.attachPending = e.attachPending /\ f.targetGone = e.targetGone /\ f.detaching = e.detaching
  BY DEF Entries

\* What an entry with an attachment answered is.
LEMMA FlagEntry ==
    ASSUME NEW e \in Entries, NEW g \in BOOLEAN
    PROVE  LET f == [e EXCEPT !.attachPending = g] IN
           /\ f \in Entries /\ f.attachPending = g
           /\ f.used = e.used /\ f.in = e.in /\ f.root = e.root /\ f.extra = e.extra /\ f.closed = e.closed
           /\ f.stage = e.stage /\ f.targetGone = e.targetGone /\ f.detaching = e.detaching
  BY DEF Entries

\* What an entry with no release under way is.
LEMMA FreeEntry ==
    ASSUME NEW e \in Entries
    PROVE  LET f == [e EXCEPT !.detaching = 0] IN
           /\ f \in Entries /\ f.detaching = 0
           /\ f.used = e.used /\ f.in = e.in /\ f.root = e.root /\ f.extra = e.extra /\ f.closed = e.closed
           /\ f.stage = e.stage /\ f.targetGone = e.targetGone /\ f.attachPending = e.attachPending
  BY DEF Entries

\* Without answers: targets, info and detach that fail, or that change a stage.
LEMMA InvOtherReplies ==
    ASSUME NEW h, NEW t, Inv(h, t), t.in # <<>>, Head(t.in).op = "reply",
           NEW p \in h.pending, p.id = Head(t.in).id, p.method # "attach",
           p.method = "detach" => ~ Head(t.in).ok
    PROVE  Inv(Replied(Without(h, p), p, Head(t.in)), Read(t))
<1> DEFINE w == p.w
           e == h.entry[w]
           d == Without(h, p)
           u == Read(t)
           ok == Head(t.in).ok
<1>1. Inv(d, u) /\ Alike(h, d) /\ d.entry = h.entry /\ d.pending = h.pending \ {p}
  BY InvAnswered
<1>2. w \in Windows /\ e \in Entries /\ WindowOK(h, w) /\ e.used /\ p \in Requests /\ t \in TargetStates
      /\ h \in H5States
  BY OneReply DEF Inv, Good, H5States
<1>3. d \in H5States /\ d.pending \in SUBSET Requests /\ Good(d, u) /\ WindowOK(d, w)
      /\ d.entry \in [Windows -> Entries]
  BY <1>1, <1>2 DEF Inv, Good, Core, H5States
<1> HIDE DEF d, u
<1>4. p.method \in {"targets", "info", "detach"}
  BY <1>2 DEF Requests, Methods
<1>5. CASE p.method \in {"targets", "info"} /\ ~ ok
  BY <1>1, <1>2, <1>5, InvClose DEF Replied, d, u
<1>6. CASE p.method = "detach"
  <2> DEFINE f == [e EXCEPT !.detaching = 0]
             r == With(d, w, f, d.pending)
  <2>1. Replied(d, p, Head(t.in)) = r
    <3>1. Replied(d, p, Head(t.in)) = [d EXCEPT !.entry[w].detaching = 0]
      BY <1>6 DEF Replied
    <3> QED BY <1>1, <1>3, <3>1 DEF With, H5States
  <2>2. /\ f \in Entries /\ f.detaching = 0
        /\ f.used = e.used /\ f.in = e.in /\ f.root = e.root /\ f.extra = e.extra /\ f.closed = e.closed
        /\ f.stage = e.stage /\ f.targetGone = e.targetGone /\ f.attachPending = e.attachPending
    BY <1>2, FreeEntry
  <2> HIDE DEF f
  <2>3. /\ Alike(d, r) /\ r.pending = d.pending /\ r.entry[w] = f
        /\ \A v \in Windows : v # w => r.entry[v] = d.entry[v]
    BY <1>2, <1>3, <2>2, WithEntry
  <2> HIDE DEF r
  <2>4. WindowOK(r, w)
    BY SMTT(20), <1>1, <1>3, <2>2, <2>3 DEF WindowOK, Alike
  <2>5. f.stage \notin {"info", "connected"}
    BY <1>2, <1>6, <2>2 DEF WindowOK
  <2>20. /\ r.entry[w].in => d.entry[w].in
         /\ r.entry[w].root = d.entry[w].root /\ r.entry[w].extra = d.entry[w].extra
         /\ r.entry[w].stage \in {"info", "connected"} =>
              /\ r.entry[w].root # 0
              /\ r.entry[w].root \in u.live \/ \E i \in DOMAIN u.in : EndOf(u.in[i], r.entry[w].root)
    BY <1>1, <2>2, <2>3, <2>5
  <2>6. Inv(r, u)
    <3> HIDE DEF w, e
    <3> QED BY <1>1, <1>2, <2>3, <2>4, <2>20, InvFlags
  <2> QED BY <2>1, <2>6 DEF d, u
<1>7. CASE p.method = "info" /\ ok
  <2> DEFINE f == [e EXCEPT !.stage = "connected"]
             r == With(d, w, f, d.pending)
  <2>1. Replied(d, p, Head(t.in)) = r
    <3>1. Replied(d, p, Head(t.in)) = [d EXCEPT !.entry[w].stage = "connected"]
      BY <1>7 DEF Replied
    <3> QED BY <1>1, <1>3, <3>1 DEF With, H5States
  <2>2. /\ f \in Entries /\ f.stage = "connected"
        /\ f.used = e.used /\ f.in = e.in /\ f.root = e.root /\ f.extra = e.extra /\ f.closed = e.closed
        /\ f.attachPending = e.attachPending /\ f.targetGone = e.targetGone /\ f.detaching = e.detaching
    BY <1>2, StageEntry DEF Stages
  <2> HIDE DEF f
  <2>3. /\ Alike(d, r) /\ r.pending = d.pending /\ r.entry[w] = f
        /\ \A v \in Windows : v # w => r.entry[v] = d.entry[v]
    BY <1>2, <1>3, <2>2, WithEntry
  <2> HIDE DEF r
  <2>4. e.stage = "info"
    BY <1>2, <1>7 DEF WindowOK
  <2>5. \A q \in d.pending : q.w = w => q.method \notin {"info", "targets"}
    BY <1>1, <1>2, <1>7, <2>4 DEF WindowOK
  <2>6. WindowOK(r, w)
    BY <1>1, <1>3, <2>2, <2>3, <2>4, <2>5 DEF WindowOK, Alike
  <2>7. /\ e.root # 0
        /\ e.root \in u.live \/ \E i \in DOMAIN u.in : EndOf(u.in[i], e.root)
    BY <1>1, <1>2, <2>4 DEF Inv, Conn
  <2>20. /\ r.entry[w].in => d.entry[w].in
         /\ r.entry[w].root = d.entry[w].root /\ r.entry[w].extra = d.entry[w].extra
         /\ r.entry[w].stage \in {"info", "connected"} =>
              /\ r.entry[w].root # 0
              /\ r.entry[w].root \in u.live \/ \E i \in DOMAIN u.in : EndOf(u.in[i], r.entry[w].root)
    BY <1>1, <2>2, <2>3, <2>7
  <2>8. Inv(r, u)
    <3> HIDE DEF w, e
    <3> QED BY <1>1, <1>2, <2>3, <2>6, <2>20, InvFlags
  <2> QED BY <2>1, <2>8 DEF d, u
<1>8. CASE p.method = "targets" /\ ok
  <2> DEFINE f == [e EXCEPT !.stage = "attach"]
             g == With(d, w, f, d.pending)
             r == Request(g, w, "attach", 0)
  <2>1. Replied(d, p, Head(t.in)) = r
    <3>1. Replied(d, p, Head(t.in)) = Request([d EXCEPT !.entry[w].stage = "attach"], w, "attach", 0)
      BY <1>8 DEF Replied
    <3>2. [d EXCEPT !.entry[w].stage = "attach"] = g
      BY <1>1, <1>3 DEF With, H5States
    <3> QED BY <3>1, <3>2
  <2>2. /\ f \in Entries /\ f.stage = "attach"
        /\ f.used = e.used /\ f.in = e.in /\ f.root = e.root /\ f.extra = e.extra /\ f.closed = e.closed
        /\ f.attachPending = e.attachPending /\ f.targetGone = e.targetGone /\ f.detaching = e.detaching
    BY <1>2, StageEntry DEF Stages
  <2> HIDE DEF f
  <2>3. /\ Alike(d, g) /\ g.pending = d.pending /\ g.entry[w] = f
        /\ \A v \in Windows : v # w => g.entry[v] = d.entry[v]
    BY <1>2, <1>3, <2>2, WithEntry
  <2> HIDE DEF g
  <2>4. e.stage = "targets" /\ e.root = 0 /\ e.extra = {} /\ e.used /\ ~ e.closed /\ e.in
    BY <1>2, <1>8 DEF WindowOK
  <2>5. \A q \in d.pending : q.w = w => q.method \notin {"info", "targets", "attach"}
    BY <1>1, <1>2, <1>8, <2>4 DEF WindowOK
  <2>6. WindowOK(g, w)
    <3>1. WindowOK(d, w) /\ d.entry[w] = e /\ g.destroyed = d.destroyed /\ g.pending = d.pending /\ g.entry[w] = f
      BY <1>1, <1>3, <2>3 DEF Alike
    <3> HIDE DEF e, w
    <3>2. \A q \in g.pending : q.w = w =>
             /\ q.method \notin {"info", "targets", "attach"}
             /\ q.method = "detach" => f.closed /\ q.s # 0
      BY <2>2, <2>5, <3>1 DEF WindowOK
    <3>3. \A q, o \in g.pending :
             q.w = w /\ o.w = w /\ q.method = o.method /\ q.method # "detach" => q = o
      BY <3>1 DEF WindowOK
    <3>4. f.targetGone => g.destroyed
      BY <2>2, <3>1 DEF WindowOK
    <3>5. f.used /\ f.in /\ ~ f.closed /\ f.detaching = 0
      BY <2>2, <2>4, <3>1 DEF WindowOK
    <3> QED BY <2>2, <2>4, <3>1, <3>2, <3>3, <3>4, <3>5 DEF WindowOK
  <2>20. /\ g.entry[w].in => d.entry[w].in
         /\ g.entry[w].root = d.entry[w].root /\ g.entry[w].extra = d.entry[w].extra
         /\ g.entry[w].stage \in {"info", "connected"} =>
              /\ g.entry[w].root # 0
              /\ g.entry[w].root \in u.live \/ \E i \in DOMAIN u.in : EndOf(u.in[i], g.entry[w].root)
    BY <1>1, <2>2, <2>3
  <2>7. Inv(g, u)
    <3> HIDE DEF w, e
    <3> QED BY <1>1, <1>2, <2>3, <2>6, <2>20, InvFlags
  <2>8. Requested(g, r, w, "attach", 0)
    BY <1>2, <2>3, RequestDoes DEF Alike, Methods
  <2> HIDE DEF r
  <2>9. WindowOK(r, w)
    <3> DEFINE new == [id |-> r.ids, w |-> w, method |-> "attach", s |-> 0, late |-> FALSE]
    <3>1. new.w = w /\ new.method = "attach" /\ r.pending = g.pending \cup {new}
      BY <2>8 DEF Requested
    <3> HIDE DEF new
    <3>2. r.entry[w] = [f EXCEPT !.attachPending = @ \/ TRUE] /\ r.destroyed = g.destroyed
      BY <1>2, <2>3, <2>8 DEF Alike, H5States, Requested
    <3>3. /\ r.entry[w].attachPending /\ r.entry[w].stage = f.stage
          /\ r.entry[w].used = f.used /\ r.entry[w].in = f.in /\ r.entry[w].root = f.root
          /\ r.entry[w].extra = f.extra /\ r.entry[w].closed = f.closed
          /\ r.entry[w].targetGone = f.targetGone /\ r.entry[w].detaching = f.detaching
      BY <2>2, <3>2 DEF Entries
    <3>4. \A q \in r.pending : q.w = w => q = new \/ (q \in d.pending /\ q.method = "detach")
      BY <1>3, <2>3, <2>5, <3>1 DEF Requests, Methods
    <3>5. \A q \in d.pending : q.w = w /\ q.method = "detach" => e.closed
      BY <1>1, <1>3 DEF WindowOK
    <3> QED BY <2>2, <2>3, <2>4, <2>6, <3>1, <3>2, <3>3, <3>4, <3>5 DEF WindowOK
  <2>10. u.made \in Nat
    BY <1>3 DEF Good, TargetStates
  <2>11. Inv(r, u)
    BY <1>2, <2>2, <2>3, <2>4, <2>7, <2>8, <2>9, <2>10, InvRequest DEF Methods
  <2> QED BY <2>1, <2>11 DEF d, u
<1> QED BY <1>4, <1>5, <1>6, <1>7, <1>8

\* The reply of an attachment.
LEMMA InvAttached ==
    ASSUME NEW h, NEW t, Inv(h, t), t.in # <<>>, Head(t.in).op = "reply",
           NEW p \in h.pending, p.id = Head(t.in).id, p.method = "attach"
    PROVE  Inv(Attached(Without(h, p), p, Head(t.in)), Read(t))
<1> DEFINE w == p.w
           e == h.entry[w]
           d == Without(h, p)
           u == Read(t)
           s == Head(t.in).s
           ok == Head(t.in).ok
           a == [d EXCEPT !.entry[w].attachPending = FALSE]
           f == [e EXCEPT !.attachPending = FALSE]
           b == With(d, w, f, d.pending)
<1>1. /\ h \in H5States /\ h.pending \in SUBSET Requests /\ h.entry \in [Windows -> Entries]
      /\ t \in TargetStates /\ Good(h, t) /\ SessionsOK(h, t) /\ PageOK(h, t) /\ Known(h, t)
  BY DEF Inv, Good, Core, H5States
<1>2. /\ \A i \in DOMAIN t.in : t.in[i].op = "reply" /\ t.in[i].id = p.id => i = 1
      /\ \A i \in DOMAIN h.sent : h.sent[i].id # p.id
      /\ \A q \in h.pending : q.id = p.id => q = p
      /\ s \in t.ours \cup {0} /\ (ok <=> s # 0)
      /\ w \in Windows /\ e \in Entries /\ WindowOK(h, w) /\ e.used
  BY <1>1, OneReply
<1>3. /\ Alike(h, d) /\ d.entry = h.entry /\ d.pending = h.pending \ {p}
      /\ d \in H5States /\ d.pending \in SUBSET Requests
  <2>1. Alike(h, d) /\ d.entry = h.entry /\ d.pending = h.pending \ {p}
    BY <1>1, WithoutRequests DEF Without
  <2> HIDE DEF d
  <2> QED BY <1>1, <2>1 DEF Alike
<1>4. /\ Head(t.in) = t.in[1] /\ 1 \in DOMAIN t.in /\ u.live = t.live /\ u.made = t.made
      /\ \A j \in DOMAIN t.in : j # 1 => \E i \in DOMAIN u.in : u.in[i] = t.in[j]
  BY <1>1, ReadFrame
<1>5. \A q \in d.pending : q.w = w => q.method \notin {"attach", "targets", "info"}
  BY <1>2, <1>3 DEF WindowOK
<1> HIDE DEF d, u
<1>6. a = b
  BY <1>1, <1>3 DEF With, H5States
<1>7. /\ f \in Entries /\ ~ f.attachPending
      /\ f.used = e.used /\ f.in = e.in /\ f.root = e.root /\ f.extra = e.extra /\ f.closed = e.closed
      /\ f.stage = e.stage /\ f.targetGone = e.targetGone /\ f.detaching = e.detaching
  BY <1>2, FlagEntry
<1> HIDE DEF f, a
<1>8. /\ Alike(d, b) /\ b.pending = d.pending /\ b.entry[w] = f
      /\ \A v \in Windows : v # w => b.entry[v] = d.entry[v]
  BY <1>2, <1>3, <1>7, WithEntry
<1> HIDE DEF b
<1>9. WindowOK(b, w)
  <2>1. b.destroyed = h.destroyed
    BY <1>3, <1>8 DEF Alike
  <2>2. \A q \in b.pending : q \in h.pending
    BY <1>3, <1>8
  <2>3. \A q \in b.pending : q.w = w => q.method \notin {"attach", "targets", "info"}
    BY <1>5, <1>8
  <2> HIDE DEF w, e
  <2> QED BY ZenonT(40), <1>2, <1>7, <1>8, <2>1, <2>2, <2>3 DEF WindowOK, e
<1>10. s = 0 => Inv(b, u)
  <2> SUFFICES ASSUME s = 0 PROVE Inv(b, u)
    OBVIOUS
  <2>1. Inv(d, u)
    BY <1>1, InvAnswered DEF d, u
  <2>2. /\ b.entry[w].in => d.entry[w].in
        /\ b.entry[w].root = d.entry[w].root /\ b.entry[w].extra = d.entry[w].extra
        /\ b.entry[w].stage \in {"info", "connected"} =>
              /\ b.entry[w].root # 0
              /\ b.entry[w].root \in u.live \/ \E i \in DOMAIN u.in : EndOf(u.in[i], b.entry[w].root)
    BY <1>2, <1>3, <1>7, <1>8, <2>1 DEF Inv, Conn
  <2> HIDE DEF w, e
  <2> QED BY <1>2, <1>8, <1>9, <2>1, <2>2, InvFlags
<1>11. CASE e.targetGone
  <2>1. h.destroyed
    BY <1>2, <1>11 DEF WindowOK
  <2>2. s = 0 /\ ~ ok
    BY <1>1, <1>2, <1>4, <2>1 DEF PageOK
  <2>3. Attached(d, p, Head(t.in)) = a
    BY <1>3, <1>11, <2>2 DEF Attached, a
  <2> QED BY <1>6, <1>10, <2>2, <2>3 DEF d, u
<1>12. CASE ~ e.targetGone /\ ~ ok
  <2>1. Attached(d, p, Head(t.in)) = CloseWindow(a, w)
    BY <1>3, <1>12 DEF Attached, a
  <2>2. Inv(CloseWindow(b, w), u)
    BY <1>2, <1>7, <1>8, <1>10, <1>12, InvClose
  <2> QED BY <1>6, <2>1, <2>2 DEF d, u
<1>13. CASE ~ e.targetGone /\ ok
  <2>1. s # 0 /\ s \in t.ours /\ s \notin h.retired /\ s \in 1 .. t.made
    BY <1>1, <1>2, <1>4, <1>13 DEF SessionsOK, Known
  <2>2. e.in /\ e.attachPending /\ e.stage \notin {"targets", "info"}
    BY <1>2, <1>13 DEF WindowOK
  <2>3. e.root \in {0, s}
    BY <1>1, <1>2, <1>4 DEF SessionsOK, AnsweredBy
  <2> DEFINE m == [e EXCEPT !.root = s]
             g == With(h, w, m, h.pending)
  <2>4. /\ m \in Entries /\ m.root = s /\ m.used = e.used /\ m.in = e.in /\ m.extra = e.extra
        /\ m.closed = e.closed /\ m.attachPending = e.attachPending
        /\ m.stage = e.stage /\ m.targetGone = e.targetGone /\ m.detaching = e.detaching
    BY <1>1, <1>2, <2>1 DEF Entries, TargetStates
  <2> HIDE DEF m
  <2>5. /\ Alike(h, g) /\ g.pending = h.pending /\ g.entry[w] = m
        /\ \A v \in Windows : v # w => g.entry[v] = h.entry[v]
    BY <1>1, <1>2, <2>4, WithEntry
  <2> HIDE DEF g
  <2>6. AnsweredBy(h, t, s, p, 1)
    BY <1>4 DEF AnsweredBy
  <2>7. Good(g, t)
    <3>1. WindowOK(g, w)
      <4>1. g.destroyed = h.destroyed
        BY <2>5 DEF Alike
      <4> HIDE DEF w, e
      <4>2. e = h.entry[w]
        BY DEF e
      <4>3. \A q \in g.pending : q.w = w =>
               /\ q.method = "targets" => m.stage = "targets"
               /\ q.method = "info" => m.stage = "info"
               /\ q.method = "detach" => m.closed /\ q.s # 0
               /\ q.method = "attach" => (m.attachPending \/ m.targetGone) /\ m.stage \notin {"targets", "info"}
        BY <1>2, <2>4, <2>5, <4>2 DEF WindowOK
      <4>4. /\ \A p1, q \in g.pending : p1.w = w /\ q.w = w /\ p1.method = q.method /\ p1.method # "detach" => p1 = q
            /\ m.used /\ m.in /\ m.stage # "targets"
            /\ m.closed => m.stage = "closed"
            /\ m.detaching # 0 => m.closed
            /\ m.targetGone => h.destroyed
        BY <1>2, <2>2, <2>4, <2>5, <4>2 DEF WindowOK
      <4> QED BY <2>5, <4>1, <4>3, <4>4 DEF WindowOK
    <3>2. Becomes(h, t, g, w)
      <4>1. \A q \in h.pending : q.w = w /\ q.method = "attach" => q = p
        BY <1>2 DEF WindowOK
      <4>2. e.extra \subseteq 1 .. t.made /\ e.extra \cap t.ours = {} /\ 0 \notin t.ours
        BY <1>1, <1>2 DEF SessionsOK, Known
      <4>3. e.root \in t.ours => e.root = s
        BY <2>3, <4>2
      <4> HIDE DEF s, e
      <4> QED BY <1>4, <2>1, <2>4, <2>5, <2>6, <4>1, <4>2, <4>3 DEF Becomes, e
    <3> QED BY <1>1, <1>2, <2>5, <3>1, <3>2, EntryKeeps
  <2>8. Inv(g, t)
    BY <2>1, <2>3, <2>4, <2>5, <2>7 DEF Inv, Roots, Alike, Conn
  <2>9. Owned(g, s)
    BY <1>2, <2>4, <2>5 DEF Owned
  <2> DEFINE k == Without(g, p)
  <2>10. Inv(k, u) /\ Alike(g, k) /\ k.entry = g.entry /\ k.pending = g.pending \ {p}
    BY <2>5, <2>8, <2>9, InvAnswered DEF u
  <2> HIDE DEF k
  <2> DEFINE n == [f EXCEPT !.root = s]
             c == With(d, w, n, d.pending)
  <2>11. /\ n \in Entries /\ n.root = s /\ n.used = e.used /\ n.in = e.in /\ n.extra = e.extra
         /\ n.closed = e.closed /\ ~ n.attachPending
         /\ n.stage = e.stage /\ n.targetGone = e.targetGone /\ n.detaching = e.detaching
    BY <1>1, <1>7, <2>1 DEF Entries, TargetStates
  <2> HIDE DEF n
  <2>12. /\ Alike(d, c) /\ c.pending = d.pending /\ c.entry[w] = n
         /\ \A v \in Windows : v # w => c.entry[v] = d.entry[v]
    BY <1>2, <1>3, <2>11, WithEntry
  <2>13. [a EXCEPT !.entry[w].extra = IF d.entry[w].root \notin {0, s} THEN @ \cup {d.entry[w].root} ELSE @,
                   !.entry[w].root = s,
                   !.entry[w].in = @ \/ d.entry[w].closed] = c
    <3>1. b \in H5States /\ b.entry \in [Windows -> Entries] /\ b.entry[w] = f
      BY <1>8 DEF Alike, H5States
    <3>2. (IF d.entry[w].root \notin {0, s} THEN b.entry[w].extra \cup {d.entry[w].root} ELSE b.entry[w].extra) = f.extra
      BY <1>3, <2>3, <3>1
    <3>3. (b.entry[w].in \/ d.entry[w].closed) = TRUE
      BY <1>7, <2>2, <3>1
    <3> DEFINE y == [b EXCEPT !.entry[w].extra = f.extra, !.entry[w].root = s, !.entry[w].in = TRUE]
    <3>4. [b EXCEPT !.entry[w].extra = IF d.entry[w].root \notin {0, s} THEN @ \cup {d.entry[w].root} ELSE @,
                    !.entry[w].root = s,
                    !.entry[w].in = @ \/ d.entry[w].closed] = y
      <4> DEFINE x1 == IF d.entry[w].root \notin {0, s} THEN b.entry[w].extra \cup {d.entry[w].root} ELSE b.entry[w].extra
                 x2 == b.entry[w].in \/ d.entry[w].closed
      <4>1. x1 = f.extra /\ x2 = TRUE
        BY <3>2, <3>3
      <4> HIDE DEF x1, x2
      <4>2. [b EXCEPT !.entry[w].extra = x1, !.entry[w].root = s, !.entry[w].in = x2] = y
        BY <4>1
      <4> QED BY <4>2 DEF x1, x2
    <3>5. [f EXCEPT !.extra = f.extra, !.root = s, !.in = TRUE] = n
      <4>1. f.in = TRUE
        BY <1>7, <2>2
      <4> QED BY <1>7, <4>1 DEF n, Entries
    <3>6. y = [b EXCEPT !.entry = [b.entry EXCEPT ![w] = [f EXCEPT !.extra = f.extra, !.root = s, !.in = TRUE]]]
      BY ZenonT(40), <1>2, <3>1 DEF H5States
    <3>7. [b EXCEPT !.entry = [b.entry EXCEPT ![w] = n]] = c
      BY <1>3 DEF b, With, H5States
    <3> HIDE DEF c, y
    <3> QED BY <1>6, <3>4, <3>5, <3>6, <3>7
  <2> HIDE DEF c
  <2>14. WindowOK(c, w)
    <3>1. c.destroyed = h.destroyed
      BY <1>3, <2>12 DEF Alike
    <3>2. \A q \in c.pending : q \in h.pending
      BY <1>3, <2>12
    <3>3. \A q \in c.pending : q.w = w => q.method \notin {"attach", "targets", "info"}
      BY <1>5, <2>12
    <3> HIDE DEF w, e
    <3> QED BY ZenonT(40), <1>2, <2>2, <2>11, <2>12, <3>1, <3>2, <3>3 DEF WindowOK, e
  <2>15. Inv(c, u)
    <3>1. /\ c.pending = k.pending /\ Alike(k, c)
          /\ \A v \in Windows : v # w => c.entry[v] = k.entry[v]
      BY <1>3, <2>5, <2>10, <2>12 DEF Alike
    <3>2. /\ c.entry[w].in => k.entry[w].in
          /\ c.entry[w].root = k.entry[w].root /\ c.entry[w].extra = k.entry[w].extra
          /\ c.entry[w].stage \in {"info", "connected"} =>
              /\ c.entry[w].root # 0
              /\ c.entry[w].root \in u.live \/ \E i \in DOMAIN u.in : EndOf(u.in[i], c.entry[w].root)
      BY SMTT(20), <1>2, <2>4, <2>5, <2>10, <2>11, <2>12 DEF Inv, Conn
    <3> HIDE DEF w, e
    <3> QED BY <1>2, <2>10, <2>14, <3>1, <3>2, InvFlags
  <2>16. CASE e.closed \/ p.late
    <3>1. Attached(d, p, Head(t.in)) = CloseWindow(c, w)
      <4>1. d.retired = h.retired
        BY <1>3 DEF Alike
      <4>2. /\ ~ d.entry[w].targetGone /\ Head(t.in).ok /\ Head(t.in).s \notin d.retired
            /\ d.entry[w].closed \/ p.late
        BY <1>3, <1>13, <2>1, <2>16, <4>1
      <4> QED BY <2>13, <4>2 DEF Attached, a
    <3>2. Inv(CloseWindow(c, w), u)
      BY <1>2, <2>11, <2>12, <2>15, InvClose
    <3> QED BY <3>1, <3>2 DEF d, u
  <2>17. CASE ~ (e.closed \/ p.late)
    <3> DEFINE o == [n EXCEPT !.stage = "info"]
               j == With(c, w, o, c.pending)
               r == Request(j, w, "info", s)
    <3>1. Attached(d, p, Head(t.in)) = r
      <4>1. d.retired = h.retired
        BY <1>3 DEF Alike
      <4>2. Attached(d, p, Head(t.in)) = Request([c EXCEPT !.entry[w].stage = "info"], w, "info", s)
        <5>1. /\ ~ d.entry[w].targetGone /\ Head(t.in).ok /\ Head(t.in).s \notin d.retired
              /\ ~ (d.entry[w].closed \/ p.late)
          BY <1>3, <1>13, <2>1, <2>17, <4>1
        <5> QED BY <2>13, <5>1 DEF Attached, a
      <4>3. [c EXCEPT !.entry[w].stage = "info"] = j
        BY <1>2, <2>12 DEF Alike, With, H5States
      <4> QED BY <4>2, <4>3
    <3>2. /\ o \in Entries /\ o.stage = "info"
          /\ o.used = n.used /\ o.in = n.in /\ o.root = n.root /\ o.extra = n.extra /\ o.closed = n.closed
          /\ o.attachPending = n.attachPending /\ o.targetGone = n.targetGone /\ o.detaching = n.detaching
      BY <2>11, StageEntry DEF Stages
    <3> HIDE DEF o
    <3>3. /\ Alike(c, j) /\ j.pending = c.pending /\ j.entry[w] = o
          /\ \A v \in Windows : v # w => j.entry[v] = c.entry[v]
      BY <1>2, <1>3, <2>12, <3>2, WithEntry DEF Alike
    <3> HIDE DEF j
    <3>4. \A q \in j.pending : q.w = w => q.method \notin {"attach", "targets", "info"}
      BY <1>5, <2>12, <3>3
    <3>5. WindowOK(j, w)
      <4>1. j.destroyed = c.destroyed
        BY <3>3 DEF Alike
      <4> HIDE DEF w, e
      <4>2. ~ n.closed
        BY <2>11, <2>17 DEF e, w
      <4>3. \A q \in j.pending : q.w = w =>
               /\ q.method \notin {"targets", "info", "attach"} /\ q.method = "detach"
               /\ q.method = "detach" => o.closed /\ q.s # 0
        BY <2>12, <2>14, <3>2, <3>3, <3>4 DEF Alike, H5States, Requests, Methods, WindowOK
      <4>4. /\ o.used /\ o.in /\ o.stage = "info" /\ ~ o.closed
            /\ o.detaching # 0 => o.closed
            /\ o.targetGone => c.destroyed
        BY <1>2, <2>2, <2>11, <2>12, <2>14, <3>2, <4>2 DEF e, w, WindowOK
      <4> QED BY <3>3, <4>1, <4>3, <4>4 DEF WindowOK
    <3>6. s \in u.live \/ \E i \in DOMAIN u.in : EndOf(u.in[i], s)
      BY <1>1, <1>4, <2>1 DEF SessionsOK, EndOf
    <3>7. Inv(j, u)
      <4>1. /\ j.entry[w].in => c.entry[w].in
            /\ j.entry[w].root = c.entry[w].root /\ j.entry[w].extra = c.entry[w].extra
            /\ j.entry[w].root = s
        BY <2>11, <2>12, <3>2, <3>3
      <4> HIDE DEF w, e, s
      <4> QED BY ZenonT(40), <1>2, <2>1, <2>15, <3>3, <3>5, <3>6, <4>1, InvFlags
    <3>8. Requested(j, r, w, "info", s)
      BY <1>1, <1>2, <2>1, <3>3, RequestDoes DEF TargetStates, Methods, Alike
    <3> HIDE DEF r
    <3>9. WindowOK(r, w)
      <4> DEFINE new == [id |-> r.ids, w |-> w, method |-> "info", s |-> s, late |-> FALSE]
      <4>1. new.w = w /\ new.method = "info" /\ r.pending = j.pending \cup {new}
        BY <3>8 DEF Requested
      <4> HIDE DEF new
      <4>2. r.entry = j.entry /\ r.destroyed = j.destroyed
        BY <3>8 DEF Requested
      <4>3. \A q \in r.pending : q.w = w => q = new \/ (q \in j.pending /\ q.method \notin {"attach", "targets", "info"})
        BY <3>4, <4>1
      <4> HIDE DEF w, e, s
      <4> QED BY <3>2, <3>3, <3>5, <4>1, <4>2, <4>3 DEF WindowOK
    <3>10. Inv(r, u)
      <4>1. "info" \in Methods /\ s \in 0 .. u.made
        BY <1>1, <1>4, <2>1 DEF Methods, TargetStates
      <4> QED BY <1>2, <3>7, <3>8, <3>9, <4>1, InvRequest
    <3> QED BY <3>1, <3>10 DEF d, u
  <2> QED BY <2>16, <2>17
<1> QED BY <1>11, <1>12, <1>13

-----------------------------------------------------------------------------
(* Sessions that end                                                        *)

\* The invariant, but for what the windows outside W show.
ConnIn(h, t, W) == \A w \in W : h.entry[w].stage \in {"info", "connected"} =>
    /\ h.entry[w].root # 0
    /\ h.entry[w].root \in t.live \/ \E i \in DOMAIN t.in : EndOf(t.in[i], h.entry[w].root)

\* The invariant for the windows W.
InvIn(h, t, W) == Good(h, t) /\ Roots(h) /\ W \subseteq Windows /\ ConnIn(h, t, W)

\* Closing keeps that.
LEMMA InvInCloses ==
    ASSUME NEW h, NEW t, NEW r, NEW W, InvIn(h, t, W), Closes(h, r)
    PROVE  InvIn(r, t, W)
<1>1. \A w \in Windows : /\ r.entry[w].root = h.entry[w].root
                         /\ r.entry[w].stage = h.entry[w].stage \/ r.entry[w].stage = "closed"
  BY DEF Closes, SameHold, Closing
<1>2. Good(r, t) /\ Roots(r)
  BY ClosesKeeps, ClosesShown DEF InvIn
<1> QED BY <1>1, <1>2 DEF InvIn, ConnIn

\* Closing w completes the invariant.
LEMMA InvInClose ==
    ASSUME NEW h, NEW t, NEW W, NEW w \in Windows, InvIn(h, t, W), h.entry[w].used,
           Windows \ {w} \subseteq W
    PROVE  Inv(CloseWindow(h, w), t)
<1> DEFINE r == CloseWindow(h, w)
<1>1. Closes(h, r) /\ (h.entry[w].detaching = 0 => r.entry[w].stage = "closed")
  BY CloseKeeps DEF InvIn
<1> HIDE DEF r
<1>2. InvIn(r, t, W)
  BY <1>1, InvInCloses
<1>3. r.entry[w].stage = "closed"
  BY <1>1 DEF InvIn, Good, Core, WindowOK, Closes, Closing
<1>4. Conn(r, t)
  BY <1>2, <1>3 DEF InvIn, ConnIn, Conn
<1> QED BY <1>2, <1>4 DEF Inv, InvIn, r

\* The state without the requests X.
Dropped(h, X) == [h EXCEPT !.pending = @ \ X]

\* Detach requests are dropped and the loop goes on.
LEMMA InvInDetaches ==
    ASSUME NEW h, NEW t, NEW W, NEW w \in Windows, NEW X, InvIn(h, t, W),
           X \subseteq h.pending, X # {}, \A p \in X : p.w = w /\ p.method = "detach"
    PROVE  LET d == Dropped(h, X) IN
           /\ InvIn(d, t, W) /\ d.entry = h.entry
           /\ InvIn(CloseLoop(d, w), t, W) /\ h.entry[w].used /\ CloseLoop(d, w).entry[w].used
<1> DEFINE d == Dropped(h, X)
<1>1. h \in H5States /\ Good(h, t)
  BY DEF InvIn, Good
<1>2. Alike(h, d) /\ d.entry = h.entry /\ d.pending = h.pending \ X
  BY <1>1, WithoutRequests DEF Dropped
<1> HIDE DEF d
<1>3. WindowOK(h, w) /\ h.entry[w] \in Entries
  BY <1>1 DEF Good, Core, H5States
<1>4. h.entry[w].closed /\ h.entry[w].used
  BY <1>3 DEF WindowOK, Entries
<1>5. \A p \in X : Settled(h, t, p)
  BY DEF Settled
<1>6. Good(d, t)
  BY <1>1, <1>2, <1>5, DropKeeps
<1>7. InvIn(d, t, W)
  BY <1>2, <1>6 DEF InvIn, Roots, ConnIn, Alike
<1>8. Closes(d, CloseLoop(d, w))
  BY <1>2, <1>4, <1>6, CloseLoopKeeps
<1>9. InvIn(CloseLoop(d, w), t, W)
  BY <1>7, <1>8, InvInCloses
<1>10. CloseLoop(d, w).entry[w].used
  BY <1>2, <1>4, <1>8 DEF Closes, SameHold
<1> QED BY <1>2, <1>4, <1>7, <1>9, <1>10 DEF d

\* An event confirms a release.
LEMMA InvInConfirm ==
    ASSUME NEW h, NEW t, NEW W, NEW w \in Windows, NEW s, InvIn(h, t, W), h.entry[w].used
    PROVE  InvIn(ConfirmDetach(h, w, s), t, W) /\ ConfirmDetach(h, w, s).entry[w].used
<1> DEFINE mine == {p \in h.pending : p.w = w /\ p.method = "detach" /\ p.s = s}
<1>1. CASE mine = {}
  BY <1>1 DEF ConfirmDetach
<1>2. CASE mine # {}
  <2>1. ConfirmDetach(h, w, s) = CloseLoop(Dropped(h, mine), w)
    BY <1>2 DEF ConfirmDetach, Dropped
  <2>2. mine \subseteq h.pending /\ \A p \in mine : p.w = w /\ p.method = "detach"
    OBVIOUS
  <2> HIDE DEF mine
  <2> DEFINE z == CloseLoop(Dropped(h, mine), w)
  <2>3. InvIn(z, t, W) /\ z.entry[w].used
    BY <1>2, <2>2, InvInDetaches
  <2> HIDE DEF z
  <2> QED BY <2>1, <2>3 DEF z
<1> QED BY <1>1, <1>2

\* A session is retired that no window but w has, and no frame to come makes.
Ended(h, t, s) ==
    /\ s \in 1 .. t.made /\ s \notin t.live
    /\ \A i \in DOMAIN t.in : ~ Makes(t.in[i], s)

\* Such a session can be retired.
LEMMA EndedRetires ==
    ASSUME NEW h, NEW t, NEW S, Good(h, t), \A s \in S : Ended(h, t, s)
    PROVE  Retires(h, RetireIds(h, S), S) /\ Good(RetireIds(h, S), t)
<1>1. S \subseteq 1 .. t.made /\ S \cap t.live = {}
      /\ \A i \in DOMAIN t.in : t.in[i].op = "reply" => t.in[i].s \notin S
  BY DEF Ended, Makes
<1> QED BY <1>1, RetireKeeps

\* It is taken out of the entry that has it.
LEMMA InvInReleased ==
    ASSUME NEW h, NEW t, NEW W, NEW w \in Windows, NEW s, InvIn(h, t, W), h.entry[w].used,
           Ended(h, t, s), \A v \in Windows : h.entry[v].root = s => v = w,
           w \in W => h.entry[w].stage \notin {"info", "connected"} \/ h.entry[w].root # s
    PROVE  LET z == Released(h, w, s) IN
           /\ InvIn(z, t, W) /\ z.entry[w].used
           /\ h.entry[w].closed => z.entry[w].closed
<1> DEFINE z == Released(h, w, s)
           r == RetireIds(h, {s})
<1>1. Retires(h, r, {s}) /\ Good(r, t)
  BY EndedRetires DEF InvIn
<1> DEFINE e == r.entry[w]
           f == [e EXCEPT !.extra = @ \ {s}, !.attachPending = @ /\ e.root # s, !.root = IF @ = s THEN 0 ELSE @]
           c == With(r, w, f, r.pending)
<1>2. z = [r EXCEPT !.entry[w].extra = @ \ {s},
                    !.entry[w].attachPending = @ /\ r.entry[w].root # s,
                    !.entry[w].root = IF @ = s THEN 0 ELSE @]
  BY DEF Released
<1> HIDE DEF r, z
<1>3. r \in H5States /\ r.entry \in [Windows -> Entries] /\ e \in Entries /\ r.pending \in SUBSET Requests
  BY <1>1 DEF Good, H5States
<1>4. /\ f \in Entries /\ f.extra = e.extra \ {s}
      /\ f.attachPending = (e.attachPending /\ e.root # s) /\ f.root = IF e.root = s THEN 0 ELSE e.root
      /\ f.used = e.used /\ f.in = e.in /\ f.closed = e.closed
      /\ f.stage = e.stage /\ f.targetGone = e.targetGone /\ f.detaching = e.detaching
  BY <1>3 DEF Entries
<1>5. z = c
  <2> DEFINE x1 == e.extra \ {s}
             x2 == e.attachPending /\ e.root # s
             x3 == IF e.root = s THEN 0 ELSE e.root
  <2>1. z = [r EXCEPT !.entry[w].extra = x1, !.entry[w].attachPending = x2, !.entry[w].root = x3]
    BY <1>2
  <2>2. f = [e EXCEPT !.extra = x1, !.attachPending = x2, !.root = x3]
    OBVIOUS
  <2> HIDE DEF x1, x2, x3, f
  <2>3. c = [r EXCEPT !.entry = [r.entry EXCEPT ![w] = f]]
    BY <1>3 DEF With, H5States
  <2> HIDE DEF c
  <2>4. [r EXCEPT !.entry[w].extra = x1, !.entry[w].attachPending = x2, !.entry[w].root = x3]
         = [r EXCEPT !.entry = [r.entry EXCEPT ![w] = [r.entry[w] EXCEPT !.extra = x1, !.attachPending = x2, !.root = x3]]]
    BY <1>3 DEF H5States
  <2> QED BY <2>1, <2>2, <2>3, <2>4
<1> HIDE DEF f, c
<1>6. /\ Alike(r, c) /\ c.pending = r.pending /\ c.entry[w] = f
      /\ \A v \in Windows : v # w => c.entry[v] = r.entry[v]
  BY <1>3, <1>4, WithEntry DEF c
<1>7. WindowOK(r, w) /\ SessionsOK(r, t) /\ Known(r, t)
  BY <1>1 DEF Good, Core
<1>8. e.root = s => \A p \in r.pending : ~ (p.w = w /\ p.method = "attach")
  BY <1>7 DEF Ended, SessionsOK, AnsweredBy, Makes
<1>9. WindowOK(c, w)
  BY <1>3, <1>4, <1>6, <1>7, <1>8 DEF Alike, Entries, WindowOK
<1>10. Becomes(r, t, c, w)
  <2>1. e.extra \subseteq 1 .. t.made /\ e.extra \cap t.ours = {} /\ e.root \in t.ours \cup {0}
    BY <1>7 DEF SessionsOK, Known
  <2>2. /\ f.in => e.in
        /\ f.root \in t.ours \cup {0} /\ f.extra \subseteq 1 .. t.made /\ f.extra \cap t.ours = {}
        /\ f.root = e.root \/ f.root = 0
    BY <1>4, <2>1
  <2>3. e.root # s => f.root = e.root
    BY <1>4
  <2>4. s \notin t.live /\ \A i \in DOMAIN t.in : t.in[i].op = "attached" => t.in[i].s # s
    BY DEF Ended, Makes
  <2>5. s \in r.retired \/ r.exhausted
    BY <1>1 DEF Retires
  <2>6. ASSUME NEW p \in r.pending, p.w = w, p.method = "attach"
        PROVE  \/ f.root = 0 /\ f.extra = {}
               \/ \E i \in DOMAIN t.in : AnsweredBy(r, t, f.root, p, i)
    BY <1>4, <1>7, <1>8, <2>3, <2>6 DEF SessionsOK
  <2> QED BY <1>6, <2>2, <2>3, <2>4, <2>5, <2>6 DEF Becomes
<1>11. Good(c, t)
  BY <1>1, <1>6, <1>9, <1>10, EntryKeeps
<1>12. \A v \in Windows : /\ v # w => c.entry[v].root = h.entry[v].root
                          /\ c.entry[w].root \in {0, h.entry[w].root}
                          /\ h.entry[w].root # s => c.entry[w].root = h.entry[w].root
                          /\ h.entry[w].root = s => c.entry[w].root = 0
                          /\ c.entry[v].stage \in {h.entry[v].stage, "closed"}
  BY <1>1, <1>4, <1>6 DEF Retires, SameHold, Closing
<1>13. Roots(c)
  BY <1>1, <1>6, <1>7, <1>12 DEF Alike, Retires, Known, InvIn, Roots
<1>14. ConnIn(c, t, W) /\ W \subseteq Windows
  BY <1>12 DEF InvIn, ConnIn
<1>15. c.entry[w].used /\ (h.entry[w].closed => c.entry[w].closed)
  BY <1>1, <1>4, <1>6 DEF Retires, SameHold, Closing
<1> QED BY <1>5, <1>11, <1>13, <1>14, <1>15 DEF InvIn, z

-----------------------------------------------------------------------------
(* Releases and attachments seen by events                                  *)

\* The session whose end is read has ended.
LEMMA HeadEnds ==
    ASSUME NEW h, NEW t, NEW s, Good(h, t), t.in # <<>>, Unmakes(h, Head(t.in), s),
           s \in 1 .. t.made, s \notin t.live
    PROVE  Ended(h, Read(t), s)
<1>1. t \in TargetStates /\ SessionsOK(h, t)
  BY DEF Good, Core
<1>2. /\ Read(t).made = t.made /\ Read(t).live = t.live
      /\ 1 \in DOMAIN t.in /\ Head(t.in) = t.in[1]
      /\ \A i \in DOMAIN Read(t).in : i + 1 \in DOMAIN t.in /\ i + 1 # 1 /\ Read(t).in[i] = t.in[i + 1]
  BY <1>1, ReadFrame
<1>3. \A j \in DOMAIN t.in : ~ (j < 1)
  BY <1>1 DEF TargetStates
<1>4. \A j \in DOMAIN t.in : ~ Makes(t.in[j], s)
  BY <1>1, <1>2, <1>3 DEF SessionsOK
<1> QED BY <1>2, <1>4 DEF Ended

\* The release of a session is confirmed by its reply.
LEMMA InvDetachReply ==
    ASSUME NEW h, NEW t, Inv(h, t), t.in # <<>>, Head(t.in).op = "reply", Head(t.in).ok,
           NEW p \in h.pending, p.id = Head(t.in).id, p.method = "detach"
    PROVE  Inv(Replied(Without(h, p), p, Head(t.in)), Read(t))
<1> DEFINE w == p.w
           s == p.s
           d == Without(h, p)
           u == Read(t)
           z == Released(d, w, s)
<1>1. Inv(d, u) /\ Alike(h, d) /\ d.entry = h.entry /\ d.pending = h.pending \ {p}
  BY InvAnswered
<1>2. /\ h \in H5States /\ t \in TargetStates /\ Good(h, t) /\ Known(h, t) /\ Releases(h, t)
      /\ t.made \in Nat
  BY DEF Inv, Good, Core, TargetStates
<1>3. /\ w \in Windows /\ WindowOK(h, w) /\ h.entry[w].used /\ s \notin t.live
  BY <1>2, OneReply
<1>4. h.entry[w].closed /\ s # 0 /\ h.entry[w].stage = "closed"
  BY <1>3 DEF WindowOK
<1>5. s \in 1 .. t.made
  BY <1>2, <1>4 DEF Known
<1>6. Ended(d, u, s)
  <2>1. Unmakes(h, Head(t.in), s)
    BY DEF Unmakes
  <2> HIDE DEF d, s, w
  <2>2. Ended(h, u, s)
    BY <1>2, <1>3, <1>5, <2>1, HeadEnds
  <2> QED BY <2>2 DEF Ended
<1>7. \A v \in Windows : d.entry[v].root = s => v = w
  BY <1>1, <1>2 DEF Releases
<1>8. InvIn(d, u, Windows)
  BY <1>1 DEF Inv, InvIn, Conn, ConnIn
<1> HIDE DEF d, u, s, w
<1>9. InvIn(z, u, Windows) /\ z.entry[w].used /\ z.entry[w].closed
  BY <1>1, <1>3, <1>4, <1>6, <1>7, <1>8, InvInReleased
<1>10. Replied(d, p, Head(t.in)) = CloseLoop(z, w)
  BY DEF Replied, z, w, s
<1> HIDE DEF z
<1>11. Closes(z, CloseLoop(z, w))
  BY <1>3, <1>9, CloseLoopKeeps DEF InvIn
<1>12. InvIn(CloseLoop(z, w), u, Windows)
  BY <1>9, <1>11, InvInCloses
<1> QED BY <1>10, <1>12 DEF Inv, InvIn, Conn, ConnIn, d, u

\* The answer to come is the one the owner of the page awaits.
LEMMA ComingIsMine ==
    ASSUME NEW h, NEW t, Good(h, t), ~ h.destroyed, NEW w \in Windows, h.entry[w].in,
           NEW q \in h.pending, q.method = "attach"
    PROVE  q.w = w /\ h.entry[w].attachPending
<1>1. /\ h \in H5States /\ SessionsOK(h, t) /\ \A v \in Windows : WindowOK(h, v)
  BY DEF Good, Core
<1>2. q.w \in Windows
  BY <1>1 DEF H5States, Requests
<1>3. h.entry[q.w].attachPending
  BY <1>1, <1>2 DEF WindowOK
<1>4. h.entry[q.w].in
  BY <1>1, <1>2, <1>3 DEF WindowOK
<1> QED BY <1>1, <1>2, <1>3, <1>4 DEF SessionsOK

\* Target.attachedToTarget.
LEMMA InvSessionAttached ==
    ASSUME NEW h, NEW t, Inv(h, t), t.in # <<>>, Head(t.in).op = "attached",
           Head(t.in).s \notin h.retired, ~ h.destroyed, NEW w \in Windows, h.entry[w].in,
           h.entry[w].root = 0 => Head(t.in).s \in t.ours
    PROVE  Inv(SessionAttached(h, w, Head(t.in).s), Read(t))
<1> DEFINE s == Head(t.in).s
           e == h.entry[w]
           u == Read(t)
<1>1. /\ h \in H5States /\ t \in TargetStates /\ Good(h, t) /\ Known(h, t) /\ SessionsOK(h, t)
      /\ Numbering(h, t) /\ t.made \in Nat /\ t.ours \subseteq 1 .. t.made
      /\ h.pending \in SUBSET Requests /\ h.entry \in [Windows -> Entries] /\ e \in Entries
      /\ \A v \in Windows : WindowOK(h, v)
  BY DEF Inv, Good, Core, H5States, TargetStates, Known
<1>2. 1 \in DOMAIN t.in /\ Head(t.in) = t.in[1]
  BY <1>1, ReadFrame
<1>3. s \in 1 .. t.made
  BY <1>1, <1>2 DEF Known
<1>4. WindowOK(h, w) /\ e.used
  BY <1>1 DEF WindowOK, Entries
<1>5. ASSUME NEW q \in h.pending, q.method = "attach"
      PROVE  q.w = w /\ e.attachPending /\ e.stage \notin {"targets", "info"}
  BY <1>1, <1>4, <1>5, ComingIsMine DEF WindowOK
<1>6. s \in t.ours => e.root = s \/ \E q \in h.pending, i \in DOMAIN t.in : AnsweredBy(h, t, s, q, i)
  BY <1>1, <1>2, <1>3 DEF Coming, SessionsOK, Owned, WindowOK
<1>7. \A r : Inv(r, t) => Inv(r, u)
  BY InvIgnored
<1> HIDE DEF u
<1>8. CASE e.root \notin {0, s}
  <2>1. s \notin t.ours
    BY <1>1, <1>5, <1>6, <1>8 DEF AnsweredBy, SessionsOK, Numbering
  <2> DEFINE f == [e EXCEPT !.extra = @ \cup {s}]
             g == With(h, w, f, h.pending)
  <2>2. SessionAttached(h, w, s) = CloseWindow(g, w)
    <3>1. [h EXCEPT !.entry[w].extra = @ \cup {s}] = g
      BY <1>1 DEF With, H5States
    <3> QED BY <1>8, <3>1 DEF SessionAttached
  <2>3. /\ f \in Entries /\ f.extra = e.extra \cup {s} /\ f.root = e.root
        /\ f.used = e.used /\ f.in = e.in /\ f.closed = e.closed /\ f.attachPending = e.attachPending
        /\ f.stage = e.stage /\ f.targetGone = e.targetGone /\ f.detaching = e.detaching
    <3>1. s \in Nat
      BY <1>1, <1>3
    <3> HIDE DEF s
    <3> QED BY <1>1, <3>1 DEF Entries
  <2> HIDE DEF f
  <2>4. /\ Alike(h, g) /\ g.pending = h.pending /\ g.entry[w] = f
        /\ \A v \in Windows : v # w => g.entry[v] = h.entry[v]
    BY <1>1, <2>3, WithEntry
  <2> HIDE DEF g
  <2>5. WindowOK(g, w)
    <3>1. g.destroyed = h.destroyed /\ g.pending = h.pending /\ e.stage # "targets"
      BY <1>4, <1>8, <2>4 DEF Alike, WindowOK
    <3>2. e.in /\ SameFlags(e, g.entry[w])
      BY <1>1, <2>3, <2>4 DEF SameFlags
    <3> QED BY <1>4, <3>1, <3>2, SameWindow
  <2>6. Becomes(h, t, g, w)
    <3>1. e.extra \subseteq 1 .. t.made /\ e.extra \cap t.ours = {} /\ e.root \in t.ours \cup {0}
      BY <1>1 DEF SessionsOK, Known
    <3>2. \A p \in h.pending : p.w = w /\ p.method = "attach" =>
             \E i \in DOMAIN t.in : AnsweredBy(h, t, e.root, p, i)
      BY <1>1, <1>8 DEF SessionsOK
    <3> HIDE DEF s
    <3> QED BY <1>3, <2>1, <2>3, <2>4, <3>1, <3>2 DEF Becomes
  <2>7. Good(g, t)
    BY <1>1, <2>4, <2>5, <2>6, EntryKeeps
  <2>8. \A v \in Windows : g.entry[v].root = h.entry[v].root /\ g.entry[v].stage = h.entry[v].stage
    BY <2>3, <2>4
  <2>9. Inv(g, t)
    BY <2>4, <2>7, <2>8 DEF Inv, Roots, Conn, Alike
  <2>10. Inv(CloseWindow(g, w), u)
    BY <1>4, <1>7, <2>3, <2>4, <2>9, InvClose
  <2> QED BY <2>2, <2>10 DEF u
<1>9. CASE e.root \in {0, s}
  <2> DEFINE f == [e EXCEPT !.root = s]
             g == With(h, w, f, h.pending)
  <2>2. SessionAttached(h, w, s) = IF e.closed THEN CloseWindow(g, w) ELSE g
    <3>1. [h EXCEPT !.entry[w].root = s] = g
      BY <1>1 DEF With, H5States
    <3> QED BY <1>9, <3>1 DEF SessionAttached
  <2>3. /\ f \in Entries /\ f.extra = e.extra /\ f.root = s
        /\ f.used = e.used /\ f.in = e.in /\ f.closed = e.closed /\ f.attachPending = e.attachPending
        /\ f.stage = e.stage /\ f.targetGone = e.targetGone /\ f.detaching = e.detaching
    <3>1. s \in Nat
      BY <1>1, <1>3
    <3> HIDE DEF s
    <3> QED BY <1>1, <3>1 DEF Entries
  <2> HIDE DEF f
  <2>4. /\ Alike(h, g) /\ g.pending = h.pending /\ g.entry[w] = f
        /\ \A v \in Windows : v # w => g.entry[v] = h.entry[v]
    BY <1>1, <2>3, WithEntry
  <2> HIDE DEF g
  <2>12. e.root = 0 => \E q \in h.pending, i \in DOMAIN t.in : q.w = w /\ AnsweredBy(h, t, s, q, i)
    BY <1>1, <1>3, <1>5, <1>6 DEF AnsweredBy
  <2>13. e.root = 0 => e.stage \notin {"targets", "info"}
    BY <1>5, <2>12 DEF AnsweredBy
  <2>5. WindowOK(g, w)
    <3>1. g.destroyed = h.destroyed
      BY <2>4 DEF Alike
    <3>2. e.stage # "targets"
      BY <1>3, <1>4, <1>9, <2>13 DEF WindowOK
    <3>3. e.in /\ SameFlags(e, g.entry[w]) /\ g.pending = h.pending
      BY <1>1, <2>3, <2>4 DEF SameFlags
    <3> QED BY <1>4, <3>1, <3>2, <3>3, SameWindow
  <2>6. Becomes(h, t, g, w)
    <3>1. e.extra \subseteq 1 .. t.made /\ e.extra \cap t.ours = {} /\ e.root \in t.ours \cup {0} /\ 0 \notin t.ours
      BY <1>1 DEF SessionsOK, Known
    <3>2. CASE e.root = s
      <4> HIDE DEF s
      <4>1. \A p \in h.pending : p.w = w /\ p.method = "attach" =>
             \/ e.root = 0 /\ e.extra = {}
             \/ \E i \in DOMAIN t.in : AnsweredBy(h, t, e.root, p, i)
        BY <1>1 DEF SessionsOK
      <4> QED BY <2>3, <2>4, <3>1, <3>2, <4>1 DEF Becomes
    <3>3. CASE e.root = 0
      <4>1. s \in t.ours
        BY <3>3
      <4> HIDE DEF s
      <4>2. \A p, q \in h.pending : p.w = w /\ p.method = "attach" /\ q.w = w /\ q.method = "attach" => p = q
        BY <1>4 DEF WindowOK
      <4>3. \A p \in h.pending : p.w = w /\ p.method = "attach" =>
              \E i \in DOMAIN t.in : AnsweredBy(h, t, s, p, i)
        BY <2>12, <3>3, <4>2 DEF AnsweredBy
      <4> QED BY <2>3, <2>4, <2>12, <3>1, <3>3, <4>1, <4>3 DEF Becomes
    <3> QED BY <1>9, <3>2, <3>3
  <2>7. Good(g, t)
    BY <1>1, <2>4, <2>5, <2>6, EntryKeeps
  <2>8. Roots(g)
    BY <2>3, <2>4 DEF Inv, Roots, Alike
  <2>9. Conn(g, t)
    BY <1>9, <2>3, <2>4 DEF Inv, Conn
  <2>10. Inv(g, u)
    BY <1>7, <2>7, <2>8, <2>9 DEF Inv
  <2>11. Inv(CloseWindow(g, w), u)
    BY <1>4, <2>3, <2>4, <2>10, InvClose
  <2> QED BY <2>2, <2>10, <2>11 DEF u
<1> QED BY <1>8, <1>9

-----------------------------------------------------------------------------
(* Events                                                                   *)

\* Only the owner shows anything.
LEMMA OneShown ==
    ASSUME NEW h, NEW t, Inv(h, t), NEW w \in Windows, h.entry[w].in
    PROVE  \A v \in Windows \ {w} : h.entry[v].root = 0 /\ h.entry[v].stage \notin {"info", "connected"}
<1>1. SessionsOK(h, t) /\ \A v \in Windows : WindowOK(h, v)
  BY DEF Inv, Good, Core
<1>2. \A v \in Windows \ {w} : h.entry[v].root = 0
  BY <1>1 DEF SessionsOK, WindowOK
<1> QED BY <1>2 DEF Inv, Conn

\* Target.detachedFromTarget.
LEMMA InvSessionDetached ==
    ASSUME NEW h, NEW t, Inv(h, t), t.in # <<>>, Head(t.in).op = "detached",
           NEW w \in Windows, h.entry[w].in,
           h.entry[w].root = Head(t.in).s \/ Head(t.in).s \in h.entry[w].extra
    PROVE  Inv(SessionDetached(h, w, Head(t.in).s), Read(t))
<1> DEFINE s == Head(t.in).s
           e == h.entry[w]
           u == Read(t)
<1>1. /\ h \in H5States /\ t \in TargetStates /\ Good(h, t) /\ Known(h, t) /\ SessionsOK(h, t)
      /\ t.made \in Nat /\ t.ours \subseteq 1 .. t.made
      /\ h.pending \in SUBSET Requests /\ h.entry \in [Windows -> Entries] /\ e \in Entries
      /\ WindowOK(h, w)
  BY DEF Inv, Good, Core, H5States, TargetStates, Known
<1>2. /\ 1 \in DOMAIN t.in /\ Head(t.in) = t.in[1]
      /\ u.ours = t.ours /\ u.made = t.made
  BY <1>1, ReadFrame
<1>3. s \in 1 .. t.made /\ s # 0 /\ s \notin t.live
  BY <1>1, <1>2 DEF Known, SessionsOK
<1>4. e.used
  BY <1>1 DEF WindowOK, Entries
<1>5. Good(h, u)
  BY <1>1, ConsumeKeeps DEF Read
<1>6. Ended(h, u, s)
  <2>1. Unmakes(h, Head(t.in), s)
    BY DEF Unmakes
  <2> HIDE DEF s, u
  <2> QED BY <1>1, <1>3, <2>1, HeadEnds DEF u
<1>7. Roots(h) /\ Conn(h, t)
  BY DEF Inv
<1>8. CASE s \in e.extra
  <2>1. \A v \in Windows : h.entry[v].root # s
    BY <1>1, <1>3, <1>8 DEF SessionsOK
  <2>2. Conn(h, u)
    <3>1. \A v : ~ EndOf(Head(t.in), v) \/ v = s
      BY DEF EndOf
    <3> HIDE DEF s
    <3> QED BY <1>1, <1>7, <2>1, <3>1, ReadShown
  <2> DEFINE f == [e EXCEPT !.extra = @ \ {s}]
             g == With(h, w, f, h.pending)
             r == RetireIds(g, {s})
  <2>3. SessionDetached(h, w, s) = ConfirmDetach(r, w, s)
    <3>1. [h EXCEPT !.entry[w].extra = @ \ {s}] = g
      BY <1>1 DEF With, H5States
    <3> QED BY <1>8, <3>1 DEF SessionDetached
  <2> HIDE DEF s, u
  <2>4. /\ f \in Entries /\ f.extra = e.extra \ {s} /\ f.root = e.root
        /\ f.used = e.used /\ f.in = e.in /\ f.closed = e.closed /\ f.attachPending = e.attachPending
        /\ f.stage = e.stage /\ f.targetGone = e.targetGone /\ f.detaching = e.detaching
    BY <1>1 DEF Entries
  <2> HIDE DEF f
  <2>5. /\ Alike(h, g) /\ g.pending = h.pending /\ g.entry[w] = f
        /\ \A v \in Windows : v # w => g.entry[v] = h.entry[v]
    BY <1>1, <2>4, WithEntry
  <2> HIDE DEF g
  <2>6. WindowOK(g, w)
    <3>1. g.destroyed = h.destroyed /\ g.pending = h.pending
      BY <2>5 DEF Alike
    <3>2. e.in /\ SameFlags(e, g.entry[w])
      BY <2>4, <2>5 DEF SameFlags
    <3>3. e.stage # "targets"
      BY <1>1, <1>8 DEF WindowOK
    <3> QED BY <1>1, <1>4, <3>1, <3>2, <3>3, SameWindow
  <2>7. Becomes(h, u, g, w)
    <3>1. SessionsOK(h, u) /\ Known(h, u)
      BY <1>5 DEF Good, Core
    <3>2. e.extra \subseteq 1 .. u.made /\ e.extra \cap u.ours = {} /\ e.root \in u.ours \cup {0}
      BY <3>1 DEF SessionsOK, Known
    <3>3. \A p \in h.pending : p.w = w /\ p.method = "attach" =>
             \/ e.root = 0 /\ e.extra = {}
             \/ \E i \in DOMAIN u.in : AnsweredBy(h, u, e.root, p, i)
      BY <3>1 DEF SessionsOK
    <3> QED BY <2>4, <2>5, <3>2, <3>3 DEF Becomes
  <2>8. Good(g, u)
    BY <1>5, <2>5, <2>6, <2>7, EntryKeeps
  <2>9. \A v \in Windows : g.entry[v].root = h.entry[v].root /\ g.entry[v].stage = h.entry[v].stage
    BY <2>4, <2>5
  <2>10. Retires(g, r, {s}) /\ Good(r, u)
    BY <1>6, <2>8, EndedRetires DEF Ended
  <2> HIDE DEF r
  <2>11. \A v \in Windows : /\ r.entry[v].root = h.entry[v].root
                            /\ r.entry[v].stage \in {h.entry[v].stage, "closed"}
                            /\ r.entry[v].used = g.entry[v].used
    BY <2>9, <2>10 DEF Retires, SameHold, Closing
  <2>12. InvIn(r, u, Windows)
    BY <1>7, <2>1, <2>2, <2>5, <2>10, <2>11 DEF Retires, Alike, Roots, ConnIn, Conn, InvIn
  <2>13. r.entry[w].used
    BY <1>4, <2>4, <2>5, <2>11
  <2>14. InvIn(ConfirmDetach(r, w, s), u, Windows)
    BY <2>12, <2>13, InvInConfirm
  <2>15. Inv(ConfirmDetach(r, w, s), u)
    BY <2>14 DEF Inv, InvIn, Conn, ConnIn
  <2> QED BY <2>3, <2>15 DEF s, u
<1>9. CASE s \notin e.extra
  <2>1. e.root = s
    BY <1>9
  <2> DEFINE W == Windows \ {w}
             z == Released(h, w, s)
             c == ConfirmDetach(z, w, s)
  <2>2. SessionDetached(h, w, s) = CloseWindow(c, w)
    BY <1>9 DEF SessionDetached
  <2> HIDE DEF s, u
  <2>3. \A v \in W : h.entry[v].root = 0 /\ h.entry[v].stage \notin {"info", "connected"}
    BY OneShown
  <2>4. InvIn(h, u, W)
    BY <1>5, <1>7, <2>3 DEF InvIn, ConnIn
  <2>5. \A v \in Windows : h.entry[v].root = s => v = w
    BY <1>3, <2>3
  <2>6. InvIn(z, u, W) /\ z.entry[w].used
    BY <1>4, <1>6, <2>4, <2>5, InvInReleased
  <2> HIDE DEF z
  <2>7. InvIn(c, u, W) /\ c.entry[w].used
    BY <2>6, InvInConfirm
  <2> HIDE DEF c
  <2>8. Inv(CloseWindow(c, w), u)
    BY <2>7, InvInClose
  <2> QED BY <2>2, <2>8 DEF s, u
<1> QED BY <1>8, <1>9

\* Target.targetDestroyed.
LEMMA InvTargetDestroyed ==
    ASSUME NEW h, NEW t, Inv(h, t), t.in # <<>>, Head(t.in).op = "destroyed",
           NEW w \in Windows, h.entry[w].in
    PROVE  Inv(TargetDestroyed(h, w), Read(t))
<1> DEFINE e == h.entry[w]
           u == Read(t)
           S == (e.extra \cup {e.root}) \ {0}
           W == Windows \ {w}
<1>1. /\ h \in H5States /\ t \in TargetStates /\ Good(h, t) /\ Known(h, t) /\ SessionsOK(h, t)
      /\ PageOK(h, t)
      /\ t.made \in Nat /\ h.entry \in [Windows -> Entries] /\ e \in Entries
      /\ WindowOK(h, w)
  BY DEF Inv, Good, Core, H5States, TargetStates
<1>2. /\ 1 \in DOMAIN t.in /\ Head(t.in) = t.in[1]
      /\ u.ours = t.ours /\ u.made = t.made /\ u.live = t.live /\ u.dead = t.dead
      /\ \A i \in DOMAIN u.in : i + 1 \in DOMAIN t.in /\ i + 1 # 1 /\ u.in[i] = t.in[i + 1]
  BY <1>1, ReadFrame
<1>3. Good(h, u)
  BY <1>1, ConsumeKeeps DEF Read
<1>4. t.dead /\ t.live = {}
  BY <1>1, <1>2 DEF PageOK
<1>5. \A s \in 1 .. t.made : Ended(h, u, s)
  BY <1>1, <1>4, HeadEnds DEF Unmakes
<1>6. \A i \in DOMAIN u.in : /\ u.in[i].op \notin {"attached", "destroyed"}
                             /\ u.in[i].op = "reply" => u.in[i].s = 0
  BY <1>1, <1>2, <1>3, <1>5 DEF Good, Core, Known, Ended, Makes, PageOK
<1>7. \A v \in W : h.entry[v].root = 0 /\ h.entry[v].stage \notin {"info", "connected"}
  BY OneShown
<1>8. e.used /\ S \subseteq 1 .. t.made
  BY <1>1 DEF WindowOK, Entries, Known
<1> DEFINE x == [h EXCEPT !.destroyed = TRUE]
           f == [e EXCEPT !.targetGone = TRUE, !.attachPending = FALSE]
           y == With(x, w, f, x.pending)
           went == RetireIds(y, S)
<1>9. x \in H5States /\ x.entry = h.entry /\ x.pending = h.pending /\ x.retired = h.retired
      /\ x.exhausted = h.exhausted /\ x.ids = h.ids /\ x.sent = h.sent /\ x.destroyed = TRUE
  BY <1>1 DEF H5States
<1>10. [h EXCEPT !.destroyed = TRUE, !.entry[w].targetGone = TRUE, !.entry[w].attachPending = FALSE] = y
  BY <1>1 DEF With, H5States
<1> HIDE DEF u, x
<1>11. Good(x, u)
  BY <1>2, <1>3, <1>4, <1>6, <1>9, DestroyKeeps
<1>12. /\ f \in Entries /\ f.targetGone /\ ~ f.attachPending
       /\ f.used = e.used /\ f.in = e.in /\ f.closed = e.closed /\ f.root = e.root /\ f.extra = e.extra
       /\ f.stage = e.stage /\ f.detaching = e.detaching
  BY <1>1 DEF Entries
<1> HIDE DEF f
<1>13. /\ Alike(x, y) /\ y.pending = h.pending /\ y.entry[w] = f
       /\ \A v \in Windows : v # w => y.entry[v] = h.entry[v]
  BY <1>9, <1>12, WithEntry DEF H5States
<1> HIDE DEF y
<1>14. WindowOK(y, w)
  <2>1. y.destroyed
    BY <1>9, <1>13 DEF Alike
  <2>2. /\ ~ e.used => ~ e.in /\ ~ e.closed /\ e.stage = "none" /\ \A p \in h.pending : p.w # w
        /\ ~ e.in => e.root = 0 /\ e.extra = {}
        /\ e.used /\ ~ e.closed => e.in
        /\ e.closed => e.stage = "closed"
        /\ e.detaching # 0 => e.closed
        /\ e.stage = "targets" => e.root = 0 /\ e.extra = {} /\ e.used
    BY <1>1 DEF WindowOK
  <2>3. /\ \A p \in h.pending : p.w = w =>
              /\ p.method = "targets" => e.stage = "targets"
              /\ p.method = "info" => e.stage = "info"
              /\ p.method = "detach" => e.closed /\ p.s # 0
              /\ p.method = "attach" => e.stage \notin {"targets", "info"}
        /\ \A p, q \in h.pending :
              p.w = w /\ q.w = w /\ p.method = q.method /\ p.method # "detach" => p = q
    BY <1>1 DEF WindowOK
  <2> HIDE DEF e
  <2> QED BY <1>12, <1>13, <2>1, <2>2, <2>3 DEF WindowOK
<1>15. Good(y, u)
  BY <1>9, <1>11, <1>12, <1>13, <1>14, FlagsKeep
<1>16. Retires(y, went, S) /\ Good(went, u)
  <2>1. \A s \in S : Ended(y, u, s)
    BY <1>5, <1>8 DEF Ended
  <2> HIDE DEF S
  <2> QED BY <1>15, <2>1, EndedRetires
<1> HIDE DEF went
<1> DEFINE g == went.entry[w]
           m == [g EXCEPT !.extra = {}, !.root = 0]
           c == With(went, w, m, went.pending)
<1>17. went \in H5States /\ went.entry \in [Windows -> Entries] /\ g \in Entries /\ went.pending \in SUBSET Requests
       /\ WindowOK(went, w) /\ SessionsOK(went, u) /\ Known(went, u)
  BY <1>16 DEF Good, Core, H5States
<1>18. /\ m \in Entries /\ m.extra = {} /\ m.root = 0
       /\ m.used = g.used /\ m.in = g.in /\ m.closed = g.closed /\ m.attachPending = g.attachPending
       /\ m.stage = g.stage /\ m.targetGone = g.targetGone /\ m.detaching = g.detaching
  BY <1>17 DEF Entries
<1> HIDE DEF m
<1>19. /\ Alike(went, c) /\ c.pending = went.pending /\ c.entry[w] = m
       /\ \A v \in Windows : v # w => c.entry[v] = went.entry[v]
  BY <1>17, <1>18, WithEntry
<1>20. /\ g.root = e.root /\ g.extra = e.extra /\ g.used
  BY <1>8, <1>12, <1>13, <1>16 DEF Retires, SameHold
<1>21. Good(c, u)
  <2> HIDE DEF c
  <2>1. WindowOK(c, w)
    <3>1. c.destroyed = went.destroyed
      BY <1>19 DEF Alike
    <3> HIDE DEF g
    <3> QED BY <1>17, <1>18, <1>19, <3>1 DEF WindowOK, g
  <2>2. Becomes(went, u, c, w)
    <3>1. g.root \in u.ours => /\ g.root \notin u.live
                               /\ g.root \in went.retired \/ went.exhausted
                               /\ \A i \in DOMAIN u.in : u.in[i].op = "attached" => u.in[i].s # g.root
      BY <1>2, <1>4, <1>6, <1>16, <1>17, <1>20 DEF Known, Retires
    <3> HIDE DEF g
    <3> QED BY <1>18, <1>19, <3>1 DEF Becomes, g
  <2> QED BY <1>16, <1>19, <2>1, <2>2, EntryKeeps
<1>22. InvIn(c, u, W)
  <2>1. \A v \in W : /\ c.entry[v].root = 0 /\ c.entry[v].stage \notin {"info", "connected"}
    BY <1>7, <1>13, <1>16, <1>19 DEF Retires, SameHold, Closing
  <2>2. 0 \notin c.retired
    BY <1>17, <1>19 DEF Known, Alike
  <2>3. Roots(c)
    BY <1>18, <1>19, <2>1, <2>2 DEF Roots
  <2> HIDE DEF c
  <2> QED BY <1>21, <2>1, <2>3 DEF InvIn, ConnIn
<1>23. c.entry[w].used
  BY <1>18, <1>19, <1>20
<1> DEFINE mine == {p \in went.pending : p.w = w /\ p.method = "detach"}
           free == Dropped(c, mine)
<1>24. TargetDestroyed(h, w) = CloseWindow(IF mine = {} THEN free ELSE CloseLoop(free, w), w)
  <2>1. went = RetireIds([h EXCEPT !.destroyed = TRUE, !.entry[w].targetGone = TRUE,
                                   !.entry[w].attachPending = FALSE], S)
    BY <1>10 DEF went
  <2>2. [went EXCEPT !.entry[w].extra = {}, !.entry[w].root = 0, !.pending = @ \ mine] = free
    <3> HIDE DEF mine
    <3>1. [went EXCEPT !.entry[w].extra = {}, !.entry[w].root = 0] = c
      BY <1>17 DEF c, With, m, H5States
    <3>2. [went EXCEPT !.entry[w].extra = {}, !.entry[w].root = 0, !.pending = @ \ mine]
            = [[went EXCEPT !.entry[w].extra = {}, !.entry[w].root = 0] EXCEPT !.pending = went.pending \ mine]
      BY <1>17 DEF H5States
    <3>3. c.pending = went.pending
      BY <1>19
    <3> HIDE DEF c
    <3> QED BY <3>1, <3>2, <3>3 DEF Dropped
  <2>3. TargetDestroyed(h, w) = Forgets(went, w)
    BY <2>1 DEF TargetDestroyed
  <2> HIDE DEF c
  <2> QED BY <2>2, <2>3 DEF Forgets
<1> HIDE DEF c
<1>27. mine \subseteq c.pending /\ \A p \in mine : p.w = w /\ p.method = "detach"
  BY <1>19
<1>25. CASE mine = {}
  <2>1. Alike(c, free) /\ free.entry = c.entry /\ free.pending = c.pending \ mine
    <3>1. c \in H5States
      BY <1>21 DEF Good
    <3> QED BY <3>1, WithoutRequests DEF Dropped
  <2> HIDE DEF free, mine
  <2>2. \A p \in mine \cap c.pending : Settled(c, u, p)
    BY <1>27 DEF Settled
  <2>3. Good(free, u)
    BY <1>21, <2>1, <2>2, DropKeeps
  <2>4. InvIn(free, u, W)
    BY <1>22, <2>1, <2>3 DEF InvIn, Roots, ConnIn, Alike
  <2>5. Inv(CloseWindow(free, w), u)
    BY <1>23, <2>1, <2>4, InvInClose
  <2> QED BY <1>24, <1>25, <2>5 DEF u
<1>26. CASE mine # {}
  <2> HIDE DEF mine
  <2> DEFINE z == CloseLoop(free, w)
  <2>2. InvIn(z, u, W) /\ z.entry[w].used
    BY <1>22, <1>26, <1>27, InvInDetaches
  <2>3. TargetDestroyed(h, w) = CloseWindow(z, w)
    BY <1>24, <1>26
  <2> HIDE DEF z
  <2>4. Inv(CloseWindow(z, w), u)
    BY <2>2, InvInClose
  <2> QED BY <2>3, <2>4 DEF u
<1> QED BY <1>25, <1>26

-----------------------------------------------------------------------------
(* receive                                                                  *)

\* The bounds and what went wrong.
Happenings == [events : Nat, leaked : BOOLEAN, mistaken : BOOLEAN]

\* The inductive invariant: as long as no session of somebody else was taken for
\* the one a window asked for, the class and the target fit, and nothing leaked.
H5Inv ==
    /\ happened \in Happenings
    /\ ~ happened.mistaken => Inv(h5, target) /\ ~ happened.leaked

\* Nobody awaits an attachment for a page that no window owns.
LEMMA NobodyAttaches ==
    ASSUME NEW h, NEW t, Good(h, t), ~ h.destroyed, Owners(h) = {}, NEW q \in h.pending
    PROVE  q.method # "attach"
<1>1. /\ h \in H5States /\ \A v \in Windows : WindowOK(h, v)
  BY DEF Good, Core
<1>2. q.w \in Windows
  BY <1>1 DEF H5States, Requests
<1>3. q.method = "attach" => h.entry[q.w].in
  BY <1>1, <1>2 DEF WindowOK
<1> QED BY <1>2, <1>3 DEF Owners

\* A session that appears while no window owns the page is not ours.
LEMMA AttachedIsNotOurs ==
    ASSUME NEW h, NEW t, Good(h, t), t.in # <<>>, Head(t.in).op = "attached",
           Owners(h) = {}
    PROVE  Head(t.in).s \notin t.ours /\ ~ h.destroyed
<1>1. /\ h \in H5States /\ t \in TargetStates /\ SessionsOK(h, t) /\ PageOK(h, t) /\ Known(h, t)
      /\ \A v \in Windows : WindowOK(h, v)
  BY DEF Good, Core
<1>2. 1 \in DOMAIN t.in /\ Head(t.in) = t.in[1]
  BY <1>1, ReadFrame
<1>3. ~ h.destroyed /\ Head(t.in).s # 0
  BY <1>1, <1>2 DEF PageOK, Known
<1>4. ~ Owned(h, Head(t.in).s)
  BY <1>1, <1>3 DEF Owned, WindowOK, Owners
<1>5. ~ Coming(h, t, Head(t.in).s)
  BY <1>3, NobodyAttaches DEF Coming, AnsweredBy
<1> QED BY <1>1, <1>2, <1>3, <1>4, <1>5 DEF SessionsOK

\* An event of no window's session is not of a session of ours.
LEMMA StrangerIsNotOurs ==
    ASSUME NEW h, NEW t, Good(h, t), t.in # <<>>, Head(t.in).op \in {"detached", "event"},
           Head(t.in).s \notin h.retired, ~ h.exhausted,
           \A w \in Owners(h) : h.entry[w].root # Head(t.in).s
    PROVE  Head(t.in).s \notin t.ours
<1>1. /\ h \in H5States /\ t \in TargetStates /\ SessionsOK(h, t) /\ Known(h, t)
      /\ \A v \in Windows : WindowOK(h, v)
  BY DEF Good, Core
<1>2. 1 \in DOMAIN t.in /\ Head(t.in) = t.in[1] /\ \A i \in DOMAIN t.in : ~ (i < 1)
  BY <1>1, ReadFrame DEF TargetStates
<1>3. Head(t.in).s # 0
  BY <1>1, <1>2 DEF Known
<1>4. ~ Owned(h, Head(t.in).s)
  BY <1>1, <1>3 DEF Owned, WindowOK, Owners
<1>5. t.in[1].s \in t.ours => ~ Coming(h, t, t.in[1].s)
  BY <1>1, <1>2 DEF Coming, AnsweredBy, Makes, Unmakes, Known, SessionsOK
<1> QED BY <1>1, <1>2, <1>4, <1>5 DEF SessionsOK

\* Every reply that is awaited.
LEMMA InvReplied ==
    ASSUME NEW h, NEW t, Inv(h, t), t.in # <<>>, Head(t.in).op = "reply",
           NEW p \in h.pending, p.id = Head(t.in).id
    PROVE  Inv(Replied([h EXCEPT !.pending = @ \ {p}], p, Head(t.in)), Read(t))
<1>1. [h EXCEPT !.pending = @ \ {p}] = Without(h, p)
  BY DEF Without
<1> SUFFICES Inv(Replied(Without(h, p), p, Head(t.in)), Read(t))
  BY <1>1
<1>2. CASE p.method = "attach"
  BY <1>2, InvAttached DEF Replied
<1>3. CASE p.method = "detach" /\ Head(t.in).ok
  BY <1>3, InvDetachReply
<1>4. CASE p.method # "attach" /\ ~ (p.method = "detach" /\ Head(t.in).ok)
  BY <1>4, InvOtherReplies
<1> QED BY <1>2, <1>3, <1>4

\* One frame, with everything it resumes.
LEMMA ReceiveFrameKeeps ==
    ASSUME H5Inv, ReceiveFrame
    PROVE  H5Inv'
<1> DEFINE frame == Head(target.in)
           s == frame.s
           known == {w \in Owners(h5) : h5.entry[w].root = s \/ s \in h5.entry[w].extra}
           Goal == /\ happened' \in Happenings
                   /\ ~ happened'.mistaken => Inv(h5', Read(target)) /\ ~ happened'.leaked
<1>1. target.in # <<>> /\ target' = Read(target)
  BY DEF ReceiveFrame, Read
<1>2. SUFFICES Goal
  BY <1>1 DEF H5Inv
<1>3. happened \in Happenings
  BY DEF H5Inv
<1>4. Stays => happened' = happened
  BY DEF Stays
<1>5. ASSUME Leaks(s), Inv(h5, target) => s \notin target.ours /\ Inv(h5', Read(target))
      PROVE  Goal
  <2>1. happened' = [happened EXCEPT !.leaked = @ \/ s \in target.ours]
    BY <1>5 DEF Leaks
  <2> HIDE DEF s
  <2>2. /\ happened' \in Happenings /\ happened'.mistaken = happened.mistaken
        /\ happened'.leaked = (happened.leaked \/ s \in target.ours)
    BY <1>3, <2>1 DEF Happenings
  <2> QED BY <1>5, <2>2 DEF H5Inv
<1>6. ASSUME Stays, Inv(h5, target) => Inv(h5', Read(target))
      PROVE  Goal
  BY <1>3, <1>4, <1>6 DEF H5Inv
<1>7. CASE /\ frame.op = "reply"
           /\ \E p \in h5.pending :
                p.id = frame.id /\ h5' = Replied([h5 EXCEPT !.pending = @ \ {p}], p, frame)
           /\ Stays
  BY <1>1, <1>6, <1>7, InvReplied
<1>8. CASE /\ frame.op = "reply" /\ \A p \in h5.pending : p.id # frame.id
           /\ Stays /\ UNCHANGED h5
  BY <1>1, <1>6, <1>8, InvIgnored
<1>9. CASE /\ frame.op # "reply" /\ s \in h5.retired
           /\ Stays /\ UNCHANGED h5
  BY <1>1, <1>6, <1>9, InvIgnored
<1>10. CASE /\ frame.op = "attached" /\ s \notin h5.retired
            /\ IF h5.destroyed THEN Stays /\ h5' = RetireIds(h5, {s})
               ELSE IF Owners(h5) = {}
               THEN UNCHANGED h5 /\ (IF h5.exhausted THEN Stays ELSE Leaks(s))
               ELSE \E w \in Owners(h5) :
                      h5' = SessionAttached(h5, w, s) /\ Mistakes(w, s)
  <2>1. Inv(h5, target) => ~ h5.destroyed
    BY <1>1, <1>10, ReadFrame DEF Inv, Good, Core, PageOK
  <2>2. CASE h5.destroyed
    BY <1>10, <1>6, <2>1, <2>2
  <2>3. CASE ~ h5.destroyed /\ Owners(h5) = {}
    BY <1>1, <1>5, <1>6, <1>10, <2>3, InvIgnored, AttachedIsNotOurs DEF Inv
  <2>4. CASE ~ h5.destroyed /\ Owners(h5) # {}
    <3>1. PICK w \in Owners(h5) : h5' = SessionAttached(h5, w, s) /\ Mistakes(w, s)
      BY <1>10, <2>4
    <3>2. w \in Windows /\ h5.entry[w].in
      BY DEF Owners
    <3>3. happened' = [happened EXCEPT !.mistaken = @ \/ (h5.entry[w].root = 0 /\ s \notin target.ours)]
      BY <3>1 DEF Mistakes
    <3> DEFINE wrong == h5.entry[w].root = 0 /\ s \notin target.ours
    <3>4. /\ happened' \in Happenings /\ happened'.leaked = happened.leaked
          /\ happened'.mistaken = (happened.mistaken \/ wrong)
      <4>1. wrong \in BOOLEAN
        OBVIOUS
      <4>2. happened' = [happened EXCEPT !.mistaken = @ \/ wrong]
        BY <3>3
      <4> HIDE DEF wrong
      <4> QED BY <1>3, <4>1, <4>2 DEF Happenings
    <3>5. ASSUME ~ happened.mistaken, ~ wrong PROVE Inv(h5', Read(target))
      BY <1>1, <1>10, <2>4, <3>1, <3>2, <3>5, InvSessionAttached DEF H5Inv
    <3> QED BY <3>4, <3>5 DEF H5Inv
  <2> QED BY <2>2, <2>3, <2>4
<1>11. CASE /\ frame.op \in {"detached", "event"} /\ s \notin h5.retired /\ known = {}
            /\ UNCHANGED h5 /\ (IF h5.exhausted THEN Stays ELSE Leaks(s))
  BY <1>1, <1>5, <1>6, <1>11, InvIgnored, StrangerIsNotOurs DEF Inv
<1>12. CASE /\ frame.op = "detached" /\ s \notin h5.retired
            /\ Stays /\ \E w \in known : h5' = SessionDetached(h5, w, s)
  BY <1>1, <1>6, <1>12, InvSessionDetached DEF Owners
<1>13. CASE /\ frame.op = "event" /\ s \notin h5.retired /\ known # {}
            /\ Stays /\ UNCHANGED h5
  BY <1>1, <1>6, <1>13, InvIgnored
<1>14. CASE /\ frame.op = "destroyed"
            /\ Stays
            /\ IF Owners(h5) = {} THEN UNCHANGED h5
               ELSE \E w \in Owners(h5) : h5' = TargetDestroyed(h5, w)
  BY <1>1, <1>6, <1>14, InvIgnored, InvTargetDestroyed DEF Owners
<1> HIDE DEF Goal
<1> QED BY <1>7, <1>8, <1>9, <1>10, <1>11, <1>12, <1>13, <1>14 DEF ReceiveFrame

-----------------------------------------------------------------------------
(* What the target adds                                                     *)

\* The browser has taken the first command.
Taken(h) == [h EXCEPT !.sent = Tail(@)]

\* The frames u has and t has not.
Adds(t, u) == DOMAIN u.in \ DOMAIN t.in

\* The target grew: frames after those it had, sessions it had not made.
Extends(t, u) ==
    /\ u \in TargetStates /\ t.made <= u.made /\ (t.dead => u.dead)
    /\ DOMAIN t.in \subseteq DOMAIN u.in
    /\ \A i \in DOMAIN t.in : u.in[i] = t.in[i] /\ \A j \in Adds(t, u) : i < j
    /\ t.ours \subseteq u.ours /\ \A s \in u.ours \ t.ours : t.made < s /\ s <= u.made
    /\ \A s \in u.live \ t.live : t.made < s /\ s <= u.made

\* A reply the target adds answers one command, once, as it was asked.
Answers(h, t, u) == \A i \in Adds(t, u) : u.in[i].op = "reply" =>
    /\ \A j \in Adds(t, u) : u.in[j].op = "reply" => i = j
    /\ \A j \in DOMAIN t.in : t.in[j].op = "reply" => t.in[j].id # u.in[i].id
    /\ \A j \in DOMAIN h.sent : h.sent[j].id # u.in[i].id
    /\ u.in[i].s = 0 \/ (t.made < u.in[i].s /\ u.in[i].s \in u.live)
    /\ \A p \in h.pending : p.id = u.in[i].id =>
          /\ p.method = "attach" => u.in[i].s \in u.ours \cup {0} /\ (u.in[i].ok <=> u.in[i].s # 0)
          /\ p.method # "attach" => u.in[i].s = 0
          /\ p.method = "detach" /\ u.in[i].ok => p.s \notin u.live

\* A session appears and ends once, and an event tells of its end.
Tells(h, t, u) ==
    /\ \A i \in Adds(t, u) :
          /\ u.in[i].id \in 0 .. h.ids /\ u.in[i].s \in 0 .. u.made
          /\ u.in[i].op \in {"attached", "detached", "event"} => u.in[i].s # 0
          /\ u.in[i].op = "destroyed" => u.in[i].s = 0
          /\ u.in[i].op = "attached" => t.made < u.in[i].s
          /\ u.in[i].op = "detached" => u.in[i].s \notin u.live
          /\ u.in[i].s \in u.ours => u.in[i].s \in u.live \/ u.in[i].s \in t.ours \cap t.live
    /\ \A i, j \in Adds(t, u) : \A s \in 1 .. u.made :
          Makes(u.in[i], s) /\ Unmakes(h, u.in[j], s) => FALSE
    /\ \A s \in u.live \cap u.ours : s \in t.live \/ Coming(h, u, s)
    /\ \A s \in t.live \ u.live : \E i \in Adds(t, u) : EndOf(u.in[i], s)

\* A page that is gone makes no session and ends no second time.
Dies(t, u) ==
    /\ u.dead => u.live = {}
    /\ t.dead => \A i \in Adds(t, u) :
          u.in[i].op \notin {"attached", "destroyed"} /\ (u.in[i].op = "reply" => u.in[i].s = 0)
    /\ \A i, j \in Adds(t, u) : u.in[i].op = "destroyed" => u.dead /\ (u.in[j].op = "destroyed" => i = j)

\* Whatever the target adds so keeps the invariant.
LEMMA ExtendsKeeps ==
    ASSUME NEW h, NEW t, NEW u, Inv(h, t), Extends(t, u), Answers(h, t, u), Tells(h, t, u), Dies(t, u)
    PROVE  Inv(h, u)
<1>1. /\ h \in H5States /\ t \in TargetStates /\ u \in TargetStates /\ Numbering(h, t) /\ Known(h, t)
      /\ SessionsOK(h, t) /\ PageOK(h, t) /\ Releases(h, t) /\ \A w \in Windows : WindowOK(h, w)
  BY DEF Inv, Good, Core, Extends
<1>2. t.made \in Nat /\ u.made \in Nat /\ t.made <= u.made /\ (t.dead => u.dead)
  BY <1>1 DEF TargetStates, Extends
<1>3. /\ \A i \in DOMAIN t.in : i \in DOMAIN u.in /\ u.in[i] = t.in[i] /\ \A j \in Adds(t, u) : i < j
      /\ \A i \in DOMAIN u.in : i \in DOMAIN t.in \/ i \in Adds(t, u)
      /\ t.ours \subseteq u.ours /\ (\A s \in u.ours \ t.ours : t.made < s /\ s <= u.made)
      /\ \A s \in u.live \ t.live : t.made < s /\ s <= u.made
  BY DEF Extends, Adds
<1>4. \A i \in DOMAIN u.in : u.in[i].s \in Nat
  <2>1. u.in \in Seq(Frames)
    BY <1>1 DEF TargetStates
  <2>2. \A i \in DOMAIN u.in : u.in[i] \in Frames
    BY <2>1
  <2> QED BY <2>2 DEF Frames
<1>5. Numbering(h, u)
  BY <1>1, <1>2, <1>3, <1>4 DEF Known, Numbering, Answers
<1>6. Known(h, u)
  BY <1>1, <1>2, <1>3 DEF Known, TargetStates, Tells
<1>7. \A s : Coming(h, t, s) => Coming(h, u, s)
  BY <1>3 DEF Coming, AnsweredBy
<1>8. SessionsOK(h, u)
  <2>1. \A w \in Windows : h.entry[w].root \in u.ours \cup {0} /\ h.entry[w].extra \cap u.ours = {}
    BY <1>1, <1>2, <1>3 DEF SessionsOK, Known
  <2>2. h.retired \cap u.live = {}
    BY <1>1, <1>2, <1>3 DEF Known, SessionsOK
  <2>3. \A s \in u.ours \cap u.live : Owned(h, s) \/ Coming(h, u, s)
    BY <1>1, <1>2, <1>3, <1>7 DEF Tells, Known, SessionsOK
  <2>4. ASSUME NEW i \in DOMAIN u.in, u.in[i].s \in u.ours
        PROVE  /\ u.in[i].op = "attached" => Owned(h, u.in[i].s) \/ Coming(h, u, u.in[i].s)
               /\ u.in[i].op \in {"detached", "event"} =>
                     \/ u.in[i].s \in h.retired \/ h.exhausted
                     \/ Owned(h, u.in[i].s) \/ Coming(h, u, u.in[i].s)
    BY <1>1, <1>2, <1>3, <1>7, <2>3, <2>4 DEF Tells, SessionsOK, Known
  <2>5. ASSUME NEW i \in DOMAIN u.in, NEW j \in DOMAIN u.in, NEW s \in 1 .. u.made,
               Makes(u.in[i], s), Unmakes(h, u.in[j], s)
        PROVE  i < j
    BY SMTT(20), <1>1, <1>2, <1>3, <2>5 DEF Tells, Known, Makes, SessionsOK, Answers, Dies, PageOK, Unmakes
  <2>6. ASSUME NEW i \in DOMAIN u.in, u.in[i].op = "reply"
        PROVE  u.in[i].s \notin h.retired
    BY <1>1, <1>2, <1>3, <1>4, <2>6 DEF Known, SessionsOK, Answers
  <2>7. ASSUME NEW i \in DOMAIN u.in, u.in[i].op = "detached"
        PROVE  u.in[i].s \notin u.live
    BY <1>1, <1>2, <1>3, <2>7 DEF SessionsOK, Known, Tells
  <2>8. ASSUME NEW i \in DOMAIN u.in, u.in[i].op = "reply", u.in[i].s # 0
        PROVE  u.in[i].s \in u.live \/ \E j \in DOMAIN u.in : EndOf(u.in[j], u.in[i].s)
    BY <1>1, <1>3, <2>8 DEF SessionsOK, Tells, Adds, Answers
  <2>9. \A p \in h.pending : p.method = "attach" =>
          \/ h.entry[p.w].root = 0 /\ h.entry[p.w].extra = {}
          \/ \E i \in DOMAIN u.in : AnsweredBy(h, u, h.entry[p.w].root, p, i)
    BY <1>1, <1>3 DEF AnsweredBy, SessionsOK
  <2>10. \A v, w \in Windows : h.entry[v].in /\ h.entry[w].in => v = w
    BY <1>1 DEF SessionsOK
  <2> QED BY <2>1, <2>2, <2>3, <2>4, <2>5, <2>6, <2>7, <2>8, <2>9, <2>10 DEF SessionsOK
<1>9. PageOK(h, u)
  BY <1>1, <1>2, <1>3 DEF PageOK, Dies
<1>10. Releases(h, u)
  <2> SUFFICES ASSUME NEW p \in h.pending, p.method = "detach", NEW q \in h.pending, NEW i \in DOMAIN u.in,
                      AnsweredBy(h, u, p.s, q, i)
               PROVE  q.w = p.w
    BY <1>1 DEF Releases
  <2>1. p.w \in Windows /\ p.s \in 0 .. t.made
    BY <1>1 DEF H5States, Requests, Known
  <2>2. p.s # 0
    BY <1>1, <2>1 DEF WindowOK
  <2>3. u.in[i].op = "reply" /\ u.in[i].s = p.s
    BY DEF AnsweredBy
  <2>4. i \notin Adds(t, u)
    BY <1>2, <2>1, <2>2, <2>3 DEF Answers
  <2>5. i \in DOMAIN t.in /\ AnsweredBy(h, t, p.s, q, i)
    BY <1>3, <2>4 DEF AnsweredBy
  <2> QED BY <1>1, <2>5 DEF Releases
<1>11. Conn(h, u)
  BY <1>3 DEF Tells, Adds, Conn, Inv
<1> QED BY <1>1, <1>5, <1>6, <1>8, <1>9, <1>10, <1>11 DEF Inv, Good, Core

-----------------------------------------------------------------------------
(* Commands executed                                                        *)

\* A command that is executed has not been answered, and is as it was asked.
Asked(h, t, do) ==
    /\ do \in Commands /\ do.id \in 1 .. h.ids /\ do.s \in 0 .. t.made
    /\ \A i \in DOMAIN h.sent : h.sent[i].id # do.id
    /\ \A i \in DOMAIN t.in : t.in[i].op = "reply" => t.in[i].id # do.id
    /\ \A p \in h.pending : p.id = do.id => p.method = do.method /\ p.s = do.s
    /\ do.method = "attach" =>
          t.dead \/ \E p \in h.pending : p.method = "attach" /\ p.id = do.id

\* A command is taken to be executed.
LEMMA TakenKeeps ==
    ASSUME NEW h, NEW t, Inv(h, t), h.sent # <<>>
    PROVE  Inv(Taken(h), t) /\ Asked(Taken(h), t, Head(h.sent))
<1> DEFINE r == Taken(h)
           do == Head(h.sent)
<1>1. /\ h \in H5States /\ t \in TargetStates /\ Numbering(h, t) /\ Known(h, t)
      /\ SessionsOK(h, t) /\ PageOK(h, t) /\ Releases(h, t) /\ \A w \in Windows : WindowOK(h, w)
  BY DEF Inv, Good, Core
<1>2. h.sent \in Seq(Commands)
  BY <1>1 DEF H5States
<1>3. /\ Tail(h.sent) \in Seq(Commands) /\ do = h.sent[1] /\ 1 \in DOMAIN h.sent /\ do \in Commands
      /\ \A i \in DOMAIN Tail(h.sent) : i + 1 \in DOMAIN h.sent /\ i + 1 # 1 /\ i \in Nat /\ Tail(h.sent)[i] = h.sent[i + 1]
  BY <1>2
<1>4. /\ r \in H5States /\ r.sent = Tail(h.sent) /\ r.entry = h.entry /\ r.pending = h.pending
      /\ r.retired = h.retired /\ r.destroyed = h.destroyed /\ r.exhausted = h.exhausted /\ r.ids = h.ids
  BY <1>1, <1>3 DEF H5States, Taken
<1> HIDE DEF r
<1>5. \A i \in DOMAIN r.sent : i + 1 \in DOMAIN h.sent /\ i + 1 # 1 /\ i \in Nat /\ r.sent[i] = h.sent[i + 1]
  BY <1>3, <1>4
<1>6. \A i, j \in DOMAIN r.sent : r.sent[i].id = r.sent[j].id => i = j
  BY <1>1, <1>5 DEF Numbering
<1>7. \A i \in DOMAIN r.sent : \E j \in DOMAIN h.sent : j # 1 /\ r.sent[i] = h.sent[j]
  BY <1>5
<1>8. Numbering(r, t)
  BY <1>1, <1>4, <1>6, <1>7 DEF Numbering
<1>9. Known(r, t)
  BY <1>1, <1>4, <1>7 DEF Known
<1>10. \A w \in Windows : WindowOK(r, w)
  BY <1>1, <1>4 DEF WindowOK
<1>11. SessionsOK(r, t) /\ Releases(r, t)
  BY <1>1, <1>4 DEF SessionsOK, Releases, Owned, Coming, AnsweredBy, Unmakes
<1>12. PageOK(r, t)
  BY <1>1, <1>4, <1>7 DEF PageOK
<1>13. Inv(r, t)
  BY <1>1, <1>4, <1>8, <1>9, <1>10, <1>11, <1>12 DEF Inv, Good, Core, Roots, Conn
<1>14. Asked(r, t, do)
  BY <1>1, <1>3, <1>4, <1>7 DEF Known, Numbering, PageOK, Asked
<1> QED BY <1>13, <1>14 DEF r

\* The frames of t stay where they are.
Keeps(t, u) ==
    /\ DOMAIN t.in \subseteq DOMAIN u.in
    /\ \A i \in DOMAIN t.in : u.in[i] = t.in[i] /\ \A j \in Adds(t, u) : i < j

\* One frame is added, or two in either order.
One(t, u, f) == \E a : Adds(t, u) = {a} /\ u.in[a] = f
Two(t, u, f, g) == \E a, b : Adds(t, u) = {a, b} /\ a # b /\ u.in[a] = f /\ u.in[b] = g

\* Appending adds one.
LEMMA OneMore ==
    ASSUME NEW t \in TargetStates, NEW u, NEW f \in Frames, u.in = Append(t.in, f)
    PROVE  u.in \in Seq(Frames) /\ Keeps(t, u) /\ One(t, u, f)
<1>1. t.in \in Seq(Frames)
  BY DEF TargetStates
<1>2. u.in \in Seq(Frames) /\ Len(u.in) = Len(t.in) + 1 /\ u.in[Len(t.in) + 1] = f
      /\ \A i \in 1 .. Len(t.in) : u.in[i] = t.in[i]
  BY <1>1
<1>3. Len(t.in) \in Nat /\ DOMAIN t.in = 1 .. Len(t.in) /\ DOMAIN u.in = 1 .. (Len(t.in) + 1)
  BY <1>1, <1>2
<1>4. Adds(t, u) = {Len(t.in) + 1}
  BY <1>3 DEF Adds
<1> QED BY <1>2, <1>3, <1>4 DEF Keeps, One

\* Appending both adds two.
LEMMA TwoMore ==
    ASSUME NEW t \in TargetStates, NEW u, NEW f \in Frames, NEW g \in Frames,
           NEW two \in Either(f, g), u.in = t.in \o two
    PROVE  u.in \in Seq(Frames) /\ Keeps(t, u) /\ Two(t, u, f, g)
<1>1. t.in \in Seq(Frames)
  BY DEF TargetStates
<1>2. PICK x \in Frames, y \in Frames : two = <<x, y>> /\ ((x = f /\ y = g) \/ (x = g /\ y = f))
  BY DEF Either
<1>3. u.in \in Seq(Frames) /\ Len(u.in) = Len(t.in) + 2
      /\ u.in[Len(t.in) + 1] = x /\ u.in[Len(t.in) + 2] = y
      /\ \A i \in 1 .. Len(t.in) : u.in[i] = t.in[i]
  BY <1>1, <1>2
<1>4. Len(t.in) \in Nat /\ DOMAIN t.in = 1 .. Len(t.in) /\ DOMAIN u.in = 1 .. (Len(t.in) + 2)
  BY <1>1, <1>3
<1> DEFINE a == Len(t.in) + 1
           b == Len(t.in) + 2
<1>5. /\ a # b /\ a \in DOMAIN u.in /\ b \in DOMAIN u.in
      /\ a \notin DOMAIN t.in /\ b \notin DOMAIN t.in
      /\ \A i \in DOMAIN u.in : i \in DOMAIN t.in \/ i = a \/ i = b
      /\ \A i \in DOMAIN t.in : i \in DOMAIN u.in /\ i < a /\ i < b
  BY SMTT(20), <1>4
<1>6. u.in[a] = x /\ u.in[b] = y /\ \A i \in DOMAIN t.in : u.in[i] = t.in[i]
  BY <1>3, <1>4
<1> HIDE DEF a, b
<1>7. \A i : i \in Adds(t, u) <=> i = a \/ i = b
  BY <1>5 DEF Adds
<1>8. Adds(t, u) = {a, b} /\ Adds(t, u) = {b, a}
  BY <1>7
<1>9. Keeps(t, u)
  <2>1. \A i \in DOMAIN t.in : \A j \in Adds(t, u) : i < j
    BY <1>5, <1>7
  <2>2. DOMAIN t.in \subseteq DOMAIN u.in
    BY <1>5
  <2> QED BY <1>6, <2>1, <2>2 DEF Keeps
<1>10. Two(t, u, f, g)
  <2>1. CASE x = f /\ y = g
    BY <1>5, <1>6, <1>8, <2>1 DEF Two
  <2>2. CASE x = g /\ y = f
    BY <1>5, <1>6, <1>8, <2>2 DEF Two
  <2> QED BY <1>2, <2>1, <2>2
<1> QED BY <1>3, <1>9, <1>10

\* The page is attached, for the window whose request that was.
LEMMA AttachRuns ==
    ASSUME NEW h, NEW t, NEW do, Inv(h, t), Asked(h, t, do), do.method = "attach", ~ t.dead,
           NEW two \in Either(Frame("attached", 0, TRUE, t.made + 1), Frame("reply", do.id, TRUE, t.made + 1))
    PROVE  Inv(h, [t EXCEPT !.made = t.made + 1, !.live = @ \cup {t.made + 1},
                            !.ours = @ \cup {t.made + 1}, !.in = @ \o two])
<1> DEFINE n == t.made + 1
           f == Frame("attached", 0, TRUE, n)
           g == Frame("reply", do.id, TRUE, n)
           u == [t EXCEPT !.made = n, !.live = @ \cup {n}, !.ours = @ \cup {n}, !.in = @ \o two]
<1>1. /\ h \in H5States /\ t \in TargetStates /\ Known(h, t)
  BY DEF Inv, Good, Core
<1>2. t.made \in Nat /\ n \in Nat /\ h.ids \in Nat /\ do.id \in Nat
  BY <1>1 DEF TargetStates, H5States, Asked
<1>3. /\ f \in Frames /\ f.op = "attached" /\ f.id = 0 /\ f.s = n
      /\ g \in Frames /\ g.op = "reply" /\ g.id = do.id /\ g.s = n /\ g.ok
  BY <1>2 DEF Frame, Frames
<1>4. two \in Either(f, g)
  OBVIOUS
<1>5. u.in = t.in \o two /\ u.dead = t.dead /\ u.made = n /\ u.live = t.live \cup {n} /\ u.ours = t.ours \cup {n}
  BY <1>1 DEF TargetStates
<1>6. n \in 1 .. n /\ t.made < n /\ \A s \in 1 .. t.made : s # n
  BY <1>2
<1> HIDE DEF f, g
<1> HIDE DEF u
<1>7. u.in \in Seq(Frames) /\ Keeps(t, u) /\ Two(t, u, f, g)
  BY <1>1, <1>3, <1>4, <1>5, TwoMore
<1>8. u \in TargetStates
  <2>1. t.live \cup {n} \in SUBSET Nat /\ t.ours \cup {n} \in SUBSET Nat
    BY <1>1, <1>2 DEF TargetStates
  <2> HIDE DEF n
  <2>2. t.in \o two \in Seq(Frames)
    BY <1>5, <1>7
  <2> DEFINE fs == t.in \o two
             l == t.live \cup {n}
             o == t.ours \cup {n}
  <2>3. u = [t EXCEPT !.made = n, !.live = l, !.ours = o, !.in = fs]
    BY DEF u
  <2> HIDE DEF fs, l, o
  <2> QED BY <1>1, <1>2, <2>1, <2>2, <2>3 DEF TargetStates, fs, l, o
<1>9. PICK a, b : Adds(t, u) = {a, b} /\ a # b /\ u.in[a] = f /\ u.in[b] = g
  BY <1>7 DEF Two
<1>10. Extends(t, u)
  BY <1>2, <1>5, <1>6, <1>7, <1>8 DEF Extends, Keeps
<1>11. a \in DOMAIN u.in /\ b \in DOMAIN u.in
  BY <1>9 DEF Adds
<1>12. Answers(h, t, u)
  <2>1. \A i \in Adds(t, u) : u.in[i].op = "reply" => i = b /\ u.in[i] = g
    BY <1>3, <1>9
  <2>2. \A p \in h.pending : p.id = do.id => p.method = "attach"
    BY DEF Asked
  <2>3. n \in u.live /\ n \in u.ours /\ n # 0 /\ t.made < n
    BY <1>2, <1>5, <1>6
  <2> HIDE DEF n
  <2> QED BY <1>3, <2>1, <2>2, <2>3 DEF Answers, Asked
<1>13. Coming(h, u, n)
  BY <1>3, <1>9, <1>11 DEF Asked, Coming, AnsweredBy
<1>14. Tells(h, t, u)
  <2>1. ASSUME NEW i \in Adds(t, u)
        PROVE  /\ u.in[i].id \in 0 .. h.ids /\ u.in[i].s \in 0 .. u.made
               /\ u.in[i].op \in {"attached", "detached", "event"} => u.in[i].s # 0
               /\ u.in[i].op = "destroyed" => u.in[i].s = 0
               /\ u.in[i].op = "attached" => t.made < u.in[i].s
               /\ u.in[i].op = "detached" => u.in[i].s \notin u.live
               /\ u.in[i].s \in u.ours => u.in[i].s \in u.live \/ u.in[i].s \in t.ours \cap t.live
    <3>1. do.id \in 0 .. h.ids /\ 0 \in 0 .. h.ids
      BY <1>2 DEF Asked
    <3>2. u.in[i] = f \/ u.in[i] = g
      BY <1>9
    <3>3. n \in 0 .. u.made /\ n # 0 /\ t.made < n /\ n \in u.live
      BY <1>2, <1>5, <1>6
    <3> HIDE DEF n
    <3> QED BY <1>3, <3>1, <3>2, <3>3
  <2>2. \A i \in Adds(t, u) : \A s : ~ Unmakes(h, u.in[i], s)
    BY <1>3, <1>9 DEF Unmakes, Asked
  <2>3. \A s \in u.live \cap u.ours : s \in t.live \/ Coming(h, u, s)
    BY <1>5, <1>13
  <2>4. t.live \ u.live = {}
    BY <1>5
  <2> QED BY <2>1, <2>2, <2>3, <2>4 DEF Tells
<1>15. Dies(t, u)
  BY <1>3, <1>5, <1>9 DEF Dies
<1> QED BY <1>10, <1>12, <1>14, <1>15, ExtendsKeeps DEF u

\* A session is detached, as one of its windows asked.
LEMMA DetachRuns ==
    ASSUME NEW h, NEW t, NEW do, Inv(h, t), Asked(h, t, do), do.method = "detach", do.s \in t.live,
           NEW two \in Either(Frame("detached", 0, TRUE, do.s), Frame("reply", do.id, TRUE, 0))
    PROVE  Inv(h, [t EXCEPT !.live = @ \ {do.s}, !.in = @ \o two])
<1> DEFINE n == do.s
           f == Frame("detached", 0, TRUE, n)
           g == Frame("reply", do.id, TRUE, 0)
           u == [t EXCEPT !.live = @ \ {n}, !.in = @ \o two]
<1>1. /\ h \in H5States /\ t \in TargetStates /\ Known(h, t) /\ PageOK(h, t)
  BY DEF Inv, Good, Core
<1>2. t.made \in Nat /\ n \in 1 .. t.made /\ h.ids \in Nat /\ do.id \in Nat /\ ~ t.dead
  BY <1>1 DEF TargetStates, H5States, Asked, Known, PageOK
<1>3. /\ f \in Frames /\ f.op = "detached" /\ f.id = 0 /\ f.s = n
      /\ g \in Frames /\ g.op = "reply" /\ g.id = do.id /\ g.s = 0 /\ g.ok
  BY <1>2 DEF Frame, Frames
<1>4. two \in Either(f, g)
  OBVIOUS
<1>5. u.in = t.in \o two /\ u.dead = t.dead /\ u.made = t.made /\ u.live = t.live \ {n} /\ u.ours = t.ours
  BY <1>1 DEF TargetStates
<1> HIDE DEF f, g
<1> HIDE DEF u
<1>7. u.in \in Seq(Frames) /\ Keeps(t, u) /\ Two(t, u, f, g)
  BY <1>1, <1>3, <1>4, <1>5, TwoMore
<1>8. u \in TargetStates
  <2>1. t.live \ {n} \in SUBSET Nat
    BY <1>1 DEF TargetStates
  <2> HIDE DEF n
  <2>2. t.in \o two \in Seq(Frames)
    BY <1>5, <1>7
  <2> DEFINE fs == t.in \o two
             l == t.live \ {n}
  <2>3. u = [t EXCEPT !.live = l, !.in = fs]
    BY DEF u
  <2> HIDE DEF fs, l
  <2> QED BY <1>1, <2>1, <2>2, <2>3 DEF TargetStates, fs, l
<1>9. PICK a, b : Adds(t, u) = {a, b} /\ a # b /\ u.in[a] = f /\ u.in[b] = g
  BY <1>7 DEF Two
<1>10. Extends(t, u)
  BY <1>2, <1>5, <1>7, <1>8 DEF Extends, Keeps
<1>12. Answers(h, t, u)
  <2>1. \A i \in Adds(t, u) : u.in[i].op = "reply" => i = b /\ u.in[i] = g
    BY <1>3, <1>9
  <2>2. \A p \in h.pending : p.id = do.id => p.method = "detach" /\ p.s = n
    BY DEF Asked
  <2>3. n \notin u.live
    BY <1>5
  <2> HIDE DEF n
  <2> QED BY <1>3, <2>1, <2>2, <2>3 DEF Answers, Asked
<1>14. Tells(h, t, u)
  <2>1. ASSUME NEW i \in Adds(t, u)
        PROVE  /\ u.in[i].id \in 0 .. h.ids /\ u.in[i].s \in 0 .. u.made
               /\ u.in[i].op \in {"attached", "detached", "event"} => u.in[i].s # 0
               /\ u.in[i].op = "destroyed" => u.in[i].s = 0
               /\ u.in[i].op = "attached" => t.made < u.in[i].s
               /\ u.in[i].op = "detached" => u.in[i].s \notin u.live
               /\ u.in[i].s \in u.ours => u.in[i].s \in u.live \/ u.in[i].s \in t.ours \cap t.live
    <3>1. do.id \in 0 .. h.ids /\ 0 \in 0 .. h.ids /\ 0 \notin t.ours
      BY <1>1, <1>2 DEF Asked, Known
    <3>2. u.in[i] = f \/ u.in[i] = g
      BY <1>9
    <3>3. n \in 0 .. u.made /\ 0 \in 0 .. u.made /\ n # 0 /\ n \notin u.live /\ n \in t.live
      BY <1>2, <1>5
    <3> HIDE DEF n
    <3> QED BY ZenonT(40), <1>3, <1>5, <3>1, <3>2, <3>3
  <2>2. \A i \in Adds(t, u) : \A s \in 1 .. u.made : ~ Makes(u.in[i], s)
    BY <1>3, <1>9 DEF Makes
  <2>3. \A s \in u.live \cap u.ours : s \in t.live
    BY <1>5
  <2>4. \A s \in t.live \ u.live : \E i \in Adds(t, u) : EndOf(u.in[i], s)
    BY <1>3, <1>5, <1>9 DEF EndOf
  <2> QED BY <2>1, <2>2, <2>3, <2>4 DEF Tells
<1>15. Dies(t, u)
  BY <1>2, <1>3, <1>5, <1>9 DEF Dies
<1> QED BY <1>10, <1>12, <1>14, <1>15, ExtendsKeeps DEF u

\* Whatever else is asked: the answer names no session.
LEMMA OtherRuns ==
    ASSUME NEW h, NEW t, NEW do, NEW ok \in BOOLEAN, Inv(h, t), Asked(h, t, do),
           do.method = "attach" => t.dead /\ ~ ok,
           do.method = "detach" => do.s \notin t.live
    PROVE  Inv(h, [t EXCEPT !.in = Append(@, Frame("reply", do.id, ok, 0))])
<1> DEFINE g == Frame("reply", do.id, ok, 0)
           u == [t EXCEPT !.in = Append(@, g)]
<1>1. /\ h \in H5States /\ t \in TargetStates /\ Known(h, t) /\ PageOK(h, t)
  BY DEF Inv, Good, Core
<1>2. t.made \in Nat /\ h.ids \in Nat /\ do.id \in Nat
  BY <1>1 DEF TargetStates, H5States, Asked
<1>3. g \in Frames /\ g.op = "reply" /\ g.id = do.id /\ g.s = 0 /\ g.ok = ok
  BY <1>2 DEF Frame, Frames
<1> HIDE DEF g
<1>5. u.in = Append(t.in, g) /\ u.dead = t.dead /\ u.made = t.made /\ u.live = t.live /\ u.ours = t.ours
  BY <1>1 DEF TargetStates
<1> HIDE DEF u
<1>7. u.in \in Seq(Frames) /\ Keeps(t, u) /\ One(t, u, g)
  BY <1>1, <1>3, <1>5, OneMore
<1>8. u \in TargetStates
  BY <1>1, <1>5, <1>7 DEF TargetStates, u
<1>9. PICK a : Adds(t, u) = {a} /\ u.in[a] = g
  BY <1>7 DEF One
<1>10. Extends(t, u)
  BY <1>2, <1>5, <1>7, <1>8 DEF Extends, Keeps
<1>12. Answers(h, t, u)
  BY <1>3, <1>5, <1>9 DEF Answers, Asked
<1>14. Tells(h, t, u)
  <2>1. do.id \in 0 .. h.ids /\ 0 \notin t.ours
    BY <1>1, <1>2 DEF Asked, Known
  <2>2. \A i \in Adds(t, u) : \A s \in 1 .. u.made : ~ Makes(u.in[i], s)
    BY <1>3, <1>9 DEF Makes
  <2>3. \A i \in Adds(t, u) : u.in[i] = g
    BY <1>9
  <2>4. 0 \in 0 .. u.made
    BY <1>2, <1>5
  <2>5. t.live \ u.live = {} /\ u.live \cap u.ours \subseteq t.live
    BY <1>5
  <2> QED BY <1>3, <1>5, <2>1, <2>2, <2>3, <2>4, <2>5 DEF Tells
<1>15. Dies(t, u)
  BY <1>1, <1>3, <1>5, <1>9 DEF Dies, PageOK
<1> QED BY <1>10, <1>12, <1>14, <1>15, ExtendsKeeps DEF u, g

-----------------------------------------------------------------------------
(* What the page does, and the theorem                                      *)

\* One event of the page.
LEMMA OneHeard ==
    ASSUME NEW h, NEW t, Inv(h, t), NEW u \in TargetStates, NEW f \in Frames,
           u.in = Append(t.in, f), f.op # "reply", f.id = 0, f.s \in 0 .. u.made,
           f.op = "destroyed" <=> f.s = 0,
           t.made <= u.made, u.ours = t.ours, t.dead => u.dead, u.dead => u.live = {},
           \A s \in u.live \ t.live : t.made < s /\ s <= u.made,
           \A s \in t.live \ u.live : EndOf(f, s),
           f.op = "attached" => t.made < f.s /\ ~ t.dead,
           f.op = "detached" => f.s \notin u.live,
           f.op = "destroyed" => u.dead /\ ~ t.dead,
           f.s \in t.ours => f.s \in t.live
    PROVE  Inv(h, u)
<1>1. h \in H5States /\ t \in TargetStates /\ Known(h, t)
  BY DEF Inv, Good, Core
<1>2. h.ids \in Nat /\ t.made \in Nat
  BY <1>1 DEF H5States, TargetStates
<1>3. Keeps(t, u) /\ One(t, u, f)
  BY <1>1, OneMore
<1>4. PICK a : Adds(t, u) = {a} /\ u.in[a] = f
  BY <1>3 DEF One
<1>5. \A i \in Adds(t, u) : i = a /\ u.in[i] = f
  BY <1>4
<1>6. Extends(t, u)
  BY <1>3 DEF Extends, Keeps
<1>7. Answers(h, t, u)
  BY <1>5 DEF Answers
<1>8. Tells(h, t, u)
  <2>1. \A i \in Adds(t, u) :
          /\ u.in[i].id \in 0 .. h.ids /\ u.in[i].s \in 0 .. u.made
          /\ u.in[i].op \in {"attached", "detached", "event"} => u.in[i].s # 0
          /\ u.in[i].op = "destroyed" => u.in[i].s = 0
          /\ u.in[i].op = "attached" => t.made < u.in[i].s
          /\ u.in[i].op = "detached" => u.in[i].s \notin u.live
          /\ u.in[i].s \in u.ours => u.in[i].s \in u.live \/ u.in[i].s \in t.ours \cap t.live
    <3>1. 0 \in 0 .. h.ids
      BY <1>2
    <3>2. f.op \in {"attached", "detached", "event"} => f.s # 0
      OBVIOUS
    <3> QED BY <1>5, <3>1, <3>2
  <2>2. \A s : Makes(f, s) /\ Unmakes(h, f, s) => FALSE
    BY DEF Makes, Unmakes
  <2>3. \A i, j \in Adds(t, u) : \A s \in 1 .. u.made : Makes(u.in[i], s) /\ Unmakes(h, u.in[j], s) => FALSE
    BY <1>5, <2>2
  <2>4. \A s \in u.live \cap u.ours : s \in t.live
    BY <1>1, <1>2 DEF Known
  <2>5. \A s \in t.live \ u.live : \E i \in Adds(t, u) : EndOf(u.in[i], s)
    BY <1>4
  <2> QED BY <2>1, <2>3, <2>4, <2>5 DEF Tells
<1>9. Dies(t, u)
  <2>1. t.dead => f.op \notin {"attached", "destroyed"} /\ f.op # "reply"
    OBVIOUS
  <2>2. \A i, j \in Adds(t, u) : i = j
    BY <1>5
  <2>3. \A i \in Adds(t, u) : u.in[i].op = f.op
    BY <1>5
  <2>4. t.dead => \A i \in Adds(t, u) :
          u.in[i].op \notin {"attached", "destroyed"} /\ (u.in[i].op = "reply" => u.in[i].s = 0)
    BY <2>1, <2>3
  <2>5. \A i, j \in Adds(t, u) : u.in[i].op = "destroyed" => u.dead /\ (u.in[j].op = "destroyed" => i = j)
    BY <2>2, <2>3
  <2>6. u.dead => u.live = {}
    OBVIOUS
  <2> QED BY <2>4, <2>5, <2>6 DEF Dies
<1> QED BY <1>6, <1>7, <1>8, <1>9, ExtendsKeeps

\* Frames of events are frames.
LEMMA PageFrame ==
    ASSUME NEW t \in TargetStates, NEW op \in {"attached", "detached", "event", "destroyed"}, NEW s \in Nat
    PROVE  /\ Frame(op, 0, TRUE, s) \in Frames /\ Frame(op, 0, TRUE, s).op = op
           /\ Frame(op, 0, TRUE, s).id = 0 /\ Frame(op, 0, TRUE, s).s = s
           /\ Append(t.in, Frame(op, 0, TRUE, s)) \in Seq(Frames)
<1> DEFINE x == Frame(op, 0, TRUE, s)
<1>1. x \in Frames /\ x.op = op /\ x.id = 0 /\ x.s = s
  BY DEF Frame, Frames
<1>2. t.in \in Seq(Frames)
  BY DEF TargetStates
<1> HIDE DEF x
<1>3. Append(t.in, x) \in Seq(Frames)
  BY <1>1, <1>2
<1> QED BY <1>1, <1>3 DEF x

\* The browser ends a session.
LEMMA SessionEnds ==
    ASSUME NEW h, NEW t, Inv(h, t), NEW s \in t.live
    PROVE  Inv(h, [t EXCEPT !.live = @ \ {s}, !.in = Append(@, Frame("detached", 0, TRUE, s))])
<1> DEFINE f == Frame("detached", 0, TRUE, s)
           fs == Append(t.in, f)
           l == t.live \ {s}
           u == [t EXCEPT !.live = l, !.in = fs]
<1>1. t \in TargetStates /\ Known(h, t) /\ PageOK(h, t)
  BY DEF Inv, Good, Core
<1>2. t.made \in Nat /\ s \in 1 .. t.made /\ s \in Nat /\ ~ t.dead
  BY <1>1 DEF TargetStates, Known, PageOK
<1>3. f \in Frames /\ f.op = "detached" /\ f.id = 0 /\ f.s = s /\ fs \in Seq(Frames)
  BY <1>1, <1>2, PageFrame
<1> HIDE DEF f
<1>4. l \in SUBSET Nat /\ l \subseteq t.live /\ s \notin l /\ t.live \ l = {s}
  BY <1>1 DEF TargetStates
<1>5. fs = Append(t.in, f)
  OBVIOUS
<1> HIDE DEF l, fs
<1>6. /\ u \in TargetStates /\ u.in = fs /\ u.live = l /\ u.made = t.made /\ u.ours = t.ours /\ u.dead = t.dead
  BY <1>1, <1>3, <1>4 DEF TargetStates
<1> HIDE DEF u
<1>7. f.s \in 0 .. u.made /\ f.s # 0 /\ t.made <= u.made
  BY <1>2, <1>3, <1>6
<1>8. \A x \in t.live \ u.live : EndOf(f, x)
  BY <1>3, <1>4, <1>6 DEF EndOf
<1>9. u.live \ t.live = {} /\ (f.op = "destroyed" <=> f.s = 0)
  BY <1>3, <1>4, <1>6, <1>7
<1>10. Inv(h, u)
  BY <1>2, <1>3, <1>4, <1>5, <1>6, <1>7, <1>8, <1>9, OneHeard
<1> QED BY <1>10 DEF u, l, fs, f

\* A session says something.
LEMMA SaysSomething ==
    ASSUME NEW h, NEW t, Inv(h, t), NEW s \in t.live
    PROVE  Inv(h, [t EXCEPT !.in = Append(@, Frame("event", 0, TRUE, s))])
<1> DEFINE f == Frame("event", 0, TRUE, s)
           fs == Append(t.in, f)
           u == [t EXCEPT !.in = fs]
<1>1. t \in TargetStates /\ Known(h, t) /\ PageOK(h, t)
  BY DEF Inv, Good, Core
<1>2. t.made \in Nat /\ s \in 1 .. t.made /\ s \in Nat /\ ~ t.dead
  BY <1>1 DEF TargetStates, Known, PageOK
<1>3. f \in Frames /\ f.op = "event" /\ f.id = 0 /\ f.s = s /\ fs \in Seq(Frames)
  BY <1>1, <1>2, PageFrame
<1> HIDE DEF f
<1>5. fs = Append(t.in, f)
  OBVIOUS
<1> HIDE DEF fs
<1>6. u \in TargetStates /\ u.in = fs /\ u.live = t.live /\ u.made = t.made /\ u.ours = t.ours /\ u.dead = t.dead
  BY <1>1, <1>3 DEF TargetStates
<1> HIDE DEF u
<1>7. f.s \in 0 .. u.made /\ f.s # 0 /\ t.made <= u.made
  BY <1>2, <1>3, <1>6
<1>9. u.live \ t.live = {} /\ t.live \ u.live = {} /\ (f.op = "destroyed" <=> f.s = 0)
  BY <1>3, <1>6, <1>7
<1>10. Inv(h, u)
  BY <1>2, <1>3, <1>5, <1>6, <1>7, <1>9, OneHeard
<1> QED BY <1>10 DEF u, fs, f

\* Somebody else attaches the page.
LEMMA SomebodyAttaches ==
    ASSUME NEW h, NEW t, Inv(h, t), ~ t.dead
    PROVE  Inv(h, [t EXCEPT !.made = @ + 1, !.live = @ \cup {t.made + 1},
                            !.in = Append(@, Frame("attached", 0, TRUE, t.made + 1))])
<1> DEFINE n == t.made + 1
           f == Frame("attached", 0, TRUE, n)
           fs == Append(t.in, f)
           l == t.live \cup {n}
           u == [t EXCEPT !.made = n, !.live = l, !.in = fs]
<1>1. t \in TargetStates /\ Known(h, t)
  BY DEF Inv, Good, Core
<1>2. t.made \in Nat /\ n \in Nat /\ n # 0 /\ t.made < n /\ n \in 0 .. n /\ t.made <= n /\ n <= n
  BY <1>1 DEF TargetStates
<1>11. n \notin t.ours
  BY <1>1, <1>2 DEF Known
<1>3. f \in Frames /\ f.op = "attached" /\ f.id = 0 /\ f.s = n /\ fs \in Seq(Frames)
  BY <1>1, <1>2, PageFrame
<1> HIDE DEF f
<1>4. l \in SUBSET Nat /\ t.live \ l = {} /\ l \ t.live \subseteq {n}
  BY <1>1, <1>2 DEF TargetStates
<1>5. fs = Append(t.in, f)
  OBVIOUS
<1> HIDE DEF l, fs, n
<1>6. u \in TargetStates /\ u.in = fs /\ u.live = l /\ u.made = n /\ u.ours = t.ours /\ u.dead = t.dead
  BY <1>1, <1>2, <1>3, <1>4 DEF TargetStates
<1> HIDE DEF u
<1>8. \A x \in u.live \ t.live : t.made < x /\ x <= u.made
  BY <1>2, <1>4, <1>6
<1>9. t.live \ u.live = {} /\ (f.op = "destroyed" <=> f.s = 0)
  BY <1>2, <1>3, <1>4, <1>6
<1>10. Inv(h, u)
  BY <1>2, <1>3, <1>5, <1>6, <1>8, <1>9, <1>11, OneHeard
<1> QED BY <1>10 DEF u, l, fs, f, n

\* The page is closed.
LEMMA PageCloses ==
    ASSUME NEW h, NEW t, Inv(h, t), ~ t.dead
    PROVE  Inv(h, [t EXCEPT !.dead = TRUE, !.live = {}, !.in = Append(@, Frame("destroyed", 0, TRUE, 0))])
<1> DEFINE f == Frame("destroyed", 0, TRUE, 0)
           fs == Append(t.in, f)
           u == [t EXCEPT !.dead = TRUE, !.live = {}, !.in = fs]
<1>1. t \in TargetStates /\ Known(h, t)
  BY DEF Inv, Good, Core
<1>2. t.made \in Nat /\ 0 \in 0 .. t.made /\ t.made <= t.made /\ 0 \notin t.ours
  BY <1>1 DEF TargetStates, Known
<1>3. f \in Frames /\ f.op = "destroyed" /\ f.id = 0 /\ f.s = 0 /\ fs \in Seq(Frames)
  BY <1>1, PageFrame
<1> HIDE DEF f
<1>5. fs = Append(t.in, f)
  OBVIOUS
<1> HIDE DEF fs
<1>6. u \in TargetStates /\ u.in = fs /\ u.live = {} /\ u.made = t.made /\ u.ours = t.ours /\ u.dead
  BY <1>1, <1>3 DEF TargetStates
<1> HIDE DEF u
<1>8. \A x \in t.live \ u.live : EndOf(f, x)
  BY <1>3 DEF EndOf
<1>9. u.live \ t.live = {} /\ (f.op = "destroyed" <=> f.s = 0)
  BY <1>3, <1>6
<1>10. Inv(h, u)
  BY <1>2, <1>3, <1>5, <1>6, <1>8, <1>9, OneHeard
<1> QED BY <1>10 DEF u, fs, f

\* Counting changes only the bound.
LEMMA CountedKeeps ==
    ASSUME H5Inv, Counted
    PROVE  happened' \in Happenings /\ happened'.leaked = happened.leaked
           /\ happened'.mistaken = happened.mistaken
  BY DEF H5Inv, Counted, Happenings

\* What the page does of its own.
LEMMA PageActsKeeps ==
    ASSUME H5Inv, PageActs
    PROVE  H5Inv'
<1>1. /\ happened' \in Happenings /\ happened'.leaked = happened.leaked
      /\ happened'.mistaken = happened.mistaken /\ h5' = h5
  BY CountedKeeps DEF PageActs
<1>2. ASSUME Inv(h5, target) PROVE Inv(h5, target')
  <2>1. ASSUME NEW s \in target.live,
               target' = [target EXCEPT !.live = @ \ {s}, !.in = Append(@, Frame("detached", 0, TRUE, s))]
        PROVE  Inv(h5, target')
    BY <1>2, <2>1, SessionEnds
  <2>2. ASSUME NEW s \in target.live,
               target' = [target EXCEPT !.in = Append(@, Frame("event", 0, TRUE, s))]
        PROVE  Inv(h5, target')
    BY <1>2, <2>2, SaysSomething
  <2>3. ASSUME ~ target.dead,
               target' = [target EXCEPT !.made = @ + 1, !.live = @ \cup {target.made + 1},
                                  !.in = Append(@, Frame("attached", 0, TRUE, target.made + 1))]
        PROVE  Inv(h5, target')
    BY <1>2, <2>3, SomebodyAttaches
  <2>4. ASSUME ~ target.dead,
               target' = [target EXCEPT !.dead = TRUE, !.live = {},
                                  !.in = Append(@, Frame("destroyed", 0, TRUE, 0))]
        PROVE  Inv(h5, target')
    BY <1>2, <2>4, PageCloses
  <2> QED BY <2>1, <2>2, <2>3, <2>4 DEF PageActs
<1> QED BY <1>1, <1>2 DEF H5Inv

\* The browser executes a command.
LEMMA BrowserExecutesKeeps ==
    ASSUME H5Inv, BrowserExecutes
    PROVE  H5Inv'
<1> DEFINE do == Head(h5.sent)
           next == target.made + 1
           found == do.method = "targets" /\ ~ target.dead
           ok == found \/ (do.method = "info" /\ do.s \in target.live)
<1>1. h5.sent # <<>> /\ h5' = Taken(h5) /\ happened' = happened
  BY DEF BrowserExecutes, Taken
<1>2. ASSUME Inv(h5, target) PROVE Inv(h5', target')
  <2>1. Inv(h5', target) /\ Asked(h5', target, do)
    BY <1>1, <1>2, TakenKeeps
  <2> HIDE DEF do
  <2>2. ASSUME do.method = "attach", ~ target.dead,
               NEW two \in Either(Frame("attached", 0, TRUE, next), Frame("reply", do.id, TRUE, next)),
               target' = [target EXCEPT !.made = next, !.live = @ \cup {next},
                                        !.ours = @ \cup {next}, !.in = @ \o two]
        PROVE  Inv(h5', target')
    BY <2>1, <2>2, AttachRuns
  <2>3. ASSUME do.method = "detach", do.s \in target.live,
               NEW two \in Either(Frame("detached", 0, TRUE, do.s), Frame("reply", do.id, TRUE, 0)),
               target' = [target EXCEPT !.live = @ \ {do.s}, !.in = @ \o two]
        PROVE  Inv(h5', target')
    BY <2>1, <2>3, DetachRuns
  <2>4. ASSUME do.method \in {"targets", "info"} \/ target.dead \/ do.s \notin target.live,
               do.method = "attach" => target.dead,
               target' = [target EXCEPT !.in = Append(@, Frame("reply", do.id, ok, 0))]
        PROVE  Inv(h5', target')
    <3>1. target.dead => target.live = {}
      BY <2>1 DEF Inv, Good, Core, PageOK
    <3>2. ok \in BOOLEAN /\ (do.method = "attach" => ~ ok) /\ (do.method = "detach" => do.s \notin target.live)
      BY <2>4, <3>1
    <3> HIDE DEF ok
    <3> QED BY <2>1, <2>4, <3>2, OtherRuns
  <2> QED BY <2>2, <2>3, <2>4 DEF BrowserExecutes, do
<1> QED BY <1>1, <1>2 DEF H5Inv

\* What users do leaves the target and the bounds' other parts alone.
LEMMA UserActs ==
    ASSUME H5Inv, target' = target,
           happened' = happened \/ Counted,
           Inv(h5, target) => Inv(h5', target)
    PROVE  H5Inv'
  BY CountedKeeps DEF H5Inv

\* Every step keeps the invariant.
LEMMA H5NextKeeps ==
    ASSUME H5Inv, [H5Next]_h5Vars
    PROVE  H5Inv'
<1>1. ASSUME NEW w \in Windows, Open(w) PROVE H5Inv'
  BY <1>1, InvOpen, UserActs DEF Open
<1>2. ASSUME NEW w \in Windows, Disconnect(w) PROVE H5Inv'
  BY <1>2, InvDisconnect, UserActs DEF Disconnect
<1>3. ASSUME NEW w \in Windows, CloseTarget(w) PROVE H5Inv'
  BY <1>3, InvDisconnect, UserActs DEF CloseTarget
<1>4. CASE InvalidateSource
  BY <1>4, InvCloseAll, UserActs DEF InvalidateSource
<1>5. ASSUME NEW p \in h5.pending, TimesOut(p) PROVE H5Inv'
  BY <1>5, InvTimesOut, UserActs DEF TimesOut
<1>6. CASE ReceiveFrame
  BY <1>6, ReceiveFrameKeeps
<1>7. CASE BrowserExecutes
  BY <1>7, BrowserExecutesKeeps
<1>8. CASE PageActs
  BY <1>8, PageActsKeeps
<1>9. CASE UNCHANGED h5Vars
  BY <1>9 DEF h5Vars, H5Inv
<1> QED BY <1>1, <1>2, <1>3, <1>4, <1>5, <1>6, <1>7, <1>8, <1>9 DEF H5Next

\* It holds initially.
LEMMA H5InitInv == H5Init => H5Inv
<1> SUFFICES ASSUME H5Init PROVE H5Inv
  OBVIOUS
<1>1. happened \in Happenings /\ ~ happened.leaked
  BY DEF H5Init, Happenings
<1>2. /\ h5.pending = {} /\ h5.retired = {} /\ ~ h5.destroyed /\ ~ h5.exhausted /\ h5.ids = 0 /\ h5.sent = <<>>
      /\ \A w \in Windows : h5.entry[w] = NoEntry
      /\ ~ target.dead /\ target.live = {} /\ target.made = 0 /\ target.ours = {} /\ target.in = <<>>
  BY DEF H5Init
<1>3. NoEntry \in Entries
  BY DEF NoEntry, Entries, Stages
<1>4. h5 \in H5States
  <2>1. [w \in Windows |-> NoEntry] \in [Windows -> Entries]
    BY <1>3
  <2> HIDE DEF NoEntry
  <2>2. <<>> \in Seq(Commands)
    OBVIOUS
  <2> QED BY <2>1, <2>2 DEF H5Init, H5States
<1>5. target \in TargetStates
  BY DEF H5Init, TargetStates
<1>6. DOMAIN h5.sent = {} /\ DOMAIN target.in = {}
  BY <1>2
<1>7. \A w \in Windows : /\ ~ h5.entry[w].used /\ ~ h5.entry[w].in /\ h5.entry[w].stage = "none"
                         /\ h5.entry[w].root = 0 /\ h5.entry[w].extra = {} /\ ~ h5.entry[w].closed
                         /\ ~ h5.entry[w].attachPending /\ ~ h5.entry[w].targetGone /\ h5.entry[w].detaching = 0
  BY <1>2 DEF NoEntry
<1>8. Numbering(h5, target)
  BY <1>2, <1>6 DEF Numbering
<1>9. Known(h5, target)
  BY <1>2, <1>6, <1>7 DEF Known
<1>10. \A w \in Windows : WindowOK(h5, w)
  BY <1>2, <1>7 DEF WindowOK
<1>11. SessionsOK(h5, target)
  BY <1>2, <1>6, <1>7 DEF SessionsOK
<1>12. PageOK(h5, target) /\ Releases(h5, target)
  BY <1>2, <1>6 DEF PageOK, Releases
<1>13. Roots(h5) /\ Conn(h5, target)
  BY <1>2, <1>7 DEF Roots, Conn
<1> QED BY <1>1, <1>4, <1>5, <1>8, <1>9, <1>10, <1>11, <1>12, <1>13 DEF H5Inv, Inv, Good, Core

\* It implies the property.
LEMMA IsolatedFromInv == H5Inv => H5IsIsolated
<1> SUFFICES ASSUME H5Inv, ~ happened.mistaken
             PROVE  NothingIsOrphaned /\ OneOwner /\ ConnectedIsAttached /\ NothingLeaks
  BY DEF H5IsIsolated
<1>1. Inv(h5, target) /\ Good(h5, target)
  BY DEF H5Inv, Inv
<1>2. /\ h5 \in H5States /\ target \in TargetStates /\ Known(h5, target)
      /\ SessionsOK(h5, target) /\ PageOK(h5, target) /\ \A w \in Windows : WindowOK(h5, w)
  BY <1>1 DEF Good, Core
<1>3. NothingIsOrphaned
  <2> SUFFICES ASSUME Owners(h5) = {}
               PROVE  /\ target.live \cap target.ours = {}
                      /\ target.dead \/ \A i \in 1 .. Len(h5.sent) : h5.sent[i].method # "attach"
    BY DEF NothingIsOrphaned
  <2>1. \A w \in Windows : h5.entry[w].root = 0
    BY <1>2 DEF Owners, WindowOK
  <2>2. \A s \in target.live \cap target.ours : ~ Owned(h5, s)
    BY <1>2, <2>1 DEF Owned, Known
  <2>3. CASE target.dead
    BY <1>2, <2>3 DEF PageOK
  <2>4. CASE ~ target.dead
    BY <1>1, <1>2, <2>2, <2>4, NobodyAttaches DEF PageOK, Coming, AnsweredBy, H5States, SessionsOK
  <2> QED BY <2>3, <2>4
<1>4. OneOwner
  <2>1. CASE Owners(h5) = {}
    BY <2>1, FS_EmptySet DEF OneOwner
  <2>2. CASE Owners(h5) # {}
    <3>1. PICK w : w \in Owners(h5)
      BY <2>2
    <3>2. Owners(h5) = {w}
      BY <1>2, <3>1 DEF SessionsOK, Owners
    <3>3. Cardinality({w}) = 1
      BY FS_Singleton
    <3> QED BY <3>2, <3>3 DEF OneOwner
  <2> QED BY <2>1, <2>2
<1>5. ConnectedIsAttached
  BY <1>1, <1>2 DEF ConnectedIsAttached, TargetStates, Inv, Conn, EndOf
<1>6. NothingLeaks
  BY DEF NothingLeaks, H5Inv
<1> QED BY <1>3, <1>4, <1>5, <1>6

\* As long as the page was attached by nobody else while a window awaited its
\* attachment: a page without a window has no session of ours, one window owns
\* it, a connected window has its session, and none of its frames reaches the
\* main channel (H5Sessions, h5-sessions.ts), for any number of windows,
\* sessions and requests.
THEOREM H5Isolated == H5Init /\ [][H5Next]_h5Vars => []H5IsIsolated
<1>1. H5Init => H5Inv
  BY H5InitInv
<1>2. H5Inv /\ [H5Next]_h5Vars => H5Inv'
  BY H5NextKeeps
<1>3. H5Inv => H5IsIsolated
  BY IsolatedFromInv
<1> QED BY <1>1, <1>2, <1>3, PTL
=============================================================================
