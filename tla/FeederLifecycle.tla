--------------------------- MODULE FeederLifecycle ---------------------------
(***************************************************************************)
(* HookFeeder.Start and HookFeeder.Stop, called at any time by several     *)
(* handlers (wxapi.start and wxapi.stop, engine.stop, the shutdown, the    *)
(* console collector and the connect-time injection), and the drain loops  *)
(* they launch.  The lock is given up while Start installs the hook and    *)
(* while Stop waits, so calls overlap there.                               *)
(*                                                                         *)
(* A loop is known by the context that cancels it, a number.               *)
(***************************************************************************)
EXTENDS Integers, FiniteSets

CONSTANTS
    Callers,   \* goroutines calling Start or Stop
    MaxStarts  \* bound: contexts created

ASSUME FeederLifecycleAssumption == MaxStarts \in Nat /\ IsFiniteSet(Callers)

VARIABLES
    running,   \* HookFeeder.running
    cancel,    \* HookFeeder.cancel: the context it cancels, 0 for nil
    wg,        \* HookFeeder.wg
    created,   \* contexts created so far
    cancelled, \* contexts cancelled
    loops,     \* contexts whose loop goroutine runs
    pc,        \* where each caller is
    own        \* the context a caller created (Start) or cancelled (Stop)

vars == <<running, cancel, wg, created, cancelled, loops, pc, own>>

Contexts == 1 .. MaxStarts

Init ==
    /\ running = FALSE /\ cancel = 0 /\ wg = 0
    /\ created = 0 /\ cancelled = {} /\ loops = {}
    /\ pc = [c \in Callers |-> "idle"]
    /\ own = [c \in Callers |-> 0]

-----------------------------------------------------------------------------
(* Start: a second call on a running feeder returns at once.               *)
StartBegin(c) ==
    /\ pc[c] = "idle" /\ ~running /\ created < MaxStarts
    /\ created' = created + 1
    /\ cancel' = created + 1 /\ running' = TRUE /\ wg' = wg + 1
    /\ pc' = [pc EXCEPT ![c] = "installing"]
    /\ own' = [own EXCEPT ![c] = created + 1]
    /\ UNCHANGED <<cancelled, loops>>

(* The hook is installed: the loop takes over the wait group's unit.  The  *)
(* context may have been cancelled meanwhile; then the loop only ends.     *)
StartLoop(c) ==
    /\ pc[c] = "installing"
    /\ loops' = loops \cup {own[c]}
    /\ pc' = [pc EXCEPT ![c] = "idle"] /\ own' = [own EXCEPT ![c] = 0]
    /\ UNCHANGED <<running, cancel, wg, created, cancelled>>

\* Mutant: the failed start keeps its unit of the wait group.
StartFailsKeepsUnit(c) ==
    /\ pc[c] = "installing"
    /\ pc' = [pc EXCEPT ![c] = "failing"]
    /\ UNCHANGED <<running, cancel, wg, created, cancelled, loops, own>>

(* The installation failed, by an error, a report that says no, or because *)
(* Stop cancelled the context: first the wait group, then, under the lock, *)
(* the fields - whoever they belong to by then.                            *)
StartFails(c) ==
    /\ pc[c] = "installing"
    /\ wg' = wg - 1
    /\ pc' = [pc EXCEPT ![c] = "failing"]
    /\ UNCHANGED <<running, cancel, created, cancelled, loops, own>>

\* Mutant: the failed start gives its unit back twice.
StartUndoTwice(c) ==
    /\ pc[c] = "failing"
    /\ running' = FALSE /\ cancel' = 0 /\ wg' = wg - 1
    /\ cancelled' = cancelled \cup {own[c]}
    /\ pc' = [pc EXCEPT ![c] = "idle"] /\ own' = [own EXCEPT ![c] = 0]
    /\ UNCHANGED <<created, loops>>

StartUndo(c) ==
    /\ pc[c] = "failing"
    /\ running' = FALSE /\ cancel' = 0
    /\ cancelled' = cancelled \cup {own[c]}
    /\ pc' = [pc EXCEPT ![c] = "idle"] /\ own' = [own EXCEPT ![c] = 0]
    /\ UNCHANGED <<wg, created, loops>>

(* Stop: nothing to do unless running.                                     *)
StopBegin(c) ==
    /\ pc[c] = "idle" /\ running
    /\ running' = FALSE /\ cancel' = 0
    /\ cancelled' = cancelled \cup ({cancel} \ {0})
    /\ pc' = [pc EXCEPT ![c] = "waiting"]
    /\ own' = [own EXCEPT ![c] = cancel]
    /\ UNCHANGED <<wg, created, loops>>

\* Mutant: Stop does not wait.
StopReturnAtOnce(c) ==
    /\ pc[c] = "waiting"
    /\ pc' = [pc EXCEPT ![c] = "idle"] /\ own' = [own EXCEPT ![c] = 0]
    /\ UNCHANGED <<running, cancel, wg, created, cancelled, loops>>

StopReturn(c) ==
    /\ pc[c] = "waiting" /\ wg = 0
    /\ pc' = [pc EXCEPT ![c] = "idle"] /\ own' = [own EXCEPT ![c] = 0]
    /\ UNCHANGED <<running, cancel, wg, created, cancelled, loops>>

(* A loop whose context was cancelled ends; until then it keeps draining.  *)
LoopEnd(t) ==
    /\ t \in loops \cap cancelled
    /\ loops' = loops \ {t} /\ wg' = wg - 1
    /\ UNCHANGED <<running, cancel, created, cancelled, pc, own>>

Next ==
    \/ \E c \in Callers : \/ StartBegin(c) \/ StartLoop(c) \/ StartFails(c) \/ StartUndo(c)
                          \/ StopBegin(c) \/ StopReturn(c)
    \/ \E t \in Contexts : LoopEnd(t)

Spec == Init /\ [][Next]_vars

-----------------------------------------------------------------------------
Installing == {c \in Callers : pc[c] = "installing"}

(* The values of the variables.                                            *)
TypeOK ==
    /\ running \in BOOLEAN /\ cancel \in 0 .. MaxStarts
    /\ wg \in Nat /\ created \in 0 .. MaxStarts
    /\ cancelled \subseteq Contexts /\ loops \subseteq Contexts
    /\ pc \in [Callers -> {"idle", "installing", "failing", "waiting"}]
    /\ own \in [Callers -> 0 .. MaxStarts]

(* The wait group counts exactly the loops and the installations that may  *)
(* still become one, however calls overlap: it neither goes negative (a    *)
(* panic) nor keeps Stop waiting for nothing.                              *)
WaitGroupBalanced == wg = Cardinality(loops) + Cardinality(Installing)

(* When Stop returns, the loop it cancelled has ended, and no installation *)
(* begun before may still launch it: the caller may close the engine and   *)
(* the database (hookfeeder.go:308-309).                                   *)
ReturnsAfterTheEnd(c) ==
    pc[c] = "waiting" /\ pc'[c] = "idle"
    => own[c] \notin loops /\ \A d \in Callers : pc[d] = "installing" => own[d] # own[c]

StopMeansStopped == [][\A c \in Callers : ReturnsAfterTheEnd(c)]_vars
=============================================================================
