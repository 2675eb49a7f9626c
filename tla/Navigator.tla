------------------------------ MODULE Navigator ------------------------------
(* The navigator of the shell: the injection cache and the page list of    *)
(* src/desktop/internal/navigator/navigator.go, the auto-visit walk of     *)
(* NavigatorCtl (internal/api/ipc/util.go), and the connect-time step that *)
(* drops the cache when the page realm was rebuilt (ipc_bridge.go).        *)
(*                                                                         *)
(* window.nav lives in the page realm and dies with it.                    *)
EXTENDS Naturals, FiniteSets

CONSTANTS
    Apps,        \* mini programs
    Tools,       \* goroutines that call the navigator.* handlers
    PageCount,   \* pages a mini program configures
    MaxRebuilds, \* bound: realms built
    MaxVisits    \* bound: auto visits begun

ASSUME NavigatorBounds == MaxRebuilds \in Nat /\ MaxVisits \in Nat
ASSUME NavigatorPages == PageCount \in Nat \ {0}
ASSUME ToolsAreNotTheWalk == "walk" \notin Tools

VARIABLES
    site,        \* the page realm: its app, number and whether window.nav is in it
    reinstall,   \* the navigator step of autoInjectHooks
    injected,    \* Navigator.injected
    pagesOf,     \* the app whose pages Navigator.pages lists
    op,          \* each caller's operation, and the walk's
    visit,       \* NavigatorCtl: visiting, the context, the walk's number
    walk,        \* the walk's goroutine
    stopper,     \* for each caller, the walk its StopAutoVisit waits for
    released,    \* history: walks whose StopAutoVisit has returned
    excused      \* history: realms a stale cache may be blamed on the page for

navVars == <<site, reinstall, injected, pagesOf, op, visit, walk, stopper,
             released, excused>>

NoApp == "none"
Walker == "walk"
Actors == Tools \cup {Walker}
NoOp == [pc |-> "idle", kind |-> "act", ran |-> 0]
NoWalk == [pc |-> "off", app |-> NoApp, realm |-> 0, left |-> 0]

NavInit ==
    /\ site \in [id : {1}, app : Apps, nav : {FALSE}]
    /\ reinstall = "due" /\ injected = FALSE /\ pagesOf = NoApp
    /\ op = [a \in Actors |-> NoOp]
    /\ visit = [on |-> FALSE, number |-> 0, cancelled |-> FALSE]
    /\ walk = NoWalk
    /\ stopper = [t \in Tools |-> 0]
    /\ released = {} /\ excused = {}

-----------------------------------------------------------------------------
(* The page.                                                               *)

(* The realm is rebuilt, perhaps for another mini program; the poller sees *)
(* the generation and starts the injection.                                *)
Rebuild(app) ==
    /\ site.id < MaxRebuilds
    /\ site' = [id |-> site.id + 1, app |-> app, nav |-> FALSE]
    /\ reinstall' = "due"
    /\ UNCHANGED <<injected, pagesOf, op, visit, walk, stopper, released, excused>>

\* Mutant: the connect-time injection leaves the navigator out.
ReinstallSkipped ==
    /\ reinstall = "due" /\ reinstall' = "none"
    /\ UNCHANGED <<site, injected, pagesOf, op, visit, walk, stopper, released, excused>>

(* autoInjectHooks installs the navigator hook, once, without a retry ...  *)
Reinstall ==
    /\ reinstall = "due"
    /\ \/ /\ site' = [site EXCEPT !.nav = TRUE] /\ reinstall' = "installed"
          /\ UNCHANGED excused
       \/ /\ reinstall' = "none" /\ excused' = excused \cup {site.id}
          /\ UNCHANGED site
    /\ UNCHANGED <<injected, pagesOf, op, visit, walk, stopper, released>>

(* ... and Invalidate drops the injection cache, the page list it keeps.   *)
Invalidate ==
    /\ reinstall = "installed" /\ reinstall' = "none"
    /\ injected' = FALSE
    /\ UNCHANGED <<site, pagesOf, op, visit, walk, stopper, released, excused>>

-----------------------------------------------------------------------------
(* One operation: Navigator.ensure, and the evaluation it is for.          *)

(* Whether ensure asks the page: always for FetchConfig, else as the cache *)
(* says.                                                                   *)
First(kind) == IF kind = "fetch" \/ ~injected THEN "install" ELSE "evaluate"

Begin(t, kind) ==
    /\ op[t].pc = "idle"
    /\ op' = [op EXCEPT ![t] = [pc |-> First(kind), kind |-> kind, ran |-> 0]]
    /\ UNCHANGED <<site, reinstall, injected, pagesOf, visit, walk, stopper,
                   released, excused>>

Install(a) ==
    /\ op[a].pc = "install"
    /\ \/ /\ site' = [site EXCEPT !.nav = TRUE]
          /\ op' = [op EXCEPT ![a].pc = "mark", ![a].ran = site.id]
       \/ /\ op' = [op EXCEPT ![a].pc = "failed"]
          /\ UNCHANGED site
    /\ UNCHANGED <<reinstall, injected, pagesOf, visit, walk, stopper, released, excused>>

(* The cache is set when the answer is in: for a realm that may be gone.   *)
MarkInjected(a) ==
    /\ op[a].pc = "mark"
    /\ injected' = TRUE
    /\ excused' = IF op[a].ran = site.id THEN excused ELSE excused \cup {site.id}
    /\ op' = [op EXCEPT ![a].pc = "evaluate"]
    /\ UNCHANGED <<site, reinstall, pagesOf, visit, walk, stopper, released>>

(* The page answers.  FetchConfig keeps the list it read, an empty one     *)
(* where window.nav is missing; an action fails there, or when the walk    *)
(* was cancelled under it.                                                 *)
Evaluate(a) ==
    /\ op[a].pc = "evaluate"
    /\ \E ok \in BOOLEAN :
          /\ ok /\ op[a].kind = "act" => site.nav
          /\ op' = [op EXCEPT ![a].pc = IF ok THEN "done" ELSE "failed"]
          /\ pagesOf' = IF ok /\ op[a].kind = "fetch"
                        THEN IF site.nav THEN site.app ELSE NoApp ELSE pagesOf
    /\ UNCHANGED <<site, reinstall, injected, visit, walk, stopper, released, excused>>

Return(t) ==
    /\ op[t].pc \in {"done", "failed"}
    /\ op' = [op EXCEPT ![t] = NoOp]
    /\ UNCHANGED <<site, reinstall, injected, pagesOf, visit, walk, stopper,
                   released, excused>>

-----------------------------------------------------------------------------
(* The auto visit.                                                         *)

(* AutoVisit takes the slot, with a context of its own; a walk that runs   *)
(* is joined.                                                              *)
AutoVisit ==
    /\ ~visit.on /\ visit.number < MaxVisits
    /\ visit' = [on |-> TRUE, number |-> visit.number + 1, cancelled |-> FALSE]
    /\ walk' = [NoWalk EXCEPT !.pc = "listing", !.realm = site.id]
    /\ UNCHANGED <<site, reinstall, injected, pagesOf, op, stopper, released, excused>>

(* It walks the cached page list, and fetches an empty one first.          *)
ListPages ==
    /\ walk.pc = "listing"
    /\ IF pagesOf = NoApp
       THEN /\ walk' = [walk EXCEPT !.pc = "fetching"]
            /\ op' = [op EXCEPT ![Walker] = [pc |-> First("fetch"), kind |-> "fetch", ran |-> 0]]
       ELSE /\ walk' = [walk EXCEPT !.pc = "walking", !.app = pagesOf, !.left = PageCount]
            /\ UNCHANGED op
    /\ UNCHANGED <<site, reinstall, injected, pagesOf, visit, stopper, released, excused>>

Fetched ==
    /\ walk.pc = "fetching" /\ op[Walker].pc \in {"done", "failed"}
    /\ walk' = IF op[Walker].pc = "failed" \/ pagesOf = NoApp
               THEN [walk EXCEPT !.pc = "finishing"]
               ELSE [walk EXCEPT !.pc = "walking", !.app = pagesOf, !.left = PageCount]
    /\ op' = [op EXCEPT ![Walker] = NoOp]
    /\ UNCHANGED <<site, reinstall, injected, pagesOf, visit, stopper, released, excused>>

(* The next page, unless the walk was cancelled or is at its end.          *)
WalkOn ==
    /\ walk.pc = "walking"
    /\ IF visit.cancelled \/ walk.left = 0
       THEN walk' = [walk EXCEPT !.pc = "finishing"] /\ UNCHANGED op
       ELSE /\ walk' = [walk EXCEPT !.pc = "visiting"]
            /\ op' = [op EXCEPT ![Walker] = [pc |-> First("act"), kind |-> "act", ran |-> 0]]
    /\ UNCHANGED <<site, reinstall, injected, pagesOf, visit, stopper, released, excused>>

(* The step is reported, whether its page moved or not.                    *)
Visited ==
    /\ walk.pc = "visiting" /\ op[Walker].pc \in {"done", "failed"}
    /\ walk' = [walk EXCEPT !.pc = "walking", !.left = @ - 1]
    /\ op' = [op EXCEPT ![Walker] = NoOp]
    /\ UNCHANGED <<site, reinstall, injected, pagesOf, visit, stopper, released, excused>>

(* finishVisit: the slot is free and whoever waits is let go.              *)
FinishVisit ==
    /\ walk.pc = "finishing"
    /\ walk' = NoWalk
    /\ visit' = [visit EXCEPT !.on = FALSE]
    /\ UNCHANGED <<site, reinstall, injected, pagesOf, op, stopper, released, excused>>

(* StopAutoVisit cancels the walk and takes hold of its done channel.      *)
StopAutoVisit(t) ==
    /\ stopper[t] = 0 /\ visit.on
    /\ visit' = [visit EXCEPT !.cancelled = TRUE]
    /\ stopper' = [stopper EXCEPT ![t] = visit.number]
    /\ UNCHANGED <<site, reinstall, injected, pagesOf, op, walk, released, excused>>

(* It returns when that channel is closed.                                 *)
StopReturns(t) ==
    /\ stopper[t] # 0 /\ (visit.on => visit.number # stopper[t])
    /\ stopper' = [stopper EXCEPT ![t] = 0]
    /\ released' = released \cup {stopper[t]}
    /\ UNCHANGED <<site, reinstall, injected, pagesOf, op, visit, walk, excused>>

-----------------------------------------------------------------------------
NavNext ==
    \/ \E app \in Apps : Rebuild(app)
    \/ Reinstall \/ Invalidate
    \/ \E t \in Tools : \/ \E kind \in {"fetch", "act"} : Begin(t, kind)
                        \/ Return(t) \/ StopAutoVisit(t) \/ StopReturns(t)
    \/ \E a \in Actors : Install(a) \/ MarkInjected(a) \/ Evaluate(a)
    \/ AutoVisit \/ ListPages \/ Fetched \/ WalkOn \/ Visited \/ FinishVisit

NavSpec == NavInit /\ [][NavNext]_navVars

-----------------------------------------------------------------------------
NavTypeOK ==
    /\ site \in [id : Nat, app : Apps, nav : BOOLEAN]
    /\ injected \in BOOLEAN /\ pagesOf \in Apps \cup {NoApp}
    /\ reinstall \in {"due", "installed", "none"}
    /\ op \in [Actors -> [pc : {"idle", "install", "mark", "evaluate", "done", "failed"},
                          kind : {"fetch", "act"}, ran : Nat]]
    /\ stopper \in [Tools -> 0 .. MaxVisits]

(* When StopAutoVisit has returned the walk it stopped is over: it moves   *)
(* no page any more, and reading the state back does not find it running.  *)
StoppedWalkIsOver ==
    visit.number \in released => ~visit.on /\ walk.pc = "off" /\ op[Walker] = NoOp

(* After a rebuilt realm was taken care of, the cache does not claim a     *)
(* window.nav that died with the old one: it does so only where the page   *)
(* refused the hook, or an install of the old realm was answered late.     *)
RebuiltRealmIsNavigable ==
    reinstall = "none" /\ injected => site.nav \/ site.id \in excused

\* The two together: what the navigator's callers may rely on.
NavigatorIsHonest == StoppedWalkIsOver /\ RebuiltRealmIsNavigable

=============================================================================
