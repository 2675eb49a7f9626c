------------------------------- MODULE Evidence -------------------------------
(* What the traffic history promises of every captured call, whatever the   *)
(* order in which records, updates and deletions reach it: what is known of *)
(* a call only grows, from a call that waits to one that settled to one     *)
(* whose answer is kept, until someone has it forgotten.                    *)
(* TrafficStore implements it.                                              *)
CONSTANT Calls

VARIABLE evidence   \* of every call: how much of it is known

Known == {"waiting", "settled", "answered"}

EvidenceInit == evidence = [c \in Calls |-> "unknown"]

\* Calls are recorded, all alike: while they wait or after they settled.
Capture(fresh, how) ==
    /\ \A c \in fresh : evidence[c] = "unknown"
    /\ evidence' = [c \in Calls |-> IF c \in fresh THEN how ELSE evidence[c]]

\* The call is heard to have settled, with an answer or without.
Learn(c, more) ==
    /\ \/ evidence[c] = "waiting" /\ more \in {"settled", "answered"}
       \/ evidence[c] = "settled" /\ more = "answered"
    /\ evidence' = [evidence EXCEPT ![c] = more]

Forget(gone) ==
    evidence' = [c \in Calls |-> IF c \in gone THEN "unknown" ELSE evidence[c]]

EvidenceNext ==
    \/ \E fresh \in SUBSET Calls, how \in Known : Capture(fresh, how)
    \/ \E c \in Calls, more \in Known : Learn(c, more)
    \/ \E gone \in SUBSET Calls : Forget(gone)

EvidenceSpec == EvidenceInit /\ [][EvidenceNext]_evidence

\* How much is known is never less than before, but of a call that is
\* forgotten: an answer is not blanked, and a settled call does not wait again.
More(a, b) == \/ b = "unknown" \/ a = "unknown" \/ a = b
              \/ a = "waiting"
              \/ a = "settled" /\ b = "answered"

NothingIsUnlearned == [][\A c \in Calls : More(evidence[c], evidence'[c])]_evidence
===============================================================================
