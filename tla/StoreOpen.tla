------------------------------ MODULE StoreOpen ------------------------------
(* traffic.Open and applyMigrations of                                     *)
(* src/desktop/internal/traffic/repository.go.  The shell and the MCP      *)
(* server over stdio are two processes that open one database; each looks  *)
(* a script up outside the transaction that runs it, and either can die    *)
(* between two statements.                                                 *)
EXTENDS Naturals, Sequences

CONSTANTS
    Openers,    \* the processes that open the database
    Scripts     \* the names in the migrations directory, sorted

ASSUME ScriptNames ==
    /\ Scripts \in Seq({Scripts[k] : k \in DOMAIN Scripts})
    /\ \A i, j \in DOMAIN Scripts : Scripts[i] = Scripts[j] => i = j

VARIABLES
    effective,  \* the scripts whose transaction committed, in order
    recorded,   \* the rows of schema_migrations
    opener      \* per process: the script it is at, and what it does there

openVars == <<effective, recorded, opener>>

OpenInit ==
    /\ effective = <<>> /\ recorded = {}
    /\ opener = [p \in Openers |-> [at |-> 1, pc |-> "check"]]

Moves(p, at, pc) == opener' = [opener EXCEPT ![p] = [at |-> at, pc |-> pc]]

\* SELECT COUNT(*): a recorded script is passed over.
CheckScript(p) ==
    LET at == opener[p].at
    IN  /\ opener[p].pc = "check" /\ at <= Len(Scripts)
        /\ IF Scripts[at] \in recorded THEN Moves(p, at + 1, "check") ELSE Moves(p, at, "apply")
        /\ UNCHANGED <<effective, recorded>>

\* Mutant: the script commits by itself, and its record follows.
RunsThenRecords(p) ==
    LET at == opener[p].at
    IN  /\ opener[p].pc = "apply"
        /\ IF at > Len(effective) \/ effective[Len(effective)] # Scripts[at]
           THEN effective' = Append(effective, Scripts[at]) /\ UNCHANGED <<recorded, opener>>
           ELSE recorded' = recorded \cup {Scripts[at]} /\ Moves(p, at + 1, "check") /\ UNCHANGED effective

\* One transaction runs the script and records it.  The name is the key of
\* the record: of two processes that found it missing, the second rolls back.
ApplyScript(p) ==
    LET at == opener[p].at
    IN  /\ opener[p].pc = "apply"
        /\ IF Scripts[at] \in recorded
           THEN Moves(p, at, "failed") /\ UNCHANGED <<effective, recorded>>
           ELSE /\ effective' = Append(effective, Scripts[at]) /\ recorded' = recorded \cup {Scripts[at]}
                /\ Moves(p, at + 1, "check")

\* Every script is in: Open returns the repository.
OpenStore(p) ==
    /\ opener[p].pc = "check" /\ opener[p].at > Len(Scripts)
    /\ Moves(p, opener[p].at, "open")
    /\ UNCHANGED <<effective, recorded>>

\* A statement fails (busy, disk, a script that cannot be read) and its
\* transaction rolls back, or the process dies.
FailOpen(p) ==
    /\ opener[p].pc \in {"check", "apply"}
    /\ Moves(p, opener[p].at, "failed")
    /\ UNCHANGED <<effective, recorded>>

\* The process is started again.
StartAgain(p) ==
    /\ opener[p].pc \in {"open", "failed"} /\ Moves(p, 1, "check")
    /\ UNCHANGED <<effective, recorded>>

StoreOpenNext == \E p \in Openers :
    CheckScript(p) \/ ApplyScript(p) \/ OpenStore(p) \/ FailOpen(p) \/ StartAgain(p)

StoreOpenSpec == OpenInit /\ [][StoreOpenNext]_openVars

\* Every variable has its type.
StoreOpenTypeOK ==
    /\ effective \in Seq({Scripts[k] : k \in DOMAIN Scripts})
    /\ recorded \subseteq {Scripts[k] : k \in DOMAIN Scripts}
    /\ opener \in [Openers -> [at : 1 .. Len(Scripts) + 1, pc : {"check", "apply", "open", "failed"}]]

\* Whoever opens the database and whatever dies on the way, the scripts that
\* took effect are the first of the directory, each once and in its order, and
\* a store that is open has them all: 002 and 004 rebuild the table from the
\* columns of those before them.
SchemaIsWhole ==
    /\ Len(effective) <= Len(Scripts) /\ \A k \in DOMAIN effective : effective[k] = Scripts[k]
    /\ \A p \in Openers : opener[p].pc = "open" => Len(effective) = Len(Scripts)
==============================================================================
