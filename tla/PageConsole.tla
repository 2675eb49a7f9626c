----------------------------- MODULE PageConsole -----------------------------
(* The console of a page, from the call in the page to the rows of the     *)
(* panel: ConsoleSources decides which of two sources reports a record,    *)
(* ConsoleLog keeps what was reported.                                     *)
EXTENDS ConsoleLog, ConsoleSources

\* What the page says is reported, and once the shell has installed again by one
\* source only; what is reported the panel shows, or says that it does not
\* (cdp-bridge.ts, console_log.go).
ConsoleIsHonest == ConsoleHeard /\ ConsoleKeepsItsWord
==============================================================================
