--------------------------- MODULE MCCapturePanel ---------------------------
(* Buffers of two read one entry at a time, a pending buffer of one and    *)
(* budgets of two rounds: evictions, a page with more behind it, a budget  *)
(* running out and an overflowing pending buffer need three captures.  A   *)
(* FIFO of six keys needs four to forget one.                              *)
(*                                                                         *)
(* `part` says what crosses the loop: a refresh of the realm with four     *)
(* captures, a refresh and a clear with three, or the panel and either of  *)
(* them with two: one that is cleared or settled while a copy of it is     *)
(* under way, one that pushes it out of a buffer.                          *)
EXTENDS CapturePanel

VARIABLE part

PartInit == PInit /\ part \in {"refresh", "clear", "panel"}

PartNext ==
    \/ part = "refresh" /\ Next /\ clear'.pc = "idle" /\ UNCHANGED <<panel, part>>
    \/ part = "clear" /\ Next /\ recordSeq' < MaxSeq /\ UNCHANGED <<panel, part>>
    \/ /\ part = "panel" /\ PNext /\ recordSeq' < MaxSeq - 1
       /\ clear'.pc = "idle" \/ inject' = "idle"
       /\ UNCHANGED part

PartSpec == PartInit /\ [][PartNext]_<<pvars, part>>
=============================================================================
