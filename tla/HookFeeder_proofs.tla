-------------------------- MODULE HookFeeder_proofs --------------------------
(* That the drain loop loses nothing it acknowledged and brings back       *)
(* nothing the user cleared, for any buffers, limits and budgets.          *)
(*                                                                         *)
(* Two arguments carry it.  An outcome is known once: as long as a record  *)
(* is pending in the page, no frame of it exists, so a row ingested as     *)
(* pending is settled by a frame that is still to come.  And an answer     *)
(* that counts has no gap: it was asked from the cursors as they stand, of *)
(* the page as it is, since whoever moves the cursors or empties the page  *)
(* moves the generation as well.                                           *)
(*                                                                         *)
(* The panel adds a third: a poll counts only in the epoch it was asked    *)
(* in, and outside a clear no answer of that epoch holds a cleared record. *)
EXTENDS CapturePanel, TLAPS, FiniteSetTheorems, FunctionTheorems

(***************************************************************************)
(* Sequences.                                                              *)
(***************************************************************************)

LEMMA NewestOf ==
    ASSUME NEW S, NEW s \in Seq(S), NEW n \in Nat \ {0}
    PROVE  /\ Newest(s, n) \in Seq(S) /\ Len(Newest(s, n)) <= n
           /\ \E d \in Nat :
                 /\ Len(Newest(s, n)) = Len(s) - d
                 /\ \A i \in DOMAIN Newest(s, n) :
                       i + d \in DOMAIN s /\ Newest(s, n)[i] = s[i + d]
<1>1. CASE Len(s) > n
  <2> DEFINE d == Len(s) - n
  <2>1. Newest(s, n) = SubSeq(s, d + 1, Len(s)) /\ d \in Nat
    BY <1>1 DEF Newest
  <2>2. Newest(s, n) \in Seq(S) /\ Len(Newest(s, n)) = n
        /\ \A i \in 1 .. n : i + d \in 1 .. Len(s) /\ Newest(s, n)[i] = s[i + d]
    BY <1>1, <2>1
  <2>3. DOMAIN Newest(s, n) = 1 .. n /\ DOMAIN s = 1 .. Len(s)
    BY <2>2
  <2>4. n = Len(s) - d /\ n <= n
    OBVIOUS
  <2> HIDE DEF d
  <2>5. Len(Newest(s, n)) = Len(s) - d /\ Len(Newest(s, n)) <= n
    BY <2>2, <2>4, Zenon
  <2>6. \A i \in DOMAIN Newest(s, n) :
            i + d \in DOMAIN s /\ Newest(s, n)[i] = s[i + d]
    BY <2>2, <2>3, Zenon
  <2> QED BY <2>1, <2>2, <2>5, <2>6, Zenon
<1>2. CASE ~ (Len(s) > n)
  <2>1. Newest(s, n) = s
    BY <1>2 DEF Newest
  <2>2. Len(Newest(s, n)) = Len(s) - 0
        /\ \A i \in DOMAIN Newest(s, n) : i + 0 \in DOMAIN s /\ Newest(s, n)[i] = s[i + 0]
    BY <2>1
  <2>3. Newest(s, n) \in Seq(S) /\ Len(Newest(s, n)) <= n
    BY <1>2, <2>1
  <2>4. 0 \in Nat
    OBVIOUS
  <2> QED BY <2>2, <2>3, <2>4, Zenon
<1> QED BY <1>1, <1>2

\* Nothing the stream holds beyond the cursor and up to `last` is missing.
Covers(answer, stream, cursor, last) ==
    /\ \A k \in DOMAIN answer : \E i \in DOMAIN stream : answer[k] = stream[i]
    /\ last \in Nat
    /\ last = cursor \/ \E i \in DOMAIN stream : last = stream[i].seq
    /\ \A i \in DOMAIN stream :
          stream[i].seq > cursor /\ stream[i].seq <= last
          => \E k \in DOMAIN answer : answer[k] = stream[i]

\* A page is what lies beyond the cursor, without a gap up to its last.
LEMMA PageHasNoGap ==
    ASSUME NEW S, NEW stream \in Seq(S), \A e \in S : e.seq \in Nat,
           \A i, j \in DOMAIN stream : i < j => stream[i].seq < stream[j].seq,
           NEW cursor \in Nat, NEW limit \in Nat \ {0}
    PROVE  /\ PageOf(stream, cursor, limit) \in Seq(S)
           /\ Covers(PageOf(stream, cursor, limit), stream, cursor,
                     NextSeq(PageOf(stream, cursor, limit), cursor))
<1> DEFINE at == {i \in DOMAIN stream : stream[i].seq > cursor}
           B == Beyond(stream, cursor)
           P == PageOf(stream, cursor, limit)
<1>1. B = Pick(stream, at) /\ at \in SUBSET DOMAIN stream
  BY DEF Beyond
<1> HIDE DEF at, B, P
<1>2. B \in Seq(S)
  BY <1>1, PickOf
<1>3. PICK f : Enumerates(f, B, stream, at)
  BY <1>1, PickOf
<1>4. P = IF Len(B) > limit THEN SubSeq(B, 1, limit) ELSE B
  BY DEF P, B, PageOf
<1>5. /\ P \in Seq(S) /\ Len(P) <= Len(B)
      /\ \A k \in DOMAIN P : k \in DOMAIN B /\ P[k] = B[k]
      /\ Len(P) = Len(B) \/ (Len(P) = limit /\ limit < Len(B))
  <2>1. CASE Len(B) > limit
    <3>1. P = SubSeq(B, 1, limit)
      BY <1>4, <2>1
    <3>2. P \in Seq(S) /\ Len(P) = limit /\ \A k \in 1 .. limit : P[k] = B[k]
      BY <1>2, <2>1, <3>1
    <3> QED BY <1>2, <2>1, <3>2
  <2>2. CASE ~ (Len(B) > limit)
    BY <1>2, <1>4, <2>2
  <2> QED BY <2>1, <2>2
<1>6. \A k \in DOMAIN P : f[k] \in DOMAIN stream /\ P[k] = stream[f[k]]
  BY <1>1, <1>3, <1>5 DEF Enumerates
<1>7. NextSeq(P, cursor) = IF P = <<>> THEN cursor ELSE P[Len(P)].seq
  BY DEF NextSeq
<1>8. P # <<>> => Len(P) \in DOMAIN P /\ P[Len(P)] \in S
  BY <1>5
<1>9. \A k \in DOMAIN B : f[k] \in at /\ f[k] \in DOMAIN stream /\ B[k] = stream[f[k]]
  BY <1>1, <1>3 DEF Enumerates
<1>10. ASSUME NEW i \in DOMAIN stream, stream[i].seq > cursor,
              stream[i].seq <= NextSeq(P, cursor)
       PROVE  \E k \in DOMAIN P : P[k] = stream[i]
  <2>1. i \in at
    BY <1>10 DEF at
  <2>2. PICK k \in DOMAIN B : f[k] = i
    BY <1>3, <2>1 DEF Enumerates
  <2>3. CASE P = <<>>
    <3>1. stream[i].seq \in Nat
      OBVIOUS
    <3> QED BY <1>7, <1>10, <2>3, <3>1
  <2>4. CASE P # <<>>
    <3>1. Len(P) \in DOMAIN B /\ P[Len(P)] = stream[f[Len(P)]] /\ f[Len(P)] \in DOMAIN stream
      BY <1>5, <1>6, <1>8, <2>4
    <3>2. k \in 1 .. Len(B) /\ Len(B) \in Nat /\ Len(P) \in Nat
      BY <1>2, <1>5, <2>2
    <3>3. CASE k <= Len(P)
      <4>1. k \in DOMAIN P
        BY <1>5, <3>2, <3>3
      <4> QED BY <1>6, <2>2, <4>1
    <3>4. CASE Len(P) < k
      <4>1. f[Len(P)] < f[k]
        BY <1>3, <2>2, <3>1, <3>4 DEF Enumerates
      <4>2. stream[f[Len(P)]].seq < stream[i].seq
        BY <2>2, <3>1, <4>1
      <4>3. NextSeq(P, cursor) = stream[f[Len(P)]].seq
        BY <1>7, <2>4, <3>1
      <4>4. stream[i].seq \in Nat /\ stream[f[Len(P)]].seq \in Nat
        BY <3>1
      <4> QED BY <1>10, <4>2, <4>3, <4>4
    <3> QED BY <3>2, <3>3, <3>4
  <2> QED BY <2>3, <2>4
<1>11. NextSeq(P, cursor) \in Nat
  BY <1>7, <1>8
<1>12. NextSeq(P, cursor) = cursor
       \/ \E i \in DOMAIN stream : NextSeq(P, cursor) = stream[i].seq
  BY <1>6, <1>7, <1>8
<1>13. Covers(P, stream, cursor, NextSeq(P, cursor))
  BY <1>6, <1>10, <1>11, <1>12 DEF Covers
<1> QED BY <1>5, <1>13 DEF P

\* Sequence numbers grow along a buffer, up to the counter.
Rising(stream, newest) ==
    /\ \A i, j \in DOMAIN stream : i < j => stream[i].seq < stream[j].seq
    /\ \A i \in DOMAIN stream : stream[i].seq <= newest

\* t is s with e pushed into at most n places; the numbers reach m + 1.
Pushes(t, S, s, e, n, m) ==
    /\ t \in Seq(S) /\ Len(t) <= n
    /\ \A i \in DOMAIN t : t[i] = e \/ \E j \in DOMAIN s : t[i] = s[j]
    /\ Rising(t, m + 1)

\* Pushing an element keeps a bounded buffer in its order.
LEMMA PushedOf ==
    ASSUME NEW S, NEW s \in Seq(S), NEW e \in S, NEW n \in Nat \ {0},
           NEW m \in Nat, \A x \in S : x.seq \in Nat, Rising(s, m), e.seq = m + 1
    PROVE  Pushes(Newest(Append(s, e), n), S, s, e, n, m)
<1> DEFINE t == Newest(Append(s, e), n)
<1>1. Append(s, e) \in Seq(S) /\ Len(Append(s, e)) = Len(s) + 1 /\ Len(s) \in Nat
  OBVIOUS
<1>2. t \in Seq(S) /\ Len(t) <= n
  BY <1>1, NewestOf
<1>3. PICK d \in Nat :
         /\ Len(t) = Len(Append(s, e)) - d
         /\ \A i \in DOMAIN t : i + d \in DOMAIN Append(s, e) /\ t[i] = Append(s, e)[i + d]
  <2> DEFINE w == Append(s, e)
  <2>1. w \in Seq(S) /\ t = Newest(w, n)
    BY <1>1
  <2> HIDE DEF w
  <2>2. \E d \in Nat :
           /\ Len(Newest(w, n)) = Len(w) - d
           /\ \A i \in DOMAIN Newest(w, n) :
                 i + d \in DOMAIN w /\ Newest(w, n)[i] = w[i + d]
    BY <2>1, NewestOf
  <2>3. \E d \in Nat :
           /\ Len(t) = Len(w) - d
           /\ \A i \in DOMAIN t : i + d \in DOMAIN w /\ t[i] = w[i + d]
    BY <2>1, <2>2, Zenon
  <2> QED BY <2>3 DEF w
<1> HIDE DEF t
<1>4. \A i \in DOMAIN t : /\ i + d \in 1 .. Len(s) + 1
                          /\ i \in Nat /\ i + d <= Len(s) => t[i] = s[i + d]
                          /\ i + d = Len(s) + 1 => t[i] = e
  BY <1>1, <1>2, <1>3
<1>5. \A i \in DOMAIN t : t[i] = e \/ \E j \in DOMAIN s : t[i] = s[j]
  <2> TAKE i \in DOMAIN t
  <2>1. i + d \in 1 .. Len(s) + 1 /\ Len(s) \in Nat
    BY <1>1, <1>4
  <2>2. CASE i + d = Len(s) + 1
    BY <1>4, <2>2
  <2>3. CASE i + d # Len(s) + 1
    <3>1. i + d \in 1 .. Len(s)
      BY <2>1, <2>3
    <3>2. i \in Nat /\ i + d <= Len(s)
      <4>1. i \in 1 .. Len(t) /\ Len(t) \in Nat
        BY <1>2
      <4> QED BY <3>1, <4>1
    <3>3. t[i] = s[i + d]
      BY <1>4, <3>2
    <3>4. i + d \in DOMAIN s
      BY <3>1
    <3> QED BY <3>3, <3>4
  <2> QED BY <2>2, <2>3
<1>6. Rising(t, m + 1)
  <2>1. \A i \in DOMAIN s : s[i].seq <= m /\ s[i].seq \in Nat
    BY DEF Rising
  <2>2. \A i \in DOMAIN t : t[i].seq <= m + 1
    BY <1>5, <2>1
  <2>3. ASSUME NEW i \in DOMAIN t, NEW j \in DOMAIN t, i < j PROVE t[i].seq < t[j].seq
    <3>1. i \in Nat /\ j \in Nat /\ i + d < j + d /\ i + d <= Len(s)
      BY SMTT(20), <1>1, <1>2, <1>4, <2>3
    <3>2. i + d \in DOMAIN s /\ t[i] = s[i + d]
      BY <1>1, <1>4, <3>1
    <3>3. CASE j + d = Len(s) + 1
      BY <1>4, <2>1, <3>2, <3>3
    <3>4. CASE j + d <= Len(s)
      <4>1. j + d \in DOMAIN s /\ t[j] = s[j + d]
        BY <1>1, <1>4, <3>1, <3>4
      <4> QED BY <3>1, <3>2, <4>1 DEF Rising
    <3> QED BY <1>1, <1>4, <3>3, <3>4
  <2> QED BY <2>2, <2>3 DEF Rising
<1> QED BY <1>2, <1>5, <1>6 DEF Pushes, t

LEMMA PatchedOf ==
    ASSUME NEW b \in Seq(Captured), NEW R
    PROVE  Patched(b, R) \in Seq(Captured) /\ Len(Patched(b, R)) = Len(b)
           /\ RidsOf(Patched(b, R)) = RidsOf(b)
<1>1. \A i \in DOMAIN b : b[i] \in Captured
  OBVIOUS
<1>2. \A i \in DOMAIN b : /\ Patched(b, R)[i] \in Captured
                          /\ Patched(b, R)[i].rid = b[i].rid
  BY <1>1 DEF Patched, Captured, Status
<1>3. DOMAIN Patched(b, R) = DOMAIN b
  BY DEF Patched
<1>4. Patched(b, R) \in [1 .. Len(b) -> Captured] /\ Len(b) \in Nat
  <2>1. DOMAIN b = 1 .. Len(b)
    OBVIOUS
  <2> QED BY <1>2, <2>1 DEF Patched
<1>5. Patched(b, R) \in Seq(Captured) /\ Len(Patched(b, R)) = Len(b)
  BY <1>2, <1>3, <1>4
<1> QED BY <1>2, <1>3, <1>5 DEF RidsOf

KeySet == {"record", "update"} \X Rid

LEMMA RegisterOf ==
    ASSUME NEW fifo \in Seq(KeySet), NEW flow \in {"record", "update"},
           NEW S, NEW entries \in Seq(S), \A e \in S : e.rid \in Rid
    PROVE  LET t == Register(fifo, flow, entries)
           IN  /\ t \in Seq(KeySet) /\ Len(t) <= DeliveredCap
               /\ \A i \in DOMAIN t :
                     (\E j \in DOMAIN fifo : t[i] = fifo[j])
                     \/ (\E r \in RidsOf(entries) : t[i] = <<flow, r>>)
<1> DEFINE k == [i \in DOMAIN entries |-> <<flow, entries[i].rid>>]
           w == fifo \o k
           t == Register(fifo, flow, entries)
<1>1. \A i \in DOMAIN entries : entries[i].rid \in Rid /\ entries[i].rid \in RidsOf(entries)
  BY DEF RidsOf
<1>2. k \in Seq(KeySet) /\ Len(k) = Len(entries)
  BY <1>1 DEF KeySet
<1>3. w \in Seq(KeySet) /\ Len(w) = Len(fifo) + Len(k)
      /\ Len(fifo) \in Nat /\ Len(k) \in Nat
  BY <1>2
<1>4. \A i \in DOMAIN w : (\E j \in DOMAIN fifo : w[i] = fifo[j])
                          \/ (\E r \in RidsOf(entries) : w[i] = <<flow, r>>)
  <2> TAKE i \in DOMAIN w
  <2>1. CASE i <= Len(fifo)
    BY <1>3, <2>1
  <2>2. CASE ~ (i <= Len(fifo))
    <3>1. i - Len(fifo) \in DOMAIN entries /\ w[i] = k[i - Len(fifo)]
      BY <1>2, <1>3, <2>2
    <3> QED BY <1>1, <3>1
  <2> QED BY <2>1, <2>2
<1> HIDE DEF k
<1>5. DeliveredCap \in Nat \ {0}
  BY HookFeederAssumption
<1>6. t = Newest(w, DeliveredCap)
  BY DEF Register, k
<1>8. w \in Seq(KeySet)
  BY <1>3
<1> HIDE DEF w, t
<1>7. t \in Seq(KeySet) /\ Len(t) <= DeliveredCap
      /\ \A i \in DOMAIN t : \E j \in DOMAIN w : t[i] = w[j]
  <2>1. PICK d \in Nat : /\ Len(t) = Len(w) - d
                         /\ \A i \in DOMAIN t : i + d \in DOMAIN w /\ t[i] = w[i + d]
    <3>1. /\ Newest(w, DeliveredCap) \in Seq(KeySet) /\ Len(Newest(w, DeliveredCap)) <= DeliveredCap
          /\ \E d \in Nat :
                /\ Len(Newest(w, DeliveredCap)) = Len(w) - d
                /\ \A i \in DOMAIN Newest(w, DeliveredCap) :
                      i + d \in DOMAIN w /\ Newest(w, DeliveredCap)[i] = w[i + d]
      BY <1>5, <1>8, NewestOf, Zenon
    <3> QED BY <1>6, <3>1, Zenon
  <2>2. t \in Seq(KeySet) /\ Len(t) <= DeliveredCap
    BY <1>5, <1>6, <1>8, NewestOf, Zenon
  <2> QED BY <2>1, <2>2, Zenon
<1> QED BY <1>4, <1>7 DEF t

\* Rid r was given by the page so far.
Known(r) == r[1] < realm \/ (r[1] = realm /\ r[2] <= recordSeq)

\* What the page holds.
PageInOrder ==
    /\ Rising(records, recordSeq) /\ Rising(updates, updateSeq)
    /\ \A i \in DOMAIN updates : updates[i].rid[1] = realm

\* Nothing refers to a capture yet to be made.
NothingAhead ==
    /\ \A i \in DOMAIN updates : Known(updates[i].rid)
    /\ \A k \in Keys : Known(k[2])
    /\ \A i \in DOMAIN tick.records : Known(tick.records[i].rid)
    /\ \A i \in DOMAIN tick.updates : Known(tick.updates[i].rid)
    /\ \A r \in gone \cup clear.mark : Known(r)

\* A pending record has no frame anywhere, in the page or in an answer.
SettledOnce ==
    /\ \A i \in DOMAIN records :
          records[i].status = "pending" =>
              /\ <<realm, records[i].seq>> \notin RidsOf(updates)
              /\ <<realm, records[i].seq>> \notin RidsOf(tick.updates)
              /\ <<"update", <<realm, records[i].seq>>>> \notin Keys
    /\ \A i \in DOMAIN tick.records :
          tick.records[i].status = "pending" =>
              /\ tick.records[i].rid \notin RidsOf(tick.updates)
              /\ <<"update", tick.records[i].rid>> \notin Keys

\* A frame in the FIFO, or about to enter it, settled its row.
FramesLanded ==
    /\ \A r \in Rid : <<"update", r>> \in Keys /\ r \in rows => r \in landed
    /\ tick.pc = "write" => /\ RidsOf(tick.records) \subseteq rows
                            /\ RidsOf(tick.updates) \cap rows \subseteq landed

Asking == tick.pc \in {"ask", "persist", "write"} /\ tick.gen = gen
Answered == tick.pc \in {"persist", "write"} /\ tick.gen = gen

\* The round asked from the cursors as they are, unless it is void.
CursorsStand ==
    /\ tick.gen <= gen /\ tick.tickGen <= gen
    /\ Asking => tick.ack = ack /\ tick.updateAck = updateAck
    /\ inject = "idle" => ack <= recordSeq /\ updateAck <= updateSeq

\* An answer that is not void is of this realm and leaves no gap.
AnswerCovers ==
    inject = "idle" /\ Answered =>
        /\ \A j \in DOMAIN tick.records :
              /\ tick.records[j].rid = <<realm, tick.records[j].seq>>
        /\ \A j \in DOMAIN tick.updates : tick.updates[j].seq <= updateSeq
        /\ \A i \in DOMAIN records :
              records[i].seq > tick.ack /\ records[i].seq <= NextSeq(tick.records, tick.ack)
              => <<realm, records[i].seq>> \in RidsOf(tick.records)
        /\ \A i \in DOMAIN updates :
              updates[i].seq > tick.updateAck /\ updates[i].seq <= NextSeq(tick.updates, tick.updateAck)
              => updates[i].rid \in RidsOf(tick.updates)
        /\ \A j \in DOMAIN tick.records : \A i \in DOMAIN updates :
              tick.records[j].status = "pending" /\ updates[i].rid = tick.records[j].rid
              => updates[i].seq > tick.updateAck

\* What was cleared is nowhere it could come back from.
NothingComesBack ==
    /\ clear.pc = "idle" => clear.mark = {}
    /\ \A i \in DOMAIN records : <<realm, records[i].seq>> \notin gone \cup clear.mark
    /\ Answered => RidsOf(tick.records) \cap gone = {}
    /\ ClearedStaysGone

FeederInv ==
    /\ TypeOK
    /\ PageInOrder /\ NothingAhead /\ SettledOnce /\ FramesLanded
    /\ CursorsStand /\ AnswerCovers /\ AcknowledgedIsStored /\ NothingComesBack
(***************************************************************************)
(* What the two large steps do.                                            *)
(***************************************************************************)

LEMMA Limits ==
    /\ RecordCap \in Nat \ {0} /\ UpdateCap \in Nat \ {0} /\ DrainLimit \in Nat \ {0}
    /\ UpdateLimit \in Nat \ {0} /\ MaxPending \in Nat \ {0} /\ DeliveredCap \in Nat \ {0}
    /\ MaxSeq \in Nat /\ MaxRealm \in Nat
  BY HookFeederAssumption

LEMMA Elements ==
    ASSUME TypeOK
    PROVE  /\ \A i \in DOMAIN records : /\ records[i] \in Record
                                        /\ records[i].seq \in Nat \ {0}
                                        /\ records[i].status \in Status
           /\ \A i \in DOMAIN updates : /\ updates[i] \in Frame
                                        /\ updates[i].seq \in Nat \ {0}
                                        /\ updates[i].rid \in Rid
           /\ \A i \in DOMAIN tick.records : /\ tick.records[i] \in Drained
                                             /\ tick.records[i].rid \in Rid
                                             /\ tick.records[i].seq \in Nat \ {0}
                                             /\ tick.records[i].status \in Status
           /\ \A i \in DOMAIN tick.updates : /\ tick.updates[i] \in Frame
                                             /\ tick.updates[i].seq \in Nat \ {0}
                                             /\ tick.updates[i].rid \in Rid
           /\ tick.records \in Seq(Drained) /\ tick.updates \in Seq(Frame)
           /\ tick.captures \in Seq(Captured)
           /\ tick.ack \in Nat /\ tick.updateAck \in Nat /\ tick.gen \in Nat /\ tick.tickGen \in Nat
           /\ ack \in Nat /\ updateAck \in Nat /\ gen \in Nat
           /\ Keys \subseteq KeySet
<1>1. tick \in Tick /\ records \in Seq(Record) /\ updates \in Seq(Frame)
      /\ delivered \in Seq(KeySet)
  BY DEF TypeOK, KeySet
<1>2. tick.records \in Seq(Drained) /\ tick.updates \in Seq(Frame)
      /\ tick.captures \in Seq(Captured)
      /\ tick.ack \in Nat /\ tick.updateAck \in Nat /\ tick.gen \in Nat /\ tick.tickGen \in Nat
  BY <1>1 DEF Tick
<1>3. /\ \A i \in DOMAIN records : records[i] \in Record
      /\ \A i \in DOMAIN updates : updates[i] \in Frame
      /\ \A i \in DOMAIN tick.records : tick.records[i] \in Drained
      /\ \A i \in DOMAIN tick.updates : tick.updates[i] \in Frame
      /\ \A i \in DOMAIN delivered : delivered[i] \in KeySet
  BY <1>1, <1>2
<1>4. ack \in Nat /\ updateAck \in Nat /\ gen \in Nat
  BY DEF TypeOK
<1> QED BY <1>2, <1>3, <1>4 DEF Record, Frame, Drained, Keys

\* Pages read in this realm, with what they say about the cursors.
Reads(answer, stream, cursor, last) ==
    /\ \A j \in DOMAIN answer : \E i \in DOMAIN stream :
          answer[j].seq = stream[i].seq
    /\ last \in Nat
    /\ last = cursor \/ \E i \in DOMAIN stream : last = stream[i].seq
    /\ \A i \in DOMAIN stream :
          stream[i].seq > cursor /\ stream[i].seq <= last
          => \E j \in DOMAIN answer : answer[j].seq = stream[i].seq

LEMMA HookDrainOf ==
    ASSUME TypeOK, PageInOrder, HookDrain
    PROVE  /\ tick' \in Tick /\ tick'.pc = "persist"
           /\ tick'.gen = tick.gen /\ tick'.tickGen = tick.tickGen
           /\ tick'.ack = tick.ack /\ tick'.updateAck = tick.updateAck
           /\ tick'.captures = tick.captures
           /\ \A j \in DOMAIN tick'.records : \E i \in DOMAIN records :
                 tick'.records[j] = [seq |-> records[i].seq, rid |-> <<realm, records[i].seq>>,
                                     status |-> records[i].status]
           /\ Reads(tick'.records, records, tick.ack, NextSeq(tick'.records, tick.ack))
           /\ Covers(tick'.updates, updates, tick.updateAck,
                     NextSeq(tick'.updates, tick.updateAck))
<1> DEFINE P == PageOf(records, tick.ack, DrainLimit)
           U == PageOf(updates, tick.updateAck, UpdateLimit)
           more == Len(Beyond(records, tick.ack)) > DrainLimit
           R == [i \in DOMAIN P |-> [seq |-> P[i].seq, rid |-> <<realm, P[i].seq>>,
                                     status |-> P[i].status]]
<1>1. records \in Seq(Record) /\ updates \in Seq(Frame) /\ tick \in Tick
      /\ realm \in 0 .. MaxRealm /\ recordSeq \in 0 .. MaxSeq
  BY DEF TypeOK
<1>2. tick.ack \in Nat /\ tick.updateAck \in Nat
  BY Elements
<1>3. (\A e \in Record : e.seq \in Nat) /\ (\A e \in Frame : e.seq \in Nat)
  BY DEF Record, Frame
<1>4. (\A i, j \in DOMAIN records : i < j => records[i].seq < records[j].seq)
      /\ (\A i, j \in DOMAIN updates : i < j => updates[i].seq < updates[j].seq)
  BY DEF PageInOrder, Rising
<1>5. P \in Seq(Record) /\ Covers(P, records, tick.ack, NextSeq(P, tick.ack))
  BY <1>1, <1>2, <1>3, <1>4, Limits, PageHasNoGap
<1>6. U \in Seq(Frame) /\ Covers(U, updates, tick.updateAck, NextSeq(U, tick.updateAck))
  BY <1>1, <1>2, <1>3, <1>4, Limits, PageHasNoGap
<1>7. tick' = [tick EXCEPT !.pc = "persist", !.records = R, !.updates = U,
                           !.hasMore = more]
  BY DEF HookDrain
<1>m. more \in BOOLEAN
  OBVIOUS
<1> HIDE DEF P, U, more
<1>8. DOMAIN R = DOMAIN P /\ \A k \in DOMAIN P :
         R[k] = [seq |-> P[k].seq, rid |-> <<realm, P[k].seq>>, status |-> P[k].status]
  OBVIOUS
<1>9. Len(P) \in Nat /\ DOMAIN P = 1 .. Len(P)
  BY <1>5
<1>10. \A k \in DOMAIN P : R[k] \in Drained
  <2> TAKE k \in DOMAIN P
  <2>1. PICK i \in DOMAIN records : P[k] = records[i]
    BY <1>5 DEF Covers
  <2>2. records[i].seq \in Nat \ {0} /\ records[i].status \in Status /\ records[i].seq <= recordSeq
    BY Elements DEF PageInOrder, Rising
  <2>3. <<realm, records[i].seq>> \in Rid
    BY <1>1, <2>2, Limits DEF Rid
  <2> QED BY <1>8, <2>1, <2>2, <2>3 DEF Drained
<1>11. R \in Seq(Drained) /\ Len(R) = Len(P)
  <2>1. R \in [1 .. Len(P) -> Drained]
    BY <1>9, <1>10
  <2> HIDE DEF R
  <2> QED BY <1>9, <2>1
<1>12. NextSeq(R, tick.ack) = NextSeq(P, tick.ack)
  <2>1. CASE P = <<>>
    <3>1. Len(R) = 0
      BY <1>11, <2>1
    <3>2. R = <<>>
      BY <1>11, <3>1
    <3> QED BY <2>1, <3>2 DEF NextSeq
  <2>2. CASE P # <<>>
    <3>1. Len(P) \in DOMAIN P
      BY <1>5, <2>2
    <3>2. R[Len(R)].seq = P[Len(P)].seq /\ R # <<>>
      BY <1>8, <1>11, <3>1
    <3> HIDE DEF R
    <3> QED BY <2>2, <3>2 DEF NextSeq
  <2> QED BY <2>1, <2>2
<1> HIDE DEF R
<1>13. /\ tick' \in Tick /\ tick'.pc = "persist"
       /\ tick'.gen = tick.gen /\ tick'.tickGen = tick.tickGen
       /\ tick'.ack = tick.ack /\ tick'.updateAck = tick.updateAck
       /\ tick'.captures = tick.captures
       /\ tick'.records = R /\ tick'.updates = U
  BY <1>1, <1>6, <1>7, <1>11, <1>m DEF Tick
<1>14. \A j \in DOMAIN R : \E i \in DOMAIN records :
          R[j] = [seq |-> records[i].seq, rid |-> <<realm, records[i].seq>>,
                  status |-> records[i].status]
  BY <1>5, <1>8 DEF Covers
<1>15. Reads(R, records, tick.ack, NextSeq(R, tick.ack))
  BY <1>5, <1>8, <1>12 DEF Reads, Covers
<1> QED BY <1>6, <1>13, <1>14, <1>15
LEMMA NewKeysOf ==
    ASSUME NEW S, NEW s \in Seq(S), NEW flow
    PROVE  NewKeys(flow, s) \in Seq(S) /\ RidsOf(NewKeys(flow, s)) \subseteq RidsOf(s)
<1> DEFINE at == {i \in DOMAIN s : <<flow, s[i].rid>> \notin Keys}
<1>1. NewKeys(flow, s) = Pick(s, at) /\ at \in SUBSET DOMAIN s
  BY DEF NewKeys
<1> HIDE DEF at
<1>2. PICK f : Enumerates(f, Pick(s, at), s, at)
  BY <1>1, PickOf
<1>3. Pick(s, at) \in Seq(S)
  BY <1>1, PickOf
<1> QED BY <1>1, <1>2, <1>3 DEF Enumerates, RidsOf

\* Only what the answer holds enters the FIFO.
KeysGrow ==
    \A k \in Keys' : \/ k \in Keys
                     \/ \E r \in RidsOf(tick.records) : k = <<"record", r>>
                     \/ \E r \in RidsOf(tick.updates) : k = <<"update", r>>

LEMMA WriteBackOf ==
    ASSUME TypeOK, WriteBack
    PROVE  /\ pending' \in Seq(Captured) /\ Len(pending') <= MaxPending
           /\ RidsOf(pending') \subseteq RidsOf(pending) \cup RidsOf(tick.records)
           /\ delivered' \in Seq(KeySet) /\ Len(delivered') <= DeliveredCap
           /\ KeysGrow
           /\ tick' \in Tick /\ tick'.pc \in {"round", "deliver"}
           /\ tick'.gen = tick.gen /\ tick'.tickGen = tick.tickGen
           /\ tick'.records = <<>> /\ tick'.updates = <<>>
           /\ RidsOf(tick'.captures) \subseteq RidsOf(tick.captures) \cup RidsOf(tick.records)
           /\ buffered' \subseteq Rid /\ repeated' \subseteq Rid
<1> DEFINE new == NewKeys("record", tick.records)
           batch == [i \in DOMAIN new |-> [rid |-> new[i].rid, status |-> new[i].status]]
           frames == NewKeys("update", tick.updates)
           rr == tick.recordRounds + Full(tick.records, DrainLimit)
           ur == tick.updateRounds + Full(tick.updates, UpdateLimit)
<1>1. tick.records \in Seq(Drained) /\ tick.updates \in Seq(Frame)
      /\ tick.captures \in Seq(Captured) /\ tick \in Tick
      /\ pending \in Seq(Captured) /\ delivered \in Seq(KeySet)
      /\ buffered \subseteq Rid /\ repeated \subseteq Rid
  BY Elements DEF TypeOK, KeySet
<1>2. new \in Seq(Drained) /\ RidsOf(new) \subseteq RidsOf(tick.records)
  BY <1>1, NewKeysOf
<1>3. frames \in Seq(Frame) /\ RidsOf(frames) \subseteq RidsOf(tick.updates)
  BY <1>1, NewKeysOf
<1>4. /\ pending' = Patched(Newest(pending \o batch, MaxPending), RidsOf(frames))
      /\ delivered' = Register(Register(delivered, "record", new), "update", frames)
      /\ tick' = [tick EXCEPT
             !.pc = IF RecordMore(rr) \/ UpdateMore(ur) THEN "round" ELSE "deliver",
             !.records = <<>>, !.updates = <<>>, !.hasMore = FALSE,
             !.captures = tick.captures \o batch, !.patches = tick.patches \cup RidsOf(frames),
             !.recordRounds = rr, !.updateRounds = ur]
      /\ buffered' = buffered \cup RidsOf(batch)
      /\ repeated' = repeated \cup (RidsOf(batch) \cap buffered)
  BY DEF WriteBack, Fresh
<1>5. rr \in Nat /\ ur \in Nat
  BY <1>1 DEF Tick, Full
<1> HIDE DEF new, frames, rr, ur
<1>6. batch \in Seq(Captured) /\ RidsOf(batch) = RidsOf(new)
  <2>1. \A i \in DOMAIN new : new[i] \in Drained
    BY <1>2
  <2>2. \A i \in DOMAIN new : batch[i] \in Captured /\ batch[i].rid = new[i].rid
    BY <2>1 DEF Drained, Captured
  <2>3. DOMAIN batch = DOMAIN new /\ DOMAIN new = 1 .. Len(new) /\ Len(new) \in Nat
    BY <1>2
  <2>4. batch \in [1 .. Len(new) -> Captured]
    BY <2>2, <2>3
  <2>5. RidsOf(batch) = RidsOf(new)
    BY <2>2, <2>3 DEF RidsOf
  <2> HIDE DEF batch
  <2> QED BY <2>3, <2>4, <2>5
<1> HIDE DEF batch
<1>7. /\ pending \o batch \in Seq(Captured)
      /\ RidsOf(pending \o batch) \subseteq RidsOf(pending) \cup RidsOf(batch)
      /\ tick.captures \o batch \in Seq(Captured)
      /\ RidsOf(tick.captures \o batch) \subseteq RidsOf(tick.captures) \cup RidsOf(batch)
  <2>1. ASSUME NEW a \in Seq(Captured)
        PROVE  a \o batch \in Seq(Captured) /\ RidsOf(a \o batch) \subseteq RidsOf(a) \cup RidsOf(batch)
    <3>1. a \o batch \in Seq(Captured) /\ Len(a \o batch) = Len(a) + Len(batch)
          /\ Len(a) \in Nat /\ Len(batch) \in Nat
      BY <1>6
    <3>2. \A i \in DOMAIN (a \o batch) :
             (\E j \in DOMAIN a : (a \o batch)[i] = a[j])
             \/ (\E j \in DOMAIN batch : (a \o batch)[i] = batch[j])
      <4> TAKE i \in DOMAIN (a \o batch)
      <4>1. CASE i <= Len(a)
        BY <1>6, <3>1, <4>1
      <4>2. CASE ~ (i <= Len(a))
        <5>1. i - Len(a) \in DOMAIN batch /\ (a \o batch)[i] = batch[i - Len(a)]
          BY <1>6, <3>1, <4>2
        <5> QED BY <5>1
      <4> QED BY <4>1, <4>2
    <3> QED BY <3>1, <3>2 DEF RidsOf
  <2> QED BY <1>1, <2>1
<1>8. pending' \in Seq(Captured) /\ Len(pending') <= MaxPending
      /\ RidsOf(pending') \subseteq RidsOf(pending) \cup RidsOf(tick.records)
  <2> DEFINE kept == Newest(pending \o batch, MaxPending)
  <2>1. kept \in Seq(Captured) /\ Len(kept) <= MaxPending
        /\ \A i \in DOMAIN kept : \E j \in DOMAIN (pending \o batch) : kept[i] = (pending \o batch)[j]
    <3>1. kept \in Seq(Captured) /\ Len(kept) <= MaxPending
      BY <1>7, Limits, NewestOf
    <3>2. PICK d \in Nat :
             \A i \in DOMAIN kept : i + d \in DOMAIN (pending \o batch)
                                    /\ kept[i] = (pending \o batch)[i + d]
      BY <1>7, Limits, NewestOf
    <3> HIDE DEF kept
    <3> QED BY <3>1, <3>2
  <2>2. RidsOf(kept) \subseteq RidsOf(pending \o batch)
    BY <2>1 DEF RidsOf
  <2> HIDE DEF kept
  <2>3. pending' \in Seq(Captured) /\ Len(pending') = Len(kept) /\ RidsOf(pending') = RidsOf(kept)
    BY <1>4, <2>1, PatchedOf DEF kept
  <2> QED BY <1>2, <1>6, <1>7, <2>1, <2>2, <2>3
<1>9. delivered' \in Seq(KeySet) /\ Len(delivered') <= DeliveredCap
      /\ \A k \in Keys' :
            \/ k \in Keys
            \/ \E r \in RidsOf(tick.records) : k = <<"record", r>>
            \/ \E r \in RidsOf(tick.updates) : k = <<"update", r>>
  <2> DEFINE fifo == Register(delivered, "record", new)
  <2>1. (\A e \in Drained : e.rid \in Rid) /\ (\A e \in Frame : e.rid \in Rid)
    BY DEF Drained, Frame
  <2>2. /\ fifo \in Seq(KeySet)
        /\ \A i \in DOMAIN fifo : (\E j \in DOMAIN delivered : fifo[i] = delivered[j])
                                  \/ (\E r \in RidsOf(new) : fifo[i] = <<"record", r>>)
    BY <1>1, <1>2, <2>1, RegisterOf
  <2> HIDE DEF fifo
  <2>3. /\ delivered' \in Seq(KeySet) /\ Len(delivered') <= DeliveredCap
        /\ \A i \in DOMAIN delivered' : (\E j \in DOMAIN fifo : delivered'[i] = fifo[j])
                                  \/ (\E r \in RidsOf(frames) : delivered'[i] = <<"update", r>>)
    <3>1. /\ Register(fifo, "update", frames) \in Seq(KeySet)
          /\ Len(Register(fifo, "update", frames)) <= DeliveredCap
          /\ \A i \in DOMAIN Register(fifo, "update", frames) :
                (\E j \in DOMAIN fifo : Register(fifo, "update", frames)[i] = fifo[j])
                \/ (\E r \in RidsOf(frames) :
                       Register(fifo, "update", frames)[i] = <<"update", r>>)
      BY <1>3, <2>1, <2>2, RegisterOf
    <3>2. delivered' = Register(fifo, "update", frames)
      BY <1>4 DEF fifo
    <3> QED BY <3>1, <3>2
  <2> QED BY <1>2, <1>3, <2>2, <2>3 DEF Keys
<1>10. /\ tick'.pc \in {"round", "deliver"}
       /\ tick'.gen = tick.gen /\ tick'.tickGen = tick.tickGen
       /\ tick'.records = <<>> /\ tick'.updates = <<>>
       /\ tick'.captures = tick.captures \o batch
  BY <1>1, <1>4 DEF Tick
<1>11. RidsOf(batch) \subseteq Rid /\ RidsOf(frames) \subseteq Rid
  <2>1. RidsOf(tick.records) \subseteq Rid /\ RidsOf(tick.updates) \subseteq Rid
    BY Elements DEF RidsOf
  <2> QED BY <1>2, <1>3, <1>6, <2>1
<1>12. tick' \in Tick
  <2> DEFINE next == IF RecordMore(rr) \/ UpdateMore(ur) THEN "round" ELSE "deliver"
  <2>1. next \in {"round", "deliver"}
    OBVIOUS
  <2>2. tick' = [tick EXCEPT
             !.pc = next,
             !.records = <<>>, !.updates = <<>>, !.hasMore = FALSE,
             !.captures = tick.captures \o batch, !.patches = tick.patches \cup RidsOf(frames),
             !.recordRounds = rr, !.updateRounds = ur]
    BY <1>4
  <2> HIDE DEF next
  <2>3. tick.patches \cup RidsOf(frames) \in SUBSET Rid
    BY <1>1, <1>11 DEF Tick
  <2>4. <<>> \in Seq(Drained) /\ <<>> \in Seq(Frame)
    OBVIOUS
  <2> QED BY <1>1, <1>5, <1>7, <2>1, <2>2, <2>3, <2>4 DEF Tick
<1>13. buffered' \subseteq Rid /\ repeated' \subseteq Rid
  BY <1>1, <1>4, <1>11
<1>14. KeysGrow
  BY <1>9 DEF KeysGrow
<1> QED BY <1>2, <1>6, <1>7, <1>8, <1>9, <1>10, <1>12, <1>13, <1>14

(***************************************************************************)
(* The page's steps.                                                       *)
(***************************************************************************)

\* The frames after a call of rid r settled, or none did.
Pushed(r) ==
    /\ updates' \in Seq(Frame) /\ Len(updates') <= UpdateCap
    /\ updateSeq' \in Nat /\ updateSeq' >= updateSeq
    /\ Rising(updates', updateSeq')
    /\ \A i \in DOMAIN updates' :
          (updates'[i].rid = r /\ updates'[i].seq > updateSeq)
          \/ \E j \in DOMAIN updates : updates'[i] = updates[j]

LEMMA PushUpdateOf ==
    ASSUME TypeOK, PageInOrder, NEW r \in Rid, PushUpdate(r)
    PROVE  Pushed(r)
<1> DEFINE e == [seq |-> updateSeq + 1, rid |-> r]
<1>1. updates \in Seq(Frame) /\ updateSeq \in Nat /\ Rising(updates, updateSeq)
  BY DEF TypeOK, PageInOrder
<1>2. e \in Frame /\ e.seq = updateSeq + 1 /\ e.rid = r
  BY <1>1 DEF Frame
<1>3. \A x \in Frame : x.seq \in Nat
  BY DEF Frame
<1>4. updateSeq' = updateSeq + 1 /\ updates' = Newest(Append(updates, e), UpdateCap)
  BY DEF PushUpdate
<1> HIDE DEF e
<1>p. UpdateCap \in Nat \ {0} /\ e \in Frame /\ updates \in Seq(Frame) /\ updateSeq \in Nat
      /\ e.seq = updateSeq + 1
  BY <1>1, <1>2, Limits
<1>q. Pushes(Newest(Append(updates, e), UpdateCap), Frame, updates, e, UpdateCap, updateSeq)
  BY <1>1, <1>3, <1>p, PushedOf
<1>5. /\ updates' \in Seq(Frame) /\ Len(updates') <= UpdateCap
      /\ \A i \in DOMAIN updates' : updates'[i] = e \/ \E j \in DOMAIN updates : updates'[i] = updates[j]
      /\ Rising(updates', updateSeq + 1)
  BY <1>4, <1>q DEF Pushes
<1> QED BY <1>1, <1>2, <1>4, <1>5 DEF Pushed

LEMMA NoPush ==
    ASSUME TypeOK, PageInOrder, UNCHANGED <<updateSeq, updates>>, NEW r
    PROVE  Pushed(r)
  BY DEF TypeOK, PageInOrder, Pushed

LEMMA CaptureOf ==
    ASSUME TypeOK, PageInOrder, NEW st \in Status, Capture(st)
    PROVE  /\ recordSeq' = recordSeq + 1 /\ recordSeq' \in 0 .. MaxSeq
           /\ <<realm, recordSeq + 1>> \in Rid
           /\ records' \in Seq(Record) /\ Len(records') <= RecordCap
           /\ Rising(records', recordSeq')
           /\ \A i \in DOMAIN records' :
                 (records'[i].seq = recordSeq + 1 /\ records'[i].status = st)
                 \/ \E j \in DOMAIN records : records'[i] = records[j]
           /\ Pushed(<<realm, recordSeq + 1>>)
           /\ st = "pending" => UNCHANGED <<updateSeq, updates>>
<1> DEFINE e == [seq |-> recordSeq + 1, status |-> st]
<1>1. records \in Seq(Record) /\ recordSeq \in 0 .. MaxSeq /\ Rising(records, recordSeq)
      /\ realm \in 0 .. MaxRealm
  BY DEF TypeOK, PageInOrder
<1>2. recordSeq' = recordSeq + 1 /\ recordSeq < MaxSeq
      /\ records' = Newest(Append(records, e), RecordCap)
  BY DEF Capture
<1>3. recordSeq' \in 0 .. MaxSeq /\ <<realm, recordSeq + 1>> \in Rid
  BY <1>1, <1>2, Limits DEF Rid
<1>4. e \in Record /\ e.seq = recordSeq + 1 /\ e.status = st
  BY <1>1, Limits DEF Record
<1>5. (\A x \in Record : x.seq \in Nat) /\ recordSeq \in Nat
  BY <1>1, Limits DEF Record
<1> HIDE DEF e
<1>6. /\ records' \in Seq(Record) /\ Len(records') <= RecordCap
      /\ \A i \in DOMAIN records' : records'[i] = e \/ \E j \in DOMAIN records : records'[i] = records[j]
      /\ Rising(records', recordSeq + 1)
  <2>1. RecordCap \in Nat \ {0}
    BY Limits
  <2>2. Pushes(Newest(Append(records, e), RecordCap), Record, records, e, RecordCap, recordSeq)
    BY <1>1, <1>4, <1>5, <2>1, PushedOf
  <2> QED BY <1>2, <2>2 DEF Pushes
<1>7. CASE st = "settled"
  <2>1. PushUpdate(<<realm, recordSeq + 1>>)
    BY <1>7 DEF Capture
  <2>2. Pushed(<<realm, recordSeq + 1>>)
    BY <1>3, <2>1, PushUpdateOf
  <2> QED BY <1>2, <1>3, <1>4, <1>6, <1>7, <2>2
<1>8. CASE st # "settled"
  <2>1. UNCHANGED <<updateSeq, updates>>
    BY <1>8 DEF Capture
  <2>2. Pushed(<<realm, recordSeq + 1>>)
    BY <2>1, NoPush
  <2> QED BY <1>2, <1>3, <1>4, <1>6, <2>1, <2>2
<1> QED BY <1>7, <1>8

LEMMA SettleOf ==
    ASSUME TypeOK, PageInOrder, NEW i \in DOMAIN records, SettleBySeq(i)
    PROVE  /\ <<realm, records[i].seq>> \in Rid
           /\ records' \in Seq(Record) /\ Len(records') = Len(records)
           /\ DOMAIN records' = DOMAIN records
           /\ \A k \in DOMAIN records : records'[k].seq = records[k].seq
           /\ \A k \in DOMAIN records : k # i => records'[k] = records[k]
           /\ records'[i].status = "settled"
           /\ Pushed(<<realm, records[i].seq>>)
<1>1. records \in Seq(Record) /\ recordSeq \in 0 .. MaxSeq /\ realm \in 0 .. MaxRealm
  BY DEF TypeOK
<1>2. records[i].seq \in Nat \ {0} /\ records[i].seq <= recordSeq /\ records[i] \in Record
  BY Elements DEF PageInOrder, Rising
<1>3. <<realm, records[i].seq>> \in Rid
  BY <1>1, <1>2, Limits DEF Rid
<1>4. records' = [records EXCEPT ![i] = [records[i] EXCEPT !.status = "settled"]]
  BY DEF SettleBySeq
<1>5. [records[i] EXCEPT !.status = "settled"] \in Record
      /\ [records[i] EXCEPT !.status = "settled"].seq = records[i].seq
      /\ [records[i] EXCEPT !.status = "settled"].status = "settled"
  BY <1>2 DEF Record, Status
<1>6. records' \in Seq(Record) /\ Len(records') = Len(records) /\ DOMAIN records' = DOMAIN records
  BY <1>1, <1>4, <1>5
<1>7. \A k \in DOMAIN records : k # i => records'[k] = records[k]
  BY <1>4
<1>8. records'[i] = [records[i] EXCEPT !.status = "settled"]
  BY <1>4
<1>9. Pushed(<<realm, records[i].seq>>)
  <2>1. PushUpdate(<<realm, records[i].seq>>)
    BY DEF SettleBySeq
  <2> QED BY <1>3, <2>1, PushUpdateOf
<1>10. \A k \in DOMAIN records : records'[k].seq = records[k].seq
  BY <1>5, <1>7, <1>8
<1> QED BY <1>3, <1>5, <1>6, <1>7, <1>8, <1>9, <1>10

\* Steps of the loop that only move it.
Moves == TickStart \/ RoundStart \/ HookDrainFails \/ StalePage \/ StaleWriteBack
         \/ Deliver \/ Emit

LEMMA MovesOf ==
    ASSUME TypeOK, Moves
    PROVE  /\ UNCHANGED <<page, feeder, store, inject, clear, history>>
           /\ tick' \in Tick
           /\ tick'.pc \notin {"persist", "write"}
           /\ tick'.pc = "ask" => tick'.gen = gen /\ tick'.ack = ack /\ tick'.updateAck = updateAck
           /\ tick'.gen \in {0, tick.gen, gen} /\ tick'.tickGen \in {0, tick.tickGen, gen}
           /\ tick'.records \in {<<>>, tick.records} /\ tick'.updates \in {<<>>, tick.updates}
           /\ tick'.captures \in {<<>>, tick.captures}
           /\ tick'.captures # <<>> => tick'.tickGen = tick.tickGen
<1>1. tick \in Tick /\ gen \in Nat /\ ack \in Nat /\ updateAck \in Nat
  BY Elements DEF TypeOK
<1>2. NoTick \in Tick /\ NoTick.pc = "idle" /\ NoTick.gen = 0 /\ NoTick.tickGen = 0
      /\ NoTick.records = <<>> /\ NoTick.updates = <<>> /\ NoTick.captures = <<>>
  BY DEF NoTick, Tick
<1>3. CASE TickStart
  <2>1. tick' = [NoTick EXCEPT !.pc = "round", !.tickGen = gen]
    BY <1>3 DEF TickStart
  <2> QED BY <1>1, <1>2, <1>3, <2>1 DEF TickStart, Tick
<1>4. CASE RoundStart
  BY <1>1, <1>4 DEF RoundStart, Tick
<1>5. CASE HookDrainFails
  BY <1>1, <1>5 DEF HookDrainFails, Tick
<1>6. CASE StalePage
  BY <1>1, <1>6 DEF StalePage, EndRound, Tick
<1>7. CASE StaleWriteBack
  BY <1>1, <1>7 DEF StaleWriteBack, EndRound, Tick
<1>8. CASE Deliver
  <2>1. CASE tick.tickGen = gen
    <3>1. tick' = [NoTick EXCEPT !.pc = "emit", !.tickGen = gen,
                                 !.captures = tick.captures, !.patches = tick.patches]
      BY <1>8, <2>1 DEF Deliver
    <3>2. tick.captures \in Seq(Captured) /\ tick.patches \in SUBSET Rid
      BY <1>1 DEF Tick
    <3> QED BY <1>1, <1>2, <1>8, <2>1, <3>1, <3>2 DEF Deliver, Tick
  <2>2. CASE tick.tickGen # gen
    BY <1>1, <1>2, <1>8, <2>2 DEF Deliver
  <2> QED BY <2>1, <2>2
<1>9. CASE Emit
  BY <1>1, <1>2, <1>9 DEF Emit
<1> QED BY <1>3, <1>4, <1>5, <1>6, <1>7, <1>8, <1>9 DEF Moves

(***************************************************************************)
(* Every step keeps the invariant: the steps off the drain loop.           *)
(***************************************************************************)

LEMMA Nobody == RidsOf(<<>>) = {} /\ <<>> \in Seq(Captured) /\ Len(<<>>) = 0
                /\ <<>> \in Seq(Record) /\ <<>> \in Seq(Frame)
                /\ 0 <= RecordCap /\ 0 <= UpdateCap
  BY Limits DEF RidsOf

LEMMA SetupKeeps == ASSUME FeederInv, SetupContext PROVE FeederInv'
<1> USE DEF FeederInv
<1>1. inject' = "install" /\ UNCHANGED <<page, feeder, tick, store, clear, history>>
  BY DEF SetupContext
<1> USE DEF page, feeder, store, history
<1>t. TypeOK'
  BY <1>1 DEF TypeOK
<1>p. PageInOrder'
  BY <1>1 DEF PageInOrder, Rising
<1>n. NothingAhead'
  BY <1>1 DEF NothingAhead, Known, Keys
<1>s. SettledOnce'
  BY <1>1 DEF SettledOnce, RidsOf, Keys
<1>f. FramesLanded'
  BY <1>1 DEF FramesLanded, RidsOf, Keys
<1>c. CursorsStand'
  BY <1>1 DEF CursorsStand, Asking
<1>a. AnswerCovers' /\ AcknowledgedIsStored'
  BY <1>1 DEF AnswerCovers, AcknowledgedIsStored
<1>b. NothingComesBack'
  BY <1>1 DEF NothingComesBack, ClearedStaysGone, Answered, RidsOf
<1> QED BY <1>t, <1>p, <1>n, <1>s, <1>f, <1>c, <1>a, <1>b

LEMMA InstallKeeps == ASSUME FeederInv, InstallHook PROVE FeederInv'
<1> USE DEF FeederInv
<1>1. inject' = "reset" /\ UNCHANGED <<realm, recordSeq, records, updateSeq, updates, feeder,
                                       tick, store, clear, history>>
  BY DEF InstallHook
<1> USE DEF feeder, store, history
<1>t. TypeOK'
  <2>1. hooked' \in BOOLEAN
    <3>1. PICK ok \in BOOLEAN : hooked' = (hooked \/ ok)
      BY DEF InstallHook
    <3> QED BY <3>1
  <2> QED BY <1>1, <2>1 DEF TypeOK
<1>p. PageInOrder'
  BY <1>1 DEF PageInOrder, Rising
<1>n. NothingAhead'
  BY <1>1 DEF NothingAhead, Known, Keys
<1>s. SettledOnce'
  BY <1>1 DEF SettledOnce, RidsOf, Keys
<1>f. FramesLanded'
  BY <1>1 DEF FramesLanded, RidsOf, Keys
<1>c. CursorsStand'
  BY <1>1 DEF CursorsStand, Asking
<1>a. AnswerCovers' /\ AcknowledgedIsStored'
  BY <1>1 DEF AnswerCovers, AcknowledgedIsStored
<1>b. NothingComesBack'
  BY <1>1 DEF NothingComesBack, ClearedStaysGone, Answered, RidsOf
<1> QED BY <1>t, <1>p, <1>n, <1>s, <1>f, <1>c, <1>a, <1>b

\* The cursors restart and the generation moves: an answer on its way is
\* void, and nothing lies at or below zero.
LEMMA ResetKeeps == ASSUME FeederInv, ResetAck PROVE FeederInv'
<1> USE DEF FeederInv
<1>1. ack' = 0 /\ updateAck' = 0 /\ gen' = gen + 1 /\ inject' = "idle"
      /\ UNCHANGED <<page, pending, delivered, tick, store, clear, history>>
  BY DEF ResetAck
<1>2. gen \in Nat /\ tick.gen \in Nat /\ tick.tickGen \in Nat
      /\ recordSeq \in Nat /\ updateSeq \in Nat
  BY Elements, Limits DEF TypeOK
<1>3. tick.gen # gen' /\ tick.tickGen # gen' /\ tick.gen <= gen' /\ tick.tickGen <= gen'
  BY <1>1, <1>2 DEF CursorsStand
<1> USE DEF page, store, history
<1>t. TypeOK'
  BY <1>1, <1>2 DEF TypeOK
<1>p. PageInOrder'
  BY <1>1 DEF PageInOrder, Rising
<1>n. NothingAhead'
  BY <1>1 DEF NothingAhead, Known, Keys
<1>s. SettledOnce'
  BY <1>1 DEF SettledOnce, RidsOf, Keys
<1>f. FramesLanded'
  BY <1>1 DEF FramesLanded, RidsOf, Keys
<1>c. CursorsStand'
  BY <1>1, <1>2, <1>3 DEF CursorsStand, Asking
<1>a. AnswerCovers'
  BY <1>1, <1>3 DEF AnswerCovers, Answered
<1>k. AcknowledgedIsStored'
  <2>1. \A i \in DOMAIN records : ~ (records[i].seq <= 0)
    BY Elements
  <2>2. \A i \in DOMAIN updates : ~ (updates[i].seq <= 0) /\ updates[i].rid \in Rid
    BY Elements
  <2>3. Keys' = Keys
    BY <1>1 DEF Keys
  <2> QED BY <1>1, <2>1, <2>2, <2>3 DEF AcknowledgedIsStored, FramesLanded
<1>b. NothingComesBack'
  BY <1>1, <1>3 DEF NothingComesBack, ClearedStaysGone, Answered, RidsOf
<1> QED BY <1>t, <1>p, <1>n, <1>s, <1>f, <1>c, <1>a, <1>k, <1>b

\* A new realm starts with an empty page; every rid so far is an old one.
LEMMA ReloadKeeps == ASSUME FeederInv, Reload PROVE FeederInv'
<1> USE DEF FeederInv
<1>1. /\ realm < MaxRealm /\ realm' = realm + 1 /\ hooked' = FALSE
      /\ recordSeq' = 0 /\ records' = <<>> /\ updateSeq' = 0 /\ updates' = <<>>
      /\ inject' = "install" /\ UNCHANGED <<feeder, tick, store, clear, history>>
  BY DEF Reload
<1>2. realm \in Nat /\ realm' \in 0 .. MaxRealm
  BY <1>1, Limits DEF TypeOK
<1>3. ASSUME NEW r \in Rid, Known(r) PROVE Known(r)'
  BY <1>1, <1>2, <1>3, Limits DEF Known, Rid
<1> USE DEF feeder, store, history
<1>4. Keys' = Keys
  BY <1>1 DEF Keys
<1>t. TypeOK'
  <2>1. recordSeq' \in 0 .. MaxSeq /\ updateSeq' \in Nat
    BY <1>1, Limits
  <2>4. hooked' \in BOOLEAN
    BY <1>1, Zenon
  <2>2. records' \in Seq(Record) /\ Len(records') <= RecordCap
        /\ updates' \in Seq(Frame) /\ Len(updates') <= UpdateCap
    BY <1>1, Nobody
  <2>3. inject' \in {"idle", "install", "reset"}
    BY <1>1
  <2> QED BY <1>1, <1>2, <2>1, <2>2, <2>3, <2>4 DEF TypeOK
<1>p. PageInOrder'
  BY <1>1 DEF PageInOrder, Rising
<1>n. NothingAhead'
  <2>1. \A k \in Keys : k[2] \in Rid
    BY Elements DEF KeySet
  <2>2. gone \subseteq Rid /\ clear.mark \subseteq Rid
    BY DEF TypeOK
  <2>3. \A k \in Keys : Known(k[2])'
    BY <1>3, <2>1 DEF NothingAhead
  <2>4. \A r \in gone \cup clear.mark : Known(r)'
    BY <1>3, <2>2 DEF NothingAhead
  <2>5. ASSUME NEW i \in DOMAIN tick.records
        PROVE  tick'.records[i].rid[1] < realm'
    <3>1. tick.records[i].rid \in Rid /\ Known(tick.records[i].rid)
      BY Elements DEF NothingAhead
    <3> QED BY <1>1, <1>2, <3>1 DEF Known, Rid
  <2>6. ASSUME NEW i \in DOMAIN tick.updates
        PROVE  tick'.updates[i].rid[1] < realm'
    <3>1. tick.updates[i].rid \in Rid /\ Known(tick.updates[i].rid)
      BY Elements DEF NothingAhead
    <3> QED BY <1>1, <1>2, <3>1 DEF Known, Rid
  <2> QED BY <1>1, <1>4, <2>3, <2>4, <2>5, <2>6 DEF NothingAhead, Known
<1>s. SettledOnce'
  BY <1>1, <1>4 DEF SettledOnce, RidsOf
<1>f. FramesLanded'
  BY <1>1, <1>4 DEF FramesLanded, RidsOf
<1>c. CursorsStand'
  BY <1>1 DEF CursorsStand, Asking
<1>a. AnswerCovers' /\ AcknowledgedIsStored'
  BY <1>1 DEF AnswerCovers, AcknowledgedIsStored
<1>b. NothingComesBack'
  BY <1>1 DEF NothingComesBack, ClearedStaysGone, Answered, RidsOf
<1> QED BY <1>t, <1>p, <1>n, <1>s, <1>f, <1>c, <1>a, <1>b

LEMMA HookClearKeeps == ASSUME FeederInv, HookClear PROVE FeederInv'
<1> USE DEF FeederInv
<1>1. /\ clear.pc = "idle"
      /\ UNCHANGED <<realm, hooked, recordSeq, updateSeq, feeder, tick, store, inject, history>>
  BY DEF HookClear
<1>2. \/ /\ records' = <<>> /\ updates' = <<>>
         /\ clear' = [pc |-> "shell", mark |-> {realm} \X (1 .. recordSeq)]
      \/ /\ clear' = [pc |-> "shell", mark |-> {}]
         /\ UNCHANGED <<records, updates>>
  BY DEF HookClear
<1>3. realm \in 0 .. MaxRealm /\ recordSeq \in 0 .. MaxSeq
  BY DEF TypeOK
<1> USE DEF feeder, store, history
<1>4. Keys' = Keys
  BY <1>1 DEF Keys
<1>5. records' \in {<<>>, records} /\ updates' \in {<<>>, updates}
  BY <1>2
<1>6. /\ clear'.pc = "shell" /\ clear'.mark \subseteq {realm} \X (1 .. recordSeq)
      /\ clear'.mark = {} \/ records' = <<>>
  BY <1>2
<1>t. TypeOK'
  <2>1. records' \in Seq(Record) /\ Len(records') <= RecordCap
        /\ updates' \in Seq(Frame) /\ Len(updates') <= UpdateCap
    BY <1>5, Nobody DEF TypeOK
  <2>2. clear'.mark \subseteq Rid
    BY <1>3, <1>6, Limits DEF Rid
  <2> QED BY <1>1, <1>6, <2>1, <2>2 DEF TypeOK
<1>p. PageInOrder'
  BY <1>1, <1>5 DEF PageInOrder, Rising
<1>n. NothingAhead'
  <2>1. \A r \in clear'.mark : Known(r)
    BY <1>3, <1>6 DEF Known
  <2> QED BY <1>1, <1>4, <1>5, <2>1 DEF NothingAhead, Known
<1>s. SettledOnce'
  BY <1>1, <1>4, <1>5 DEF SettledOnce, RidsOf
<1>f. FramesLanded'
  BY <1>1, <1>4 DEF FramesLanded, RidsOf
<1>c. CursorsStand'
  BY <1>1 DEF CursorsStand, Asking
<1>a. AnswerCovers'
  BY <1>1, <1>5 DEF AnswerCovers, Answered
<1>k. AcknowledgedIsStored'
  BY <1>1, <1>4, <1>5 DEF AcknowledgedIsStored
<1>b. NothingComesBack'
  BY <1>1, <1>5, <1>6 DEF NothingComesBack, ClearedStaysGone, Answered, RidsOf
<1> QED BY <1>t, <1>p, <1>n, <1>s, <1>f, <1>c, <1>a, <1>k, <1>b

\* The generation moves: what the loop carries from before the clear is
\* neither buffered nor emitted.
LEMMA FeederClearKeeps == ASSUME FeederInv, FeederClear PROVE FeederInv'
<1> USE DEF FeederInv
<1>1. /\ pending' = <<>> /\ gen' = gen + 1 /\ gone' = gone \cup clear.mark
      /\ clear' = [pc |-> "idle", mark |-> {}]
      /\ UNCHANGED <<page, ack, updateAck, delivered, tick, store, inject, buffered, repeated>>
  BY DEF FeederClear
<1>2. gen \in Nat /\ tick.gen \in Nat /\ tick.tickGen \in Nat
  BY Elements
<1>3. tick.gen # gen' /\ tick.tickGen # gen' /\ tick.gen <= gen' /\ tick.tickGen <= gen'
  BY <1>1, <1>2 DEF CursorsStand
<1> USE DEF page, store
<1>4. Keys' = Keys
  BY <1>1 DEF Keys
<1>t. TypeOK'
  BY <1>1, <1>2, Nobody, Limits DEF TypeOK
<1>p. PageInOrder'
  BY <1>1 DEF PageInOrder, Rising
<1>n. NothingAhead'
  BY <1>1, <1>4 DEF NothingAhead, Known
<1>s. SettledOnce'
  BY <1>1, <1>4 DEF SettledOnce, RidsOf
<1>f. FramesLanded'
  BY <1>1, <1>4 DEF FramesLanded, RidsOf
<1>c. CursorsStand'
  BY <1>1, <1>2, <1>3 DEF CursorsStand, Asking
<1>a. AnswerCovers'
  BY <1>1, <1>3 DEF AnswerCovers, Answered
<1>k. AcknowledgedIsStored'
  BY <1>1, <1>4 DEF AcknowledgedIsStored
<1>b. NothingComesBack'
  BY <1>1, <1>3, Nobody DEF NothingComesBack, ClearedStaysGone, Answered
<1> QED BY <1>t, <1>p, <1>n, <1>s, <1>f, <1>c, <1>a, <1>k, <1>b

LEMMA TakeKeeps == ASSUME FeederInv, TakePending PROVE FeederInv'
<1> USE DEF FeederInv
<1>1. UNCHANGED <<page, ack, updateAck, gen, delivered, tick, store, inject, clear, history>>
  BY DEF TakePending
<1>2. pending' \in Seq(Captured) /\ Len(pending') <= MaxPending
      /\ RidsOf(pending') \subseteq RidsOf(pending)
  <2> DEFINE n == IF Len(pending) > PollLimit THEN PollLimit ELSE Len(pending)
  <2>1. pending \in Seq(Captured) /\ Len(pending) <= MaxPending /\ MaxPending \in Nat
        /\ PollLimit \in Nat /\ Len(pending) \in Nat
    BY Limits, HookFeederAssumption DEF TypeOK
  <2>2. n \in 0 .. Len(pending)
    BY <2>1
  <2>3. PollPage = SubSeq(pending, 1, n)
    BY DEF PollPage
  <2> HIDE DEF n
  <2>4. Len(PollPage) = n
    BY <2>1, <2>2, <2>3
  <2>5. pending' = SubSeq(pending, n + 1, Len(pending))
    BY <2>4 DEF TakePending
  <2>6. pending' \in Seq(Captured) /\ Len(pending') = Len(pending) - n
        /\ \A i \in 1 .. Len(pending') : i + n \in 1 .. Len(pending) /\ pending'[i] = pending[i + n]
    BY <2>1, <2>2, <2>5
  <2>7. RidsOf(pending') \subseteq RidsOf(pending)
    BY <2>1, <2>6 DEF RidsOf
  <2> QED BY <2>1, <2>2, <2>6, <2>7
<1> USE DEF page, store, history
<1>4. Keys' = Keys
  BY <1>1 DEF Keys
<1>t. TypeOK'
  BY <1>1, <1>2 DEF TypeOK
<1>p. PageInOrder'
  BY <1>1 DEF PageInOrder, Rising
<1>n. NothingAhead'
  BY <1>1, <1>4 DEF NothingAhead, Known
<1>s. SettledOnce'
  BY <1>1, <1>4 DEF SettledOnce, RidsOf
<1>f. FramesLanded'
  BY <1>1, <1>4 DEF FramesLanded, RidsOf
<1>c. CursorsStand'
  BY <1>1 DEF CursorsStand, Asking
<1>a. AnswerCovers'
  BY <1>1 DEF AnswerCovers, Answered, RidsOf, NextSeq
<1>k. AcknowledgedIsStored'
  BY <1>1, <1>4 DEF AcknowledgedIsStored
<1>b. NothingComesBack'
  <2>1. RidsOf(tick.captures)' = RidsOf(tick.captures) /\ RidsOf(tick.records)' = RidsOf(tick.records)
    BY <1>1
  <2> QED BY <1>1, <1>2, <2>1 DEF NothingComesBack, ClearedStaysGone, Answered
<1> QED BY <1>t, <1>p, <1>n, <1>s, <1>f, <1>c, <1>a, <1>k, <1>b

(***************************************************************************)
(* Every step keeps the invariant: the drain loop.                         *)
(***************************************************************************)

LEMMA MovesKeep == ASSUME FeederInv, Moves PROVE FeederInv'
<1> USE DEF FeederInv
<1>1. UNCHANGED <<page, feeder, store, inject, clear, history>>
  BY MovesOf
<1>2. /\ tick' \in Tick /\ tick'.pc \notin {"persist", "write"}
      /\ tick'.pc = "ask" => tick'.gen = gen /\ tick'.ack = ack /\ tick'.updateAck = updateAck
      /\ tick'.gen \in {0, tick.gen, gen} /\ tick'.tickGen \in {0, tick.tickGen, gen}
      /\ tick'.records \in {<<>>, tick.records} /\ tick'.updates \in {<<>>, tick.updates}
      /\ tick'.captures \in {<<>>, tick.captures}
      /\ tick'.captures # <<>> => tick'.tickGen = tick.tickGen
  BY MovesOf
<1>3. gen \in Nat /\ tick.gen \in Nat /\ tick.tickGen \in Nat
  BY Elements
<1> USE DEF page, feeder, store, history
<1>4. Keys' = Keys
  BY <1>1 DEF Keys
<1>5. RidsOf(tick'.updates) \subseteq RidsOf(tick.updates)
      /\ RidsOf(tick'.records) \subseteq RidsOf(tick.records)
  BY <1>2, Nobody
<1>t. TypeOK'
  BY <1>1, <1>2 DEF TypeOK
<1>p. PageInOrder'
  BY <1>1 DEF PageInOrder, Rising
<1>n. NothingAhead'
  BY <1>1, <1>2, <1>4 DEF NothingAhead, Known
<1>s. SettledOnce'
  <2>1. RidsOf(updates)' = RidsOf(updates)
    BY <1>1
  <2> HIDE DEF FeederInv
  <2>2. SettledOnce
    BY DEF FeederInv
  <2>3. \A i \in DOMAIN records :
           records[i].status = "pending" =>
              /\ <<realm, records[i].seq>> \notin RidsOf(updates)
              /\ <<realm, records[i].seq>> \notin RidsOf(tick'.updates)
              /\ <<"update", <<realm, records[i].seq>>>> \notin Keys
    BY <1>5, <2>2 DEF SettledOnce
  <2>4. \A i \in DOMAIN tick'.records :
           tick'.records[i].status = "pending" =>
              /\ tick'.records[i].rid \notin RidsOf(tick'.updates)
              /\ <<"update", tick'.records[i].rid>> \notin Keys
    BY <1>2, <1>5, <2>2 DEF SettledOnce
  <2> QED BY <1>1, <1>4, <2>1, <2>3, <2>4 DEF SettledOnce
<1>f. FramesLanded'
  BY <1>1, <1>2, <1>4 DEF FramesLanded
<1>c. CursorsStand'
  BY <1>1, <1>2, <1>3 DEF CursorsStand, Asking
<1>a. AnswerCovers'
  BY <1>1, <1>2 DEF AnswerCovers, Answered
<1>k. AcknowledgedIsStored'
  BY <1>1, <1>4 DEF AcknowledgedIsStored
<1>b. NothingComesBack'
  <2>1. RidsOf(pending)' = RidsOf(pending)
    BY <1>1
  <2>2. tick'.captures = <<>> \/ (tick'.captures = tick.captures /\ tick'.tickGen = tick.tickGen)
    BY <1>2
  <2> QED BY <1>1, <1>2, <2>1, <2>2, Nobody DEF NothingComesBack, ClearedStaysGone, Answered
<1> QED BY <1>t, <1>p, <1>n, <1>s, <1>f, <1>c, <1>a, <1>k, <1>b

\* The page's answer: nothing of it is ahead of the page, was cleared or
\* lies behind a gap, and a pending record of it has no frame in the page.
LEMMA HookDrainKeeps == ASSUME FeederInv, HookDrain PROVE FeederInv'
<1> USE DEF FeederInv
<1>1. UNCHANGED <<page, feeder, store, inject, clear, history>> /\ tick.pc = "ask"
  BY DEF HookDrain
<1>2. /\ tick' \in Tick /\ tick'.pc = "persist"
      /\ tick'.gen = tick.gen /\ tick'.tickGen = tick.tickGen
      /\ tick'.ack = tick.ack /\ tick'.updateAck = tick.updateAck
      /\ tick'.captures = tick.captures
  BY HookDrainOf
<1>3. \A j \in DOMAIN tick'.records : \E i \in DOMAIN records :
         tick'.records[j] = [seq |-> records[i].seq, rid |-> <<realm, records[i].seq>>,
                             status |-> records[i].status]
  BY HookDrainOf
<1>4. Reads(tick'.records, records, tick.ack, NextSeq(tick'.records, tick.ack))
  BY HookDrainOf
<1>5. Covers(tick'.updates, updates, tick.updateAck, NextSeq(tick'.updates, tick.updateAck))
  BY HookDrainOf
<1> USE DEF page, feeder, store, history
<1>6. Keys' = Keys
  BY <1>1 DEF Keys
<1>7. \A j \in DOMAIN tick'.records :
         /\ tick'.records[j].rid = <<realm, tick'.records[j].seq>>
         /\ \E i \in DOMAIN records : tick'.records[j].rid = <<realm, records[i].seq>>
                                       /\ tick'.records[j].status = records[i].status
  <2> TAKE j \in DOMAIN tick'.records
  <2>1. PICK i \in DOMAIN records :
           tick'.records[j] = [seq |-> records[i].seq, rid |-> <<realm, records[i].seq>>,
                               status |-> records[i].status]
    BY <1>3
  <2>2. tick'.records[j].seq = records[i].seq
        /\ tick'.records[j].rid = <<realm, records[i].seq>>
        /\ tick'.records[j].status = records[i].status
    BY <2>1
  <2> QED BY <2>2
<1>8. \A j \in DOMAIN tick'.updates : \E i \in DOMAIN updates : tick'.updates[j] = updates[i]
  BY <1>5 DEF Covers
<1>9. RidsOf(tick'.updates) \subseteq RidsOf(updates)
  BY <1>8 DEF RidsOf
<1>10. \A i \in DOMAIN records : records[i].seq <= recordSeq
  BY DEF PageInOrder, Rising
<1>t. TypeOK'
  BY <1>1, <1>2 DEF TypeOK
<1>p. PageInOrder'
  BY <1>1 DEF PageInOrder, Rising
<1>n. NothingAhead'
  <2>1. \A j \in DOMAIN tick'.records : Known(tick'.records[j].rid)
    BY <1>7, <1>10 DEF Known
  <2>2. \A j \in DOMAIN tick'.updates : Known(tick'.updates[j].rid)
    BY <1>8 DEF NothingAhead
  <2> QED BY <1>1, <1>6, <2>1, <2>2 DEF NothingAhead, Known
<1>s. SettledOnce'
  <2>1. RidsOf(updates)' = RidsOf(updates)
    BY <1>1
  <2>2. \A i \in DOMAIN records :
           records[i].status = "pending" =>
              /\ <<realm, records[i].seq>> \notin RidsOf(updates)
              /\ <<realm, records[i].seq>> \notin RidsOf(tick'.updates)
              /\ <<"update", <<realm, records[i].seq>>>> \notin Keys
    BY <1>9 DEF SettledOnce
  <2>3. \A j \in DOMAIN tick'.records :
           tick'.records[j].status = "pending" =>
              /\ tick'.records[j].rid \notin RidsOf(tick'.updates)
              /\ <<"update", tick'.records[j].rid>> \notin Keys
    BY <1>7, <2>2
  <2> QED BY <1>1, <1>6, <2>1, <2>2, <2>3 DEF SettledOnce
<1>f. FramesLanded'
  BY <1>1, <1>2, <1>6 DEF FramesLanded
<1>c. CursorsStand'
  BY <1>1, <1>2 DEF CursorsStand, Asking
<1>a. AnswerCovers'
  <2>1. \A j \in DOMAIN tick'.updates : tick'.updates[j].seq <= updateSeq
    BY <1>8 DEF PageInOrder, Rising
  <2>2. ASSUME NEW i \in DOMAIN records, records[i].seq > tick.ack,
               records[i].seq <= NextSeq(tick'.records, tick.ack)
        PROVE  <<realm, records[i].seq>> \in RidsOf(tick'.records)
    <3>1. PICK j \in DOMAIN tick'.records : tick'.records[j].seq = records[i].seq
      BY <1>4, <2>2 DEF Reads
    <3> QED BY <1>7, <3>1 DEF RidsOf
  <2>3. ASSUME NEW i \in DOMAIN updates, updates[i].seq > tick.updateAck,
               updates[i].seq <= NextSeq(tick'.updates, tick.updateAck)
        PROVE  updates[i].rid \in RidsOf(tick'.updates)
    <3>1. PICK j \in DOMAIN tick'.updates : tick'.updates[j] = updates[i]
      BY <1>5, <2>3 DEF Covers
    <3> QED BY <3>1 DEF RidsOf
  <2>4. ASSUME NEW j \in DOMAIN tick'.records, NEW i \in DOMAIN updates,
               tick'.records[j].status = "pending", updates[i].rid = tick'.records[j].rid
        PROVE  FALSE
    <3>1. PICK k \in DOMAIN records : tick'.records[j].rid = <<realm, records[k].seq>>
                                      /\ records[k].status = "pending"
      BY <1>7, <2>4
    <3>2. <<realm, records[k].seq>> \notin RidsOf(updates)
      BY <3>1 DEF SettledOnce
    <3> QED BY <2>4, <3>1, <3>2 DEF RidsOf
  <2>5. UNCHANGED <<records, updates, realm, updateSeq>>
    BY <1>1
  <2> QED BY <1>2, <1>7, <2>1, <2>2, <2>3, <2>4, <2>5 DEF AnswerCovers
<1>k. AcknowledgedIsStored'
  BY <1>1, <1>6 DEF AcknowledgedIsStored
<1>b. NothingComesBack'
  <2>1. RidsOf(tick'.records) \cap gone = {}
    <3> SUFFICES ASSUME NEW j \in DOMAIN tick'.records
                 PROVE  tick'.records[j].rid \notin gone
      BY DEF RidsOf
    <3> QED BY <1>7 DEF NothingComesBack
  <2>2. RidsOf(pending)' = RidsOf(pending)
    BY <1>1
  <2> QED BY <1>1, <1>2, <2>1, <2>2 DEF NothingComesBack, ClearedStaysGone
<1> QED BY <1>t, <1>p, <1>n, <1>s, <1>f, <1>c, <1>a, <1>k, <1>b

\* A frame is delivered by now or among the fresh ones.
LEMMA FreshOf ==
    ASSUME TypeOK
    PROVE  \A r \in RidsOf(tick.updates) : r \in RidsOf(Fresh) \/ <<"update", r>> \in Keys
<1> DEFINE u == tick.updates
           at == {i \in DOMAIN u : <<"update", u[i].rid>> \notin Keys}
<1>1. u \in Seq(Frame)
  BY Elements
<1>2. Fresh = Pick(u, at) /\ at \in SUBSET DOMAIN u
  BY DEF Fresh, NewKeys
<1>3. PICK f : Enumerates(f, Pick(u, at), u, at)
  <2> HIDE DEF at, u
  <2> QED BY <1>1, <1>2, PickOf
<1>4. ASSUME NEW i \in DOMAIN u
      PROVE  u[i].rid \in RidsOf(Fresh) \/ <<"update", u[i].rid>> \in Keys
  <2>1. CASE i \in at
    <3>1. PICK k \in DOMAIN Pick(u, at) : f[k] = i
      BY <1>3, <2>1 DEF Enumerates
    <3>2. Pick(u, at)[k] = u[i]
      BY <1>3, <3>1 DEF Enumerates
    <3> HIDE DEF at, u
    <3> QED BY <1>2, <3>1, <3>2 DEF RidsOf
  <2>2. CASE i \notin at
    BY <2>2
  <2> QED BY <2>1, <2>2
<1> QED BY <1>4 DEF RidsOf

\* The rows after the records of an answer are ingested: one that has a
\* frame, in the page or delivered, arrives with its outcome.
LEMMA IngestOf ==
    ASSUME FeederInv, tick.pc = "persist", tick.gen = gen, Ingest \/ UNCHANGED store \/ IngestAndApply
    PROVE  /\ rows' \subseteq Rid /\ landed' \subseteq Rid
           /\ rows \subseteq rows' /\ landed \subseteq landed'
           /\ \A r \in Rid : <<"update", r>> \in Keys /\ r \in rows' => r \in landed'
           /\ inject = "idle" =>
                 \A i \in DOMAIN updates :
                    updates[i].seq <= updateAck /\ updates[i].rid \in rows'
                    => updates[i].rid \in landed'
<1> USE DEF FeederInv
<1> DEFINE R == RidsOf(tick.records)
           S == Settled(tick.records)
           F == RidsOf(Fresh)
<1>1. rows \subseteq Rid /\ landed \subseteq Rid
  BY DEF TypeOK
<1>2. R \subseteq Rid /\ S \subseteq Rid
  BY Elements DEF RidsOf, Settled
<1>3. F \subseteq Rid
  <2>1. tick.updates \in Seq(Frame)
    BY Elements
  <2>2. F \subseteq RidsOf(tick.updates)
    BY <2>1, NewKeysOf DEF Fresh
  <2>3. RidsOf(tick.updates) \subseteq Rid
    BY Elements DEF RidsOf
  <2> QED BY <2>2, <2>3
<1>4. \A r \in R : r \in S \/ \E j \in DOMAIN tick.records :
                                  tick.records[j].rid = r /\ tick.records[j].status = "pending"
  <2> SUFFICES ASSUME NEW j \in DOMAIN tick.records, tick.records[j].status # "pending"
               PROVE  tick.records[j].rid \in S
    BY DEF RidsOf
  <2>1. tick.records[j].status = "settled"
    BY Elements DEF Status
  <2> QED BY <2>1 DEF Settled
<1> HIDE DEF R, S, F
<1>5. /\ rows' \subseteq rows \cup R /\ rows \subseteq rows' /\ landed \subseteq landed'
      /\ landed' \subseteq landed \cup S \cup F
      /\ \A r \in rows' \ rows : r \in S => r \in landed'
  BY DEF Ingest, IngestAndApply, store, R, S, F
<1>6. ASSUME NEW r \in Rid, <<"update", r>> \in Keys, r \in rows' PROVE r \in landed'
  <2>1. CASE r \in rows
    BY <1>5, <1>6, <2>1 DEF FramesLanded
  <2>2. CASE r \notin rows
    <3>1. r \in S
      BY <1>4, <1>5, <1>6, <2>2 DEF SettledOnce
    <3> QED BY <1>5, <1>6, <2>2, <3>1
  <2> QED BY <2>1, <2>2
<1>7. ASSUME inject = "idle", NEW i \in DOMAIN updates, updates[i].seq <= updateAck,
             updates[i].rid \in rows'
      PROVE  updates[i].rid \in landed'
  <2>1. CASE updates[i].rid \in rows
    BY <1>5, <1>7, <2>1 DEF AcknowledgedIsStored
  <2>2. CASE updates[i].rid \notin rows
    <3>1. tick.updateAck = updateAck
      BY DEF CursorsStand, Asking
    <3>2. ~ (updates[i].seq > tick.updateAck)
      BY <1>7, <3>1, Elements
    <3>3. Answered
      BY DEF Answered
    <3>4. \A j \in DOMAIN tick.records :
             tick.records[j].rid = updates[i].rid => tick.records[j].status # "pending"
      BY <1>7, <3>2, <3>3 DEF AnswerCovers
    <3>5. updates[i].rid \in S
      BY <1>4, <1>5, <1>7, <2>2, <3>4
    <3> QED BY <1>5, <1>7, <2>2, <3>5
  <2> QED BY <2>1, <2>2
<1> QED BY <1>1, <1>2, <1>3, <1>5, <1>6, <1>7

\* What the three outcomes of storing an answer have in common.
Storing(pc) == /\ tick.pc = "persist" /\ tick.gen = gen
               /\ tick' = [tick EXCEPT !.pc = pc]
               /\ Ingest \/ UNCHANGED store \/ IngestAndApply
               /\ UNCHANGED <<page, feeder, inject, clear, history>>

LEMMA StoringKeeps ==
    ASSUME FeederInv, NEW pc \in {"write", "deliver"}, Storing(pc),
           pc = "write" => IngestAndApply
    PROVE  FeederInv'
<1> USE DEF FeederInv
<1>1. /\ tick.pc = "persist" /\ tick.gen = gen
      /\ Ingest \/ UNCHANGED store \/ IngestAndApply
      /\ UNCHANGED <<page, feeder, inject, clear, history>>
  BY DEF Storing
<1>2. /\ tick' \in Tick /\ tick'.pc = pc
      /\ tick'.gen = tick.gen /\ tick'.tickGen = tick.tickGen
      /\ tick'.ack = tick.ack /\ tick'.updateAck = tick.updateAck
      /\ tick'.captures = tick.captures
      /\ tick'.records = tick.records /\ tick'.updates = tick.updates
  BY DEF Storing, TypeOK, Tick
<1>3. /\ rows' \subseteq Rid /\ landed' \subseteq Rid
      /\ rows \subseteq rows' /\ landed \subseteq landed'
      /\ \A r \in Rid : <<"update", r>> \in Keys /\ r \in rows' => r \in landed'
  BY <1>1, IngestOf
<1>4. inject = "idle" =>
         \A i \in DOMAIN updates :
            updates[i].seq <= updateAck /\ updates[i].rid \in rows'
            => updates[i].rid \in landed'
  BY <1>1, IngestOf
<1> USE DEF page, feeder, history
<1>5. Keys' = Keys
  BY <1>1 DEF Keys
<1>t. TypeOK'
  BY <1>1, <1>2, <1>3 DEF TypeOK
<1>p. PageInOrder'
  BY <1>1 DEF PageInOrder, Rising
<1>n. NothingAhead'
  BY <1>1, <1>2, <1>5 DEF NothingAhead, Known
<1>s. SettledOnce'
  BY <1>1, <1>2, <1>5 DEF SettledOnce, RidsOf
<1>f. FramesLanded'
  <2>1. \A r \in Rid : <<"update", r>> \in Keys' /\ r \in rows' => r \in landed'
    BY <1>3, <1>5
  <2>2. ASSUME tick'.pc = "write"
        PROVE  RidsOf(tick.records) \subseteq rows' /\ RidsOf(tick.updates) \cap rows' \subseteq landed'
    <3>1. IngestAndApply
      BY <1>2, <2>2
    <3>2. RidsOf(tick.records) \subseteq rows' /\ RidsOf(Fresh) \cap rows' \subseteq landed'
      BY <3>1 DEF IngestAndApply
    <3>3. RidsOf(tick.updates) \subseteq Rid
      BY Elements DEF RidsOf
    <3>4. \A r \in RidsOf(tick.updates) : r \in RidsOf(Fresh) \/ <<"update", r>> \in Keys
      BY FreshOf
    <3> QED BY <1>3, <3>2, <3>3, <3>4
  <2> QED BY <1>2, <2>1, <2>2 DEF FramesLanded
<1>c. CursorsStand'
  BY <1>1, <1>2 DEF CursorsStand, Asking
<1>a. AnswerCovers'
  <2>1. Answered
    BY <1>1 DEF Answered
  <2> QED BY <1>1, <1>2, <2>1 DEF AnswerCovers, RidsOf
<1>k. AcknowledgedIsStored'
  <2>1. \A i \in DOMAIN updates : updates[i].rid \in Rid
    BY Elements
  <2> QED BY <1>1, <1>3, <1>4, <1>5, <2>1 DEF AcknowledgedIsStored
<1>b. NothingComesBack'
  <2>1. Answered
    BY <1>1 DEF Answered
  <2>2. RidsOf(pending)' = RidsOf(pending)
    BY <1>1
  <2> QED BY <1>1, <1>2, <2>1, <2>2 DEF NothingComesBack, ClearedStaysGone
<1> QED BY <1>t, <1>p, <1>n, <1>s, <1>f, <1>c, <1>a, <1>k, <1>b

LEMMA PersistKeeps == ASSUME FeederInv, Persist PROVE FeederInv'
<1>1. Storing("write") /\ IngestAndApply
  BY DEF Persist, PageVoid, Storing, EndRound
<1> QED BY <1>1, StoringKeeps

LEMMA PersistFailsKeeps == ASSUME FeederInv, PersistFails PROVE FeederInv'
<1>1. Storing("deliver")
  BY DEF PersistFails, PageVoid, Storing, EndRound
<1> QED BY <1>1, StoringKeeps

\* An answer that counts ends at or before what the page has given.
LEMMA NextBelow ==
    ASSUME FeederInv, inject = "idle", Answered
    PROVE  /\ NextSeq(tick.records, tick.ack) \in Nat
           /\ NextSeq(tick.records, tick.ack) <= recordSeq
           /\ NextSeq(tick.updates, tick.updateAck) \in Nat
           /\ NextSeq(tick.updates, tick.updateAck) <= updateSeq
<1> USE DEF FeederInv
<1>1. tick.ack = ack /\ tick.updateAck = updateAck
      /\ ack <= recordSeq /\ updateAck <= updateSeq
  BY DEF CursorsStand, Asking, Answered
<1>2. ack \in Nat /\ updateAck \in Nat
      /\ tick.records \in Seq(Drained) /\ tick.updates \in Seq(Frame)
  BY Elements
<1>3. ASSUME NEW j \in DOMAIN tick.records
      PROVE  tick.records[j].seq \in Nat /\ tick.records[j].seq <= recordSeq
  <2>1. tick.records[j].rid = <<realm, tick.records[j].seq>> /\ Known(tick.records[j].rid)
    BY DEF AnswerCovers, NothingAhead
  <2>2. tick.records[j].seq \in Nat
    BY Elements
  <2>3. realm \in Nat
    BY Limits DEF TypeOK
  <2> QED BY <2>1, <2>2, <2>3 DEF Known
<1>4. \A j \in DOMAIN tick.updates : tick.updates[j].seq \in Nat /\ tick.updates[j].seq <= updateSeq
  BY Elements DEF AnswerCovers
<1>5. tick.records # <<>> => Len(tick.records) \in DOMAIN tick.records
  BY <1>2
<1>6. tick.updates # <<>> => Len(tick.updates) \in DOMAIN tick.updates
  BY <1>2
<1> QED BY <1>1, <1>2, <1>3, <1>4, <1>5, <1>6 DEF NextSeq

\* The cursors advance over what was stored, and no further.
LEMMA WriteBackKeeps == ASSUME FeederInv, WriteBack PROVE FeederInv'
<1> USE DEF FeederInv
<1>1. /\ UNCHANGED <<page, gen, store, inject, clear, gone>>
      /\ tick.pc = "write" /\ tick.gen = gen
      /\ ack' = Forward(ack, NextSeq(tick.records, tick.ack))
      /\ updateAck' = Forward(updateAck, NextSeq(tick.updates, tick.updateAck))
  BY DEF WriteBack, PageVoid
<1>2. /\ pending' \in Seq(Captured) /\ Len(pending') <= MaxPending
      /\ RidsOf(pending') \subseteq RidsOf(pending) \cup RidsOf(tick.records)
      /\ delivered' \in Seq(KeySet) /\ Len(delivered') <= DeliveredCap
      /\ tick' \in Tick /\ tick'.pc \in {"round", "deliver"}
      /\ tick'.gen = tick.gen /\ tick'.tickGen = tick.tickGen
      /\ tick'.records = <<>> /\ tick'.updates = <<>>
      /\ RidsOf(tick'.captures) \subseteq RidsOf(tick.captures) \cup RidsOf(tick.records)
      /\ buffered' \subseteq Rid /\ repeated' \subseteq Rid
  BY WriteBackOf
<1>3. \A k \in Keys' :  \/ k \in Keys
                        \/ \E r \in RidsOf(tick.records) : k = <<"record", r>>
                        \/ \E r \in RidsOf(tick.updates) : k = <<"update", r>>
  <2>1. KeysGrow
    BY WriteBackOf
  <2> QED BY <2>1 DEF KeysGrow
<1> USE DEF page, store
<1>4. \A r : <<"update", r>> \in Keys' => <<"update", r>> \in Keys \/ r \in RidsOf(tick.updates)
  BY <1>3
<1>5. ack \in Nat /\ updateAck \in Nat /\ tick.ack \in Nat /\ tick.updateAck \in Nat
      /\ tick.records \in Seq(Drained) /\ tick.updates \in Seq(Frame)
  BY Elements
<1>6. NextSeq(tick.records, tick.ack) \in Nat /\ NextSeq(tick.updates, tick.updateAck) \in Nat
  <2>1. tick.records # <<>> => Len(tick.records) \in DOMAIN tick.records
    BY <1>5
  <2>2. tick.updates # <<>> => Len(tick.updates) \in DOMAIN tick.updates
    BY <1>5
  <2> QED BY <1>5, <2>1, <2>2, Elements DEF NextSeq
<1>7. ack' \in Nat /\ updateAck' \in Nat
  BY <1>1, <1>5, <1>6 DEF Forward
<1>8. tick.ack = ack /\ tick.updateAck = updateAck /\ Answered
  BY <1>1 DEF CursorsStand, Asking, Answered
<1>t. TypeOK'
  BY <1>1, <1>2, <1>7 DEF TypeOK, KeySet
<1>p. PageInOrder'
  BY <1>1 DEF PageInOrder, Rising
<1>n. NothingAhead'
  <2>1. \A r \in RidsOf(tick.records) \cup RidsOf(tick.updates) : Known(r)
    BY DEF NothingAhead, RidsOf
  <2>2. \A k \in Keys' : Known(k[2])
    BY <1>3, <2>1 DEF NothingAhead
  <2> QED BY <1>1, <1>2, <2>2 DEF NothingAhead, Known
<1>s. SettledOnce'
  <2>1. \A i \in DOMAIN records :
           records[i].status = "pending" =>
              /\ <<realm, records[i].seq>> \notin RidsOf(updates)
              /\ <<"update", <<realm, records[i].seq>>>> \notin Keys'
    BY <1>4 DEF SettledOnce
  <2>2. RidsOf(updates)' = RidsOf(updates)
    BY <1>1
  <2>3. RidsOf(tick'.updates) = {} /\ DOMAIN tick'.records = {}
    BY <1>2, Nobody
  <2> QED BY <1>1, <2>1, <2>2, <2>3 DEF SettledOnce
<1>f. FramesLanded'
  BY <1>1, <1>2, <1>4 DEF FramesLanded
<1>c. CursorsStand'
  <2>1. ASSUME inject = "idle" PROVE ack' <= recordSeq /\ updateAck' <= updateSeq
    BY <1>1, <1>8, <2>1, NextBelow DEF CursorsStand, Forward
  <2> QED BY <1>1, <1>2, <2>1 DEF CursorsStand, Asking
<1>a. AnswerCovers'
  BY <1>2 DEF AnswerCovers, Answered
<1>k. AcknowledgedIsStored'
  <2> SUFFICES ASSUME inject = "idle"
               PROVE  /\ \A i \in DOMAIN records :
                            records[i].seq <= ack' => <<realm, records[i].seq>> \in rows
                      /\ \A i \in DOMAIN updates :
                            /\ updates[i].seq <= updateAck' \/ <<"update", updates[i].rid>> \in Keys'
                            /\ updates[i].rid \in rows
                            => updates[i].rid \in landed
    BY <1>1 DEF AcknowledgedIsStored
  <2>0. RidsOf(tick.records) \subseteq rows /\ RidsOf(tick.updates) \cap rows \subseteq landed
    BY <1>1 DEF FramesLanded
  <2>1. ASSUME NEW i \in DOMAIN records, records[i].seq <= ack'
        PROVE  <<realm, records[i].seq>> \in rows
    <3>1. CASE records[i].seq <= ack
      BY <3>1 DEF AcknowledgedIsStored
    <3>2. CASE ~ (records[i].seq <= ack)
      <4>1. records[i].seq > tick.ack /\ records[i].seq <= NextSeq(tick.records, tick.ack)
        BY <1>1, <1>5, <1>6, <1>8, <2>1, <3>2, Elements DEF Forward
      <4>2. <<realm, records[i].seq>> \in RidsOf(tick.records)
        BY <1>8, <4>1 DEF AnswerCovers
      <4> QED BY <2>0, <4>2
    <3> QED BY <3>1, <3>2
  <2>2. ASSUME NEW i \in DOMAIN updates, updates[i].rid \in rows,
               updates[i].seq <= updateAck' \/ <<"update", updates[i].rid>> \in Keys'
        PROVE  updates[i].rid \in landed
    <3>1. CASE updates[i].seq <= updateAck \/ <<"update", updates[i].rid>> \in Keys
      BY <2>2, <3>1 DEF AcknowledgedIsStored
    <3>2. CASE updates[i].rid \in RidsOf(tick.updates)
      BY <2>0, <2>2, <3>2
    <3>3. CASE ~ (updates[i].seq <= updateAck) /\ updates[i].seq <= updateAck'
      <4>1. updates[i].seq > tick.updateAck
            /\ updates[i].seq <= NextSeq(tick.updates, tick.updateAck)
        BY <1>1, <1>5, <1>6, <1>8, <3>3, Elements DEF Forward
      <4>2. updates[i].rid \in RidsOf(tick.updates)
        BY <1>8, <4>1 DEF AnswerCovers
      <4> QED BY <3>2, <4>2
    <3> QED BY <1>4, <2>2, <3>1, <3>2, <3>3
  <2> QED BY <2>1, <2>2
<1>b. NothingComesBack'
  <2>1. RidsOf(tick.records) \cap gone = {}
    BY <1>8 DEF NothingComesBack
  <2> QED BY <1>1, <1>2, <2>1, Nobody DEF NothingComesBack, ClearedStaysGone, Answered
<1> QED BY <1>t, <1>p, <1>n, <1>s, <1>f, <1>c, <1>a, <1>k, <1>b

(***************************************************************************)
(* Every step keeps the invariant: the page.                               *)
(***************************************************************************)

\* What a step of the page leaves alone, and what it may push: a frame of
\* rid r, beyond every cursor.
PageStep(r) ==
    /\ UNCHANGED <<realm, hooked, feeder, tick, store, inject, clear, history>>
    /\ Pushed(r)

LEMMA PushedKeeps ==
    ASSUME FeederInv, NEW r \in Rid, PageStep(r), inject = "idle", r[1] = realm
    PROVE  /\ \A i \in DOMAIN updates' : updates'[i].rid = r \/ \E j \in DOMAIN updates : updates'[i] = updates[j]
           /\ \A i \in DOMAIN updates' :
                 updates'[i].seq <= updateAck => \E j \in DOMAIN updates : updates'[i] = updates[j]
           /\ Answered => \A i \in DOMAIN updates' :
                 updates'[i].seq <= NextSeq(tick.updates, tick.updateAck)
                 => \E j \in DOMAIN updates : updates'[i] = updates[j]
<1> USE DEF FeederInv
<1>1. updates' \in Seq(Frame) /\ updateSeq \in Nat /\ updateAck \in Nat
      /\ updateAck <= updateSeq
  BY Elements DEF PageStep, Pushed, CursorsStand, TypeOK
<1>2. \A i \in DOMAIN updates' : updates'[i].seq \in Nat
  <2> TAKE i \in DOMAIN updates'
  <2>1. updates'[i] \in Frame
    BY <1>1
  <2> QED BY <2>1 DEF Frame
<1>3. \A i \in DOMAIN updates' :
         (updates'[i].rid = r /\ updates'[i].seq > updateSeq)
         \/ \E j \in DOMAIN updates : updates'[i] = updates[j]
  BY DEF PageStep, Pushed
<1>4. ASSUME NEW i \in DOMAIN updates', updates'[i].seq <= updateAck
      PROVE  ~ (updates'[i].seq > updateSeq)
  BY <1>1, <1>2, <1>4
<1>5. ASSUME Answered, NEW i \in DOMAIN updates',
             updates'[i].seq <= NextSeq(tick.updates, tick.updateAck)
      PROVE  ~ (updates'[i].seq > updateSeq)
  BY <1>1, <1>2, <1>5, NextBelow
<1> QED BY <1>3, <1>4, <1>5

LEMMA CaptureKeeps == ASSUME FeederInv, NEW st \in Status, Capture(st) PROVE FeederInv'
<1> USE DEF FeederInv
<1> DEFINE q == <<realm, recordSeq + 1>>
           Now(r) == r[1] < realm' \/ (r[1] = realm' /\ r[2] <= recordSeq')
<1>1. /\ UNCHANGED <<realm, hooked, feeder, tick, store, inject, clear, history>>
      /\ hooked
  BY DEF Capture
<1>2. /\ recordSeq' = recordSeq + 1 /\ recordSeq' \in 0 .. MaxSeq
      /\ q \in Rid
      /\ records' \in Seq(Record) /\ Len(records') <= RecordCap
      /\ Rising(records', recordSeq')
      /\ Pushed(q)
      /\ st = "pending" => UNCHANGED <<updateSeq, updates>>
  BY CaptureOf
<1>3. \A i \in DOMAIN records' :
         (records'[i].seq = recordSeq + 1 /\ records'[i].status = st)
         \/ \E j \in DOMAIN records : records'[i] = records[j]
  BY CaptureOf
<1> USE DEF feeder, store, history
<1>4. Keys' = Keys
  BY <1>1 DEF Keys
<1>5. realm \in Nat /\ recordSeq \in Nat /\ updateSeq \in Nat
  BY Limits DEF TypeOK
<1>6. ~ Known(q)
  BY <1>5 DEF Known
<1>7. ASSUME NEW r \in Rid, Known(r) PROVE Now(r)
  BY <1>1, <1>2, <1>5, <1>7, Limits DEF Known, Rid
<1>8. /\ updates' \in Seq(Frame) /\ Len(updates') <= UpdateCap /\ updateSeq' \in Nat
      /\ updateSeq' >= updateSeq /\ Rising(updates', updateSeq')
      /\ \A i \in DOMAIN updates' : updates'[i].rid = q \/ \E j \in DOMAIN updates : updates'[i] = updates[j]
  BY <1>2 DEF Pushed
<1>9. Now(q)
  BY <1>1, <1>2, <1>5
<1>10. /\ q \notin RidsOf(updates) /\ q \notin RidsOf(tick.updates) /\ q \notin RidsOf(tick.records)
       /\ <<"update", q>> \notin Keys /\ q \notin gone \cup clear.mark
  <2>1. q \notin gone \cup clear.mark
    BY <1>6 DEF NothingAhead
  <2>2. <<"update", q>> \notin Keys
    <3>1. <<"update", q>>[2] = q
      OBVIOUS
    <3> HIDE DEF q
    <3> QED BY <1>6, <3>1 DEF NothingAhead
  <2> HIDE DEF q
  <2> QED BY <1>6, <2>1, <2>2 DEF NothingAhead, RidsOf
<1>11. PageStep(q) /\ q[1] = realm
  BY <1>1, <1>2 DEF PageStep
<1>12. \A i \in DOMAIN records : <<realm, records[i].seq>> # q
  BY <1>5, Elements DEF PageInOrder, Rising
<1>t. TypeOK'
  BY <1>1, <1>2, <1>8 DEF TypeOK
<1>p. PageInOrder'
  BY <1>1, <1>2, <1>8, <1>11 DEF PageInOrder
<1>n. NothingAhead'
  <2>1. \A k \in Keys : k[2] \in Rid
    BY Elements DEF KeySet
  <2>2. gone \subseteq Rid /\ clear.mark \subseteq Rid
    BY DEF TypeOK
  <2>3. \A k \in Keys : Now(k[2])
    BY <1>7, <2>1 DEF NothingAhead
  <2>4. \A r \in gone \cup clear.mark : Now(r)
    BY <1>7, <2>2 DEF NothingAhead
  <2>5. \A i \in DOMAIN tick.records : Now(tick.records[i].rid)
    BY <1>7, Elements DEF NothingAhead
  <2>6. \A i \in DOMAIN tick.updates : Now(tick.updates[i].rid)
    BY <1>7, Elements DEF NothingAhead
  <2>7. \A i \in DOMAIN updates : Now(updates[i].rid)
    BY <1>7, Elements DEF NothingAhead
  <2> HIDE DEF q
  <2>8. \A i \in DOMAIN updates' : Now(updates'[i].rid)
    BY <1>8, <1>9, <2>7
  <2> QED BY <1>1, <1>4, <2>3, <2>4, <2>5, <2>6, <2>8 DEF NothingAhead, Known
<1>s. SettledOnce'
  <2>1. ASSUME NEW i \in DOMAIN records', records'[i].status = "pending"
        PROVE  /\ <<realm, records'[i].seq>> \notin RidsOf(updates')
               /\ <<realm, records'[i].seq>> \notin RidsOf(tick.updates)
               /\ <<"update", <<realm, records'[i].seq>>>> \notin Keys
    <3>1. CASE records'[i].seq = recordSeq + 1 /\ records'[i].status = st
      BY <1>2, <1>10, <2>1, <3>1
    <3>2. CASE \E j \in DOMAIN records : records'[i] = records[j]
      <4>1. PICK j \in DOMAIN records : records'[i] = records[j]
        BY <3>2
      <4>2. <<realm, records[j].seq>> \notin RidsOf(updates) /\ <<realm, records[j].seq>> # q
        BY <1>12, <2>1, <4>1 DEF SettledOnce
      <4>3. <<realm, records[j].seq>> \notin RidsOf(updates')
        BY <1>8, <4>2 DEF RidsOf
      <4>4. records[j].status = "pending" /\ records'[i].seq = records[j].seq
        BY <2>1, <4>1
      <4>5. /\ <<realm, records[j].seq>> \notin RidsOf(tick.updates)
            /\ <<"update", <<realm, records[j].seq>>>> \notin Keys
        BY <4>4 DEF SettledOnce
      <4> HIDE DEF FeederInv
      <4> QED BY <4>3, <4>4, <4>5, Zenon
    <3> QED BY <1>3, <3>1, <3>2
  <2> QED BY <1>1, <1>4, <2>1 DEF SettledOnce, RidsOf
<1>f. FramesLanded'
  BY <1>1, <1>4 DEF FramesLanded, RidsOf
<1>c. CursorsStand'
  BY <1>1, <1>2, <1>5, <1>8, Elements DEF CursorsStand, Asking
<1>a. AnswerCovers'
  <2> SUFFICES ASSUME inject = "idle", Answered
               PROVE  /\ \A j \in DOMAIN tick.updates : tick.updates[j].seq <= updateSeq'
                      /\ \A i \in DOMAIN records' :
                            records'[i].seq > tick.ack /\ records'[i].seq <= NextSeq(tick.records, tick.ack)
                            => <<realm, records'[i].seq>> \in RidsOf(tick.records)
                      /\ \A i \in DOMAIN updates' :
                            updates'[i].seq > tick.updateAck
                            /\ updates'[i].seq <= NextSeq(tick.updates, tick.updateAck)
                            => updates'[i].rid \in RidsOf(tick.updates)
                      /\ \A j \in DOMAIN tick.records : \A i \in DOMAIN updates' :
                            tick.records[j].status = "pending" /\ updates'[i].rid = tick.records[j].rid
                            => updates'[i].seq > tick.updateAck
    BY <1>1 DEF AnswerCovers, Answered
  <2>1. \A j \in DOMAIN tick.updates : tick.updates[j].seq <= updateSeq'
    <3>1. \A j \in DOMAIN tick.updates : tick.updates[j].seq \in Nat \ {0}
      BY Elements, Zenon
    <3>2. \A j \in DOMAIN tick.updates : tick.updates[j].seq <= updateSeq
      BY Zenon DEF AnswerCovers
    <3>3. updateSeq \in Nat /\ updateSeq' \in Nat /\ updateSeq <= updateSeq'
      BY <1>5, <1>8
    <3> HIDE DEF FeederInv
    <3> QED BY <3>1, <3>2, <3>3
  <2>2. ASSUME NEW i \in DOMAIN records', records'[i].seq > tick.ack,
               records'[i].seq <= NextSeq(tick.records, tick.ack)
        PROVE  <<realm, records'[i].seq>> \in RidsOf(tick.records)
    <3>1. ~ (recordSeq + 1 <= NextSeq(tick.records, tick.ack))
      BY <1>5, NextBelow
    <3>2. PICK j \in DOMAIN records : records'[i] = records[j]
      BY <1>3, <2>2, <3>1
    <3> QED BY <2>2, <3>2 DEF AnswerCovers
  <2>3. ASSUME NEW i \in DOMAIN updates', updates'[i].seq > tick.updateAck,
               updates'[i].seq <= NextSeq(tick.updates, tick.updateAck)
        PROVE  updates'[i].rid \in RidsOf(tick.updates)
    <3>1. PICK j \in DOMAIN updates : updates'[i] = updates[j]
      BY <1>2, <1>11, <2>3, PushedKeeps
    <3> QED BY <2>3, <3>1 DEF AnswerCovers
  <2>4. ASSUME NEW j \in DOMAIN tick.records, NEW i \in DOMAIN updates',
               tick.records[j].status = "pending", updates'[i].rid = tick.records[j].rid
        PROVE  updates'[i].seq > tick.updateAck
    <3>1. updates'[i].rid # q
      BY <1>10, <2>4 DEF RidsOf
    <3>2. PICK k \in DOMAIN updates : updates'[i] = updates[k]
      BY <1>8, <3>1
    <3> QED BY <2>4, <3>2 DEF AnswerCovers
  <2> QED BY <2>1, <2>2, <2>3, <2>4
<1>k. AcknowledgedIsStored'
  <2> SUFFICES ASSUME inject = "idle"
               PROVE  /\ \A i \in DOMAIN records' :
                            records'[i].seq <= ack => <<realm, records'[i].seq>> \in rows
                      /\ \A i \in DOMAIN updates' :
                            /\ updates'[i].seq <= updateAck \/ <<"update", updates'[i].rid>> \in Keys
                            /\ updates'[i].rid \in rows
                            => updates'[i].rid \in landed
    BY <1>1, <1>4 DEF AcknowledgedIsStored
  <2>1. ASSUME NEW i \in DOMAIN records', records'[i].seq <= ack
        PROVE  <<realm, records'[i].seq>> \in rows
    <3>1. ~ (recordSeq + 1 <= ack)
      BY <1>5, Elements DEF CursorsStand
    <3>2. PICK j \in DOMAIN records : records'[i] = records[j]
      BY <1>3, <2>1, <3>1
    <3> QED BY <2>1, <3>2 DEF AcknowledgedIsStored
  <2>2. ASSUME NEW i \in DOMAIN updates', updates'[i].rid \in rows,
               updates'[i].seq <= updateAck \/ <<"update", updates'[i].rid>> \in Keys
        PROVE  updates'[i].rid \in landed
    <3>1. PICK j \in DOMAIN updates : updates'[i] = updates[j]
      BY <1>2, <1>8, <1>10, <1>11, <2>2, PushedKeeps
    <3> QED BY <2>2, <3>1 DEF AcknowledgedIsStored
  <2> QED BY <2>1, <2>2
<1>b. NothingComesBack'
  <2>1. \A i \in DOMAIN records' : <<realm, records'[i].seq>> \notin gone \cup clear.mark
    BY <1>3, <1>10 DEF NothingComesBack
  <2> QED BY <1>1, <2>1 DEF NothingComesBack, ClearedStaysGone, Answered, RidsOf
<1> QED BY <1>t, <1>p, <1>n, <1>s, <1>f, <1>c, <1>a, <1>k, <1>b

\* The record that settles was pending: nothing knew its outcome.
LEMMA SettleKeeps ==
    ASSUME FeederInv, NEW n \in DOMAIN records, SettleBySeq(n)
    PROVE  FeederInv'
<1> USE DEF FeederInv
<1> DEFINE q == <<realm, records[n].seq>>
<1>1. /\ UNCHANGED <<realm, hooked, recordSeq, feeder, tick, store, inject, clear, history>>
      /\ records[n].status = "pending"
  BY DEF SettleBySeq
<1>2. /\ q \in Rid
      /\ records' \in Seq(Record) /\ Len(records') = Len(records)
      /\ DOMAIN records' = DOMAIN records
      /\ \A k \in DOMAIN records : records'[k].seq = records[k].seq
      /\ \A k \in DOMAIN records : k # n => records'[k] = records[k]
      /\ records'[n].status = "settled"
      /\ Pushed(q)
  BY SettleOf
<1> USE DEF feeder, store, history
<1>4. Keys' = Keys
  BY <1>1 DEF Keys
<1>8. /\ updates' \in Seq(Frame) /\ Len(updates') <= UpdateCap /\ updateSeq' \in Nat
      /\ updateSeq' >= updateSeq /\ Rising(updates', updateSeq')
      /\ \A i \in DOMAIN updates' : updates'[i].rid = q \/ \E j \in DOMAIN updates : updates'[i] = updates[j]
  BY <1>2 DEF Pushed
<1>5. updateSeq \in Nat
  BY DEF TypeOK
<1>6. Known(q)
  BY DEF Known, PageInOrder, Rising
<1>7. /\ q \notin RidsOf(updates) /\ q \notin RidsOf(tick.updates)
      /\ <<"update", q>> \notin Keys
  BY <1>1 DEF SettledOnce
<1>9. \A j \in DOMAIN tick.records : tick.records[j].rid = q \/ tick.records[j].rid # q
  OBVIOUS
<1>11. PageStep(q) /\ q[1] = realm
  BY <1>1, <1>2 DEF PageStep
<1>12. ASSUME NEW k \in DOMAIN records, k # n PROVE <<realm, records[k].seq>> # q
  <2>1. k \in Int /\ n \in Int
    BY DEF TypeOK
  <2>2. records[k].seq < records[n].seq \/ records[n].seq < records[k].seq
    BY <1>12, <2>1 DEF PageInOrder, Rising
  <2>3. records[k].seq \in Nat /\ records[n].seq \in Nat
    BY Elements
  <2> QED BY <2>2, <2>3
<1>t. TypeOK'
  BY <1>1, <1>2, <1>8 DEF TypeOK
<1>p. PageInOrder'
  <2>1. Rising(records', recordSeq')
    BY <1>1, <1>2 DEF PageInOrder, Rising
  <2>2. \A i \in DOMAIN updates' : updates'[i].rid[1] = realm'
    BY <1>1, <1>8, <1>11 DEF PageInOrder
  <2> QED BY <1>8, <2>1, <2>2 DEF PageInOrder
<1>n. NothingAhead'
  <2> HIDE DEF q
  <2>1. \A i \in DOMAIN updates' : Known(updates'[i].rid)
    BY <1>6, <1>8 DEF NothingAhead
  <2> QED BY <1>1, <1>4, <2>1 DEF NothingAhead, Known
<1>s. SettledOnce'
  <2>1. ASSUME NEW k \in DOMAIN records, records'[k].status = "pending"
        PROVE  /\ <<realm, records'[k].seq>> \notin RidsOf(updates')
               /\ <<realm, records'[k].seq>> \notin RidsOf(tick.updates)
               /\ <<"update", <<realm, records'[k].seq>>>> \notin Keys
    <3>1. k # n
      BY <1>2, <2>1
    <3>2. records'[k] = records[k]
      BY <1>2, <3>1
    <3>3. <<realm, records[k].seq>> \notin RidsOf(updates) /\ <<realm, records[k].seq>> # q
      BY <1>12, <2>1, <3>1, <3>2 DEF SettledOnce
    <3>4. <<realm, records[k].seq>> \notin RidsOf(updates')
      BY <1>8, <3>3 DEF RidsOf
    <3> QED BY <2>1, <3>2, <3>4 DEF SettledOnce
  <2>2. \A i \in DOMAIN tick'.records :
           tick'.records[i].status = "pending" =>
              /\ tick'.records[i].rid \notin RidsOf(tick'.updates)
              /\ <<"update", tick'.records[i].rid>> \notin Keys'
    BY <1>1, <1>4 DEF SettledOnce
  <2>3. RidsOf(tick.updates) = RidsOf(tick'.updates) /\ realm' = realm
        /\ DOMAIN records' = DOMAIN records
    BY <1>1, <1>2
  <2> HIDE DEF FeederInv, q
  <2> QED BY <1>4, <2>1, <2>2, <2>3 DEF SettledOnce
<1>f. FramesLanded'
  BY <1>1, <1>4 DEF FramesLanded, RidsOf
<1>c. CursorsStand'
  <2>1. inject = "idle" => updateAck <= updateSeq'
    BY <1>5, <1>8, Elements DEF CursorsStand
  <2> QED BY <1>1, <2>1 DEF CursorsStand, Asking
<1>a. AnswerCovers'
  <2> SUFFICES ASSUME inject = "idle", Answered
               PROVE  /\ \A j \in DOMAIN tick.updates : tick.updates[j].seq <= updateSeq'
                      /\ \A i \in DOMAIN updates' :
                            updates'[i].seq > tick.updateAck
                            /\ updates'[i].seq <= NextSeq(tick.updates, tick.updateAck)
                            => updates'[i].rid \in RidsOf(tick.updates)
                      /\ \A j \in DOMAIN tick.records : \A i \in DOMAIN updates' :
                            tick.records[j].status = "pending" /\ updates'[i].rid = tick.records[j].rid
                            => updates'[i].seq > tick.updateAck
    BY <1>1, <1>2 DEF AnswerCovers, Answered
  <2>1. \A j \in DOMAIN tick.updates : tick.updates[j].seq <= updateSeq'
    <3>1. \A j \in DOMAIN tick.updates : tick.updates[j].seq \in Nat \ {0}
      BY Elements, Zenon
    <3>2. \A j \in DOMAIN tick.updates : tick.updates[j].seq <= updateSeq
      BY Zenon DEF AnswerCovers
    <3>3. updateSeq \in Nat /\ updateSeq' \in Nat /\ updateSeq <= updateSeq'
      BY <1>5, <1>8
    <3> HIDE DEF FeederInv
    <3> QED BY <3>1, <3>2, <3>3
  <2>2. ASSUME NEW i \in DOMAIN updates', updates'[i].seq > tick.updateAck,
               updates'[i].seq <= NextSeq(tick.updates, tick.updateAck)
        PROVE  updates'[i].rid \in RidsOf(tick.updates)
    <3>1. PICK j \in DOMAIN updates : updates'[i] = updates[j]
      BY <1>2, <1>11, <2>2, PushedKeeps
    <3> QED BY <2>2, <3>1 DEF AnswerCovers
  <2>3. ASSUME NEW j \in DOMAIN tick.records, NEW i \in DOMAIN updates',
               tick.records[j].status = "pending", updates'[i].rid = tick.records[j].rid
        PROVE  updates'[i].seq > tick.updateAck
    <3>1. CASE \E k \in DOMAIN updates : updates'[i] = updates[k]
      <4>1. PICK k \in DOMAIN updates : updates'[i] = updates[k]
        BY <3>1
      <4> QED BY <2>3, <4>1 DEF AnswerCovers
    <3>2. CASE ~ \E k \in DOMAIN updates : updates'[i] = updates[k]
      <4>1. ~ (updates'[i].seq <= updateAck)
        BY <1>2, <1>11, <3>2, PushedKeeps
      <4>2. updates'[i] \in Frame
        BY <1>8
      <4>3. updates'[i].seq \in Nat
        BY <4>2 DEF Frame
      <4>4. tick.updateAck = updateAck /\ updateAck \in Nat
        BY Elements DEF CursorsStand, Asking, Answered
      <4> QED BY <4>1, <4>3, <4>4
    <3> QED BY <3>1, <3>2
  <2> QED BY <2>1, <2>2, <2>3
<1>k. AcknowledgedIsStored'
  <2> SUFFICES ASSUME inject = "idle"
               PROVE  \A i \in DOMAIN updates' :
                         /\ updates'[i].seq <= updateAck \/ <<"update", updates'[i].rid>> \in Keys
                         /\ updates'[i].rid \in rows
                         => updates'[i].rid \in landed
    BY <1>1, <1>2, <1>4 DEF AcknowledgedIsStored
  <2>1. ASSUME NEW i \in DOMAIN updates', updates'[i].rid \in rows,
               updates'[i].seq <= updateAck \/ <<"update", updates'[i].rid>> \in Keys
        PROVE  updates'[i].rid \in landed
    <3>1. PICK j \in DOMAIN updates : updates'[i] = updates[j]
      BY <1>2, <1>7, <1>8, <1>11, <2>1, PushedKeeps
    <3> QED BY <2>1, <3>1 DEF AcknowledgedIsStored
  <2> QED BY <2>1
<1>b. NothingComesBack'
  <2>1. \A i \in DOMAIN records' : <<realm, records'[i].seq>> \notin gone \cup clear.mark
    BY <1>2 DEF NothingComesBack
  <2> QED BY <1>1, <2>1 DEF NothingComesBack, ClearedStaysGone, Answered, RidsOf
<1> QED BY <1>t, <1>p, <1>n, <1>s, <1>f, <1>c, <1>a, <1>k, <1>b

(***************************************************************************)
(* The theorems.                                                           *)
(***************************************************************************)

LEMMA StutterKeeps == ASSUME FeederInv, UNCHANGED vars PROVE FeederInv'
<1> USE DEF FeederInv
<1>1. UNCHANGED <<page, feeder, tick, store, inject, clear, history>>
  BY DEF vars
<1> USE DEF page, feeder, store, history
<1>t. TypeOK'
  BY <1>1 DEF TypeOK
<1>p. PageInOrder'
  BY <1>1 DEF PageInOrder, Rising
<1>n. NothingAhead'
  BY <1>1 DEF NothingAhead, Known, Keys
<1>s. SettledOnce'
  BY <1>1 DEF SettledOnce, RidsOf, Keys
<1>f. FramesLanded'
  BY <1>1 DEF FramesLanded, RidsOf, Keys
<1>c. CursorsStand'
  BY <1>1 DEF CursorsStand, Asking
<1>a. AnswerCovers'
  BY <1>1 DEF AnswerCovers, Answered, RidsOf, NextSeq
<1>k. AcknowledgedIsStored'
  BY <1>1 DEF AcknowledgedIsStored, Keys
<1>b. NothingComesBack'
  BY <1>1 DEF NothingComesBack, ClearedStaysGone, Answered, RidsOf
<1> QED BY <1>t, <1>p, <1>n, <1>s, <1>f, <1>c, <1>a, <1>k, <1>b

LEMMA FeederInit == Init => FeederInv
<1> SUFFICES ASSUME Init PROVE FeederInv
  OBVIOUS
<1>1. /\ realm = 0 /\ hooked = TRUE
      /\ recordSeq = 0 /\ records = <<>> /\ updateSeq = 0 /\ updates = <<>>
      /\ ack = 0 /\ updateAck = 0 /\ gen = 0 /\ pending = <<>> /\ delivered = <<>>
      /\ rows = {} /\ landed = {}
      /\ inject = "idle" /\ clear = [pc |-> "idle", mark |-> {}]
      /\ buffered = {} /\ repeated = {} /\ gone = {}
  BY DEF Init
<1>2. /\ tick \in Tick /\ tick.pc = "idle" /\ tick.gen = 0 /\ tick.tickGen = 0
      /\ tick.records = <<>> /\ tick.updates = <<>> /\ tick.captures = <<>>
  BY DEF Init, NoTick, Tick
<1>3. <<>> \in Seq({"record", "update"} \X Rid) /\ Len(<<>>) = 0 /\ 0 <= DeliveredCap
      /\ 0 <= MaxPending
  BY Limits
<1>h. hooked \in BOOLEAN
  BY <1>1, Zenon
<1>t. TypeOK
  <2>1. /\ realm \in 0 .. MaxRealm /\ recordSeq \in 0 .. MaxSeq /\ updateSeq \in Nat
        /\ {ack, updateAck, gen} \subseteq Nat
    BY <1>1, Limits
  <2>2. /\ records \in Seq(Record) /\ Len(records) <= RecordCap
        /\ updates \in Seq(Frame) /\ Len(updates) <= UpdateCap
    BY <1>1, Nobody
  <2>3. /\ pending \in Seq(Captured) /\ Len(pending) <= MaxPending
        /\ delivered \in Seq({"record", "update"} \X Rid) /\ Len(delivered) <= DeliveredCap
    BY <1>1, <1>3, Nobody
  <2>4. /\ inject \in {"idle", "install", "reset"}
        /\ clear.pc \in {"idle", "shell"} /\ clear.mark \subseteq Rid
        /\ {rows, landed, buffered, repeated, gone} \subseteq SUBSET Rid
    BY <1>1
  <2> QED BY <1>2, <1>h, <2>1, <2>2, <2>3, <2>4 DEF TypeOK
<1>4. Keys = {}
  BY <1>1 DEF Keys
<1>p. PageInOrder /\ NothingAhead
  BY <1>1, <1>2, <1>4 DEF PageInOrder, Rising, NothingAhead
<1>s. SettledOnce /\ FramesLanded
  BY <1>1, <1>2, <1>4 DEF SettledOnce, FramesLanded
<1>c. CursorsStand /\ AnswerCovers
  BY <1>1, <1>2 DEF CursorsStand, Asking, AnswerCovers, Answered
<1>k. AcknowledgedIsStored
  BY <1>1 DEF AcknowledgedIsStored
<1>b. NothingComesBack
  BY <1>1, <1>2, Nobody DEF NothingComesBack, ClearedStaysGone, Answered
<1> QED BY <1>t, <1>p, <1>s, <1>c, <1>k, <1>b DEF FeederInv

LEMMA FeederStep == FeederInv /\ [Next]_vars => FeederInv'
<1> SUFFICES ASSUME FeederInv, [Next]_vars PROVE FeederInv'
  OBVIOUS
<1>1. CASE PageSteps
  <2>1. ASSUME NEW st \in Status, Capture(st) PROVE FeederInv'
    BY <2>1, CaptureKeeps
  <2>2. ASSUME NEW i \in DOMAIN records, SettleBySeq(i) PROVE FeederInv'
    BY <2>2, SettleKeeps
  <2> QED BY <1>1, <2>1, <2>2, ReloadKeeps, SetupKeeps DEF PageSteps
<1>2. CASE InjectHooks
  BY <1>2, InstallKeeps, ResetKeeps DEF InjectHooks
<1>3. CASE HookClear \/ FeederClear \/ TakePending
  BY <1>3, HookClearKeeps, FeederClearKeeps, TakeKeeps
<1>4. CASE Rounds \/ Emit
  <2>1. CASE Moves
    BY <2>1, MovesKeep
  <2>2. CASE HookDrain \/ Persist \/ PersistFails \/ WriteBack
    BY <2>2, HookDrainKeeps, PersistKeeps, PersistFailsKeeps, WriteBackKeeps
  <2> QED BY <1>4, <2>1, <2>2 DEF Rounds, Moves
<1>5. CASE UNCHANGED vars
  BY <1>5, StutterKeeps
<1> QED BY <1>1, <1>2, <1>3, <1>4, <1>5 DEF Next

\* The inductive invariant of the drain loop with the handlers that run
\* against it: a page's answer leaves no gap and holds nothing cleared, a
\* round that counts asked from the cursors as they stand, a frame behind
\* them or in the FIFO has settled its row.
THEOREM FeederInvariant == Spec => []FeederInv
  BY FeederInit, FeederStep, PTL DEF Spec

\* Page, loop, store and handlers keep their types, every buffer its bound.
THEOREM FeederTypes == Spec => []TypeOK
<1>1. FeederInv => TypeOK
  BY DEF FeederInv
<1> QED BY <1>1, FeederInvariant, PTL

\* For any capacities, limits and budgets: what the cursors acknowledge, or
\* the FIFO filters, is in the store (the order ingest, apply, write back of
\* drainOnce; the generation check against a reset in between).
THEOREM AcknowledgedStaysStored == Spec => []AcknowledgedIsStored
<1>1. FeederInv => AcknowledgedIsStored
  BY DEF FeederInv
<1> QED BY <1>1, FeederInvariant, PTL

\* For any capacities, limits and budgets: what the user cleared is neither
\* polled nor emitted again (R10; Clear bumps the generation, and the page
\* was emptied before).
THEOREM ClearedIsGone == Spec => []ClearedStaysGone
<1>1. FeederInv => ClearedStaysGone
  BY DEF FeederInv, NothingComesBack
<1> QED BY <1>1, FeederInvariant, PTL

(***************************************************************************)
(* The capture panel on top of the loop.                                   *)
(***************************************************************************)

\* A poll's answer that the panel would still let in holds nothing cleared:
\* the shell was asked in the same epoch, outside a clear.
AnswersAreCurrent ==
    /\ clear.pc # "idle" => clearing
    /\ \A p \in Runs : poll[p].epoch <= pollEpoch
    /\ ~clearing =>
          \A p \in Runs : poll[p].pc = "answered" /\ poll[p].epoch = pollEpoch
                          => RidsOf(poll[p].page) \cap gone = {}

PanelInv == FeederInv /\ PanelTypeOK /\ AnswersAreCurrent

Polls == [pc : {"idle", "asked", "answered"}, epoch : Nat, page : Seq(Captured), disowned : BOOLEAN]

LEMMA NoPollIs ==
    /\ NoPoll \in Polls /\ NoPoll.pc = "idle" /\ NoPoll.epoch = 0
    /\ <<>> \in Seq(Captured)
<1>1. <<>> \in Seq(Captured)
  OBVIOUS
<1> QED
  BY <1>1 DEF NoPoll, Polls

LEMMA RidsAreRids ==
    ASSUME NEW s \in Seq(Captured)
    PROVE  RidsOf(s) \subseteq Rid /\ Settled(s) \subseteq RidsOf(s)
<1>1. \A i \in DOMAIN s : s[i] \in Captured
  OBVIOUS
<1> QED
  BY <1>1 DEF RidsOf, Settled, Captured

\* An answer is of what the shell had buffered.
LEMMA PollPageOf ==
    ASSUME FeederInv
    PROVE  PollPage \in Seq(Captured) /\ RidsOf(PollPage) \subseteq RidsOf(pending)
<1> DEFINE n == IF Len(pending) > PollLimit THEN PollLimit ELSE Len(pending)
<1>1. pending \in Seq(Captured) /\ Len(pending) \in Nat /\ PollLimit \in Nat
  BY HookFeederAssumption DEF FeederInv, TypeOK
<1>2. n \in 0 .. Len(pending)
  BY <1>1
<1>3. PollPage = SubSeq(pending, 1, n)
  BY DEF PollPage
<1> HIDE DEF n
<1>4. PollPage \in Seq(Captured) /\ Len(PollPage) = n
      /\ \A i \in 1 .. n : i \in 1 .. Len(pending) /\ PollPage[i] = pending[i]
  BY <1>1, <1>2, <1>3
<1> QED
  BY <1>1, <1>4 DEF RidsOf

\* What a poll or a tick brings keeps rows, outcomes and orphans apart, and
\* no row that has its outcome turns pending.
LEMMA ReceiveKeeps ==
    ASSUME PanelTypeOK, NEW entries \in Seq(Captured), NEW patches \in SUBSET Rid,
           Receive(entries, patches)
    PROVE  /\ settled' \subseteq shown' /\ shown' \subseteq Rid /\ orphans' \subseteq Rid \ shown'
           /\ settled \subseteq settled' /\ shown' \ shown \subseteq RidsOf(entries)
<1>1. RidsOf(entries) \subseteq Rid /\ Settled(entries) \subseteq RidsOf(entries)
  BY RidsAreRids
<1>2. settled \subseteq shown /\ shown \subseteq Rid /\ orphans \subseteq Rid \ shown
  BY DEF PanelTypeOK
<1> QED
  BY <1>1, <1>2 DEF Receive, Outcomes

\* The loop runs behind the panel: it moves neither a row nor an answer, and
\* what it clears it clears while the panel waits for it.
LEMMA ShellKeepsPanel ==
    ASSUME PanelInv, Shell, UNCHANGED panel
    PROVE  PanelTypeOK' /\ AnswersAreCurrent'
<1>1. [Next]_vars
  BY DEF Shell, Next
<1>2. TypeOK'
  BY <1>1, FeederStep DEF PanelInv, FeederInv
<1>3. PanelTypeOK'
  BY <1>2 DEF PanelInv, PanelTypeOK, panel
<1>4. CASE FeederClear
  <2>1. clear'.pc = "idle" /\ clearing
    BY <1>4 DEF FeederClear, PanelInv, AnswersAreCurrent
  <2>2. UNCHANGED <<poll, pollEpoch, clearing>>
    BY DEF panel
  <2> QED
    BY <1>3, <2>1, <2>2 DEF PanelInv, AnswersAreCurrent
<1>5. CASE ~FeederClear
  <2>1. PageSteps \/ InjectHooks => UNCHANGED <<clear, gone>>
    BY DEF PageSteps, Capture, SettleBySeq, Reload, SetupContext, InjectHooks,
                InstallHook, ResetAck, history
  <2>2. Rounds => UNCHANGED <<clear, gone>>
    <3>1. Moves \/ HookDrain => UNCHANGED <<clear, gone>>
      BY DEF Moves, TickStart, RoundStart, HookDrainFails, StalePage, StaleWriteBack,
                  Deliver, Emit, HookDrain, history
    <3>2. Persist \/ PersistFails \/ WriteBack => UNCHANGED <<clear, gone>>
      BY DEF Persist, PersistFails, WriteBack, history
    <3> QED
      BY <3>1, <3>2 DEF Rounds, Moves
  <2>3. UNCHANGED <<clear, gone>>
    BY <1>5, <2>1, <2>2 DEF Shell
  <2> QED
    BY <1>3, <2>3 DEF PanelInv, AnswersAreCurrent, panel
<1> QED
  BY <1>4, <1>5

LEMMA EventsKeepPanel ==
    ASSUME PanelInv, ReceiveEvents
    PROVE  PanelTypeOK' /\ AnswersAreCurrent' /\ settled \subseteq settled' /\ tick.pc = "emit"
<1>1. TypeOK'
  BY FeederStep DEF ReceiveEvents, Next, PanelInv, FeederInv
<1>2. tick.captures \in Seq(Captured) /\ tick.patches \in SUBSET Rid
  BY DEF PanelInv, PanelTypeOK, TypeOK, Tick
<1>3. /\ settled' \subseteq shown' /\ shown' \subseteq Rid /\ orphans' \subseteq Rid \ shown'
      /\ settled \subseteq settled'
  BY <1>2, ReceiveKeeps DEF ReceiveEvents, PanelInv
<1>4. UNCHANGED <<poll, pollEpoch, clearing, clear, gone>> /\ tick.pc = "emit"
  BY DEF ReceiveEvents, Emit, history
<1> QED
  BY <1>1, <1>3, <1>4 DEF PanelInv, PanelTypeOK, AnswersAreCurrent

LEMMA AskKeepsPanel ==
    ASSUME PanelInv, NEW p \in Runs, PollAsk(p)
    PROVE  PanelInv' /\ UNCHANGED <<shown, settled>>
<1>1. UNCHANGED vars /\ UNCHANGED <<shown, settled, orphans, pollEpoch, clearing>>
  BY DEF PollAsk
<1>2. FeederInv'
  BY <1>1, StutterKeeps DEF PanelInv
<1>3. PICK q : q = [NoPoll EXCEPT !.pc = "asked", !.epoch = pollEpoch]
  OBVIOUS
<1>4. poll' = [poll EXCEPT ![p] = q]
  BY <1>3 DEF PollAsk
<1>5. q \in Polls /\ q.pc = "asked" /\ q.epoch = pollEpoch
  <2>1. pollEpoch \in Nat
    BY DEF PanelInv, PanelTypeOK
  <2> QED
    BY <1>3, <2>1, NoPollIs DEF Polls
<1>6. PanelTypeOK'
  BY <1>1, <1>2, <1>4, <1>5 DEF PanelInv, PanelTypeOK, Polls, FeederInv
<1>7. AnswersAreCurrent'
  BY <1>1, <1>4, <1>5 DEF PanelInv, PanelTypeOK, AnswersAreCurrent, vars, history
<1> QED
  BY <1>1, <1>2, <1>6, <1>7 DEF PanelInv

LEMMA TakeKeepsPanel ==
    ASSUME PanelInv, NEW p \in Runs, PollTake(p)
    PROVE  PanelInv' /\ UNCHANGED <<shown, settled>>
<1>1. TakePending /\ UNCHANGED <<shown, settled, orphans, pollEpoch, clearing, clear, gone>>
  BY DEF PollTake, TakePending, history
<1>2. FeederInv'
  BY <1>1, TakeKeeps DEF PanelInv
<1>3. PICK q : q = [poll[p] EXCEPT !.pc = "answered", !.page = PollPage]
  OBVIOUS
<1>4. poll' = [poll EXCEPT ![p] = q]
  BY <1>3 DEF PollTake
<1>5. PollPage \in Seq(Captured) /\ RidsOf(PollPage) \cap gone = {}
  BY PollPageOf DEF PanelInv, FeederInv, NothingComesBack, ClearedStaysGone
<1>6. poll[p] \in Polls
  BY DEF PanelInv, PanelTypeOK, Polls
<1>7. q \in Polls /\ q.epoch = poll[p].epoch /\ q.page = PollPage
  BY <1>3, <1>5, <1>6 DEF Polls
<1>8. PanelTypeOK'
  BY <1>1, <1>2, <1>4, <1>7 DEF PanelInv, PanelTypeOK, Polls, FeederInv
<1>9. AnswersAreCurrent'
  BY <1>1, <1>4, <1>5, <1>7 DEF PanelInv, PanelTypeOK, AnswersAreCurrent
<1> QED
  BY <1>1, <1>2, <1>8, <1>9 DEF PanelInv

LEMMA EmptyKeepsPanel ==
    ASSUME PanelInv, NEW p \in Runs, PollEmpty(p)
    PROVE  PanelInv' /\ UNCHANGED <<shown, settled>>
<1>1. UNCHANGED vars /\ UNCHANGED <<shown, settled, orphans, pollEpoch, clearing>>
      /\ poll' = [poll EXCEPT ![p] = NoPoll]
  BY DEF PollEmpty
<1>2. FeederInv'
  BY <1>1, StutterKeeps DEF PanelInv
<1>3. NoPoll \in Polls /\ NoPoll.pc = "idle" /\ NoPoll.epoch = 0
  BY NoPollIs
<1>4. PanelTypeOK'
  BY <1>1, <1>2, <1>3 DEF PanelInv, PanelTypeOK, Polls, FeederInv
<1>5. AnswersAreCurrent'
  BY <1>1, <1>3 DEF PanelInv, PanelTypeOK, AnswersAreCurrent, vars, history
<1> QED
  BY <1>1, <1>2, <1>4, <1>5 DEF PanelInv

LEMMA LandKeepsPanel ==
    ASSUME PanelInv, NEW p \in Runs, PollLand(p)
    PROVE  /\ PanelInv' /\ settled \subseteq settled'
           /\ ~clearing => (shown' \ shown) \cap gone = {}
<1>1. UNCHANGED vars /\ UNCHANGED <<pollEpoch, clearing>>
  BY DEF PollLand
<1>2. FeederInv'
  BY <1>1, StutterKeeps DEF PanelInv
<1>3. poll[p] \in Polls /\ poll[p].page \in Seq(Captured)
  BY DEF PanelInv, PanelTypeOK, Polls
<1>4. PICK q : /\ q \in Polls /\ q.pc # "answered" /\ q.epoch <= pollEpoch
               /\ poll' = [poll EXCEPT ![p] = q]
  <2>1. NoPoll \in Polls /\ NoPoll.pc = "idle" /\ NoPoll.epoch = 0
    BY NoPollIs
  <2>2. PICK again : again = [poll[p] EXCEPT !.pc = "asked", !.epoch = pollEpoch, !.page = <<>>]
    OBVIOUS
  <2>3. again \in Polls /\ again.pc = "asked" /\ again.epoch = pollEpoch
    <3>1. pollEpoch \in Nat
      BY DEF PanelInv, PanelTypeOK
    <3> QED
      BY <1>3, <2>2, <3>1, NoPollIs DEF Polls
  <2>4. poll' = [poll EXCEPT ![p] = NoPoll] \/ poll' = [poll EXCEPT ![p] = again]
    BY <2>2 DEF PollLand
  <2>5. pollEpoch \in Nat
    BY DEF PanelInv, PanelTypeOK
  <2> QED
    BY <2>1, <2>3, <2>4, <2>5
<1>5. /\ settled' \subseteq shown' /\ shown' \subseteq Rid /\ orphans' \subseteq Rid \ shown'
      /\ settled \subseteq settled'
      /\ ~clearing => (shown' \ shown) \cap gone = {}
  <2>1. CASE poll[p].epoch = pollEpoch
    <3>1. Receive(poll[p].page, {})
      BY <2>1 DEF PollLand, Accept
    <3>2. /\ settled' \subseteq shown' /\ shown' \subseteq Rid /\ orphans' \subseteq Rid \ shown'
          /\ settled \subseteq settled' /\ shown' \ shown \subseteq RidsOf(poll[p].page)
      BY <1>3, <3>1, ReceiveKeeps DEF PanelInv
    <3>3. ~clearing => RidsOf(poll[p].page) \cap gone = {}
      BY <2>1 DEF PanelInv, AnswersAreCurrent, PollLand
    <3> QED
      BY <3>2, <3>3
  <2>2. CASE poll[p].epoch # pollEpoch
    BY <2>2 DEF PollLand, Accept, PanelInv, PanelTypeOK
  <2> QED
    BY <2>1, <2>2
<1>6. PanelTypeOK'
  BY <1>1, <1>2, <1>4, <1>5 DEF PanelInv, PanelTypeOK, Polls, FeederInv
<1>7. AnswersAreCurrent'
  BY <1>1, <1>4 DEF PanelInv, PanelTypeOK, AnswersAreCurrent, vars, history
<1> QED
  BY <1>2, <1>5, <1>6, <1>7 DEF PanelInv

LEMMA ClearAskKeepsPanel ==
    ASSUME PanelInv, ClearAsk
    PROVE  PanelInv' /\ UNCHANGED <<shown, settled>>
<1>1. UNCHANGED <<shown, settled, orphans, pollEpoch>> /\ clearing' = TRUE /\ HookClear
      /\ poll' = [p \in Runs |-> [poll[p] EXCEPT !.disowned = poll[p].pc # "idle"]]
  BY DEF ClearAsk
<1>2. FeederInv'
  BY <1>1, HookClearKeeps DEF PanelInv
<1>3. \A p \in Runs : poll'[p] \in Polls /\ poll'[p].epoch = poll[p].epoch
  <2> TAKE p \in Runs
  <2>1. PICK q \in Polls : q = poll[p]
    BY DEF PanelInv, PanelTypeOK, Polls
  <2>2. poll'[p] = [q EXCEPT !.disowned = q.pc # "idle"]
    BY <1>1, <2>1
  <2>3. (q.pc # "idle") \in BOOLEAN
    OBVIOUS
  <2> QED
    BY <2>1, <2>2, <2>3 DEF Polls
<1>4. poll' \in [Runs -> Polls]
  BY <1>1, <1>3
<1>5. PanelTypeOK'
  BY <1>1, <1>2, <1>4 DEF PanelInv, PanelTypeOK, Polls, FeederInv
<1>6. AnswersAreCurrent'
  BY <1>1, <1>3 DEF PanelInv, AnswersAreCurrent
<1> QED
  BY <1>1, <1>2, <1>5, <1>6 DEF PanelInv

LEMMA ClearDoneKeepsPanel ==
    ASSUME PanelInv, ClearDone
    PROVE  PanelInv' /\ shown' = {}
<1>1. /\ UNCHANGED vars /\ poll' = poll /\ pollEpoch' = pollEpoch + 1 /\ clearing' = FALSE
      /\ shown' = {} /\ settled' = {} /\ orphans' = {} /\ clear.pc = "idle"
  BY DEF ClearDone
<1>2. FeederInv'
  BY <1>1, StutterKeeps DEF PanelInv
<1>3. poll \in [Runs -> Polls] /\ pollEpoch \in Nat
  BY DEF PanelInv, PanelTypeOK, Polls
<1>4. PanelTypeOK'
  <2>1. poll' \in [Runs -> Polls] /\ pollEpoch' \in Nat /\ clearing' \in BOOLEAN /\ TypeOK'
    <3>1. poll' \in [Runs -> Polls] /\ clearing' \in BOOLEAN
      BY <1>1, <1>3
    <3>2. pollEpoch' \in Nat
      BY <1>1, <1>3
    <3>3. TypeOK'
      BY <1>2 DEF FeederInv
    <3> QED
      BY <3>1, <3>2, <3>3
  <2>2. settled' \subseteq shown' /\ shown' \subseteq Rid /\ orphans' \subseteq Rid \ shown'
    BY <1>1
  <2> QED
    BY <2>1, <2>2 DEF PanelTypeOK, Polls
<1>5. \A p \in Runs : poll'[p].epoch < pollEpoch' /\ poll'[p].epoch <= pollEpoch'
  <2> TAKE p \in Runs
  <2>1. poll[p].epoch <= pollEpoch /\ poll[p].epoch \in Nat
    BY <1>3 DEF PanelInv, AnswersAreCurrent, Polls
  <2> QED
    BY <1>1, <1>3, <2>1
<1>6. \A p \in Runs : poll'[p].epoch # pollEpoch'
  <2> TAKE p \in Runs
  <2>1. poll'[p].epoch \in Nat /\ pollEpoch' \in Nat
    BY <1>1, <1>3 DEF Polls
  <2> QED
    BY <1>5, <2>1
<1>7. AnswersAreCurrent'
  BY <1>1, <1>5, <1>6 DEF AnswersAreCurrent, vars
<1> QED
  BY <1>1, <1>2, <1>4, <1>7 DEF PanelInv

\* What no step of the panel does to a row.
RowsAreKept ==
    /\ \A r \in settled : r \in settled' \/ r \notin shown'
    /\ (shown' \ shown) \cap gone = {} \/ clearing \/ tick.pc = "emit"

LEMMA PanelStep ==
    ASSUME PanelInv, [PNext]_pvars
    PROVE  PanelInv' /\ RowsAreKept
<1>1. CASE Shell /\ UNCHANGED panel
  <2>1. [Next]_vars
    BY <1>1 DEF Shell, Next
  <2>2. FeederInv'
    BY <2>1, FeederStep DEF PanelInv
  <2>3. PanelTypeOK' /\ AnswersAreCurrent'
    BY <1>1, ShellKeepsPanel
  <2>4. RowsAreKept
    BY <1>1 DEF RowsAreKept, panel
  <2> QED
    BY <2>2, <2>3, <2>4 DEF PanelInv
<1>2. CASE ReceiveEvents
  <2>1. [Next]_vars
    BY <1>2 DEF ReceiveEvents, Next
  <2>2. FeederInv'
    BY <2>1, FeederStep DEF PanelInv
  <2>3. PanelTypeOK' /\ AnswersAreCurrent' /\ settled \subseteq settled' /\ tick.pc = "emit"
    BY <1>2, EventsKeepPanel
  <2> QED
    BY <2>2, <2>3 DEF PanelInv, RowsAreKept
<1>3. ASSUME NEW p \in Runs, PollAsk(p) \/ PollTake(p) \/ PollEmpty(p) \/ PollLand(p)
      PROVE  PanelInv' /\ RowsAreKept
  BY <1>3, AskKeepsPanel, TakeKeepsPanel, EmptyKeepsPanel, LandKeepsPanel DEF RowsAreKept
<1>4. CASE ClearAsk
  BY <1>4, ClearAskKeepsPanel DEF RowsAreKept
<1>5. CASE ClearDone
  BY <1>5, ClearDoneKeepsPanel DEF RowsAreKept
<1>6. CASE UNCHANGED pvars
  <2>1. UNCHANGED vars /\ UNCHANGED panel
    BY <1>6 DEF pvars
  <2>2. FeederInv'
    BY <2>1, StutterKeeps DEF PanelInv
  <2>3. PanelTypeOK'
    BY <2>1, <2>2 DEF PanelInv, PanelTypeOK, panel, FeederInv
  <2>4. AnswersAreCurrent'
    BY <2>1 DEF PanelInv, AnswersAreCurrent, panel, vars, history
  <2>5. RowsAreKept
    BY <2>1 DEF RowsAreKept, panel
  <2> QED
    BY <2>2, <2>3, <2>4, <2>5 DEF PanelInv
<1> QED
  BY <1>1, <1>2, <1>3, <1>4, <1>5, <1>6 DEF PNext

LEMMA PanelInit == PInit => PanelInv
<1> SUFFICES ASSUME PInit PROVE PanelInv
  OBVIOUS
<1>1. FeederInv
  BY FeederInit DEF PInit
<1>2. NoPoll \in Polls /\ NoPoll.pc = "idle" /\ NoPoll.epoch = 0
  BY NoPollIs
<1>3. PanelTypeOK
  BY <1>1, <1>2 DEF PInit, PanelTypeOK, Polls, FeederInv
<1>4. AnswersAreCurrent
  BY <1>2 DEF PInit, Init, AnswersAreCurrent
<1> QED
  BY <1>1, <1>3, <1>4 DEF PanelInv

\* Rows, outcomes and orphans of the panel keep apart, whatever polls, ticks
\* and clears do to it (upsert and patch of WxApiView.vue).
THEOREM PanelTypes == PSpec => []PanelTypeOK
<1>1. PanelInv /\ [PNext]_pvars => PanelInv'
  BY PanelStep
<1>2. PanelInv => PanelTypeOK
  BY DEF PanelInv
<1> QED
  BY <1>1, <1>2, PanelInit, PTL DEF PSpec

\* For any capacities, limits and budgets: a row that shows its outcome never
\* turns pending again, and no poll brings back what was cleared, whether it
\* was answered before the clear or after it (upsert, pollOnce and
\* performClear of WxApiView.vue).
THEOREM PanelKeepsItsRows == PSpec => PanelKeepsRows
<1>1. PanelInv /\ [PNext]_pvars => PanelInv'
  BY PanelStep
<1>2. PanelInv /\ [PNext]_pvars => RowsAreKept
  BY PanelStep
<1>3. RowsAreKept => [\A r \in settled : r \in settled' \/ r \notin shown']_pvars
  BY DEF RowsAreKept
<1>4. RowsAreKept => [(shown' \ shown) \cap gone = {} \/ clearing \/ tick.pc = "emit"]_pvars
  BY DEF RowsAreKept
<1>5. PSpec => SettledRowStays
  BY <1>1, <1>2, <1>3, PanelInit, PTL DEF PSpec, SettledRowStays
<1>6. PSpec => ClearedNotPolledBack
  BY <1>1, <1>2, <1>4, PanelInit, PTL DEF PSpec, ClearedNotPolledBack
<1> QED
  BY <1>5, <1>6 DEF PanelKeepsRows
=============================================================================
