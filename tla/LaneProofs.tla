----------------------------- MODULE LaneProofs -----------------------------
(* Proofs about the hub's two lanes.  Facts (FactIntake), for every set of   *)
(* senders, threads and facts, as long as a sender waits for its push before *)
(* it pushes again: without that assumption an overlapping push applies a    *)
(* fact twice.  Transcripts: what a runner was told of a record is true of   *)
(* the store, an attempt keeps its owner, and a chunk stays in its budget.   *)
EXTENDS FactIntake, Transcripts, FiniteSetTheorems, WellFoundedInduction, TLAPS

(* A batch the outbox pushes starts at or before the first open fact.       *)
LEMMA BatchType ==
    ASSUME NEW x \in Senders, settled[x] \in Seqs, NEW b \in Batches(x)
    PROVE  /\ b.lo \in Nat /\ b.lo >= 1 /\ b.lo <= settled[x] + 1
           /\ b.hi \in Seqs /\ b.lo <= b.hi
           /\ BatchSeqs(b) \in SUBSET Seqs
<1>1. b.lo \in 1..(settled[x] + 1) /\ b.hi \in 1..MaxSeq /\ b.lo <= b.hi
  BY DEF Batches
<1>2. QED BY <1>1, LaneAssumption DEF Seqs, BatchSeqs

(* The rows a push goes through keep their shape.                          *)
LEMMA CallWrite ==
    ASSUME NEW row \in CallRow, NEW facts \in SUBSET Seqs, NEW s \in Seqs
    PROVE  /\ [row EXCEPT !.facts = facts] \in CallRow
           /\ [row EXCEPT !.facts = facts, !.mark = s] \in CallRow
BY DEF CallRow

(* Empty lanes are typed.                                                   *)
LEMMA InitType == Init => TypeOK
BY LaneAssumption DEF Init, TypeOK, Seqs

(* Every step of a push, and a reset, keeps the lanes typed.                *)
LEMMA TypeStep == TypeOK /\ [Next]_vars => TypeOK'
<1> SUFFICES ASSUME TypeOK, [Next]_vars PROVE TypeOK' OBVIOUS
<1> USE LaneAssumption
<1>1. ASSUME NEW k \in Calls, NEW x \in Senders, NEW b \in Batches(x), BeginIngest(k, x, b)
      PROVE TypeOK'
  <2>1. settled[x] \in Seqs BY DEF TypeOK
  <2>2. b.hi \in Seqs /\ BatchSeqs(b) \in SUBSET Seqs BY <2>1, BatchType
  <2>3. MarkOf(x) \in Seqs BY DEF TypeOK, MarkOf, Seqs
  <2>4. [sender |-> x, facts |-> BatchSeqs(b), mark |-> MarkOf(x), top |-> b.hi] \in CallRow
    BY <2>2, <2>3 DEF CallRow
  <2>5. QED BY <1>1, <2>4 DEF BeginIngest, TypeOK
<1>2. ASSUME NEW k \in Calls, NEW s \in Seqs, ReackFact(k, s) \/ ApplyFact(k, s) \/ RejectFact(k, s)
      PROVE TypeOK'
  <2>1. call[k] \in CallRow BY <1>2 DEF ReackFact, ApplyFact, RejectFact, Taking, TypeOK
  <2>2. call[k].sender \in Senders /\ call[k].facts \ {s} \in SUBSET Seqs BY <2>1 DEF CallRow
  <2>3. /\ [call[k] EXCEPT !.facts = call[k].facts \ {s}] \in CallRow
        /\ [call[k] EXCEPT !.facts = call[k].facts \ {s}, !.mark = s] \in CallRow
    BY <2>1, <2>2, CallWrite
  <2>4. CASE ReackFact(k, s) BY <2>3, <2>4 DEF ReackFact, TypeOK
  <2>5. CASE RejectFact(k, s) BY <2>2, <2>3, <2>5 DEF RejectFact, TypeOK
  <2>6. CASE ApplyFact(k, s)
    <3>1. times' \in [Senders -> [Seqs -> Nat]] BY <2>2, <2>6 DEF ApplyFact, TypeOK
    <3>2. call' \in [Calls -> CallRow \cup {None}] BY <2>3, <2>6 DEF ApplyFact, TypeOK
    <3>3. QED BY <2>2, <2>6, <3>1, <3>2 DEF ApplyFact, TypeOK
  <2>7. QED BY <1>2, <2>4, <2>5, <2>6
<1>3. ASSUME NEW k \in Calls, NEW heard \in BOOLEAN, EndIngest(k, heard) PROVE TypeOK'
  <2>1. call[k] \in CallRow BY <1>3 DEF EndIngest, TypeOK
  <2>2. call[k].sender \in Senders /\ call[k].mark \in Seqs /\ call[k].top \in Seqs
    BY <2>1 DEF CallRow
  <2>3. QED BY <1>3, <2>2 DEF EndIngest, MarkLeft, TypeOK
<1>4. CASE Reset BY <1>4 DEF Reset, TypeOK, Seqs
<1>5. CASE UNCHANGED vars BY <1>5 DEF vars, TypeOK
<1>6. QED BY <1>1, <1>2, <1>3, <1>4, <1>5 DEF Next

(* TypeOK holds of every behaviour of the lanes, overlapping or not.       *)
THEOREM TypeCorrect == Spec => []TypeOK
BY InitType, TypeStep, PTL DEF Spec

-----------------------------------------------------------------------------
(* The inductive invariant.  What ties a call's own mark to the lane is    *)
(* that it is the newest fact in effect, also between two facts of a batch *)
(* whose mark is not written back yet.                                     *)

InCall(k) == call[k] # None
Decided(x, s) == times[x][s] = 1 \/ s \in refused[x]

OnePush == \A j, k \in Calls :
    (InCall(j) /\ InCall(k) /\ call[j].sender = call[k].sender) => j = k

MarksNewest ==
    /\ \A k \in Calls : InCall(k) => call[k].mark = newest[call[k].sender]
    /\ \A x \in Senders : MarkOf(x) <= newest[x] /\ (InFlight(x) = {} => MarkOf(x) = newest[x])

Once == \A x \in Senders, s \in Seqs : times[x][s] <= 1 /\ (s > newest[x] => times[x][s] = 0)

SenderNoGap(x) ==
    \A s \in 1..MaxSeq : (s <= newest[x] \/ s <= settled[x]) => Decided(x, s)

CallNoGap(k) ==
    /\ \A s \in call[k].facts : s <= call[k].top
    /\ \A s \in 1..MaxSeq :
         (s <= call[k].top /\ s \notin call[k].facts) => Decided(call[k].sender, s)

NoGap == /\ \A x \in Senders : SenderNoGap(x)
         /\ \A k \in Calls : InCall(k) => CallNoGap(k)

FactInv == OnePush /\ MarksNewest /\ Once /\ NoGap

(* The lane invariant holds of empty lanes.                                 *)
LEMMA FactStarts == Init => FactInv
<1> SUFFICES ASSUME Init PROVE FactInv OBVIOUS
<1> USE LaneAssumption
<1>1. OnePush BY DEF Init, OnePush, InCall
<1>2. MarksNewest BY DEF Init, MarksNewest, InCall, MarkOf
<1>3. Once BY DEF Init, Once, Seqs
<1>4. NoGap BY DEF Init, NoGap, SenderNoGap, InCall
<1>5. QED BY <1>1, <1>2, <1>3, <1>4 DEF FactInv

(* A new push starts from the newest fact in effect: no other push of its   *)
(* sender is open.                                                          *)
LEMMA FactBegins ==
    ASSUME TypeOK, FactInv, ~Overlap, NEW k \in Calls, NEW x \in Senders, NEW b \in Batches(x),
           BeginIngest(k, x, b)
    PROVE  FactInv'
<1> USE LaneAssumption
<1> DEFINE row == [sender |-> x, facts |-> BatchSeqs(b), mark |-> MarkOf(x), top |-> b.hi]
<1>1. settled[x] \in Seqs /\ newest[x] \in Seqs BY DEF TypeOK
<1>2. b.lo \in Nat /\ b.lo >= 1 /\ b.lo <= settled[x] + 1 /\ b.hi \in Seqs /\ b.lo <= b.hi
  BY <1>1, BatchType
<1>3. InFlight(x) = {} /\ call[k] = None BY DEF BeginIngest
<1>4. call'[k] = row /\ \A j \in Calls : j # k => call'[j] = call[j]
  BY DEF BeginIngest, TypeOK
<1>5. UNCHANGED <<high_water, settled, newest, times, refused>> BY DEF BeginIngest
<1>6. \A j \in Calls : InCall(j) => call[j].sender # x BY <1>3 DEF InFlight, InCall
<1>7. OnePush' BY <1>4, <1>6 DEF OnePush, FactInv, InCall
<1>8. MarksNewest'
  <2>1. MarkOf(x) = newest[x] BY <1>3 DEF FactInv, MarksNewest
  <2>2. \A j \in Calls : InCall(j)' => call'[j].mark = newest'[call'[j].sender]
    BY <1>4, <1>5, <2>1 DEF FactInv, MarksNewest, InCall
  <2>3. ASSUME NEW y \in Senders
        PROVE  MarkOf(y)' <= newest'[y] /\ (InFlight(y)' = {} => MarkOf(y)' = newest'[y])
    <3>1. MarkOf(y)' = MarkOf(y) /\ newest'[y] = newest[y] BY <1>5 DEF MarkOf
    <3>2. MarkOf(y) <= newest[y] BY DEF FactInv, MarksNewest
    <3>3. InFlight(y)' = {} => InFlight(y) = {}
      BY <1>3, <1>4 DEF InFlight
    <3>4. QED BY <3>1, <3>2, <3>3 DEF FactInv, MarksNewest
  <2>4. QED BY <2>2, <2>3 DEF MarksNewest
<1>9. Once' BY <1>5 DEF FactInv, Once
<1>10. NoGap'
  <2>1. ASSUME NEW s \in 1..MaxSeq, s <= b.hi, s \notin BatchSeqs(b) PROVE Decided(x, s)
    <3>1. s < b.lo BY <1>2, <2>1 DEF BatchSeqs, Seqs
    <3>2. s <= settled[x] BY <1>1, <1>2, <3>1 DEF Seqs
    <3>3. QED BY <3>2 DEF FactInv, NoGap, SenderNoGap
  <2>2. \A s \in BatchSeqs(b) : s <= b.hi BY <1>2 DEF BatchSeqs, Seqs
  <2>3. CallNoGap(k)' BY <1>4, <1>5, <2>1, <2>2 DEF CallNoGap, Decided
  <2>4. ASSUME NEW j \in Calls, j # k, InCall(j)' PROVE CallNoGap(j)'
    BY <1>4, <1>5, <2>4 DEF FactInv, NoGap, CallNoGap, Decided, InCall
  <2>5. \A y \in Senders : SenderNoGap(y)' BY <1>5 DEF FactInv, NoGap, SenderNoGap, Decided
  <2>6. QED BY <2>3, <2>4, <2>5 DEF NoGap
<1>11. QED BY <1>7, <1>8, <1>9, <1>10 DEF FactInv

(* Taking one fact of a push: re-acked, applied or rejected.               *)
LEMMA TakeStep ==
    ASSUME TypeOK, FactInv, NEW k \in Calls, NEW s \in Seqs, NEW x, x = call[k].sender,
           ReackFact(k, s) \/ ApplyFact(k, s) \/ RejectFact(k, s)
    PROVE  FactInv'
<1> USE LaneAssumption
<1> DEFINE left == call[k].facts \ {s}
<1>1. InCall(k) /\ call[k] \in CallRow /\ FirstOf(call[k].facts, s)
  BY DEF ReackFact, ApplyFact, RejectFact, Taking, TypeOK, InCall
<1>2. x \in Senders /\ call[k].top \in Seqs /\ call[k].facts \subseteq Seqs /\ left \in SUBSET Seqs
  BY <1>1 DEF CallRow
<1>3. /\ InCall(k)' /\ call'[k].sender = x /\ call'[k].top = call[k].top /\ call'[k].facts = left
      /\ \A j \in Calls : j # k => call'[j] = call[j]
  <2>1. CASE ReackFact(k, s) \/ RejectFact(k, s)
    <3>1. call' = [call EXCEPT ![k].facts = left] BY <2>1 DEF ReackFact, RejectFact
    <3>2. call'[k] = [call[k] EXCEPT !.facts = left] BY <3>1 DEF TypeOK
    <3> HIDE DEF left
    <3>3. call'[k] \in CallRow
      <4>1. [call[k] EXCEPT !.facts = left] \in CallRow BY <1>1, <1>2, CallWrite
      <4>2. QED BY <3>2, <4>1
    <3>4. InCall(k)' BY <3>3, CallAssumption DEF InCall
    <3>5. QED BY <1>1, <3>1, <3>2, <3>4 DEF TypeOK, CallRow
  <2>2. CASE ApplyFact(k, s)
    <3>1. call' = [call EXCEPT ![k].facts = left, ![k].mark = s] BY <2>2 DEF ApplyFact
    <3>2. call'[k] = [call[k] EXCEPT !.facts = left, !.mark = s] BY <3>1 DEF TypeOK
    <3> HIDE DEF left
    <3>3. call'[k] \in CallRow
      <4>1. [call[k] EXCEPT !.facts = left, !.mark = s] \in CallRow BY <1>1, <1>2, CallWrite
      <4>2. QED BY <3>2, <4>1
    <3>4. InCall(k)' BY <3>3, CallAssumption DEF InCall
    <3>5. QED BY <1>1, <3>1, <3>2, <3>4 DEF TypeOK, CallRow
  <2>3. QED BY <2>1, <2>2
<1>4. high_water' = high_water /\ settled' = settled
  BY DEF ReackFact, ApplyFact, RejectFact
<1>5. OnePush' BY <1>1, <1>3 DEF OnePush, FactInv, InCall
<1>6. \A j \in Calls : j # k /\ InCall(j) => call[j].sender # x
  BY <1>1 DEF OnePush, FactInv
<1>7. call[k].mark = newest[x] /\ newest[x] \in Seqs BY <1>1, <1>2 DEF FactInv, MarksNewest, TypeOK
<1>8. \A y \in Senders : InFlight(y)' = InFlight(y) BY <1>1, <1>3 DEF InFlight, InCall
<1>9. CASE ReackFact(k, s)
  <2>1. UNCHANGED <<newest, times, refused>> /\ call'[k].mark = call[k].mark
    BY <1>1, <1>9 DEF ReackFact, TypeOK, CallRow
  <2>2. MarksNewest'
    <3>1. \A j \in Calls : InCall(j)' => call'[j].mark = newest'[call'[j].sender]
      BY <1>3, <1>7, <2>1 DEF FactInv, MarksNewest, InCall
    <3>2. \A y \in Senders : MarkOf(y)' = MarkOf(y) /\ newest'[y] = newest[y]
      BY <1>4, <2>1 DEF MarkOf
    <3>3. QED BY <1>8, <3>1, <3>2 DEF FactInv, MarksNewest
  <2>3. Once' BY <2>1 DEF FactInv, Once
  <2>4. NoGap'
    <3>1. s \in 1..MaxSeq => Decided(x, s)
      BY <1>2, <1>7, <1>9 DEF ReackFact, Fresh, Seqs, FactInv, NoGap, SenderNoGap
    <3>2. CallNoGap(k) BY <1>1 DEF FactInv, NoGap
    <3>3. CallNoGap(k)' BY <1>3, <2>1, <3>1, <3>2 DEF CallNoGap, Decided
    <3>4. ASSUME NEW j \in Calls, j # k, InCall(j)' PROVE CallNoGap(j)'
      BY <1>3, <2>1, <3>4 DEF FactInv, NoGap, CallNoGap, Decided, InCall
    <3>5. \A y \in Senders : SenderNoGap(y)'
      BY <1>4, <2>1 DEF FactInv, NoGap, SenderNoGap, Decided
    <3>6. QED BY <3>3, <3>4, <3>5 DEF NoGap
  <2>5. QED BY <1>5, <2>2, <2>3, <2>4 DEF FactInv
<1>10. CASE RejectFact(k, s)
  <2>1. UNCHANGED <<newest, times>> /\ call'[k].mark = call[k].mark
    BY <1>1, <1>10 DEF RejectFact, TypeOK, CallRow
  <2>2. refused'[x] = refused[x] \cup {s} /\ \A y \in Senders : refused[y] \subseteq refused'[y]
    BY <1>2, <1>10 DEF RejectFact, TypeOK
  <2>3. MarksNewest'
    <3>1. \A j \in Calls : InCall(j)' => call'[j].mark = newest'[call'[j].sender]
      BY <1>3, <1>7, <2>1 DEF FactInv, MarksNewest, InCall
    <3>2. \A y \in Senders : MarkOf(y)' = MarkOf(y) /\ newest'[y] = newest[y]
      BY <1>4, <2>1 DEF MarkOf
    <3>3. QED BY <1>8, <3>1, <3>2 DEF FactInv, MarksNewest
  <2>4. Once' BY <2>1 DEF FactInv, Once
  <2>5. NoGap'
    <3>1. CallNoGap(k) BY <1>1 DEF FactInv, NoGap
    <3>2. CallNoGap(k)' BY <1>2, <1>3, <2>1, <2>2, <3>1 DEF CallNoGap, Decided
    <3>3. ASSUME NEW j \in Calls, j # k, InCall(j)' PROVE CallNoGap(j)'
      <4>1. call'[j] = call[j] /\ call[j].sender \in Senders /\ CallNoGap(j)
        BY <1>3, <3>3 DEF FactInv, NoGap, InCall, TypeOK, CallRow
      <4>2. QED BY <2>1, <2>2, <4>1 DEF CallNoGap, Decided
    <3>4. \A y \in Senders : SenderNoGap(y)'
      BY <1>4, <2>1, <2>2 DEF FactInv, NoGap, SenderNoGap, Decided
    <3>5. QED BY <3>2, <3>3, <3>4 DEF NoGap
  <2>6. QED BY <1>5, <2>3, <2>4, <2>5 DEF FactInv
<1>11. CASE ApplyFact(k, s)
  <2>1. s > newest[x] BY <1>7, <1>11 DEF ApplyFact, Fresh
  <2>2. newest'[x] = s /\ \A y \in Senders : y # x => newest'[y] = newest[y]
    BY <1>2, <1>11 DEF ApplyFact, TypeOK
  <2>3. /\ times'[x] = [times[x] EXCEPT ![s] = @ + 1]
        /\ \A y \in Senders : y # x => times'[y] = times[y]
    BY <1>2, <1>11 DEF ApplyFact, TypeOK
  <2>4. /\ refused'[x] = refused[x] \ {s}
        /\ \A y \in Senders : y # x => refused'[y] = refused[y]
    BY <1>2, <1>11 DEF ApplyFact, TypeOK
  <2>5. call'[k].mark = s BY <1>1, <1>11 DEF ApplyFact, TypeOK, CallRow
  <2>6. times[x] \in [Seqs -> Nat] /\ times[x][s] = 0
    BY <1>2, <2>1 DEF TypeOK, FactInv, Once
  <2>7. \A t \in Seqs : t # s => times'[x][t] = times[x][t] BY <2>3, <2>6
  <2>8. times'[x][s] = 1 BY <2>3, <2>6
  <2>9. MarksNewest'
    <3>1. ASSUME NEW j \in Calls, InCall(j)' PROVE call'[j].mark = newest'[call'[j].sender]
      <4>1. CASE j = k BY <1>3, <2>2, <2>5, <4>1
      <4>2. CASE j # k
        <5>1. call'[j] = call[j] /\ InCall(j) BY <1>3, <3>1, <4>2 DEF InCall
        <5>2. call[j].sender \in Senders /\ call[j].sender # x
          BY <1>6, <4>2, <5>1 DEF TypeOK, CallRow, InCall
        <5>3. QED BY <2>2, <5>1, <5>2 DEF FactInv, MarksNewest
      <4>3. QED BY <4>1, <4>2
    <3>2. ASSUME NEW y \in Senders
          PROVE  (MarkOf(y) <= newest[y] /\ (InFlight(y) = {} => MarkOf(y) = newest[y]))'
      <4>1. MarkOf(y)' = MarkOf(y) BY <1>4 DEF MarkOf
      <4>2. MarkOf(y) \in Seqs /\ MarkOf(y) <= newest[y] /\ newest[y] \in Seqs
        BY DEF FactInv, MarksNewest, TypeOK, MarkOf, Seqs
      <4>3. CASE y = x
        <5>1. k \in InFlight(x) BY <1>1 DEF InFlight, InCall
        <5>2. QED BY <1>8, <2>1, <2>2, <4>1, <4>2, <4>3, <5>1 DEF Seqs
      <4>4. CASE y # x BY <1>8, <2>2, <4>1, <4>2, <4>4 DEF FactInv, MarksNewest
      <4>5. QED BY <4>3, <4>4
    <3>3. QED BY <3>1, <3>2 DEF MarksNewest
  <2>10. Once'
    <3>1. ASSUME NEW y \in Senders, NEW t \in Seqs
          PROVE  times'[y][t] <= 1 /\ (t > newest'[y] => times'[y][t] = 0)
      <4>1. CASE y # x BY <2>2, <2>3, <4>1 DEF FactInv, Once
      <4>2. CASE y = x /\ t = s BY <2>2, <2>8, <4>2 DEF Seqs
      <4>3. CASE y = x /\ t # s BY <1>7, <2>1, <2>2, <2>7, <4>3 DEF FactInv, Once, Seqs
      <4>4. QED BY <4>1, <4>2, <4>3
    <3>2. QED BY <3>1 DEF Once
  <2>11. NoGap'
    <3>1. CallNoGap(k) BY <1>1 DEF FactInv, NoGap
    <3>2. ASSUME NEW y \in Senders, NEW t \in 1..MaxSeq, Decided(y, t) PROVE Decided(y, t)'
      <4>1. CASE y # x BY <2>3, <2>4, <3>2, <4>1 DEF Decided
      <4>2. CASE y = x /\ t = s BY <2>8, <4>2 DEF Decided
      <4>3. CASE y = x /\ t # s BY <2>4, <2>7, <3>2, <4>3 DEF Decided, Seqs
      <4>4. QED BY <4>1, <4>2, <4>3
    <3>3. Decided(x, s)' BY <1>2, <2>8 DEF Decided
    <3>4. CallNoGap(k)'
      <4>1. \A t \in left : t <= call[k].top BY <3>1 DEF CallNoGap
      <4>2. ASSUME NEW t \in 1..MaxSeq, t <= call[k].top, t \notin left PROVE Decided(x, t)'
        <5>1. CASE t = s BY <3>3, <5>1
        <5>2. CASE t # s BY <1>2, <3>1, <3>2, <4>2, <5>2 DEF CallNoGap
        <5>3. QED BY <5>1, <5>2
      <4>3. QED BY <1>3, <4>1, <4>2 DEF CallNoGap, Decided
    <3>5. ASSUME NEW j \in Calls, j # k, InCall(j)' PROVE CallNoGap(j)'
      <4>1. call'[j] = call[j] /\ call[j].sender \in Senders /\ CallNoGap(j)
        BY <1>3, <3>5 DEF FactInv, NoGap, InCall, TypeOK, CallRow
      <4>2. \A t \in 1..MaxSeq : Decided(call[j].sender, t)
              => times'[call[j].sender][t] = 1 \/ t \in refused'[call[j].sender]
        BY <3>2, <4>1 DEF Decided
      <4>3. QED BY <4>1, <4>2 DEF CallNoGap, Decided
    <3>6. ASSUME NEW y \in Senders PROVE SenderNoGap(y)'
      <4> SUFFICES ASSUME NEW t \in 1..MaxSeq, t <= newest'[y] \/ t <= settled'[y]
          PROVE Decided(y, t)'
        BY DEF SenderNoGap
      <4>1. CASE t <= newest[y] \/ t <= settled[y]
        BY <3>2, <4>1 DEF FactInv, NoGap, SenderNoGap
      <4>2. CASE ~(t <= newest[y] \/ t <= settled[y])
        <5>1. y = x /\ t <= s BY <1>4, <2>2, <4>2
        <5>2. s <= call[k].top BY <1>1, <3>1 DEF CallNoGap, FirstOf
        <5>3. CASE t = s BY <3>3, <5>1, <5>3
        <5>4. CASE t # s
          <6>1. t < s BY <5>1, <5>4 DEF Seqs
          <6>2. t \notin call[k].facts BY <1>1, <6>1 DEF FirstOf, Seqs
          <6>3. t <= call[k].top BY <1>2, <5>2, <6>1 DEF Seqs
          <6>4. QED BY <1>2, <3>1, <3>2, <5>1, <6>2, <6>3 DEF CallNoGap
        <5>5. QED BY <5>3, <5>4
      <4>3. QED BY <4>1, <4>2
    <3>7. QED BY <3>4, <3>5, <3>6 DEF NoGap
  <2>12. QED BY <1>5, <2>9, <2>10, <2>11 DEF FactInv
<1>12. QED BY <1>9, <1>10, <1>11

(* Writing the mark back ties the lane to the newest fact again.            *)
LEMMA FactEnds ==
    ASSUME TypeOK, FactInv, NEW k \in Calls, NEW x, x = call[k].sender, NEW heard \in BOOLEAN,
           EndIngest(k, heard)
    PROVE  FactInv'
<1> USE LaneAssumption
<1>1. InCall(k) /\ call[k] \in CallRow /\ call[k].facts = {} BY DEF EndIngest, TypeOK, InCall
<1>2. x \in Senders /\ call[k].top \in Seqs /\ call[k].mark \in Seqs /\ settled[x] \in Seqs
  BY <1>1 DEF CallRow, TypeOK
<1>3. ~InCall(k)' /\ \A j \in Calls : j # k => call'[j] = call[j]
  BY DEF EndIngest, TypeOK, InCall
<1>4. UNCHANGED <<newest, times, refused>> BY DEF EndIngest
<1>5. high_water'[x] = call[k].mark /\ \A y \in Senders : y # x => high_water'[y] = high_water[y]
  BY <1>2 DEF EndIngest, TypeOK, MarkLeft
<1>6. /\ settled'[x] = settled[x] \/ settled'[x] = call[k].top
      /\ \A y \in Senders : y # x => settled'[y] = settled[y]
  BY <1>2 DEF EndIngest, TypeOK
<1>7. OnePush' BY <1>3 DEF FactInv, OnePush, InCall
<1>8. MarksNewest'
  <2>1. \A j \in Calls : InCall(j)' => call'[j].mark = newest'[call'[j].sender]
    BY <1>3, <1>4 DEF FactInv, MarksNewest, InCall
  <2>2. MarkOf(x)' = newest[x]
    <3>1. call[k].mark = newest[x] BY <1>1 DEF FactInv, MarksNewest
    <3>2. call[k].mark # None BY <1>2 DEF Seqs
    <3>3. QED BY <1>5, <3>1, <3>2 DEF MarkOf
  <2>3. ASSUME NEW y \in Senders
        PROVE  (MarkOf(y) <= newest[y] /\ (InFlight(y) = {} => MarkOf(y) = newest[y]))'
    <3>1. CASE y = x
      <4>1. newest[x] \in Nat BY <1>2 DEF TypeOK, Seqs
      <4>2. QED BY <1>4, <2>2, <3>1, <4>1
    <3>2. CASE y # x
      <4>1. MarkOf(y)' = MarkOf(y) /\ newest'[y] = newest[y] BY <1>4, <1>5, <3>2 DEF MarkOf
      <4>2. InFlight(y)' = InFlight(y) BY <1>1, <1>3, <3>2 DEF InFlight, InCall
      <4>3. QED BY <4>1, <4>2 DEF FactInv, MarksNewest
    <3>3. QED BY <3>1, <3>2
  <2>4. QED BY <2>1, <2>3 DEF MarksNewest
<1>9. Once' BY <1>4 DEF FactInv, Once
<1>10. NoGap'
  <2>1. CallNoGap(k) BY <1>1 DEF FactInv, NoGap
  <2>2. \A t \in 1..MaxSeq : t <= call[k].top => Decided(x, t) BY <1>1, <2>1 DEF CallNoGap
  <2>3. ASSUME NEW j \in Calls, InCall(j)' PROVE CallNoGap(j)'
    BY <1>3, <1>4, <2>3 DEF FactInv, NoGap, CallNoGap, Decided, InCall
  <2>4. ASSUME NEW y \in Senders PROVE SenderNoGap(y)'
    <3>1. SenderNoGap(y) BY DEF FactInv, NoGap
    <3>2. CASE y = x BY <1>4, <1>6, <2>2, <3>1, <3>2 DEF SenderNoGap, Decided
    <3>3. CASE y # x BY <1>4, <1>6, <3>1, <3>3 DEF SenderNoGap, Decided
    <3>4. QED BY <3>2, <3>3
  <2>5. QED BY <2>3, <2>4 DEF NoGap
<1>11. QED BY <1>7, <1>8, <1>9, <1>10 DEF FactInv

(* A reset between pushes empties the lanes, marks and histories alike.     *)
LEMMA ResetStep == ASSUME ~Overlap, Reset PROVE FactInv'
<1> USE LaneAssumption
<1>1. \A k \in Calls : ~InCall(k)' BY DEF Reset, InCall
<1>2. OnePush' BY <1>1 DEF OnePush
<1>3. MarksNewest' BY <1>1 DEF Reset, MarksNewest, MarkOf
<1>4. Once' BY DEF Reset, Once, Seqs
<1>5. NoGap' BY <1>1 DEF Reset, NoGap, SenderNoGap
<1>6. QED BY <1>2, <1>3, <1>4, <1>5 DEF FactInv

(* The invariant is inductive when pushes of one sender do not overlap.    *)
LEMMA FactStep == ASSUME ~Overlap PROVE TypeOK /\ FactInv /\ [Next]_vars => FactInv'
<1> SUFFICES ASSUME TypeOK, FactInv, [Next]_vars PROVE FactInv' OBVIOUS
<1>1. ASSUME NEW k \in Calls, NEW x \in Senders, NEW b \in Batches(x), BeginIngest(k, x, b)
      PROVE FactInv'
  BY <1>1, FactBegins
<1>2. ASSUME NEW k \in Calls, NEW s \in Seqs, ReackFact(k, s) \/ ApplyFact(k, s) \/ RejectFact(k, s)
      PROVE FactInv'
  BY <1>2, TakeStep
<1>3. ASSUME NEW k \in Calls, NEW heard \in BOOLEAN, EndIngest(k, heard) PROVE FactInv'
  BY <1>3, FactEnds
<1>4. CASE Reset BY <1>4, ResetStep
<1>5. CASE UNCHANGED vars
  <2>1. OnePush' BY <1>5 DEF vars, FactInv, OnePush, InCall
  <2>2. MarksNewest' BY <1>5 DEF vars, FactInv, MarksNewest, InCall, MarkOf, InFlight
  <2>3. Once' BY <1>5 DEF vars, FactInv, Once
  <2>4. NoGap' BY <1>5 DEF vars, FactInv, NoGap, SenderNoGap, CallNoGap, InCall, Decided
  <2>5. QED BY <2>1, <2>2, <2>3, <2>4 DEF FactInv
<1>6. QED BY <1>1, <1>2, <1>3, <1>4, <1>5 DEF Next

(* The lane invariant holds of every behaviour without overlapping pushes.  *)
LEMMA FactInvariant == ASSUME ~Overlap PROVE Spec => [](TypeOK /\ FactInv)
<1>1. Init => TypeOK /\ FactInv BY InitType, FactStarts
<1>2. TypeOK /\ FactInv /\ [Next]_vars => (TypeOK /\ FactInv)' BY TypeStep, FactStep
<1>3. QED BY <1>1, <1>2, PTL DEF Spec

(* ingest_facts and ingest_host_facts: a fact takes effect at most once.   *)
THEOREM FactAppliedOnce == ASSUME ~Overlap PROVE Spec => []AppliedOnce
<1>1. FactInv => AppliedOnce BY DEF FactInv, Once, AppliedOnce
<1>2. QED BY <1>1, FactInvariant, PTL

(* No fact at or under the mark, or one the sender was answered for, is    *)
(* lost: it took effect or was rejected when tried.                        *)
THEOREM NoFactSkipped == ASSUME ~Overlap PROVE Spec => []NoneSkipped
<1>1. TypeOK /\ FactInv => NoneSkipped
  <2> SUFFICES ASSUME TypeOK, FactInv, NEW x \in Senders, NEW s \in 1..MaxSeq,
                      s <= MarkOf(x) \/ s <= settled[x]
      PROVE Decided(x, s)
    BY DEF NoneSkipped, Decided
  <2>1. MarkOf(x) <= newest[x] /\ MarkOf(x) \in Nat /\ newest[x] \in Nat
    BY LaneAssumption DEF TypeOK, FactInv, MarksNewest, MarkOf, Seqs
  <2>2. s <= newest[x] \/ s <= settled[x] BY <2>1
  <2>3. QED BY <2>2 DEF FactInv, NoGap, SenderNoGap
<1>2. QED BY <1>1, FactInvariant, PTL

(* The lanes implement the fact log: facts of one sender take effect in    *)
(* order of seq.                                                           *)
THEOREM IntakeImplementsLog == ASSUME ~Overlap PROVE Spec => InOrder
<1>1. Init => Log!Init BY DEF Init, Log!Init
<1>2. TypeOK /\ FactInv /\ [Next]_vars => [Log!Next]_newest
  <2> SUFFICES ASSUME TypeOK, FactInv, [Next]_vars PROVE [Log!Next]_newest OBVIOUS
  <2>1. ASSUME NEW k \in Calls, NEW s \in Seqs, ApplyFact(k, s) PROVE Log!Next
    <3>1. InCall(k) /\ call[k] \in CallRow BY <2>1 DEF ApplyFact, Taking, TypeOK, InCall
    <3>2. call[k].sender \in Senders BY <3>1 DEF CallRow
    <3>3. call[k].mark = newest[call[k].sender] BY <3>1 DEF FactInv, MarksNewest
    <3>4. newest[call[k].sender] \in Nat BY <3>2, LaneAssumption DEF TypeOK, Seqs
    <3>5. s > newest[call[k].sender] BY <2>1, <3>3 DEF ApplyFact, Fresh
    <3>6. s \in 1..MaxSeq BY <3>4, <3>5, LaneAssumption DEF Seqs
    <3>7. Log!Apply(call[k].sender, s) BY <2>1, <3>5 DEF ApplyFact, Log!Apply
    <3>8. QED BY <3>2, <3>6, <3>7 DEF Log!Next
  <2>2. ASSUME NEW k \in Calls, NEW s \in Seqs, ReackFact(k, s) \/ RejectFact(k, s)
        PROVE UNCHANGED newest
    BY <2>2 DEF ReackFact, RejectFact
  <2>3. ASSUME \/ UNCHANGED vars
               \/ \E k \in Calls :
                    \/ \E x \in Senders : \E b \in Batches(x) : BeginIngest(k, x, b)
                    \/ \E heard \in BOOLEAN : EndIngest(k, heard)
        PROVE UNCHANGED newest
    BY <2>3 DEF BeginIngest, EndIngest, vars
  <2>4. ASSUME Reset PROVE Log!Next
    BY <2>4 DEF Reset, Log!Next, Log!Reset
  <2> QED
    BY <2>1, <2>2, <2>3, <2>4 DEF Next
<1>3. QED BY <1>1, <1>2, FactInvariant, PTL DEF Spec, InOrder, Log!Spec

-----------------------------------------------------------------------------
(* The transcript lane                                                       *)

Owners == [lease : Leases, runner : Runners, rec : Shipped]
PushRow == [left : SUBSET Nat, mark : Nat, top : Nat, open : BOOLEAN]

LaneTypes ==
    /\ lane_mark \in [Runners -> Nat] /\ answered \in [Runners -> Nat]
    /\ epoch_owner \in [Attempts -> Runners \cup {Nobody}]
    /\ key_state \in [Keys -> {"accepted", "rejected", Nothing}]
    /\ key_owner \in [Keys -> Owners \cup {Nothing}]
    /\ chunk_bytes \in [Chunks -> Nat]
    /\ segments \in [Leases -> SUBSET Shipped]
    /\ push \in [Runners -> PushRow]
    /\ DOMAIN told = Runners
    /\ \A r \in Runners : told[r] \in [DOMAIN Outbox[r] -> Verdicts \cup {Nothing}]

(* The mark passes no record that was not answered: a push leaves none out   *)
(* between its mark and the records left, and starts where the runner was    *)
(* answered, which is not past the mark.                                     *)
Unbroken(r) ==
    \A n \in push[r].left, m \in DOMAIN Outbox[r] : push[r].mark < m /\ m < n => m \in push[r].left
Marked(r) ==
    /\ answered[r] <= lane_mark[r]
    /\ push[r].open =>
          /\ push[r].left \subseteq DOMAIN Outbox[r] /\ Unbroken(r)
          /\ push[r].top \in push[r].left \/ push[r].top <= push[r].mark
          /\ lane_mark[r] <= push[r].mark
    /\ \A n \in DOMAIN Outbox[r] :
          n <= lane_mark[r] \/ (push[r].open /\ n <= push[r].mark) => told[r][n] # Nothing
MarksTold == \A r \in Runners : Marked(r)

(* What was refused is refused for good: the attempt has another owner.      *)
RefusedForGood ==
    \A r \in Runners : \A n \in DOMAIN Outbox[r] :
        told[r][n] = "refused" => ~Admitted(r, n)

(* A key says what became of its record.                                     *)
KeysFiled ==
    \A k \in Keys :
        /\ key_state[k] = "rejected" => key_owner[k].rec.key = k
        /\ key_state[k] = "accepted" => \E rec \in segments[key_owner[k].lease] : rec.key = k

(* What is kept was accepted under its key, for the lease it is kept in.     *)
KeptIsAccepted ==
    \A l \in Leases : \A rec \in segments[l] :
        key_state[rec.key] = "accepted" /\ key_owner[rec.key].rec = rec /\ key_owner[rec.key].lease = l

LaneInv == LaneTypes /\ MarksTold /\ RefusedForGood /\ ToldIsStored /\ KeysFiled /\ KeptIsAccepted

------------------------------------------------------------------------------
(* What the outbox's records are called.                                     *)
LEMMA RecordAt ==
    ASSUME NEW r \in Runners, NEW n \in DOMAIN Outbox[r]
    PROVE  LET rec == Outbox[r][n]
           IN  /\ rec \in Shipped /\ rec.key \in Keys /\ rec.lease \in Leases
               /\ rec.lease.chunk \in Chunks /\ Attempt(rec.lease) \in Attempts
               /\ rec.size \in Nat /\ n \in Nat /\ n >= 1
<1>1. Outbox[r][n] \in Shipped BY DEF Shipped
<1>2. Outbox[r][n].key \in Keys /\ Outbox[r][n].lease \in Leases BY <1>1 DEF Keys, Leases
<1>3. Outbox[r][n].lease.chunk \in Chunks /\ Attempt(Outbox[r][n].lease) \in Attempts
  BY <1>2 DEF Chunks, Attempts
<1>4. Outbox[r][n].size \in Nat /\ n \in Nat /\ n >= 1 BY OutboxAssumption
<1>5. QED BY <1>1, <1>2, <1>3, <1>4

(* A record answered: the mark passes it, and only it is told anew.          *)
LEMMA AnswerMarks ==
    ASSUME LaneTypes, MarksTold, NEW r \in Runners, NEW n \in DOMAIN Outbox[r], Serving(r, n),
           NEW what \in Verdicts, Answer(r, n, what), UNCHANGED <<lane_mark, answered>>
    PROVE  /\ push' \in [Runners -> PushRow] /\ DOMAIN told' = Runners
           /\ \A q \in Runners : told'[q] \in [DOMAIN Outbox[q] -> Verdicts \cup {Nothing}]
           /\ \A q \in Runners : \A m \in DOMAIN Outbox[q] :
                 told'[q][m] = IF q = r /\ m = n THEN what ELSE told[q][m]
           /\ MarksTold'
<1> USE DEF LaneTypes
<1>1. n \in Nat /\ n >= 1 /\ \A m \in DOMAIN Outbox[r] : m \in Nat BY RecordAt
<1>2. push[r] \in PushRow /\ push[r].open BY DEF Serving
<1>3. MarkPast(push[r], n) \in Nat /\ MarkPast(push[r], n) >= push[r].mark /\ MarkPast(push[r], n) >= n
      /\ MarkPast(push[r], n) \in {n, push[r].mark}
  BY <1>1, <1>2 DEF MarkPast, PushRow
<1>4. push'[r] = [push[r] EXCEPT !.left = @ \ {n}, !.mark = MarkPast(push[r], n)]
      /\ \A q \in Runners \ {r} : push'[q] = push[q]
  BY DEF Answer
<1>5. /\ push'[r].left = push[r].left \ {n} /\ push'[r].mark = MarkPast(push[r], n)
      /\ push'[r].top = push[r].top /\ push'[r].open = push[r].open /\ push'[r] \in PushRow
  BY <1>2, <1>3, <1>4 DEF PushRow
<1>6. push' \in [Runners -> PushRow]
  <2>1. DOMAIN push' = Runners /\ push' = [q \in DOMAIN push' |-> push'[q]] BY DEF Answer
  <2>2. \A q \in Runners : push'[q] \in PushRow BY <1>4, <1>5
  <2>3. QED BY <2>1, <2>2
<1>7. /\ DOMAIN told' = Runners /\ told'[r] = [told[r] EXCEPT ![n] = what]
      /\ \A q \in Runners \ {r} : told'[q] = told[q]
  BY DEF Answer
<1>8. \A q \in Runners : told'[q] \in [DOMAIN Outbox[q] -> Verdicts \cup {Nothing}]
  <2> SUFFICES ASSUME NEW q \in Runners
               PROVE  told'[q] \in [DOMAIN Outbox[q] -> Verdicts \cup {Nothing}]
      OBVIOUS
  <2>1. CASE q = r BY <1>7, <2>1
  <2>2. CASE q # r BY <1>7, <2>2
  <2>3. QED BY <2>1, <2>2
<1>9. \A q \in Runners : \A m \in DOMAIN Outbox[q] :
          told'[q][m] = IF q = r /\ m = n THEN what ELSE told[q][m]
  BY <1>7
<1>10. what # Nothing BY OutboxAssumption
<1>11. Marked(r)'
  <2> DEFINE mark == push[r].mark
             past == MarkPast(push[r], n)
  <2>1. /\ answered[r] <= lane_mark[r] /\ push[r].left \subseteq DOMAIN Outbox[r] /\ Unbroken(r)
        /\ push[r].top \in push[r].left \/ push[r].top <= mark
        /\ lane_mark[r] <= mark
        /\ \A m \in DOMAIN Outbox[r] : m <= lane_mark[r] \/ m <= mark => told[r][m] # Nothing
    BY <1>2 DEF MarksTold, Marked
  <2>2. mark \in Nat /\ past \in Nat /\ lane_mark[r] \in Nat /\ push[r].top \in Nat BY <1>2, <1>3 DEF PushRow
  <2>3. Unbroken(r)'
    <3> SUFFICES ASSUME NEW k \in push[r].left \ {n}, NEW m \in DOMAIN Outbox[r], past < m, m < k
                 PROVE  m \in push[r].left \ {n}
        BY <1>5 DEF Unbroken
    <3>1. mark < m /\ m # n BY <1>1, <1>3, <2>2
    <3>2. QED BY <2>1, <3>1 DEF Unbroken
  <2>4. push'[r].top \in push'[r].left \/ push'[r].top <= push'[r].mark
    <3>1. CASE push[r].top = n BY <1>3, <1>5, <3>1
    <3>2. CASE push[r].top # n /\ push[r].top \in push[r].left BY <1>5, <3>2
    <3>3. CASE push[r].top <= mark BY <1>3, <1>5, <2>2, <3>3
    <3>4. QED BY <2>1, <3>1, <3>2, <3>3
  <2>5. lane_mark[r] <= past BY <1>3, <2>1, <2>2
  <2>6. ASSUME NEW m \in DOMAIN Outbox[r], m <= lane_mark[r] \/ m <= past PROVE told'[r][m] # Nothing
    <3>1. CASE m = n BY <1>9, <1>10, <3>1
    <3>2. CASE m # n
      <4>1. m <= mark
        <5>1. m <= past BY <1>1, <2>2, <2>5, <2>6
        <5>2. CASE past = mark BY <5>1, <5>2
        <5>3. CASE past = n /\ mark < m
          <6>1. m < n BY <1>1, <3>2, <5>1, <5>3
          <6>2. m \in push[r].left BY <2>1, <5>3, <6>1 DEF Unbroken, Serving
          <6>3. n <= m BY <6>2 DEF Serving
          <6>4. QED BY <1>1, <6>1, <6>3
        <5>4. QED BY <1>1, <1>3, <2>2, <5>2, <5>3
      <4>2. QED BY <1>9, <2>1, <3>2, <4>1
    <3>3. QED BY <3>1, <3>2
  <2>7. QED BY <1>5, <2>1, <2>3, <2>4, <2>5, <2>6 DEF Marked
<1>12. \A q \in Runners \ {r} : Marked(q)'
  BY <1>4, <1>7 DEF MarksTold, Marked, Unbroken
<1>13. MarksTold' BY <1>11, <1>12 DEF MarksTold
<1>14. QED BY <1>6, <1>7, <1>8, <1>9, <1>13

(* A record answered truly, where no key takes back what it says.            *)
LEMMA AnswerTells ==
    ASSUME RefusedForGood, ToldIsStored, NEW r \in Runners, NEW n \in DOMAIN Outbox[r], NEW what \in Verdicts,
           \A q \in Runners : \A m \in DOMAIN Outbox[q] :
               told'[q][m] = IF q = r /\ m = n THEN what ELSE told[q][m],
           UNCHANGED epoch_owner, what = "refused" => ~Admitted(r, n),
           \A k \in Keys : /\ key_state[k] = "accepted" => key_state'[k] = "accepted"
                           /\ key_state[k] = "rejected" => key_state'[k] \in {"rejected", "accepted"},
           what \in {"applied", "already_applied"} => key_state'[Outbox[r][n].key] = "accepted",
           what = "capped" => key_state'[Outbox[r][n].key] \in {"rejected", "accepted"}
    PROVE  RefusedForGood' /\ ToldIsStored'
<1>1. RefusedForGood'
  <2> SUFFICES ASSUME NEW q \in Runners, NEW m \in DOMAIN Outbox[q], told'[q][m] = "refused"
               PROVE  ~Admitted(q, m)'
      BY DEF RefusedForGood
  <2>1. Admitted(q, m)' <=> Admitted(q, m) BY DEF Admitted
  <2>2. QED BY <2>1 DEF RefusedForGood
<1>2. ToldIsStored'
  <2> SUFFICES ASSUME NEW q \in Runners, NEW m \in DOMAIN Outbox[q]
               PROVE  LET k == Outbox[q][m].key IN
                      /\ told'[q][m] \in {"applied", "already_applied"} => key_state'[k] = "accepted"
                      /\ told'[q][m] = "capped" => key_state'[k] \in {"rejected", "accepted"}
      BY DEF ToldIsStored
  <2>1. Outbox[q][m].key \in Keys BY RecordAt
  <2>2. CASE q = r /\ m = n BY <2>2
  <2>3. CASE ~(q = r /\ m = n)
    <3>1. told'[q][m] = told[q][m] BY <2>3
    <3>2. QED BY <2>1, <3>1 DEF ToldIsStored
  <2>4. QED BY <2>2, <2>3
<1>3. QED BY <1>1, <1>2

(* A record refused, replayed or known before: nothing is filed.             *)
LEMMA QuietRecord ==
    ASSUME LaneInv, NEW r \in Runners, NEW n \in DOMAIN Outbox[r],
           RefuseRecord(r, n) \/ ReplayRecord(r, n) \/ KnownRecord(r, n)
    PROVE  LaneInv'
<1>1. PICK what \in Verdicts :
          /\ Answer(r, n, what)
          /\ what = "refused" => ~Admitted(r, n)
          /\ what \in {"applied", "already_applied"} => key_state[Outbox[r][n].key] = "accepted"
          /\ what = "capped" => key_state[Outbox[r][n].key] \in {"rejected", "accepted"}
  <2>1. CASE RefuseRecord(r, n) BY <2>1 DEF RefuseRecord, Verdicts
  <2>2. CASE KnownRecord(r, n) BY <2>2 DEF KnownRecord, Known, Verdicts
  <2>3. CASE ReplayRecord(r, n)
    <3>1. told[r][n] # Nothing /\ told[r][n] # "refused"
      BY <2>3 DEF ReplayRecord, Serving, LaneInv, MarksTold, Marked, RefusedForGood
    <3>2. told[r][n] \in Verdicts BY <3>1 DEF LaneInv, LaneTypes
    <3>3. key_state[Outbox[r][n].key] \in {"rejected", "accepted"}
      BY <3>1, <3>2 DEF LaneInv, ToldIsStored, Verdicts
    <3>4. QED BY <2>3, <3>3 DEF ReplayRecord, Verdicts
  <2>4. QED BY <2>1, <2>2, <2>3
<1>2. Serving(r, n) /\ UNCHANGED <<lane_mark, epoch_owner, key_state, key_owner, chunk_bytes, segments, answered>>
  BY DEF RefuseRecord, ReplayRecord, KnownRecord, Deciding, Kept
<1>3. /\ push' \in [Runners -> PushRow] /\ DOMAIN told' = Runners
      /\ \A q \in Runners : told'[q] \in [DOMAIN Outbox[q] -> Verdicts \cup {Nothing}]
      /\ \A q \in Runners : \A m \in DOMAIN Outbox[q] :
            told'[q][m] = IF q = r /\ m = n THEN what ELSE told[q][m]
      /\ MarksTold'
  BY <1>1, <1>2, AnswerMarks DEF LaneInv
<1>4. RefusedForGood' /\ ToldIsStored' BY <1>1, <1>2, <1>3, AnswerTells DEF LaneInv
<1>5. LaneTypes' BY <1>2, <1>3 DEF LaneInv, LaneTypes
<1>6. KeysFiled' /\ KeptIsAccepted' BY <1>2 DEF LaneInv, KeysFiled, KeptIsAccepted
<1>7. QED BY <1>3, <1>4, <1>5, <1>6 DEF LaneInv

(* A capped record is filed as rejected, under its new owner.               *)
LEMMA CapStep ==
    ASSUME LaneInv, NEW r \in Runners, NEW n \in DOMAIN Outbox[r], CapRecord(r, n)
    PROVE  LaneInv'
<1> DEFINE rec == Outbox[r][n]
<1>1. /\ Deciding(r, n) /\ ~Known(rec.key) /\ Answer(r, n, "capped")
      /\ key_owner' = [key_owner EXCEPT ![rec.key] = OwnedBy(r, rec)]
      /\ key_state' = [key_state EXCEPT ![rec.key] = "rejected"]
      /\ UNCHANGED <<lane_mark, epoch_owner, chunk_bytes, segments, answered>>
  BY DEF CapRecord
<1>2. rec \in Shipped /\ rec.key \in Keys /\ rec.lease \in Leases BY RecordAt
<1>3. OwnedBy(r, rec) \in Owners /\ OwnedBy(r, rec).rec = rec BY <1>2 DEF OwnedBy, Owners
<1> HIDE DEF rec
<1>4. /\ key_state' \in [Keys -> {"accepted", "rejected", Nothing}]
      /\ key_owner' \in [Keys -> Owners \cup {Nothing}]
      /\ key_state'[rec.key] = "rejected" /\ key_owner'[rec.key] = OwnedBy(r, rec)
      /\ \A k \in Keys \ {rec.key} : key_state'[k] = key_state[k] /\ key_owner'[k] = key_owner[k]
  BY <1>1, <1>2, <1>3 DEF LaneInv, LaneTypes
<1>5. Serving(r, n) /\ "capped" \in Verdicts BY <1>1 DEF Deciding, Verdicts
<1>6. /\ push' \in [Runners -> PushRow] /\ DOMAIN told' = Runners
      /\ \A q \in Runners : told'[q] \in [DOMAIN Outbox[q] -> Verdicts \cup {Nothing}]
      /\ \A q \in Runners : \A m \in DOMAIN Outbox[q] :
            told'[q][m] = IF q = r /\ m = n THEN "capped" ELSE told[q][m]
      /\ MarksTold'
  BY <1>1, <1>5, AnswerMarks DEF LaneInv
<1>7. RefusedForGood' /\ ToldIsStored'
  <2>1. \A k \in Keys : /\ key_state[k] = "accepted" => key_state'[k] = "accepted"
                        /\ key_state[k] = "rejected" => key_state'[k] \in {"rejected", "accepted"}
    BY <1>1, <1>4 DEF Known
  <2>2. key_state'[Outbox[r][n].key] \in {"rejected", "accepted"} BY <1>4 DEF rec
  <2>3. QED BY <1>1, <1>5, <1>6, <2>1, <2>2, AnswerTells DEF LaneInv
<1>8. LaneTypes' BY <1>1, <1>4, <1>6 DEF LaneInv, LaneTypes
<1>9. KeysFiled'
  <2> SUFFICES ASSUME NEW k \in Keys
               PROVE  /\ key_state'[k] = "rejected" => key_owner'[k].rec.key = k
                      /\ key_state'[k] = "accepted" => \E x \in segments'[key_owner'[k].lease] : x.key = k
      BY DEF KeysFiled
  <2>1. CASE k = rec.key BY <1>3, <1>4, <2>1
  <2>2. CASE k # rec.key BY <1>1, <1>4, <2>2 DEF LaneInv, KeysFiled
  <2>3. QED BY <2>1, <2>2
<1>10. KeptIsAccepted'
  <2> SUFFICES ASSUME NEW l \in Leases, NEW x \in segments[l]
               PROVE  key_state'[x.key] = "accepted" /\ key_owner'[x.key].rec = x /\ key_owner'[x.key].lease = l
      BY <1>1 DEF KeptIsAccepted
  <2>1. x \in Shipped BY DEF LaneInv, LaneTypes
  <2>2. x.key \in Keys BY <2>1 DEF Keys
  <2>3. key_state[x.key] = "accepted" /\ key_owner[x.key].rec = x /\ key_owner[x.key].lease = l
    BY DEF LaneInv, KeptIsAccepted
  <2>4. x.key # rec.key BY <1>1, <2>3 DEF Known
  <2>5. QED BY <1>4, <2>2, <2>3, <2>4
<1>11. QED BY <1>6, <1>7, <1>8, <1>9, <1>10 DEF LaneInv

(* An accepted record is kept under its key, in place of no other.          *)
LEMMA AcceptStep ==
    ASSUME LaneInv, NEW r \in Runners, NEW n \in DOMAIN Outbox[r], AcceptRecord(r, n)
    PROVE  LaneInv'
<1> DEFINE rec == Outbox[r][n]
<1>1. /\ Deciding(r, n) /\ ~Known(rec.key) /\ Answer(r, n, "applied")
      /\ key_owner' = [key_owner EXCEPT ![rec.key] = OwnedBy(r, rec)]
      /\ key_state' = [key_state EXCEPT ![rec.key] = "accepted"]
      /\ chunk_bytes' = [chunk_bytes EXCEPT ![rec.lease.chunk] = @ + rec.size]
      /\ segments' = [segments EXCEPT ![rec.lease] = {old \in @ : old.key # rec.key} \cup {rec}]
      /\ UNCHANGED <<lane_mark, epoch_owner, answered>>
  BY DEF AcceptRecord
<1>2. /\ rec \in Shipped /\ rec.key \in Keys /\ rec.lease \in Leases /\ rec.size \in Nat
      /\ rec.lease.chunk \in Chunks
  BY RecordAt
<1>3. OwnedBy(r, rec) \in Owners /\ OwnedBy(r, rec).rec = rec /\ OwnedBy(r, rec).lease = rec.lease
  BY <1>2 DEF OwnedBy, Owners
<1> HIDE DEF rec
<1>4. /\ key_state' \in [Keys -> {"accepted", "rejected", Nothing}]
      /\ key_owner' \in [Keys -> Owners \cup {Nothing}]
      /\ key_state'[rec.key] = "accepted" /\ key_owner'[rec.key] = OwnedBy(r, rec)
      /\ \A k \in Keys \ {rec.key} : key_state'[k] = key_state[k] /\ key_owner'[k] = key_owner[k]
  BY <1>1, <1>2, <1>3 DEF LaneInv, LaneTypes
<1>5. Serving(r, n) /\ "applied" \in Verdicts BY <1>1 DEF Deciding, Verdicts
<1>6. /\ push' \in [Runners -> PushRow] /\ DOMAIN told' = Runners
      /\ \A q \in Runners : told'[q] \in [DOMAIN Outbox[q] -> Verdicts \cup {Nothing}]
      /\ \A q \in Runners : \A m \in DOMAIN Outbox[q] :
            told'[q][m] = IF q = r /\ m = n THEN "applied" ELSE told[q][m]
      /\ MarksTold'
  BY <1>1, <1>5, AnswerMarks DEF LaneInv
<1>7. RefusedForGood' /\ ToldIsStored'
  <2>1. \A k \in Keys : /\ key_state[k] = "accepted" => key_state'[k] = "accepted"
                        /\ key_state[k] = "rejected" => key_state'[k] \in {"rejected", "accepted"}
    BY <1>1, <1>4 DEF Known
  <2>2. key_state'[Outbox[r][n].key] = "accepted" BY <1>4 DEF rec
  <2>3. QED BY <1>1, <1>5, <1>6, <2>1, <2>2, AnswerTells DEF LaneInv
<1>8. /\ segments' \in [Leases -> SUBSET Shipped]
      /\ segments'[rec.lease] = {old \in segments[rec.lease] : old.key # rec.key} \cup {rec}
      /\ \A l \in Leases \ {rec.lease} : segments'[l] = segments[l]
  BY <1>1, <1>2 DEF LaneInv, LaneTypes
<1>9. chunk_bytes' \in [Chunks -> Nat] BY <1>1, <1>2 DEF LaneInv, LaneTypes
<1>10. LaneTypes' BY <1>1, <1>4, <1>6, <1>8, <1>9 DEF LaneInv, LaneTypes
<1>11. KeysFiled'
  <2> SUFFICES ASSUME NEW k \in Keys
               PROVE  /\ key_state'[k] = "rejected" => key_owner'[k].rec.key = k
                      /\ key_state'[k] = "accepted" => \E x \in segments'[key_owner'[k].lease] : x.key = k
      BY DEF KeysFiled
  <2>1. CASE k = rec.key
    <3>1. rec \in segments'[key_owner'[k].lease] BY <1>3, <1>4, <1>8, <2>1
    <3>2. key_state'[k] = "accepted" BY <1>4, <2>1
    <3>3. QED BY <2>1, <3>1, <3>2
  <2>2. CASE k # rec.key
    <3>1. key_state'[k] = key_state[k] /\ key_owner'[k] = key_owner[k] BY <1>4, <2>2
    <3>2. key_state[k] = "rejected" => key_owner[k].rec.key = k BY DEF LaneInv, KeysFiled
    <3>3. ASSUME key_state[k] = "accepted" PROVE \E x \in segments'[key_owner[k].lease] : x.key = k
      <4>1. PICK x \in segments[key_owner[k].lease] : x.key = k BY <3>3 DEF LaneInv, KeysFiled
      <4>2. CASE key_owner[k].lease = rec.lease BY <1>8, <2>2, <4>1, <4>2
      <4>3. CASE key_owner[k].lease # rec.lease
        <5>1. segments'[key_owner[k].lease] = segments[key_owner[k].lease]
          BY <1>1, <4>3 DEF LaneInv, LaneTypes
        <5>2. QED BY <4>1, <5>1
      <4>4. QED BY <4>2, <4>3
    <3>4. QED BY <3>1, <3>2, <3>3
  <2>3. QED BY <2>1, <2>2
<1>12. KeptIsAccepted'
  <2> SUFFICES ASSUME NEW l \in Leases, NEW x \in segments'[l]
               PROVE  key_state'[x.key] = "accepted" /\ key_owner'[x.key].rec = x /\ key_owner'[x.key].lease = l
      BY DEF KeptIsAccepted
  <2>1. CASE x = rec /\ l = rec.lease BY <1>3, <1>4, <2>1
  <2>2. CASE x \in segments[l]
    <3>1. x \in Shipped BY <2>2 DEF LaneInv, LaneTypes
    <3>2. x.key \in Keys BY <3>1 DEF Keys
    <3>3. key_state[x.key] = "accepted" /\ key_owner[x.key].rec = x /\ key_owner[x.key].lease = l
      BY <2>2 DEF LaneInv, KeptIsAccepted
    <3>4. x.key # rec.key BY <1>1, <3>3 DEF Known
    <3>5. QED BY <1>4, <3>2, <3>3, <3>4
  <2>3. QED BY <1>8, <2>1, <2>2
<1>13. QED BY <1>6, <1>7, <1>10, <1>11, <1>12 DEF LaneInv

(* The steps that file nothing and answer nothing.                           *)
LEMMA MintStep == ASSUME LaneInv, NEW r \in Runners, NEW a \in Attempts, MintLease(r, a) PROVE LaneInv'
<1>1. UNCHANGED <<lane_mark, key_state, key_owner, chunk_bytes, segments, push, answered, told>>
  BY DEF MintLease
<1>2. /\ epoch_owner' \in [Attempts -> Runners \cup {Nobody}]
      /\ \A b \in Attempts : epoch_owner[b] # Nobody => epoch_owner'[b] = epoch_owner[b]
  BY DEF MintLease, FirstMinter, LaneInv, LaneTypes
<1>3. LaneTypes' BY <1>1, <1>2 DEF LaneInv, LaneTypes
<1>4. MarksTold' /\ ToldIsStored' /\ KeysFiled' /\ KeptIsAccepted'
  BY <1>1 DEF LaneInv, MarksTold, Marked, Unbroken, ToldIsStored, KeysFiled, KeptIsAccepted
<1>5. RefusedForGood'
  <2> SUFFICES ASSUME NEW q \in Runners, NEW m \in DOMAIN Outbox[q], told[q][m] = "refused"
               PROVE  ~Admitted(q, m)'
      BY <1>1 DEF RefusedForGood
  <2>1. ~Admitted(q, m) BY DEF LaneInv, RefusedForGood
  <2>2. Attempt(Outbox[q][m].lease) \in Attempts BY RecordAt
  <2>3. QED BY <1>2, <2>1, <2>2 DEF Admitted, ships_from_lease_holder
<1>6. QED BY <1>3, <1>4, <1>5 DEF LaneInv

(* A push starts at or before the first record not answered.                *)
LEMMA BeginStep ==
    ASSUME LaneInv, NEW r \in Runners, NEW lo \in DOMAIN Outbox[r], NEW hi \in DOMAIN Outbox[r],
           BeginPush(r, lo, hi)
    PROVE  LaneInv'
<1> DEFINE row == [left |-> lo .. hi, mark |-> lane_mark[r], top |-> hi, open |-> TRUE]
<1>1. /\ ~push[r].open /\ lo <= answered[r] + 1 /\ lo <= hi /\ push' = [push EXCEPT ![r] = row]
      /\ UNCHANGED <<lane_mark, epoch_owner, key_state, key_owner, chunk_bytes, segments, answered, told>>
  BY DEF BeginPush
<1>2. /\ lo \in Nat /\ hi \in Nat /\ lo >= 1 /\ lane_mark[r] \in Nat /\ answered[r] \in Nat
      /\ DOMAIN Outbox[r] = 1 .. Len(Outbox[r]) /\ Len(Outbox[r]) \in Nat
  BY RecordAt, OutboxAssumption DEF LaneInv, LaneTypes
<1>3. row \in PushRow BY <1>2 DEF PushRow
<1>4. push' \in [Runners -> PushRow] /\ push'[r] = row /\ \A q \in Runners \ {r} : push'[q] = push[q]
  BY <1>1, <1>3 DEF LaneInv, LaneTypes
<1>5. LaneTypes' BY <1>1, <1>4 DEF LaneInv, LaneTypes
<1>6. RefusedForGood' /\ ToldIsStored' /\ KeysFiled' /\ KeptIsAccepted'
  BY <1>1 DEF LaneInv, RefusedForGood, Admitted, ToldIsStored, KeysFiled, KeptIsAccepted
<1>7. Marked(r)'
  <2>1. Marked(r) BY DEF LaneInv, MarksTold
  <2>2. row.left \subseteq DOMAIN Outbox[r] BY <1>2
  <2>3. \A n \in row.left, m \in DOMAIN Outbox[r] : row.mark < m /\ m < n => m \in row.left
    <3> SUFFICES ASSUME NEW n \in lo .. hi, NEW m \in DOMAIN Outbox[r], lane_mark[r] < m, m < n
                 PROVE  m \in lo .. hi
        OBVIOUS
    <3>1. answered[r] <= lane_mark[r] BY <2>1 DEF Marked
    <3>2. m \in Nat /\ n \in Nat BY <1>2
    <3>3. QED BY <1>1, <1>2, <3>1, <3>2
  <2>4. row.top \in row.left /\ row.mark = lane_mark[r] /\ lane_mark[r] <= lane_mark[r] BY <1>1, <1>2
  <2> HIDE DEF row
  <2>5. QED BY <1>1, <1>4, <2>1, <2>2, <2>3, <2>4 DEF Marked, Unbroken
<1>8. \A q \in Runners \ {r} : Marked(q)'
  BY <1>1, <1>4 DEF LaneInv, MarksTold, Marked, Unbroken
<1>9. QED BY <1>5, <1>6, <1>7, <1>8 DEF LaneInv, MarksTold

(* The mark written back is past every record answered.                     *)
LEMMA EndStep == ASSUME LaneInv, NEW r \in Runners, NEW heard \in BOOLEAN, EndPush(r, heard) PROVE LaneInv'
<1>1. /\ push[r].open /\ push[r].left = {}
      /\ lane_mark' = [lane_mark EXCEPT ![r] = push[r].mark] /\ push' = [push EXCEPT ![r] = Idle]
      /\ answered' = [answered EXCEPT ![r] = IF heard /\ push[r].top > @ THEN push[r].top ELSE @]
      /\ UNCHANGED <<epoch_owner, key_state, key_owner, chunk_bytes, segments, told>>
  BY DEF EndPush, Kept
<1>2. /\ push[r].mark \in Nat /\ push[r].top \in Nat /\ Idle \in PushRow /\ ~Idle.open
      /\ lane_mark[r] \in Nat /\ answered[r] \in Nat
  BY DEF LaneInv, LaneTypes, PushRow, Idle
<1>3. /\ lane_mark' \in [Runners -> Nat] /\ push' \in [Runners -> PushRow]
      /\ answered' \in [Runners -> Nat]
      /\ lane_mark'[r] = push[r].mark /\ ~push'[r].open
      /\ answered'[r] \in {answered[r], push[r].top}
      /\ \A q \in Runners \ {r} :
            lane_mark'[q] = lane_mark[q] /\ push'[q] = push[q] /\ answered'[q] = answered[q]
  BY <1>1, <1>2 DEF LaneInv, LaneTypes
<1>4. LaneTypes' BY <1>1, <1>3 DEF LaneInv, LaneTypes
<1>5. RefusedForGood' /\ ToldIsStored' /\ KeysFiled' /\ KeptIsAccepted'
  BY <1>1 DEF LaneInv, RefusedForGood, Admitted, ToldIsStored, KeysFiled, KeptIsAccepted
<1>6. Marked(r)'
  <2>1. Marked(r) BY DEF LaneInv, MarksTold
  <2>2. push[r].top <= push[r].mark /\ answered[r] <= lane_mark[r] /\ lane_mark[r] <= push[r].mark
    BY <1>1, <2>1 DEF Marked
  <2>3. answered'[r] <= lane_mark'[r] BY <1>2, <1>3, <2>2
  <2>4. QED BY <1>1, <1>3, <2>1, <2>3 DEF Marked
<1>7. \A q \in Runners \ {r} : Marked(q)'
  BY <1>1, <1>3 DEF LaneInv, MarksTold, Marked, Unbroken
<1>8. QED BY <1>4, <1>5, <1>6, <1>7 DEF LaneInv, MarksTold

(* The lane as it is before a push, at first and after a reset.              *)
Cleared ==
    /\ push \in [Runners -> PushRow] /\ \A r \in Runners : ~push[r].open
    /\ lane_mark = [r \in Runners |-> 0] /\ epoch_owner = [a \in Attempts |-> Nobody]
    /\ key_state = [k \in Keys |-> Nothing] /\ key_owner = [k \in Keys |-> Nothing]
    /\ chunk_bytes = [c \in Chunks |-> 0] /\ segments = [l \in Leases |-> {}]
    /\ answered = [r \in Runners |-> 0] /\ told = [r \in Runners |-> Empty(r)]

(* A lane that was cleared satisfies the invariant.                         *)
LEMMA ClearedLane == Cleared => LaneInv
<1> SUFFICES ASSUME Cleared PROVE LaneInv OBVIOUS
<1> USE DEF Cleared
<1>1. \A r \in Runners : told[r] = [n \in DOMAIN Outbox[r] |-> Nothing] BY DEF Empty
<1>2. LaneTypes BY <1>1 DEF LaneTypes
<1>3. Nothing \notin Verdicts /\ Nothing \notin {"accepted", "rejected"} BY OutboxAssumption
<1>4. \A r \in Runners : \A n \in DOMAIN Outbox[r] : told[r][n] = Nothing /\ n \in Nat /\ n >= 1
  BY <1>1, RecordAt
<1>5. RefusedForGood /\ ToldIsStored BY <1>3, <1>4 DEF RefusedForGood, ToldIsStored, Verdicts
<1>6. KeysFiled /\ KeptIsAccepted BY <1>3 DEF KeysFiled, KeptIsAccepted
<1>7. MarksTold BY <1>4 DEF MarksTold, Marked
<1>8. QED BY <1>2, <1>5, <1>6, <1>7 DEF LaneInv

(* So does a new one.                                                       *)
LEMMA LaneInvInit == LaneInit => LaneInv
<1>1. LaneInit => Cleared BY DEF LaneInit, Cleared, Idle, PushRow
<1>2. QED BY <1>1, ClearedLane

(* Every step of the lane keeps the invariant.                              *)
LEMMA LaneInvNext == LaneInv /\ [LaneNext]_laneVars => LaneInv'
<1> SUFFICES ASSUME LaneInv, [LaneNext]_laneVars PROVE LaneInv' OBVIOUS
<1>1. ASSUME NEW r \in Runners, NEW n \in DOMAIN Outbox[r],
             \/ RefuseRecord(r, n) \/ ReplayRecord(r, n) \/ KnownRecord(r, n)
             \/ CapRecord(r, n) \/ AcceptRecord(r, n)
      PROVE  LaneInv'
  BY <1>1, QuietRecord, CapStep, AcceptStep
<1>2. CASE ResetLane
  <2>1. Cleared' BY <1>2 DEF ResetLane, Cleared, Empty, LaneInv, LaneTypes
  <2>2. (Cleared => LaneInv)' BY ClearedLane, PTL
  <2>3. QED BY <2>1, <2>2
<1>3. CASE UNCHANGED laneVars
  BY <1>3 DEF laneVars, LaneInv, LaneTypes, MarksTold, Marked, Unbroken, RefusedForGood, Admitted,
              ToldIsStored, KeysFiled, KeptIsAccepted
<1>4. QED BY <1>1, <1>2, <1>3, MintStep, BeginStep, EndStep DEF LaneNext

------------------------------------------------------------------------------
(* The lane invariant holds throughout.                                     *)
LEMMA LaneInvHolds == LaneSpec => []LaneInv
BY LaneInvInit, LaneInvNext, PTL DEF LaneSpec

(* What a runner was told of a record is true of the store, of replays too,  *)
(* and the lease it was filed under reads back whole or says that it is cut  *)
(* (ingest_transcripts against lease_transcript).                            *)
THEOREM AnswersStayTrue == LaneSpec => []AnswersAreTrue
<1>1. LaneInv => AnswersAreTrue
  <2> SUFFICES ASSUME LaneInv PROVE ReadsBackWhole BY DEF LaneInv, AnswersAreTrue
  <2> SUFFICES ASSUME NEW r \in Runners, NEW n \in DOMAIN Outbox[r], NEW k, k = Outbox[r][n].key,
                      told[r][n] \in {"applied", "already_applied", "capped"},
                      k.segment \notin Superseded(key_owner[k].lease)
               PROVE  \/ Truncated(key_owner[k].lease)
                      \/ \E rec \in Visible(key_owner[k].lease) : rec.key = k
      BY DEF ReadsBackWhole
  <2> DEFINE l == key_owner[k].lease
  <2>1. k \in Keys BY RecordAt
  <2>2. key_state[k] \in {"accepted", "rejected"} BY DEF LaneInv, ToldIsStored
  <2>3. CASE key_state[k] = "accepted"
    <3>1. PICK rec \in segments[l] : rec.key = k BY <2>1, <2>3 DEF LaneInv, KeysFiled
    <3>2. rec \in Visible(l) BY <3>1 DEF Visible
    <3>3. QED BY <3>1, <3>2
  <2>4. CASE key_state[k] = "rejected"
    <3>1. key_owner[k].rec.key = k BY <2>1, <2>4 DEF LaneInv, KeysFiled
    <3>2. key_owner[k].rec \in RejectedOf(l) BY <2>1, <2>4 DEF RejectedOf
    <3>3. Truncated(l) BY <3>1, <3>2 DEF Truncated
    <3>4. QED BY <3>3
  <2>5. QED BY <2>2, <2>3, <2>4
<1>2. QED BY <1>1, LaneInvHolds, PTL

(* An attempt keeps the owner that minted it first, and from then on only    *)
(* that runner's records are filed for its leases (_advance_fence,           *)
(* ships_from_lease_holder).                                                 *)
THEOREM OwnerKept == LaneSpec => OwnerForLife
<1>1. LaneInv /\ [LaneNext]_laneVars =>
         [\/ \A a \in Attempts : epoch_owner'[a] = Nobody
          \/ \A a \in {x \in Attempts : epoch_owner[x] # Nobody} :
               /\ epoch_owner'[a] = epoch_owner[a]
               /\ \A k \in Keys : key_owner'[k] # key_owner[k] /\ Attempt(key_owner'[k].lease) = a
                                   => key_owner'[k].runner = epoch_owner[a]]_laneVars
  <2> SUFFICES ASSUME LaneInv, LaneNext
               PROVE  \/ \A a \in Attempts : epoch_owner'[a] = Nobody
                      \/ \A a \in {x \in Attempts : epoch_owner[x] # Nobody} :
                           /\ epoch_owner'[a] = epoch_owner[a]
                           /\ \A k \in Keys :
                                 key_owner'[k] # key_owner[k] /\ Attempt(key_owner'[k].lease) = a
                                   => key_owner'[k].runner = epoch_owner[a]
      OBVIOUS
  <2>1. CASE ResetLane BY <2>1 DEF ResetLane
  <2>2. ASSUME NEW r \in Runners, NEW b \in Attempts, MintLease(r, b)
        PROVE  /\ UNCHANGED key_owner
               /\ \A a \in Attempts : epoch_owner[a] # Nobody => epoch_owner'[a] = epoch_owner[a]
    BY <2>2 DEF MintLease, FirstMinter, LaneInv, LaneTypes
  <2>3. ASSUME NEW r \in Runners, NEW n \in DOMAIN Outbox[r], CapRecord(r, n) \/ AcceptRecord(r, n)
        PROVE  /\ UNCHANGED epoch_owner
               /\ \A k \in Keys : key_owner'[k] # key_owner[k] =>
                     /\ key_owner'[k].runner = r
                     /\ epoch_owner[Attempt(key_owner'[k].lease)] \in {Nobody, r}
    <3> DEFINE rec == Outbox[r][n]
    <3>1. /\ UNCHANGED epoch_owner /\ Deciding(r, n)
          /\ key_owner' = [key_owner EXCEPT ![rec.key] = OwnedBy(r, rec)]
      BY <2>3 DEF CapRecord, AcceptRecord
    <3>2. epoch_owner[Attempt(rec.lease)] \in {Nobody, r}
      BY <3>1 DEF Deciding, Admitted, ships_from_lease_holder
    <3>3. OwnedBy(r, rec).runner = r /\ OwnedBy(r, rec).lease = rec.lease BY DEF OwnedBy
    <3> HIDE DEF rec
    <3>4. \A k \in Keys : key_owner'[k] # key_owner[k] => key_owner'[k] = OwnedBy(r, rec)
      BY <3>1 DEF LaneInv, LaneTypes
    <3>5. QED BY <3>1, <3>2, <3>3, <3>4
  <2>4. ASSUME NEW r \in Runners,
               \/ \E lo, hi \in DOMAIN Outbox[r] : BeginPush(r, lo, hi)
               \/ \E n \in DOMAIN Outbox[r] : RefuseRecord(r, n) \/ ReplayRecord(r, n) \/ KnownRecord(r, n)
               \/ \E heard \in BOOLEAN : EndPush(r, heard)
        PROVE  UNCHANGED <<epoch_owner, key_owner>>
    BY <2>4 DEF BeginPush, RefuseRecord, ReplayRecord, KnownRecord, EndPush, Kept
  <2>5. QED BY <2>1, <2>2, <2>3, <2>4 DEF LaneNext
<1>2. QED BY <1>1, LaneInvHolds, PTL DEF LaneSpec, OwnerForLife

(* Two of the three things BytesAccounted says: no chunk is charged past its *)
(* budget, and it keeps one record of a key.                                 *)
BudgetKept ==
    \A c \in Chunks :
        /\ chunk_bytes[c] <= ChunkBudget
        /\ \A x, y \in RecordsOf(c) : x.key = y.key => x = y

(* A chunk is charged within its budget, and however often a record is       *)
(* re-sent or offered again under its key it is kept once.                   *)
THEOREM BudgetHolds == LaneSpec => []BudgetKept
<1> DEFINE Within == \A c \in Chunks : chunk_bytes[c] <= ChunkBudget
<1>1. LaneInit => Within BY OutboxAssumption DEF LaneInit
<1>2. LaneInv /\ Within /\ [LaneNext]_laneVars => Within'
  <2> SUFFICES ASSUME LaneInv, Within, [LaneNext]_laneVars PROVE Within' OBVIOUS
  <2>1. ASSUME NEW r \in Runners, NEW n \in DOMAIN Outbox[r], AcceptRecord(r, n) PROVE Within'
    <3> DEFINE rec == Outbox[r][n]
    <3>1. rec.lease.chunk \in Chunks /\ rec.size \in Nat BY RecordAt
    <3>2. /\ chunk_bytes' = [chunk_bytes EXCEPT ![rec.lease.chunk] = @ + rec.size]
          /\ ~(chunk_bytes[rec.lease.chunk] + rec.size > ChunkBudget)
      BY <2>1 DEF AcceptRecord, Over
    <3> HIDE DEF rec
    <3>3. QED BY <3>1, <3>2, OutboxAssumption DEF LaneInv, LaneTypes
  <2>2. CASE ResetLane BY <2>2, OutboxAssumption DEF ResetLane
  <2>3. CASE UNCHANGED chunk_bytes BY <2>3
  <2>4. QED
    BY <2>1, <2>2, <2>3 DEF LaneNext, laneVars, MintLease, BeginPush, RefuseRecord, ReplayRecord, KnownRecord,
                            CapRecord, EndPush, Kept
<1>3. LaneInv /\ Within => BudgetKept
  BY DEF LaneInv, KeptIsAccepted, BudgetKept, RecordsOf
<1>4. QED BY <1>1, <1>2, <1>3, LaneInvHolds, PTL DEF LaneSpec

-----------------------------------------------------------------------------
(* What a chunk is charged                                                   *)

(* A set of naturals has a least one.                                       *)
LEMMA Least ==
    ASSUME NEW T, T \subseteq Nat, T # {}
    PROVE  \E n \in T : \A m \in T : n <= m
<1> DEFINE R == OpToRel(<, Nat)
<1>1. IsWellFoundedOn(R, Nat) BY NatLessThanWellFounded
<1>2. \A x, y \in Nat : x < y => <<x, y>> \in R BY DEF OpToRel
<1> HIDE DEF R
<1>3. PICK x \in T : \A y \in T : <<y, x>> \notin R BY <1>1, WFMin
<1>4. \A y \in T : x <= y
  <2> TAKE y \in T
  <2>1. x \in Nat /\ y \in Nat /\ ~(y < x) BY <1>2, <1>3
  <2>2. QED BY <2>1
<1>5. QED BY <1>4

(* The sum over a set of records, and the recursion that defines it.        *)
Charge(S) == FoldSet(LAMBDA rec, sum : rec.size + sum, 0, S)
Picked(s) == CHOOSE rec \in s : TRUE
Rest(f, s) == IF s = {} THEN 0 ELSE Picked(s).size + f[s \ {Picked(s)}]
Sums(f, S) == f = [s \in SUBSET S |-> Rest(f, s)]

(* The fold is the value of its recursion at the set.                       *)
LEMMA ChargeIs == ASSUME NEW S PROVE Charge(S) = (CHOOSE f : Sums(f, S))[S]
BY DEF Charge, FoldSet, MapThenFoldSet, Sums, Rest, Picked

(* A record fewer.                                                          *)
LEMMA Fewer ==
    ASSUME NEW S, IsFiniteSet(S), NEW s \in SUBSET S, NEW x \in s
    PROVE  /\ Cardinality(s) \in Nat /\ Cardinality(s) >= 1 /\ IsFiniteSet(s)
           /\ s \ {x} \in SUBSET S /\ Cardinality(s \ {x}) = Cardinality(s) - 1
<1>1. IsFiniteSet(s) BY FS_Subset
<1>2. Cardinality(s) \in Nat /\ Cardinality(s \ {x}) \in Nat BY <1>1, FS_CardinalityType, FS_Subset
<1>3. Cardinality(s \ {x}) = Cardinality(s) - 1 BY <1>1, FS_RemoveElement
<1>4. QED BY <1>1, <1>2, <1>3

(* The recursion defines a function on every finite set.                    *)
LEMMA SumsExist == ASSUME NEW S, IsFiniteSet(S) PROVE \E f : Sums(f, S)
<1> DEFINE Upto(f, n) == \A s \in SUBSET S : Cardinality(s) <= n => f[s] = Rest(f, s)
           Short == {n \in Nat : ~ \E f : Upto(f, n)}
<1>1. Short = {}
  <2> SUFFICES ASSUME Short # {} PROVE FALSE OBVIOUS
  <2>1. Short \subseteq Nat OBVIOUS
  <2>2. PICK n \in Short : \A m \in Short : n <= m
    <3> HIDE DEF Short
    <3>1. QED BY <2>1, Least
  <2>3. \E f : \A s \in SUBSET S : Cardinality(s) < n => f[s] = Rest(f, s)
    <3>1. CASE n = 0
      <4>1. \A s \in SUBSET S : Cardinality(s) \in Nat BY FS_Subset, FS_CardinalityType
      <4>2. QED BY <3>1, <4>1
    <3>2. CASE n # 0
      <4>1. n - 1 \in Nat /\ n - 1 \notin Short BY <2>2, <3>2
      <4>2. PICK f : Upto(f, n - 1) BY <4>1
      <4>3. \A s \in SUBSET S : Cardinality(s) \in Nat BY FS_Subset, FS_CardinalityType
      <4>4. \A s \in SUBSET S : Cardinality(s) < n => f[s] = Rest(f, s) BY <2>2, <4>2, <4>3
      <4>5. QED BY <4>4
    <3>3. QED BY <3>1, <3>2
  <2>4. PICK f : \A s \in SUBSET S : Cardinality(s) < n => f[s] = Rest(f, s) BY <2>3
  <2> DEFINE g == [s \in SUBSET S |-> IF Cardinality(s) < n THEN f[s] ELSE Rest(f, s)]
  <2>5. \A s \in SUBSET S : Cardinality(s) <= n => Rest(g, s) = Rest(f, s)
    <3> SUFFICES ASSUME NEW s \in SUBSET S, Cardinality(s) <= n, s # {} PROVE Rest(g, s) = Rest(f, s)
      BY DEF Rest
    <3>1. Picked(s) \in s BY DEF Picked
    <3>2. s \ {Picked(s)} \in SUBSET S /\ Cardinality(s \ {Picked(s)}) < n BY <3>1, <2>2, Fewer
    <3>3. g[s \ {Picked(s)}] = f[s \ {Picked(s)}] BY <3>2
    <3>4. QED BY <3>3 DEF Rest
  <2>6. \A s \in SUBSET S : g[s] = Rest(f, s) BY <2>4
  <2> HIDE DEF g
  <2>7. Upto(g, n) BY <2>5, <2>6
  <2>8. QED BY <2>2, <2>7
<1>2. Cardinality(S) \in Nat BY FS_CardinalityType
<1>3. PICK f : Upto(f, Cardinality(S)) BY <1>1, <1>2
<1>4. \A s \in SUBSET S : f[s] = Rest(f, s) BY <1>3, FS_Subset
<1> DEFINE g == [s \in SUBSET S |-> f[s]]
<1>5. \A s \in SUBSET S : Rest(g, s) = Rest(f, s)
  <2> SUFFICES ASSUME NEW s \in SUBSET S, s # {} PROVE Rest(g, s) = Rest(f, s) BY DEF Rest
  <2>1. s \ {Picked(s)} \in SUBSET S OBVIOUS
  <2>2. g[s \ {Picked(s)}] = f[s \ {Picked(s)}] BY <2>1
  <2>3. QED BY <2>2 DEF Rest
<1>6. g = [s \in SUBSET S |-> Rest(g, s)] BY <1>4, <1>5
<1>7. QED BY <1>6 DEF Sums

(* Any record may be taken off first.                                       *)
LEMMA SumsRemove ==
    ASSUME NEW S, IsFiniteSet(S), \A rec \in S : rec.size \in Nat, NEW f, Sums(f, S)
    PROVE  \A s \in SUBSET S : f[s] \in Nat /\ \A y \in s : f[s] = y.size + f[s \ {y}]
<1> DEFINE Fine(s) == f[s] \in Nat /\ \A y \in s : f[s] = y.size + f[s \ {y}]
           Bad == {Cardinality(s) : s \in {x \in SUBSET S : ~Fine(x)}}
<1>0. \A s \in SUBSET S : f[s] = Rest(f, s) BY DEF Sums
<1>1. Bad = {}
  <2> SUFFICES ASSUME Bad # {} PROVE FALSE OBVIOUS
  <2>1. Bad \subseteq Nat BY FS_Subset, FS_CardinalityType
  <2>2. PICK n \in Bad : \A m \in Bad : n <= m
    <3> HIDE DEF Bad
    <3>1. QED BY <2>1, Least
  <2>3. PICK s \in SUBSET S : n = Cardinality(s) /\ ~Fine(s) BY <2>2
  <2>4. \A t \in SUBSET S : Cardinality(t) < n => Fine(t)
    <3> SUFFICES ASSUME NEW t \in SUBSET S, Cardinality(t) < n, ~Fine(t) PROVE FALSE OBVIOUS
    <3>1. PICK c : c = Cardinality(t) /\ c < n OBVIOUS
    <3>2. c \in Bad BY <3>1
    <3> HIDE DEF Bad
    <3>3. c \in Nat /\ n \in Nat /\ n <= c BY <2>1, <2>2, <3>2
    <3>4. QED BY <3>1, <3>3
  <2> HIDE DEF Bad
  <2>5. s # {}
    <3> SUFFICES ASSUME s = {} PROVE FALSE OBVIOUS
    <3>1. f[s] = 0 BY <1>0, <2>3 DEF Rest
    <3>2. Fine(s) BY <3>1
    <3>3. QED BY <2>3, <3>2
  <2>6. PICK x : x = Picked(s) /\ x \in s BY <2>5 DEF Picked
  <2>7. f[s] = x.size + f[s \ {x}] BY <1>0, <2>5, <2>6 DEF Rest
  <2>8. Fine(s \ {x}) BY <2>3, <2>4, <2>6, Fewer
  <2>9. ASSUME NEW y \in s PROVE f[s] = y.size + f[s \ {y}]
    <3>1. CASE y = x BY <2>7, <3>1
    <3>2. CASE y # x
      <4>1. Fine(s \ {y}) BY SMTT(30), <2>3, <2>4, Fewer
      <4>2. PICK u : u = s \ {x, y} OBVIOUS
      <4>3. (s \ {x}) \ {y} = u /\ (s \ {y}) \ {x} = u BY <4>2
      <4>4. y \in s \ {x} /\ x \in s \ {y} BY <2>6, <3>2
      <4>5. f[s \ {x}] = y.size + f[u] /\ f[s \ {y}] = x.size + f[u] BY <2>8, <4>1, <4>3, <4>4
      <4>6. u \in SUBSET S /\ u = (s \ {x}) \ {y} BY <4>2
      <4>7. x.size \in Nat /\ y.size \in Nat /\ f[s \ {x}] \in Nat /\ f[s \ {y}] \in Nat BY <2>6, <2>8, <4>1
      <4>8. f[u] \in Nat
        <5>1. Cardinality(s \ {x}) < n /\ Cardinality(u) < Cardinality(s \ {x}) 
          <6>1. s \ {x} \in SUBSET S /\ Cardinality(s \ {x}) = n - 1 BY <2>3, <2>6, Fewer
          <6>2. Cardinality((s \ {x}) \ {y}) = Cardinality(s \ {x}) - 1 /\ Cardinality(s \ {x}) \in Nat
            <7>1. PICK v : v = s \ {x} /\ v \in SUBSET S /\ y \in v BY <4>4, <6>1
            <7>2. \A t \in SUBSET S : \A z \in t : Cardinality(t \ {z}) = Cardinality(t) - 1 /\ Cardinality(t) \in Nat
              BY Fewer
            <7>22. Cardinality(v \ {y}) = Cardinality(v) - 1 /\ Cardinality(v) \in Nat BY <7>1, <7>2
            <7>3. QED BY <7>1, <7>22
          <6>3. n \in Nat BY <2>1, <2>2
          <6>4. QED BY <4>6, <6>1, <6>2, <6>3
        <5>2. Cardinality(u) \in Nat /\ Cardinality(s \ {x}) \in Nat BY <4>6, FS_Subset, FS_CardinalityType
        <5>3. Cardinality(u) < n BY <2>1, <2>2, <5>1, <5>2
        <5>4. QED BY <2>4, <4>6, <5>3
      <4>9. QED BY <2>7, <4>5, <4>7, <4>8
    <3>3. QED BY <3>1, <3>2
  <2>10. f[s] \in Nat BY <2>6, <2>7, <2>8
  <2>11. QED BY <2>3, <2>9, <2>10
<1>2. QED BY <1>1

(* The sum over a set does not depend on what other records there are.      *)
LEMMA SumsAgree ==
    ASSUME NEW S, NEW U, IsFiniteSet(S), S \subseteq U, NEW f, NEW g, Sums(f, S), Sums(g, U)
    PROVE  \A s \in SUBSET S : f[s] = g[s]
<1> DEFINE Bad == {Cardinality(s) : s \in {x \in SUBSET S : f[x] # g[x]}}
<1>0. /\ \A s \in SUBSET S : f[s] = Rest(f, s)
      /\ \A s \in SUBSET S : g[s] = Rest(g, s)
  BY DEF Sums
<1>1. Bad = {}
  <2> SUFFICES ASSUME Bad # {} PROVE FALSE OBVIOUS
  <2>1. Bad \subseteq Nat BY FS_Subset, FS_CardinalityType
  <2>2. PICK n \in Bad : \A m \in Bad : n <= m
    <3> HIDE DEF Bad
    <3>1. QED BY <2>1, Least
  <2>3. PICK s \in SUBSET S : n = Cardinality(s) /\ f[s] # g[s] BY <2>2
  <2>4. s # {} BY <1>0, <2>3 DEF Rest
  <2>5. PICK x, t : x = Picked(s) /\ x \in s /\ t = s \ {x} BY <2>4 DEF Picked
  <2>6. t \in SUBSET S /\ Cardinality(t) = n - 1 BY <2>3, <2>5, Fewer
  <2>7. n - 1 \notin Bad
    <3> HIDE DEF Bad
    <3>1. n \in Nat BY <2>1
    <3>2. QED BY <2>2, <3>1
  <2>8. f[t] = g[t] BY <2>6, <2>7
  <2>9. QED BY <1>0, <2>3, <2>4, <2>5, <2>8 DEF Rest
<1>2. QED BY <1>1

(* One record more, and no record.                                          *)
LEMMA ChargeOneMore ==
    ASSUME NEW S, IsFiniteSet(S), \A rec \in S : rec.size \in Nat, NEW y, y \notin S, y.size \in Nat
    PROVE  Charge(S \cup {y}) = y.size + Charge(S) /\ IsFiniteSet(S \cup {y})
<1>1. PICK U : U = S \cup {y} OBVIOUS
<1>2. IsFiniteSet(U) BY <1>1, FS_AddElement
<1>3. PICK f, g : f = (CHOOSE h : Sums(h, S)) /\ g = (CHOOSE h : Sums(h, U)) OBVIOUS
<1>4. Sums(f, S) /\ Sums(g, U) BY <1>2, <1>3, SumsExist
<1>5. \A rec \in U : rec.size \in Nat BY <1>1
<1>6. y \in U /\ U \ {y} = S BY <1>1
<1>7. \A s \in SUBSET U : g[s] \in Nat /\ \A x \in s : g[s] = x.size + g[s \ {x}] BY <1>2, <1>4, <1>5, SumsRemove
<1>8. g[U] = y.size + g[S] BY <1>6, <1>7
<1>9. f[S] = g[S]
  <2>1. S \subseteq U /\ S \in SUBSET S BY <1>1
  <2>2. \A s \in SUBSET S : f[s] = g[s] BY <1>4, <2>1, SumsAgree
  <2>3. QED BY <2>1, <2>2
<1>10. Charge(S) = f[S] /\ Charge(U) = g[U] BY <1>3, ChargeIs
<1>11. QED BY <1>1, <1>2, <1>8, <1>9, <1>10

(* Nothing is charged for no record.                                        *)
LEMMA ChargeNone == Charge({}) = 0
<1>1. PICK f, e : e = {} /\ f = (CHOOSE h : Sums(h, e)) OBVIOUS
<1>2. Sums(f, e) BY <1>1, FS_EmptySet, SumsExist
<1>3. f[e] = 0 BY <1>1, <1>2 DEF Sums, Rest
<1>4. QED BY <1>1, <1>3, ChargeIs

(* A chunk is charged for what is kept of it.                               *)
Charged ==
    \A c \in Chunks : IsFiniteSet(RecordsOf(c)) /\ chunk_bytes[c] = Charge(RecordsOf(c))

(* A new lane has charged nothing and keeps nothing.                        *)
LEMMA ChargedStarts == LaneInit => Charged
<1> SUFFICES ASSUME LaneInit, NEW c \in Chunks PROVE IsFiniteSet(RecordsOf(c)) /\ chunk_bytes[c] = Charge(RecordsOf(c))
  BY DEF Charged
<1>1. RecordsOf(c) = {} /\ chunk_bytes[c] = 0 BY DEF LaneInit, RecordsOf
<1>2. QED BY <1>1, ChargeNone, FS_EmptySet

(* A record accepted is a record more of its chunk, charged with it.        *)
LEMMA ChargedAccepts ==
    ASSUME LaneInv, Charged, NEW r \in Runners, NEW n \in DOMAIN Outbox[r], AcceptRecord(r, n)
    PROVE  Charged'
<1>1. PICK rec : rec = Outbox[r][n] OBVIOUS
<1>2. /\ rec \in Shipped /\ rec.key \in Keys /\ rec.lease \in Leases /\ rec.lease.chunk \in Chunks /\ rec.size \in Nat
  BY <1>1, RecordAt
<1>3. /\ key_state[rec.key] # "accepted"
      /\ chunk_bytes' = [chunk_bytes EXCEPT ![rec.lease.chunk] = chunk_bytes[rec.lease.chunk] + rec.size]
      /\ segments' = [segments EXCEPT ![rec.lease] = {old \in segments[rec.lease] : old.key # rec.key} \cup {rec}]
  BY <1>1 DEF AcceptRecord, Known
<1>4. segments \in [Leases -> SUBSET Shipped] /\ chunk_bytes \in [Chunks -> Nat] BY DEF LaneInv, LaneTypes
<1>5. \A l \in Leases : \A x \in segments[l] : x.key # rec.key BY <1>3 DEF LaneInv, KeptIsAccepted
<1>6. segments'[rec.lease] = segments[rec.lease] \cup {rec} BY <1>2, <1>3, <1>4, <1>5
<1>7. \A l \in Leases : l # rec.lease => segments'[l] = segments[l] BY <1>3, <1>4
<1>8. SUFFICES ASSUME NEW c \in Chunks
               PROVE  IsFiniteSet(RecordsOf(c)') /\ chunk_bytes'[c] = Charge(RecordsOf(c)')
  BY DEF Charged
<1>9. IsFiniteSet(RecordsOf(c)) /\ chunk_bytes[c] = Charge(RecordsOf(c)) BY DEF Charged
<1>10. CASE c # rec.lease.chunk
  <2>1. RecordsOf(c)' = RecordsOf(c) BY <1>7, <1>10 DEF RecordsOf
  <2>2. QED BY <1>3, <1>4, <1>9, <1>10, <2>1
<1>11. CASE c = rec.lease.chunk
  <2>1. PICK S : S = RecordsOf(c) OBVIOUS
  <2>2. RecordsOf(c)' = S \cup {rec} BY <1>2, <1>6, <1>7, <1>11, <2>1 DEF RecordsOf
  <2>3. rec \notin S BY <1>5, <2>1 DEF RecordsOf
  <2>4. \A x \in S : x.size \in Nat
    <3>1. \A x \in Shipped : x.size \in Nat BY OutboxAssumption DEF Shipped
    <3>2. S \subseteq Shipped BY <1>4, <2>1 DEF RecordsOf
    <3>3. QED BY <3>1, <3>2
  <2>5. Charge(S \cup {rec}) = rec.size + Charge(S) /\ IsFiniteSet(S \cup {rec})
    BY <1>2, <1>9, <2>1, <2>3, <2>4, ChargeOneMore
  <2>6. chunk_bytes'[c] = chunk_bytes[c] + rec.size /\ chunk_bytes[c] \in Nat BY <1>3, <1>4, <1>11
  <2>7. QED BY <1>2, <1>9, <2>1, <2>2, <2>5, <2>6
<1>12. QED BY <1>10, <1>11

(* A chunk is charged for each record it keeps once, whatever is re-sent or  *)
(* offered again under a new seq, and never past its budget.                *)
THEOREM BytesStayAccounted == LaneSpec => []BytesAccounted
<1>1. LaneInv /\ Charged /\ [LaneNext]_laneVars => Charged'
  <2> SUFFICES ASSUME LaneInv, Charged, [LaneNext]_laneVars PROVE Charged' OBVIOUS
  <2>1. CASE ResetLane
    <3> SUFFICES ASSUME NEW c \in Chunks PROVE (IsFiniteSet(RecordsOf(c)) /\ chunk_bytes[c] = Charge(RecordsOf(c)))'
      BY DEF Charged
    <3>1. RecordsOf(c)' = {} /\ chunk_bytes'[c] = 0 BY <2>1 DEF ResetLane, RecordsOf
    <3>2. QED BY <3>1, ChargeNone, FS_EmptySet
  <2>2. CASE UNCHANGED <<chunk_bytes, segments>> BY <2>2 DEF Charged, RecordsOf
  <2>3. QED
    BY <2>1, <2>2, ChargedAccepts DEF LaneNext, laneVars, MintLease, BeginPush, RefuseRecord, ReplayRecord, KnownRecord,
                                      CapRecord, EndPush, Kept
<1>2. Charged /\ BudgetKept => BytesAccounted BY DEF Charged, BudgetKept, BytesAccounted, Charge
<1>3. QED BY <1>1, <1>2, ChargedStarts, LaneInvHolds, BudgetHolds, PTL DEF LaneSpec
==============================================================================
