----------------------------- MODULE FactIntake -----------------------------
(***************************************************************************)
(* The hub's fact lanes: ingest_facts (one lane per runner) and            *)
(* ingest_host_facts (one per host), which share their shape.  A push is   *)
(* served on a thread pool without a lock: it reads the sender's mark,     *)
(* takes the batch in order of seq, and writes the mark back at the end.   *)
(* One action is the part of a call between two points where another       *)
(* thread may run.                                                         *)
(*                                                                         *)
(* The sender is the outbox of a runner or host: it re-sends what it was   *)
(* not answered for, in order, and may never see an answer.                *)
(***************************************************************************)
EXTENDS Integers, FiniteSets

CONSTANTS
    Senders,    \* runners or hosts
    Calls,      \* pushes that may be in the hub at once
    MaxSeq,     \* bound: how many facts a sender has to report
    Overlap,    \* whether a sender pushes again while its last push is in the hub
    None

ASSUME LaneAssumption == MaxSeq \in Nat /\ Overlap \in BOOLEAN /\ None \notin Nat

Seqs == 0..MaxSeq       \* a fact without a seq counts as seq 0

CallRow == [sender : Senders, facts : SUBSET Seqs, mark : Seqs, top : Seqs]

ASSUME CallAssumption == None \notin CallRow

VARIABLES
    high_water, \* high_water[x]: _fact_high_water / _host_fact_high_water, None if x has no entry
    call,       \* call[k]: a push being served: the facts left of it and its own mark
    settled,    \* the sender: every fact up to this one was answered
    newest,     \* history: the fact of x that took effect last
    times,      \* history: how often each fact took effect
    refused     \* history: the facts answered `rejected` when they were last tried

vars == <<high_water, call, settled, newest, times, refused>>

Init ==
    /\ high_water = [x \in Senders |-> None]
    /\ call = [k \in Calls |-> None]
    /\ settled = [x \in Senders |-> 0]
    /\ newest = [x \in Senders |-> 0]
    /\ times = [x \in Senders |-> [s \in Seqs |-> 0]]
    /\ refused = [x \in Senders |-> {}]

-----------------------------------------------------------------------------
InFlight(x) == {k \in Calls : call[k] # None /\ call[k].sender = x}

(* The mark a push starts from: the entry, 0 when there is none.           *)
MutMarkWithoutDefault(x) == high_water[x]
MarkOf(x) == IF high_water[x] = None THEN 0 ELSE high_water[x]

(* The facts are taken in order of seq.                                    *)
MutNewestFirst(facts, s) == s \in facts /\ \A t \in facts : t <= s
FirstOf(facts, s) == s \in facts /\ \A t \in facts : s <= t

(* A seq at or under the mark is re-acked without re-applying.             *)
MutFreshAtMark(mark, s) == s >= mark /\ s > 0
Fresh(mark, s) == s > mark

(* The outbox pushes any run of facts that starts no later than the first  *)
(* one not answered, with or without a fact that carries no seq.           *)
Batches(x) ==
    {b \in [lo : 1..(settled[x] + 1), hi : 1..MaxSeq, unnumbered : BOOLEAN] : b.lo <= b.hi}

BatchSeqs(b) == (b.lo .. b.hi) \cup (IF b.unnumbered THEN {0} ELSE {})

BeginIngest(k, x, b) ==
    /\ call[k] = None
    /\ Overlap \/ InFlight(x) = {}
    /\ call' = [call EXCEPT ![k] =
         [sender |-> x, facts |-> BatchSeqs(b), mark |-> MarkOf(x), top |-> b.hi]]
    /\ UNCHANGED <<high_water, settled, newest, times, refused>>

(* The next fact of a push in progress.                                    *)
Taking(k, s) == call[k] # None /\ FirstOf(call[k].facts, s)

ReackFact(k, s) ==
    /\ Taking(k, s)
    /\ ~Fresh(call[k].mark, s)
    /\ call' = [call EXCEPT ![k].facts = @ \ {s}]
    /\ UNCHANGED <<high_water, settled, newest, times, refused>>

(* _apply_fact answers True: the fact takes effect, the mark moves to it.  *)
ApplyFact(k, s) ==
    LET x == call[k].sender
    IN /\ Taking(k, s)
       /\ Fresh(call[k].mark, s)
       /\ call' = [call EXCEPT ![k].facts = @ \ {s}, ![k].mark = s]
       /\ newest' = [newest EXCEPT ![x] = s]
       /\ times' = [times EXCEPT ![x][s] = @ + 1]
       /\ refused' = [refused EXCEPT ![x] = @ \ {s}]
       /\ UNCHANGED <<high_water, settled>>

(* _apply_fact answers False: nothing is written, the mark stays.          *)
RejectFact(k, s) ==
    LET x == call[k].sender
    IN /\ Taking(k, s)
       /\ Fresh(call[k].mark, s)
       /\ call' = [call EXCEPT ![k].facts = @ \ {s}]
       /\ refused' = [refused EXCEPT ![x] = @ \cup {s}]
       /\ UNCHANGED <<high_water, settled, newest, times>>

(* The mark the call leaves behind.                                        *)
MutMarkReadAgain(k) == MarkOf(call[k].sender)
MarkLeft(k) == call[k].mark

(* The mark is written back and the partition answered; the answer may be  *)
(* lost on its way.                                                        *)
EndIngest(k, answered) ==
    LET x == call[k].sender
    IN /\ call[k] # None
       /\ call[k].facts = {}
       /\ high_water' = [high_water EXCEPT ![x] = MarkLeft(k)]
       /\ call' = [call EXCEPT ![k] = None]
       /\ settled' = [settled EXCEPT ![x] =
                        IF answered /\ call[k].top > @ THEN call[k].top ELSE @]
       /\ UNCHANGED <<newest, times, refused>>

(* POST /_seed/reset: every mark is dropped and the senders start over.    *)
Reset ==
    /\ Overlap \/ \A k \in Calls : call[k] = None
    /\ high_water' = [x \in Senders |-> None]
    /\ settled' = [x \in Senders |-> 0]
    /\ newest' = [x \in Senders |-> 0]
    /\ times' = [x \in Senders |-> [s \in Seqs |-> 0]]
    /\ refused' = [x \in Senders |-> {}]
    /\ UNCHANGED call

Next ==
    \/ \E k \in Calls :
        \/ \E x \in Senders : \E b \in Batches(x) : BeginIngest(k, x, b)
        \/ \E s \in Seqs : ReackFact(k, s) \/ ApplyFact(k, s) \/ RejectFact(k, s)
        \/ \E answered \in BOOLEAN : EndIngest(k, answered)
    \/ Reset

Spec == Init /\ [][Next]_vars

-----------------------------------------------------------------------------
(* Properties                                                              *)

(* Marks, calls and the sender's counters stay in their sets.              *)
TypeOK ==
    /\ high_water \in [Senders -> Seqs \cup {None}]
    /\ call \in [Calls -> CallRow \cup {None}]
    /\ settled \in [Senders -> Seqs]
    /\ newest \in [Senders -> Seqs]
    /\ times \in [Senders -> [Seqs -> Nat]]
    /\ refused \in [Senders -> SUBSET Seqs]

(* A fact takes effect at most once, however often it is re-sent after a   *)
(* lost answer and whatever else its batches carry.                        *)
AppliedOnce == \A x \in Senders, s \in Seqs : times[x][s] <= 1

(* No fact is lost between the marks: every fact the mark has passed, and  *)
(* every fact the sender was answered for and may drop, took effect or was *)
(* rejected when it was tried.                                             *)
NoneSkipped ==
    \A x \in Senders : \A s \in 1..MaxSeq :
        (s <= MarkOf(x) \/ s <= settled[x]) => (times[x][s] = 1 \/ s \in refused[x])

Log == INSTANCE FactLog

(* The intake implements the fact log: the facts of one sender take effect *)
(* in order of seq, so locally_paused and the stored usage are the newest  *)
(* report, never an older one re-sent.                                     *)
InOrder == Log!Spec

(* What the host lane's docstring says of a rejected fact: it "holds the   *)
(* mark behind it".  It is not so when a later fact of the lane applies.   *)
RejectedHoldsMark == \A x \in Senders : \A s \in refused[x] : MarkOf(x) < s

=============================================================================
