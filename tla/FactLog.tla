------------------------------- MODULE FactLog -------------------------------
(***************************************************************************)
(* What a fact lane promises its readers, with no marks, batches or acks:  *)
(* the facts of one sender take effect one at a time and in the order of   *)
(* their sequence numbers, so the report a sender leaves behind is always  *)
(* the newest one that took effect.  FactIntake is shown to implement it.  *)
(***************************************************************************)
EXTENDS Integers

CONSTANTS
    Senders,    \* runners or hosts
    MaxSeq      \* bound: the largest sequence number

VARIABLE newest     \* newest[x]: the fact of x that took effect last, 0 if none did

Init == newest = [x \in Senders |-> 0]

(* A later fact takes effect; an earlier one or the same never does again. *)
Apply(x, s) == s > newest[x] /\ newest' = [newest EXCEPT ![x] = s]

Reset == newest' = [x \in Senders |-> 0]

Next == Reset \/ \E x \in Senders, s \in 1..MaxSeq : Apply(x, s)

Spec == Init /\ [][Next]_newest

=============================================================================
