-------------------------------- MODULE Walk --------------------------------
(***************************************************************************)
(* What the runner protocol promises of a chunk, and all a reader of the   *)
(* graph needs to know: the chunk walks the edges of its graph from the    *)
(* entry, and every attempt, a node and an epoch, takes it over at most    *)
(* one edge, out of that node.  A claim that races another one may start   *)
(* the walk over.  RunnerDrive implements it.                              *)
(***************************************************************************)
CONSTANTS Nodes, Entry, Edges, Epochs, Unclaimed

VARIABLES
    at,         \* the chunk's node, or Unclaimed
    spent,      \* the attempts that have been reported
    reclaimed   \* whether a claim came in behind another

Init == at = Unclaimed /\ spent = {} /\ ~reclaimed

Enter == at = Unclaimed /\ at' = Entry /\ UNCHANGED <<spent, reclaimed>>

Reenter == at # Unclaimed /\ at' \in {at, Entry} /\ reclaimed' /\ UNCHANGED spent

Take(n, e) ==
    /\ at = n /\ <<n, e>> \notin spent
    /\ <<n, at'>> \in Edges
    /\ spent' = spent \cup {<<n, e>>} /\ UNCHANGED reclaimed

Next == Enter \/ Reenter \/ \E n \in Nodes, e \in Epochs : Take(n, e)

Spec == Init /\ [][Next]_<<at, spent, reclaimed>>
=============================================================================
