---------------------------- MODULE MCFactIntake ----------------------------
(* TLC instance of the hub's two lanes.  Facts: two senders, each free to    *)
(* re-send every fact, over two handler threads.  Transcripts: two runners   *)
(* that ship to one lease, and one of them to the next attempt's as well.    *)
(* The lanes share no state, so a behaviour is of one or of the other.       *)
EXTENDS FactIntake, Transcripts, TLC

CONSTANTS r1, r2, c, node

Lease(epoch) == [chunk |-> c, node |-> node, epoch |-> epoch]
Record(segment, epoch, size, supersedes) ==
    [key |-> [segment |-> segment, start |-> 0], lease |-> Lease(epoch), size |-> size,
     supersedes |-> supersedes]

(* A record over its own cap, offered again in a smaller form for the next   *)
(* attempt and once more as it was; it supersedes the other runner's record, *)
(* and the chunk has no room for both.                                       *)
MCOutbox ==
    r1 :> <<Record("s1", 2, 2, "none")>>
    @@ r2 :> <<Record("s2", 1, 3, "none"), Record("s2", 2, 1, "s1"), Record("s2", 2, 1, "s1")>>

MCInit == Init /\ LaneInit
MCNext ==
    \/ LaneInit /\ Next /\ UNCHANGED laneVars
    \/ Init /\ LaneNext /\ UNCHANGED vars
Symmetry == Permutations(Senders) \cup Permutations(Calls)
MCSpec == MCInit /\ [][MCNext]_<<vars, laneVars>>
=============================================================================
