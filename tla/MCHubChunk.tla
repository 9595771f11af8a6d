----------------------------- MODULE MCHubChunk -----------------------------
(* The chunk lifecycle on a three-node graph: build may loop on itself or  *)
(* point at a node that does not exist, review may end the chunk or hand   *)
(* it to the hub-executed node deliver.                                    *)
EXTENDS HubChunk, TLC

CONSTANTS build, review, deliver

MCNodes == {build, review, deliver}
MCHubNodes == {deliver}
MCChoiceNames == {"pass", "again", "stray"}

MCGoto ==
    (build :> ("pass" :> review @@ "again" :> build @@ "stray" :> Dangling)) @@
    (review :> ("pass" :> TERMINAL @@ "again" :> deliver @@ "stray" :> None)) @@
    (deliver :> ("pass" :> TERMINAL @@ "again" :> None @@ "stray" :> None))

(* The smallest graph: one node a completion may leave for done or repeat. *)
OneNode == {build}
NoHubNodes == {}
OneGoto == build :> ("pass" :> TERMINAL @@ "again" :> build)
OneChoiceNames == {"pass", "again"}

(* A graph whose node offers no choice: the route is all that moves.       *)
NoChoiceNames == {}
NoGoto == [n \in {build} |-> [ch \in {} |-> None]]

LifeSeeds == {"ready", "paused", "done"}
ReadySeeds == {"ready"}

Symmetry == Permutations(Runners) \cup Permutations(Chunks)
=============================================================================
