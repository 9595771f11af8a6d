----------------------------- MODULE QueueMatch -----------------------------
(***************************************************************************)
(* Which ready chunk a runner may work: the capability check of            *)
(* mock_hub/domain/matching.py over a chunk's graph, and the scan of the   *)
(* matched peek over the ready order.  Pure operators, no state.           *)
(*                                                                         *)
(* A graph is a record [entry, nodes, harnesses, model]: nodes maps a node *)
(* id to [runner, to, harnesses, model], where `to` is the set of its      *)
(* choices' targets other than the terminal one, and harnesses and model   *)
(* are the session's own (empty when it declares none).  A capability is a *)
(* record [harness, tiers, supported, default, available]; `supported` is  *)
(* the set of native model names its patterns match.                       *)
(***************************************************************************)
EXTENDS Integers, Sequences, FiniteSets

CONSTANTS
    TierModels,     \* the model names that are tiers ("blizzard:..."), never native
    None

NodesOf(graph) == DOMAIN graph.nodes

(* One round of the walk: the nodes already seen and the targets of theirs.*)
Widened(graph, seen) ==
    seen \cup UNION {graph.nodes[n].to : n \in seen \cap NodesOf(graph)}

(* Every id the walk from a node sees, each visited once.  An edge may     *)
(* name a node the graph does not hold; it is seen and leads nowhere.      *)
Reached(graph, start) ==
    LET far[i \in 0..Cardinality(NodesOf(graph))] ==
            IF i = 0 THEN {start} ELSE Widened(graph, far[i - 1])
    IN  far[Cardinality(NodesOf(graph))]

(* A hub node is walked through and asks nothing of the runner.            *)
RunnerNodes(graph, start) ==
    {n \in Reached(graph, start) \cap NodesOf(graph) : graph.nodes[n].runner}

EffectiveHarnesses(graph, n) ==
    IF graph.nodes[n].harnesses # {} THEN graph.nodes[n].harnesses ELSE graph.harnesses

EffectiveModel(graph, n) ==
    IF graph.nodes[n].model # {} THEN graph.nodes[n].model ELSE graph.model

Supported(model, capability) == model \notin TierModels /\ model \in capability.supported

Members(seq) == {seq[i] : i \in 1..Len(seq)}

(* The binding a harness id finds: the first available one reported.       *)
Binding(capabilities, harness) ==
    LET named == {i \in 1..Len(capabilities) :
                    capabilities[i].available /\ capabilities[i].harness = harness}
    IN  IF named = {} THEN None ELSE capabilities[CHOOSE i \in named : \A j \in named : i <= j]

(* Some reported capability can serve the node's session.  Only a session  *)
(* that names several harnesses and a model is strict about the model.     *)
LineageSatisfied(graph, n, capabilities) ==
    LET harnesses == EffectiveHarnesses(graph, n)
        model == EffectiveModel(graph, n)
        strict == Cardinality(harnesses) > 1 /\ model # {}
        Serves(c) == ~strict \/ \E m \in model : m \in c.tiers \/ Supported(m, c)
    IN  IF harnesses = {}
        THEN \E c \in Members(capabilities) : c.available /\ c.default
        ELSE \E h \in harnesses : Binding(capabilities, h) # None /\ Serves(Binding(capabilities, h))

CapabilityIneligible(graph, start, capabilities) ==
    \/ capabilities = << >>
    \/ \E n \in RunnerNodes(graph, start) : ~LineageSatisfied(graph, n, capabilities)

-----------------------------------------------------------------------------
(* The scan of peek_matched: the queue in order, each entry [chunk,        *)
(* project, ready, usable], of which it passes over those that are not     *)
(* ready or not served.  `narrowed` says the call named projects: then a   *)
(* hold stops only the project of the unusable entry, else the whole scan. *)
MutHoldStopsAll(narrowed) == TRUE
HoldStopsScan(narrowed) == ~narrowed

Start == [pick |-> None, over |-> FALSE, stopped |-> {}]

Scanned(before, e, served, hold, narrowed) ==
    IF before.over \/ ~e.ready \/ e.project \notin served \ before.stopped THEN before
    ELSE IF e.usable THEN [before EXCEPT !.pick = e.chunk, !.over = TRUE]
    ELSE IF ~hold THEN before
    ELSE IF HoldStopsScan(narrowed) THEN [before EXCEPT !.over = TRUE]
    ELSE [before EXCEPT !.stopped = @ \cup {e.project}]

Scans(entries, served, hold, narrowed) ==
    LET step[i \in 0..Len(entries)] ==
            IF i = 0 THEN Start ELSE Scanned(step[i - 1], entries[i], served, hold, narrowed)
    IN  step

Scan(entries, served, hold, narrowed) == Scans(entries, served, hold, narrowed)[Len(entries)].pick

(* What the scan promises, without a scan: the entries that may be         *)
(* offered, of which the peek answers the first.                           *)
Offerable(entries, served, hold, narrowed) ==
    LET Due == {i \in 1..Len(entries) : entries[i].ready /\ entries[i].project \in served}
    IN  {i \in Due :
            /\ entries[i].usable
            /\ hold => \A j \in Due :
                  j < i /\ (narrowed => entries[j].project = entries[i].project) => entries[j].usable}

=============================================================================
