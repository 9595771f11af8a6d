------------------------------ MODULE SeedRows ------------------------------
(* The concept composers of mock_data/domain: pure functions from the flags  *)
(* of one invocation to the fact rows it writes.  A row keeps what tells two *)
(* rows apart: its table, the row it hangs on (of), its own key (id), when   *)
(* it says it happened (at), and the runner, node, epoch, reference and kind *)
(* columns the readers look at.  A composition the code refuses is Refused.  *)
EXTENDS Integers, Sequences, SequencesExt

CONSTANTS
    None,       \* an absent column or flag
    Refused,    \* what a composer that raises returns
    Done,       \* the reserved terminal a transition may land on
    HubRunner   \* the name that denotes the hub where a runner is named

Statuses == {"stopped", "done", "needs_human", "waiting_on_human", "paused",
             "delivering", "running", "not_ready", "ready"}

(* Ids and clocks.  An invocation draws its ids from one stream and stamps   *)
(* its rows from one clock.  Under --seed both are pinned: stream 0 and the  *)
(* anchor instant 0, the same in every seeded invocation.                    *)
Stream(seeded, n) == IF seeded THEN 0 ELSE n
Mint(stream, draw) == 1000 * stream + draw
Instant(stream, offset) == 10 * stream + offset

Fact(table, of, id, at) ==
    [table |-> table, of |-> of, id |-> id, at |-> at,
     runner |-> None, node |-> None, epoch |-> 0, ref |-> None, tag |-> None]

------------------------------------------------------------------------------
(* Graphs: a build node, executed by a runner, into a deliver node, executed *)
(* by the hub.  A node's id carries its graph.                               *)
GraphDraws == 4
NodeNames == << "build", "deliver", "long" >>
NodeId(graph, name) == 10 * graph + (CHOOSE i \in 1 .. 3 : NodeNames[i] = name)
Executor(name) == IF name = "deliver" THEN "hub" ELSE "runner"
NodeRow(graph, name, at) ==
    [Fact("graph_nodes", graph, NodeId(graph, name), at) EXCEPT !.tag = name]
compose_graph(graph, name, at) ==
    << [Fact("graphs", None, graph, at) EXCEPT !.tag = name],
       NodeRow(graph, "build", at), NodeRow(graph, "deliver", at) >>

(* A lease mint, and the owner row of an epoch nobody owned; the hub's own   *)
(* name denotes no runner in an owner row.                                   *)
LeaseRow(chunk, epoch, runner, at) ==
    [Fact("lease_facts", chunk, None, at) EXCEPT !.runner = runner, !.epoch = epoch]
OwnerOf(runner) == IF runner = HubRunner THEN None ELSE runner
OwnerRow(chunk, epoch, runner, at) ==
    [Fact("epoch_owners", chunk, None, at) EXCEPT !.runner = OwnerOf(runner), !.epoch = epoch]
compose_lease_rows(chunk, epoch, runner, at) ==
    << LeaseRow(chunk, epoch, runner, at), OwnerRow(chunk, epoch, runner, at) >>

(* One chunk at a requested status: c holds status, node (None: the status's *)
(* own default), runner, epoch, mirrored.  nodes are the names its graph has.*)
DefaultNode(status) == IF status \in {"done", "delivering"} THEN "deliver" ELSE "build"
Lands(c) == IF c.node = None THEN DefaultNode(c.status) ELSE c.node
Transition(c, chunk, id, from, to, at) ==
    [Fact("transitions", chunk, id, at) EXCEPT
        !.runner = c.runner, !.epoch = c.epoch, !.ref = from, !.node = to]
RouteRow(c, chunk, id, at) ==
    [Fact("route_created", chunk, id, at) EXCEPT !.runner = c.runner]
Mirrored(c) == c.mirrored
ChunkRefused(c, nodes) ==
    \/ c.status \in {"ready", "not_ready"} /\ c.node # None
    \/ c.status = "delivering" /\ Executor(Lands(c)) # "hub"
    \/ c.status = "running" /\ Executor(Lands(c)) = "hub"
    \/ c.status \notin {"ready", "not_ready"} /\ c.node # None /\ c.node \notin nodes

Promoted(c, chunk, at) ==
    IF c.status = "not_ready" THEN << >> ELSE << Fact("chunk_promoted", chunk, None, at[1]) >>
Leased(c, chunk, at) ==
    IF c.status \in {"done", "delivering", "running"}
    THEN compose_lease_rows(chunk, c.epoch, c.runner, at[2]) ELSE << >>
Routed(c, chunk, id, at) ==
    IF c.status \in {"delivering", "running"} THEN << RouteRow(c, chunk, id, at[3]) >>
    ELSE IF Mirrored(c) THEN << RouteRow(c, chunk, id, at[5]) >> ELSE << >>
Moved(c, chunk, graph, id, at) ==
    LET hop(from, name, offset) == Transition(c, chunk, id, from, NodeId(graph, name), at[offset])
        step(name, offset) == hop(None, name, offset)
        last == Transition(c, chunk, id + 1, NodeId(graph, Lands(c)), Done, at[4])
    IN  CASE c.status \in {"ready", "not_ready"} -> << >>
          [] c.status = "stopped" -> IF c.node = None THEN << >> ELSE << step(c.node, 2) >>
          [] c.status = "done" ->      \* no graph carries a self-edge on build
               IF Lands(c) = "build" THEN << last >>
               ELSE << hop(NodeId(graph, "build"), Lands(c), 3), last >>
          [] c.status \in {"delivering", "running"} -> << step(Lands(c), 4) >>
          [] OTHER -> << step(Lands(c), 2) >>
Held(c, chunk, graph, id, at) ==
    CASE c.status = "stopped" -> << Fact("chunk_stopped", chunk, None, at[3]) >>
      [] c.status = "needs_human" ->
           << [Fact("escalations", chunk, None, at[3]) EXCEPT !.epoch = c.epoch] >>
      [] c.status = "waiting_on_human" ->
           << [Fact("questions", chunk, id + 1, at[3]) EXCEPT
                 !.runner = c.runner, !.epoch = c.epoch, !.node = NodeId(graph, Lands(c))] >>
      [] c.status = "paused" -> << Fact("chunk_pause_facts", chunk, None, at[3]) >>
      [] OTHER -> << >>

(* What compose_chunk returns, its first free draw being the draw-th of the  *)
(* stream.                                                                   *)
compose_chunk(c, chunk, graph, nodes, stream, draw) ==
    LET at == [offset \in 0 .. 5 |-> Instant(stream, offset)]
        id == Mint(stream, draw)
    IN  IF ChunkRefused(c, nodes) THEN Refused
        ELSE << Fact("chunks", graph, chunk, at[0]) >> \o Promoted(c, chunk, at)
             \o Leased(c, chunk, at) \o Moved(c, chunk, graph, id, at)
             \o Held(c, chunk, graph, id, at) \o Routed(c, chunk, id, at)

------------------------------------------------------------------------------
(* The rows the other verbs hang on a chunk, a runner or nothing.            *)
compose_escalation(chunk, epoch, at) ==
    << [Fact("escalations", chunk, None, at) EXCEPT !.epoch = epoch] >>
compose_bounce(chunk, epoch, at) ==
    << [Fact("chunk_bounces", chunk, None, at) EXCEPT !.epoch = epoch] >>

(* A question's trail: q.trail says how far it went.  A delivery implies an  *)
(* answer; the flags that name one without the other are refused.            *)
compose_question(q, id, at) ==
    LET asked == [Fact("questions", q.chunk, id, at) EXCEPT !.runner = q.runner, !.epoch = 1]
        answer == Fact("question_answers", id, id, at + 1)
        delivery == Fact("answer_deliveries", id, None, at + 2)
    IN  CASE q.trail = "open" -> << asked >>
          [] q.trail = "answered" -> << asked, answer >>
          [] q.trail = "delivered" -> << asked, answer, delivery >>
          [] OTHER -> Refused          \* delivered or resumed without its answer

compose_decision(d, id, node, epoch, at) ==
    LET open == [Fact("decisions", d.chunk, id, at) EXCEPT !.node = node, !.epoch = epoch]
    IN  CASE d.resolve = "open" -> << open >>
          [] d.resolve = "choice" -> << open, Fact("decision_resolutions", id, id, at + 1) >>
          [] OTHER -> Refused          \* no choice, a repeated one, or one not offered

compose_artifact(chunk, id, node, epoch, seq, at) ==
    << [Fact("artifacts", chunk, id, at) EXCEPT !.node = node, !.epoch = epoch, !.ref = seq] >>
compose_usage(chunk, runner, node, epoch, at) ==
    << [Fact("usage_facts", chunk, None, at) EXCEPT !.runner = runner, !.node = node, !.epoch = epoch] >>

(* An occurrence of the hub's own machinery concerns no tenant: a hub-level  *)
(* kind naming nothing is a hub_event_log row, an export kind naming         *)
(* something a runner's report, any other hub-level kind naming something    *)
(* refused.                                                                  *)
HubKinds == {"hub-started", "trace-export-failed"}
ExportKinds == {"trace-export-failed"}
compose_event(kind, runner, chunk, at) ==
    LET named == runner # None \/ chunk # None IN
    CASE kind \in HubKinds /\ ~named -> << [Fact("hub_event_log", None, None, at) EXCEPT !.tag = kind] >>
      [] kind \in HubKinds \ ExportKinds /\ named -> Refused
      [] OTHER -> << [Fact("event_log", chunk, None, at) EXCEPT !.runner = runner, !.tag = kind] >>

compose_garden_proposal(closed, id, at) ==
    << Fact("garden_proposals", None, id, at) >>
    \o (IF closed THEN << Fact("garden_proposal_closures", id, None, at + 1) >> ELSE << >>)

Registration(runner, connected, at) ==
    [Fact("runner_registrations", None, runner, at) EXCEPT
        !.tag = IF connected THEN "registered" ELSE "never-connected"]
compose_runner(r, at) ==
    << Registration(r.runner, r.connected, at) >>
    \o (IF r.paused THEN << Fact("runner_pause_facts", r.runner, None, at) >> ELSE << >>)
    \o (IF r.sampled THEN << Fact("runner_external_usage", r.runner, r.runner, at),
                             Fact("runner_external_usage_misses", r.runner, r.runner, at) >>
        ELSE << >>)
compose_runner_pause(runner, local, at) ==
    << IF local THEN [Fact("runner_local_pause_facts", None, None, at) EXCEPT !.runner = runner]
       ELSE Fact("runner_pause_facts", runner, None, at) >>

------------------------------------------------------------------------------
(* The runner store's rows.  A lease always comes with its context, a        *)
(* finalized segment with the final marker its outbox buffers.               *)
compose_lease(chunk, lease, epoch, node, at) ==
    << [Fact("leases", chunk, lease, at) EXCEPT !.epoch = epoch],
       [Fact("lease_context", chunk, lease, at) EXCEPT !.node = node] >>
compose_local_pause(at) == << Fact("local_pause_facts", None, None, at) >>
compose_outbound_fact(kind, chunk, at) ==
    << [Fact("outbound_buffer", chunk, None, at) EXCEPT !.tag = kind] >>
compose_transcript_segment(chunk, segment, lease, finalized, at) ==
    << [Fact("transcript_segments", chunk, segment, at) EXCEPT
          !.ref = lease, !.tag = IF finalized THEN "finalized" ELSE "open"] >>
compose_final_marker(chunk, segment, at) ==
    << [Fact("transcript_outbound_buffer", chunk, None, at) EXCEPT !.ref = segment] >>
compose_runner_usage(chunk, lease, node, at) ==
    << [Fact("usage_facts", chunk, None, at) EXCEPT !.ref = lease, !.node = node, !.epoch = 1] >>
compose_ask_park(chunk, lease, question, at) ==
    << [Fact("asks", chunk, question, at) EXCEPT !.ref = lease],
       [Fact("park_facts", chunk, None, at) EXCEPT !.ref = lease] >>
compose_env_binding(chunk, at) == << Fact("env_bindings", chunk, None, at) >>
compose_takeover(chunk, takeover, lease, at) ==
    << [Fact("takeovers", chunk, takeover, at) EXCEPT !.ref = lease] >>
compose_lease_closure(chunk, lease, reason, at) ==
    << [Fact("lease_closures", chunk, None, at) EXCEPT !.id = lease, !.tag = reason] >>

------------------------------------------------------------------------------
(* A scenario board: b holds chunks (how many), runner (None: one minted per *)
(* chunk), register and stress.  Chunk i takes the i-th status of the cycle. *)
StatusOrder == << "ready", "running", "needs_human", "waiting_on_human", "done",
                  "paused", "delivering", "stopped", "not_ready" >>
MirroredStatuses == {"waiting_on_human", "needs_human"}
BoardStatus(i) == StatusOrder[((i - 1) % Len(StatusOrder)) + 1]
BoardChunk(stream, i) == Mint(stream, 10 * i)
BoardRunner(b, stream, i) == IF b.runner = None THEN Mint(stream, 100 + i) ELSE b.runner
MutMirrorsAll(b, i) == b.runner # None
BoardMirrors(b, i) == b.runner # None /\ BoardStatus(i) \in MirroredStatuses

BoardChunkRows(b, stream, i) ==
    compose_chunk([status |-> BoardStatus(i), node |-> None, runner |-> BoardRunner(b, stream, i),
                   epoch |-> 1, mirrored |-> BoardMirrors(b, i)],
                  BoardChunk(stream, i), Mint(stream, 1), {"build", "deliver"}, stream, 10 * i + 1)

(* One registration per runner the chunks name, the standing one skipped,    *)
(* and, on an unpinned board, the first one's twin and a runner that never   *)
(* connected.                                                                *)
BoardRegistrations(b, stream) ==
    LET at == Instant(stream, 0) IN
    IF b.runner # None
    THEN IF b.register THEN << Registration(b.runner, TRUE, at) >> ELSE << >>
    ELSE [i \in 1 .. b.chunks |-> Registration(Mint(stream, 100 + i), TRUE, at)]
         \o << Registration(Mint(stream, 201), TRUE, at), Registration(Mint(stream, 202), FALSE, at) >>

BoardArtifacts(b, stream) ==
    LET node(n) == NodeId(Mint(stream, 1), n)
        row(i, n, seq) == compose_artifact(BoardChunk(stream, i), Mint(stream, 10 * i + seq),
                                           node(n), 1, seq, Instant(stream, 0))
        at(s, rows) == IF \E i \in 1 .. b.chunks : BoardStatus(i) = s THEN rows ELSE << >>
    IN  row(1, "build", 1) \o at("waiting_on_human", row(4, "build", 1))
        \o at("done", row(5, "build", 1) \o row(5, "deliver", 2))

BoardUsage(b, stream) ==
    FlattenSeq([i \in 1 .. b.chunks |->
        IF i % 2 = 0 THEN << >>
        ELSE compose_usage(BoardChunk(stream, i), BoardRunner(b, stream, i),
                           NodeId(Mint(stream, 1), DefaultNode(BoardStatus(i))), 1, Instant(stream, 0))])

BoardEvents(b, stream) ==
    LET at == Instant(stream, 0)
        first == BoardRunner(b, stream, 1)
        escalated == IF b.chunks >= 3
                     THEN compose_event("chunk.escalated", BoardRunner(b, stream, 3), BoardChunk(stream, 3), at)
                     ELSE << >>
    IN  compose_event("runner.registered", first, None, at) \o compose_event("runner.paused", first, None, at)
        \o escalated \o compose_event("scenario.seeded", None, None, at)

(* --stress: a runner of its own, a waiting chunk with two more questions,   *)
(* and a running chunk with an artifact on a node minted into the graph.     *)
StressRows(stream) ==
    LET graph == Mint(stream, 1)
        at == Instant(stream, 0)
        runner == Mint(stream, 400)
        c(status, node) == [status |-> status, node |-> node, runner |-> runner, epoch |-> 1, mirrored |-> FALSE]
        waiting == Mint(stream, 401)
        running == Mint(stream, 402)
        ask(id) == compose_question([chunk |-> waiting, runner |-> runner, trail |-> "open"], Mint(stream, id), at)
    IN  << Registration(runner, TRUE, at) >>
        \o compose_chunk(c("waiting_on_human", None), waiting, graph, {"build", "deliver"}, stream, 411)
        \o ask(403) \o ask(404) \o << NodeRow(graph, "long", at) >>
        \o compose_chunk(c("running", "long"), running, graph, {"build", "deliver", "long"}, stream, 421)
        \o compose_artifact(running, Mint(stream, 405), NodeId(graph, "long"), 1, 1, at)

compose_board_scenario(b, stream) ==
    IF b.chunks < 1 THEN Refused
    ELSE compose_graph(Mint(stream, 1), "default", Instant(stream, 0))
         \o FlattenSeq([i \in 1 .. b.chunks |-> BoardChunkRows(b, stream, i)])
         \o BoardRegistrations(b, stream) \o BoardUsage(b, stream) \o BoardArtifacts(b, stream)
         \o compose_runner_pause(BoardRunner(b, stream, 1), TRUE, Instant(stream, 0))
         \o BoardEvents(b, stream) \o (IF b.stress THEN StressRows(stream) ELSE << >>)

(* The status each chunk of the board was composed to derive.                *)
BoardAsked(b, stream) ==
    [c \in {BoardChunk(stream, i) : i \in 1 .. b.chunks}
             \cup (IF b.stress THEN {Mint(stream, 401), Mint(stream, 402)} ELSE {}) |->
        CASE c = Mint(stream, 401) -> "waiting_on_human"
          [] c = Mint(stream, 402) -> "running"
          [] OTHER -> BoardStatus((c - Mint(stream, 0)) \div 10)]

(* The runner store's half of a fleet: the waiting chunk's lease parked on   *)
(* an ask, the escalated chunk's closed lease under an open takeover, each   *)
(* with what the runner's outbox already shipped.                            *)
MinimumForMirror == 4
WaitingMirror(stream) ==
    LET at == Instant(stream, 0)
        node == NodeId(Mint(stream, 1), "build")
        chunk == BoardChunk(stream, 4)
        lease == Mint(stream, 501)
    IN  compose_lease(chunk, lease, 1, node, at) \o compose_env_binding(chunk, at)
        \o compose_ask_park(chunk, lease, Mint(stream, 503), at) \o compose_runner_usage(chunk, lease, node, at)
        \o compose_transcript_segment(chunk, Mint(stream, 504), lease, FALSE, at)
        \o compose_outbound_fact("question.asked", chunk, at)
EscalatedMirror(stream, reason) ==
    LET at == Instant(stream, 0)
        node == NodeId(Mint(stream, 1), "build")
        chunk == BoardChunk(stream, 3)
        lease == Mint(stream, 502)
    IN  compose_lease(chunk, lease, 1, node, at) \o compose_lease_closure(chunk, lease, reason, at)
        \o compose_env_binding(chunk, at) \o compose_takeover(chunk, Mint(stream, 505), lease, at)
        \o compose_runner_usage(chunk, lease, node, at)
        \o compose_transcript_segment(chunk, Mint(stream, 506), lease, TRUE, at)
        \o compose_final_marker(chunk, Mint(stream, 506), at)
        \o compose_outbound_fact("escalation.recorded", chunk, at)
FleetRows(stream, reason) == WaitingMirror(stream) \o EscalatedMirror(stream, reason)

------------------------------------------------------------------------------
(* The hub's own derivation of a chunk's status from its facts, first match  *)
(* wins: the reference the composers are written against.                    *)
DerivedStatus(facts, chunk) ==
    LET own(table) == {f \in facts : f.table = table /\ f.of = chunk}
        newest(s) == {f \in s : \A g \in s : f.at >= g.at}
        unanswered == {q \in own("questions") :
                         \A a \in facts : a.table = "question_answers" => a.of # q.id}
        undecided == {d \in own("decisions") : \A t \in own("transitions") : t.at <= d.at}
        open == {e \in own("escalations") : \A l \in own("lease_facts") : l.at <= e.at}
        hubNode(n) == \E f \in facts : f.table = "graph_nodes" /\ f.id = n /\ Executor(f.tag) = "hub"
    IN  IF own("chunk_stopped") # {} THEN "stopped"
        ELSE IF \E t \in newest(own("transitions")) : t.node = Done THEN "done"
        ELSE IF open # {} THEN "needs_human"
        ELSE IF unanswered \cup undecided # {} THEN "waiting_on_human"
        ELSE IF own("chunk_pause_facts") # {} THEN "paused"
        ELSE IF own("route_created") # {}
             THEN IF \E t \in newest(own("transitions")) : hubNode(t.node) THEN "delivering" ELSE "running"
        ELSE IF own("chunk_promoted") = {} THEN "not_ready" ELSE "ready"
=============================================================================
