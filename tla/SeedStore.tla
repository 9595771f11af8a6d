------------------------------ MODULE SeedStore ------------------------------
(* mock-data: the fixture tool that writes fact rows straight into a hub's   *)
(* and a runner's live store.  Every verb composes its rows (SeedRows) from  *)
(* its flags and from what it reads, then hands them to the store, which     *)
(* stamps them, guards them and lands each hand-over in one transaction or   *)
(* not at all.  Invocations are processes of their own: two may interleave   *)
(* between a read and the write that rests on it, and one may be killed      *)
(* between two of its writes.                                                *)
(*                                                                           *)
(* An invocation refused before it writes anything changes nothing and is    *)
(* not a step.  Schema keys and foreign keys are the stores', not this       *)
(* repository's: they are modelled from how the code relies on them.         *)
EXTENDS SeedRows, FiniteSets, FiniteSetsExt

CONSTANTS
    Procs,          \* concurrent invocations
    MaxInvocations, \* bound: how many invocations begin
    Tenants,        \* the tenant ids a hub may hold
    Runners,        \* runner ids a caller may name, the hub's own name aside
    SeedRunner,     \* the id a verb falls back to
    Stores,         \* the stores the tool is first run against
    GraphCalls,     \* the flags of each verb that takes a choice of them
    ChunkCalls, FactCalls, LeaseCalls, RunnerCalls, BoardCalls, FleetCalls

(* Ids are numbers, the terminal and an absent column are none of them; no   *)
(* call seeds a chunk a fleet mirrors, only a board does; what a verb writes *)
(* into a runner store is for a runner or names none.                        *)
ASSUME ColumnAssumption == None \notin Int /\ Done \notin Int /\ None \notin Tenants
ASSUME CallAssumption ==
    /\ \A a \in ChunkCalls : a.status \in Statuses /\ ~a.mirrored
    /\ \A a \in BoardCalls \cup FleetCalls : a.chunks \in Int
    /\ \A a \in FactCalls : a.verb = "usage" => a.runner \in Runners \cup {None}
    /\ \A a \in LeaseCalls : a.store = "runner" => a.runner \in Runners \cup {None}
    /\ \A a \in RunnerCalls \cup FleetCalls : a.runner \in Runners \cup {None}
ASSUME StoreAssumption ==
    /\ MaxInvocations \in Nat
    /\ \A s \in Stores :
        /\ s.tenants \subseteq Tenants /\ s.identity \in Runners \cup {None}
        /\ \A a \in s.earlier : /\ a.tenant \in s.tenants /\ a.status \in Statuses /\ ~a.mirrored
                                /\ ~ChunkRefused(a, {"build", "deliver"})
        /\ \A a, b \in s.earlier : a = b

VARIABLES
    tenanted,   \* whether the hub store's schema has tenants and projects
    hub,        \* the hub store: rows with the tenant they are stamped with
    runner,     \* the runner store: rows, identity row, outbox counters
    inv,        \* per process, the invocation in flight
    begun       \* invocations begun

vars == <<tenanted, hub, runner, inv, begun>>

Lanes == {"outbound", "transcript"}
Laned == [outbound_buffer |-> "outbound", transcript_outbound_buffer |-> "transcript"]
LaneOf(table) == IF table \in DOMAIN Laned THEN Laned[table] ELSE "none"

Idle == [steps |-> << >>, asked |-> [c \in {} |-> None], pinned |-> None]
Flying(p) == inv[p].steps # << >>

(* One hand-over to a store: the rows of one SeedService.seed, the tenant    *)
(* and the runner the store was opened for.                                  *)
Step(store, tenant, named, rows) ==
    [store |-> store, tenant |-> tenant, named |-> named, rows |-> rows]

------------------------------------------------------------------------------
(* The schemas, as the writes meet them.                                     *)
GlobalTables == {"tenants", "hub_event_log"}
ProjectOwned == {"chunks", "runner_registrations"}
NotInPlain == {"hub_event_log"}
ChunkFacts == {"chunk_promoted", "chunk_stopped", "chunk_bounces", "escalations", "questions",
               "chunk_pause_facts", "transitions", "lease_facts", "epoch_owners", "route_created",
               "artifacts", "usage_facts", "decisions"}
Keyed == {"graphs", "graph_nodes", "chunks", "questions", "question_answers", "transitions",
          "route_created", "artifacts", "decisions", "decision_resolutions", "runner_registrations",
          "runner_external_usage", "runner_external_usage_misses", "garden_proposals",
          "leases", "lease_context", "transcript_segments", "takeovers"}
ParentTable(f) ==
    CASE f.table \in ChunkFacts \cup {"event_log"} -> "chunks"
      [] f.table \in {"chunks", "graph_nodes"} -> "graphs"
      [] f.table \in {"question_answers", "answer_deliveries"} -> "questions"
      [] f.table = "decision_resolutions" -> "decisions"
      [] f.table = "runner_pause_facts" -> "runner_registrations"
      [] f.table = "garden_proposal_closures" -> "garden_proposals"
      [] OTHER -> "none"
Clash(f, g) ==
    /\ f.table = g.table
    /\ \/ f.table \in Keyed /\ f.id = g.id
       \/ f.table = "epoch_owners" /\ f.of = g.of /\ f.epoch = g.epoch
Parented(f, facts) ==
    \/ ParentTable(f) = "none"
    \/ f.table = "event_log" /\ f.of = None
    \/ \E g \in facts : g.table = ParentTable(f) /\ g.id = f.of

Facts(entries) == {e.fact : e \in entries}
FactsIn(tables) == {e.fact : e \in {x \in hub : x.fact.table \in tables}}
Rows(s) == {s[i] : i \in DOMAIN s}

------------------------------------------------------------------------------
(* Which tenant a touch of some tables lands in or reads from, and whether   *)
(* the tenant's only project settles where project-owned rows land.          *)
HeldTenants == {f.id : f \in {g \in Facts(hub) : g.table = "tenants"}}
ResolveTenant(named) ==
    IF ~tenanted THEN IF named = None THEN None ELSE Refused
    ELSE IF named # None THEN IF named \in HeldTenants THEN named ELSE Refused
    ELSE IF Cardinality(HeldTenants) = 1 THEN CHOOSE t \in HeldTenants : TRUE ELSE Refused
TenantFor(tables, named) ==
    IF named = None /\ tables \subseteq GlobalTables THEN None ELSE ResolveTenant(named)
TenantProjects(t) == {e \in hub : e.fact.table = "projects" /\ e.tenant = t}
ProjectSettled(tables, t) ==
    tenanted /\ tables \cap ProjectOwned # {} => Cardinality(TenantProjects(t)) = 1

(* A read of the hub store is filtered to the resolved tenant.               *)
Query(table, t) == {e.fact : e \in {x \in hub : x.fact.table = table /\ (t # None => x.tenant = t)}}
Newest(facts) == {f \in facts : \A g \in facts : f.at >= g.at}

StampOf(f, t) == IF f.table \in GlobalTables THEN None ELSE t
Stamped(rows, t) == {[fact |-> f, tenant |-> StampOf(f, t)] : f \in Rows(rows)}

(* The runner id a runner store's rows are stamped with: the named one, the  *)
(* identity row's, and never one that disagrees with the other.              *)
RunnerFor(named) ==
    IF named = None THEN runner.identity
    ELSE IF runner.identity \notin {None, named} THEN Refused ELSE named

(* Outbox seqs: each lane counts on from the greater of its counter and the  *)
(* highest seq it holds.                                                     *)
HeldSeqs(r, lane) == {e.seq : e \in {x \in runner.rows : x.runner = r /\ LaneOf(x.fact.table) = lane}}
MutCounterOnly(r, lane) == runner.counter[<<r, lane>>]
LastIssued(r, lane) == Max({runner.counter[<<r, lane>>]} \cup HeldSeqs(r, lane))
LaneRows(rows, lane, upto) == {i \in 1 .. upto : LaneOf(rows[i].table) = lane}
AssignedSeq(rows, r, i) ==
    LET lane == LaneOf(rows[i].table)
    IN  IF lane = "none" THEN 0 ELSE LastIssued(r, lane) + Cardinality(LaneRows(rows, lane, i))
Assigned(rows, r) ==
    {[fact |-> rows[i], runner |-> r, seq |-> AssignedSeq(rows, r, i)] : i \in DOMAIN rows}
Advanced(rows, r) ==
    [k \in DOMAIN runner.counter |->
        IF k[1] = r /\ LaneRows(rows, k[2], Len(rows)) # {}
        THEN LastIssued(r, k[2]) + Cardinality(LaneRows(rows, k[2], Len(rows)))
        ELSE runner.counter[k]]

Clashing(rows, facts) ==
    {i \in DOMAIN rows : \/ \E j \in 1 .. i - 1 : Clash(rows[i], rows[j])
                         \/ \E g \in facts : Clash(rows[i], g)}
Orphans(rows, facts) == {f \in Rows(rows) : ~Parented(f, facts \cup Rows(rows))}

HubTakes(s) ==
    LET tables == {f.table : f \in Rows(s.rows)}
        t == TenantFor(tables, s.tenant)
    IN  /\ t # Refused /\ ProjectSettled(tables, t)
        /\ ~tenanted => tables \cap NotInPlain = {}
        /\ Clashing(s.rows, Facts(hub)) = {} /\ Orphans(s.rows, Facts(hub)) = {}
RunnerTakes(s) ==
    /\ s.tenant = None
    /\ RunnerFor(s.named) \notin {None, Refused}
    /\ Clashing(s.rows, Facts(runner.rows)) = {}
Takes(s) ==
    s.rows # Refused /\ IF s.store = "hub" THEN HubTakes(s) ELSE RunnerTakes(s)

------------------------------------------------------------------------------
(* ReflectedStore.write: the next hand-over of an invocation lands whole, or *)
(* is refused whole and the invocation ends there.                           *)
HandedOver(i) ==
    IF Len(i.steps) = 1 THEN Idle
    ELSE [steps |-> Tail(i.steps), asked |-> i.asked, pinned |-> i.pinned]
land(p) ==
    LET s == Head(inv[p].steps) IN
    /\ Flying(p) /\ Takes(s)
    /\ IF s.store = "hub"
       THEN /\ hub' = hub \cup Stamped(s.rows, TenantFor({f.table : f \in Rows(s.rows)}, s.tenant))
            /\ UNCHANGED runner
       ELSE LET r == RunnerFor(s.named) IN
            /\ runner' = [rows |-> runner.rows \cup Assigned(s.rows, r),
                          identity |-> runner.identity, counter |-> Advanced(s.rows, r)]
            /\ UNCHANGED hub
    /\ inv' = [inv EXCEPT ![p] = HandedOver(inv[p])]
    /\ UNCHANGED <<tenanted, begun>>
refuse(p) ==
    /\ Flying(p) /\ ~Takes(Head(inv[p].steps))
    /\ inv' = [inv EXCEPT ![p] = Idle]
    /\ UNCHANGED <<tenanted, hub, runner, begun>>
(* The process is killed between two hand-overs.                             *)
crash(p) ==
    /\ Flying(p)
    /\ inv' = [inv EXCEPT ![p] = Idle]
    /\ UNCHANGED <<tenanted, hub, runner, begun>>

Begin(p, steps, asked, pinned) ==
    /\ ~Flying(p) /\ begun < MaxInvocations
    /\ begun' = begun + 1
    /\ inv' = [inv EXCEPT ![p] = [steps |-> steps, asked |-> asked, pinned |-> pinned]]
    /\ UNCHANGED <<tenanted, hub, runner>>
Seed(p, store, tenant, named, rows) ==
    rows # Refused /\ Begin(p, << Step(store, tenant, named, rows) >>, Idle.asked, None)
Fresh(seeded) == Stream(seeded, begun + 1)

(* A reset keeps a tenanted hub's global tables, its tenants and what each   *)
(* of them starts with; any other store is emptied whole.  It is run between *)
(* invocations, not under one.                                               *)
StartingState(e) ==
    \/ e.fact.table \in GlobalTables \cup {"work_item_sequence"}
    \/ e.fact.table = "projects" /\ e.fact.tag = "default"
NoCounters == [k \in Runners \X Lanes |-> 0]
reset(store) ==
    /\ begun < MaxInvocations /\ \A p \in Procs : ~Flying(p)
    /\ begun' = begun + 1
    /\ IF store = "hub"
       THEN hub' = (IF tenanted THEN {e \in hub : StartingState(e)} ELSE {}) /\ UNCHANGED runner
       ELSE runner' = [rows |-> {}, identity |-> None, counter |-> NoCounters] /\ UNCHANGED hub
    /\ UNCHANGED <<tenanted, inv>>

------------------------------------------------------------------------------
(* create graph and create chunk.  A chunk goes onto the newest graph of the *)
(* asked name; with none there, one is minted and written first, on its own. *)
create_graph(p, a) ==
    LET stream == Fresh(a.seeded)
    IN  Seed(p, "hub", a.tenant, None, compose_graph(Mint(stream, 1), "default", Instant(stream, 0)))

GraphNodes(g, t) == {f.tag : f \in {n \in Query("graph_nodes", t) : n.of = g}}
ChunkSteps(a, g, nodes, stream, draw, first) ==
    LET chunk == IF a.chunk = None THEN Mint(stream, draw) ELSE a.chunk
        next == IF a.chunk = None THEN draw + 1 ELSE draw
        rows == compose_chunk(a, chunk, g, nodes, stream, next)
    IN  [steps |-> first \o << Step("hub", a.tenant, None, rows) >>,
         asked |-> [c \in {chunk} |-> a.status]]
create_chunk(p, a) ==
    LET t == ResolveTenant(a.tenant)
        stream == Fresh(a.seeded)
        held == {g \in Query("graphs", t) : a.graph # None => g.tag = a.graph}
        name == IF a.graph = None THEN "default" ELSE a.graph
        minted == Step("hub", a.tenant, None, compose_graph(Mint(stream, 1), name, Instant(stream, 0)))
    IN  /\ t # Refused
        /\ \/ \E g \in Newest(held) :
                LET s == ChunkSteps(a, g.id, GraphNodes(g.id, t), stream, 1, << >>)
                IN  Begin(p, s.steps, s.asked, None)
           \/ /\ held = {}
              /\ LET s == ChunkSteps(a, Mint(stream, 1), {"build", "deliver"}, stream,
                                     GraphDraws + 1, << minted >>)
                 IN  Begin(p, s.steps, s.asked, None)

------------------------------------------------------------------------------
(* What the verbs about a seeded chunk read: where its newest transition     *)
(* landed (where it left from, when that is no node of a graph), and its     *)
(* newest lease.                                                             *)
Landings(c, t) ==
    LET landed(m) == \E n \in Query("graph_nodes", t) : n.id = m.node
    IN  {IF landed(m) THEN m.node ELSE m.ref :
            m \in Newest({x \in Query("transitions", t) : x.of = c})}
NewestLeases(c, t) == Newest({l \in Query("lease_facts", t) : l.of = c})
LeaseEpochs(c, t) == IF NewestLeases(c, t) = {} THEN {1} ELSE {l.epoch : l \in NewestLeases(c, t)}
LeaseRunners(c, t, otherwise) ==
    IF NewestLeases(c, t) = {} THEN {otherwise} ELSE {l.runner : l \in NewestLeases(c, t)}

(* The node an artifact or a decision is about: a node of that name in the   *)
(* chunk's graph, or the node its newest transition settles on.              *)
NamedNodes(c, t, name) ==
    {n.id : n \in {x \in Query("graph_nodes", t) :
        x.tag = name /\ \E k \in Query("chunks", t) : k.id = c /\ k.of = x.of}}
StepNodes(a, t) ==
    IF a.node # None THEN NamedNodes(a.chunk, t, a.node)
    ELSE {n \in Landings(a.chunk, t) : \E x \in Query("graph_nodes", t) : x.id = n}
NextSeq(c, t) == Max({0} \cup {x.ref : x \in {y \in Query("artifacts", t) : y.of = c}}) + 1
SeededHere(c, t) == \E k \in Query("chunks", t) : k.id = c

create_artifact(p, a) ==
    LET t == ResolveTenant(a.tenant)
        stream == Fresh(FALSE)
    IN  /\ a.verb = "artifact" /\ t # Refused /\ SeededHere(a.chunk, t)
        /\ \E n \in StepNodes(a, t), e \in LeaseEpochs(a.chunk, t) :
             Seed(p, "hub", a.tenant, None, compose_artifact(a.chunk, Mint(stream, 1), n, e,
                                                             NextSeq(a.chunk, t), Instant(stream, 0)))
create_decision(p, a) ==
    LET t == ResolveTenant(a.tenant)
        stream == Fresh(FALSE)
    IN  /\ a.verb = "decision" /\ t # Refused /\ SeededHere(a.chunk, t)
        /\ \E n \in StepNodes(a, t), e \in LeaseEpochs(a.chunk, t) :
             Seed(p, "hub", a.tenant, None, compose_decision(a, Mint(stream, 1), n, e, Instant(stream, 0)))
create_usage(p, a) ==
    LET t == ResolveTenant(a.tenant)
        at == Instant(Fresh(FALSE), 0)
    IN  /\ a.verb = "usage" /\ t # Refused
        /\ \/ \E n \in Landings(a.chunk, t) \ {None}, e \in LeaseEpochs(a.chunk, t),
                 r \in LeaseRunners(a.chunk, t, SeedRunner) :
                Seed(p, "hub", a.tenant, None, compose_usage(a.chunk, r, n, e, at))
           \/ Seed(p, "runner", None, a.runner, compose_runner_usage(a.chunk, Mint(0, 1), Mint(0, 11), at))
create_event(p, a) ==
    LET t == ResolveTenant(a.tenant)
        runners == IF a.runner # None THEN {a.runner}
                   ELSE IF a.chunk # None THEN LeaseRunners(a.chunk, t, SeedRunner)
                   ELSE IF a.kind \in HubKinds THEN {None} ELSE {SeedRunner}
    IN  /\ a.verb = "event" /\ (a.chunk # None => t # Refused)
        /\ \E r \in runners :
             Seed(p, "hub", a.tenant, None, compose_event(a.kind, r, a.chunk, Instant(Fresh(FALSE), 0)))
create_escalation(p, a) ==
    a.verb = "escalation" /\
    Seed(p, "hub", a.tenant, None, compose_escalation(a.chunk, 1, Instant(Fresh(FALSE), 0)))
create_bounce(p, a) ==
    a.verb = "bounce" /\
    Seed(p, "hub", a.tenant, None, compose_bounce(a.chunk, 1, Instant(Fresh(FALSE), 0)))
create_question(p, a) ==
    LET stream == Fresh(a.seeded)
    IN  /\ a.verb = "question"
        /\ Seed(p, "hub", a.tenant, None, compose_question(a, Mint(stream, 1), Instant(stream, 0)))
create_garden_proposal(p, a) ==
    LET stream == Fresh(FALSE)
    IN  /\ a.verb = "garden"
        /\ Seed(p, "hub", a.tenant, None,
                compose_garden_proposal(a.closed, Mint(stream, 1), Instant(stream, 0)))

(* create lease.  On the hub the epoch's owner is read first: another owner  *)
(* refuses the lease, none at all adds the owner row.                        *)
Owners(c, epoch, t) == {o.runner : o \in {x \in Query("epoch_owners", t) : x.of = c /\ x.epoch = epoch}}
MutOwnerUnchecked(owners, r) == TRUE
OwnerAllows(owners, r) == owners \subseteq {OwnerOf(r)}
create_lease(p, a) ==
    LET t == ResolveTenant(a.tenant)
        at == Instant(Fresh(FALSE), 0)
        owners == Owners(a.chunk, a.epoch, t)
    IN  \/ /\ a.store = "hub" /\ t # Refused /\ OwnerAllows(owners, a.runner)
           /\ Seed(p, "hub", a.tenant, None,
                   IF owners = {} THEN compose_lease_rows(a.chunk, a.epoch, a.runner, at)
                   ELSE << LeaseRow(a.chunk, a.epoch, a.runner, at) >>)
        \/ /\ a.store = "runner"
           /\ Seed(p, "runner", a.tenant, a.runner,
                   compose_lease(a.chunk, Mint(Fresh(FALSE), 1), a.epoch, None, at))

(* The verbs about runners: registration, the fleet's brake and the local    *)
(* one, and the runner store's own brake and transcript segments.            *)
create_runner(p, a) ==
    a.verb = "runner" /\ Seed(p, "hub", a.tenant, None, compose_runner(a, Instant(Fresh(FALSE), 0)))
create_runner_pause(p, a) ==
    LET at == Instant(Fresh(FALSE), 0)
    IN  /\ a.verb = "pause"
        /\ \/ Seed(p, "hub", a.tenant, None, compose_runner_pause(a.runner, a.paused, at))
           \/ a.paused /\ Seed(p, "runner", None, a.runner, compose_local_pause(at))
create_transcript_segment(p, a) ==
    LET stream == Fresh(FALSE)
        at == Instant(stream, 0)
        segment == compose_transcript_segment(None, Mint(stream, 1), None, a.paused, at)
    IN  /\ a.verb = "segment"
        /\ Seed(p, "runner", a.tenant, a.runner,
                IF a.paused THEN segment \o compose_final_marker(None, Mint(stream, 1), at) ELSE segment)

------------------------------------------------------------------------------
(* scenario board: one write.  scenario fleet: the runner's brake, the board *)
(* pinned to it, and the runner's half, three writes in two stores.  The     *)
(* registration it looks for decides whether the board mints one; a runner   *)
(* directory whose runner the hub does not know is refused.                  *)
scenario_board(p, a) ==
    LET stream == Fresh(a.seeded)
        b == [chunks |-> a.chunks, runner |-> None, register |-> TRUE, stress |-> a.stress]
        rows == compose_board_scenario(b, stream)
    IN  rows # Refused /\ Begin(p, << Step("hub", a.tenant, None, rows) >>, BoardAsked(b, stream), None)

MutBoardFirst(a, board, stream) ==
    << Step("hub", a.tenant, None, board),
       Step("runner", None, a.runner, compose_local_pause(Instant(stream, 0))),
       Step("runner", None, a.runner, FleetRows(stream, "escalated")) >>
FleetSteps(a, board, stream) ==
    << Step("runner", None, a.runner, compose_local_pause(Instant(stream, 0))),
       Step("hub", a.tenant, None, board),
       Step("runner", None, a.runner, FleetRows(stream, "escalated")) >>
scenario_fleet(p, a) ==
    LET t == ResolveTenant(a.tenant)
        stream == Fresh(a.seeded)
        known == \E g \in Query("runner_registrations", t) : g.id = a.runner
        b == [chunks |-> a.chunks, runner |-> a.runner, register |-> ~known, stress |-> FALSE]
    IN  /\ a.chunks >= MinimumForMirror /\ t # Refused /\ (a.dir => known)
        /\ Begin(p, FleetSteps(a, compose_board_scenario(b, stream), stream), BoardAsked(b, stream), a.runner)

(* The daemons, outside this repository: a live runner registers with its    *)
(* hub, and an operator gives a tenant a second project.                     *)
daemon_registers(r) ==
    /\ runner.identity = None /\ begun < MaxInvocations
    /\ runner' = [runner EXCEPT !.identity = r]
    /\ hub' = IF \E f \in Facts(hub) : f.table = "runner_registrations" /\ f.id = r THEN hub
              ELSE hub \cup {[fact |-> Registration(r, TRUE, 0), tenant |->
                                IF tenanted THEN CHOOSE t \in HeldTenants : TRUE ELSE None]}
    /\ UNCHANGED <<tenanted, inv, begun>>
daemon_adds_project(t) ==
    /\ tenanted /\ t \in HeldTenants /\ Cardinality(TenantProjects(t)) = 1 /\ begun < MaxInvocations
    /\ hub' = hub \cup {[fact |-> [Fact("projects", None, None, 0) EXCEPT !.tag = "second"], tenant |-> t]}
    /\ UNCHANGED <<tenanted, runner, inv, begun>>

------------------------------------------------------------------------------
(* A hub before tenancy, or a migrated one with some tenants, each with what *)
(* its creation gave it, and maybe a chunk an earlier seeded invocation left *)
(* there; a runner store fresh, or holding an outbox row from before its     *)
(* counters.                                                                 *)
TenantRows(t) == {[fact |-> Fact("tenants", None, t, 0), tenant |-> None],
                  [fact |-> [Fact("projects", None, None, 0) EXCEPT !.tag = "default"], tenant |-> t],
                  [fact |-> Fact("work_item_sequence", None, None, 0), tenant |-> t]}
Earlier(a) ==
    Stamped(compose_graph(Mint(0, 1), "default", Instant(0, 0))
            \o compose_chunk(a, a.chunk, Mint(0, 1), {"build", "deliver"}, 0, GraphDraws + 1), a.tenant)
OldOutbox(r) == {[fact |-> compose_outbound_fact("old", None, 0)[1], runner |-> r, seq |-> 1]}
Init ==
    /\ \E s \in Stores :
        /\ tenanted = (s.tenants # {})
        /\ hub = (UNION {TenantRows(t) : t \in s.tenants}) \cup (UNION {Earlier(a) : a \in s.earlier})
        /\ runner = [rows |-> IF s.identity = None THEN {} ELSE OldOutbox(s.identity),
                     identity |-> s.identity, counter |-> NoCounters]
    /\ inv = [p \in Procs |-> Idle] /\ begun = 0

CreateFact(p) ==
    \E a \in FactCalls :
        \/ create_artifact(p, a) \/ create_decision(p, a) \/ create_usage(p, a) \/ create_event(p, a)
        \/ create_escalation(p, a) \/ create_bounce(p, a) \/ create_question(p, a)
        \/ create_garden_proposal(p, a)
CreateRunnerFact(p) ==
    \E a \in RunnerCalls :
        create_runner(p, a) \/ create_runner_pause(p, a) \/ create_transcript_segment(p, a)
Next ==
    \/ \E p \in Procs :
        \/ land(p) \/ refuse(p) \/ crash(p)
        \/ \E a \in GraphCalls : create_graph(p, a)
        \/ \E a \in ChunkCalls : create_chunk(p, a)
        \/ CreateFact(p) \/ CreateRunnerFact(p)
        \/ \E a \in LeaseCalls : create_lease(p, a)
        \/ \E a \in BoardCalls : scenario_board(p, a)
        \/ \E a \in FleetCalls : scenario_fleet(p, a)
    \/ \E store \in {"hub", "runner"} : reset(store)
    \/ \E r \in Runners : daemon_registers(r)
    \/ \E t \in Tenants : daemon_adds_project(t)
Spec == Init /\ [][Next]_vars
------------------------------------------------------------------------------
(* Type invariant: every row of a tenant-owned table of a tenanted hub       *)
(* carries a tenant the store holds, every runner row its runner, and        *)
(* exactly the outbox rows a seq.                                            *)
TypeOK ==
    /\ tenanted \in BOOLEAN /\ begun \in 0 .. MaxInvocations
    /\ \A e \in hub : e.tenant \in IF tenanted /\ e.fact.table \notin GlobalTables
                                   THEN HeldTenants ELSE {None}
    /\ \A e \in runner.rows : e.runner \in Runners /\ (e.seq > 0 <=> LaneOf(e.fact.table) \in Lanes)
    /\ runner.identity \in Runners \cup {None} /\ runner.counter \in [Runners \X Lanes -> Nat]
    /\ \A p \in Procs : \A i \in DOMAIN inv[p].steps : inv[p].steps[i].store \in {"hub", "runner"}

(* A runner's outbox never issues one seq twice, whatever the store held     *)
(* before its counters and however seeding, other seeding and resets mix,    *)
(* and a lane's counter is never behind what the lane holds.                 *)
SeqsIssuedOnce ==
    \A r \in Runners, lane \in Lanes :
        LET held == {e \in runner.rows : e.runner = r /\ LaneOf(e.fact.table) = lane} IN
        /\ \A e, f \in held : e.seq = f.seq => e = f
        /\ runner.counter[<<r, lane>>] # 0 => \A e \in held : e.seq <= runner.counter[<<r, lane>>]

(* What a verb resolved by reading stays in the tenant it was asked for: a   *)
(* chunk is on its own tenant's graph, an artifact or a decision on its own  *)
(* tenant's chunk.                                                           *)
ReadsStayInTenant ==
    \A e \in {x \in hub : x.fact.table \in {"chunks", "artifacts", "decisions"}} :
        \E k \in hub : /\ k.fact.table = ParentTable(e.fact) /\ k.fact.id = e.fact.of
                       /\ k.tenant = e.tenant

(* A transition, artifact or decision names a node of its chunk's own graph  *)
(* (or the terminal), although no foreign key says so.                       *)
NodesOfOwnGraph ==
    LET graphOf == [k \in {f.id : f \in FactsIn({"chunks"})} |->
                        (CHOOSE f \in FactsIn({"chunks"}) : f.id = k).of]
        nodes == {<<n.id, n.of>> : n \in FactsIn({"graph_nodes"})}
    IN  \A f \in FactsIn({"transitions", "artifacts", "decisions"}) :
            f.node = Done \/ <<f.node, graphOf[f.of]>> \in nodes

(* A lease is never minted under an epoch somebody else owns, though the     *)
(* owner is read before the write and two invocations may both find none.    *)
LeasesMatchOwners ==
    \A l \in FactsIn({"lease_facts"}), o \in FactsIn({"epoch_owners"}) :
        l.of = o.of /\ l.epoch = o.epoch => o.runner = OwnerOf(l.runner)

(* What a verb read, in a transaction of its own, still holds of the rows it *)
(* writes from it: its tenant's rows, its chunk's nodes, its epoch's owner.  *)
ReadsHold == ReadsStayInTenant /\ NodesOfOwnGraph /\ LeasesMatchOwners

NewChunks == {f \in Facts(hub') \ Facts(hub) : f.table = "chunks"}

(* A chunk derives the status it was asked for the moment its rows land,     *)
(* alone, on a board, or pinned and mirrored on a fleet's board.             *)
LandsAsAsked ==
    [][\A c \in NewChunks : \E p \in Procs :
          /\ c.id \in DOMAIN inv[p].asked
          /\ DerivedStatus(Facts(hub'), c.id) = inv[p].asked[c.id]]_vars

(* A fleet's board, with chunks its live runner could claim, lands only      *)
(* while that runner's local brake is engaged.                               *)
BoardLandsBraked ==
    [][\A p \in Procs : inv[p].pinned # None /\ NewChunks # {} /\ inv'[p] # inv[p] =>
          \E e \in runner.rows : e.fact.table = "local_pause_facts" /\ e.runner = inv[p].pinned]_vars

(* The runner's half of a fleet names only chunks the hub already holds.     *)
MirrorsHeldChunks ==
    [][\A p \in Procs : inv[p].pinned # None /\ inv'[p] # inv[p] =>
          \A e \in runner'.rows \ runner.rows : e.fact.of # None =>
              \E f \in Facts(hub) : f.table = "chunks" /\ f.id = e.fact.of]_vars

(* A fleet cut short after any of its three writes is safe to leave: brake,  *)
(* board, mirror, in that order.                                             *)
CutFleetIsSafe == BoardLandsBraked /\ MirrorsHeldChunks
=============================================================================
