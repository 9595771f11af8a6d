----------------------------- MODULE MCSeedStore -----------------------------
(* Two tenants, two invocations in flight at most, and for each verb the     *)
(* flags that lead to different rows or refusals.                            *)
EXTENDS SeedStore, TLC

CONSTANTS t1, t2, r1, r2, c1

C(status, node, chunk, tenant, seeded) ==
    [status |-> status, node |-> node, chunk |-> chunk, tenant |-> tenant, seeded |-> seeded,
     graph |-> None, runner |-> r1, epoch |-> 1, mirrored |-> FALSE]
MCChunkCalls ==
    {C(s, None, c1, None, FALSE) : s \in Statuses}
    \cup {C("running", None, c1, t1, FALSE), C("done", "build", None, t2, FALSE),
          C("stopped", "build", None, None, TRUE), C("delivering", "build", None, None, FALSE),
          [C("running", "build", c1, None, FALSE) EXCEPT !.graph = "other"]}

F(verb, chunk) ==
    [verb |-> verb, chunk |-> chunk, tenant |-> None, node |-> None, runner |-> None,
     trail |-> "open", resolve |-> "open", kind |-> "hub-started", closed |-> FALSE, seeded |-> FALSE]
MCFactCalls ==
    {F("artifact", c1), [F("artifact", c1) EXCEPT !.node = "build"], [F("artifact", c1) EXCEPT !.tenant = t2],
     [F("decision", c1) EXCEPT !.resolve = "choice"], F("usage", c1), [F("usage", c1) EXCEPT !.runner = r1],
     F("event", None), [F("event", c1) EXCEPT !.kind = "trace-export-failed"],
     F("escalation", c1), F("bounce", c1), [F("question", c1) EXCEPT !.trail = "delivered", !.seeded = TRUE],
     [F("garden", None) EXCEPT !.closed = TRUE]}

MCStores ==
    {[tenants |-> {}, identity |-> None, earlier |-> {}],
     [tenants |-> {t1}, identity |-> r1, earlier |-> {C("running", None, c1, t1, TRUE)}],
     [tenants |-> {t1, t2}, identity |-> r1, earlier |-> {C("done", None, c1, t1, TRUE)}]}
MCGraphCalls == {[tenant |-> None, seeded |-> FALSE], [tenant |-> t2, seeded |-> TRUE]}
MCLeaseCalls ==
    {[store |-> "hub", chunk |-> c1, runner |-> r, epoch |-> 2, tenant |-> None] : r \in {r1, r2, HubRunner}}
    \cup {[store |-> "runner", chunk |-> c1, runner |-> None, epoch |-> 1, tenant |-> None]}
MCRunnerCalls ==
    {[verb |-> v, runner |-> r1, tenant |-> None, connected |-> TRUE, paused |-> TRUE, sampled |-> TRUE] :
        v \in {"runner", "pause", "segment"}}
MCBoardCalls == {[chunks |-> 9, stress |-> TRUE, tenant |-> None, seeded |-> TRUE]}
MCFleetCalls ==
    {[chunks |-> 4, runner |-> r1, tenant |-> None, seeded |-> FALSE, dir |-> FALSE],
     [chunks |-> 4, runner |-> r2, tenant |-> None, seeded |-> TRUE, dir |-> TRUE]}
Symmetry == Permutations(Procs)
=============================================================================
