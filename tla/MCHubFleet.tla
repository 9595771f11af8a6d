----------------------------- MODULE MCHubFleet -----------------------------
(***************************************************************************)
(* A small fleet for TLC: two tenants, two runners, two hosts, and two     *)
(* chunks of different needs.                                              *)
(***************************************************************************)
EXTENDS HubFleet, TLC

CONSTANTS t1, t2, r1, r2, h1, h2, k1, k2, k3, c1, c2, app, web, ws, sub, claude, codex, tier, opus

TwoProjects == (c1 :> <<t1, app>>) @@ (c2 :> <<t1, web>>)

Plain(runs, to, harnesses) == [runner |-> runs, to |-> to, harnesses |-> harnesses, model |-> {}]

(* c1 takes the runner's default harness; c2 goes through a hub node to one*)
(* that names two harnesses and a tier, and back.                          *)
TwoGraphs ==
    (c1 :> [entry |-> "build", nodes |-> ("build" :> Plain(TRUE, {}, {})), harnesses |-> {}, model |-> {}]) @@
    (c2 :> [entry |-> "build",
            nodes |-> ("build" :> Plain(TRUE, {"check", "gone"}, {claude})) @@
                      ("check" :> Plain(FALSE, {"review"}, {})) @@
                      ("review" :> Plain(TRUE, {"build"}, {claude, codex})),
            harnesses |-> {}, model |-> {tier}])

Capability(h, tiers, supported, default) ==
    [harness |-> h, tiers |-> tiers, supported |-> supported, default |-> default, available |-> TRUE]

(* A runner that can work either chunk, and one that can only work c1.     *)
TwoProfiles == {<<Capability(claude, {tier}, {opus}, TRUE)>>,
                <<Capability(claude, {}, {opus}, TRUE), [Capability(codex, {tier}, {}, FALSE) EXCEPT !.available = FALSE]>>}

SomeDeclarations == {{app, web}, {<<t2, app>>}}

OneBindingSet == {{[project |-> app, workspace |-> ws], [project |-> <<t1, web>>, workspace |-> ws]}}

(* A fleet at work, as calls on a fresh hub leave it: both projects and    *)
(* both chunks seeded, host h1 reporting, r1 added under it and registered *)
(* for both projects, perhaps holding c1, and r2 alone in the other tenant.*)
Working ==
    /\ tenants = {t1, t2}
    /\ projects = {<<t1, app>>, <<t1, web>>, <<t2, app>>}
    /\ \E p \in TwoProfiles, b \in OneBindingSet \cup {None} :
          runner = (r1 :> [NewRunner(t1, h1, {app, web}) EXCEPT
                              !.connected = TRUE, !.bindings = b, !.capabilities = p,
                              !.served = IF b = None THEN @ ELSE Declared(t1, {x.project : x \in b})]) @@
                   (r2 :> NewRunner(t2, None, {<<t2, app>>}))
    /\ host = (h1 :> [tenant |-> t1, name |-> "north", reported |-> TRUE, workspaces |-> {ws}, roster |-> {}]) @@
              (h2 :> None)
    /\ token = (k1 :> r1) @@ (k2 :> r2) @@ (k3 :> None)
    /\ revoked = [k \in Tokens |-> None]
    /\ enrolling = {}
    /\ queue = <<c2, c1>>
    /\ \E who \in {None, r1} : holder = (c1 :> who) @@ (c2 :> None)
    /\ claiming = [r \in Runners |-> None]
    /\ reported = {} /\ levers = {} /\ calls = 1

(* The behaviours of MaxCalls actions from a fresh hub, and of one fewer   *)
(* from Working.                                                           *)
MCSpec == (Init \/ Working) /\ [][Next]_vars

Symmetry == Permutations({r1, r2}) \cup Permutations({h1, h2}) \cup Permutations({k1, k2, k3})

=============================================================================
