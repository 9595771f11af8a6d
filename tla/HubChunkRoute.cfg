SPECIFICATION Spec
CONSTANTS
    None = None
    Dangling = Dangling
    build = build
    review = review
    deliver = deliver
    Nodes <- OneNode
    HubNodes <- NoHubNodes
    Entry = build
    ChoiceNames <- OneChoiceNames
    Goto <- OneGoto
    Chunks = {c1}
    Runners = {r1, r2}
    Questions = {}
    SeedStatuses <- LifeSeeds
    Epochs = {0}
    Levers = {"enforce_release_route_token", "host_retire_lifecycle_conflict",
              "replay", "claim_refused"}
    MaxSeeds = 1
    MaxRekeys = 2
SYMMETRY Symmetry
INVARIANT HeldNotOffered
INVARIANT RouteWhole
PROPERTY RekeyFresh
