SPECIFICATION Spec
CONSTANTS
    None = None
    Dangling = Dangling
    build = build
    review = review
    deliver = deliver
    Nodes <- MCNodes
    HubNodes <- MCHubNodes
    Entry = build
    ChoiceNames <- MCChoiceNames
    Goto <- MCGoto
    Chunks = {c1}
    Runners = {r1}
    Questions = {q1}
    SeedStatuses <- LifeSeeds
    Epochs = {0, 1}
    Levers = {}
    MaxSeeds = 1
    MaxRekeys = 0
INVARIANT TypeOK
INVARIANT MovesOnce
PROPERTY FenceMonotone
PROPERTY EndedNeverOffered
