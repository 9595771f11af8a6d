SPECIFICATION Spec
SYMMETRY Symmetry
CONSTANTS
    None = None
    Refused = Refused
    Done = Done
    HubRunner = HubRunner
    SeedRunner = SeedRunner
    t1 = t1
    t2 = t2
    r1 = r1
    r2 = r2
    c1 = c1
    Procs = {p1, p2}
    MaxInvocations = 2
    Tenants = {t1, t2}
    Runners = {r1, r2}
    Stores <- MCStores
    GraphCalls <- MCGraphCalls
    ChunkCalls <- MCChunkCalls
    FactCalls <- MCFactCalls
    LeaseCalls <- MCLeaseCalls
    RunnerCalls <- MCRunnerCalls
    BoardCalls <- MCBoardCalls
    FleetCalls <- MCFleetCalls
INVARIANTS
    
    ReadsHold
PROPERTIES
    LandsAsAsked
    CutFleetIsSafe
CHECK_DEADLOCK FALSE
