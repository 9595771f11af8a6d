SPECIFICATION Spec
CONSTANTS
    d1 = d1
    t1 = t1
    t2 = t2
    n1 = n1
    n2 = n2
    Drivers = {d1}
    Threads <- ThreadsDef
    DriverOf <- OneDriver
    Nodes = {n1, n2}
    Entry = n1
    Edges <- EdgesDef
    Kinds = {"drop_ack", "replay", "unreachable", "stale_epoch", "conflicting_fact"}
    MaxVerbs = 3
    MaxArmed = 1
    MaxResets = 1
    None = None
SYMMETRY
    Symmetry
INVARIANTS
    HeldLeaseIsGood
    LonePushIsFresh

    
