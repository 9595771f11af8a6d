SPECIFICATION MCSpec
CONSTANTS
    None = None
    Senders = {x1, x2}
    Calls = {k1, k2}
    MaxSeq = 3
    Overlap = FALSE
    r1 = r1
    r2 = r2
    c = c
    node = node
    Runners = {r1, r2}
    Outbox <- MCOutbox
    RecordMax = 2
    ChunkBudget = 2
    Nobody = Nobody
    Nothing = Nothing
SYMMETRY Symmetry
INVARIANT TypeOK
INVARIANT AppliedOnce
INVARIANT NoneSkipped
INVARIANT BytesAccounted
INVARIANT AnswersAreTrue
PROPERTY InOrder
PROPERTY OwnerForLife
