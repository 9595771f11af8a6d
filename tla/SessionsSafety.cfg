SPECIFICATION Spec
CONSTANTS
    None = None
    root = root
    kid = kid
    Sessions = {root, kid}
    Parent <- RootAndKid
    Order <- RootFirst
    Removable = {kid}
    Kinds = {"prompt", "steer"}
    Modes = {TRUE, FALSE}
    MaxThreads = 3
    MaxSubmits = 2
    MaxInterrupts = 1
    MaxRestarts = 2
    MaxEvents = 3
CHECK_DEADLOCK FALSE
INVARIANT TypeOK
INVARIANT OneWorker
INVARIANT QueueServed
INVARIANT StoreMatches
PROPERTY FinishedNotRerun
