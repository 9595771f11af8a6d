SPECIFICATION HangSpec
CONSTANTS
    None = None
    root = root
    kid = kid
    Sessions = {root}
    Parent <- RootAlone
    Order <- First
    Removable = {}
    Kinds = {"prompt"}
    Modes = {}
    MaxThreads = 1
    MaxSubmits = 1
    MaxInterrupts = 1
    MaxRestarts = 0
    MaxEvents = 4
CHECK_DEADLOCK FALSE
PROPERTY InterruptEndsTurn
