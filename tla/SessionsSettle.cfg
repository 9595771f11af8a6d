SPECIFICATION FairSpec
CONSTANTS
    None = None
    root = root
    kid = kid
    Sessions = {root, kid}
    Parent <- RootAndKid
    Order <- RootFirst
    Removable = {}
    Kinds = {"prompt", "steer", "compact"}
    Modes = {FALSE}
    MaxThreads = 2
    MaxSubmits = 2
    MaxInterrupts = 2
    MaxRestarts = 1
    MaxEvents = 3
CHECK_DEADLOCK FALSE
PROPERTY Settles
