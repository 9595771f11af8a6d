SPECIFICATION MCSpec
CONSTANTS
    None = None
    Torn = Torn
    Unreadable = Unreadable
    t1 = t1
    t2 = t2
    s1 = s1
    s2 = s2
    s3 = s3
    solo = solo
    exported = exported
    shared = shared
    Procs = {t1, t2}
    Sessions = {solo, exported, shared}
    Overlapped = {shared}
    TurnCalls <- MCCalls
    MaxTools = 1
    Servers = {s1, s2, s3}
    MaxGeneration = 3
SYMMETRY Symmetry
INVARIANTS SessionRemembered TranscriptTellsTurn AuditTellsFile
PROPERTIES EnvelopeComesLast
CHECK_DEADLOCK FALSE
