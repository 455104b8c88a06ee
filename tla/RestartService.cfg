CONSTANTS
    Program = {p1, p2}
    AutoStart = {p1, p2}
    AutoCrash = {p1}
    AutoGraceful = {p2}
    Twice = {}
    CrashLimit = 2
    MaxUserStarts = 1
    Callback = {k1, k2}
    MaxQueue = 3
    None = None
SPECIFICATION Spec
INVARIANTS TypeOK LateBounded OneToken RetriesBounded
PROPERTY QueueServes
\* The service may be shut down and every program down.
CHECK_DEADLOCK FALSE
