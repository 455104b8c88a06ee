CONSTANTS
    Program = {p1, p2}
    AutoStart = {p1, p2}
    AutoCrash = {}
    AutoGraceful = {p1}
    Twice = {p1}
    CrashLimit = 0
    MaxUserStarts = 0
    Callback = {k1}
    MaxQueue = 2
    None = None
SPECIFICATION ShutdownSpec
INVARIANT AllServersStopped
\* The daemon exits.
CHECK_DEADLOCK FALSE
