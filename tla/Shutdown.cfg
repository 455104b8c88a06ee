CONSTANTS
    Program = {p1, p2}
    AutoStart = {p1, p2}
    AutoCrash = {}
    AutoGraceful = {p1}
    Twice = {p1}
    CrashLimit = 0
    MaxUserStarts = 0
    Callback = {k1}
    MaxQueue = 2
    None = None
SPECIFICATION ShutdownSpec
INVARIANTS ShutdownTypeOK OnlyFreshLeft
PROPERTY SignalEnds
\* The daemon exits.
CHECK_DEADLOCK FALSE
