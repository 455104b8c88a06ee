CONSTANTS
    Id = {a}
    Created = {v}
    Edited = {v}
    Call = {c1, c2}
    Slots = 3
    Procs = 2
    Overlap = FALSE
    None = None
SPECIFICATION Spec
INVARIANT ProcessKnown
\* A dead daemon is started no more.
CHECK_DEADLOCK FALSE
