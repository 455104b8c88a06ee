CONSTANTS
    Id = {a, b}
    Created = {v}
    Edited = {w}
    Call = {c1, c2}
    Slots = 2
    Procs = 1
    Overlap = FALSE
    None = None
SPECIFICATION Spec
INVARIANTS TypeOK  
SYMMETRY Symmetry
PROPERTIES Kept DataKept
\* A dead daemon is started no more.
CHECK_DEADLOCK FALSE
