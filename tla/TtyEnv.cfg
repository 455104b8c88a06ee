CONSTANTS
    Exec = {e1, e2, e3}
    Tracked = {e1, e2}
    Client = {c1}
    Overlap = FALSE
    None = None
SPECIFICATION Spec
INVARIANTS TypeOK WaitCount LiveIsMain NoCrash WaitMeansGone
PROPERTIES KeepsPromise StartSettles
\* Every call has been made and every process has exited.
CHECK_DEADLOCK FALSE
