CONSTANTS
    Exec = {e1, e2}
    Tracked = {e1}
    Client = {c1}
    Overlap = FALSE
    None = None
SPECIFICATION Spec
INVARIANTS TypeOK WaitCount GracefulIsTrue ToldAtEnd
\* Every call has been made and every process has exited.
CHECK_DEADLOCK FALSE
