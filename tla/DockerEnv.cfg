CONSTANTS
    Exec = {e1, e2}
    Client = {c1}
    None = None
SPECIFICATION Spec
INVARIANTS TypeOK WaitMeansGone ToldAfterEnd InputHasConnection FlagMeansPull
PROPERTIES StartSettles ToldAtEnd
\* Every call has been made.
CHECK_DEADLOCK FALSE
