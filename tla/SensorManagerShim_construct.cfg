\* The service dies while the constructor runs.
SPECIFICATION Spec
CONSTANTS
    Callers = {c1}
    Incarnations = 2
    Tries = 2
    NULL = NULL
CHECK_DEADLOCK FALSE
INVARIANTS
    LockNotNeeded
