\* Two threads and a service that starts three times.
SPECIFICATION FairSpec
CONSTANTS
    Callers = {c1, c2}
    Incarnations = 3
    Tries = 2
    NULL = NULL
CHECK_DEADLOCK FALSE
INVARIANTS
    TypeOK
    OnePiece
    CrashNeedsRace
    FreshList
PROPERTIES
    CallsReturn
