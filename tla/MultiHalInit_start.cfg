\* Open, close, open again and list in any order or at once; every subset of
\* libraries loads, two may not open.  A crash ends the process.
SPECIFICATION FairSpec
CONSTANTS
    Paths = 3
    Opens = 2
    Sensors <- LastIsEmpty
    MayFail = {1, 3}
CHECK_DEADLOCK FALSE
INVARIANTS
    TypeOK
    RoutedToOwner
    CrashNeedsFailedOpen
    HandlesConsistent
    UnlockIsOwed
PROPERTIES
    UnlockedByOwner
    WritersGetGoing
