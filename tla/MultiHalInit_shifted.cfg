\* A sub-HAL without sensors fails to open.
SPECIFICATION Spec
CONSTANTS
    Paths = 3
    Opens = 1
    Sensors <- FirstIsEmpty
    MayFail = {1}
CHECK_DEADLOCK FALSE
INVARIANTS
    RoutedToOwner
