\* Two runs, with a crash, a power failure or a failing system call anywhere in
\* them.  The service stops after the last run.
SPECIFICATION Spec
CONSTANTS
    Files <- TwoFiles
    Octets = {255}
    Rests = {"zero", "ff"}
    Boots = 2
    None = None
    Junk = Junk
CHECK_DEADLOCK FALSE
INVARIANTS
    SuccessMeansValid
    InstalledWhole
    StaleTmpHarmless
PROPERTIES
    ValidIsKept
