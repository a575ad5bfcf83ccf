\* Three requests of other processes after boot, at any moment.
SPECIFICATION FairSpec
CONSTANTS
    Modes <- SomeModes
    Persisted <- SomePersisted
    Default = "mtp,adb"
    Sets = 3
CHECK_DEADLOCK FALSE
INVARIANTS
    TypeOK
    SettledAgrees
    ServicesFollow
PROPERTIES
    Settles
