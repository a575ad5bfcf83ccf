\* Two sub-HALs compete for the mutex and the reader's attention; rings of two
\* slots, so that regions wrap around and fill up while poll() dequeues.
SPECIFICATION Spec
CONSTANTS
    Capacity = 2
    N = 2
    MaxReads = 2
    NoEvent = NoEvent
    Event <- GoodAndBad
    full_to_global <- OneToOne
INVARIANTS
    TypeOK
    RegionSafe
    ReadableWritten
    EmptiesInv
    NoLostDataWakeup
    NoLostSpaceWakeup
PROPERTIES
    StreamSpec
