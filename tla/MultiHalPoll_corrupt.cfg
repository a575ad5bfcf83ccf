\* A flush-complete event whose handle is unknown.
SPECIFICATION Spec
CONSTANTS
    Capacity = 2
    N = 1
    MaxReads = 1
    NoEvent = NoEvent
    Event <- StrayFlush
    full_to_global <- OneToOne
INVARIANTS
    NoCorruptEventUpstream
