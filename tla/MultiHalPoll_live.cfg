\* Who waits is served, under the fairness of threads and caller.
SPECIFICATION FairSpec
CONSTANTS
    Capacity = 1
    N = 2
    MaxReads = 2
    NoEvent = NoEvent
    Event <- MixedEvents
    full_to_global <- OneToOne
PROPERTIES
    EveryQueueServed
    BlockedWriterResumes
    EventsReachCaller
