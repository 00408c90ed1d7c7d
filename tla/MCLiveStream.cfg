\* Up to three chunks, two of them reviewed, against a queue of one event.
SPECIFICATION FairSpec
CONSTANTS
    N = 3
    MaxChunks = 2
    Concurrency = 2
    QueueSize = 1
    MaxFaults = 1
INVARIANTS
    StaleNotShown
    VerifiedIsWhole
    FinalKeepsProgress
PROPERTIES
    StreamEnds
    JobsStop
CHECK_DEADLOCK FALSE
