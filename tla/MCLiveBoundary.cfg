\* The partial snapshots against the boundary of the final one.
SPECIFICATION Spec
CONSTANTS
    N = 3
    MaxChunks = 2
    Concurrency = 2
    QueueSize = 1
    MaxFaults = 0
INVARIANT SameBoundary
CHECK_DEADLOCK FALSE
