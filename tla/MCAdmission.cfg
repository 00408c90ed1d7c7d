\* Two calls that retry on two workers that share the ledger, one call without a
\* fallback and so without a timer while it waits.
CONSTANTS
    c1 = c1
    c2 = c2
    k1 = k1
    k2 = k2
    u1 = u1
    q1 = q1
    Calls = {c1, c2}
    Standalone = {c2}
    Workers = {k1, k2}
    Users = {u1}
    Requests = {q1}
    RequestLimit = 3
    UserRequestLimit = 3
    Concurrency = 1
    UserConcurrency = 2
    Window = 2
    Timeout = 2
    ProviderTimeout = 1
    Grace = 2
    LockWait = 1
    Retries = 1
    MaxTime = 4
SPECIFICATION FairSpec
INVARIANTS
    ProviderCallsBounded
    AttemptsPerWindow
    AnsweredByDeadline
PROPERTIES
    CallsEnd
CHECK_DEADLOCK FALSE
