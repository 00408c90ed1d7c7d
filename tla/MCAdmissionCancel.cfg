\* One user sends the same request twice.
CONSTANTS
    c1 = c1
    c2 = c2
    k1 = k1
    u1 = u1
    q1 = q1
    Calls = {c1, c2}
    Standalone = {}
    Workers = {k1}
    Users = {u1}
    Requests = {q1}
    RequestLimit = 3
    UserRequestLimit = 3
    Concurrency = 2
    UserConcurrency = 2
    Window = 2
    Timeout = 3
    ProviderTimeout = 2
    Grace = 2
    LockWait = 1
    Retries = 0
    MaxTime = 4
SPECIFICATION Spec
SYMMETRY Symmetry
VIEW View
INVARIANTS
    CancellationIsPrivate
CHECK_DEADLOCK FALSE
