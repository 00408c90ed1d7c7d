\* Three calls of two users on two workers share a ledger.
CONSTANTS
    c1 = c1
    c2 = c2
    c3 = c3
    k1 = k1
    k2 = k2
    u1 = u1
    u2 = u2
    q1 = q1
    Calls = {c1, c2, c3}
    Standalone = {}
    Workers = {k1, k2}
    Users = {u1, u2}
    Requests = {q1}
    RequestLimit = 3
    UserRequestLimit = 2
    Concurrency = 2
    UserConcurrency = 1
    Window = 2
    Timeout = 3
    ProviderTimeout = 2
    Grace = 2
    LockWait = 1
    Retries = 0
    MaxTime = 7
SPECIFICATION Spec
SYMMETRY Symmetry
VIEW View
INVARIANTS
    TypeOK
    ProviderCallsBounded
    AttemptsPerWindow
    AnsweredByDeadline
CHECK_DEADLOCK FALSE
