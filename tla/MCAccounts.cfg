\* Two overlapping logins and a request about one account, on two workers.
SPECIFICATION Spec
CONSTANTS
    u1 = u1
    l1 = l1
    l2 = l2
    r1 = r1
    w1 = w1
    w2 = w2
    None = None
    Users = {u1}
    Logins = {l1, l2}
    Requests = {r1}
    Workers = {w1, w2}
    MaxFailures = 2
    Lockout = 1
    Lifetime = 1
    MaxTime = 1
    MaxFaults = 1
SYMMETRY Symmetry
INVARIANTS
    GuessesBounded
    RevokedRefused
    NoOrphans
PROPERTIES
    RefusalsJustified
CHECK_DEADLOCK FALSE
