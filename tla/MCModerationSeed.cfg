\* Two calls about one token, two meanings; the seed file's record has both.  Shows
\* that seeding restores a meaning an administrator took out.
SPECIFICATION Spec
CONSTANTS
    ma = ma
    mb = mb
    k1 = k1
    s1 = s1
    s2 = s2
    w1 = w1
    None = None
    Keys = {k1}
    Meanings = {ma, mb}
    SeedMeaning = ma
    SeedAlso = {mb}
    Seeds <- SeedFile
    Sessions = {s1, s2}
    Workers = {w1}
    MaxCalls = 4
    MaxPending = 2
    MaxEntries = 2
SYMMETRY Symmetry
INVARIANTS
    RemovedStaysRemoved
CHECK_DEADLOCK FALSE
