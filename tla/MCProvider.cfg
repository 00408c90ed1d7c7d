\* Three calls of two users: two may be told to wait, for a longer and a
\* shorter time, before the third asks.
SPECIFICATION Spec
CONSTANTS
    Calls = {c1, c2, c3}
    Users = {u1, u2}
    Texts = {x}
    Parts = 2
    Cooldown = 1
    RetryAfter = {0, 2}
    TTL = 1
    MinOutput = 2
    MaxOutput = 5
    PerWord = 2
    Reasoning = 2
    Words = {0, 2}
    MaxTime = 2
SYMMETRY Symmetries
INVARIANTS
    StreamedWhole
    OwnAnswer
PROPERTIES
    QuietWindow
CHECK_DEADLOCK FALSE
