\* A session kept since before, another user's login, two texts, one change of the dictionary.
SPECIFICATION Spec
CONSTANTS
    Texts = {"A", "B"}
    Old = "t1"
    Fresh = "t2"
    UserOf <- TwoUsers
    MaxRev = 1
    MaxMounts = 2
    MaxEvents = 4
INVARIANTS
    AnswerIsCurrent
    RecordedOnce
CHECK_DEADLOCK FALSE
