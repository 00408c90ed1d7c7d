\* A session kept since before, one login, two texts, one change of the dictionary.
SPECIFICATION FairSpec
CONSTANTS
    Texts = {"A", "B"}
    Old = "t1"
    Fresh = "t2"
    UserOf <- MCUserOf
    MaxRev = 1
    MaxMounts = 2
    MaxEvents = 4
INVARIANTS
    AnswerIsCurrent
    RecordedOnce
PROPERTIES
    SignsOut
    Settles
CHECK_DEADLOCK FALSE
