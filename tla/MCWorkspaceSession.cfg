\* A login while the check of an older session waits for its answer.
SPECIFICATION Spec
CONSTANTS
    Texts = {"A"}
    Old = "t1"
    Fresh = "t2"
    UserOf <- MCUserOf
    MaxRev = 0
    MaxMounts = 1
    MaxEvents = 3
PROPERTIES
    OnlyRealRejection
CHECK_DEADLOCK FALSE
