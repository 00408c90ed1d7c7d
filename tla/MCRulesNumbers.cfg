\* Texts with a number between the words of a phrase.
SPECIFICATION RulesSpec
CONSTANTS
    Texts <- Numbered
    Sources <- Defined
    Contexts <- Phrased
    Ends = {2, 5}
    Frequency <- Counted
    Target = 3
    MinWords = 4
    MaxNgram = 3
    Cap = 2
    MaxRequests = 1
    MaxReview = 0
INVARIANT NumbersKept
CHECK_DEADLOCK FALSE
