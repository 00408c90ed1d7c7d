\* Segments of three words from four words on, a budget of two, and a second
\* request that may find the first one's segments in the cache.
SPECIFICATION RulesSpec
CONSTANTS
    Texts <- Samples
    Sources <- Defined
    Contexts <- Phrased
    Ends = {2, 5}
    Frequency <- Counted
    Target = 3
    MinWords = 4
    MaxNgram = 3
    Cap = 2
    MaxRequests = 2
    MaxReview = 4
INVARIANTS
    RulesTypeOK
    LongestShown
    WordsKept
    SpansTell
    PendingBounded
    ChunksWhole
CHECK_DEADLOCK FALSE
