\* Every file of up to six characters, and a buffer for tokens of two.  Up to two
\* pictures and two objects of sides one and two, any token bad, any allocation
\* failing.  Three objects of sides one to three in a 2 x 2 picture, any matching
\* cells, any order of ids that repeat and may be negative.
SPECIFICATION MCSpec
CONSTANTS
    Ids <- MCIds
    MaxCount = 3
    TokenMax = 3
    MaxLength = 6
    LargestSide = 2
    FaultSites = {"pictures", "objects", "matrix"}
    MaxRead = 2
    N = 2
    MaxM = 3
INVARIANTS
    FindsAllTokens
    NothingLeaks
    AcceptedIsSound
    SortedStably
    LowestIdAnswered
PROPERTIES
    SerialKeepsContract
