\* Two objects of side one in a picture of one cell, ids that may be negative.
SPECIFICATION LoadSpec
CONSTANTS
    Ids <- MCIds
    MaxCount = 2
    N = 1
    MaxM = 1
INVARIANTS
    LowestIdWins
