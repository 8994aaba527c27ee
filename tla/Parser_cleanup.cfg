\* One picture and one object of side one, any allocation failing.
SPECIFICATION ReaderSpec
CONSTANTS
    MaxCount = 1
    LargestSide = 1
    Ids = {1}
    FaultSites = {"pictures", "objects", "matrix"}
INVARIANTS
    CleanupIsSafe
