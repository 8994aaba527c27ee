\* Three ranks, three pictures, every local failure.
SPECIFICATION FairSpec
CONSTANTS
    R = 3
    P = 3
    Canonical <- MCCanonical
    NoMatch = NoMatch
    Zeroed = Zeroed
    FaultSites = {"create", "records", "search", "gather"}
INVARIANTS
    ClaimsExclusive
    NothingLost
    GatherBufferFits
PROPERTIES
    JobSpec
    Termination
