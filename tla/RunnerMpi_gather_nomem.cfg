\* The root cannot allocate its gather buffers.
SPECIFICATION Spec
CONSTANTS
    R = 2
    P = 1
    Canonical <- MCCanonical
    NoMatch = NoMatch
    Zeroed = Zeroed
    FaultSites = {"gather"}
INVARIANTS
    CollectivesInStep
