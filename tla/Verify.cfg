\* Three pictures, the canonical match of one of which looks like an entry of a
\* cleared array, and of another is none; up to three devices and three objects.
\* Scores of objects of side 1 and 2, elements of both signs and zero, thresholds
\* below, between and above the scores of small differences.
SPECIFICATION MCSpec
CONSTANTS
    P = 3
    Canonical <- MCCanonical
    NoMatch = 1
    Zeroed = 0
    MaxDevices = 3
    MaxObjects = 3
    Sides = {1, 2}
    Widths = {1, 2}
    Values <- MCValues
    Thresholds = {0, 1, 3, 8}
    Scale = 2
    InvZeroEps = 50
INVARIANTS
    VerdictTells
    NothingLeaks
    ReadyToSearch
    DecisionUnchanged
