\* Up to four ranks and numbers of units on both sides of what an int of four
\* bits can hold.  The programs end; Termination says that all ranks do.
CHECK_DEADLOCK FALSE
SPECIFICATION FairSpec
CONSTANTS
    IntMax = 7
    Garbage = Garbage
    MaxWorld = 4
    MaxTrips = 2
    Units = {1, 2, 3, 4, 6, 7, 9, 17}
    Payloads = {1, 8, 17}
INVARIANTS
    BlocksTile
    AnswerIndependentOfRanks
    SuccessIsRight
    OneBall
    CorruptionIsTold
PROPERTIES
    Termination
