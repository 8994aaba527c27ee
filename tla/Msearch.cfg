\* Three ranks on two nodes, two pictures, one object, command lines of up to
\* two arguments and some longer ones.  The program ends; that it ends on every
\* rank is what Termination says.
CHECK_DEADLOCK FALSE
SPECIFICATION FairSpec
CONSTANTS
    R = 3
    P = 2
    K = 1
    NodeOf <- MCNodeOf
    ArgLists <- MCArgLists
    Compiled = {"cuda"}
    NumberOf <- MCNumberOf
    PositiveTexts = {"0.5", "2"}
    UnknownOptions = {"--bogus"}
    Canonical <- MCCanonical
    NoMatch = NoMatch
    Zeroed = Zeroed
INVARIANTS
    CommandLineMeant
    NodeNotOversubscribed
    CollectivesMatch
    SameProblem
    OutputOnlyAfterSuccess
    ExitCodesTell
PROPERTIES
    Termination
