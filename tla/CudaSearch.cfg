\* Two objects of sides 1 to 3 in a 2 x 2 picture, after any earlier picture,
\* on a device with room for two threads, which stride over four placements.
SPECIFICATION FairSpec
CONSTANTS
    N = 2
    K = 2
    MaxM = 3
    Block = 1
    MaxBlocks = 2
    MayFail = TRUE
INVARIANTS
    KernelsInOrder
PROPERTIES
    ContractSpec
    Termination
