\* Three threads and two objects of sides 1 to 3 in a 2 x 2 picture, any
\* matching cells; the last chunk is short.
SPECIFICATION FairSpec
CONSTANTS
    N = 2
    K = 2
    MaxM = 3
    Threads = {t1, t2, t3}
    Chunk = 3
    NoThread = NoThread
INVARIANTS
    NoHitDropped
PROPERTIES
    ContractSpec
    Termination
