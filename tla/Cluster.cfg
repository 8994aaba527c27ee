\* Two nodes of two slots, two runs of one, five or the default number of
\* ranks, two rounds of waiting and one change by somebody else.  The scripts
\* end, which is what ScriptsEnd says.
CHECK_DEADLOCK FALSE
SPECIFICATION ClusterFairSpec
CONSTANTS
    MaxNodes = 2
    Slots = 2
    Runs = {r1, r2}
    RankCounts = {0, 3}
    Deadline = 1
    MaxChanges = 1
INVARIANTS
    ReadyMeansLaunchable
    HostFileIsOfThisRun
    SlotsAgree
PROPERTIES
    ScriptsEnd
