\* Every way to stop, with fetchers blocked on a full recovery ring.
CONSTANTS
    f1 = f1
    MaxSlot = 4
    Blocks = {1, 3}
    Fetchers = {f1}
    LiveDepth = 2
    RecDepth = 1
    ClaimSpan = 2
    StartSlot = 1
    EndSlot = 3
    MaxRuns = 1
    Faults = {"stop", "handler", "rpc", "gone", "socket", "coarsen"}
SPECIFICATION FairSpec
PROPERTIES ShutdownEnds UsesGapSet
\* The program may end, and nobody has to start it again.
CHECK_DEADLOCK FALSE
