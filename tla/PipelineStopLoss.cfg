\* A stop while a fetcher works on its claim.
CONSTANTS
    f1 = f1
    MaxSlot = 4
    Blocks = {1, 2, 3, 4}
    Fetchers = {f1}
    LiveDepth = 2
    RecDepth = 2
    ClaimSpan = 2
    StartSlot = 0
    EndSlot = 0
    MaxRuns = 1
    Faults = {"stop"}
SPECIFICATION Spec
INVARIANT NothingLost
\* The program may end, and nobody has to start it again.
CHECK_DEADLOCK FALSE
