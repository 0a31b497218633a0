\* Two runs of the program, with crashes, stops, failing RPC, a gap list that runs out
\* of memory and slots that are delivered again.  Three slots are too few for a split.
CONSTANTS
    f1 = f1
    MaxSlot = 3
    Blocks = {1, 2, 3}
    Fetchers = {f1}
    LiveDepth = 1
    RecDepth = 1
    ClaimSpan = 2
    StartSlot = 1
    EndSlot = 0
    MaxRuns = 2
    Faults = {"stop", "crash", "sizing", "rpc", "gone", "memory", "redeliver"}
SPECIFICATION Spec
VIEW View
INVARIANTS TypeOK OnlyKnownLosses
\* The program may end, and nobody has to start it again.
CHECK_DEADLOCK FALSE
