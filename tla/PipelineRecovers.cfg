\* A bounded run whose endpoint fails any number of times, but in the end answers.
CONSTANTS
    f1 = f1  f2 = f2
    MaxSlot = 4
    Blocks = {1, 2, 3, 4}
    Fetchers = {f1, f2}
    LiveDepth = 2
    RecDepth = 1
    ClaimSpan = 2
    StartSlot = 0
    EndSlot = 4
    MaxRuns = 1
    Faults = {"rpc"}
SPECIFICATION AnsweringSpec
PROPERTIES HolesFilled DrainTerminates
\* The program may end, and nobody has to start it again.
CHECK_DEADLOCK FALSE
