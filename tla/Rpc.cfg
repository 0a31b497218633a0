\* Three endpoints, three attempts, ranges of up to six slots in chunks of two.
CONSTANTS
    Endpoints = 3
    MaxAttempts = 3
    RangeLimit = 2
    DefaultRange = 4
    MaxSlot = 5
    Word = 4
    Chain = {0, 1, 3, 5}
    Tip <- MCTip
    BatchSize = 2
SPECIFICATION FairSpec
INVARIANTS EveryoneAsked ParseBlamesAnswer BlocksExact BatchMatched
PROPERTY CallReturns
