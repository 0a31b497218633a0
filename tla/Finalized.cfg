\* Three slots, one reorg, one failure or restart.
CONSTANTS
    Unknown = Unknown
    poolA = poolA
    sol = sol
    usd = usd
    alice = alice
    maker = maker
    name = name
    Content <- MCContent
    MaxSlot = 3
    MaxFaults = 1
    MaxReorgs = 1
SPECIFICATION FairSpec
INVARIANTS PromotedKept OnlyWholeRows DecimalsRideWithMint NothingUnlearned
PROPERTY Drained
CHECK_DEADLOCK FALSE
