\* Four slots, two forks; what is pruned is older than any bar a reorg can reach.
CONSTANTS
    pool = pool
    alice = alice
    bob = bob
    NoPool = NoPool
    Blocks <- ForkedBlocks
    Minute = 2
    Byte = 2
    Margin = 1
    Redeliver = FALSE
SPECIFICATION Spec
INVARIANTS RowsExact BarsAreFolds TiersAgree BalancesNewest
\* Everything is indexed, finalized and pruned in the end, or the process has stopped.
CHECK_DEADLOCK FALSE
