---------------------------- MODULE MCConfirmed ----------------------------
(***************************************************************************)
(* TLC instances of Confirmed: four slots a second apart, two forks.       *)
(***************************************************************************)
EXTENDS Confirmed

CONSTANTS pool, alice, bob

Swap(slot, tx, ins, inner, idx, in, price, volume) ==
    [pool |-> in, slot |-> slot, tx |-> tx, ins |-> ins, inner |-> inner, idx |-> idx,
     price |-> price, volume |-> volume, time |-> slot + 1, priced |-> TRUE]

Block(slot, fork, rows, changed) ==
    [slot |-> slot, fork |-> fork, rows |-> rows, balances |-> changed]

(* No two rows of a block differ only in being an inner instruction. *)
ForkedBlocks ==
    {Block(1, 0, <<Swap(1, 1, 0, FALSE, 0, pool, 5, 1)>>, [a \in {alice, bob} |-> 1]),
     Block(2, 0, <<Swap(2, 0, 1, FALSE, 0, pool, 3, 2), Swap(2, 0, 1, TRUE, 1, pool, 8, 1)>>,
           [a \in {alice} |-> 2]),
     Block(2, 1, <<Swap(2, 0, 1, TRUE, 2, pool, 6, 4)>>, [a \in {alice} |-> 3]),
     Block(3, 0, <<Swap(3, 1, 2, FALSE, 0, pool, 9, 1)>>, [a \in {bob} |-> 4]),
     Block(3, 1, <<Swap(3, 0, 0, FALSE, 0, NoPool, 1, 1)>>, [a \in {alice} |-> 5]),
     Block(4, 0, <<Swap(4, 0, 0, FALSE, 0, pool, 2, 1)>>, [a \in {} |-> 0]),
     Block(4, 1, <<Swap(4, 2, 0, FALSE, 0, pool, 7, 3)>>, [a \in {bob} |-> 6])}

(* A route, whose row is that of the routing instruction, and its first leg. *)
RouteBlocks ==
    {Block(1, 0, <<Swap(1, 0, 1, TRUE, 0, pool, 5, 1), Swap(1, 0, 1, FALSE, 0, NoPool, 5, 1)>>,
           [a \in {alice} |-> 1])}
=============================================================================
