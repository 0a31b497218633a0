---------------------------- MODULE MCFinalized ----------------------------
(* A pool that two blocks trade on, in both directions.  The first block has  *)
(* the pool's creation and a swap that does not say the decimals of one side, *)
(* the last one the decimals, a balance and the metadata of a token.  So what *)
(* a failed append left behind of either block may be poorer or richer than   *)
(* what its retry reads after the other block came.                           *)
EXTENDS Finalized

CONSTANTS poolA, sol, usd, alice, maker, name

On(in, out) == [pool |-> poolA, in |-> in, out |-> out]
OfMint(mint, decimals) == [mint |-> mint, decimals |-> decimals]

NoEvents == [swaps |-> <<>>, creations |-> <<>>, balances |-> <<>>, metas |-> <<>>,
             transfers |-> <<>>, sol |-> <<>>]

MCContent ==
    << [NoEvents EXCEPT !.swaps = <<On(OfMint(sol, Unknown), OfMint(usd, 6))>>,
                        !.creations = <<[pool |-> poolA, creator |-> maker]>>,
                        !.sol = <<alice>>],
       [NoEvents EXCEPT !.transfers = <<"sol", "token">>],
       [NoEvents EXCEPT !.swaps = <<On(OfMint(usd, 6), OfMint(sol, 9))>>,
                        !.balances = <<OfMint(usd, 6)>>,
                        !.metas = <<[mint |-> usd, name |-> name]>>] >>
=============================================================================
