------------------------------- MODULE MCRpc -------------------------------
(* Three endpoints, one of them behind the others. *)
EXTENDS Rpc

MCTip == 0 :> 5 @@ 1 :> 4 @@ 2 :> 5
=============================================================================
