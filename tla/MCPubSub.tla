------------------------------ MODULE MCPubSub ------------------------------
(***************************************************************************)
(* TLC instances of PubSub.  The code's times are 500 ms to 30 s of        *)
(* backoff, 60 s of idleness and polls of 1 s (pipeline) or 30 s           *)
(* (tools/subscribe.c).                                                    *)
(***************************************************************************)
EXTENDS PubSub
=============================================================================
