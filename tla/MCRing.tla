------------------------------- MODULE MCRing -------------------------------
(***************************************************************************)
(* The TLC instance of Ring: both kinds of ring, two producers.            *)
(***************************************************************************)
EXTENDS Ring
=============================================================================
