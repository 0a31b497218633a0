------------------------------- MODULE MCGaps -------------------------------
(***************************************************************************)
(* TLC instances of Gaps.  The fetchers are interchangeable.               *)
(***************************************************************************)
EXTENDS Gaps, TLC

Symmetry == Permutations(Workers)
=============================================================================
