--------------------------- MODULE MCCursorFile ---------------------------
(***************************************************************************)
(* Three positions with one, two and three digits, so that a number cut    *)
(* short reads as another slot.                                            *)
(***************************************************************************)
EXTENDS CursorFile

MCSlots == {7, 12, 123}
=============================================================================
