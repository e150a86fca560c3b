-------------------------- MODULE MCKeyboardQueue --------------------------
(* An instance of KeyboardQueue for TLC: three slots, so that the pointers *)
(* wrap at different times and the buffer fills, and three scan codes, so  *)
(* that a byte repeated, lost or out of order shows.                       *)
EXTENDS KeyboardQueue

CONSTANTS zero, a, b, none

MCBytes == {zero, a, b}
=============================================================================
