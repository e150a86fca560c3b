----------------------------- MODULE MCKeyboard -----------------------------
(* Instances of Keyboard for TLC: keys of every kind there is.             *)
EXTENDS Keyboard

Letter  == <<\h1E, 0>>
CursorUp == <<\h48, 2>>

MCKeys     == {Letter, SHIFT_L, CTRL_R, CursorUp, PRINTSCREEN, PAUSEBREAK}
MCLossKeys == {Letter, CTRL_R, PRINTSCREEN, PAUSEBREAK}
MCAltKeys  == {Letter, ALT_L, ALT_R}
=============================================================================
