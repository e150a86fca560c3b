----------------------------- MODULE MCConsole -----------------------------
(* An instance of ConsoleText for TLC.                                     *)
EXTENDS ConsoleText

CONSTANTS blank, letter, none

MCGlyphs == {blank, letter}
=============================================================================
