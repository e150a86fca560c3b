---------------------------- MODULE MCKeyEvents ----------------------------
(* The keys of MCKeyboard for KeyEvents.                                    *)
EXTENDS KeyEvents, MCKeyboard
=============================================================================
