----------------------------- MODULE KeyEvents -----------------------------
(***************************************************************************)
(* Keyboard beside the key events its bytes were sent for: pending takes   *)
(* an event when the key is hit, and the oldest one leaves it when a call  *)
(* of keyboard_read() has come to its end.                                 *)
(***************************************************************************)
EXTENDS Keyboard

VARIABLE pending

eventVars == <<vars, pending>>

EventsInit == Init /\ pending = << >>

EventsNext ==
  \/ \E e \in Event : Hit(e) /\ pending' = Append(pending, e)
  \/ Arrive /\ UNCHANGED pending
  \/ keyboard_read /\ pending' = IF got' = << >> THEN Tail(pending) ELSE pending

EventsSpec == EventsInit /\ [][EventsNext]_eventVars
EventsFairSpec == EventsSpec /\ WF_vars(keyboard_read) /\ WF_vars(Arrive)
-----------------------------------------------------------------------------
(* What a key is reported as.                                              *)
Meaning        == [k \in Keys |-> keymap(k[1], k[2])]
ShiftedMeaning == [k \in Keys |-> keymap(k[1], IF k[2] = 2 THEN 2 ELSE 1)]

KR == INSTANCE KeyReports
        WITH Shifts <- {SHIFT_L, SHIFT_R},
             Unreported <- {PRINTSCREEN, PAUSEBREAK},
             Nothing <- NoKey,
             held <- modifiers

(* Keys are reported one by one as they were pressed, multi-byte codes     *)
(* never taken apart or joined, shifted and flagged as of their time: a    *)
(* call of keyboard_read() ends with the last byte of the oldest event     *)
(* there is, and reports that one.                                         *)
ReportsKeysInOrder == KR!FairSpec
=============================================================================
