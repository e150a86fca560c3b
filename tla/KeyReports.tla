----------------------------- MODULE KeyReports -----------------------------
(***************************************************************************)
(* What the keyboard driver promises the tty: every key pressed is         *)
(* reported once, in order, with the modifiers that were down when it was  *)
(* pressed, and is shown if it is a character.                             *)
(***************************************************************************)
EXTENDS Sequences

CONSTANTS Keys,       \* the physical keys
          Modifiers,  \* those that are modifiers
          Shifts,     \* the modifiers that select the shifted meaning
          Unreported, \* those the driver recognises and keeps to itself
          Meaning,    \* what a key is reported as
          ShiftedMeaning, \* and what, with one of Shifts down
          Characters, \* the meanings that can be shown
          Nothing     \* no report yet, nothing shown yet

VARIABLES pending, \* key events not dealt with: [key, make]
          held,    \* the modifiers down at that point of the stream
          typed,   \* the last report: [key, flags]
          shown    \* the last character shown

vars == <<pending, held, typed, shown>>

Event == [key : Keys, make : BOOLEAN]

Init == /\ pending = << >>
        /\ held = {}
        /\ typed = [key |-> Nothing, flags |-> {}]
        /\ shown = Nothing

Hit(e) == /\ pending' = Append(pending, e)
          /\ UNCHANGED <<held, typed, shown>>

Hold(e) == held' = IF e.key \notin Modifiers THEN held
                   ELSE IF e.make THEN held \cup {e.key}
                   ELSE held \ {e.key}

Tell(key) == /\ typed' = [key |-> key, flags |-> held']
             /\ shown' = IF key \in Characters THEN key ELSE shown

Report ==
  /\ pending # << >>
  /\ pending' = Tail(pending)
  /\ Hold(Head(pending))
  /\ IF Head(pending).make /\ Head(pending).key \notin Unreported
     THEN Tell(IF held \cap Shifts = {} THEN Meaning[Head(pending).key]
               ELSE ShiftedMeaning[Head(pending).key])
     ELSE UNCHANGED <<typed, shown>>

Next == Report \/ \E e \in Event : Hit(e)

Spec == Init /\ [][Next]_vars
FairSpec == Spec /\ WF_vars(Report)
=============================================================================
