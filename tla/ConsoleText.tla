---------------------------- MODULE ConsoleText ----------------------------
(***************************************************************************)
(* Console beside the text it is given: Terminal takes each character at   *)
(* the call of console_putc_color().  A handler that prints between two    *)
(* calls of the thread adds its line to the text; one that prints inside a *)
(* call mixes its characters with the thread's (cell and cursor_x are read *)
(* and written at different times), and from then on the text is not       *)
(* followed.                                                               *)
(***************************************************************************)
EXTENDS Console, Sequences

VARIABLES lines, column,
          mixed  \* a handler has printed inside a call of the thread

textVars == <<vars, lines, column, mixed>>

T == INSTANCE Terminal

TextInit == Init /\ T!Init /\ mixed = FALSE

TextPutc(a, k) ==
  /\ Putc(a, k)
  /\ \/ ~mixed /\ T!Type(k)
     \/ mixed /\ UNCHANGED <<lines, column>>
  /\ UNCHANGED mixed

TextInterrupt ==
  /\ Interrupt
  /\ mixed' = (mixed \/ call["thread"].pc # "idle")
  /\ IF mixed' THEN lines' = << >> /\ column' = 0 ELSE UNCHANGED <<lines, column>>

TextNext ==
  \/ \E a \in Activations, k \in Characters : TextPutc(a, k)
  \/ TextInterrupt
  \/ \E a \in Activations : PutcStep(a) /\ UNCHANGED <<lines, column, mixed>>

TextSpec == TextInit /\ [][TextNext]_textVars

-----------------------------------------------------------------------------
(* As long as no handler has printed inside a call: whenever nobody is     *)
(* printing, the screen shows the last lines of what threads and handlers  *)
(* have printed, every character once and in order, and the next one goes, *)
(* and the cursor blinks, where the text ends.                             *)
TextShown ==
  Quiet /\ ~mixed =>
    video_memory = T!Screen /\ Location = T!Cursor /\ CursorShown = T!Cursor
=============================================================================
