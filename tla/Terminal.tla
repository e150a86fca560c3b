------------------------------ MODULE Terminal ------------------------------
(***************************************************************************)
(* What the console promises to whoever prints: the text is a growing      *)
(* sequence of lines, a character changes the last line only, and the      *)
(* screen shows the last lines, all that is kept of the text.              *)
(***************************************************************************)
EXTENDS Integers, Sequences

CONSTANTS Width, Height, TabStop,  \* columns and rows of the screen, tab stops
          Glyphs, Blank            \* what a cell can hold; the space

VARIABLES lines,   \* the last lines of the text
          column   \* where the next glyph goes, in the last line

Columns == 0 .. Width - 1
EmptyLine == [i \in Columns |-> Blank]
Controls == {"backspace", "tab", "return", "newline"}
Characters == Glyphs \cup Controls

Init == lines = <<EmptyLine>> /\ column = 0

(* Past the last column the text goes on in a new line.                    *)
Shown(text) == IF Len(text) > Height THEN Tail(text) ELSE text
MoveTo(text, n) ==
  IF n < Width THEN lines' = text /\ column' = n
               ELSE lines' = Shown(Append(text, EmptyLine)) /\ column' = 0

Type(k) ==
  \/ k \in Glyphs /\ MoveTo([lines EXCEPT ![Len(lines)][column] = k], column + 1)
  \/ k = "newline" /\ MoveTo(lines, Width)
  \/ k = "tab" /\ MoveTo(lines, column + TabStop - (column % TabStop))
  \/ k = "return" /\ MoveTo(lines, 0)
  \/ k = "backspace" /\ MoveTo(lines, IF column = 0 THEN 0 ELSE column - 1)

(* The cells of the screen in the order of video memory, and the cell the  *)
(* cursor is in.                                                           *)
Screen == [i \in 0 .. Height * Width - 1 |->
             LET n == 1 + i \div Width IN
               IF n \in DOMAIN lines THEN lines[n][i % Width] ELSE Blank]
Cursor == (Len(lines) - 1) * Width + column
=============================================================================
