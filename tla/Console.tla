------------------------------ MODULE Console ------------------------------
(***************************************************************************)
(* console_putc_color() of kern/driver/console.c with scroll() and         *)
(* move_cursor(), as the strings that printk() writes go through it one    *)
(* character at a time.                                                    *)
(*                                                                         *)
(* The tty thread prints with interrupts on.  An interrupt that has no     *)
(* handler makes isr_handler() print a line of its own, with interrupts    *)
(* off, through the same code and the same variables.  Each statement is a *)
(* load step and a store step, as gcc compiles it without optimisation;    *)
(* the two loads of a location, of cursor_y and cursor_x, are one step.    *)
(*                                                                         *)
(* Data left out: colours, and what the characters are beyond the four     *)
(* that console_putc_color() treats apart.                                 *)
(***************************************************************************)
EXTENDS Integers

CONSTANTS Width, Height, TabStop,  \* 80, 25 and 8
          Byte,                    \* 256: cursor_x, cursor_y and outb() are bytes
          Glyphs, Blank,           \* the characters from ' ' on; ' '
          NoValue                  \* a register or argument not in use

Controls == {"backspace", "tab", "return", "newline"}
Characters == Glyphs \cup Controls

ASSUME ConsoleAssumption ==
  /\ Width \in Nat \ {0} /\ TabStop \in Nat \ {0} /\ Height \in Nat \ {0, 1}
  /\ Byte \in Nat /\ Byte > Width + TabStop /\ Byte > Height + 1
  /\ Blank \in Glyphs /\ Glyphs \cap Controls = {}
  /\ NoValue \notin Characters /\ NoValue \notin Int

VARIABLES
  video_memory,        \* the cells of the screen
  cursor_x, cursor_y,
  index, location,     \* the CRTC: index register, cursor location registers
  call,                \* the call of console_putc_color() of each activation
  printing             \* the CPU is in an interrupt that prints

shared == <<video_memory, cursor_x, cursor_y, index, location>>
vars == <<shared, call, printing>>

Activations == {"thread", "handler"}
Loads == {"cell", "column", "row", "next_row", "copy", "locate"}
Points == Loads \cup {"idle", "home", "wrap", "next_home", "scroll", "blank",
                      "bottom", "high", "relocate", "low"}
Cells == 0 .. Height * Width - 1
HIGH == 14
LOW == 15

Idle == [pc |-> "idle", c |-> NoValue, reg |-> NoValue, i |-> 0]

(* After console_clear().                                                  *)
Init ==
  /\ video_memory = [i \in Cells |-> Blank]
  /\ cursor_x = 0 /\ cursor_y = 0
  /\ index = LOW /\ location = [r \in {HIGH, LOW} |-> 0]
  /\ call = [a \in Activations |-> Idle]
  /\ printing = FALSE

-----------------------------------------------------------------------------
(* The handler runs to its end before the thread goes on.                  *)
Runs(a) == printing = (a = "handler")
At(a, p) == Runs(a) /\ call[a].pc = p
Loaded(a, p) == At(a, p) /\ call[a].reg # NoValue
GoTo(a, p, n) == call' = [call EXCEPT ![a].pc = p, ![a].reg = NoValue, ![a].i = n]
Go(a, p) == GoTo(a, p, 0)

(* An interrupt without a handler, at any step of the thread.              *)
Interrupt ==
  /\ ~printing
  /\ printing' = TRUE
  /\ UNCHANGED <<shared, call>>

(* The branches on the character.                                          *)
First(k) == IF k \in Glyphs THEN "cell"
            ELSE IF k \in {"return", "newline"} THEN "home"
            ELSE IF k = "tab" \/ cursor_x # 0 THEN "column"
            ELSE "wrap"

Putc(a, k) ==
  /\ At(a, "idle")
  /\ a = "handler" => k \in Glyphs \cup {"newline"}
  /\ call' = [call EXCEPT ![a] = [pc |-> First(k), c |-> k, reg |-> NoValue, i |-> 0]]
  /\ UNCHANGED <<shared, printing>>

(* The right-hand sides.                                                   *)
Location == cursor_y * Width + cursor_x

(* Mutant: cursor_x an int.                                                *)
NextColumnWide(k) ==
  IF k = "backspace" THEN cursor_x - 1
  ELSE IF k = "tab" THEN ((cursor_x + TabStop) \div TabStop) * TabStop
  ELSE cursor_x + 1

NextColumn(k) ==
  (IF k = "backspace" THEN cursor_x - 1
   ELSE IF k = "tab" THEN ((cursor_x + TabStop) \div TabStop) * TabStop
   ELSE cursor_x + 1) % Byte
NextRow == (cursor_y + 1) % Byte
Value(f) == IF f.pc = "column" THEN NextColumn(f.c)
            ELSE IF f.pc \in {"row", "next_row"} THEN NextRow
            ELSE IF f.pc = "copy" THEN video_memory[f.i + Width]
            ELSE Location

Load(a) ==
  /\ Runs(a) /\ call[a].pc \in Loads /\ call[a].reg = NoValue
  /\ call' = [call EXCEPT ![a].reg = Value(call[a])]
  /\ UNCHANGED <<shared, printing>>

(* A location below the last row, where an interrupted thread may have     *)
(* left cursor_y, is in video memory but never shown.                      *)
StoreCell(a) ==
  /\ Loaded(a, "cell")
  /\ video_memory' = [i \in Cells |-> IF i = call[a].reg THEN call[a].c
                                      ELSE video_memory[i]]
  /\ Go(a, "column")
  /\ UNCHANGED <<cursor_x, cursor_y, index, location, printing>>

StoreColumn(a) ==
  /\ Loaded(a, "column")
  /\ cursor_x' = call[a].reg
  /\ Go(a, "wrap")
  /\ UNCHANGED <<video_memory, cursor_y, index, location, printing>>

Home(a, p, q) ==
  /\ At(a, p)
  /\ cursor_x' = 0
  /\ Go(a, q)
  /\ UNCHANGED <<video_memory, cursor_y, index, location, printing>>

StoreRow(a, p, q) ==
  /\ Loaded(a, p)
  /\ cursor_y' = call[a].reg
  /\ Go(a, q)
  /\ UNCHANGED <<video_memory, cursor_x, index, location, printing>>

(* Mutant: one column too many.                                            *)
WrapLate(a) ==
  /\ At(a, "wrap")
  /\ Go(a, IF cursor_x > Width THEN "next_home" ELSE "scroll")
  /\ UNCHANGED <<shared, printing>>

Wrap(a) ==
  /\ At(a, "wrap")
  /\ Go(a, IF cursor_x >= Width THEN "next_home" ELSE "scroll")
  /\ UNCHANGED <<shared, printing>>

(* scroll().                                                               *)
Scroll(a) ==
  /\ At(a, "scroll")
  /\ Go(a, IF cursor_y >= Height THEN "copy" ELSE "locate")
  /\ UNCHANGED <<shared, printing>>

LastRow == (Height - 1) * Width

(* Mutant: the copy goes on into the last row and nothing is blanked.      *)
CopyCellOnly(a) ==
  /\ Loaded(a, "copy")
  /\ video_memory' = [video_memory EXCEPT ![call[a].i] = call[a].reg]
  /\ IF call[a].i + 1 < LastRow THEN GoTo(a, "copy", call[a].i + 1)
                                ELSE GoTo(a, "bottom", 0)
  /\ UNCHANGED <<cursor_x, cursor_y, index, location, printing>>

CopyCell(a) ==
  /\ Loaded(a, "copy")
  /\ video_memory' = [video_memory EXCEPT ![call[a].i] = call[a].reg]
  /\ GoTo(a, IF call[a].i + 1 < LastRow THEN "copy" ELSE "blank", call[a].i + 1)
  /\ UNCHANGED <<cursor_x, cursor_y, index, location, printing>>

BlankCell(a) ==
  /\ At(a, "blank")
  /\ video_memory' = [video_memory EXCEPT ![call[a].i] = Blank]
  /\ IF call[a].i + 1 \in Cells THEN GoTo(a, "blank", call[a].i + 1)
                                ELSE GoTo(a, "bottom", 0)
  /\ UNCHANGED <<cursor_x, cursor_y, index, location, printing>>

Bottom(a) ==
  /\ At(a, "bottom")
  /\ cursor_y' = Height - 1
  /\ Go(a, "locate")
  /\ UNCHANGED <<video_memory, cursor_x, index, location, printing>>

(* move_cursor(): cursor_location, then an index and a byte, twice.  The   *)
(* byte goes to the register that the index names when it is written.      *)
Jump(a, p) == call' = [call EXCEPT ![a].pc = p]

SelectHigh(a) ==
  /\ Loaded(a, "locate")
  /\ index' = HIGH
  /\ Jump(a, "high")
  /\ UNCHANGED <<video_memory, cursor_x, cursor_y, location, printing>>

OutHigh(a) ==
  /\ At(a, "high")
  /\ location' = [location EXCEPT ![index] = (call[a].reg \div Byte) % Byte]
  /\ Jump(a, "relocate")
  /\ UNCHANGED <<video_memory, cursor_x, cursor_y, index, printing>>

(* Mutant: the index of the high byte again.                               *)
SelectHighAgain(a) ==
  /\ At(a, "relocate")
  /\ index' = HIGH
  /\ Jump(a, "low")
  /\ UNCHANGED <<video_memory, cursor_x, cursor_y, location, printing>>

SelectLow(a) ==
  /\ At(a, "relocate")
  /\ index' = LOW
  /\ Jump(a, "low")
  /\ UNCHANGED <<video_memory, cursor_x, cursor_y, location, printing>>

(* The call returns.  The line of the handler ends with a newline.         *)
OutLow(a) ==
  /\ At(a, "low")
  /\ location' = [location EXCEPT ![index] = call[a].reg % Byte]
  /\ call' = [call EXCEPT ![a] = Idle]
  /\ printing' = (printing /\ call[a].c # "newline")
  /\ UNCHANGED <<video_memory, cursor_x, cursor_y, index>>

ScrollStep(a) == Scroll(a) \/ CopyCell(a) \/ BlankCell(a) \/ Bottom(a)
MoveStep(a) == SelectHigh(a) \/ OutHigh(a) \/ SelectLow(a) \/ OutLow(a)

PutcStep(a) ==
  \/ Load(a)
  \/ StoreCell(a) \/ StoreColumn(a)
  \/ Home(a, "home", IF call[a].c = "newline" THEN "row" ELSE "wrap")
  \/ StoreRow(a, "row", "wrap")
  \/ Wrap(a) \/ Home(a, "next_home", "next_row") \/ StoreRow(a, "next_row", "scroll")
  \/ ScrollStep(a)
  \/ MoveStep(a)

Next ==
  \/ Interrupt
  \/ \E a \in Activations : PutcStep(a) \/ \E k \in Characters : Putc(a, k)

Spec == Init /\ [][Next]_vars

-----------------------------------------------------------------------------
(* Properties.                                                             *)

(* The state has the types of its C declarations, whoever interrupts whom. *)
TypeOK ==
  /\ video_memory \in [Cells -> Glyphs]
  /\ cursor_x \in 0 .. Byte - 1 /\ cursor_y \in 0 .. Byte - 1
  /\ index \in {HIGH, LOW} /\ location \in [{HIGH, LOW} -> 0 .. Byte - 1]
  /\ printing \in BOOLEAN
  /\ \A a \in Activations :
       /\ call[a].pc \in Points /\ call[a].c \in Characters \cup {NoValue}
       /\ call[a].i \in 0 .. Height * Width

(* Nobody is printing.                                                     *)
Quiet == ~printing /\ call["thread"].pc = "idle"

(* However a character of the thread and the lines of handlers are mixed,  *)
(* the cursor is back on the screen when the thread's call has returned,   *)
(* even if it passed the edge twice or below zero in between.              *)
CursorOnScreen == Quiet => cursor_x < Width /\ cursor_y < Height

(* The place of the blinking cursor.                                       *)
CursorShown == location[HIGH] * Byte + location[LOW]

(* Once no handler prints any more, the next character the thread prints   *)
(* brings the blinking cursor back to where the text goes on.              *)
CursorRecovers ==
  <>[]~printing /\ []<>~Quiet => <>[](Quiet => CursorShown = Location)
=============================================================================
