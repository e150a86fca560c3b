------------------------------ MODULE Keyboard ------------------------------
(***************************************************************************)
(* keyboard_read() of kern/driver/keyboard.c, run for ever by the tty      *)
(* thread: it takes the bytes of the input buffer, joins those that make   *)
(* up one key, keeps track of the modifiers and reports keys to            *)
(* in_process() of kern/driver/tty.c.  The buffer is the FIFO that         *)
(* KeyboardQueue implements; one action is one get_byte_from_kbuf() and    *)
(* what is done up to the next.                                            *)
(*                                                                         *)
(* A key value is the place <<row, column>> of its first appearance in     *)
(* keymap.  A physical key has the same name: column 0 if it sends one     *)
(* byte, 2 if it sends one after E0; Pause and PrintScreen have names of   *)
(* places keymap leaves empty.                                             *)
(***************************************************************************)
EXTENDS Naturals, Sequences, SequencesExt

CONSTANTS Keys,    \* the keys of the keyboard
          N,       \* KB_IN_BYTES
          Patient  \* TRUE: the buffer never overflows (an assumption)

VARIABLES queue,      \* the bytes in the input buffer, oldest first
          got,        \* the bytes this call of keyboard_read() has taken
          modifiers,  \* the flags shift_l .. alt_r that are set
          typed,      \* the last call in_process(key | flags)
          shown,      \* the last character the tty printed
          line,       \* bytes of a key event still to come from the keyboard
          down,       \* the keys that are down
          lost        \* a byte of the last key event was dropped

vars == <<queue, got, modifiers, typed, shown, line, down, lost>>

NoKey   == <<0, 0>>
SHIFT_L == <<\h2A, 0>>
SHIFT_R == <<\h36, 0>>
CTRL_L  == <<\h1D, 0>>
CTRL_R  == <<\h1D, 2>>
ALT_L   == <<\h38, 0>>
ALT_R   == <<\h38, 2>>
PRINTSCREEN == <<\h37, 2>>
PAUSEBREAK  == <<\h45, 2>>
NUM_LOCK    == <<\h45, 0>>

Modifiers == {SHIFT_L, SHIFT_R, CTRL_L, CTRL_R, ALT_L, ALT_R}

(* The rows of keymap with an entry, with the same one in the first two    *)
(* columns, and with one for the code after E0.                            *)
Plain     == \h01 .. \h53 \cup {\h57, \h58}
Unshifted == {\h01, \h0E, \h0F, \h1C, \h1D, \h2A} \cup \h36 .. \h46 \cup {\h57, \h58}
Extended  == {\h1C, \h1D, \h35, \h38, \h4B, \h4D} \cup \h47 .. \h49
             \cup \h4F .. \h53 \cup \h5B .. \h5D

keymap(row, column) ==
  IF column = 2 THEN IF row \in Extended THEN <<row, 2>> ELSE NoKey
  ELSE IF row \notin Plain THEN NoKey
  ELSE <<row, IF row \in Unshifted THEN 0 ELSE column>>

(* The entries without FLAG_EXT: characters.                               *)
CharacterRows == \h02 .. \h0D \cup \h10 .. \h1B \cup \h1E .. \h29
                 \cup \h2B .. \h35 \cup {\h37, \h39}
Characters == (CharacterRows \X {0, 1}) \cup ((\h47 .. \h53) \X {1})

(* The keys around whose codes a keyboard sends the code of a Shift after  *)
(* E0 (a "fake shift") while a Shift is down or Num Lock is on: those for  *)
(* the cursor and for editing, and the keypad's slash.                     *)
Edited == ({\h35} \cup \h47 .. \h53) \X {2}

(* The keys are those keymap knows, and the two it need not know; a        *)
(* keyboard with keys of Edited has no Num Lock, or it is never used.      *)
ASSUME KeysAssumption ==
  /\ Keys \subseteq (Plain \X {0}) \cup (Extended \X {2}) \cup {PRINTSCREEN, PAUSEBREAK}
  /\ NUM_LOCK \in Keys => Keys \cap Edited = {}
  /\ N \in Nat /\ Patient \in BOOLEAN

PauseCode  == <<\hE1, \h1D, \h45, \hE1, \h9D, \hC5>>
PrintMake  == <<\hE0, \h2A, \hE0, \h37>>
PrintBreak == <<\hE0, \hB7, \hE0, \hAA>>

-----------------------------------------------------------------------------
(* The keyboard.                                                           *)

(* A key is pressed (or repeats) or let go; Pause says nothing when it is. *)
Event == {e \in [key : Keys, make : BOOLEAN] : e.make \/ e.key # PAUSEBREAK}

(* The bytes it sends.                                                     *)
FinalByte(e) == IF e.make THEN e.key[1] ELSE e.key[1] + 128
Code == [e \in Event |->
           IF e.key = PAUSEBREAK THEN PauseCode
           ELSE IF e.key = PRINTSCREEN THEN IF e.make THEN PrintMake ELSE PrintBreak
           ELSE IF e.key[2] = 2 THEN <<\hE0, FinalByte(e)>>
           ELSE <<FinalByte(e)>>]

(* Pause and PrintScreen have other codes when a modifier is down, and the *)
(* keys of Edited when a Shift is: that they are used alone is assumed.    *)
Alone(e) ==
  /\ e.key \in {PAUSEBREAK, PRINTSCREEN} => down \cap Modifiers = {}
  /\ e.key \in Edited => down \cap {SHIFT_L, SHIFT_R} = {}

Bytes == UNION {ToSet(Code[e]) : e \in Event}

Hit(e) ==
  /\ line = << >>
  /\ e.make \/ e.key \in down
  /\ Alone(e)
  /\ line' = Code[e]
  /\ down' = IF e.make THEN down \cup ({e.key} \ {PAUSEBREAK}) ELSE down \ {e.key}
  /\ lost' = FALSE
  /\ UNCHANGED <<queue, got, modifiers, typed, shown>>

(* keyboard_handler() stores the next byte, or drops it.                   *)
Arrive ==
  /\ line # << >>
  /\ line' = Tail(line)
  /\ \/ Len(queue) < N /\ queue' = Append(queue, Head(line)) /\ UNCHANGED lost
     \/ ~Patient /\ Len(queue) = N /\ lost' = TRUE /\ UNCHANGED queue
  /\ UNCHANGED <<got, modifiers, typed, shown, down>>

-----------------------------------------------------------------------------
(* keyboard_read().                                                        *)

(* get_byte_from_kbuf(): ByteFifo's Take; the byte is scan_code.           *)
get_byte == queue # << >> /\ queue' = Tail(queue)
scan_code == Head(queue)

(* The second half: look the code up, follow the modifiers, report.        *)

(* Mutant: Shift goes before E0.                                           *)
column_shift_first(e0) == IF modifiers \cap {SHIFT_L, SHIFT_R} # {} THEN 1
                          ELSE IF e0 THEN 2 ELSE 0

column(e0) == IF e0 THEN 2
              ELSE IF modifiers \cap {SHIFT_L, SHIFT_R} # {} THEN 1 ELSE 0

(* Mutant: the code of a key let go sets its flag too.                     *)
FlagSet(key, make) == modifiers \cup ({key} \cap Modifiers)

(* The switch over key; both Alt keys act on alt_l.                        *)
FlagOf(key) == IF key = ALT_R THEN ALT_L ELSE key
Flags(key, make) == IF key \notin Modifiers THEN modifiers
                    ELSE IF make THEN modifiers \cup {FlagOf(key)}
                    ELSE modifiers \ {FlagOf(key)}

in_process(key) ==
  /\ typed' = [key |-> key, flags |-> modifiers']
  /\ shown' = IF key \in Characters THEN key ELSE shown

Decode(code, e0) ==
  LET key  == keymap(code % 128, column(e0))
      make == code < 128
  IN /\ got' = << >>
     /\ modifiers' = Flags(key, make)
     /\ IF make THEN in_process(key) ELSE UNCHANGED <<typed, shown>>

(* Go on with the bytes s, or forget them because they are complete.       *)
Keep(s) == got' = s /\ UNCHANGED <<modifiers, typed, shown>>

Begins(s, code) == IsPrefix(s, code) /\ s # code

ReadFirst ==
  /\ got = << >>
  /\ get_byte
  /\ \/ scan_code \in {\hE0, \hE1} /\ Keep(<<scan_code>>)
     \/ scan_code \notin {\hE0, \hE1} /\ Decode(scan_code, FALSE)
  /\ UNCHANGED <<line, down, lost>>

(* Mutant: the loop over the bytes of Pause runs once too often.           *)
ReadPauseLong ==
  /\ got # << >> /\ got[1] = \hE1
  /\ get_byte
  /\ LET s == Append(got, scan_code) IN
       \/ IsPrefix(s, PauseCode) /\ Keep(s)
       \/ ~IsPrefix(s, PauseCode) /\ Decode(\hE1, FALSE)
  /\ UNCHANGED <<line, down, lost>>

(* After E1: the bytes of Pause, up to the first that does not match.      *)
ReadPause ==
  /\ got # << >> /\ got[1] = \hE1
  /\ get_byte
  /\ LET s == Append(got, scan_code) IN
       \/ Begins(s, PauseCode) /\ Keep(s)
       \/ s = PauseCode /\ Keep(<< >>)
       \/ ~IsPrefix(s, PauseCode) /\ Decode(\hE1, FALSE)
  /\ UNCHANGED <<line, down, lost>>

(* After E0: the first byte of PrintScreen, or the code of a key.          *)
ReadExtended ==
  /\ got = <<\hE0>>
  /\ get_byte
  /\ \/ scan_code \in {\h2A, \hB7} /\ Keep(<<\hE0, scan_code>>)
     \/ scan_code \notin {\h2A, \hB7} /\ Decode(scan_code, TRUE)
  /\ UNCHANGED <<line, down, lost>>

(* Mutant: the byte that does not match is not thrown away but waited for  *)
(* once more.                                                              *)
ReadPrintAgain ==
  /\ Len(got) > 1 /\ got[1] = \hE0
  /\ get_byte
  /\ LET s == Append(got, scan_code) IN
       \/ \E code \in {PrintMake, PrintBreak} : Begins(s, code) /\ Keep(s)
       \/ s \in {PrintMake, PrintBreak} /\ Keep(<< >>)
       \/ ~IsPrefix(s, PrintMake) /\ ~IsPrefix(s, PrintBreak) /\ Keep(got)
  /\ UNCHANGED <<line, down, lost>>

(* After E0 2A or E0 B7: the rest of PrintScreen; if it is something else  *)
(* the byte just read is thrown away and the 2A or B7 decoded.             *)
ReadPrint ==
  /\ Len(got) > 1 /\ got[1] = \hE0
  /\ get_byte
  /\ LET s == Append(got, scan_code) IN
       \/ \E code \in {PrintMake, PrintBreak} : Begins(s, code) /\ Keep(s)
       \/ s \in {PrintMake, PrintBreak} /\ Keep(<< >>)
       \/ ~IsPrefix(s, PrintMake) /\ ~IsPrefix(s, PrintBreak) /\ Decode(got[2], TRUE)
  /\ UNCHANGED <<line, down, lost>>

keyboard_read == ReadFirst \/ ReadPause \/ ReadExtended \/ ReadPrint

-----------------------------------------------------------------------------
Init ==
  /\ queue = << >>
  /\ got = << >>
  /\ modifiers = {}
  /\ typed = [key |-> NoKey, flags |-> {}]
  /\ shown = NoKey
  /\ line = << >> /\ down = {} /\ lost = FALSE

Next == \/ \E e \in Event : Hit(e)
        \/ Arrive
        \/ keyboard_read

(* The tty thread runs again and again, and the keyboard sends the bytes   *)
(* of a key it has begun; nothing is assumed of the person at it.          *)
Spec == Init /\ [][Next]_vars
FairSpec == Spec /\ WF_vars(keyboard_read) /\ WF_vars(Arrive)
-----------------------------------------------------------------------------
(* Properties.                                                             *)

(* Every variable has its type, and a call of keyboard_read() that waits   *)
(* for a byte waits for the next one of Pause or of PrintScreen.           *)
TypeOK ==
  /\ queue \in Seq(Bytes) /\ Len(queue) <= N
  /\ \E code \in {PauseCode, PrintMake, PrintBreak} : Begins(got, code)
  /\ modifiers \subseteq Modifiers
  /\ typed.key \in (0 .. 127) \X (0 .. 2) /\ typed.flags \subseteq Modifiers
  /\ shown \in Characters \cup {NoKey}
  /\ line \in Seq(Bytes)
  /\ down \subseteq Keys
  /\ lost \in BOOLEAN

(* When every byte has been dealt with, each flag says whether its key is  *)
(* down (the comments on shift_l .. ctrl_r, keyboard.c:13-18).             *)
Quiet == line = << >> /\ queue = << >> /\ got = << >>
ModifiersFollowKeys == Quiet => modifiers = down \cap Modifiers

(* Bytes dropped at a full buffer (keyboard.c:39) garble keys, but the     *)
(* reading recovers: once a later key has come through whole and been      *)
(* dealt with, the next one is read from its first byte.  (For keys whose  *)
(* code of one byte is not also a byte of Pause or PrintScreen.)           *)
Resyncs == line = << >> /\ queue = << >> /\ ~lost => got = << >>
=============================================================================
