--------------------------- MODULE KeyboardQueue ---------------------------
(***************************************************************************)
(* The ring buffer kb_in of kern/driver/keyboard.c between the keyboard    *)
(* interrupt, which fills it, and the tty thread, which empties it.        *)
(*                                                                         *)
(* keyboard_handler() runs with interrupts off on the only CPU, so it is   *)
(* one step.  The reader is interruptible wherever the interrupt flag is   *)
(* set; get_byte_from_kbuf() is one step per access to shared memory, and  *)
(* the build does not optimise, so "count--" is a load and a store.  The   *)
(* 8042 is not in the repository: it holds one byte, raises interrupt 33,  *)
(* and takes the next byte from the keyboard when inb(0x60) has emptied it. *)
(***************************************************************************)
EXTENDS Naturals, Sequences

CONSTANTS N,       \* KB_IN_BYTES
          Bytes,   \* scan codes
          Zero,    \* what static memory holds at boot
          NoByte   \* the 8042 is empty

ASSUME QueueAssumption == /\ N \in Nat \ {0}
                          /\ Zero \in Bytes
                          /\ NoByte \notin Bytes

VARIABLES
  port,                     \* the 8042's output buffer
  buff, head, tail, count,  \* kb_in; the pointers as indices of buff
  pc,                       \* where the reader is
  reg,                      \* the register that carries count - 1
  scan_code,                \* the byte get_byte_from_kbuf() returns
  interruptFlag             \* EFLAGS.IF

ring == <<buff, head, tail, count>>
vars == <<port, ring, pc, reg, scan_code, interruptFlag>>

Slots == 0 .. N - 1

InitKeyboard ==
  /\ port = NoByte
  /\ buff = [i \in Slots |-> Zero]
  /\ head = 0 /\ tail = 0 /\ count = 0
  /\ pc = "wait"
  /\ reg = 0
  /\ scan_code = Zero

Init == InitKeyboard /\ interruptFlag = TRUE

(* Mutant: the end of buff found one slot late.                            *)
AdvanceLate(i) == IF i = N THEN 0 ELSE i + 1

(* ++p; if (p == buff + KB_IN_BYTES) p = buff;                             *)
Advance(i) == IF i + 1 = N THEN 0 ELSE i + 1

-----------------------------------------------------------------------------
(* The keyboard and its interrupt.                                         *)

KeyEvent(b) ==
  /\ port = NoByte
  /\ port' = b
  /\ UNCHANGED <<ring, pc, reg, scan_code, interruptFlag>>

Store(b) ==
  /\ buff' = [buff EXCEPT ![tail] = b]
  /\ tail' = Advance(tail)
  /\ count' = count + 1
  /\ UNCHANGED head

(* Mutant: a buffer with one free slot taken for full.                     *)
ReceiveEarly ==
  /\ port' = NoByte
  /\ \/ count + 1 < N /\ Store(port)
     \/ ~(count + 1 < N) /\ UNCHANGED ring
  /\ UNCHANGED <<pc, reg, scan_code>>

Receive ==
  /\ port' = NoByte
  /\ \/ count < N /\ Store(port)
     \/ ~(count < N) /\ UNCHANGED ring
  /\ UNCHANGED <<pc, reg, scan_code>>

keyboard_handler ==
  /\ interruptFlag
  /\ port # NoByte
  /\ Receive
  /\ UNCHANGED interruptFlag

-----------------------------------------------------------------------------
(* get_byte_from_kbuf(), called again and again by keyboard_read() in the  *)
(* loop of task_tty().                                                     *)

Wait ==
  /\ pc = "wait"
  /\ count > 0
  /\ pc' = "cli"
  /\ UNCHANGED <<port, ring, reg, scan_code, interruptFlag>>

(* Mutant: no critical section.                                            *)
NoCli ==
  /\ pc = "cli"
  /\ pc' = "read"
  /\ UNCHANGED <<port, ring, reg, scan_code, interruptFlag>>

Cli ==
  /\ pc = "cli"
  /\ interruptFlag' = FALSE
  /\ pc' = "read"
  /\ UNCHANGED <<port, ring, reg, scan_code>>

ReadByte ==
  /\ pc = "read"
  /\ scan_code' = buff[head]
  /\ pc' = "advance"
  /\ UNCHANGED <<port, ring, reg, interruptFlag>>

AdvanceHead ==
  /\ pc = "advance"
  /\ head' = Advance(head)
  /\ pc' = "load"
  /\ UNCHANGED <<port, buff, tail, count, reg, scan_code, interruptFlag>>

LoadCount ==
  /\ pc = "load"
  /\ reg' = count - 1
  /\ pc' = "store"
  /\ UNCHANGED <<port, ring, scan_code, interruptFlag>>

StoreCount ==
  /\ pc = "store"
  /\ count' = reg
  /\ pc' = "sti"
  /\ UNCHANGED <<port, buff, head, tail, reg, scan_code, interruptFlag>>

(* Mutant: interrupts left off.                                            *)
NoSti ==
  /\ pc = "sti"
  /\ pc' = "wait"
  /\ UNCHANGED <<port, ring, reg, scan_code, interruptFlag>>

Sti ==
  /\ pc = "sti"
  /\ interruptFlag' = TRUE
  /\ pc' = "wait"
  /\ UNCHANGED <<port, ring, reg, scan_code>>

ReaderStep == \/ Wait \/ Cli \/ ReadByte \/ AdvanceHead
              \/ LoadCount \/ StoreCount \/ Sti

Next == \/ \E b \in Bytes : KeyEvent(b)
        \/ keyboard_handler
        \/ ReaderStep

(* The scheduler keeps coming back to the tty thread (ServesInRoundOrder   *)
(* of Scheduler) and a pending interrupt is taken when interrupts are on.  *)
(* Nothing is assumed of the person at the keyboard.                       *)
Fairness == WF_vars(ReaderStep) /\ WF_vars(keyboard_handler)

Spec == Init /\ [][Next]_vars
FairSpec == Spec /\ Fairness
-----------------------------------------------------------------------------
(* Properties.                                                             *)

(* Pointers stay inside buff, the count inside 0 .. KB_IN_BYTES.           *)
TypeOK ==
  /\ port \in Bytes \cup {NoByte}
  /\ buff \in [Slots -> Bytes]
  /\ head \in Slots /\ tail \in Slots
  /\ count \in 0 .. N
  /\ pc \in {"wait", "cli", "read", "advance", "load", "store", "sti"}
  /\ reg \in 0 .. N
  /\ scan_code \in Bytes
  /\ interruptFlag \in BOOLEAN

(* The byte in hand is out of the queue from the moment it is read: head   *)
(* and count follow a few steps later.                                     *)
Oldest == IF pc = "advance" THEN Advance(head) ELSE head
Waiting == IF pc \in {"advance", "load", "store"} THEN count - 1 ELSE count
Slot(i) == IF i >= N THEN i - N ELSE i

(* head, tail and count, three variables written by two parties, agree:    *)
(* the bytes that wait are exactly those from head up to tail.             *)
PointersAgree == tail = Slot(Oldest + Waiting)

Fifo == INSTANCE ByteFifo
          WITH queue <- [i \in 1 .. Waiting |-> buff[Slot(Oldest + i - 1)]],
               out <- scan_code

(* No byte is lost but one that finds the buffer full, and none that the   *)
(* buffer took is lost, repeated, invented or reordered, whatever arrives  *)
(* in the middle of get_byte_from_kbuf(); a byte that waits is delivered.  *)
DeliversInOrder == Fifo!FairSpec
DeliversInOrderSafely == Fifo!Spec

(* The keyboard is never stopped, by a full buffer or by a critical        *)
(* section: the 8042's byte is read, so it can raise its next interrupt.   *)
PortIsServed == port # NoByte ~> port = NoByte
=============================================================================
