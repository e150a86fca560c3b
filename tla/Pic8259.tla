------------------------------ MODULE Pic8259 ------------------------------
(***************************************************************************)
(* The two cascaded 8259A interrupt controllers, as init_8259a() of        *)
(* kern/trap/idt.c programs them: master lines raise interrupts 32..39,    *)
(* slave lines 40..47, the slave hangs off master line 2 (interrupt 34),   *)
(* every line is unmasked, and an interrupt stays in service until the     *)
(* handler writes an end-of-interrupt command.  The chips themselves are   *)
(* not in the repository; they are modelled from that programming.         *)
(***************************************************************************)
EXTENDS Naturals

CONSTANT Irqs        \* the interrupt numbers devices raise

ASSUME IrqAssumption == Irqs \subseteq (32..47) \ {34}

VARIABLES requested, \* lines raised by a device, not yet delivered (IRR)
          inService  \* interrupts delivered, no end-of-interrupt yet (ISR)

pic == <<requested, inService>>

Cascade == 34
FirstSlave == 40

PicInit == requested = {} /\ inService = {}

(* The lines a delivered interrupt occupies: a slave interrupt also        *)
(* occupies the master's cascade line.                                     *)
Lines(n) == IF n >= FirstSlave THEN {n, Cascade} ELSE {n}

(* Fixed priority, smaller is more urgent: 32, 33, 40..47 in the place of  *)
(* the cascade line, then 35..39.                                          *)
Rank(n) == IF n >= FirstSlave THEN n - 6
           ELSE IF n > Cascade THEN n + 8 ELSE n

(* A request is put to the CPU when it is the most urgent one and more     *)
(* urgent than all that is in service.                                     *)
Deliverable(n) ==
  /\ n \in requested
  /\ \A m \in requested : Rank(n) <= Rank(m)
  /\ \A m \in inService : Rank(n) < Rank(m)

Raise(n) ==
  /\ n \notin requested
  /\ requested' = requested \cup {n}
  /\ UNCHANGED inService

Acknowledge(n) ==
  /\ requested' = requested \ {n}
  /\ inService' = inService \cup Lines(n)

(* A non-specific end-of-interrupt retires the most urgent interrupt in    *)
(* service on one chip, nothing if there is none.                          *)
MostUrgent(S) == {n \in S : \A m \in S : Rank(n) <= Rank(m)}

OnSlave  == {n \in inService : n >= FirstSlave}
OnMaster == {n \in inService : n < FirstSlave}

(* Mutant: the slave is never told.                                        *)
MasterOnly(n) == inService' = inService \ MostUrgent(OnMaster)

(* The outb()s of isr_handler(): the slave's command only for int_no >= 40, *)
(* the master's always.                                                    *)
EndOfInterrupt(n) ==
  inService' = inService \ (MostUrgent(OnMaster) \cup
                            (IF n >= FirstSlave THEN MostUrgent(OnSlave) ELSE {}))
=============================================================================
