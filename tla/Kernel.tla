------------------------------- MODULE Kernel -------------------------------
(***************************************************************************)
(* The threads and interrupts of Scheduler and the keyboard buffer of      *)
(* KeyboardQueue as one system, sharing the interrupt flag: the tty thread *)
(* is a thread like any other, preempted by the timer, and clears and sets *)
(* the flag itself; a byte in the 8042 raises interrupt 33 like any other  *)
(* device, and keyboard_handler() is called by isr_handler(), on the stack *)
(* of whatever thread was interrupted.                                     *)
(***************************************************************************)
EXTENDS Scheduler

CONSTANTS Tty,                    \* the thread that runs task_tty()
          Keyboard,               \* interrupt 33
          N, Bytes, Zero, NoByte  \* as in KeyboardQueue

VARIABLES port, buff, head, tail, count, pc, reg, scan_code

keyboardVars == <<port, buff, head, tail, count, pc, reg, scan_code>>
kernelVars == <<vars, keyboardVars>>

K == INSTANCE KeyboardQueue

(* No thread function in the repository returns.                           *)
ASSUME KernelAssumption ==
  /\ Tty \in Threads \ {Idle}
  /\ Keyboard \in Irqs \ {Timer}
  /\ Returning = {}
  /\ N \in Nat \ {0} /\ Zero \in Bytes /\ NoByte \notin Bytes

KernelInit == Init /\ K!InitKeyboard

(* A key: the 8042 holds a byte and raises its line.                       *)
KeyEvent(b) ==
  /\ DeviceRequest(Keyboard)
  /\ K!KeyEvent(b)

(* Mutants: keyboard_handler() not registered; registered for every        *)
(* interrupt but the timer's.                                              *)
HandleUnregistered == Dispatch /\ UNCHANGED keyboardVars
HandleOthers ==
  /\ Dispatch
  /\ \/ Here.int_no # Timer /\ K!Receive
     \/ Here.int_no = Timer /\ UNCHANGED keyboardVars

(* isr_handler() calls the handler registered for the interrupt.           *)
Handle ==
  /\ Dispatch
  /\ \/ Here.int_no = Keyboard /\ K!Receive
     \/ Here.int_no # Keyboard /\ UNCHANGED keyboardVars

(* The tty thread in get_byte_from_kbuf().                                 *)
TtyStep ==
  /\ At("run")
  /\ cpu = [stack |-> Tty, level |-> "thread"]
  /\ K!ReaderStep
  /\ UNCHANGED <<current, next, prev, context, esp0, cpu, frame, pic>>

(* kern_init() makes the tty thread before it sets the flag.               *)
SchedulerStep ==
  /\ \/ Tty \notin RunList /\ KernelThread(Tty)
     \/ Tty \in RunList /\ Sti
     \/ CallSchedule \/ ScheduleStep \/ AckInterrupt \/ ReturnFromInterrupt
  /\ UNCHANGED keyboardVars

KernelCpuStep == SchedulerStep \/ Handle \/ TtyStep

Interrupt(n) == TakeInterrupt(n) /\ UNCHANGED keyboardVars
OtherDevice(n) == DeviceRequest(n) /\ UNCHANGED keyboardVars

KernelNext ==
  \/ KernelCpuStep
  \/ \E n \in Irqs : Interrupt(n)
  \/ \E t \in Threads : KernelThread(t) /\ UNCHANGED keyboardVars
  \/ \E b \in Bytes : KeyEvent(b)
  \/ \E n \in Irqs \ {Keyboard} : OtherDevice(n)

(* As in Scheduler, the CPU does not stop, an interrupt that stays         *)
(* deliverable is taken and the PIT ticks.  More is needed here, and it is *)
(* what the 10 ms between two ticks give: now and then interrupts are on   *)
(* and no tick is pending, a thread that is given the CPU again and again  *)
(* executes an instruction, and an interrupt that is deliverable again and *)
(* again is not passed over for ever.  Nothing is assumed of the keys.     *)
TicksApart == []<>(interruptFlag /\ Timer \notin requested)
KernelFairness == /\ WF_kernelVars(KernelCpuStep)
                  /\ WF_kernelVars(\E n \in Irqs : Interrupt(n))
                  /\ WF_kernelVars(OtherDevice(Timer))
                  /\ SF_kernelVars(TtyStep)
                  /\ SF_kernelVars(Interrupt(Keyboard))
                  /\ TicksApart

KernelSpec == KernelInit /\ [][KernelNext]_kernelVars
KernelFairSpec == KernelSpec /\ KernelFairness
-----------------------------------------------------------------------------
(* Properties.                                                             *)

InSection == pc \in {"read", "advance", "load", "store", "sti"}

(* Interrupts are off in handlers and between cli() and sti() of the tty   *)
(* thread, and nowhere else once the kernel is up: a switch neither leaks  *)
(* the section's flag to another thread nor lets it be switched out of.    *)
FlagFollowsSection ==
  ~At("boot") =>
    interruptFlag = (cpu.level = "thread" /\ ~(cpu.stack = Tty /\ InSection))

(* keyboard_handler() is called for interrupt 33 and for no other, and so  *)
(* finds the byte there: the 8042 raises one interrupt for each byte, and  *)
(* only this handler takes it out, however long the interrupt has waited   *)
(* behind the timer's and behind other threads.                            *)
HandlerFindsByte == At("dispatch") /\ Here.int_no = Keyboard => port # NoByte

(* The flag as the reader sees it, on the CPU or off it, and as the        *)
(* threads and handlers around the section do.                             *)
Reader == INSTANCE KeyboardQueue WITH interruptFlag <- ~InSection
Around == INSTANCE Scheduler WITH interruptFlag <- interruptFlag \/ InSection

(* The system implements KeyboardQueue, its fairness included: the reader  *)
(* is scheduled whenever it can go on, a byte in the 8042 is taken however *)
(* the section, the preemptions and the other interrupts fall.             *)
ImplementsQueue == Reader!FairSpec
ImplementsQueueSafely == Reader!Spec

(* ... and Scheduler: the section delays a preemption, and is otherwise    *)
(* invisible to the switches, the saved contexts and the interrupt         *)
(* controller; every thread keeps its turn.                                *)
ImplementsScheduler == Around!FairSpec
ImplementsSchedulerSafely == Around!Spec
=============================================================================
