----------------------------- MODULE Scheduler -----------------------------
(***************************************************************************)
(* Kernel threads, the timer-driven round robin and the context switch:    *)
(* kern/process/proc.c, kern/schedule/sched.c, kern/schedule/switchasm.S,  *)
(* kern/driver/clock.c, isr_handler() and the interrupt stubs of           *)
(* kern/trap, and the end of kern_init() (thread creation, sti, the        *)
(* while(1) schedule() of the idle thread).                                *)
(*                                                                         *)
(* There is one CPU.  Its stack pointer is in the stack of one thread, at  *)
(* the thread's own level or at the level of an interrupt it took; each    *)
(* level of each stack holds one activation: a program counter and the     *)
(* locals of the schedule() call made there.  Steps of one activation      *)
(* interleave with interrupts wherever the interrupt flag is set.          *)
(*                                                                         *)
(* Data left out: pid, name, state and need_resched of a PCB (no code of   *)
(* the scheduler reads them), cr3 (every thread shares pgd_kern), and the  *)
(* callee-saved registers, which travel with esp.                          *)
(***************************************************************************)
EXTENDS Pic8259

CONSTANTS Threads,     \* the PCBs: the idle thread and what kernel_thread() makes
          Idle,        \* "idleproc", the thread kern_init() runs on
          NoThread,    \* the NULL proc_struct_t pointer
          Timer,       \* interrupt 32, handled by timer_callback()
          Returning,   \* the threads whose function may return
          QuietSwitch  \* TRUE: no interrupt arrives between "current = next"
                       \* and the end of switch_to() (a timing assumption)

ASSUME SchedulerAssumption ==
  /\ Idle \in Threads
  /\ NoThread \notin Threads
  /\ Timer \in Irqs
  /\ Returning \subseteq Threads \ {Idle}
  /\ QuietSwitch \in BOOLEAN

VARIABLES
  current,        \* the global current
  next, prev,     \* the links of the run list, a circular doubly linked list
  context,        \* the saved context of each PCB
  esp0,           \* tss_entry.esp0, named by the thread whose kstack it is
  interruptFlag,  \* EFLAGS.IF
  cpu,            \* where esp points: a thread's stack, and a level of it
  frame           \* the activations on each stack

schedVars == <<current, next, prev, context, esp0, interruptFlag, cpu, frame>>
vars == <<schedVars, pic>>

Levels == {"thread", "irq"}
Points == {"none", "boot", "run", "read", "test", "set", "save", "restore",
           "ack", "dispatch", "iret", "halt"}
Frame  == [pc : Points, int_no : Irqs \cup {0},
           next : Threads \cup {NoThread}, prev : Threads \cup {NoThread}]
Context == [stack : Threads, level : Levels, flag : BOOLEAN]
NoContext == [stack |-> NoThread, level |-> "thread", flag |-> FALSE]

RunList == {t \in Threads : next[t] # NoThread}
RunHead == Idle                       \* running_proc_head, set once

Here  == frame[cpu.stack][cpu.level]
At(p) == Here.pc = p
Put(t, l, f) == frame' = [frame EXCEPT ![t][l] = f]
Become(f) == Put(cpu.stack, cpu.level, f)
Goto(p) == Become([Here EXCEPT !.pc = p])

(* Where a call of schedule() returns to: the loop of the idle thread, or  *)
(* the tail of timer_callback().                                           *)
ReturnPoint(level) == IF level = "thread" THEN "run" ELSE "iret"

-----------------------------------------------------------------------------
(* Boot: init_sched() has run, interrupts are off.                         *)

NewFrame(p) == [l \in Levels |-> [pc     |-> IF l = "thread" THEN p ELSE "none",
                                  int_no |-> 0,
                                  next   |-> NoThread, prev |-> NoThread]]

Init ==
  /\ current = Idle
  /\ next = [t \in Threads |-> IF t = Idle THEN Idle ELSE NoThread]
  /\ prev = [t \in Threads |-> IF t = Idle THEN Idle ELSE NoThread]
  /\ context = [t \in Threads |-> NoContext]
  /\ esp0 = NoThread
  /\ interruptFlag = FALSE
  /\ cpu = [stack |-> Idle, level |-> "thread"]
  /\ frame = [t \in Threads |-> NewFrame(IF t = Idle THEN "boot" ELSE "none")]
  /\ PicInit

(* Mutants: new_proc->next forgotten; running_proc_head->prev forgotten;   *)
(* eflags 0.                                                               *)
LinkNewNoNext(t) ==
  /\ next' = [next EXCEPT ![prev[RunHead]] = t]
  /\ prev' = [prev EXCEPT ![t] = prev[RunHead], ![RunHead] = t]
LinkNewNoHeadPrev(t) ==
  /\ next' = [next EXCEPT ![t] = RunHead, ![prev[RunHead]] = t]
  /\ prev' = [prev EXCEPT ![t] = prev[RunHead]]
NewContextFlagsOff(t) == [stack |-> t, level |-> "thread", flag |-> FALSE]

(* The context kernel_thread() builds: the entry function on a fresh stack, *)
(* eflags 0x200.                                                           *)
NewContext(t) == [stack |-> t, level |-> "thread", flag |-> TRUE]

(* The new PCB goes in front of the head, at the tail of the round.        *)
LinkNew(t) ==
  /\ next' = [next EXCEPT ![t] = RunHead, ![prev[RunHead]] = t]
  /\ prev' = [prev EXCEPT ![t] = prev[RunHead], ![RunHead] = t]

KernelThread(t) ==
  /\ At("boot")
  /\ t \notin RunList
  /\ LinkNew(t)
  /\ context' = [context EXCEPT ![t] = NewContext(t)]
  /\ frame' = [frame EXCEPT ![t] = NewFrame("run")]
  /\ UNCHANGED <<current, esp0, interruptFlag, cpu, pic>>

Sti ==
  /\ At("boot")
  /\ interruptFlag' = TRUE
  /\ Goto("run")
  /\ UNCHANGED <<current, next, prev, context, esp0, cpu, pic>>

-----------------------------------------------------------------------------
(* schedule(), change_task_to() and switch_to(), called by the idle thread *)
(* with interrupts on and by the timer handler with interrupts off.        *)

CallSchedule ==
  /\ At("run")
  /\ cpu.stack = Idle
  /\ Goto("read")
  /\ UNCHANGED <<current, next, prev, context, esp0, interruptFlag, cpu, pic>>

(* Mutants: the run list followed backwards; current not advanced; the     *)
(* outgoing state saved through current after "current = next".            *)
ReadPrev ==
  /\ At("read")
  /\ Become([Here EXCEPT !.next = prev[current], !.pc = "test"])
  /\ UNCHANGED <<current, next, prev, context, esp0, interruptFlag, cpu, pic>>
KeepCurrent ==
  /\ At("set")
  /\ Goto("save")
  /\ UNCHANGED <<current, next, prev, context, esp0, interruptFlag, cpu, pic>>
OutgoingCurrent == current

ReadNext ==
  /\ At("read")
  /\ Become([Here EXCEPT !.next = next[current], !.pc = "test"])
  /\ UNCHANGED <<current, next, prev, context, esp0, interruptFlag, cpu, pic>>

TestNext ==
  /\ At("test")
  /\ \/ /\ current # Here.next
        /\ Become([Here EXCEPT !.prev = current, !.pc = "set"])
     \/ /\ current = Here.next
        /\ Goto(ReturnPoint(cpu.level))
  /\ UNCHANGED <<current, next, prev, context, esp0, interruptFlag, cpu, pic>>

SetCurrent ==
  /\ At("set")
  /\ current' = Here.next
  /\ Goto("save")
  /\ UNCHANGED <<next, prev, context, esp0, interruptFlag, cpu, pic>>

(* set_kernel_stack(next->kstack), then switch_to(&(prev->context),        *)
(* &(current->context)) up to the saving of esp and eflags as they are now. *)
(* The second argument is current when the call is made; the frame keeps   *)
(* it in the place of next, which is not read again.  One step: with       *)
(* QuietSwitch no interrupt comes in between, and without it one between   *)
(* SetCurrent and this step does the harm already.                         *)
SavedContext == [stack |-> cpu.stack, level |-> cpu.level, flag |-> interruptFlag]
Outgoing == Here.prev

SaveContext ==
  /\ At("save")
  /\ esp0' = Here.next
  /\ context' = [context EXCEPT ![Outgoing] = SavedContext]
  /\ Become([Here EXCEPT !.next = current, !.pc = "restore"])
  /\ UNCHANGED <<current, next, prev, interruptFlag, cpu, pic>>

(* The loading half: esp and eflags of the second argument, then ret into  *)
(* what that stack holds, the caller of its own switch_to() or its entry   *)
(* function.  An empty context would load esp = 0; the step is then not    *)
(* defined.                                                                *)
RestoreContext ==
  /\ At("restore")
  /\ LET c == context[Here.next] IN
       /\ c # NoContext
       /\ cpu' = [stack |-> c.stack, level |-> c.level]
       /\ interruptFlag' = c.flag
       /\ Put(c.stack, c.level,
              [frame[c.stack][c.level] EXCEPT !.pc = ReturnPoint(c.level)])
  /\ UNCHANGED <<current, next, prev, context, esp0, pic>>

-----------------------------------------------------------------------------
(* Interrupts.                                                             *)

(* "current = next" is done and switch_to() is not.                        *)
InSwitch == Here.pc \in {"save", "restore"}

(* An interrupt gate and the stub behind it: interrupts are disabled and   *)
(* the activation of a handler is pushed on the stack in use.              *)
Handler(p, n) == [pc |-> p, int_no |-> n, next |-> NoThread, prev |-> NoThread]

EnterHandler(p, n) ==
  /\ cpu' = [cpu EXCEPT !.level = "irq"]
  /\ Put(cpu.stack, "irq", Handler(p, n))
  /\ interruptFlag' = FALSE

(* The CPU takes an interrupt.                                             *)
TakeInterrupt(n) ==
  /\ interruptFlag
  /\ cpu.level = "thread"
  /\ QuietSwitch => ~InSwitch
  /\ Deliverable(n)
  /\ Acknowledge(n)
  /\ EnterHandler("ack", n)
  /\ UNCHANGED <<current, next, prev, context, esp0>>

(* isr_handler() acknowledges before it calls the handler ...              *)
AckInterrupt ==
  /\ At("ack")
  /\ EndOfInterrupt(Here.int_no)
  /\ Goto("dispatch")
  /\ UNCHANGED <<requested, current, next, prev, context, esp0, interruptFlag, cpu>>

(* ... and timer_callback() is a call of schedule(); any other handler     *)
(* returns without touching the threads.                                   *)
Dispatch ==
  /\ At("dispatch")
  /\ Goto(IF Here.int_no = Timer THEN "read" ELSE "iret")
  /\ UNCHANGED <<current, next, prev, context, esp0, interruptFlag, cpu, pic>>

(* iret pops the flags of the interrupted level, where interrupts were on. *)
ReturnFromInterrupt ==
  /\ At("iret")
  /\ interruptFlag' = TRUE
  /\ cpu' = [cpu EXCEPT !.level = "thread"]
  /\ Goto("none")
  /\ UNCHANGED <<current, next, prev, context, esp0, pic>>

DeviceRequest(n) == Raise(n) /\ UNCHANGED schedVars

(* A thread function that returns comes to kthread_exit(), whose address   *)
(* kernel_thread() put on the stack under it.  kthread_exit() prints and   *)
(* returns too, to the word above its own: the argument, NULL.  Page 0 is  *)
(* not mapped, and page_fault() prints and loops with interrupts off.      *)
ThreadReturns ==
  /\ At("run")
  /\ cpu.level = "thread"
  /\ cpu.stack \in Returning
  /\ EnterHandler("halt", 0)
  /\ UNCHANGED <<current, next, prev, context, esp0, pic>>

-----------------------------------------------------------------------------
ScheduleStep == ReadNext \/ TestNext \/ SetCurrent \/ SaveContext \/ RestoreContext

CpuStep == Sti \/ CallSchedule \/ ScheduleStep
           \/ AckInterrupt \/ Dispatch \/ ReturnFromInterrupt

Next == \/ \E t \in Threads : KernelThread(t)
        \/ CpuStep
        \/ \E n \in Irqs : TakeInterrupt(n)
        \/ \E n \in Irqs : DeviceRequest(n)
        \/ ThreadReturns

(* The CPU does not stop, an interrupt that stays deliverable is taken and *)
(* the PIT, which init_timer() starts, ticks for ever.  Nothing is assumed *)
(* of the other devices, and no thread has to return.                      *)
Fairness == /\ WF_vars(CpuStep)
            /\ WF_vars(\E n \in Irqs : TakeInterrupt(n))
            /\ WF_vars(DeviceRequest(Timer))

Spec == Init /\ [][Next]_vars
FairSpec == Spec /\ Fairness
-----------------------------------------------------------------------------
(* Properties.                                                             *)

(* Every variable keeps the type its C declaration and comments give it.   *)
TypeOK ==
  /\ current \in Threads
  /\ next \in [Threads -> Threads \cup {NoThread}]
  /\ prev \in [Threads -> Threads \cup {NoThread}]
  /\ context \in [Threads -> Context \cup {NoContext}]
  /\ esp0 \in Threads \cup {NoThread}
  /\ interruptFlag \in BOOLEAN
  /\ cpu \in [stack : Threads, level : Levels]
  /\ frame \in [Threads -> [Levels -> Frame]]
  /\ requested \subseteq Irqs
  /\ inService \subseteq Irqs \cup {Cascade}

(* The run list stays one ring: the links of kernel_thread() are inverse   *)
(* to each other, and a walk from the head meets every thread.             *)
OneRing ==
  /\ \A t \in RunList : /\ next[t] \in RunList /\ prev[next[t]] = t
                        /\ prev[t] \in RunList /\ next[prev[t]] = t
  /\ \A S \in SUBSET RunList :
       Idle \in S /\ (\A t \in S : next[t] \in S) => S = RunList

(* Outside a switch, current is the thread whose stack the CPU is on       *)
(* (getpid() and the next schedule() rely on it), and a switch has left    *)
(* the kernel stack of that thread in the TSS.                             *)
CurrentOwnsCpu ==
  ~InSwitch => current = cpu.stack /\ esp0 \in {NoThread, current}

(* A thread that is not on the CPU can be resumed: its PCB holds a place   *)
(* on its own stack, the innermost one, at which it left the CPU inside    *)
(* switch_to() or has not begun, with the flags of that level.             *)
ContextsIntact ==
  \A t \in RunList \ {cpu.stack} :
    LET c == context[t] IN
      /\ c.stack = t
      /\ c.flag = (c.level = "thread")
      /\ frame[t][c.level].pc \in {"run", "restore"}
      /\ (c.level = "thread") = (frame[t]["irq"].pc = "none")

(* No thread ever runs with interrupts off, and no interrupt handler with  *)
(* interrupts on, whatever the switches between a preempted thread, a      *)
(* thread that yielded and a thread that has not run yet.                  *)
FlagFollowsLevel ==
  interruptFlag = (cpu.level = "thread" /\ ~At("boot"))

(* With interrupts on nothing is left in service, so no line of either     *)
(* chip is blocked: the acknowledgement goes out before timer_callback()   *)
(* leaves for another thread, for as long as it may take to come back.     *)
InterruptsAcked == interruptFlag => inService = {}

(* The CPU goes round the run list in its order, and goes on doing so: the *)
(* successor of the thread on the CPU, and no other, is next, and a thread *)
(* loses its turns only to a thread function that returned.                *)
RR == INSTANCE RoundRobin
        WITH First <- Idle,
             successor <- [t \in RunList |-> next[t]],
             holder <- cpu.stack,
             stopped <- At("halt")

ServesInRoundOrder == RR!FairSpec
ServesInRoundOrderSafely == RR!Spec
=============================================================================
