---------------------------- MODULE KernelProofs ----------------------------
(***************************************************************************)
(* Theorems about Kernel, for any number of threads and devices and a      *)
(* buffer of any size.                                                     *)
(***************************************************************************)
EXTENDS Kernel, SchedulerProofs

(* The section is held by the tty thread, on the CPU, and nothing can take *)
(* the CPU from it.                                                        *)
Section ==
  InSection => /\ cpu = [stack |-> Tty, level |-> "thread"]
               /\ At("run")
               /\ interruptFlag = FALSE

(* A handler that has not been called yet is on the CPU: an activation at  *)
(* thread level is never one.                                              *)
Entering == {"ack", "dispatch"}
HandlersOnTop == \A t \in Threads : frame[t]["thread"].pc \notin Entering

(* The keyboard's request is in one place, raised or being handled, from   *)
(* the moment the 8042 holds a byte until the byte is read.                *)
Receiving == Here.pc \in Entering /\ Here.int_no = Keyboard
ByteAhead == /\ Keyboard \in requested \/ Receiving => port # NoByte
             /\ ~(Keyboard \in requested /\ Receiving)

KInv == Base /\ Section /\ HandlersOnTop /\ ByteAhead

-----------------------------------------------------------------------------
(* A step of the system is one of the scheduler or one of the tty thread   *)
(* that moves the interrupt flag at most; only a key raises the keyboard's *)
(* line.                                                                   *)
LEMMA KernelStep ==
  ASSUME KernelNext
  PROVE  \/ TtyStep
         \/ /\ Next /\ UNCHANGED keyboardVars
            /\ Keyboard \in requested' => Keyboard \in requested
         \/ Dispatch /\ Here.int_no = Keyboard /\ K!Receive
         \/ \E b \in Bytes : KeyEvent(b)
<1>1. CASE KernelCpuStep
  <2>1. CASE SchedulerStep
    <3>1. requested' = requested
      BY <2>1 DEF SchedulerStep, KernelThread, Sti, CallSchedule, ScheduleStep,
         ReadNext, TestNext, SetCurrent, SaveContext, RestoreContext,
         AckInterrupt, ReturnFromInterrupt, pic
    <3> QED
      BY <2>1, <3>1, KernelAssumption DEF SchedulerStep, Next, CpuStep
  <2>2. CASE Handle
    BY <2>2 DEF Handle, Next, CpuStep, Dispatch, pic
  <2> QED
    BY <1>1, <2>1, <2>2 DEF KernelCpuStep
<1>2. CASE \E n \in Irqs : Interrupt(n)
  BY <1>2 DEF Interrupt, Next, TakeInterrupt, Acknowledge
<1>3. CASE \E t \in Threads : KernelThread(t) /\ UNCHANGED keyboardVars
  BY <1>3 DEF Next, KernelThread, pic
<1>4. CASE \E n \in Irqs \ {Keyboard} : OtherDevice(n)
  BY <1>4 DEF OtherDevice, Next, DeviceRequest, Raise
<1> QED
  BY <1>1, <1>2, <1>3, <1>4 DEF KernelNext

(* What the tty thread does to its own variables.                          *)
LEMMA ReaderMoves ==
  ASSUME K!ReaderStep
  PROVE  /\ UNCHANGED port
         /\ InSection /\ InSection' => UNCHANGED interruptFlag
         /\ InSection /\ ~InSection' => interruptFlag' = TRUE
         /\ ~InSection /\ InSection' => interruptFlag' = FALSE
         /\ ~InSection /\ ~InSection' => UNCHANGED interruptFlag
  BY DEF K!ReaderStep, K!Wait, K!Cli, K!ReadByte, K!AdvanceHead, K!LoadCount,
     K!StoreCount, K!Sti, K!ring, InSection

LEMMA BaseKept ==
  ASSUME Base, KernelNext
  PROVE  Base'
<1>1. CASE Next
  BY <1>1, TypeNext, RingNext, LiveNext DEF Base
<1>2. CASE TtyStep
  <2>1. interruptFlag' \in BOOLEAN
    BY <1>2, ReaderMoves DEF TtyStep, Base, TypeOK
  <2>2. UNCHANGED <<current, next, prev, context, esp0, cpu, frame, requested,
  inService>>
    BY <1>2 DEF TtyStep, pic
  <2>3. RunList' = RunList /\ (OneRing => OneRing')
    BY <2>2, RunListSame
  <2>4. TypeOK'
    BY <2>1, <2>2 DEF Base, TypeOK
  <2>5. Live'
    BY <2>2, <2>3 DEF Base, Live
  <2> QED
    BY <2>3, <2>4, <2>5 DEF Base
<1>3. Dispatch => Next
  BY DEF Next, CpuStep
<1>4. \A b \in Bytes : KeyEvent(b) => Next
  BY KernelAssumption DEF KeyEvent, Next
<1> QED
  BY <1>1, <1>2, <1>3, <1>4, KernelStep

(* Where the CPU can come to the start of a handler: by an interrupt, or   *)
(* by the acknowledgement of the one it is in.                             *)
LEMMA Entered ==
  ASSUME Base, HandlersOnTop, Next
  PROVE  /\ HandlersOnTop'
         /\ \/ Here'.pc \notin Entering
            \/ \E n \in Irqs : TakeInterrupt(n) /\ Here'.int_no = n
            \/ Here.pc \in Entering /\ Here'.int_no = Here.int_no /\ ~Dispatch
            \/ \E n \in Irqs : DeviceRequest(n)
<1>0. /\ frame \in Frames /\ cpu \in [stack : Threads, level : Levels]
      /\ cpu.stack \in Threads /\ cpu.level \in Levels
      /\ Here \in Frame /\ Here = frame[cpu.stack][cpu.level]
      /\ "thread" \in Levels /\ "irq" \in Levels /\ "thread" # "irq"
      /\ Here.pc \in Entering => cpu.level # "thread"
  BY TypedState DEF Levels, HandlersOnTop
<1>p. /\ "none" \in Points /\ "run" \in Points /\ "read" \in Points
      /\ "test" \in Points /\ "set" \in Points /\ "save" \in Points
      /\ "restore" \in Points /\ "ack" \in Points /\ "dispatch" \in Points
      /\ "iret" \in Points /\ "halt" \in Points
      /\ \A l : ReturnPoint(l) \in Points \ Entering
  BY DEF Points, ReturnPoint, Entering
<1>q. /\ Here.pc = "ack" => Here.pc \in Entering
      /\ \A x : x \in Entering <=> x = "ack" \/ x = "dispatch"
  BY DEF Entering
<1>t. current \in Threads /\ next[current] \in Threads \cup {NoThread}
  BY DEF Base, TypeOK
(* A step that stays in the activation and is no acknowledgement.          *)
<1>s. ASSUME NEW f \in Frame, Become(f), f.pc \notin Entering, UNCHANGED cpu
      PROVE  HandlersOnTop' /\ Here'.pc \notin Entering
  <2>1. /\ frame'[cpu.stack][cpu.level] = f
        /\ \A u \in Threads, k \in Levels :
             u # cpu.stack \/ k # cpu.level => frame'[u][k] = frame[u][k]
    BY <1>0, <1>s, PutOne DEF Become
  <2> QED
    BY <2>1, <1>0, <1>s DEF HandlersOnTop, Here
<1>g. ASSUME NEW p \in Points, Goto(p), p \notin Entering, UNCHANGED cpu
      PROVE  HandlersOnTop' /\ Here'.pc \notin Entering
  BY <1>g, <1>s, <1>0, PcUpdate DEF Goto
<1>1. ASSUME NEW t \in Threads, KernelThread(t)
      PROVE  HandlersOnTop' /\ Here'.pc \notin Entering
  <2>1. \A l \in Levels : NewFrame("run")[l].pc \notin Entering
    BY <1>q DEF NewFrame
  <2>2. /\ frame'[t] = NewFrame("run") /\ UNCHANGED cpu /\ Here.pc = "boot"
        /\ \A u \in Threads \ {t} : frame'[u] = frame[u]
    BY <1>1, <1>0 DEF KernelThread, At, Frames
  <2> QED
    BY <2>1, <2>2, <1>0, <1>q DEF HandlersOnTop, Here
<1>2. CASE Sti
  BY <1>2, <1>g, <1>p, <1>q DEF Sti
<1>3. CASE CallSchedule
  BY <1>3, <1>g, <1>p, <1>q DEF CallSchedule
<1>4. CASE ReadNext
  <2> DEFINE f == [Here EXCEPT !.next = next[current], !.pc = "test"]
  <2>1. f \in Frame /\ f.pc = "test"
    BY <1>t, <1>0, <1>p DEF Frame
  <2>2. Become(f) /\ UNCHANGED cpu
    BY <1>4 DEF ReadNext
  <2> HIDE DEF f
  <2> QED
    BY <2>1, <2>2, <1>s, <1>q
<1>5. CASE TestNext
  <2>1. CASE Goto(ReturnPoint(cpu.level))
    BY <1>5, <2>1, <1>g, <1>p DEF TestNext
  <2>2. CASE Become([Here EXCEPT !.prev = current, !.pc = "set"])
    <3> DEFINE f == [Here EXCEPT !.prev = current, !.pc = "set"]
    <3>1. f \in Frame /\ f.pc = "set"
      BY <1>0, <1>p, <1>t DEF Frame
    <3>2. Become(f) /\ UNCHANGED cpu
      BY <1>5, <2>2 DEF TestNext
    <3> HIDE DEF f
    <3> QED
      BY <3>1, <3>2, <1>s, <1>q
  <2> QED
    BY <1>5, <2>1, <2>2 DEF TestNext
<1>6. CASE SetCurrent
  BY <1>6, <1>g, <1>p, <1>q DEF SetCurrent
<1>7. CASE SaveContext
  <2> DEFINE f == [Here EXCEPT !.next = current, !.pc = "restore"]
  <2>1. f \in Frame /\ f.pc = "restore"
    BY <1>0, <1>p, <1>t DEF Frame
  <2>2. Become(f) /\ UNCHANGED cpu
    BY <1>7 DEF SaveContext
  <2> HIDE DEF f
  <2> QED
    BY <2>1, <2>2, <1>s, <1>q
<1>8. CASE RestoreContext
  <2> DEFINE c == context[Here.next]
             f == [frame[c.stack][c.level] EXCEPT !.pc = ReturnPoint(c.level)]
  <2>1. c \in Context
    BY <1>8, <1>0 DEF RestoreContext, Base, TypeOK, Live, RunList, At, Fetched
  <2>2. c.stack \in Threads /\ c.level \in Levels
    BY <2>1 DEF Context
  <2>3. frame[c.stack][c.level] \in Frame
    BY <2>2, <1>0 DEF Frames
  <2>4. f \in Frame /\ f.pc \notin Entering
    BY <2>3, <1>p, PcUpdate
  <2>5. Put(c.stack, c.level, f) /\ cpu' = [stack |-> c.stack, level |-> c.level]
    BY <1>8 DEF RestoreContext
  <2> HIDE DEF c, f
  <2>6. /\ frame'[c.stack][c.level] = f
        /\ \A u \in Threads, k \in Levels :
             u # c.stack \/ k # c.level => frame'[u][k] = frame[u][k]
    BY <2>2, <2>4, <2>5, <1>0, PutOne
  <2> QED
    BY <2>4, <2>5, <2>6, <1>0 DEF HandlersOnTop, Here
<1>9. ASSUME NEW n \in Irqs, TakeInterrupt(n)
      PROVE  HandlersOnTop' /\ Here'.int_no = n
  <2> DEFINE f == Handler("ack", n)
  <2>1. f \in Frame /\ f.int_no = n
    BY <1>p DEF Frame, Handler
  <2>2. Put(cpu.stack, "irq", f) /\ cpu'.stack = cpu.stack /\ cpu'.level = "irq"
    BY <1>9, <1>0 DEF TakeInterrupt, EnterHandler
  <2> HIDE DEF f
  <2>3. /\ frame'[cpu.stack]["irq"] = f
        /\ \A u \in Threads, k \in Levels :
             u # cpu.stack \/ k # "irq" => frame'[u][k] = frame[u][k]
    BY <2>1, <2>2, <1>0, PutOne
  <2> QED
    BY <2>1, <2>2, <2>3, <1>0 DEF HandlersOnTop, Here
<1>10. CASE AckInterrupt
  <2> DEFINE f == [Here EXCEPT !.pc = "dispatch"]
  <2>1. f \in Frame /\ f.int_no = Here.int_no
    BY <1>0, <1>p, PcUpdate
  <2>2. Become(f) /\ UNCHANGED cpu /\ Here.pc = "ack"
    BY <1>10 DEF AckInterrupt, Goto, At
  <2> HIDE DEF f
  <2>3. /\ frame'[cpu.stack][cpu.level] = f
        /\ \A u \in Threads, k \in Levels :
             u # cpu.stack \/ k # cpu.level => frame'[u][k] = frame[u][k]
    BY <2>1, <2>2, <1>0, PutOne DEF Become
  <2>4. HandlersOnTop' /\ Here' = f
    BY <2>2, <2>3, <1>0, <1>q DEF HandlersOnTop, Here
  <2> QED
    BY <2>1, <2>2, <2>4, <1>q DEF Dispatch, At
<1>11. CASE Dispatch
  BY <1>11, <1>g, <1>p, <1>q DEF Dispatch
<1>12. CASE ReturnFromInterrupt
  <2> DEFINE f == [Here EXCEPT !.pc = "none"]
  <2>1. f \in Frame /\ f.pc = "none"
    BY <1>0, <1>p, PcUpdate
  <2>2. Become(f) /\ cpu'.stack = cpu.stack /\ cpu'.level = "thread"
    BY <1>12, <1>0 DEF ReturnFromInterrupt, Goto
  <2> HIDE DEF f
  <2>3. /\ frame'[cpu.stack][cpu.level] = f
        /\ \A u \in Threads, k \in Levels :
             u # cpu.stack \/ k # cpu.level => frame'[u][k] = frame[u][k]
    BY <2>1, <2>2, <1>0, PutOne DEF Become
  <2>4. HandlersOnTop'
    BY <2>1, <2>3, <1>0, <1>q DEF HandlersOnTop
  <2> QED
    BY <2>2, <2>4, <1>0 DEF HandlersOnTop, Here
<1>13. ASSUME NEW n \in Irqs, DeviceRequest(n) PROVE HandlersOnTop'
  BY <1>13 DEF DeviceRequest, schedVars, HandlersOnTop
<1>14. CASE ThreadReturns
  BY <1>14, KernelAssumption DEF ThreadReturns
<1> QED
  BY <1>1, <1>2, <1>3, <1>4, <1>5, <1>6, <1>7, <1>8, <1>9, <1>10, <1>11,
     <1>12, <1>13, <1>14
  DEF Next, CpuStep, ScheduleStep
-----------------------------------------------------------------------------
(* In the critical section the only thing that can happen to the scheduler *)
(* is a device's request.                                                  *)
LEMMA SectionUndisturbed ==
  ASSUME InSection, Section, Next
  PROVE  \E n \in Irqs : DeviceRequest(n)
<1>1. /\ Here.pc = "run" /\ cpu.stack # Idle /\ interruptFlag = FALSE
  BY KernelAssumption DEF Section, At
<1> QED
  BY <1>1, KernelAssumption
  DEF Next, CpuStep, ScheduleStep, At, KernelThread, Sti, CallSchedule, ReadNext,
      TestNext, SetCurrent, SaveContext, RestoreContext, AckInterrupt, Dispatch,
      ReturnFromInterrupt, TakeInterrupt, ThreadReturns

LEMMA KInvInit == KernelInit => KInv
<1> SUFFICES ASSUME KernelInit PROVE KInv
  OBVIOUS
<1> USE DEF KernelInit
<1>1. Base
  BY TypeInit, RingInit, LiveInit DEF Base
<1>2. \A t \in Threads, l \in Levels : frame[t][l].pc \in {"boot", "none"}
  BY DEF Init, NewFrame
<1>3. Here.pc \notin Entering /\ HandlersOnTop
  BY <1>2, SchedulerAssumption DEF Init, Here, Entering, HandlersOnTop, Levels
<1> QED
  BY <1>1, <1>3 DEF KInv, Section, InSection, ByteAhead, Receiving, Init,
     PicInit, K!InitKeyboard

LEMMA KInvNext == KInv /\ [KernelNext]_kernelVars => KInv'
<1> SUFFICES ASSUME KInv, [KernelNext]_kernelVars PROVE KInv'
  OBVIOUS
<1> USE DEF KInv
<1>1. CASE TtyStep /\ KernelNext
  <2>1. UNCHANGED <<frame, cpu, requested>> /\ Here' = Here
    BY <1>1 DEF TtyStep, pic, Here
  <2>2. UNCHANGED port
    BY <1>1, ReaderMoves DEF TtyStep
  <2>3. Section'
    BY <1>1, <2>1, ReaderMoves DEF TtyStep, Section, At
  <2>4. HandlersOnTop' /\ ByteAhead'
    BY <2>1, <2>2 DEF HandlersOnTop, ByteAhead, Receiving
  <2> QED
    BY <1>1, <2>3, <2>4, BaseKept
<1>2. ASSUME NEW b \in Bytes, KeyEvent(b), KernelNext PROVE KInv'
  <2>1. /\ UNCHANGED <<frame, cpu, pc, interruptFlag>> /\ Here' = Here
        /\ port = NoByte /\ port' # NoByte
    BY <1>2, KernelAssumption DEF KeyEvent, K!KeyEvent, DeviceRequest,
       schedVars, Here
  <2>2. Section' /\ HandlersOnTop'
    BY <2>1 DEF Section, InSection, At, HandlersOnTop
  <2>3. ByteAhead'
    BY <2>1 DEF ByteAhead, Receiving
  <2> QED
    BY <1>2, <2>2, <2>3, BaseKept
<1>3. CASE Dispatch /\ Here.int_no = Keyboard /\ K!Receive /\ KernelNext
  <2>1. Next /\ HandlersOnTop'
    BY <1>3, Entered DEF Next, CpuStep
  <2>2. Here.pc = "dispatch" /\ UNCHANGED <<cpu, requested>>
    BY <1>3 DEF Dispatch, At, pic
  <2>3. ~InSection /\ UNCHANGED pc
    BY <1>3, <2>2 DEF Section, At, K!Receive
  <2>4. Here'.pc \notin Entering
    <3> DEFINE p == IF Here.int_no = Timer THEN "read" ELSE "iret"
               f == [Here EXCEPT !.pc = p]
    <3>1. f \in Frame /\ f.pc \notin Entering
      BY TypedState DEF Frame, Points, Entering
    <3>2. Put(cpu.stack, cpu.level, f)
      BY <1>3 DEF Dispatch, Goto, Become
    <3> HIDE DEF f
    <3> QED
      BY <3>1, <3>2, <2>2, TypedState, PutOne DEF Here
  <2>5. Keyboard \notin requested
    BY <1>3, <2>2 DEF ByteAhead, Receiving, Entering
  <2> QED
    BY <1>3, <2>1, <2>2, <2>3, <2>4, <2>5, BaseKept
    DEF Section, InSection, ByteAhead, Receiving
<1>4. CASE /\ Next /\ UNCHANGED keyboardVars /\ KernelNext
           /\ Keyboard \in requested' => Keyboard \in requested
  <2>1. UNCHANGED <<port, pc>>
    BY <1>4 DEF keyboardVars
  <2>2. ASSUME NEW n \in Irqs, DeviceRequest(n) PROVE KInv'
    <3>1. UNCHANGED <<frame, cpu, interruptFlag>> /\ Here' = Here
      BY <2>2 DEF DeviceRequest, schedVars, Here
    <3> QED
      BY <1>4, <2>1, <3>1, BaseKept
      DEF Section, InSection, At, HandlersOnTop, ByteAhead, Receiving
  <2>3. CASE ~\E n \in Irqs : DeviceRequest(n)
    <3>1. Section'
      BY <1>4, <2>1, <2>3, SectionUndisturbed DEF Section, InSection
    <3>2. HandlersOnTop'
      BY <1>4, Entered
    <3>3. ByteAhead'
      <4>1. CASE Here'.pc \notin Entering
        BY <4>1, <1>4, <2>1 DEF ByteAhead, Receiving
      <4>2. ASSUME NEW n \in Irqs, TakeInterrupt(n),
      Here'.int_no = n PROVE ByteAhead'
        <5>1. n \in requested /\ requested' = requested \ {n}
          BY <4>2 DEF TakeInterrupt, Deliverable, Acknowledge
        <5> QED
          BY <5>1, <4>2, <2>1 DEF ByteAhead, Receiving
      <4>3. CASE Here.pc \in Entering /\ Here'.int_no = Here.int_no /\ ~Dispatch
        BY <4>3, <1>4, <2>1 DEF ByteAhead, Receiving
      <4> QED
        BY <1>4, <2>3, <4>1, <4>2, <4>3, Entered
    <3> QED
      BY <1>4, <3>1, <3>2, <3>3, BaseKept
  <2> QED
    BY <2>2, <2>3
<1>5. CASE UNCHANGED kernelVars
  <2>1. UNCHANGED <<vars, port, pc>>
    BY <1>5 DEF kernelVars, keyboardVars
  <2>2. UNCHANGED <<frame, cpu, interruptFlag, requested>> /\ Here' = Here
    BY <2>1 DEF vars, schedVars, pic, Here
  <2>3. Base'
    BY <2>1, TypeNext, RingNext, LiveNext DEF Base
  <2> QED
    BY <2>1, <2>2, <2>3
    DEF Section, InSection, At, HandlersOnTop, ByteAhead, Receiving
<1> QED
  BY <1>1, <1>2, <1>3, <1>4, <1>5, KernelStep

LEMMA KInvInvariant == KernelSpec => []KInv
  BY KInvInit, KInvNext, PTL DEF KernelSpec

(* keyboard_handler() never reads an empty port: it runs once for each     *)
(* byte, and nobody else takes it out.                                     *)
THEOREM AlwaysFindsByte == KernelSpec => []HandlerFindsByte
<1>1. KInv => HandlerFindsByte
  BY DEF KInv, ByteAhead, Receiving, Entering, HandlerFindsByte, At
<1> QED
  BY <1>1, KInvInvariant, PTL
-----------------------------------------------------------------------------
(* The system implements the queue ...                                     *)

LEMMA QueueNext ==
  KInv /\ [KernelNext]_kernelVars => [Reader!Next]_(Reader!vars)
<1> SUFFICES ASSUME KInv, [KernelNext]_kernelVars
             PROVE  Reader!Next \/ UNCHANGED Reader!vars
  OBVIOUS
<1>1. CASE TtyStep
  <2>1. K!ReaderStep
    BY <1>1 DEF TtyStep
  <2>2. Reader!ReaderStep
    BY <2>1
    DEF K!ReaderStep, K!Wait, K!Cli, K!ReadByte, K!AdvanceHead, K!LoadCount,
        K!StoreCount, K!Sti, K!ring, K!Advance,
        Reader!ReaderStep, Reader!Wait, Reader!Cli, Reader!ReadByte,
        Reader!AdvanceHead, Reader!LoadCount, Reader!StoreCount, Reader!Sti,
        Reader!ring, Reader!Advance, InSection
  <2> QED
    BY <2>2 DEF Reader!Next
<1>2. ASSUME NEW b \in Bytes, KeyEvent(b) PROVE Reader!Next
  BY <1>2 DEF KeyEvent, K!KeyEvent, K!ring, Reader!Next, Reader!KeyEvent,
     Reader!ring,
     InSection
<1>3. CASE Dispatch /\ Here.int_no = Keyboard /\ K!Receive
  <2>1. ~InSection /\ port # NoByte
    BY <1>3 DEF KInv, Section, ByteAhead, Receiving, Entering, Dispatch, At
  <2>2. Reader!keyboard_handler
    BY <1>3, <2>1
    DEF K!Receive, K!Store, K!ring, K!Advance, Reader!keyboard_handler,
        Reader!Receive, Reader!Store, Reader!ring, Reader!Advance, InSection
  <2> QED
    BY <2>2 DEF Reader!Next
<1>4. CASE UNCHANGED keyboardVars
  BY <1>4 DEF keyboardVars, Reader!vars, Reader!ring, InSection
<1>5. CASE UNCHANGED kernelVars
  BY <1>5, <1>4 DEF kernelVars
<1> QED
  BY <1>1, <1>2, <1>3, <1>4, <1>5, KernelStep

(* Every execution of the kernel is, for the keyboard buffer, one of       *)
(* KeyboardQueue: the tty thread's section excludes the handler whatever   *)
(* the switches and the interrupts in between.                             *)
THEOREM QueueImplemented == KernelSpec => ImplementsQueueSafely
<1>1. KernelInit => Reader!Init
  BY DEF KernelInit, K!InitKeyboard, Reader!Init, Reader!InitKeyboard, K!Slots,
     Reader!Slots, InSection
<1> QED
  BY <1>1, QueueNext, KInvInvariant, PTL DEF KernelSpec, ImplementsQueueSafely,
     Reader!Spec
-----------------------------------------------------------------------------
(* ... and the scheduler, when no tick cuts a switch in two.  What holds   *)
(* of Scheduler's stacks, locals and globals holds with a section too; the *)
(* flag is where the two differ.                                           *)
Stacks == OnStack /\ Suspended /\ Locals /\ Globals /\ Booting /\ Acked
FlagRight == interruptFlag = (cpu.level = "thread" /\ ~At("boot") /\ ~InSection)

SInv == KInv /\ Stacks /\ FlagRight

LEMMA OutsideSection == KInv /\ ~InSection => (IInv <=> Stacks /\ FlagRight)
  BY DEF KInv, IInv, Stacks, FlagRight, OnCpu, FlagFollowsLevel

LEMMA StacksKept ==
  ASSUME Stacks, UNCHANGED <<current, next, prev, context, esp0, cpu, frame,
  inService>>
  PROVE  Stacks'
<1>1. Here' = Here /\ RunList' = RunList
  BY DEF Here, RunList
<1>2. OnStack' /\ Suspended'
  BY <1>1 DEF Stacks, OnStack, Suspended, YieldedOrNew, Preempted
<1>3. Locals' /\ Globals'
  BY <1>1 DEF Stacks, Locals, Globals, InSwitch, At
<1>4. Booting' /\ Acked'
  BY <1>1 DEF Stacks, Booting, Acked, At
<1> QED
  BY <1>2, <1>3, <1>4 DEF Stacks

LEMMA PcOrReader ==
  ASSUME KernelNext
  PROVE  TtyStep \/ (Next /\ UNCHANGED pc)
<1>1. \A b \in Bytes : KeyEvent(b) => Next /\ UNCHANGED pc
  BY KernelAssumption DEF KeyEvent, K!KeyEvent, Next
<1>2. Dispatch /\ K!Receive => Next /\ UNCHANGED pc
  BY DEF Next, CpuStep, K!Receive
<1>3. UNCHANGED keyboardVars => UNCHANGED pc
  BY DEF keyboardVars
<1> QED
  BY <1>1, <1>2, <1>3, KernelStep

LEMMA SInvInit == KernelInit => SInv
<1> SUFFICES ASSUME KernelInit PROVE SInv
  OBVIOUS
<1>1. KInv /\ IInv
  BY KInvInit, IInvInit DEF KernelInit
<1>2. ~InSection
  BY DEF KernelInit, K!InitKeyboard, InSection
<1> QED
  BY <1>1, <1>2, OutsideSection DEF SInv

LEMMA SInvNext ==
  ASSUME QuietSwitch
  PROVE  SInv /\ [KernelNext]_kernelVars => SInv'
<1> SUFFICES ASSUME SInv, [KernelNext]_kernelVars PROVE SInv'
  OBVIOUS
<1>k. KInv /\ KInv'
  BY KInvNext DEF SInv
<1>1. CASE TtyStep
  <2>1. /\ UNCHANGED <<current, next, prev, context, esp0, cpu, frame, inService>>
        /\ Here' = Here /\ Here.pc = "run" /\ cpu.level = "thread"
    BY <1>1 DEF TtyStep, pic, Here, At
  <2>2. Stacks'
    BY <2>1, StacksKept DEF SInv
  <2>3. FlagRight'
    BY <1>1, <2>1, ReaderMoves DEF TtyStep, SInv, FlagRight, At
  <2> QED
    BY <1>k, <2>2, <2>3 DEF SInv
<1>2. CASE Next /\ UNCHANGED pc
  <2>1. InSection' = InSection
    BY <1>2 DEF InSection
  <2>2. CASE InSection
    <3>1. PICK n \in Irqs : DeviceRequest(n)
      BY <1>2, <2>2, <1>k, SectionUndisturbed DEF KInv
    <3>2. UNCHANGED <<current, next, prev, context, esp0, cpu, frame, inService,
                      interruptFlag>>
      BY <3>1 DEF DeviceRequest, Raise, schedVars
    <3>3. Stacks'
      BY <3>2, StacksKept DEF SInv
    <3>4. FlagRight'
      BY <3>2, <2>1 DEF SInv, FlagRight, At, Here
    <3> QED
      BY <1>k, <3>3, <3>4 DEF SInv
  <2>3. CASE ~InSection
    <3>1. IInv
      BY <1>k, <2>3, OutsideSection DEF SInv
    <3>2. IInv'
      BY <3>1, <1>2, IInvNext
    <3>3. Stacks' /\ FlagRight'
      BY <3>2, <2>1, <2>3 DEF IInv, Stacks, FlagRight, OnCpu, FlagFollowsLevel
    <3> QED
      BY <1>k, <3>3 DEF SInv
  <2> QED
    BY <2>2, <2>3
<1>3. CASE UNCHANGED kernelVars
  <2>1. UNCHANGED <<current, next, prev, context, esp0, cpu, frame, inService,
                    interruptFlag, pc>>
    BY <1>3 DEF kernelVars, keyboardVars, vars, schedVars, pic
  <2>2. Stacks'
    BY <2>1, StacksKept DEF SInv
  <2>3. FlagRight'
    BY <2>1 DEF SInv, FlagRight, At, Here, InSection
  <2> QED
    BY <1>k, <2>2, <2>3 DEF SInv
<1> QED
  BY <1>1, <1>2, <1>3, PcOrReader

LEMMA SInvInvariant == ASSUME QuietSwitch PROVE KernelSpec => []SInv
  BY SInvInit, SInvNext, PTL DEF KernelSpec

(* The interrupt flag is off in handlers and in the section, and nowhere   *)
(* else: no switch carries the section's flag to another thread.           *)
THEOREM FlagAlwaysFollowsSection ==
  ASSUME QuietSwitch PROVE KernelSpec => []FlagFollowsSection
<1>1. SInv => FlagFollowsSection
  BY DEF SInv, KInv, FlagRight, Section, FlagFollowsSection
<1> QED
  BY <1>1, SInvInvariant, PTL

(* Outside the section, before and after, the flag is the flag: a step is  *)
(* the same step.                                                          *)
LEMMA SameStep ==
  ASSUME interruptFlag \in BOOLEAN, interruptFlag' \in BOOLEAN,
         ~InSection, ~InSection', Next
  PROVE  Around!Next
<1>w. /\ (interruptFlag \/ InSection) = interruptFlag
      /\ (interruptFlag \/ InSection)' = interruptFlag'
  OBVIOUS
<1> USE <1>w DEF At, Around!At, Here, Around!Here, Put, Around!Put, Become,
     Around!Become, Goto, Around!Goto, pic, Around!pic
<1>1. ASSUME NEW t \in Threads, KernelThread(t) PROVE Around!KernelThread(t)
  BY <1>1 DEF KernelThread, Around!KernelThread, RunList, Around!RunList, LinkNew,
     Around!LinkNew, RunHead, Around!RunHead, NewContext, Around!NewContext,
     NewFrame, Around!NewFrame, Levels, Around!Levels
<1>2. Sti => Around!Sti
  BY DEF Sti, Around!Sti
<1>3. CallSchedule => Around!CallSchedule
  BY DEF CallSchedule, Around!CallSchedule
<1>4. ReadNext => Around!ReadNext
  BY DEF ReadNext, Around!ReadNext
<1>5. TestNext => Around!TestNext
  BY DEF TestNext, Around!TestNext, ReturnPoint, Around!ReturnPoint
<1>6. SetCurrent => Around!SetCurrent
  BY DEF SetCurrent, Around!SetCurrent
<1>7. SaveContext => Around!SaveContext
  BY DEF SaveContext, Around!SaveContext, SavedContext, Around!SavedContext,
     Outgoing, Around!Outgoing
<1>8. RestoreContext => Around!RestoreContext
  BY DEF RestoreContext, Around!RestoreContext, NoContext, Around!NoContext,
     ReturnPoint, Around!ReturnPoint
<1>9. ASSUME NEW n \in Irqs, TakeInterrupt(n) PROVE Around!TakeInterrupt(n)
  BY <1>9 DEF TakeInterrupt, Around!TakeInterrupt, InSwitch, Around!InSwitch,
     Deliverable, Around!Deliverable, Rank, Around!Rank, FirstSlave,
     Around!FirstSlave, Cascade, Around!Cascade, Acknowledge, Around!Acknowledge,
     Lines, Around!Lines, EnterHandler, Around!EnterHandler, Handler,
     Around!Handler
<1>10. AckInterrupt => Around!AckInterrupt
  BY DEF AckInterrupt, Around!AckInterrupt, EndOfInterrupt,
     Around!EndOfInterrupt, MostUrgent, Around!MostUrgent, OnMaster,
     Around!OnMaster, OnSlave, Around!OnSlave, Rank, Around!Rank, FirstSlave,
     Around!FirstSlave, Cascade, Around!Cascade
<1>11. Dispatch => Around!Dispatch
  BY DEF Dispatch, Around!Dispatch
<1>12. ReturnFromInterrupt => Around!ReturnFromInterrupt
  BY DEF ReturnFromInterrupt, Around!ReturnFromInterrupt
<1>13. ASSUME NEW n \in Irqs, DeviceRequest(n) PROVE Around!DeviceRequest(n)
  BY <1>13 DEF DeviceRequest, Around!DeviceRequest, Raise, Around!Raise,
     schedVars, Around!schedVars
<1>14. ~ThreadReturns
  BY KernelAssumption DEF ThreadReturns
<1> QED
  BY <1>1, <1>2, <1>3, <1>4, <1>5, <1>6, <1>7, <1>8, <1>9, <1>10, <1>11,
     <1>12, <1>13, <1>14
  DEF Next, CpuStep, ScheduleStep, Around!Next, Around!CpuStep,
      Around!ScheduleStep

LEMMA SchedulerNext ==
  SInv /\ SInv' /\ [KernelNext]_kernelVars => [Around!Next]_(Around!vars)
<1> SUFFICES ASSUME SInv, SInv', [KernelNext]_kernelVars
             PROVE  Around!Next \/ UNCHANGED Around!vars
  OBVIOUS
<1>0. interruptFlag \in BOOLEAN /\ interruptFlag' \in BOOLEAN
  BY DEF SInv, KInv, Base, TypeOK
<1>1. CASE TtyStep
  <2>1. /\ cpu.level = "thread" /\ cpu' = cpu
        /\ ~At("boot") /\ ~At("boot")'
    BY <1>1 DEF TtyStep, At, Here
  <2>2. (interruptFlag \/ InSection) /\ (interruptFlag \/ InSection)'
    BY <2>1, <1>0 DEF SInv, FlagRight
  <2> QED
    BY <1>1, <2>2 DEF TtyStep, pic, Around!vars, Around!schedVars, Around!pic
<1>2. CASE Next /\ UNCHANGED pc
  <2>1. InSection' = InSection
    BY <1>2 DEF InSection
  <2>2. CASE InSection
    <3>1. PICK n \in Irqs : DeviceRequest(n)
      BY <1>2, <2>2, SectionUndisturbed DEF SInv, KInv
    <3>2. Around!DeviceRequest(n)
      BY <3>1, <2>1 DEF DeviceRequest, Around!DeviceRequest, Raise, Around!Raise,
         schedVars, Around!schedVars
    <3> QED
      BY <3>2 DEF Around!Next
  <2>3. CASE ~InSection
    BY <1>2, <1>0, <2>1, <2>3, SameStep
  <2> QED
    BY <2>2, <2>3
<1>3. CASE UNCHANGED kernelVars
  BY <1>3 DEF kernelVars, keyboardVars, vars, schedVars, pic, Around!vars,
     Around!schedVars, Around!pic, InSection
<1> QED
  BY <1>1, <1>2, <1>3, PcOrReader

(* Every execution of the kernel is one of Scheduler for whoever looks at  *)
(* the threads from outside the section: no switch, saved context or       *)
(* interrupt is disturbed by it.                                           *)
THEOREM SchedulerImplemented ==
  ASSUME QuietSwitch PROVE KernelSpec => ImplementsSchedulerSafely
<1>1. KernelInit => Around!Init
  <2> SUFFICES ASSUME KernelInit PROVE Around!Init
    OBVIOUS
  <2>1. (interruptFlag \/ InSection) = FALSE
    BY DEF KernelInit, Init, K!InitKeyboard, InSection
  <2> QED
    BY <2>1 DEF KernelInit, Init, Around!Init, NoContext, Around!NoContext,
       NewFrame,
       Around!NewFrame, Levels, Around!Levels, PicInit, Around!PicInit
<1> QED
  BY <1>1, SchedulerNext, SInvInvariant, PTL
  DEF KernelSpec, ImplementsSchedulerSafely, Around!Spec
=============================================================================
