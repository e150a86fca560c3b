-------------------------- MODULE SchedulerProofs --------------------------
(***************************************************************************)
(* Theorems about Scheduler, for any number of threads and any set of      *)
(* devices.  TypeOK and OneRing need no assumption on timing; what depends *)
(* on a switch not being cut in two by a tick assumes QuietSwitch.         *)
(***************************************************************************)
EXTENDS Scheduler, TLAPS

-----------------------------------------------------------------------------
(* The inductive invariant.  The properties speak of the CPU and of the    *)
(* PCBs; a step preserves them only because of what the stacks hold.       *)

Interruptible == {"run", "read", "test", "set"}
Handling == {"ack", "dispatch", "read", "test", "set", "save", "restore", "iret", "halt"}
Fetched  == {"test", "set", "save", "restore"}
Leaving  == {"set", "save", "restore"}

(* The stack the CPU is on: which activations it holds, and the flag.      *)
OnStack ==
  /\ cpu.stack \in RunList
  /\ cpu.level = "thread" =>
       /\ frame[cpu.stack]["thread"].pc \in Interruptible \cup {"boot", "save", "restore"}
       /\ frame[cpu.stack]["irq"].pc = "none"
  /\ cpu.level = "irq" =>
       /\ frame[cpu.stack]["irq"].pc \in Handling
       /\ frame[cpu.stack]["thread"].pc \in Interruptible
OnCpu == OnStack /\ FlagFollowsLevel

(* Every other thread left the CPU in switch_to() or has not begun, by a   *)
(* call of its own or under an interrupt it took.                          *)
YieldedOrNew(t) ==
  /\ context[t].stack = t /\ context[t].level = "thread" /\ context[t].flag = TRUE
  /\ frame[t]["thread"].pc \in {"run", "restore"}
  /\ frame[t]["irq"].pc = "none"
Preempted(t) ==
  /\ context[t].stack = t /\ context[t].level = "irq" /\ context[t].flag = FALSE
  /\ frame[t]["thread"].pc \in Interruptible
  /\ frame[t]["irq"].pc = "restore"
Suspended == \A t \in RunList \ {cpu.stack} : YieldedOrNew(t) \/ Preempted(t)

(* The locals of a schedule() call in progress, suspended or not, are the  *)
(* thread it was made on and that thread's successor.                      *)
Locals ==
  \A t \in RunList, l \in Levels :
    /\ frame[t][l].pc \in Fetched => frame[t][l].next = next[t]
    /\ frame[t][l].pc \in Leaving => frame[t][l].prev = t /\ next[t] # t

(* current, the TSS and the PCB of the thread that leaves change hands     *)
(* inside the switch.                                                      *)
Globals ==
  /\ current = (IF InSwitch THEN next[cpu.stack] ELSE cpu.stack)
  /\ esp0 \in {NoThread, IF At("restore") THEN next[cpu.stack] ELSE cpu.stack}
  /\ At("restore") =>
       /\ context[cpu.stack].stack = cpu.stack
       /\ context[cpu.stack].level = cpu.level
       /\ context[cpu.stack].flag = (cpu.level = "thread")

(* Threads are made only before anything can be preempted.                 *)
Booting ==
  At("boot") => /\ cpu = [stack |-> Idle, level |-> "thread"]
                /\ \A t \in RunList \ {Idle} : /\ frame[t]["thread"].pc = "run"
                                             /\ frame[t]["irq"].pc = "none"

(* What is in service is what the interrupt before its end-of-interrupt    *)
(* occupies.                                                               *)
Acked ==
  /\ At("ack") => Here.int_no \in Irqs /\ inService = Lines(Here.int_no)
  /\ ~At("ack") => inService = {}

(* No pointer in use is NULL or dangling.                                  *)
Live ==
  /\ Idle \in RunList
  /\ current \in RunList
  /\ \A t \in Threads, l \in Levels :
       /\ frame[t][l].pc \in Fetched => frame[t][l].next \in RunList
       /\ frame[t][l].pc \in Leaving => frame[t][l].prev \in RunList

Base == TypeOK /\ OneRing /\ Live

IInv == /\ Base
        /\ OnCpu /\ Suspended /\ Locals /\ Globals /\ Booting /\ Acked

-----------------------------------------------------------------------------
(* Type correctness.                                                       *)

Frames == [Threads -> [Levels -> Frame]]

(* A step that replaces one activation leaves the others as they were.     *)
LEMMA PutOne ==
  ASSUME frame \in Frames,
         NEW t \in Threads, NEW l \in Levels, NEW f \in Frame, Put(t, l, f)
  PROVE  /\ frame' \in Frames
         /\ frame'[t][l] = f
         /\ \A u \in Threads, k \in Levels :
              u # t \/ k # l => frame'[u][k] = frame[u][k]
<1>1. [frame[t] EXCEPT ![l] = f] \in [Levels -> Frame]
  BY DEF Frames
<1>2. frame' = [frame EXCEPT ![t] = [frame[t] EXCEPT ![l] = f]]
  BY DEF Put, Frames
<1> QED
  BY <1>1, <1>2 DEF Frames

LEMMA HereTyped ==
  ASSUME frame \in Frames, cpu \in [stack : Threads, level : Levels]
  PROVE  cpu.stack \in Threads /\ cpu.level \in Levels /\ Here \in Frame
  BY DEF Here, Frames

LEMMA PcUpdate ==
  ASSUME NEW f \in Frame, NEW p \in Points
  PROVE  /\ [f EXCEPT !.pc = p] \in Frame
         /\ [f EXCEPT !.pc = p].pc = p
         /\ [f EXCEPT !.pc = p].int_no = f.int_no
         /\ [f EXCEPT !.pc = p].next = f.next
         /\ [f EXCEPT !.pc = p].prev = f.prev
  BY DEF Frame

LEMMA NextUpdate ==
  ASSUME NEW f \in Frame, NEW p \in Points, NEW t \in Threads \cup {NoThread}
  PROVE  /\ [f EXCEPT !.next = t, !.pc = p] \in Frame
         /\ [f EXCEPT !.next = t, !.pc = p].pc = p
         /\ [f EXCEPT !.next = t, !.pc = p].next = t
         /\ [f EXCEPT !.next = t, !.pc = p].prev = f.prev
  BY DEF Frame

LEMMA PrevUpdate ==
  ASSUME NEW f \in Frame, NEW p \in Points, NEW t \in Threads \cup {NoThread}
  PROVE  /\ [f EXCEPT !.prev = t, !.pc = p] \in Frame
         /\ [f EXCEPT !.prev = t, !.pc = p].pc = p
         /\ [f EXCEPT !.prev = t, !.pc = p].next = f.next
         /\ [f EXCEPT !.prev = t, !.pc = p].prev = t
  BY DEF Frame

LEMMA GotoTyped ==
  ASSUME frame \in Frames, cpu \in [stack : Threads, level : Levels],
         NEW p \in Points, Goto(p)
  PROVE  frame' \in Frames
<1>1. cpu.stack \in Threads /\ cpu.level \in Levels /\ Here \in Frame
  BY HereTyped
<1> DEFINE f == [Here EXCEPT !.pc = p]
<1>2. f \in Frame
  BY <1>1, PcUpdate
<1>3. Put(cpu.stack, cpu.level, f)
  BY DEF Goto, Become
<1> HIDE DEF f
<1> QED
  BY <1>1, <1>2, <1>3, PutOne

LEMMA TypeInit == Init => TypeOK
<1> SUFFICES ASSUME Init PROVE TypeOK
  OBVIOUS
<1> USE SchedulerAssumption DEF Init
<1>1. frame \in [Threads -> [Levels -> Frame]]
  <2>1. \A p \in Points : NewFrame(p) \in [Levels -> Frame]
    BY "none" \in Points DEF NewFrame, Frame, Points
  <2> QED
    BY <2>1 DEF Points
<1> QED
  BY <1>1 DEF TypeOK, PicInit, Levels

LEMMA TypeNext == TypeOK /\ Live /\ [Next]_vars => TypeOK'
<1> SUFFICES ASSUME TypeOK, Live, [Next]_vars PROVE TypeOK'
  OBVIOUS
<1> USE SchedulerAssumption DEF TypeOK
<1>0. frame \in Frames /\ cpu.stack \in Threads /\ cpu.level \in Levels /\ Here \in Frame
  BY HereTyped DEF Frames
<1>a. ASSUME frame' \in Frames PROVE frame' \in [Threads -> [Levels -> Frame]]
  BY <1>a DEF Frames
<1>p. /\ "none" \in Points /\ "run" \in Points /\ "read" \in Points
      /\ "test" \in Points /\ "set" \in Points /\ "save" \in Points
      /\ "restore" \in Points /\ "ack" \in Points /\ "dispatch" \in Points
      /\ "iret" \in Points /\ "halt" \in Points
      /\ \A l : ReturnPoint(l) \in Points
      /\ "thread" \in Levels /\ "irq" \in Levels
  BY DEF Points, Levels, ReturnPoint
<1> HIDE DEF Frames
<1>1. ASSUME NEW t \in Threads, KernelThread(t) PROVE TypeOK'
  <2>1. frame' \in [Threads -> [Levels -> Frame]]
    <3>1. NewFrame("run") \in [Levels -> Frame]
      BY <1>p DEF NewFrame, Frame
    <3> QED
      BY <1>1, <3>1 DEF KernelThread
  <2>2. context' \in [Threads -> Context \cup {NoContext}]
    BY <1>1 DEF KernelThread, NewContext, Context, Levels
  <2>3. next' \in [Threads -> Threads \cup {NoThread}]
    BY <1>1 DEF KernelThread, LinkNew, RunHead
  <2>4. prev' \in [Threads -> Threads \cup {NoThread}]
    BY <1>1 DEF KernelThread, LinkNew, RunHead
  <2> QED
    BY <1>1, <2>1, <2>2, <2>3, <2>4 DEF KernelThread, pic
<1>2. CASE Sti
  BY <1>2, <1>0, <1>a, <1>p, GotoTyped DEF Sti, pic
<1>3. CASE CallSchedule
  BY <1>3, <1>0, <1>a, <1>p, GotoTyped DEF CallSchedule, pic
<1>4. CASE ReadNext
  BY <1>4, <1>0, <1>a, <1>p, PutOne, NextUpdate DEF ReadNext, Become, pic
<1>5. CASE TestNext
  <2>1. frame' \in Frames
    <3>1. CASE Goto(ReturnPoint(cpu.level))
      BY <3>1, <1>0, <1>p, GotoTyped
    <3>2. CASE Become([Here EXCEPT !.prev = current, !.pc = "set"])
      BY <3>2, <1>0, <1>p, PutOne, PrevUpdate DEF Become
    <3> QED
      BY <1>5, <3>1, <3>2 DEF TestNext
  <2> QED
    BY <1>5, <2>1, <1>a DEF TestNext, pic
<1>6. CASE SetCurrent
  <2>1. current' \in Threads
    BY <1>6, <1>0 DEF SetCurrent, Live, RunList, At, Here, Fetched
  <2> QED
    BY <1>6, <2>1, <1>0, <1>a, <1>p, GotoTyped DEF SetCurrent, pic
<1>7. CASE SaveContext
  <2>1. context' \in [Threads -> Context \cup {NoContext}]
    BY <1>7, <1>0 DEF SaveContext, SavedContext, Context
  <2>2. frame' \in Frames
    BY <1>7, <1>0, <1>p, PutOne, NextUpdate DEF SaveContext, Become
  <2>3. esp0' \in Threads \cup {NoThread}
    BY <1>7, <1>0 DEF SaveContext, Frame
  <2> QED
    BY <1>7, <2>1, <2>2, <2>3, <1>a DEF SaveContext, pic
<1>8. CASE RestoreContext
  <2> DEFINE c == context[Here.next]
  <2>1. c \in Context
    <3>1. Here.next \in Threads
      BY <1>8, <1>0 DEF RestoreContext, Live, RunList, At, Here, Fetched
    <3> QED
      BY <1>8, <3>1 DEF RestoreContext
  <2>2. c.stack \in Threads /\ c.level \in Levels /\ c.flag \in BOOLEAN
    BY <2>1 DEF Context
  <2>3. frame[c.stack][c.level] \in Frame
    BY <2>2
  <2>4. frame' \in Frames
    <3> DEFINE f == [frame[c.stack][c.level] EXCEPT !.pc = ReturnPoint(c.level)]
    <3>1. f \in Frame
      BY <2>3, <1>p, PcUpdate
    <3>2. Put(c.stack, c.level, f)
      BY <1>8 DEF RestoreContext
    <3> HIDE DEF c, f
    <3> QED
      BY <3>1, <3>2, <2>2, <1>0, PutOne
  <2> QED
    BY <1>8, <2>2, <2>4, <1>a DEF RestoreContext, pic
<1>9. ASSUME NEW n \in Irqs, TakeInterrupt(n) PROVE TypeOK'
  <2> DEFINE f == Handler("ack", n)
  <2>1. f \in Frame
    BY <1>p DEF Frame, Handler
  <2>2. frame' \in Frames
    BY <1>9, <2>1, <1>0, <1>p, PutOne DEF TakeInterrupt, EnterHandler
  <2>3. cpu' \in [stack : Threads, level : Levels]
    BY <1>9, <1>p DEF TakeInterrupt, EnterHandler
  <2>4. inService' \subseteq Irqs \cup {Cascade} /\ requested' \subseteq Irqs
    BY <1>9 DEF TakeInterrupt, EnterHandler, Acknowledge, Lines
  <2> QED
    BY <1>9, <2>2, <2>3, <2>4, <1>a DEF TakeInterrupt, EnterHandler
<1>10. CASE AckInterrupt
  <2>1. inService' \subseteq inService
    BY <1>10 DEF AckInterrupt, EndOfInterrupt
  <2> QED
    BY <1>10, <2>1, <1>0, <1>a, <1>p, GotoTyped DEF AckInterrupt
<1>11. CASE Dispatch
  BY <1>11, <1>0, <1>a, <1>p, GotoTyped DEF Dispatch, pic
<1>12. CASE ReturnFromInterrupt
  <2>1. cpu' \in [stack : Threads, level : Levels]
    BY <1>12, <1>p DEF ReturnFromInterrupt
  <2>2. frame' \in Frames
    BY <1>12, <1>0, <1>p, GotoTyped DEF ReturnFromInterrupt
  <2> QED
    BY <1>12, <2>1, <2>2, <1>a DEF ReturnFromInterrupt, pic
<1>13. ASSUME NEW n \in Irqs, DeviceRequest(n) PROVE TypeOK'
  BY <1>13 DEF DeviceRequest, Raise, schedVars
<1>14. CASE ThreadReturns
  <2> DEFINE f == Handler("halt", 0)
  <2>1. f \in Frame
    BY <1>p DEF Frame, Handler
  <2>2. frame' \in Frames
    BY <1>14, <2>1, <1>0, <1>p, PutOne DEF ThreadReturns, EnterHandler
  <2>3. cpu' \in [stack : Threads, level : Levels]
    BY <1>14, <1>p DEF ThreadReturns, EnterHandler
  <2> QED
    BY <1>14, <2>2, <2>3, <1>a DEF ThreadReturns, EnterHandler, pic
<1>15. CASE UNCHANGED vars
  BY <1>15 DEF vars, schedVars, pic
<1> QED
  BY <1>1, <1>2, <1>3, <1>4, <1>5, <1>6, <1>7, <1>8, <1>9, <1>10, <1>11,
     <1>12, <1>13, <1>14, <1>15
  DEF Next, CpuStep, ScheduleStep

-----------------------------------------------------------------------------
(* The run list.                                                           *)

LEMMA RingInit == Init => OneRing
<1> SUFFICES ASSUME Init PROVE OneRing
  OBVIOUS
<1>1. RunList = {Idle}
  BY SchedulerAssumption DEF Init, RunList
<1> QED
  BY <1>1, SchedulerAssumption DEF Init, OneRing

(* Only kernel_thread() writes the links, in front of the head.            *)
LEMMA LinkNewRing ==
  ASSUME TypeOK, OneRing, Idle \in RunList,
         NEW t \in Threads, t \notin RunList, LinkNew(t)
  PROVE  OneRing' /\ RunList' = RunList \cup {t}
<1> DEFINE last == prev[Idle]
<1> USE SchedulerAssumption DEF TypeOK, RunHead
<1>1. last \in RunList /\ next[last] = Idle /\ last \in Threads /\ last # t
  BY DEF OneRing, RunList
<1>2. /\ next' = [next EXCEPT ![t] = Idle, ![last] = t]
      /\ prev' = [prev EXCEPT ![t] = last, ![Idle] = t]
  BY DEF LinkNew
<1>3. /\ next'[t] = Idle /\ next'[last] = t
      /\ \A u \in Threads \ {t, last} : next'[u] = next[u]
  BY <1>1, <1>2
<1>4. /\ prev'[t] = last /\ prev'[Idle] = t
      /\ \A u \in Threads \ {t, Idle} : prev'[u] = prev[u]
  BY <1>1, <1>2
<1>5. RunList' = RunList \cup {t}
  BY <1>1, <1>3 DEF RunList
<1>6. \A u \in RunList' : /\ next'[u] \in RunList' /\ prev'[next'[u]] = u
                          /\ prev'[u] \in RunList' /\ next'[prev'[u]] = u
  <2> SUFFICES ASSUME NEW u \in RunList'
               PROVE  /\ next'[u] \in RunList' /\ prev'[next'[u]] = u
                      /\ prev'[u] \in RunList' /\ next'[prev'[u]] = u
    OBVIOUS
  <2>1. CASE u = t
    BY <2>1, <1>1, <1>3, <1>4, <1>5
  <2>2. CASE u # t
    <3>1. /\ u \in RunList /\ u \in Threads
          /\ next[u] \in RunList /\ next[u] \in Threads /\ prev[next[u]] = u
          /\ prev[u] \in RunList /\ prev[u] \in Threads /\ next[prev[u]] = u
      BY <2>2, <1>5 DEF OneRing, RunList
    <3>2. next'[u] \in RunList' /\ prev'[next'[u]] = u
      BY <3>1, <2>2, <1>1, <1>3, <1>4, <1>5
    <3>3. prev'[u] \in RunList' /\ next'[prev'[u]] = u
      BY <3>1, <2>2, <1>1, <1>3, <1>4, <1>5
    <3> QED
      BY <3>2, <3>3
  <2> QED
    BY <2>1, <2>2
<1>7. ASSUME NEW S \in SUBSET (RunList'),
             Idle \in S, \A u \in S : next'[u] \in S
      PROVE  S = RunList'
  <2>1. S \ {t} \in SUBSET RunList /\ Idle \in S \ {t}
    BY <1>7, <1>5
  <2>2. \A u \in S \ {t} : next[u] \in S \ {t}
    <3> SUFFICES ASSUME NEW u \in S \ {t} PROVE next[u] \in S \ {t}
      OBVIOUS
    <3>1. u \in RunList /\ u \in Threads /\ next[u] \in RunList
      BY <2>1 DEF OneRing, RunList
    <3> QED
      BY <3>1, <2>1, <1>1, <1>3, <1>7
  <2>3. S \ {t} = RunList
    BY <2>1, <2>2 DEF OneRing
  <2> QED
    BY <2>3, <1>1, <1>3, <1>5, <1>7
<1> QED
  BY <1>5, <1>6, <1>7 DEF OneRing

LEMMA RunListSame ==
  ASSUME UNCHANGED <<next, prev>>
  PROVE  RunList' = RunList /\ (OneRing => OneRing')
  BY DEF RunList, OneRing

LEMMA LinksKept ==
  ASSUME [Next]_vars, \A t \in Threads : ~KernelThread(t)
  PROVE  UNCHANGED <<next, prev>>
  BY DEF Next, CpuStep, ScheduleStep, Sti, CallSchedule, ReadNext, TestNext,
     SetCurrent, SaveContext, RestoreContext, TakeInterrupt, AckInterrupt,
     Dispatch, ReturnFromInterrupt, DeviceRequest, ThreadReturns, EnterHandler, vars, schedVars

LEMMA RingNext == Base /\ [Next]_vars => OneRing'
<1> SUFFICES ASSUME Base, [Next]_vars PROVE OneRing'
  OBVIOUS
<1>1. ASSUME NEW t \in Threads, KernelThread(t) PROVE OneRing'
  BY <1>1, LinkNewRing DEF Base, Live, KernelThread
<1>2. CASE \A t \in Threads : ~KernelThread(t)
  BY <1>2, LinksKept, RunListSame DEF Base
<1> QED
  BY <1>1, <1>2

-----------------------------------------------------------------------------
(* The pointers.                                                           *)

LEMMA LiveInit == Init => Live
<1> SUFFICES ASSUME Init PROVE Live
  OBVIOUS
<1> USE SchedulerAssumption DEF Init
<1>1. RunList = {Idle}
  BY DEF RunList
<1>2. \A t \in Threads, l \in Levels : frame[t][l].pc \notin Fetched \cup Leaving
  BY DEF NewFrame, Fetched, Leaving
<1> QED
  BY <1>1, <1>2 DEF Live

LEMMA LiveNext == Base /\ [Next]_vars => Live'
<1> SUFFICES ASSUME Base, [Next]_vars PROVE Live'
  OBVIOUS
<1> USE SchedulerAssumption DEF Base
<1>0. /\ frame \in Frames /\ cpu.stack \in Threads /\ cpu.level \in Levels
      /\ Here \in Frame /\ Here = frame[cpu.stack][cpu.level]
      /\ RunList \subseteq Threads
  BY HereTyped DEF TypeOK, Frames, Here, RunList
<1>l. /\ current \in RunList
      /\ Here.pc \in Fetched => Here.next \in RunList
      /\ Here.pc \in Leaving => Here.prev \in RunList
      /\ next[current] \in RunList
  BY <1>0 DEF Live, OneRing
<1>p. /\ "none" \in Points /\ "run" \in Points /\ "read" \in Points
      /\ "test" \in Points /\ "set" \in Points /\ "save" \in Points
      /\ "restore" \in Points /\ "ack" \in Points /\ "dispatch" \in Points
      /\ "iret" \in Points /\ "halt" \in Points
      /\ "thread" \in Levels /\ "irq" \in Levels
  BY DEF Points, Levels
<1>t. RunList \subseteq Threads \cup {NoThread}
  BY <1>0
(* A step that writes one activation, well, and leaves the rest alone.     *)
<1>w. ASSUME NEW t \in Threads, NEW l \in Levels, NEW f \in Frame, Put(t, l, f),
             f.pc \in Fetched => f.next \in RunList,
             f.pc \in Leaving => f.prev \in RunList,
             UNCHANGED <<next, prev>>, current' \in RunList
      PROVE  Live'
  <2>1. RunList' = RunList
    BY <1>w, RunListSame
  <2>2. /\ frame'[t][l] = f
        /\ \A u \in Threads, k \in Levels :
             u # t \/ k # l => frame'[u][k] = frame[u][k]
    BY <1>0, <1>w, PutOne
  <2> QED
    BY <2>1, <2>2, <1>w DEF Live
<1>g. ASSUME NEW p \in {"none", "run", "read", "dispatch", "iret"}, Goto(p),
             UNCHANGED <<next, prev>>, UNCHANGED current
      PROVE  Live'
  <2> DEFINE f == [Here EXCEPT !.pc = p]
  <2>1. f \in Frame /\ f.pc \notin Fetched /\ f.pc \notin Leaving
    BY <1>0, <1>p DEF Frame, Fetched, Leaving
  <2>2. Put(cpu.stack, cpu.level, f)
    BY <1>g DEF Goto, Become
  <2> HIDE DEF f
  <2> QED
    BY <2>1, <2>2, <1>g, <1>w, <1>0, <1>l
<1>1. ASSUME NEW t \in Threads, KernelThread(t) PROVE Live'
  <2>1. RunList' = RunList \cup {t}
    BY <1>1, LinkNewRing DEF KernelThread, Live
  <2>2. /\ \A u \in Threads \ {t} : frame'[u] = frame[u]
        /\ \A l \in Levels : frame'[t][l].pc \notin Fetched \cup Leaving
    BY <1>1, <1>0 DEF KernelThread, NewFrame, Fetched, Leaving, Frames
  <2> QED
    BY <1>1, <2>1, <2>2 DEF Live, KernelThread
<1>2. CASE Sti \/ CallSchedule \/ AckInterrupt \/ Dispatch \/ ReturnFromInterrupt
  BY <1>2, <1>g DEF Sti, CallSchedule, AckInterrupt, Dispatch, ReturnFromInterrupt
<1>3. CASE ReadNext
  <2> DEFINE f == [Here EXCEPT !.next = next[current], !.pc = "test"]
  <2>1. f \in Frame /\ f.pc = "test" /\ f.next \in RunList
    BY <1>0, <1>l, <1>t, <1>p DEF Frame
  <2>2. Put(cpu.stack, cpu.level, f) /\ UNCHANGED <<current, next, prev>>
    BY <1>3 DEF ReadNext, Become
  <2> HIDE DEF f
  <2> QED
    BY <2>1, <2>2, <1>w, <1>0, <1>l DEF Leaving
<1>4. CASE TestNext
  <2>1. CASE Goto(ReturnPoint(cpu.level))
    BY <1>4, <2>1, <1>g DEF TestNext, ReturnPoint
  <2>2. CASE ~Goto(ReturnPoint(cpu.level))
    <3> DEFINE f == [Here EXCEPT !.prev = current, !.pc = "set"]
    <3>1. f \in Frame /\ f.next \in RunList /\ f.prev \in RunList
      BY <1>4, <1>0, <1>l, <1>t, <1>p DEF Frame, TestNext, At, Fetched
    <3>2. Put(cpu.stack, cpu.level, f) /\ UNCHANGED <<current, next, prev>>
      BY <1>4, <2>2 DEF TestNext, Become
    <3> HIDE DEF f
    <3> QED
      BY <3>1, <3>2, <1>w, <1>0, <1>l
  <2> QED
    BY <2>1, <2>2
<1>5. CASE SetCurrent
  <2> DEFINE f == [Here EXCEPT !.pc = "save"]
  <2>1. f \in Frame /\ f.next \in RunList /\ f.prev \in RunList
    BY <1>5, <1>0, <1>l, <1>t, <1>p DEF Frame, SetCurrent, At, Fetched, Leaving
  <2>2. Put(cpu.stack, cpu.level, f) /\ UNCHANGED <<next, prev>> /\ current' = Here.next
    BY <1>5 DEF SetCurrent, Become, Goto
  <2>3. current' \in RunList
    BY <1>5, <2>2, <1>l DEF SetCurrent, At, Fetched
  <2> HIDE DEF f
  <2> QED
    BY <2>1, <2>2, <2>3, <1>w, <1>0
<1>6. CASE SaveContext
  <2> DEFINE f == [Here EXCEPT !.next = current, !.pc = "restore"]
  <2>1. f \in Frame /\ f.next \in RunList /\ f.prev \in RunList
    BY <1>6, <1>0, <1>l, <1>t, <1>p DEF Frame, SaveContext, At, Leaving
  <2>2. Put(cpu.stack, cpu.level, f) /\ UNCHANGED <<current, next, prev>>
    BY <1>6 DEF SaveContext, Become
  <2> HIDE DEF f
  <2> QED
    BY <2>1, <2>2, <1>w, <1>0, <1>l
<1>7. CASE RestoreContext
  <2> DEFINE c == context[Here.next]
             f == [frame[c.stack][c.level] EXCEPT !.pc = ReturnPoint(c.level)]
  <2>1. c \in Context
    <3>1. Here.next \in Threads
      BY <1>7, <1>0, <1>l DEF RestoreContext, At, Fetched
    <3> QED
      BY <1>7, <3>1 DEF RestoreContext, TypeOK
  <2>2. c.stack \in Threads /\ c.level \in Levels
    BY <2>1 DEF Context
  <2>3. f \in Frame /\ f.pc \in {"run", "iret"}
    <3>1. frame[c.stack][c.level] \in Frame
      BY <2>2, <1>0 DEF Frames
    <3>2. ReturnPoint(c.level) \in Points /\ ReturnPoint(c.level) \in {"run", "iret"}
      BY <1>p DEF ReturnPoint
    <3> QED
      BY <3>1, <3>2 DEF Frame
  <2>4. Put(c.stack, c.level, f) /\ UNCHANGED <<current, next, prev>>
    BY <1>7 DEF RestoreContext
  <2> HIDE DEF c, f
  <2> QED
    BY <2>2, <2>3, <2>4, <1>l, <1>w DEF Fetched, Leaving
<1>8. ASSUME NEW n \in Irqs, TakeInterrupt(n) PROVE Live'
  <2> DEFINE f == Handler("ack", n)
  <2>1. f \in Frame /\ f.pc = "ack"
    BY <1>p DEF Frame, Handler
  <2>2. Put(cpu.stack, "irq", f) /\ UNCHANGED <<current, next, prev>>
    BY <1>8 DEF TakeInterrupt, EnterHandler
  <2> HIDE DEF f
  <2> QED
    BY <2>1, <2>2, <1>0, <1>l, <1>p, <1>w DEF Fetched, Leaving
<1>9. CASE UNCHANGED schedVars
  BY <1>9, RunListSame DEF schedVars, Live
<1>10. CASE ThreadReturns
  <2> DEFINE f == Handler("halt", 0)
  <2>1. f \in Frame /\ f.pc = "halt"
    BY <1>p DEF Frame, Handler
  <2>2. Put(cpu.stack, "irq", f) /\ UNCHANGED <<current, next, prev>>
    BY <1>10 DEF ThreadReturns, EnterHandler
  <2> HIDE DEF f
  <2> QED
    BY <2>1, <2>2, <1>0, <1>l, <1>p, <1>w DEF Fetched, Leaving
<1> QED
  BY <1>1, <1>2, <1>3, <1>4, <1>5, <1>6, <1>7, <1>8, <1>9, <1>10
  DEF Next, CpuStep, ScheduleStep, DeviceRequest, vars

LEMMA BaseInvariant == Spec => []Base
<1>1. Init => Base
  BY TypeInit, RingInit, LiveInit DEF Base
<1>2. Base /\ [Next]_vars => Base'
  BY TypeNext, RingNext, LiveNext DEF Base
<1> QED
  BY <1>1, <1>2, PTL DEF Spec

(* Every variable of the scheduler keeps its type, in every execution,     *)
(* whatever the timing.                                                    *)
THEOREM TypeCorrect == Spec => []TypeOK
  BY BaseInvariant, PTL DEF Base

(* The run list stays one ring through every kernel_thread().              *)
THEOREM RunListIsOneRing == Spec => []OneRing
  BY BaseInvariant, PTL DEF Base

-----------------------------------------------------------------------------
(* The inductive invariant is kept when no tick cuts a switch in two.      *)

LEMMA TypedState ==
  ASSUME Base
  PROVE  /\ frame \in Frames /\ cpu \in [stack : Threads, level : Levels]
         /\ cpu.stack \in Threads /\ cpu.level \in Levels
         /\ Here \in Frame /\ Here = frame[cpu.stack][cpu.level]
         /\ RunList \subseteq Threads
         /\ NoThread \notin Threads
         /\ \A t \in RunList : next[t] \in RunList
  BY HereTyped, SchedulerAssumption DEF Base, TypeOK, Frames, Here, RunList,
     OneRing

(* A step of the activation the CPU is in, which stays in it.              *)
LEMMA StepHere ==
  ASSUME IInv,
         NEW f \in Frame, Become(f), UNCHANGED <<cpu, next, prev>>,
         interruptFlag' = (cpu.level = "thread"),
         \A t \in RunList \ {cpu.stack} : context'[t] = context[t],
         cpu.level = "thread" => f.pc \in Interruptible \cup {"save", "restore"},
         cpu.level = "irq" => f.pc \in Handling,
         f.pc \in Fetched => f.next = next[cpu.stack],
         f.pc \in Leaving => f.prev = cpu.stack /\ next[cpu.stack] # cpu.stack
  PROVE  /\ OnCpu' /\ Suspended' /\ Locals' /\ Booting'
         /\ Here' = f /\ RunList' = RunList
<1> USE DEF IInv
<1>1. /\ frame'[cpu.stack][cpu.level] = f
      /\ \A u \in Threads, k \in Levels :
           u # cpu.stack \/ k # cpu.level => frame'[u][k] = frame[u][k]
  BY TypedState, PutOne DEF Become
<1>2. RunList' = RunList /\ Here' = f
  BY <1>1, RunListSame DEF Here
<1>3. "thread" \in Levels /\ "irq" \in Levels
  BY DEF Levels
<1>4. f.pc # "boot"
  BY TypedState DEF Levels, Interruptible, Handling
<1>5. OnCpu'
  BY <1>1, <1>2, <1>3, <1>4, TypedState DEF OnCpu, OnStack, FlagFollowsLevel, At
<1>6. Suspended'
  <2> SUFFICES ASSUME NEW t \in RunList \ {cpu.stack}
               PROVE  YieldedOrNew(t)' \/ Preempted(t)'
    BY <1>2 DEF Suspended
  <2>1. /\ frame'[t]["thread"] = frame[t]["thread"]
        /\ frame'[t]["irq"] = frame[t]["irq"]
        /\ context'[t] = context[t]
    BY <1>1, <1>3, TypedState
  <2>2. YieldedOrNew(t) \/ Preempted(t)
    BY DEF Suspended
  <2> QED
    BY <2>1, <2>2 DEF YieldedOrNew, Preempted
<1>7. Locals'
  <2> SUFFICES ASSUME NEW t \in RunList, NEW l \in Levels
               PROVE  /\ frame'[t][l].pc \in Fetched => frame'[t][l].next = next[t]
                      /\ frame'[t][l].pc \in Leaving =>
                           frame'[t][l].prev = t /\ next[t] # t
    BY <1>2 DEF Locals
  <2>1. CASE t = cpu.stack /\ l = cpu.level
    BY <2>1, <1>1
  <2>2. CASE ~(t = cpu.stack /\ l = cpu.level)
    BY <2>2, <1>1, TypedState DEF Locals
  <2> QED
    BY <2>1, <2>2
<1>8. Booting'
  BY <1>2, <1>4 DEF Booting, At
<1> QED
  BY <1>2, <1>5, <1>6, <1>7, <1>8

(* The end-of-interrupt commands of isr_handler() retire all the lines its *)
(* interrupt occupies.                                                     *)
LEMMA EndOfInterruptClears ==
  ASSUME NEW n \in Irqs, inService = Lines(n), EndOfInterrupt(n)
  PROVE  inService' = {}
<1>1. n \in (32..47) \ {34}
  BY IrqAssumption
<1>2. CASE n >= 40
  <2>1. inService = {n, 34}
    BY <1>2 DEF Lines, FirstSlave, Cascade
  <2>2. OnMaster = {34} /\ OnSlave = {n}
    BY <2>1, <1>1, <1>2 DEF OnMaster, OnSlave, FirstSlave
  <2>3. 34 \in MostUrgent(OnMaster) /\ n \in MostUrgent(OnSlave)
    BY <2>2, <1>1 DEF MostUrgent, Rank, FirstSlave, Cascade
  <2> QED
    BY <2>1, <2>3, <1>2 DEF EndOfInterrupt, FirstSlave
<1>3. CASE ~(n >= 40)
  <2>1. inService = {n}
    BY <1>3 DEF Lines, FirstSlave
  <2>2. OnMaster = {n}
    BY <2>1, <1>1, <1>3 DEF OnMaster, FirstSlave
  <2>3. n \in MostUrgent(OnMaster)
    BY <2>2, <1>1 DEF MostUrgent, Rank, FirstSlave, Cascade
  <2> QED
    BY <2>1, <2>3 DEF EndOfInterrupt
<1> QED
  BY <1>2, <1>3

LEMMA IInvInit == Init => IInv
<1> SUFFICES ASSUME Init PROVE IInv
  OBVIOUS
<1> USE SchedulerAssumption DEF Init
<1>1. Base
  BY TypeInit, RingInit, LiveInit DEF Base
<1>2. RunList = {Idle}
  BY DEF RunList
<1>3. /\ cpu.stack = Idle /\ cpu.level = "thread"
      /\ frame[Idle]["thread"].pc = "boot" /\ frame[Idle]["irq"].pc = "none"
      /\ \A l \in Levels : frame[Idle][l].pc \in {"boot", "none"}
  BY DEF NewFrame, Levels
<1>4. Here.pc = "boot"
  BY <1>3 DEF Here
<1>5. OnCpu /\ Suspended /\ Booting
  BY <1>2, <1>3, <1>4 DEF OnCpu, OnStack, FlagFollowsLevel, Suspended, Booting, At
<1>6. Locals
  BY <1>2, <1>3 DEF Locals, Fetched, Leaving
<1>7. Globals /\ Acked
  BY <1>3, <1>4 DEF Globals, Acked, At, InSwitch, PicInit
<1> QED
  BY <1>1, <1>5, <1>6, <1>7 DEF IInv

LEMMA IInvNext ==
  ASSUME QuietSwitch
  PROVE  IInv /\ [Next]_vars => IInv'
<1> SUFFICES ASSUME IInv, [Next]_vars PROVE IInv'
  OBVIOUS
<1>b. Base'
  BY TypeNext, RingNext, LiveNext DEF Base, IInv
<1>0. /\ frame \in Frames /\ cpu \in [stack : Threads, level : Levels]
      /\ cpu.stack \in Threads /\ cpu.level \in Levels
      /\ Here \in Frame /\ Here = frame[cpu.stack][cpu.level]
      /\ RunList \subseteq Threads /\ NoThread \notin Threads
      /\ cpu.stack \in RunList /\ Idle \in RunList
      /\ \A t \in RunList : next[t] \in RunList
      /\ "thread" \in Levels /\ "irq" \in Levels
      /\ cpu.level \in {"thread", "irq"}
  BY TypedState DEF IInv, OnCpu, OnStack, FlagFollowsLevel, Base, Live, Levels
<1>l. /\ Here.pc \in Fetched => Here.next = next[cpu.stack]
      /\ Here.pc \in Leaving => Here.prev = cpu.stack /\ next[cpu.stack] # cpu.stack
  BY <1>0 DEF IInv, Locals
<1>c. /\ cpu.level = "thread" => Here.pc \in Interruptible \cup {"boot", "save", "restore"}
      /\ cpu.level = "irq" => Here.pc \in Handling
      /\ interruptFlag = (cpu.level = "thread" /\ Here.pc # "boot")
  BY <1>0 DEF IInv, OnCpu, OnStack, FlagFollowsLevel, At
<1>v. /\ current = (IF InSwitch THEN next[cpu.stack] ELSE cpu.stack)
      /\ esp0 \in {NoThread, IF At("restore") THEN next[cpu.stack] ELSE cpu.stack}
      /\ Here.pc # "ack" => inService = {}
      /\ Here.pc = "ack" => Here.int_no \in Irqs /\ inService = Lines(Here.int_no)
  BY DEF IInv, Globals, Acked, At
(* What is left to show of a step of the activation the CPU is in.         *)
<1>s. ASSUME NEW f \in Frame, Become(f), UNCHANGED <<cpu, next, prev>>,
             interruptFlag' = (cpu.level = "thread"),
             \A t \in RunList \ {cpu.stack} : context'[t] = context[t],
             cpu.level = "thread" => f.pc \in Interruptible \cup {"save", "restore"},
             cpu.level = "irq" => f.pc \in Handling,
             f.pc \in Fetched => f.next = next[cpu.stack],
             f.pc \in Leaving => f.prev = cpu.stack /\ next[cpu.stack] # cpu.stack,
             current' = (IF f.pc \in {"save", "restore"} THEN next[cpu.stack]
                                                         ELSE cpu.stack),
             esp0' \in {NoThread, IF f.pc = "restore" THEN next[cpu.stack] ELSE cpu.stack},
             f.pc = "restore" =>
               /\ context'[cpu.stack].stack = cpu.stack
               /\ context'[cpu.stack].level = cpu.level
               /\ context'[cpu.stack].flag = (cpu.level = "thread"),
             f.pc # "ack", inService' = {}
      PROVE  IInv'
  <2>1. OnCpu' /\ Suspended' /\ Locals' /\ Booting' /\ Here' = f /\ RunList' = RunList
    BY <1>s, StepHere
  <2>2. Globals'
    BY <2>1, <1>s DEF Globals, InSwitch, At
  <2>3. Acked'
    BY <2>1, <1>s DEF Acked, At
  <2> QED
    BY <1>b, <2>1, <2>2, <2>3 DEF IInv
(* A jump to a point outside the switch.                                   *)
<1>g. ASSUME NEW p \in {"run", "read", "dispatch", "iret"}, Goto(p), ~InSwitch,
             cpu.level = "thread" => p \in {"run", "read"}, cpu.level = "irq" => p # "run",
             UNCHANGED <<cpu, next, prev, current, esp0, context>>,
             interruptFlag' = (cpu.level = "thread"), inService' = {}
      PROVE  IInv'
  <2> DEFINE f == [Here EXCEPT !.pc = p]
  <2>1. f \in Frame /\ f.pc = p
    BY <1>0 DEF Frame, Points
  <2>2. Become(f)
    BY <1>g DEF Goto
  <2>3. esp0' \in {NoThread, cpu.stack}
    BY <1>g, <1>v DEF InSwitch, At
  <2> HIDE DEF f
  <2> QED
    BY <1>g, <1>v, <1>s, <2>1, <2>2, <2>3 DEF Interruptible, Handling, Fetched,
       Leaving
(* An interrupt or exception enters the handler level of the stack in use. *)
<1>e. ASSUME NEW f \in Frame, Put(cpu.stack, "irq", f),
             cpu.level = "thread", Here.pc \in Interruptible,
             interruptFlag' = FALSE, cpu' = [cpu EXCEPT !.level = "irq"],
             UNCHANGED <<current, next, prev, context, esp0>>,
             \/ f.pc = "ack" /\ f.int_no \in Irqs /\ inService' = Lines(f.int_no)
             \/ f.pc = "halt" /\ inService' = {}
      PROVE  IInv'
  <2> DEFINE s == cpu.stack
  <2>1. frame[s]["thread"].pc \in Interruptible
    BY <1>e, <1>0
  <2>4. current = s /\ esp0 \in {NoThread, s}
    BY <1>e, <1>v DEF InSwitch, At, Interruptible
  <2> HIDE DEF s
  <2>5. /\ frame'[s]["irq"] = f
        /\ \A u \in Threads, k \in Levels :
             u # s \/ k # "irq" => frame'[u][k] = frame[u][k]
    BY <1>0, <1>e, PutOne DEF s
  <2>6. RunList' = RunList /\ Here' = f /\ cpu'.stack = s /\ cpu'.level = "irq"
    BY <1>0, <1>e, <2>5, RunListSame DEF Here, s
  <2>7. OnCpu'
    BY <1>0, <1>e, <2>1, <2>5, <2>6 DEF OnCpu, OnStack, FlagFollowsLevel,
       Handling, s
  <2>8. Suspended'
    <3> SUFFICES ASSUME NEW t \in RunList \ {s}
                 PROVE  YieldedOrNew(t)' \/ Preempted(t)'
      BY <2>6 DEF Suspended
    <3>1. /\ frame'[t]["thread"] = frame[t]["thread"]
          /\ frame'[t]["irq"] = frame[t]["irq"]
          /\ context'[t] = context[t]
      BY <1>0, <1>e, <2>5
    <3>2. YieldedOrNew(t) \/ Preempted(t)
      BY DEF IInv, Suspended, s
    <3> QED
      BY <3>1, <3>2 DEF YieldedOrNew, Preempted
  <2>9. Locals'
    <3> SUFFICES ASSUME NEW t \in RunList, NEW l \in Levels
                 PROVE  /\ frame'[t][l].pc \in Fetched => frame'[t][l].next = next[t]
                        /\ frame'[t][l].pc \in Leaving =>
                             frame'[t][l].prev = t /\ next[t] # t
      BY <1>e, <2>6 DEF Locals
    <3>1. CASE t = s /\ l = "irq"
      BY <3>1, <1>e, <2>5 DEF Fetched, Leaving
    <3>2. CASE ~(t = s /\ l = "irq")
      BY <3>2, <1>0, <2>5 DEF IInv, Locals
    <3> QED
      BY <3>1, <3>2
  <2>10. Globals' /\ Acked' /\ Booting'
    BY <1>e, <2>4, <2>6 DEF Globals, Acked, Booting, At, InSwitch
  <2> QED
    BY <1>b, <2>7, <2>8, <2>9, <2>10 DEF IInv
<1>1. ASSUME NEW t \in Threads, KernelThread(t) PROVE IInv'
  <2>1. /\ cpu = [stack |-> Idle, level |-> "thread"] /\ Here.pc = "boot"
        /\ \A u \in RunList : frame[u]["thread"].pc \in {"run", "boot"}
                              /\ frame[u]["irq"].pc = "none"
        /\ \A u \in RunList \ {Idle} : frame[u]["thread"].pc = "run"
    BY <1>1, <1>0 DEF KernelThread, At, IInv, OnCpu, OnStack, FlagFollowsLevel,
       Booting
  <2>2. /\ t \notin RunList /\ t # Idle /\ RunList' = RunList \cup {t}
    BY <1>1, <1>0, LinkNewRing DEF KernelThread, IInv, Base
  <2>3. /\ frame'[t] = NewFrame("run") /\ context'[t] = NewContext(t)
        /\ \A u \in Threads \ {t} : frame'[u] = frame[u] /\ context'[u] = context[u]
    BY <1>1, <1>0 DEF KernelThread, Frames, IInv, Base, TypeOK
  <2>4. /\ frame'[t]["thread"].pc = "run" /\ frame'[t]["irq"].pc = "none"
        /\ UNCHANGED <<current, esp0, interruptFlag, cpu, inService>>
    BY <1>1, <1>0, <2>3 DEF NewFrame, KernelThread, pic
  <2>5. Here' = Here
    BY <1>0, <2>1, <2>2, <2>3, <2>4 DEF Here
  <2>6. OnCpu'
    BY <1>0, <2>1, <2>2, <2>3, <2>4, <2>5 DEF IInv, OnCpu, OnStack,
       FlagFollowsLevel, At
  <2>7. Suspended'
    <3> SUFFICES ASSUME NEW u \in (RunList \cup {t}) \ {Idle}
                 PROVE  YieldedOrNew(u)'
      BY <2>1, <2>2, <2>4 DEF Suspended
    <3>1. CASE u = t
      BY <3>1, <2>3, <2>4 DEF YieldedOrNew, NewContext
    <3>2. CASE u # t
      <4>1. YieldedOrNew(u)
        BY <3>2, <2>1 DEF IInv, Suspended, Preempted
      <4> QED
        BY <4>1, <3>2, <2>3, <1>0 DEF YieldedOrNew
    <3> QED
      BY <3>1, <3>2
  <2>8. \A u \in RunList', l \in Levels : frame'[u][l].pc \in {"run", "boot", "none"}
    BY <1>0, <2>1, <2>2, <2>3, <2>4 DEF Levels
  <2>9. Locals'
    BY <2>8 DEF Locals, Fetched, Leaving
  <2>10. Globals' /\ Acked'
    BY <1>v, <2>1, <2>4, <2>5 DEF Globals, Acked, At, InSwitch
  <2>11. Booting'
    BY <1>0, <2>1, <2>2, <2>3, <2>4 DEF Booting
  <2> QED
    BY <1>b, <2>6, <2>7, <2>9, <2>10, <2>11 DEF IInv
<1>2. CASE Sti
  <2>1. Here.pc = "boot" /\ cpu.level = "thread" /\ ~InSwitch
    BY <1>2 DEF Sti, At, IInv, Booting, InSwitch
  <2> QED
    BY <1>2, <1>g, <1>v, <2>1 DEF Sti, pic
<1>3. CASE CallSchedule
  BY <1>3, <1>g, <1>c, <1>v DEF CallSchedule, At, InSwitch, pic, Handling
<1>4. CASE ReadNext
  <2> DEFINE f == [Here EXCEPT !.next = next[current], !.pc = "test"]
  <2>1. current = cpu.stack /\ esp0 \in {NoThread, cpu.stack}
    BY <1>4, <1>v DEF ReadNext, At, InSwitch
  <2>2. f \in Frame /\ f.pc = "test" /\ f.next = next[cpu.stack]
    BY <1>0, <2>1 DEF Frame, Points
  <2>3. /\ Become(f) /\ Here.pc = "read"
        /\ UNCHANGED <<current, next, prev, context, esp0, interruptFlag, cpu, inService>>
    BY <1>4 DEF ReadNext, At, pic
  <2> HIDE DEF f
  <2> QED
    BY <1>c, <1>v, <1>s, <2>1, <2>2, <2>3 DEF Interruptible, Handling, Leaving
<1>5. CASE TestNext
  <2>1. /\ Here.pc = "test" /\ ~InSwitch
        /\ UNCHANGED <<current, next, prev, context, esp0, interruptFlag, cpu, inService>>
    BY <1>5 DEF TestNext, At, InSwitch, pic
  <2>2. CASE Goto(ReturnPoint(cpu.level))
    BY <1>0, <1>c, <1>v, <1>g, <2>1, <2>2 DEF ReturnPoint
  <2>3. CASE ~Goto(ReturnPoint(cpu.level))
    <3> DEFINE f == [Here EXCEPT !.prev = current, !.pc = "set"]
    <3>1. current # Here.next /\ Become(f)
      BY <1>5, <2>3 DEF TestNext
    <3>2. /\ current = cpu.stack /\ esp0 \in {NoThread, cpu.stack}
          /\ Here.next = next[cpu.stack]
      BY <1>l, <1>v, <2>1 DEF At, InSwitch, Fetched
    <3>3. /\ f \in Frame /\ f.pc = "set" /\ f.next = next[cpu.stack]
          /\ f.prev = cpu.stack
      BY <1>0, <3>2 DEF Frame, Points
    <3> HIDE DEF f
    <3> QED
      BY <1>c, <1>v, <1>s, <2>1, <3>1, <3>2, <3>3 DEF Interruptible, Handling
  <2> QED
    BY <2>2, <2>3
<1>6. CASE SetCurrent
  <2> DEFINE f == [Here EXCEPT !.pc = "save"]
  <2>1. /\ Become(f) /\ Here.pc = "set" /\ current' = Here.next
        /\ UNCHANGED <<next, prev, context, esp0, interruptFlag, cpu, inService>>
    BY <1>6 DEF SetCurrent, At, Goto, pic
  <2>2. /\ f \in Frame /\ f.pc = "save" /\ f.next = next[cpu.stack]
        /\ f.prev = cpu.stack /\ next[cpu.stack] # cpu.stack
        /\ current' = next[cpu.stack] /\ esp0 \in {NoThread, cpu.stack}
    BY <1>0, <1>l, <1>v, <2>1 DEF Frame, Points, Fetched, Leaving, At
  <2> HIDE DEF f
  <2> QED
    BY <1>c, <1>v, <1>s, <2>1, <2>2 DEF Handling
<1>7. CASE SaveContext
  <2> DEFINE f == [Here EXCEPT !.next = current, !.pc = "restore"]
  <2>1. /\ Become(f) /\ Here.pc = "save" /\ esp0' = Here.next
        /\ context' = [context EXCEPT ![Here.prev] = SavedContext]
        /\ UNCHANGED <<current, next, prev, interruptFlag, cpu, inService>>
    BY <1>7 DEF SaveContext, Outgoing, At, pic
  <2>2. /\ Here.prev = cpu.stack /\ next[cpu.stack] # cpu.stack
        /\ current = next[cpu.stack] /\ esp0' = next[cpu.stack]
    BY <1>l, <1>v, <2>1 DEF Fetched, Leaving, InSwitch, At
  <2>3. f \in Frame /\ f.pc = "restore" /\ f.next = current /\ f.prev = cpu.stack
    BY <1>0, <2>2 DEF Frame, Points
  <2>4. interruptFlag = (cpu.level = "thread")
    BY <1>c, <2>1
  <2>5. /\ context'[cpu.stack].stack = cpu.stack
        /\ context'[cpu.stack].level = cpu.level
        /\ context'[cpu.stack].flag = (cpu.level = "thread")
        /\ \A t \in RunList \ {cpu.stack} : context'[t] = context[t]
    BY <1>0, <2>1, <2>2, <2>4 DEF SavedContext, IInv, Base, TypeOK
  <2> HIDE DEF f
  <2> QED
    BY <1>v, <1>s, <2>1, <2>2, <2>3, <2>4, <2>5 DEF Handling
<1>8. CASE RestoreContext
  <2> DEFINE s == cpu.stack
             n == next[cpu.stack]
             c == context[n]
             f == [frame[n][c.level] EXCEPT !.pc = ReturnPoint(c.level)]
  <2>1. /\ Here.pc = "restore" /\ Here.next = n /\ n # s /\ n \in RunList \ {s}
        /\ current = n /\ esp0 \in {NoThread, n}
        /\ context[s].stack = s /\ context[s].level = cpu.level
        /\ context[s].flag = (cpu.level = "thread")
    BY <1>8, <1>0, <1>l, <1>v
    DEF RestoreContext, IInv, Globals, At, InSwitch, Fetched, Leaving
  <2>2. /\ cpu' = [stack |-> c.stack, level |-> c.level] /\ interruptFlag' = c.flag
        /\ Put(c.stack, c.level, [frame[c.stack][c.level] EXCEPT !.pc = ReturnPoint(c.level)])
        /\ UNCHANGED <<current, next, prev, context, esp0, inService>>
    BY <1>8, <2>1 DEF RestoreContext, pic
  <2>3. YieldedOrNew(n) \/ Preempted(n)
    BY <2>1 DEF IInv, Suspended
  <2>4. /\ c.stack = n /\ c.level \in Levels /\ c.flag = (c.level = "thread")
        /\ c.level = "thread" => frame[n]["irq"].pc = "none"
        /\ c.level = "irq" => frame[n]["thread"].pc \in Interruptible
    <3>1. CASE YieldedOrNew(n)
      BY <3>1 DEF YieldedOrNew, Levels
    <3>2. CASE Preempted(n)
      BY <3>2 DEF Preempted, Levels
    <3> QED
      BY <2>3, <3>1, <3>2
  <2>5. f \in Frame /\ f.pc = ReturnPoint(c.level) /\ f.pc \in {"run", "iret"}
    <3>1. frame[n][c.level] \in Frame /\ ReturnPoint(c.level) \in {"run", "iret"}
      BY <1>0, <2>1, <2>4 DEF Frames, ReturnPoint
    <3> QED
      BY <3>1 DEF Frame, Points
  <2>6. /\ Put(n, c.level, f) /\ cpu' = [stack |-> n, level |-> c.level]
    BY <2>2, <2>4
  <2> HIDE DEF c, f, s
  <2>7. /\ frame'[n][c.level] = f
        /\ \A u \in Threads, k \in Levels :
             u # n \/ k # c.level => frame'[u][k] = frame[u][k]
    BY <1>0, <2>1, <2>4, <2>5, <2>6, PutOne
  <2>8. RunList' = RunList /\ Here' = f /\ cpu'.stack = n /\ cpu'.level = c.level
    BY <2>2, <2>6, <2>7, RunListSame DEF Here
  <2>9. OnCpu'
    <3>1. CASE c.level = "thread"
      BY <3>1, <1>0, <2>1, <2>2, <2>4, <2>5, <2>7, <2>8
      DEF OnCpu, OnStack, FlagFollowsLevel, At, Interruptible, ReturnPoint
    <3>2. CASE c.level = "irq"
      BY <3>2, <1>0, <2>1, <2>2, <2>4, <2>5, <2>7, <2>8
      DEF OnCpu, OnStack, FlagFollowsLevel, At, Handling, ReturnPoint
    <3> QED
      BY <3>1, <3>2, <2>4 DEF Levels
  <2>10. Suspended'
    <3> SUFFICES ASSUME NEW t \in RunList \ {n}
                 PROVE  YieldedOrNew(t)' \/ Preempted(t)'
      BY <2>8 DEF Suspended
    <3>1. /\ frame'[t]["thread"] = frame[t]["thread"]
          /\ frame'[t]["irq"] = frame[t]["irq"]
          /\ context'[t] = context[t]
      BY <1>0, <2>2, <2>7
    <3>2. YieldedOrNew(t) \/ Preempted(t)
      <4>1. CASE t = s /\ cpu.level = "thread"
        BY <4>1, <1>0, <2>1 DEF YieldedOrNew, IInv, OnCpu, OnStack,
           FlagFollowsLevel, s
      <4>2. CASE t = s /\ cpu.level = "irq"
        BY <4>2, <1>0, <2>1 DEF Preempted, IInv, OnCpu, OnStack,
           FlagFollowsLevel, s
      <4>3. CASE t # s
        BY <4>3 DEF IInv, Suspended, s
      <4> QED
        BY <4>1, <4>2, <4>3, <1>0
    <3> QED
      BY <3>1, <3>2 DEF YieldedOrNew, Preempted
  <2>11. Locals'
    <3> SUFFICES ASSUME NEW t \in RunList, NEW l \in Levels
                 PROVE  /\ frame'[t][l].pc \in Fetched => frame'[t][l].next = next[t]
                        /\ frame'[t][l].pc \in Leaving =>
                             frame'[t][l].prev = t /\ next[t] # t
      BY <2>2, <2>8 DEF Locals
    <3>1. CASE t = n /\ l = c.level
      BY <3>1, <2>5, <2>7 DEF Fetched, Leaving
    <3>2. CASE ~(t = n /\ l = c.level)
      BY <3>2, <1>0, <2>7 DEF IInv, Locals
    <3> QED
      BY <3>1, <3>2
  <2>12. Globals' /\ Acked' /\ Booting'
    BY <1>v, <2>1, <2>2, <2>5, <2>8 DEF Globals, Acked, Booting, At, InSwitch
  <2> QED
    BY <1>b, <2>9, <2>10, <2>11, <2>12 DEF IInv
<1>9. ASSUME NEW n \in Irqs, TakeInterrupt(n) PROVE IInv'
  <2> DEFINE f == Handler("ack", n)
  <2>1. cpu.level = "thread" /\ Here.pc \in Interruptible
    BY <1>9, <1>0, <1>c DEF TakeInterrupt, EnterHandler, InSwitch
  <2>2. /\ interruptFlag' = FALSE /\ cpu' = [cpu EXCEPT !.level = "irq"]
        /\ Put(cpu.stack, "irq", f) /\ inService' = inService \cup Lines(n)
        /\ UNCHANGED <<current, next, prev, context, esp0>>
    BY <1>9 DEF TakeInterrupt, EnterHandler, Acknowledge
  <2>3. f \in Frame /\ f.pc = "ack" /\ f.int_no = n
    BY DEF Frame, Handler, Points
  <2>4. inService = {}
    BY <1>v, <2>1 DEF Interruptible
  <2> HIDE DEF f
  <2> QED
    BY <1>e, <2>1, <2>2, <2>3, <2>4
<1>14. CASE ThreadReturns
  <2> DEFINE f == Handler("halt", 0)
  <2>1. cpu.level = "thread" /\ Here.pc \in Interruptible
    BY <1>14 DEF ThreadReturns, EnterHandler, At, Interruptible
  <2>2. /\ interruptFlag' = FALSE /\ cpu' = [cpu EXCEPT !.level = "irq"]
        /\ Put(cpu.stack, "irq", f)
        /\ UNCHANGED <<current, next, prev, context, esp0, inService>>
    BY <1>14 DEF ThreadReturns, EnterHandler, pic
  <2>3. f \in Frame /\ f.pc = "halt"
    BY DEF Frame, Handler, Points
  <2>4. inService = {}
    BY <1>v, <2>1 DEF Interruptible
  <2> HIDE DEF f
  <2> QED
    BY <1>e, <2>1, <2>2, <2>3, <2>4
<1>10. CASE AckInterrupt
  <2>1. Here.pc = "ack" /\ Here.int_no \in Irqs /\ inService' = {}
    BY <1>10, <1>v, EndOfInterruptClears DEF AckInterrupt, At
  <2>2. cpu.level = "irq" /\ ~InSwitch
    BY <2>1, <1>0, <1>c DEF InSwitch, Interruptible
  <2> QED
    BY <1>10, <1>g, <1>c, <2>1, <2>2 DEF AckInterrupt
<1>11. CASE Dispatch
  <2>1. Here.pc = "dispatch" /\ inService' = {}
    BY <1>11, <1>v DEF Dispatch, At, pic
  <2>2. cpu.level = "irq" /\ ~InSwitch
    BY <2>1, <1>0, <1>c DEF InSwitch, Interruptible
  <2> QED
    BY <1>11, <1>g, <1>c, <2>1, <2>2 DEF Dispatch
<1>12. CASE ReturnFromInterrupt
  <2> DEFINE s == cpu.stack
             f == [Here EXCEPT !.pc = "none"]
  <2>1. /\ Here.pc = "iret" /\ cpu.level = "irq" /\ ~InSwitch
        /\ frame[s]["thread"].pc \in Interruptible
    BY <1>12, <1>0, <1>c DEF ReturnFromInterrupt, InSwitch, At, Interruptible,
       IInv, OnCpu, OnStack, FlagFollowsLevel
  <2>2. /\ interruptFlag' = TRUE /\ cpu' = [cpu EXCEPT !.level = "thread"]
        /\ Put(s, "irq", f)
        /\ UNCHANGED <<current, next, prev, context, esp0, inService>>
    BY <1>12, <2>1 DEF ReturnFromInterrupt, Goto, Become, pic
  <2>3. f \in Frame /\ f.pc = "none"
    BY <1>0 DEF Frame, Points
  <2>4. /\ current = s /\ esp0 \in {NoThread, s} /\ inService = {}
    BY <1>v, <2>1 DEF InSwitch, At
  <2> HIDE DEF f, s
  <2>5. /\ frame'[s]["irq"] = f
        /\ \A u \in Threads, k \in Levels :
             u # s \/ k # "irq" => frame'[u][k] = frame[u][k]
    BY <1>0, <2>2, <2>3, PutOne DEF s
  <2>6. /\ RunList' = RunList /\ Here' = frame[s]["thread"]
        /\ cpu'.stack = s /\ cpu'.level = "thread"
    BY <1>0, <2>2, <2>5, RunListSame DEF Here, s
  <2>7. OnCpu'
    BY <1>0, <2>1, <2>2, <2>3, <2>5, <2>6 DEF OnCpu, OnStack, FlagFollowsLevel,
       At, Interruptible, s
  <2>8. Suspended'
    <3> SUFFICES ASSUME NEW t \in RunList \ {s}
                 PROVE  YieldedOrNew(t)' \/ Preempted(t)'
      BY <2>6 DEF Suspended
    <3>1. /\ frame'[t]["thread"] = frame[t]["thread"]
          /\ frame'[t]["irq"] = frame[t]["irq"]
          /\ context'[t] = context[t]
      BY <1>0, <2>2, <2>5
    <3>2. YieldedOrNew(t) \/ Preempted(t)
      BY DEF IInv, Suspended, s
    <3> QED
      BY <3>1, <3>2 DEF YieldedOrNew, Preempted
  <2>9. Locals'
    <3> SUFFICES ASSUME NEW t \in RunList, NEW l \in Levels
                 PROVE  /\ frame'[t][l].pc \in Fetched => frame'[t][l].next = next[t]
                        /\ frame'[t][l].pc \in Leaving =>
                             frame'[t][l].prev = t /\ next[t] # t
      BY <2>2, <2>6 DEF Locals
    <3>1. CASE t = s /\ l = "irq"
      BY <3>1, <2>3, <2>5 DEF Fetched, Leaving
    <3>2. CASE ~(t = s /\ l = "irq")
      BY <3>2, <1>0, <2>5 DEF IInv, Locals
    <3> QED
      BY <3>1, <3>2
  <2>10. Globals' /\ Acked' /\ Booting'
    BY <2>1, <2>2, <2>4, <2>6 DEF Globals, Acked, Booting, At, InSwitch,
       Interruptible
  <2> QED
    BY <1>b, <2>7, <2>8, <2>9, <2>10 DEF IInv
<1>13. CASE UNCHANGED <<schedVars, inService>>
  <2>1. RunList' = RunList /\ Here' = Here
    BY <1>13, RunListSame DEF schedVars, Here
  <2>2. OnCpu' /\ Suspended' /\ Locals'
    BY <1>13, <2>1 DEF schedVars, IInv, OnCpu, OnStack, FlagFollowsLevel,
       Suspended, YieldedOrNew, Preempted,
      Locals, At
  <2>3. Globals' /\ Booting' /\ Acked'
    BY <1>13, <2>1 DEF schedVars, IInv, Globals, Booting, Acked, At, InSwitch
  <2> QED
    BY <1>b, <2>2, <2>3 DEF IInv
<1> QED
  BY <1>1, <1>2, <1>3, <1>4, <1>5, <1>6, <1>7, <1>8, <1>9, <1>10, <1>11,
     <1>12, <1>13, <1>14
  DEF Next, CpuStep, ScheduleStep, DeviceRequest, Raise, vars, pic

-----------------------------------------------------------------------------
(* What the invariant gives.                                               *)

LEMMA IInvInvariant == ASSUME QuietSwitch PROVE Spec => []IInv
  BY IInvInit, IInvNext, PTL DEF Spec

(* A thread that is off the CPU can be resumed where it left off, on its   *)
(* own stack, with the flags it had: no switch ever saves one thread's     *)
(* state in the PCB of another.                                            *)
THEOREM ContextsStayIntact == ASSUME QuietSwitch PROVE Spec => []ContextsIntact
<1>1. IInv => ContextsIntact
  <2> SUFFICES ASSUME IInv, NEW t \in RunList \ {cpu.stack}
               PROVE  /\ context[t].stack = t
                      /\ context[t].flag = (context[t].level = "thread")
                      /\ frame[t][context[t].level].pc \in {"run", "restore"}
                      /\ (context[t].level = "thread") = (frame[t]["irq"].pc = "none")
    BY DEF ContextsIntact
  <2>1. CASE YieldedOrNew(t)
    BY <2>1 DEF YieldedOrNew
  <2>2. CASE Preempted(t)
    BY <2>2 DEF Preempted
  <2> QED
    BY <2>1, <2>2 DEF IInv, Suspended
<1> QED
  BY <1>1, IInvInvariant, PTL

(* Outside the switch, current is the thread whose stack the CPU is on.    *)
THEOREM CurrentAlwaysOwnsCpu == ASSUME QuietSwitch PROVE Spec => []CurrentOwnsCpu
<1>1. IInv => CurrentOwnsCpu
  BY DEF IInv, Globals, CurrentOwnsCpu, InSwitch, At
<1> QED
  BY <1>1, IInvInvariant, PTL

(* Threads run with interrupts on and handlers with interrupts off.        *)
THEOREM FlagAlwaysFollowsLevel == ASSUME QuietSwitch PROVE Spec => []FlagFollowsLevel
<1>1. IInv => FlagFollowsLevel
  BY DEF IInv, OnCpu, OnStack, FlagFollowsLevel
<1> QED
  BY <1>1, IInvInvariant, PTL

(* No thread runs while an interrupt is still in service.                  *)
THEOREM InterruptsAlwaysAcked == ASSUME QuietSwitch PROVE Spec => []InterruptsAcked
<1>1. IInv => InterruptsAcked
  BY DEF IInv, OnCpu, OnStack, FlagFollowsLevel, Acked, InterruptsAcked,
     Interruptible, At, Here
<1> QED
  BY <1>1, IInvInvariant, PTL

-----------------------------------------------------------------------------
(* The scheduler implements RoundRobin: kernel_thread() admits a thread,   *)
(* the loading half of switch_to() hands the CPU on, and every other step  *)
(* leaves the ring and its holder as they are.                             *)

LEMMA RoundRobinInit == Init => RR!Init
<1> SUFFICES ASSUME Init PROVE RR!Init
  OBVIOUS
<1> USE SchedulerAssumption DEF Init
<1>1. RunList = {Idle}
  BY DEF RunList
<1>2. ~At("halt")
  <2>1. frame[Idle]["thread"].pc = "boot"
    BY DEF NewFrame, Levels
  <2> QED
    BY <2>1 DEF At, Here
<1> QED
  BY <1>1, <1>2 DEF RR!Init

(* Only a thread function that returns stops the CPU, and nothing starts   *)
(* it again.                                                               *)
LEMMA HaltKept ==
  ASSUME IInv, IInv', [Next]_vars, ~ThreadReturns
  PROVE  At("halt")' = At("halt")
<1> USE DEF At
<1>0. /\ Base /\ frame \in Frames /\ Here \in Frame
      /\ cpu.stack \in Threads /\ cpu.level \in Levels
  BY TypedState DEF IInv
<1>1. Here.pc = "halt" => cpu.level = "irq"
  BY <1>0, TypedState DEF IInv, OnCpu, OnStack, Interruptible, Levels
<1>2. Here'.pc = "halt" => cpu'.level = "irq"
  <2>1. Base' /\ cpu'.level \in Levels /\ Here' = frame'[cpu'.stack][cpu'.level]
    BY DEF IInv, Base, TypeOK, Here
  <2> QED
    BY <2>1 DEF IInv, OnCpu, OnStack, Interruptible, Levels
<1>3. ASSUME NEW f \in Frame, Become(f), UNCHANGED cpu PROVE Here' = f
  BY <1>0, <1>3, PutOne DEF Become, Here
<1>4. ASSUME NEW p \in Points, Goto(p), UNCHANGED cpu PROVE Here'.pc = p
  <2> DEFINE f == [Here EXCEPT !.pc = p]
  <2>1. f \in Frame /\ f.pc = p
    BY <1>0 DEF Frame
  <2>2. Become(f)
    BY <1>4 DEF Goto
  <2> HIDE DEF f
  <2>3. Here' = f
    BY <1>3, <1>4, <2>1, <2>2
  <2> QED
    BY <2>1, <2>3
<1>5. ASSUME NEW t \in Threads, KernelThread(t) PROVE Here'.pc = Here.pc
  <2>1. t # cpu.stack /\ UNCHANGED cpu
    BY <1>5 DEF KernelThread, IInv, OnCpu, OnStack
  <2> QED
    BY <1>0, <1>5, <2>1 DEF KernelThread, Here, Frames
<1>6. CASE Sti \/ CallSchedule
  BY <1>6, <1>4 DEF Sti, CallSchedule, Points
<1>7. CASE ReadNext \/ TestNext
  <2> DEFINE f == [Here EXCEPT !.next = next[current], !.pc = "test"]
             g == [Here EXCEPT !.prev = current, !.pc = "set"]
  <2>1. next[current] \in Threads \cup {NoThread} /\ current \in Threads
    BY <1>0 DEF Base, TypeOK
  <2>p. "test" \in Points /\ "set" \in Points
    BY DEF Points
  <2>f. f \in Frame /\ f.pc = "test"
    BY <1>0, <2>1, <2>p DEF Frame
  <2>g. g \in Frame /\ g.pc = "set"
    BY <1>0, <2>1, <2>p DEF Frame
  <2>2. f \in Frame /\ f.pc = "test" /\ g \in Frame /\ g.pc = "set"
    BY <2>f, <2>g
  <2>3. ReturnPoint(cpu.level) \in {"run", "iret"}
    BY DEF ReturnPoint
  <2>4. /\ UNCHANGED cpu /\ Here.pc \in {"read", "test"}
        /\ Become(f) \/ Become(g) \/ Goto(ReturnPoint(cpu.level))
    BY <1>7 DEF ReadNext, TestNext
  <2> HIDE DEF f, g
  <2> QED
    BY <1>3, <1>4, <2>2, <2>3, <2>4 DEF Points
<1>8. CASE SetCurrent \/ SaveContext
  <2> DEFINE f == [Here EXCEPT !.next = current, !.pc = "restore"]
  <2>1. current \in Threads \cup {NoThread}
    BY <1>0 DEF Base, TypeOK
  <2>p. "restore" \in Points
    BY DEF Points
  <2>2. f \in Frame /\ f.pc = "restore"
    BY <1>0, <2>1, <2>p DEF Frame
  <2>3. /\ UNCHANGED cpu /\ Here.pc \in {"set", "save"}
        /\ Become(f) \/ Goto("save")
    BY <1>8 DEF SetCurrent, SaveContext
  <2> HIDE DEF f
  <2> QED
    BY <1>3, <1>4, <2>2, <2>3 DEF Points
<1>9. CASE RestoreContext
  <2> DEFINE c == context[Here.next]
             g == [frame[c.stack][c.level] EXCEPT !.pc = ReturnPoint(c.level)]
  <2>1. Here.pc = "restore" /\ cpu.stack \in RunList
    BY <1>9 DEF RestoreContext, IInv, OnCpu, OnStack
  <2>2. Here.next \in RunList \ {cpu.stack}
    BY <2>1, <1>0, TypedState DEF IInv, Locals, Fetched, Leaving, Base, OneRing
  <2>3. c.stack \in Threads /\ c.level \in Levels
    BY <2>2, <1>0, TypedState DEF IInv, Suspended, YieldedOrNew, Preempted, Levels
  <2>4. Put(c.stack, c.level, g) /\ cpu' = [stack |-> c.stack, level |-> c.level]
    BY <1>9 DEF RestoreContext
  <2>5. ReturnPoint(c.level) \in Points \ {"halt"} /\ frame[c.stack][c.level] \in Frame
    BY <1>0, <2>3 DEF ReturnPoint, Points, Frames
  <2>6. g \in Frame /\ g.pc # "halt"
    BY <2>5, PcUpdate
  <2> HIDE DEF c, g
  <2>7. Here' = g
    BY <1>0, <2>3, <2>4, <2>6, PutOne DEF Here
  <2> QED
    BY <2>1, <2>6, <2>7
<1>10. ASSUME NEW n \in Irqs, TakeInterrupt(n) PROVE Here.pc # "halt" /\ Here'.pc # "halt"
  <2> DEFINE f == Handler("ack", n)
  <2>1. cpu.level = "thread" /\ cpu' = [cpu EXCEPT !.level = "irq"]
        /\ Put(cpu.stack, "irq", f)
    BY <1>10 DEF TakeInterrupt, EnterHandler
  <2>2. f \in Frame /\ f.pc = "ack" /\ "irq" \in Levels
    BY SchedulerAssumption DEF Handler, Frame, Points, Levels
  <2> HIDE DEF f
  <2>3. Here' = f
    BY <1>0, <2>1, <2>2, PutOne, TypedState DEF Here
  <2> QED
    BY <1>1, <2>1, <2>2, <2>3
<1>11. CASE AckInterrupt \/ Dispatch
  BY <1>11, <1>4 DEF AckInterrupt, Dispatch, Points
<1>12. CASE ReturnFromInterrupt
  <2>1. Here.pc = "iret" /\ cpu'.level = "thread"
    BY <1>12, <1>0, TypedState DEF ReturnFromInterrupt
  <2> QED
    BY <2>1, <1>2
<1>13. ASSUME UNCHANGED <<frame, cpu>> PROVE Here'.pc = Here.pc
  BY <1>13 DEF Here
<1> QED
  BY <1>5, <1>6, <1>7, <1>8, <1>9, <1>10, <1>11, <1>12, <1>13
  DEF Next, CpuStep, ScheduleStep, DeviceRequest, vars, schedVars

LEMMA RoundRobinNext ==
  ASSUME QuietSwitch, IInv, IInv', [Next]_vars
  PROVE  [RR!Next]_(RR!vars)
<1> USE DEF RR!vars
<1>0. TypeOK /\ OneRing /\ Idle \in RunList /\ RunList \subseteq Threads
  BY TypedState DEF IInv, Base, Live
<1>1. ASSUME NEW t \in Threads, KernelThread(t) PROVE RR!Admit(t)
  <2>1. t \notin RunList /\ RunList' = RunList \cup {t} /\ LinkNew(t)
    BY <1>1, <1>0, LinkNewRing DEF KernelThread
  <2>2. prev[Idle] \in RunList /\ next[prev[Idle]] = Idle
    BY <1>0 DEF OneRing
  <2>3. next' = [next EXCEPT ![t] = Idle, ![prev[Idle]] = t]
    BY <2>1 DEF LinkNew, RunHead
  <2>4. [u \in RunList' |-> next'[u]] =
          [u \in RunList \cup {t} |->
             IF u = t THEN Idle ELSE IF u = prev[Idle] THEN t ELSE next[u]]
    BY <1>0, <2>1, <2>2, <2>3 DEF TypeOK
  <2>5. ~ThreadReturns
    BY <1>1 DEF KernelThread, ThreadReturns, At
  <2>6. At("halt")' = At("halt")
    BY <2>5, HaltKept
  <2> QED
    BY <1>1, <1>0, <2>1, <2>2, <2>4, <2>6 DEF RR!Admit, KernelThread
<1>2. CASE RestoreContext
  <2>1. Here.pc = "restore" /\ cpu.stack \in RunList /\ cpu.level \in Levels
    BY <1>2, TypedState DEF RestoreContext, At, IInv, OnCpu, OnStack,
       FlagFollowsLevel
  <2>2. Here.next = next[cpu.stack] /\ next[cpu.stack] \in RunList \ {cpu.stack}
    BY <2>1, <1>0, TypedState DEF IInv, Locals, Fetched, Leaving
  <2>3. context[next[cpu.stack]].stack = next[cpu.stack]
    BY <2>2 DEF IInv, Suspended, YieldedOrNew, Preempted
  <2>4. cpu'.stack = next[cpu.stack] /\ UNCHANGED <<next, prev>>
    BY <1>2, <2>2, <2>3 DEF RestoreContext
  <2>5. RunList' = RunList
    BY <2>4, RunListSame
  <2>6. ~ThreadReturns /\ ~At("halt")
    BY <2>1 DEF ThreadReturns, At
  <2>7. At("halt")' = At("halt")
    BY <2>6, HaltKept
  <2> QED
    BY <2>1, <2>4, <2>5, <2>6, <2>7 DEF RR!Next, RR!HandOn
<1>4. CASE ThreadReturns
  <2> DEFINE f == Handler("halt", 0)
  <2>1. /\ Here.pc = "run" /\ cpu.stack \in Returning
        /\ cpu' = [cpu EXCEPT !.level = "irq"] /\ Put(cpu.stack, "irq", f)
        /\ UNCHANGED <<next, prev>>
    BY <1>4 DEF ThreadReturns, EnterHandler, At
  <2>2. f \in Frame /\ f.pc = "halt" /\ "irq" \in Levels
    BY DEF Handler, Frame, Points, Levels
  <2>3. frame \in Frames /\ cpu \in [stack : Threads, level : Levels]
    BY TypedState DEF IInv
  <2> HIDE DEF f
  <2>4. Here' = f /\ cpu'.stack = cpu.stack
    BY <2>1, <2>2, <2>3, PutOne DEF Here
  <2>5. RunList' = RunList
    BY <2>1, RunListSame
  <2> QED
    BY <2>1, <2>2, <2>4, <2>5 DEF RR!Next, RR!Stop, At
<1>3. CASE ~RestoreContext /\ ~ThreadReturns /\ \A t \in Threads : ~KernelThread(t)
  <2>1. cpu'.stack = cpu.stack
    BY <1>0, <1>3 DEF TypeOK, Next, CpuStep, ScheduleStep, Sti, CallSchedule,
       ReadNext,
      TestNext, SetCurrent, SaveContext, TakeInterrupt, AckInterrupt,
      Dispatch, ReturnFromInterrupt, DeviceRequest, ThreadReturns, EnterHandler, vars, schedVars
  <2>2. UNCHANGED <<next, prev>>
    BY <1>3, LinksKept
  <2>3. At("halt")' = At("halt")
    BY <1>3, HaltKept
  <2> QED
    BY <2>1, <2>2, <2>3, RunListSame
<1> QED
  BY <1>1, <1>2, <1>3, <1>4 DEF RR!Next

(* The CPU goes round the ring in order: whatever the interleaving of      *)
(* ticks, yields and device interrupts, only the successor of the thread   *)
(* on the CPU gets it.                                                     *)
THEOREM ServesTheRound == ASSUME QuietSwitch PROVE Spec => ServesInRoundOrderSafely
  BY IInvInvariant, RoundRobinInit, RoundRobinNext, PTL
  DEF Spec, ServesInRoundOrderSafely, RR!Spec
=============================================================================
