------------------------ MODULE KeyboardQueueProofs ------------------------
(***************************************************************************)
(* Theorems about KeyboardQueue, for a buffer of any size and any set of   *)
(* scan codes.                                                             *)
(***************************************************************************)
EXTENDS KeyboardQueue, TLAPS

(* The critical section is what makes the pointers agree: inside it no     *)
(* interrupt is taken, and the register still holds count - 1 when it is   *)
(* stored.                                                                 *)
Critical ==
  /\ interruptFlag <=> pc \in {"wait", "cli"}
  /\ pc \in {"cli", "read", "advance", "load", "store"} => count > 0
  /\ pc = "store" => reg = count - 1

IInv == TypeOK /\ Critical /\ PointersAgree

Points == {"wait", "cli", "read", "advance", "load", "store", "sti"}

LEMMA WrapAround ==
  ASSUME NEW i \in Slots, NEW k \in 0 .. N
  PROVE  /\ Slot(i + k) \in Slots
         /\ Advance(i) \in Slots
         /\ k < N => Slot(i + (k + 1)) = Advance(Slot(i + k))
         /\ k > 0 => Slot(Advance(i) + (k - 1)) = Slot(i + k)
  BY QueueAssumption DEF Slots, Slot, Advance

LEMMA IInvInit == Init => IInv
<1> SUFFICES ASSUME Init PROVE IInv
  OBVIOUS
<1> USE QueueAssumption DEF Init, InitKeyboard
<1>1. 0 \in Slots /\ 0 \in 0 .. N /\ Slot(0 + 0) = 0
  BY DEF Slots, Slot
<1>2. TypeOK
  BY <1>1 DEF TypeOK
<1>3. PointersAgree
  BY <1>1 DEF PointersAgree, Oldest, Waiting
<1> QED
  BY <1>2, <1>3 DEF IInv, Critical

LEMMA IInvNext == IInv /\ [Next]_vars => IInv'
<1> SUFFICES ASSUME IInv, [Next]_vars PROVE IInv'
  OBVIOUS
<1> USE QueueAssumption DEF IInv, ring
<1>0. /\ TypeOK /\ N \in Nat \ {0} /\ head \in Slots /\ tail \in Slots
      /\ count \in 0 .. N /\ pc \in Points
  BY DEF TypeOK, Points
<1>a. /\ pc \in {"wait", "cli", "read", "sti"} => tail = Slot(head + count)
      /\ pc = "advance" => tail = Slot(Advance(head) + (count - 1))
      /\ pc \in {"load", "store"} => tail = Slot(head + (count - 1))
  BY DEF PointersAgree, Oldest, Waiting
<1>1. ASSUME NEW b \in Bytes, KeyEvent(b) PROVE IInv'
  BY <1>1 DEF KeyEvent, TypeOK, Critical, PointersAgree, Oldest, Waiting
<1>2. CASE keyboard_handler
  <2>1. CASE UNCHANGED ring
    BY <1>2, <2>1
    DEF keyboard_handler, Receive, TypeOK, Critical, PointersAgree, Oldest,
        Waiting
  <2>2. CASE count < N /\ Store(port)
    <3>1. pc \in {"wait", "cli"} /\ tail = Slot(head + count) /\ port \in Bytes
      BY <1>2, <1>0, <1>a DEF keyboard_handler, Receive, Critical, TypeOK
    <3>2. tail' = Slot(head + (count + 1)) /\ tail' \in Slots
      BY <1>0, <2>2, <3>1, WrapAround DEF Store
    <3>3. buff' \in [Slots -> Bytes] /\ count' = count + 1 /\ head' = head
      BY <1>0, <2>2, <3>1 DEF Store, TypeOK
    <3>4. TypeOK'
      BY <1>2, <1>0, <2>2, <3>1, <3>2, <3>3 DEF keyboard_handler, Receive, TypeOK
    <3>5. Critical'
      BY <1>2, <1>0, <3>1, <3>3 DEF keyboard_handler, Receive, Critical
    <3>6. PointersAgree'
      BY <1>2, <3>1, <3>2, <3>3 DEF keyboard_handler, Receive, PointersAgree,
         Oldest, Waiting
    <3> QED
      BY <3>4, <3>5, <3>6
  <2> QED
    BY <1>2, <2>1, <2>2 DEF keyboard_handler, Receive
<1>3. CASE Wait
  BY <1>3, <1>0, <1>a DEF Wait, TypeOK, Critical, PointersAgree, Oldest, Waiting
<1>4. CASE Cli
  BY <1>4, <1>0, <1>a DEF Cli, TypeOK, Critical, PointersAgree, Oldest, Waiting
<1>5. CASE ReadByte
  <2>1. /\ tail = Slot(head + count) /\ count > 0 /\ scan_code' \in Bytes
    BY <1>5, <1>0, <1>a DEF ReadByte, TypeOK, Critical
  <2>2. tail = Slot(Advance(head) + (count - 1))
    BY <1>0, <2>1, WrapAround
  <2> QED
    BY <1>5, <1>0, <2>1, <2>2 DEF ReadByte, TypeOK, Critical, PointersAgree,
       Oldest, Waiting
<1>6. CASE AdvanceHead
  <2>1. head' \in Slots
    BY <1>6, <1>0, 0 \in 0 .. N, WrapAround DEF AdvanceHead
  <2> QED
    BY <1>6, <1>0, <1>a, <2>1
    DEF AdvanceHead, TypeOK, Critical, PointersAgree, Oldest, Waiting
<1>7. CASE LoadCount
  BY <1>7, <1>0, <1>a DEF LoadCount, TypeOK, Critical, PointersAgree, Oldest,
     Waiting
<1>8. CASE StoreCount
  BY <1>8, <1>0, <1>a DEF StoreCount, TypeOK, Critical, PointersAgree, Oldest,
     Waiting
<1>9. CASE Sti
  BY <1>9, <1>0, <1>a DEF Sti, TypeOK, Critical, PointersAgree, Oldest, Waiting
<1>10. CASE UNCHANGED vars
  BY <1>10 DEF vars, TypeOK, Critical, PointersAgree, Oldest, Waiting
<1> QED
  BY <1>1, <1>2, <1>3, <1>4, <1>5, <1>6, <1>7, <1>8, <1>9, <1>10
  DEF Next, ReaderStep

LEMMA IInvInvariant == Spec => []IInv
  BY IInvInit, IInvNext, PTL DEF Spec

(* Pointers stay inside the buffer and the count inside its bounds.        *)
THEOREM TypeCorrect == Spec => []TypeOK
  BY IInvInvariant, PTL DEF IInv

(* head, tail and count agree at every instant, in the middle of           *)
(* get_byte_from_kbuf() as well.                                           *)
THEOREM PointersAlwaysAgree == Spec => []PointersAgree
  BY IInvInvariant, PTL DEF IInv

-----------------------------------------------------------------------------
(* The ring buffer implements ByteFifo: a byte enters the queue when the   *)
(* handler stores it and leaves it when the reader has read it; the        *)
(* handler drops one only when N are in the queue, because it never runs   *)
(* between the reader's load of the byte and its update of count; every    *)
(* other step of the reader leaves the queue as it was.                    *)

(* The queue read off a buffer, from slot s on.                            *)
Window(f, s, k) == [i \in 1 .. k |-> f[Slot(s + i - 1)]]

LEMMA WindowIsSeq ==
  ASSUME NEW f \in [Slots -> Bytes], NEW s \in Slots, NEW k \in 0 .. N
  PROVE  /\ Window(f, s, k) \in Seq(Bytes) /\ Len(Window(f, s, k)) = k
         /\ \A i \in 1 .. k : Slot(s + i - 1) \in Slots
<1>1. \A i \in 1 .. k : Slot(s + i - 1) \in Slots
  BY QueueAssumption DEF Slots, Slot
<1>2. Window(f, s, k) \in [1 .. k -> Bytes]
  BY <1>1 DEF Window
<1> QED
  BY <1>1, <1>2, QueueAssumption

LEMMA WindowTail ==
  ASSUME NEW f \in [Slots -> Bytes], NEW s \in Slots, NEW k \in 1 .. N
  PROVE  /\ Window(f, s, k) # << >>
         /\ Head(Window(f, s, k)) = f[s]
         /\ Tail(Window(f, s, k)) = Window(f, Advance(s), k - 1)
<1> DEFINE w == Window(f, s, k)
           v == Window(f, Advance(s), k - 1)
<1> USE QueueAssumption
<1>1. Advance(s) \in Slots /\ k - 1 \in 0 .. N /\ k \in 0 .. N
  BY WrapAround
<1>2. w \in Seq(Bytes) /\ Len(w) = k /\ v \in Seq(Bytes) /\ Len(v) = k - 1
  BY <1>1, WindowIsSeq
<1>3. w[1] = f[s]
  BY DEF Window, Slot, Slots
<1>4. \A i \in 1 .. k - 1 : v[i] = w[i + 1]
  <2> SUFFICES ASSUME NEW i \in 1 .. k - 1 PROVE v[i] = w[i + 1]
    OBVIOUS
  <2>1. Slot(Advance(s) + i - 1) = Slot(s + (i + 1) - 1)
    BY DEF Slot, Slots, Advance
  <2> QED
    BY <2>1 DEF Window
<1> HIDE DEF w, v
<1>5. w # << >> /\ Head(w) = w[1]
  BY <1>2
<1>6. Tail(w) \in Seq(Bytes) /\ Len(Tail(w)) = k - 1 /\ \A i \in 1 .. k - 1 : Tail(w)[i] = w[i + 1]
  BY <1>2
<1>7. Tail(w) = v
  BY <1>2, <1>4, <1>6
<1> QED
  BY <1>3, <1>5, <1>7 DEF w, v

LEMMA WindowAppend ==
  ASSUME NEW f \in [Slots -> Bytes], NEW s \in Slots, NEW k \in 0 .. N - 1,
  NEW b \in Bytes,
         NEW g \in [Slots -> Bytes], g[Slot(s + k)] = b,
         \A j \in Slots : j # Slot(s + k) => g[j] = f[j]
  PROVE  Append(Window(f, s, k), b) = Window(g, s, k + 1)
<1> DEFINE w == Window(f, s, k)
           v == Window(g, s, k + 1)
<1> USE QueueAssumption
<1>1. k \in 0 .. N /\ k + 1 \in 0 .. N /\ Slot(s + k) \in Slots
  BY WrapAround
<1>3. w \in Seq(Bytes) /\ Len(w) = k /\ v \in Seq(Bytes) /\ Len(v) = k + 1
  BY <1>1, WindowIsSeq
<1>4. \A i \in 1 .. k : v[i] = w[i]
  <2> SUFFICES ASSUME NEW i \in 1 .. k PROVE v[i] = w[i]
    OBVIOUS
  <2>1. Slot(s + i - 1) \in Slots /\ Slot(s + i - 1) # Slot(s + k)
    BY DEF Slot, Slots
  <2> QED
    BY <2>1 DEF Window
<1>5. v[k + 1] = b
  <2>1. s + (k + 1) - 1 = s + k
    BY DEF Slots
  <2> QED
    BY <1>1, <2>1 DEF Window
<1> HIDE DEF w, v
<1>6. Append(w, b) \in Seq(Bytes) /\ Len(Append(w, b)) = k + 1
      /\ Append(w, b)[k + 1] = b /\ \A i \in 1 .. k : Append(w, b)[i] = w[i]
  BY <1>3
<1>7. Append(w, b) = v
  BY <1>3, <1>4, <1>5, <1>6
<1> QED
  BY <1>7 DEF w, v

Queue == Window(buff, Oldest, Waiting)

LEMMA QueueTyped ==
  ASSUME IInv
  PROVE  /\ Oldest \in Slots /\ Waiting \in 0 .. N
         /\ Waiting = count \/ Waiting = count - 1
         /\ Queue \in Seq(Bytes) /\ Len(Queue) = Waiting
<1>1. Oldest \in Slots /\ Waiting \in 0 .. N /\ (Waiting = count \/ Waiting = count - 1)
  BY QueueAssumption, WrapAround, 0 \in 0 .. N
  DEF IInv, TypeOK, Critical, Oldest, Waiting
<1> QED
  BY <1>1, WindowIsSeq DEF Queue, IInv, TypeOK

LEMMA FifoInit == Init => Fifo!Init
<1> SUFFICES ASSUME Init PROVE Fifo!Init
  OBVIOUS
<1>1. IInv /\ Waiting = 0
  BY IInvInit DEF Init, InitKeyboard, Waiting
<1>2. Queue = << >>
  BY <1>1, QueueTyped
<1> QED
  BY <1>2, QueueAssumption DEF Fifo!Init, Queue, Window, Init, InitKeyboard

LEMMA FifoNext ==
  ASSUME IInv, [Next]_vars
  PROVE  [Fifo!Next]_(Fifo!vars)
<1> USE QueueAssumption DEF Fifo!vars
<1>0. /\ Oldest \in Slots /\ Waiting \in 0 .. N /\ buff \in [Slots -> Bytes]
      /\ count \in 0 .. N /\ head \in Slots
      /\ Queue \in Seq(Bytes) /\ Len(Queue) = Waiting
  BY QueueTyped DEF IInv, TypeOK
<1>q. ASSUME Queue' = Queue, scan_code' = scan_code, port' = port
      PROVE  UNCHANGED Fifo!vars
  BY <1>q DEF Queue, Window
<1>1. CASE keyboard_handler /\ count < N /\ Store(port)
  <2>1. /\ pc \in {"wait", "cli"} /\ port \in Bytes /\ tail = Slot(head + count)
        /\ Oldest = head /\ Waiting = count /\ Oldest' = head /\ Waiting' = count + 1
        /\ UNCHANGED scan_code /\ port # NoByte /\ port' = NoByte
    BY <1>1 DEF keyboard_handler, Receive, Store, IInv, TypeOK, Critical,
       PointersAgree,
      Oldest, Waiting
  <2>2. Queue' = Append(Queue, port)
    <3>1. /\ buff' \in [Slots -> Bytes] /\ buff'[Slot(head + count)] = port
          /\ \A j \in Slots : j # Slot(head + count) => buff'[j] = buff[j]
      BY <1>0, <1>1, <2>1, WrapAround DEF Store
    <3>2. count \in 0 .. N - 1
      BY <1>0, <1>1
    <3>3. Append(Window(buff, head, count), port) = Window(buff', head, count + 1)
      BY <1>0, <2>1, <3>1, <3>2, WindowAppend
    <3> QED
      BY <2>1, <3>3 DEF Queue, Window
  <2>3. Len(Queue) < N
    BY <1>0, <1>1, <2>1
  <2> QED
    BY <2>1, <2>2, <2>3 DEF Queue, Window, Fifo!Next, Fifo!Put
<1>2. CASE ReadByte
  <2>1. /\ count \in 1 .. N /\ Oldest = head /\ Waiting = count
        /\ Oldest' = Advance(head) /\ Waiting' = count - 1
        /\ scan_code' = buff[head] /\ UNCHANGED <<buff, port>>
    BY <1>0, <1>2 DEF ReadByte, IInv, Critical, Oldest, Waiting, ring
  <2>2. /\ Queue # << >> /\ Head(Queue) = buff[head]
        /\ Tail(Queue) = Window(buff, Advance(head), count - 1)
    BY <1>0, <2>1, WindowTail DEF Queue
  <2>3. Queue' = Tail(Queue)
    BY <2>1, <2>2 DEF Queue, Window
  <2> QED
    BY <2>1, <2>2, <2>3 DEF Queue, Window, Fifo!Next, Fifo!Take
<1>3. CASE keyboard_handler /\ ~(count < N) /\ UNCHANGED ring
  <2>1. /\ pc \in {"wait", "cli"} /\ UNCHANGED scan_code
        /\ port # NoByte /\ port' = NoByte /\ pc' = pc
    BY <1>3 DEF keyboard_handler, Receive, IInv, TypeOK, Critical
  <2>2. Waiting = count /\ Oldest' = Oldest /\ Waiting' = Waiting /\ buff' = buff
    BY <1>3, <2>1 DEF Oldest, Waiting, ring
  <2>3. Queue' = Queue /\ Len(Queue) = N
    BY <1>0, <1>3, <2>2 DEF Queue, Window
  <2> QED
    BY <2>1, <2>3 DEF Queue, Window, Fifo!Next, Fifo!Drop
<1>4. ASSUME NEW b \in Bytes, KeyEvent(b) PROVE [Fifo!Next]_(Fifo!vars)
  <2>1. port = NoByte /\ port' = b /\ UNCHANGED <<ring, pc, scan_code>>
    BY <1>4 DEF KeyEvent
  <2>2. Oldest' = Oldest /\ Waiting' = Waiting /\ buff' = buff
    BY <2>1 DEF Oldest, Waiting, ring
  <2>3. Queue' = Queue
    BY <2>2 DEF Queue, Window
  <2> QED
    BY <2>1, <2>3 DEF Queue, Window, Fifo!Next, Fifo!Arrive
<1>5. CASE Wait \/ Cli \/ AdvanceHead \/ LoadCount \/ StoreCount \/ Sti \/ UNCHANGED vars
  <2>1. buff' = buff /\ scan_code' = scan_code /\ port' = port
    BY <1>5 DEF Wait, Cli, AdvanceHead, LoadCount, StoreCount, Sti, vars, ring
  <2>2. Oldest' = Oldest
    BY <1>0, <1>5 DEF Wait, Cli, AdvanceHead, LoadCount, StoreCount, Sti, vars, ring,
       Oldest
  <2>3. Waiting' = Waiting
    BY <1>0, <1>5 DEF Wait, Cli, AdvanceHead, LoadCount, StoreCount, Sti, vars, ring,
       Waiting, IInv, Critical
  <2> QED
    BY <1>q, <2>1, <2>2, <2>3 DEF Queue, Window
<1> QED
  BY <1>1, <1>2, <1>3, <1>4, <1>5 DEF Next, ReaderStep, keyboard_handler, Receive

(* Whatever the interleaving of key presses with the reader, every byte    *)
(* that finds room is taken in, and the bytes taken in come out in order,  *)
(* each once.                                                              *)
THEOREM DeliversInOrderAlways == Spec => DeliversInOrderSafely
  BY IInvInvariant, FifoInit, FifoNext, PTL
  DEF Spec, DeliversInOrderSafely, Fifo!Spec
=============================================================================
