------------------------------ MODULE ByteFifo ------------------------------
(***************************************************************************)
(* What the keyboard input buffer promises: a byte that has arrived is     *)
(* taken in as long as fewer than N wait, and dropped if N do ("discarded  *)
(* when the buffer is full", kern/driver/keyboard.c:39); the bytes taken   *)
(* in come out in the order they went in, each once; while a byte waits    *)
(* the reader gets one.                                                    *)
(***************************************************************************)
EXTENDS Naturals, Sequences

CONSTANTS Bytes, NoByte, N

VARIABLES port,  \* the byte that has arrived and is neither in nor dropped
          queue, \* the bytes that wait, oldest first
          out    \* the byte the reader was given last

vars == <<port, queue, out>>

Init == port = NoByte /\ queue = << >> /\ out \in Bytes

Arrive(b) == /\ port = NoByte
             /\ port' = b
             /\ UNCHANGED <<queue, out>>

Put == /\ port # NoByte
       /\ Len(queue) < N
       /\ queue' = Append(queue, port)
       /\ port' = NoByte
       /\ UNCHANGED out

Drop == /\ port # NoByte
        /\ Len(queue) = N
        /\ port' = NoByte
        /\ UNCHANGED <<queue, out>>

Take == /\ queue # << >>
        /\ out' = Head(queue)
        /\ queue' = Tail(queue)
        /\ UNCHANGED port

Next == \/ \E b \in Bytes : Arrive(b)
        \/ Put \/ Drop
        \/ Take

Spec == Init /\ [][Next]_vars
FairSpec == Spec /\ WF_vars(Take)
=============================================================================
