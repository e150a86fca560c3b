----------------------------- MODULE Allocator -----------------------------
(***************************************************************************)
(* What kmalloc() and kfree() promise: a call is granted a block as large  *)
(* as it asked for that overlaps no block in use; a block in use keeps its *)
(* place and its size until it is given back.                              *)
(***************************************************************************)
EXTENDS Naturals

CONSTANT Requests

VARIABLES blocks,  \* the size of each block in use, by its address
          request  \* the call in progress: {} or {length}

vars == <<blocks, request>>

Init == blocks = [a \in {} |-> 0] /\ request = {}

Call(n) == /\ request = {}
           /\ request' = {n}
           /\ UNCHANGED blocks

Apart(a, s, b, t) == a + s <= b \/ b + t <= a

Grant(a) ==
  /\ a \notin DOMAIN blocks
  /\ DOMAIN blocks' = DOMAIN blocks \cup {a}
  /\ \A b \in DOMAIN blocks : /\ blocks'[b] = blocks[b]
                              /\ Apart(a, blocks'[a], b, blocks[b])
  /\ \A n \in request : blocks'[a] >= n
  /\ request # {}
  /\ request' = {}

Free(a) == /\ request = {}
           /\ blocks' = [b \in DOMAIN blocks \ {a} |-> blocks[b]]
           /\ UNCHANGED request

Next == \/ \E n \in Requests : Call(n)
        \/ \E a \in DOMAIN blocks' : Grant(a)
        \/ \E a \in DOMAIN blocks : Free(a)

Spec == Init /\ [][Next]_vars
=============================================================================
