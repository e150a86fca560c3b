-------------------------------- MODULE Heap --------------------------------
(***************************************************************************)
(* The kernel heap of kern/mm/heap.c on top of Paging: kmalloc(), kfree()  *)
(* and the loops inside them, one action per iteration.  The kernel calls  *)
(* them only while it boots, with interrupts off, so one call is in        *)
(* progress at a time.  A failed assertion stops the system ("panic").     *)
(*                                                                         *)
(* The list of chunks is the function hdr from the address of a header     *)
(* that is linked to its contents.  unsigned int is taken modulo Word.     *)
(***************************************************************************)
EXTENDS Paging, FiniteSets

CONSTANTS Requests,   \* lengths asked for
          HEAP_START,
          HeaderSize, \* sizeof(header_t)
          Word,       \* 2^32
          BootStacks  \* the frame stacks init_pmm() may leave

NULL == 0

ASSUME HeapAssumption == /\ Requests \subseteq Nat
                         /\ HEAP_START \in Nat \ {0}
                         /\ HEAP_START % PAGE_SIZE = 0
                         /\ HeaderSize \in Nat \ {0}
                         /\ Word \in Nat /\ HEAP_START < Word
                         /\ Word <= 2 * HEAP_START
                         /\ \A n \in Requests : n < Word
                         /\ \A s \in BootStacks :
                              /\ s \in Seq(Frames) /\ Len(s) <= PAGE_MAX_SIZE
                              /\ \A i, j \in DOMAIN s : s[i] = s[j] => i = j

VARIABLES heap_first, heap_max, hdr,
          phy_page_count,   \* frames init_pmm() found
          pc,               \* what the call in progress does
          len, cur, prev,   \* its locals
          live              \* the pointers callers hold, with the length asked for

heapVars == <<heap_first, heap_max, hdr, phy_page_count, pc, len, cur, prev, live>>
vars == <<heapVars, pagingVars>>

Wrap(x) == IF x >= Word THEN x - Word ELSE x

Init ==
  /\ pmm_stack \in BootStacks
  /\ phy_page_count = Len(pmm_stack)
  /\ pgd = [i \in {} |-> NoFrame] /\ pte = [p \in {} |-> NoFrame]
  /\ tlb = [p \in {} |-> NoFrame]
  /\ heap_first = NULL
  /\ heap_max = HEAP_START
  /\ hdr = [c \in {} |-> NULL]
  /\ pc = "ready"
  /\ len = 0 /\ cur = NULL /\ prev = NULL
  /\ live = [p \in {} |-> 0]

-----------------------------------------------------------------------------
(* kmalloc(): the walk over the list.                                      *)

Kmalloc(n) ==
  /\ pc = "ready"
  /\ len' = Wrap(n + HeaderSize)
  /\ cur' = heap_first
  /\ prev' = NULL
  /\ pc' = "walk"
  /\ UNCHANGED <<heap_first, heap_max, hdr, phy_page_count, live, pagingVars>>

(* Mutant: the header not counted.                                         *)
FitsPayload(c) == ~hdr[c].allocated /\ hdr[c].length >= len - HeaderSize

Fits(c) == ~hdr[c].allocated /\ hdr[c].length >= len

(* Mutant: cur_header not advanced.                                        *)
WalkInPlace ==
  /\ pc = "walk" /\ cur # NULL /\ ~Fits(cur)
  /\ prev' = cur
  /\ UNCHANGED <<heap_first, heap_max, hdr, phy_page_count, pc, len, cur, live, pagingVars>>

Walk ==
  /\ pc = "walk" /\ cur # NULL /\ ~Fits(cur)
  /\ prev' = cur
  /\ cur' = hdr[cur].next
  /\ UNCHANGED <<heap_first, heap_max, hdr, phy_page_count, pc, len, live, pagingVars>>

(* split_chunk(): the rest becomes a chunk if it can hold more than a      *)
(* header; then the first part is marked allocated.                        *)
SplitTakes(c) ==
  LET rest == c + len
      old  == hdr[c]
  IN [d \in DOMAIN hdr \cup {rest} |->
        IF d = c THEN [old EXCEPT !.next = rest, !.length = len, !.allocated = TRUE]
        ELSE IF d = rest THEN [prev |-> c, next |-> old.next, allocated |-> FALSE,
                               length |-> old.length - len]
        ELSE IF d = old.next THEN [hdr[d] EXCEPT !.prev = rest]
        ELSE hdr[d]]

WholeTaken(c) == [hdr EXCEPT ![c].allocated = TRUE]

Splits(c) == hdr[c].length - len > HeaderSize

GiveTo(p, n) == live' = [q \in DOMAIN live \cup {p} |-> IF q = p THEN n ELSE live[q]]
(* The length the caller passed.                                           *)
Asked == IF len >= HeaderSize THEN len - HeaderSize ELSE len + Word - HeaderSize

(* The call returns and its locals are gone.                               *)
Return == pc' = "ready" /\ len' = 0 /\ cur' = NULL /\ prev' = NULL

TakeChunk ==
  /\ pc = "walk" /\ cur # NULL /\ Fits(cur)
  /\ hdr' = IF Splits(cur) THEN SplitTakes(cur) ELSE WholeTaken(cur)
  /\ GiveTo(cur + HeaderSize, Asked)
  /\ Return
  /\ UNCHANGED <<heap_first, heap_max, phy_page_count, pagingVars>>

(* No chunk fits: the new one starts after the last, or begins the heap.   *)
StartGrowing ==
  /\ pc = "walk" /\ cur = NULL
  /\ IF prev # NULL
     THEN cur' = Wrap(prev + hdr[prev].length) /\ UNCHANGED heap_first
     ELSE cur' = HEAP_START /\ heap_first' = HEAP_START
  /\ pc' = "grow"
  /\ UNCHANGED <<heap_max, hdr, phy_page_count, len, prev, live, pagingVars>>

(* Mutant: the header not counted.                                         *)
PayloadUncovered == Wrap(cur + Asked) > heap_max

(* alloc_chunk(): map pages until the chunk is covered.                    *)
Uncovered == Wrap(cur + len) > heap_max

Grow ==
  /\ pc = "grow" /\ Uncovered
  /\ pmm_stack # << >>
  /\ map(heap_max, Top(pmm_stack), Pop(pmm_stack))
  /\ heap_max' = Wrap(heap_max + PAGE_SIZE)
  /\ UNCHANGED <<heap_first, hdr, phy_page_count, pc, len, cur, prev, live>>

(* "out of memory", for the page or for the page table it needs; in the    *)
(* second case the page is already off the stack.                          *)
OutOfMemory ==
  /\ pc = "grow" /\ Uncovered
  /\ \/ pmm_stack = << >> /\ UNCHANGED pmm_stack
     \/ /\ pmm_stack # << >> /\ MapFails(heap_max, Pop(pmm_stack))
        /\ pmm_stack' = Pop(pmm_stack)
  /\ pc' = "panic"
  /\ UNCHANGED <<heap_first, heap_max, hdr, phy_page_count, len, cur, prev, live,
                 pgd, pte, tlb>>

(* header.length has one bit less than an unsigned int.                    *)
Appended ==
  [d \in DOMAIN hdr \cup {cur} |->
     IF d = cur THEN [prev |-> prev, next |-> NULL, allocated |-> TRUE,
                        length |-> len % (Word \div 2)]
     ELSE IF d = prev THEN [hdr[d] EXCEPT !.next = cur]
     ELSE hdr[d]]

(* Writing the header faults if its pages are not there, and page_fault()  *)
(* does not return.                                                        *)
Present(a) == a - (a % PAGE_SIZE) \in Mapped

AppendChunk ==
  /\ pc = "grow" /\ ~Uncovered
  /\ IF Present(cur) /\ Present(cur + HeaderSize - 1)
     THEN hdr' = Appended /\ GiveTo(cur + HeaderSize, Asked) /\ Return
     ELSE pc' = "panic" /\ UNCHANGED <<hdr, live, len, cur, prev>>
  /\ UNCHANGED <<heap_first, heap_max, phy_page_count, pagingVars>>

-----------------------------------------------------------------------------
(* kfree(): glue_chunk() on the chunk c just freed, whose header is h[c].  *)

FreeAt(h, c) == c # NULL /\ ~h[c].allocated

(* Mutant: the back link of the chunk after the absorbed one forgotten.    *)
AbsorbOneWay(h, c) ==
  LET n == h[c].next IN
    [d \in DOMAIN h \ {n} |->
       IF d = c THEN [h[c] EXCEPT !.length = @ + h[n].length, !.next = h[n].next]
       ELSE h[d]]

(* c takes in the chunk after it.                                          *)
Absorb(h, c) ==
  LET n == h[c].next IN
    [d \in DOMAIN h \ {n} |->
       IF d = c THEN [h[c] EXCEPT !.length = @ + h[n].length, !.next = h[n].next]
       ELSE IF d = h[n].next THEN [h[d] EXCEPT !.prev = c]
       ELSE h[d]]

GlueNext(h, c) == IF FreeAt(h, h[c].next) THEN Absorb(h, c) ELSE h
GluePrev(h, c) == IF FreeAt(h, h[c].prev) THEN Absorb(h, h[c].prev) ELSE h
Glued(h, c)    == IF FreeAt(h, h[c].prev) THEN h[c].prev ELSE c

(* free_chunk(): the last chunk leaves the list.                           *)
Unlinked(h, c) == [d \in DOMAIN h \ {c} |->
                     IF d = h[c].prev THEN [h[d] EXCEPT !.next = NULL] ELSE h[d]]

(* Mutant: heap_first not reset when the only chunk goes.                  *)
FirstKept(h, c) == heap_first

FirstWithout(h, c) == IF h[c].prev = NULL THEN NULL ELSE heap_first

Kfree(p) ==
  /\ pc = "ready"
  /\ p \in DOMAIN live
  /\ live' = [q \in DOMAIN live \ {p} |-> live[q]]
  /\ LET c == p - HeaderSize
         h == GlueNext([hdr EXCEPT ![c].allocated = FALSE], c)
         g == GluePrev(h, c)
         k == Glued(h, c)
     IN \/ /\ g[k].next # NULL
           /\ hdr' = g
           /\ UNCHANGED <<heap_first, cur, pc>>
        \/ /\ g[k].next = NULL
           /\ hdr' = Unlinked(g, k)
           /\ heap_first' = FirstWithout(g, k)
           /\ cur' = k
           /\ pc' = "shrink"
  /\ UNCHANGED <<heap_max, phy_page_count, len, prev, pagingVars>>

(* Mutant: two spare pages kept.                                           *)
TwoPagesSpare == heap_max - 2 * PAGE_SIZE > cur

PageSpare == heap_max - PAGE_SIZE > cur

(* Mutant: the frame not given back.                                       *)
Leaked(f) == pmm_stack

Pushed(f) == Append(pmm_stack, f)

Shrink ==
  /\ pc = "shrink" /\ PageSpare
  /\ heap_max' = heap_max - PAGE_SIZE
  /\ \E page \in get_mapping(heap_max - PAGE_SIZE) :
       /\ unmap(heap_max - PAGE_SIZE)
       /\ pc' = IF Len(pmm_stack) = PAGE_MAX_SIZE THEN "panic" ELSE pc
       /\ pmm_stack' = IF Len(pmm_stack) = PAGE_MAX_SIZE THEN pmm_stack ELSE Pushed(page)
  /\ UNCHANGED <<heap_first, hdr, phy_page_count, len, cur, prev, live>>

ShrinkDone ==
  /\ pc = "shrink" /\ ~PageSpare
  /\ Return
  /\ UNCHANGED <<heap_first, heap_max, hdr, phy_page_count, live, pagingVars>>

Fill == \E p \in Mapped : TlbFill(p) /\ UNCHANGED heapVars

HeapStep == \/ Walk \/ TakeChunk \/ StartGrowing \/ Grow \/ OutOfMemory
            \/ AppendChunk \/ Shrink \/ ShrinkDone

Next == \/ \E n \in Requests : Kmalloc(n)
        \/ \E p \in DOMAIN live : Kfree(p)
        \/ HeapStep
        \/ Fill

(* The call in progress runs on.                                           *)
Spec == Init /\ [][Next]_vars
FairSpec == Spec /\ WF_vars(HeapStep)
-----------------------------------------------------------------------------
(* Properties.                                                             *)

Chunk == [prev : Nat, next : Nat, allocated : BOOLEAN, length : Nat]

(* Every variable has its type, and no pointer that will be followed       *)
(* leads to a header that is not linked.                                   *)
TypeOK ==
  /\ hdr \in [DOMAIN hdr -> Chunk]
  /\ heap_max \in 0 .. Word - 1
  /\ pc \in {"ready", "walk", "grow", "shrink", "panic"}
  /\ pc = "ready" => heap_first \in DOMAIN hdr \cup {NULL}
  /\ pc = "walk" => cur \in DOMAIN hdr \cup {NULL} /\ prev \in DOMAIN hdr \cup {NULL}
  /\ pmm_stack \in Seq(Frames)
  /\ pgd \in [DOMAIN pgd -> Frames] /\ tlb \in [DOMAIN tlb -> Frames]
  /\ pte \in [DOMAIN pte -> Frames \cup {NoFrame}]

Final == {c \in DOMAIN hdr : hdr[c].next = NULL}
End == IF hdr = [c \in {} |-> NULL] THEN HEAP_START
       ELSE CHOOSE e \in {c + hdr[c].length : c \in Final} : TRUE

(* The list goes through the chunks in the order of their addresses, each  *)
(* begins where the one before it ends, the links back are right, no two   *)
(* neighbours are free, the last is in use, and the chunks in use are the  *)
(* ones callers hold, none smaller than was asked for.                     *)
HeapTiled ==
  /\ pc # "grow" /\ pc # "panic" =>
       heap_first = IF DOMAIN hdr = {} THEN NULL ELSE HEAP_START
  /\ \A c \in DOMAIN hdr :
       LET n == hdr[c].next IN
         /\ c >= HEAP_START /\ hdr[c].length >= HeaderSize
         /\ c = HEAP_START <=> hdr[c].prev = NULL
         /\ hdr[c].prev # NULL => /\ hdr[c].prev \in DOMAIN hdr
                                  /\ hdr[hdr[c].prev].next = c
         /\ n # NULL => n \in DOMAIN hdr /\ n = c + hdr[c].length /\ hdr[n].prev = c
         /\ ~hdr[c].allocated => n # NULL /\ hdr[n].allocated
         /\ hdr[c].allocated <=> c + HeaderSize \in DOMAIN live
  /\ \A p \in DOMAIN live : /\ p - HeaderSize \in DOMAIN hdr
                            /\ hdr[p - HeaderSize].length >= live[p] + HeaderSize

(* The heap's pages are those below heap_max, and every chunk is on them.  *)
ChunksMapped ==
  /\ Mapped = {p \in DOMAIN pte : HEAP_START <= p /\ p < heap_max}
  /\ \A c \in DOMAIN hdr : c + hdr[c].length <= heap_max

(* A frame is free, or a page of the heap, or a page table, and one of     *)
(* these once; none gets lost, except the one in hand when a panic comes   *)
(* between the two allocations of map().                                   *)
Free == {pmm_stack[i] : i \in DOMAIN pmm_stack}
Used == {pte[p] : p \in Mapped}
Tables == {pgd[i] : i \in DOMAIN pgd}
FrameOwnership ==
  /\ \A i, j \in DOMAIN pmm_stack : pmm_stack[i] = pmm_stack[j] => i = j
  /\ \A p, q \in Mapped : pte[p] = pte[q] => p = q
  /\ \A i, j \in DOMAIN pgd : pgd[i] = pgd[j] => i = j
  /\ Free \cap Used = {} /\ Free \cap Tables = {} /\ Used \cap Tables = {}
  /\ pc # "panic" =>
       Len(pmm_stack) + (heap_max - HEAP_START) \div PAGE_SIZE
         = phy_page_count - Cardinality(DOMAIN pgd)

(* The processor never translates through an entry the kernel has removed  *)
(* or replaced: a frame given back is out of reach.                        *)
TlbCoherent == \A p \in DOMAIN tlb : p \in Mapped /\ tlb[p] = pte[p]

(* "Free memory of more than one page is released" (heap.c:117).           *)
Trimmed == pc = "ready" => heap_max - End <= PAGE_SIZE

(* The system stops only when the last frame is gone: no header is written *)
(* to a page that is not there, and the stack refuses no frame.            *)
StopsOnlyWithoutFrames ==
  [][pc # "panic" /\ pc' = "panic" => pmm_stack' = << >>]_vars

(* Callers see an allocator: blocks large enough, apart, and left alone.   *)
Alloc == INSTANCE Allocator
           WITH blocks <- [p \in DOMAIN live |-> hdr[p - HeaderSize].length - HeaderSize],
                request <- IF pc \in {"walk", "grow", "panic"} THEN {Asked} ELSE {}

GivesApartBlocks == Alloc!Spec

(* kmalloc() and kfree() return, or the system has stopped for want of     *)
(* memory.                                                                 *)
CallsReturn == pc # "ready" ~> pc \in {"ready", "panic"}
=============================================================================
