------------------------------- MODULE Paging -------------------------------
(***************************************************************************)
(* Page frames and the kernel's page tables: the frame stack of            *)
(* kern/mm/pmm.c, map(), unmap() and get_mapping() of kern/mm/vmm.c, and   *)
(* the processor's TLB.  Addresses are numbers; the size of a page and of  *)
(* a page table are parameters.  A page table lives in a frame, but only   *)
(* what it maps matters: pte is a function on the pages whose table        *)
(* exists, and the frame of the table is the entry of pgd.  Permission     *)
(* bits are left out: every mapping of the kernel is present and writable. *)
(***************************************************************************)
EXTENDS Naturals, Sequences

CONSTANTS Frames,        \* physical page frames
          NoFrame,       \* the empty page table entry
          PAGE_SIZE,
          PTE_SIZE,      \* pages mapped by one page table
          PAGE_MAX_SIZE  \* frames the stack has room for

ASSUME PagingAssumption == /\ NoFrame \notin Frames
                           /\ PAGE_SIZE \in Nat \ {0}
                           /\ PTE_SIZE \in Nat \ {0}
                           /\ PAGE_MAX_SIZE \in Nat \ {0}

VARIABLES pmm_stack, \* the free frames, the next one to go last
          pgd,       \* frame of each page table there is, by directory index
          pte,       \* what each page of those tables is mapped to
          tlb        \* translations the processor holds

pagingVars == <<pmm_stack, pgd, pte, tlb>>

Top(s) == s[Len(s)]
Pop(s) == SubSeq(s, 1, Len(s) - 1)

PGD_INDEX(va) == va \div (PAGE_SIZE * PTE_SIZE)
PagesOf(i) == {(i * PTE_SIZE + k) * PAGE_SIZE : k \in 0 .. PTE_SIZE - 1}
Mapped == {p \in DOMAIN pte : pte[p] # NoFrame}

Invalidated(va) == [p \in DOMAIN tlb \ {va} |-> tlb[p]]

(* The processor may load the translation of a mapped page at any time.    *)
TlbFill(p) ==
  /\ p \in Mapped \ DOMAIN tlb
  /\ tlb' = [q \in DOMAIN tlb \cup {p} |-> IF q = p THEN pte[p] ELSE tlb[q]]
  /\ UNCHANGED <<pmm_stack, pgd, pte>>

(* map(pgd_kern, va, pa), with free the frames that are left: a page table *)
(* that does not exist is taken from them and cleared.                     *)
map(va, pa, free) ==
  /\ \/ /\ PGD_INDEX(va) \in DOMAIN pgd
        /\ pmm_stack' = free
        /\ pte' = [pte EXCEPT ![va] = pa]
        /\ UNCHANGED pgd
     \/ /\ PGD_INDEX(va) \notin DOMAIN pgd
        /\ free # << >>
        /\ pmm_stack' = Pop(free)
        /\ pgd' = [i \in DOMAIN pgd \cup {PGD_INDEX(va)} |->
                     IF i = PGD_INDEX(va) THEN Top(free) ELSE pgd[i]]
        /\ pte' = [p \in DOMAIN pte \cup PagesOf(PGD_INDEX(va)) |->
                     IF p = va THEN pa
                     ELSE IF p \in DOMAIN pte THEN pte[p] ELSE NoFrame]
  /\ tlb' = Invalidated(va)

(* ... and it cannot be when none is left: pmm_alloc_page() panics.        *)
MapFails(va, free) == PGD_INDEX(va) \notin DOMAIN pgd /\ free = << >>

(* get_mapping(): 0 if there is no table or no entry; the caller's         *)
(* variable, which is then not written, may hold anything.                 *)
get_mapping(va) == IF va \in Mapped THEN {pte[va]} ELSE Frames

(* Mutant: no invlpg.                                                      *)
UnmapKeepingTlb(va) ==
  /\ pte' = [p \in DOMAIN pte |-> IF p = va THEN NoFrame ELSE pte[p]]
  /\ UNCHANGED <<pgd, tlb>>

unmap(va) ==
  /\ pte' = [p \in DOMAIN pte |-> IF p = va THEN NoFrame ELSE pte[p]]
  /\ tlb' = IF PGD_INDEX(va) \in DOMAIN pgd THEN Invalidated(va) ELSE tlb
  /\ UNCHANGED pgd
=============================================================================
