----------------------------- MODULE BootMemory -----------------------------
(***************************************************************************)
(* How the kernel finds its memory: init_pmm() of kern/mm/pmm.c walks the  *)
(* memory map GRUB left and pushes the page frames that are free, then     *)
(* init_vmm() of kern/mm/vmm.c sets up the window at PAGE_OFFSET through   *)
(* which the kernel reaches frames.  One action per iteration of a loop.   *)
(* Addresses and lengths are 64 bits wide in the map and 32 in the kernel, *)
(* which keeps the low half: what is below Word.                           *)
(***************************************************************************)
EXTENDS Naturals, Sequences, FiniteSets, SequencesExt

CONSTANTS Word,          \* 2^32
          PMM_PAGE_SIZE,
          PMM_MAX_SIZE,  \* memory the kernel is made for
          PTE_SIZE,      \* pages mapped by one page table
          PTE_COUNT,     \* page tables of the window
          kern_end,      \* physical end of the kernel
          Maps           \* the memory maps: sequences of regions

AVAILABLE == 1

(* The first byte after a region of the map.                               *)
After(r) == r.base + r.length

(* What is assumed of the machine: the regions do not overlap.             *)
Apart(m) == \A i, j \in DOMAIN m : i < j => \/ After(m[i]) <= m[j].base
                                           \/ After(m[j]) <= m[i].base

(* The frames below 4 GB that are whole in available memory and not the    *)
(* kernel's.                                                               *)
Frames(m) ==
  {f * PMM_PAGE_SIZE : f \in
     {f \in 0 .. (Word \div PMM_PAGE_SIZE) - 1 :
        /\ f * PMM_PAGE_SIZE >= kern_end
        /\ \E i \in DOMAIN m : /\ m[i].type = AVAILABLE
                               /\ m[i].base <= f * PMM_PAGE_SIZE
                               /\ (f + 1) * PMM_PAGE_SIZE <= After(m[i])}}

PAGE_MAX_SIZE == PMM_MAX_SIZE \div PMM_PAGE_SIZE

ASSUME BootAssumption ==
  /\ PMM_PAGE_SIZE \in Nat \ {0} /\ PTE_SIZE \in Nat \ {0} /\ PTE_COUNT \in Nat \ {0}
  /\ Word \in Nat \ {0} /\ PMM_MAX_SIZE \in Nat /\ kern_end \in Nat
  /\ Word % PMM_PAGE_SIZE = 0 /\ PMM_MAX_SIZE % PMM_PAGE_SIZE = 0
  /\ kern_end % PMM_PAGE_SIZE = 0 /\ 0 < kern_end /\ kern_end < PMM_MAX_SIZE
  /\ PMM_MAX_SIZE <= Word - PMM_PAGE_SIZE
  /\ PTE_COUNT * PTE_SIZE = PAGE_MAX_SIZE
  /\ \A m \in Maps : m \in Seq([base : Nat, length : Nat, type : Nat]) /\ Apart(m)

VARIABLES map,            \* the memory map
          mmap,           \* the entry init_pmm() looks at
          begin, end,     \* what is left of the region in hand
          pmm_stack,      \* the free frames
          phy_page_count,
          window,         \* pages p with PAGE_OFFSET + p mapped to frame p
          boot            \* where the boot is

vars == <<map, mmap, begin, end, pmm_stack, phy_page_count, window, boot>>

-----------------------------------------------------------------------------
Low(x) == x % Word
ROUNDDOWN(a) == a - (a % PMM_PAGE_SIZE)
ROUNDUP(a) == ROUNDDOWN(Low(a + PMM_PAGE_SIZE - 1))

Entry == map[mmap]

(* Mutant: the first page of a region rounded the wrong way.               *)
RegionBeginDown == ROUNDDOWN(IF Low(Entry.base) < kern_end THEN kern_end ELSE Low(Entry.base))

RegionBegin == ROUNDUP(IF Low(Entry.base) < kern_end THEN kern_end ELSE Low(Entry.base))
RegionEnd   == ROUNDDOWN(Low(Low(Entry.base) + Low(Entry.length)))

(* The table kern_entry() runs on maps the pages of one page table.        *)
Init ==
  /\ map \in Maps
  /\ mmap = 1
  /\ begin = 0 /\ end = 0
  /\ pmm_stack = << >>
  /\ phy_page_count = 0
  /\ window = 0 .. PTE_SIZE - 1
  /\ boot = "scan"

(* Not available memory, or all of it below the end of the kernel.         *)
SkipEntry ==
  /\ boot = "scan" /\ mmap <= Len(map)
  /\ Entry.type # AVAILABLE \/ RegionEnd < kern_end
  /\ mmap' = mmap + 1
  /\ UNCHANGED <<map, begin, end, pmm_stack, phy_page_count, window, boot>>

TakeEntry ==
  /\ boot = "scan" /\ mmap <= Len(map)
  /\ Entry.type = AVAILABLE /\ RegionEnd >= kern_end
  /\ begin' = RegionBegin
  /\ end' = RegionEnd
  /\ boot' = "push"
  /\ UNCHANGED <<map, mmap, pmm_stack, phy_page_count, window>>

(* Mutant: the stack taken for full one frame late.                        *)
FullLate == Len(pmm_stack) > PAGE_MAX_SIZE

Full == Len(pmm_stack) = PAGE_MAX_SIZE

(* pmm_free_page(begin).                                                   *)
PushFrame ==
  /\ boot = "push" /\ begin < end
  /\ ~Full
  /\ pmm_stack' = Append(pmm_stack, begin)
  /\ begin' = Low(begin + PMM_PAGE_SIZE)
  /\ phy_page_count' = phy_page_count + 1
  /\ UNCHANGED <<map, mmap, end, window, boot>>

(* Its assertion fails.                                                    *)
OutOfStack ==
  /\ boot = "push" /\ begin < end
  /\ Full
  /\ boot' = "panic"
  /\ UNCHANGED <<map, mmap, begin, end, pmm_stack, phy_page_count, window>>

NextEntry ==
  /\ boot = "push" /\ begin >= end
  /\ mmap' = mmap + 1
  /\ boot' = "scan"
  /\ UNCHANGED <<map, begin, end, pmm_stack, phy_page_count, window>>

(* Mutant: the page tables filled but for the last.                        *)
WindowShort == 1 .. (PTE_COUNT - 1) * PTE_SIZE - 1

(* What init_vmm() maps; page 0 stays invalid.                             *)
Window == 1 .. PTE_COUNT * PTE_SIZE - 1

InitVmm ==
  /\ boot = "scan" /\ mmap > Len(map)
  /\ window' = Window
  /\ boot' = "done"
  /\ UNCHANGED <<map, mmap, begin, end, pmm_stack, phy_page_count>>

Next == \/ SkipEntry \/ TakeEntry
        \/ PushFrame \/ OutOfStack \/ NextEntry
        \/ InitVmm

Spec == Init /\ [][Next]_vars
-----------------------------------------------------------------------------
(* Properties.                                                             *)

(* Every variable has its type; the frame stack stays inside its array.    *)
TypeOK ==
  /\ map \in Maps
  /\ mmap \in 1 .. Len(map) + 1
  /\ begin \in 0 .. Word - 1 /\ end \in 0 .. Word - 1
  /\ pmm_stack \in Seq(0 .. Word - 1) /\ Len(pmm_stack) <= PAGE_MAX_SIZE
  /\ phy_page_count \in Nat
  /\ window \subseteq Nat
  /\ boot \in {"scan", "push", "done", "panic"}

(* init_pmm() has not come to a region it cannot represent: one above 4 GB *)
(* or one in the last page below, whose end it would take for 0.           *)
Below4GB == \A i \in DOMAIN map : i <= mmap /\ map[i].type = AVAILABLE =>
              After(map[i]) <= Word - PMM_PAGE_SIZE

(* Until it meets such a region init_pmm() finds exactly the frames that   *)
(* lie whole in available memory and behind the kernel, each once (no      *)
(* frame gets two owners later), and counts them; it gives up only if they *)
(* are too many for the stack.                                             *)
FindsExactlyTheFrames == Below4GB =>
  /\ ToSet(pmm_stack) \subseteq Frames(map)
  /\ Cardinality(ToSet(pmm_stack)) = Len(pmm_stack)
  /\ boot = "done" => /\ ToSet(pmm_stack) = Frames(map)
                      /\ phy_page_count = Len(pmm_stack)
  /\ boot = "panic" => Cardinality(Frames(map)) > PAGE_MAX_SIZE

(* The kernel can reach every frame it may take: map() clears a new page   *)
(* table through the window (vmm.c:99-101).                                *)
FramesReachable ==
  boot = "done" => \A i \in DOMAIN pmm_stack : pmm_stack[i] \div PMM_PAGE_SIZE \in window

(* So it is on a machine whose memory ends at PMM_MAX_SIZE.                *)
SmallMemoryReachable ==
  (\A i \in DOMAIN map : map[i].type = AVAILABLE => After(map[i]) <= PMM_MAX_SIZE)
    => FramesReachable
=============================================================================
