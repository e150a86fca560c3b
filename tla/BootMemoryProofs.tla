-------------------------- MODULE BootMemoryProofs --------------------------
(***************************************************************************)
(* What init_pmm() finds, for every page size, memory map and size of the  *)
(* kernel.  The types hold on every map; that exactly the free frames are  *)
(* found is what FindsExactlyTheFrames says of it, up to the first region  *)
(* above 4 GB, whose addresses the kernel cuts to their low halves.        *)
(***************************************************************************)
EXTENDS BootMemory, FiniteSetTheorems, TLAPS

P == PMM_PAGE_SIZE
Addresses == 0 .. Word - 1

(* While frames of a region are pushed the entry is one of the map's.      *)
EntryInHand == boot = "push" => mmap \in DOMAIN map

TypeInv == TypeOK /\ EntryInHand

(* The frames of one region of the map, and of the regions before it.      *)
RegionFrames(m, i) ==
  {a \in Addresses :
     /\ \E f \in Nat : a = f * P
     /\ a >= kern_end
     /\ m[i].type = AVAILABLE
     /\ m[i].base <= a /\ a + P <= After(m[i])}
FramesBefore(m, n) == UNION {RegionFrames(m, i) : i \in {i \in DOMAIN m : i < n}}

(* Where the loop over the frames of a region stands.                      *)
InRegion ==
  /\ mmap \in DOMAIN map
  /\ \E f \in Nat : begin = f * P
  /\ \A a \in Addresses :
       (\E f \in Nat : a = f * P) /\ begin <= a /\ a < end => a \in RegionFrames(map, mmap)
  /\ \A a \in RegionFrames(map, mmap) : a < end
  /\ ToSet(pmm_stack) =
       FramesBefore(map, mmap) \cup {a \in RegionFrames(map, mmap) : a < begin}

Found ==
  /\ boot = "scan" => ToSet(pmm_stack) = FramesBefore(map, mmap)
  /\ boot = "push" => InRegion
  /\ boot = "panic" => InRegion /\ begin < end /\ Full
  /\ boot = "done" => ToSet(pmm_stack) = FramesBefore(map, Len(map) + 1)

Counted ==
  /\ IsFiniteSet(ToSet(pmm_stack))
  /\ Cardinality(ToSet(pmm_stack)) = Len(pmm_stack)
  /\ phy_page_count = Len(pmm_stack)

WindowSet == boot = "done" => window = Window

IInv == TypeInv /\ WindowSet /\ (Below4GB => Found /\ Counted)

-----------------------------------------------------------------------------
(* Pages and addresses.                                                    *)

LEMMA PageSize ==
  /\ P \in Nat \ {0} /\ Word \in Nat \ {0}
  /\ kern_end \in Nat /\ PMM_MAX_SIZE \in Nat
  BY BootAssumption DEF P

LEMMA Remainder == \A a \in Nat : a % P \in 0 .. P - 1
  BY PageSize

LEMMA LowTyped == \A x \in Nat : Low(x) \in Addresses
  BY PageSize DEF Low, Addresses

LEMMA LowSmall == \A x \in Addresses : Low(x) = x
  BY PageSize DEF Low, Addresses

LEMMA Rounded ==
  ASSUME NEW a \in Nat
  PROVE  /\ ROUNDDOWN(a) \in 0 .. a
         /\ a - ROUNDDOWN(a) < P
         /\ \E f \in Nat : ROUNDDOWN(a) = f * P
<1>1. a % P \in 0 .. P - 1
  BY Remainder
<1>2. a = (a \div P) * P + (a % P) /\ a \div P \in Nat
  BY PageSize
<1>3. (a \div P) * P \in Nat
  BY <1>2, PageSize
<1> DEFINE q == a \div P
<1> HIDE DEF q
<1>4. ROUNDDOWN(a) = q * P /\ q \in Nat /\ q * P \in Nat
  BY <1>1, <1>2, <1>3 DEF ROUNDDOWN, P, q
<1>5. ROUNDDOWN(a) = a - (a % P)
  BY DEF ROUNDDOWN, P
<1>6. ROUNDDOWN(a) \in 0 .. a /\ a - ROUNDDOWN(a) < P
  BY <1>1, <1>4, <1>5, PageSize
<1> QED
  BY <1>4, <1>6

(* Multiples of the page size are at least a page apart.                   *)
LEMMA NextMultiple ==
  ASSUME NEW f \in Nat, NEW g \in Nat, f * P < g * P
  PROVE  f * P + P <= g * P
<1>1. f < g
  BY PageSize
<1>2. (f + 1) * P <= g * P
  BY <1>1, PageSize
<1> QED
  BY <1>2, PageSize

LEMMA WordPages == Word \div P \in Nat /\ Word = (Word \div P) * P
<1>1. Word = (Word \div P) * P + (Word % P) /\ Word \div P \in Nat
  BY PageSize
<1>2. Word % P = 0 /\ (Word \div P) * P \in Nat
  BY <1>1, BootAssumption, PageSize DEF P
<1>3. Word = (Word \div P) * P
  BY <1>1, <1>2
<1> QED
  BY <1>1, <1>3

LEMMA EntryTyped ==
  ASSUME map \in Maps, NEW i \in DOMAIN map
  PROVE  /\ map \in Seq([base : Nat, length : Nat, type : Nat])
         /\ i \in 1 .. Len(map)
         /\ map[i].base \in Nat /\ map[i].length \in Nat
         /\ After(map[i]) \in Nat /\ map[i].base <= After(map[i])
<1> DEFINE Region == [base : Nat, length : Nat, type : Nat]
<1>1. map \in Seq(Region)
  BY BootAssumption
<1>2. i \in 1 .. Len(map) /\ map[i] \in Region
  <2> HIDE DEF Region
  <2> QED
    BY <1>1
<1> QED
  BY <1>1, <1>2 DEF After

-----------------------------------------------------------------------------
(* The arithmetic of one region.                                           *)

LEMMA RegionTop ==
  ASSUME Below4GB, map \in Maps, mmap \in DOMAIN map, Entry.type = AVAILABLE
  PROVE  /\ After(Entry) <= Word - P
         /\ Low(Entry.base) = Entry.base
         /\ Low(Low(Entry.base) + Low(Entry.length)) = After(Entry)
<1>1. /\ Entry.base \in Nat /\ Entry.length \in Nat /\ After(Entry) \in Nat
      /\ After(Entry) = Entry.base + Entry.length
  BY EntryTyped DEF After, Entry
<1>2. mmap <= mmap
  BY EntryTyped
<1>3. After(Entry) <= Word - P
  BY <1>2 DEF Below4GB, P, Entry
<1>4. /\ Entry.base \in Addresses /\ Entry.length \in Addresses
      /\ After(Entry) \in Addresses
  BY <1>1, <1>3, PageSize DEF Addresses
<1> QED
  BY <1>1, <1>3, <1>4, LowSmall

LEMMA EndRounded ==
  ASSUME Below4GB, map \in Maps, mmap \in DOMAIN map, Entry.type = AVAILABLE
  PROVE  /\ RegionEnd \in 0 .. Word - P /\ RegionEnd <= After(Entry)
         /\ After(Entry) - RegionEnd < P
         /\ \E f \in Nat : RegionEnd = f * P
<1>1. RegionEnd = ROUNDDOWN(After(Entry)) /\ After(Entry) <= Word - P
  BY RegionTop DEF RegionEnd
<1>2. After(Entry) \in Nat
  BY EntryTyped DEF Entry
<1>3. RegionEnd \in 0 .. After(Entry) /\ After(Entry) - RegionEnd < P
  BY <1>1, <1>2, Rounded
<1>4. \E f \in Nat : RegionEnd = f * P
  BY <1>1, <1>2, Rounded
<1>5. RegionEnd \in 0 .. Word - P
  <2> HIDE DEF P
  <2> QED
    BY <1>1, <1>2, <1>3, PageSize
<1> QED
  BY <1>3, <1>4, <1>5, <1>2

(* The first address of the entry that is not the kernel's.                *)
First == IF Entry.base < kern_end THEN kern_end ELSE Entry.base

LEMMA BeginRounded ==
  ASSUME Below4GB, map \in Maps, mmap \in DOMAIN map, Entry.type = AVAILABLE,
         RegionEnd >= kern_end
  PROVE  /\ RegionBegin \in Addresses /\ First \in Nat
         /\ First <= RegionBegin /\ RegionBegin < First + P
         /\ \E f \in Nat : RegionBegin = f * P
<1> DEFINE top == First + P - 1
<1>1. /\ Entry.base \in Nat /\ After(Entry) \in Nat /\ Entry.base <= After(Entry)
      /\ After(Entry) <= Word - P /\ Low(Entry.base) = Entry.base
  <2>1. /\ Entry.base \in Nat /\ After(Entry) \in Nat /\ Entry.base <= After(Entry)
    BY EntryTyped DEF Entry
  <2> QED
    BY <2>1, RegionTop
<1>2. kern_end <= After(Entry)
  BY <1>1, EndRounded, PageSize
<1>3. First \in Nat /\ First <= Word - P
  BY <1>1, <1>2, PageSize DEF First
<1>4. top \in Addresses /\ top \in Nat
  BY <1>3, PageSize DEF Addresses
<1>5. RegionBegin = ROUNDDOWN(top)
  BY <1>1, <1>4, LowSmall DEF RegionBegin, ROUNDUP, First, P
<1> HIDE DEF top
<1>6. /\ RegionBegin \in 0 .. top /\ top - RegionBegin < P
      /\ \E f \in Nat : RegionBegin = f * P
  BY <1>4, <1>5, Rounded
<1>7. top = First + P - 1 /\ top < Word
  BY <1>4, PageSize DEF top, Addresses
<1> QED
  BY <1>3, <1>6, <1>7, PageSize DEF Addresses

(* An entry that init_pmm() skips has no frames for it.                    *)
LEMMA SkippedEmpty ==
  ASSUME Below4GB, map \in Maps, mmap \in DOMAIN map,
         Entry.type # AVAILABLE \/ RegionEnd < kern_end
  PROVE  RegionFrames(map, mmap) = {}
<1> SUFFICES ASSUME NEW a \in RegionFrames(map, mmap) PROVE FALSE
  OBVIOUS
<1>1. /\ a \in Nat /\ a >= kern_end /\ Entry.type = AVAILABLE
      /\ a + P <= After(Entry)
  BY DEF RegionFrames, Addresses, Entry
<1>2. RegionEnd < kern_end
  BY <1>1
<1>3. RegionEnd \in Nat /\ After(Entry) \in Nat /\ After(Entry) - RegionEnd < P
  BY <1>1, EndRounded, EntryTyped, PageSize DEF Entry
<1> QED
  BY <1>1, <1>2, <1>3, PageSize

(* The loop of the other entries runs over their frames.                   *)
LEMMA TakenFrames ==
  ASSUME Below4GB, map \in Maps, mmap \in DOMAIN map, Entry.type = AVAILABLE,
         RegionEnd >= kern_end
  PROVE  /\ \A a \in Addresses :
              (\E f \in Nat : a = f * P) /\ RegionBegin <= a /\ a < RegionEnd
                => a \in RegionFrames(map, mmap)
         /\ \A a \in RegionFrames(map, mmap) : RegionBegin <= a /\ a < RegionEnd
<1>1. /\ Entry.base \in Nat /\ After(Entry) \in Nat
      /\ RegionEnd \in Nat /\ RegionEnd <= After(Entry)
      /\ After(Entry) - RegionEnd < P
  BY EntryTyped, EndRounded, PageSize DEF Entry
<1>2. /\ RegionBegin \in Nat /\ First \in Nat
      /\ First <= RegionBegin /\ RegionBegin < First + P
      /\ kern_end <= First /\ Entry.base <= First
      /\ First \in {kern_end, Entry.base}
  BY <1>1, BeginRounded, PageSize DEF Addresses, First
<1>3. ASSUME NEW a \in Addresses, NEW f \in Nat, a = f * P,
             RegionBegin <= a, a < RegionEnd
      PROVE  a \in RegionFrames(map, mmap)
  <2>1. PICK g \in Nat : RegionEnd = g * P
    BY EndRounded
  <2>2. a + P <= RegionEnd
    BY <1>3, <2>1, NextMultiple
  <2>3. a >= kern_end /\ Entry.base <= a /\ a + P <= After(Entry) /\ a \in Nat
    BY <1>1, <1>2, <1>3, <2>2, PageSize DEF Addresses
  <2> QED
    BY <1>3, <2>3 DEF RegionFrames, Entry
<1>4. ASSUME NEW a \in RegionFrames(map, mmap) PROVE RegionBegin <= a /\ a < RegionEnd
  <2>1. /\ a \in Nat /\ a >= kern_end /\ Entry.base <= a
        /\ a + P <= After(Entry)
    BY DEF RegionFrames, Addresses, Entry
  <2>2. PICK f \in Nat : a = f * P
    BY DEF RegionFrames
  <2>3. PICK g \in Nat : RegionBegin = g * P
    BY BeginRounded
  <2>4. a < RegionBegin => a + P <= RegionBegin
    BY <2>2, <2>3, NextMultiple
  <2>5. First <= a
    BY <1>2, <2>1
  <2>6. RegionBegin <= a
    BY <1>2, <2>1, <2>4, <2>5, PageSize
  <2> QED
    BY <1>1, <2>1, <2>6, PageSize
<1> QED
  BY <1>3, <1>4

(* Regions do not overlap, so no frame belongs to two.                     *)
LEMMA Disjoint ==
  ASSUME map \in Maps, NEW i \in DOMAIN map, NEW j \in DOMAIN map, i # j
  PROVE  RegionFrames(map, i) \cap RegionFrames(map, j) = {}
<1> SUFFICES ASSUME NEW a \in RegionFrames(map, i), a \in RegionFrames(map, j) PROVE FALSE
  OBVIOUS
<1>1. /\ a \in Nat /\ map[i].base <= a /\ a + P <= After(map[i])
      /\ map[j].base <= a /\ a + P <= After(map[j])
  BY DEF RegionFrames, Addresses
<1>2. i \in 1 .. Len(map) /\ j \in 1 .. Len(map)
  BY EntryTyped
<1>3. After(map[i]) <= map[j].base \/ After(map[j]) <= map[i].base
  <2>1. i < j \/ j < i
    BY <1>2
  <2> QED
    BY <2>1, BootAssumption DEF Apart
<1>4. /\ map[i].base \in Nat /\ map[j].base \in Nat
      /\ After(map[i]) \in Nat /\ After(map[j]) \in Nat
  BY EntryTyped
<1> QED
  BY <1>1, <1>3, <1>4, PageSize

LEMMA OneMoreRegion ==
  ASSUME map \in Maps, NEW n \in DOMAIN map
  PROVE  FramesBefore(map, n + 1) = FramesBefore(map, n) \cup RegionFrames(map, n)
<1>1. DOMAIN map \subseteq Nat
  BY EntryTyped
<1>2. {i \in DOMAIN map : i < n + 1} = {i \in DOMAIN map : i < n} \cup {n}
  BY <1>1
<1> QED
  BY <1>2 DEF FramesBefore

LEMMA NoneBefore == map \in Maps => FramesBefore(map, 1) = {}
<1> SUFFICES ASSUME map \in Maps PROVE {i \in DOMAIN map : i < 1} = {}
  BY DEF FramesBefore
<1>1. \A i \in DOMAIN map : i \in 1 .. Len(map)
  BY EntryTyped
<1> QED
  BY <1>1

-----------------------------------------------------------------------------
(* Types.                                                                  *)

LEMMA MapTyped ==
  ASSUME map \in Maps
  PROVE  Len(map) \in Nat /\ DOMAIN map = 1 .. Len(map)
<1> DEFINE Region == [base : Nat, length : Nat, type : Nat]
<1>1. map \in Seq(Region)
  BY BootAssumption
<1> HIDE DEF Region
<1> QED
  BY <1>1

LEMMA RegionTyped ==
  ASSUME map \in Maps, mmap \in DOMAIN map
  PROVE  RegionBegin \in Addresses /\ RegionEnd \in Addresses
<1>1. /\ Low(Entry.base) \in Addresses /\ Low(Entry.length) \in Addresses
  BY EntryTyped, LowTyped DEF Entry
<1>2. \A a \in Addresses : ROUNDDOWN(a) \in Addresses
  BY Rounded, PageSize DEF Addresses
<1>3. Low(Low(Entry.base) + Low(Entry.length)) \in Addresses
  <2>1. Low(Entry.base) + Low(Entry.length) \in Nat
    BY <1>1, PageSize DEF Addresses
  <2> QED
    BY <2>1, LowTyped
<1> DEFINE first == IF Low(Entry.base) < kern_end THEN kern_end ELSE Low(Entry.base)
<1>4. first \in Nat
  BY <1>1, PageSize DEF Addresses
<1>5. RegionBegin = ROUNDDOWN(Low(first + PMM_PAGE_SIZE - 1))
  BY DEF RegionBegin, ROUNDUP
<1> HIDE DEF first
<1>6. Low(first + PMM_PAGE_SIZE - 1) \in Addresses
  <2>1. first + PMM_PAGE_SIZE - 1 \in Nat
    BY <1>4, PageSize DEF P
  <2> QED
    BY <2>1, LowTyped
<1> QED
  BY <1>2, <1>3, <1>5, <1>6 DEF RegionEnd

LEMMA TypeInit == Init => TypeInv
<1> SUFFICES ASSUME Init PROVE TypeInv
  OBVIOUS
<1>1. Len(map) \in Nat
  BY MapTyped DEF Init
<1>2. PAGE_MAX_SIZE \in Nat
  BY BootAssumption
<1>3. 0 .. PTE_SIZE - 1 \subseteq Nat
  BY BootAssumption
<1> QED
  BY <1>1, <1>2, <1>3, PageSize DEF Init, TypeOK, TypeInv, EntryInHand

LEMMA TypeStep == TypeInv /\ [Next]_vars => TypeInv'
<1> SUFFICES ASSUME TypeInv, [Next]_vars PROVE TypeInv'
  OBVIOUS
<1>1. /\ map \in Maps /\ Len(map) \in Nat /\ DOMAIN map = 1 .. Len(map)
      /\ mmap \in 1 .. Len(map) + 1
      /\ PAGE_MAX_SIZE \in Nat
      /\ PTE_COUNT \in Nat /\ PTE_SIZE \in Nat
      /\ TypeOK /\ EntryInHand
  BY MapTyped, BootAssumption DEF TypeOK, TypeInv
<1> USE DEF TypeInv, EntryInHand
<1>2. CASE SkipEntry
  BY <1>1, <1>2 DEF TypeOK, SkipEntry
<1>3. CASE TakeEntry
  BY <1>1, <1>3, RegionTyped DEF TypeOK, TakeEntry, Addresses
<1>4. CASE PushFrame
  <2>1. Low(begin + PMM_PAGE_SIZE) \in Addresses
    BY LowTyped, PageSize DEF TypeOK, P
  <2>2. begin \in Addresses /\ pmm_stack \in Seq(Addresses)
    BY DEF TypeOK, Addresses
  <2>3. pmm_stack' \in Seq(Addresses) /\ Len(pmm_stack') = Len(pmm_stack) + 1
    BY <1>4, <2>2 DEF PushFrame
  <2>4. Len(pmm_stack) \in Nat
    BY <2>2
  <2>5. Len(pmm_stack') <= PAGE_MAX_SIZE
    BY <1>1, <1>4, <2>3, <2>4 DEF PushFrame, Full, TypeOK
  <2> QED
    BY <1>4, <2>1, <2>3, <2>5 DEF TypeOK, PushFrame, Addresses
<1>5. CASE OutOfStack
  BY <1>5 DEF TypeOK, OutOfStack
<1>6. CASE NextEntry
  <2>1. mmap' \in 1 .. Len(map) + 1
    BY <1>1, <1>6 DEF NextEntry
  <2> QED
    BY <1>6, <2>1 DEF TypeOK, NextEntry
<1>7. CASE InitVmm
  <2>1. Window \subseteq Nat
    BY <1>1 DEF Window
  <2> QED
    BY <1>7, <2>1 DEF TypeOK, InitVmm
<1>8. CASE UNCHANGED vars
  BY <1>8 DEF TypeOK, vars
<1> QED
  BY <1>2, <1>3, <1>4, <1>5, <1>6, <1>7, <1>8 DEF Next

(* Every variable of the boot keeps its type, and the stack of free frames *)
(* its array: init_pmm() never writes past pmm_stack, whatever the map.    *)
THEOREM TypeCorrect == Spec => []TypeOK
<1>1. TypeInv => TypeOK
  BY DEF TypeInv
<1> QED
  BY <1>1, TypeInit, TypeStep, PTL DEF Spec

-----------------------------------------------------------------------------
(* The frames found.                                                       *)

LEMMA AllFrames ==
  ASSUME map \in Maps
  PROVE  FramesBefore(map, Len(map) + 1) = Frames(map)
<1>1. DOMAIN map = 1 .. Len(map) /\ Len(map) \in Nat
  BY MapTyped
<1>2. FramesBefore(map, Len(map) + 1) = UNION {RegionFrames(map, i) : i \in DOMAIN map}
  <2>1. {i \in DOMAIN map : i < Len(map) + 1} = DOMAIN map
    BY <1>1
  <2> QED
    BY <2>1 DEF FramesBefore
<1> DEFINE w == Word \div P
<1>3. w \in Nat /\ Word = w * P
  BY WordPages
<1>4. Frames(map) =
        {f * P : f \in {f \in 0 .. w - 1 :
            /\ f * P >= kern_end
            /\ \E i \in DOMAIN map : /\ map[i].type = AVAILABLE
                                     /\ map[i].base <= f * P
                                     /\ (f + 1) * P <= After(map[i])}}
  BY DEF Frames, P
<1> HIDE DEF w
<1>5. ASSUME NEW i \in DOMAIN map, NEW a \in RegionFrames(map, i)
      PROVE  a \in Frames(map)
  <2>1. PICK f \in Nat : a = f * P
    BY DEF RegionFrames
  <2>2. a < w * P /\ a >= kern_end /\ a \in Nat
    BY <1>3, PageSize DEF RegionFrames, Addresses
  <2>3. f \in 0 .. w - 1
    BY <1>3, <2>1, <2>2, PageSize
  <2>4. (f + 1) * P = a + P
    BY <2>1, PageSize
  <2> QED
    BY <1>4, <2>1, <2>2, <2>3, <2>4 DEF RegionFrames
<1>6. ASSUME NEW a \in Frames(map)
      PROVE  \E i \in DOMAIN map : a \in RegionFrames(map, i)
  <2>1. PICK f \in 0 .. w - 1 :
          /\ a = f * P /\ f * P >= kern_end
          /\ \E i \in DOMAIN map : /\ map[i].type = AVAILABLE
                                   /\ map[i].base <= f * P
                                   /\ (f + 1) * P <= After(map[i])
    BY <1>4, <1>6
  <2>2. f \in Nat /\ (f + 1) * P = a + P /\ a \in Nat
    BY <1>3, <2>1, PageSize
  <2>3. a + P <= Word
    <3>1. (f + 1) * P <= w * P
      BY <1>3, <2>1, PageSize
    <3> QED
      BY <1>3, <2>2, <3>1
  <2>4. a \in Addresses
    BY <2>2, <2>3, PageSize DEF Addresses
  <2> QED
    BY <2>1, <2>2, <2>4 DEF RegionFrames
<1> QED
  BY <1>2, <1>5, <1>6

LEMMA FramesFinite ==
  ASSUME map \in Maps
  PROVE  /\ IsFiniteSet(Frames(map)) /\ Frames(map) \subseteq Addresses
<1>1. Frames(map) \subseteq Addresses
  BY AllFrames DEF FramesBefore, RegionFrames
<1>2. IsFiniteSet(Addresses)
  BY FS_Interval, PageSize DEF Addresses
<1> QED
  BY <1>1, <1>2, FS_Subset

LEMMA SomeFrames ==
  ASSUME map \in Maps, NEW n \in Nat
  PROVE  FramesBefore(map, n) \subseteq Frames(map)
<1>1. \A i \in DOMAIN map : i < Len(map) + 1
  BY MapTyped
<1> QED
  BY <1>1, AllFrames DEF FramesBefore

LEMMA RegionInFrames ==
  ASSUME map \in Maps, NEW n \in DOMAIN map
  PROVE  RegionFrames(map, n) \subseteq Frames(map)
<1>1. n < Len(map) + 1
  BY MapTyped
<1> QED
  BY <1>1, AllFrames DEF FramesBefore

-----------------------------------------------------------------------------
(* The loops of init_pmm().                                                *)

LEMMA InitInv == Init => IInv
<1> SUFFICES ASSUME Init PROVE IInv
  OBVIOUS
<1>1. TypeInv
  BY TypeInit
<1>2. ToSet(pmm_stack) = {} /\ Len(pmm_stack) = 0
  BY DEF Init, ToSet
<1>3. FramesBefore(map, 1) = {}
  BY NoneBefore DEF Init
<1>4. IsFiniteSet({}) /\ Cardinality({}) = 0
  BY FS_EmptySet
<1>5. Found
  BY <1>2, <1>3 DEF Found, Init
<1>6. Counted
  BY <1>2, <1>4 DEF Counted, Init
<1> QED
  BY <1>1, <1>5, <1>6 DEF IInv, WindowSet, Init

(* The frame init_pmm() is about to push is free and not yet on the stack. *)
LEMMA BeginIsNew ==
  ASSUME TypeInv, InRegion, begin < end
  PROVE  begin \in RegionFrames(map, mmap) /\ begin \notin ToSet(pmm_stack)
<1>1. begin \in Addresses /\ begin \in Nat /\ map \in Maps /\ mmap \in DOMAIN map
  BY PageSize DEF TypeInv, TypeOK, InRegion, Addresses
<1>2. begin \in RegionFrames(map, mmap)
  BY <1>1 DEF InRegion
<1>3. begin \notin FramesBefore(map, mmap)
  <2> SUFFICES ASSUME NEW i \in DOMAIN map, i < mmap PROVE begin \notin RegionFrames(map, i)
    BY DEF FramesBefore
  <2>1. i \in Nat /\ mmap \in Nat
    BY <1>1, MapTyped
  <2>2. i # mmap
    BY <2>1
  <2> QED
    BY <1>1, <1>2, <2>2, Disjoint
<1>4. begin \notin {a \in RegionFrames(map, mmap) : a < begin}
  BY <1>1
<1> QED
  BY <1>2, <1>3, <1>4 DEF InRegion

LEMMA TakeStep ==
  ASSUME Below4GB, IInv, TakeEntry
  PROVE  InRegion'
<1>1. map \in Maps /\ mmap \in DOMAIN map /\ boot = "scan"
  <2>1. map \in Maps /\ DOMAIN map = 1 .. Len(map) /\ Len(map) \in Nat
    BY MapTyped DEF IInv, TypeInv, TypeOK
  <2> QED
    BY <2>1 DEF IInv, TypeInv, TypeOK, TakeEntry
<1>2. Entry.type = AVAILABLE /\ RegionEnd >= kern_end
  BY DEF TakeEntry
<1>3. /\ map' = map /\ mmap' = mmap /\ pmm_stack' = pmm_stack
      /\ begin' = RegionBegin /\ end' = RegionEnd
  BY DEF TakeEntry
<1> DEFINE b == RegionBegin
           e == RegionEnd
<1>4. b \in Addresses /\ \E f \in Nat : b = f * P
  BY <1>1, <1>2, BeginRounded
<1>5. /\ \A a \in Addresses :
            (\E f \in Nat : a = f * P) /\ b <= a /\ a < e => a \in RegionFrames(map, mmap)
      /\ \A a \in RegionFrames(map, mmap) : b <= a /\ a < e
  BY <1>1, <1>2, TakenFrames
<1>6. {a \in RegionFrames(map, mmap) : a < b} = {}
  BY <1>4, <1>5, PageSize DEF RegionFrames, Addresses
<1>7. ToSet(pmm_stack) = FramesBefore(map, mmap)
  BY <1>1 DEF IInv, Found
<1>8. begin' = b /\ end' = e
  BY <1>3
<1> HIDE DEF b, e
<1> QED
  BY <1>1, <1>3, <1>4, <1>5, <1>6, <1>7, <1>8 DEF InRegion

LEMMA PushStep ==
  ASSUME Below4GB, IInv, PushFrame
  PROVE  InRegion' /\ Counted'
<1>1. TypeInv /\ InRegion /\ begin < end /\ Counted
  BY DEF IInv, Found, PushFrame
<1>2. /\ map \in Maps /\ mmap \in DOMAIN map /\ begin \in Addresses
      /\ begin \in Nat /\ end \in Nat /\ pmm_stack \in Seq(Addresses)
  BY <1>1, PageSize DEF TypeInv, TypeOK, InRegion, Addresses
<1>3. begin \in RegionFrames(map, mmap) /\ begin \notin ToSet(pmm_stack)
  BY <1>1, BeginIsNew
<1>4. /\ map' = map /\ mmap' = mmap /\ end' = end
      /\ pmm_stack' = Append(pmm_stack, begin)
      /\ phy_page_count' = phy_page_count + 1
      /\ begin' = Low(begin + P)
  BY DEF PushFrame, P
<1>5. ToSet(pmm_stack') = ToSet(pmm_stack) \cup {begin}
  BY <1>2, <1>4 DEF ToSet
<1>6. Len(pmm_stack') = Len(pmm_stack) + 1 /\ Len(pmm_stack) \in Nat
  BY <1>2, <1>4
<1>7. Counted'
  BY <1>1, <1>3, <1>4, <1>5, <1>6, FS_AddElement DEF Counted
<1>8. begin' = begin + P
  <2>1. map[mmap].type = AVAILABLE /\ begin + P <= After(map[mmap])
    BY <1>3 DEF RegionFrames
  <2>2. After(map[mmap]) <= Word - P /\ After(map[mmap]) \in Nat
    BY <1>2, <2>1, RegionTop, EntryTyped DEF Entry
  <2>3. begin + P \in Addresses
    BY <1>2, <2>1, <2>2, PageSize DEF Addresses
  <2> QED
    BY <1>4, <2>3, LowSmall
<1>9. PICK f \in Nat : begin = f * P
  BY <1>1 DEF InRegion
<1>10. begin' = (f + 1) * P /\ f + 1 \in Nat
  BY <1>8, <1>9, PageSize
<1>11. ASSUME NEW a \in RegionFrames(map, mmap)
       PROVE  a < begin' <=> a < begin \/ a = begin
  <2>1. PICK g \in Nat : a = g * P
    BY DEF RegionFrames
  <2>2. a \in Nat
    BY DEF RegionFrames, Addresses
  <2>3. begin < a => begin + P <= a
    BY <1>9, <2>1, NextMultiple
  <2> QED
    BY <1>2, <1>8, <2>2, <2>3, PageSize
<1>12. ToSet(pmm_stack') =
         FramesBefore(map, mmap) \cup {a \in RegionFrames(map, mmap) : a < begin'}
  <2>1. ToSet(pmm_stack) =
          FramesBefore(map, mmap) \cup {a \in RegionFrames(map, mmap) : a < begin}
    BY <1>1 DEF InRegion
  <2> QED
    BY <1>3, <1>5, <1>11, <2>1
<1>13. \A a \in Addresses :
         (\E g \in Nat : a = g * P) /\ begin' <= a /\ a < end
           => a \in RegionFrames(map, mmap)
  <2> SUFFICES ASSUME NEW a \in Addresses, \E g \in Nat : a = g * P,
                      begin' <= a, a < end
               PROVE  a \in RegionFrames(map, mmap)
    OBVIOUS
  <2>1. begin <= a
    BY <1>2, <1>8, PageSize DEF Addresses
  <2> QED
    BY <1>1, <2>1 DEF InRegion
<1>14. \A a \in RegionFrames(map, mmap) : a < end
  BY <1>1 DEF InRegion
<1>15. InRegion'
  BY <1>2, <1>4, <1>10, <1>12, <1>13, <1>14 DEF InRegion
<1> QED
  BY <1>7, <1>15

(* A step does not go back over the map.                                   *)
LEMMA StillBelow ==
  ASSUME TypeInv, [Next]_vars, Below4GB'
  PROVE  Below4GB
<1>1. map \in Maps /\ mmap \in Nat
  BY MapTyped DEF TypeInv, TypeOK
<1>2. map' = map /\ (mmap' = mmap \/ mmap' = mmap + 1)
  BY DEF Next, SkipEntry, TakeEntry, PushFrame, OutOfStack, NextEntry, InitVmm, vars
<1>3. \A i \in DOMAIN map : i \in Nat
  BY <1>1, EntryTyped
<1> QED
  BY <1>1, <1>2, <1>3 DEF Below4GB

LEMMA FoundStep ==
  ASSUME Below4GB, IInv, [Next]_vars
  PROVE  Found' /\ Counted'
<1>1. TypeInv /\ Found /\ Counted
  BY DEF IInv
<1>2. map \in Maps /\ DOMAIN map = 1 .. Len(map) /\ Len(map) \in Nat
  BY <1>1, MapTyped DEF TypeInv, TypeOK
<1>3. CASE SkipEntry
  <2>1. mmap \in DOMAIN map
    BY <1>1, <1>2, <1>3 DEF SkipEntry, TypeInv, TypeOK
  <2>2. RegionFrames(map, mmap) = {}
    BY <1>2, <1>3, <2>1, SkippedEmpty DEF SkipEntry
  <2>3. FramesBefore(map, mmap + 1) = FramesBefore(map, mmap)
    BY <1>2, <2>1, <2>2, OneMoreRegion
  <2>4. Found'
    BY <1>1, <1>3, <2>3 DEF SkipEntry, Found
  <2>5. Counted'
    BY <1>1, <1>3 DEF SkipEntry, Counted
  <2> QED
    BY <2>4, <2>5
<1>4. CASE TakeEntry
  <2>1. InRegion'
    BY <1>4, TakeStep
  <2>2. Found'
    BY <1>4, <2>1 DEF TakeEntry, Found
  <2>3. Counted'
    BY <1>1, <1>4 DEF TakeEntry, Counted
  <2> QED
    BY <2>2, <2>3
<1>5. CASE PushFrame
  <2>1. InRegion' /\ Counted'
    BY <1>5, PushStep
  <2>2. Found'
    BY <1>1, <1>5, <2>1 DEF PushFrame, Found
  <2> QED
    BY <2>1, <2>2
<1>6. CASE OutOfStack
  <2>1. Found'
    BY <1>1, <1>6 DEF OutOfStack, Found, InRegion, Full
  <2>2. Counted'
    BY <1>1, <1>6 DEF OutOfStack, Counted
  <2> QED
    BY <2>1, <2>2
<1>7. CASE NextEntry
  <2>1. InRegion /\ ~(begin < end) /\ mmap \in DOMAIN map
    BY <1>1, <1>7 DEF NextEntry, Found, InRegion, TypeInv, TypeOK
  <2>2. begin \in Nat /\ end \in Nat
    BY <1>1, PageSize DEF TypeInv, TypeOK
  <2>3. ASSUME NEW a \in RegionFrames(map, mmap) PROVE a < begin
    <3>1. a < end
      BY <2>1 DEF InRegion
    <3>2. a \in Nat
      BY DEF RegionFrames, Addresses
    <3> QED
      BY <2>1, <2>2, <3>1, <3>2
  <2>4. ToSet(pmm_stack) = FramesBefore(map, mmap) \cup RegionFrames(map, mmap)
    BY <2>1, <2>3 DEF InRegion
  <2>5. ToSet(pmm_stack) = FramesBefore(map, mmap + 1)
    BY <1>2, <2>1, <2>4, OneMoreRegion
  <2>6. Found'
    BY <1>7, <2>5 DEF NextEntry, Found
  <2>7. Counted'
    BY <1>1, <1>7 DEF NextEntry, Counted
  <2> QED
    BY <2>6, <2>7
<1>8. CASE InitVmm
  <2>1. mmap = Len(map) + 1
    BY <1>1, <1>2, <1>8 DEF InitVmm, TypeInv, TypeOK
  <2>2. Found'
    BY <1>1, <1>8, <2>1 DEF InitVmm, Found
  <2>3. Counted'
    BY <1>1, <1>8 DEF InitVmm, Counted
  <2> QED
    BY <2>2, <2>3
<1>9. CASE UNCHANGED vars
  BY <1>1, <1>9 DEF vars, Found, InRegion, Full, Counted
<1> QED
  BY <1>3, <1>4, <1>5, <1>6, <1>7, <1>8, <1>9 DEF Next

LEMMA NextInv == IInv /\ [Next]_vars => IInv'
<1> SUFFICES ASSUME IInv, [Next]_vars PROVE IInv'
  OBVIOUS
<1>1. TypeInv /\ WindowSet /\ TypeInv'
  BY TypeStep DEF IInv
<1>2. WindowSet'
  BY <1>1 DEF WindowSet, Window, Next, SkipEntry, TakeEntry, PushFrame, OutOfStack,
     NextEntry, InitVmm, vars
<1>3. Below4GB' => Found' /\ Counted'
  BY <1>1, StillBelow, FoundStep
<1> QED
  BY <1>1, <1>2, <1>3 DEF IInv

LEMMA InvExact == IInv => FindsExactlyTheFrames
<1> SUFFICES ASSUME IInv, Below4GB PROVE FindsExactlyTheFrames
  BY DEF FindsExactlyTheFrames
<1>1. TypeInv /\ Found /\ Counted /\ map \in Maps
  BY DEF IInv, TypeInv, TypeOK
<1>2. ToSet(pmm_stack) \subseteq Frames(map)
  <2>1. mmap \in Nat /\ Len(map) + 1 \in Nat
    BY <1>1, MapTyped DEF TypeInv, TypeOK
  <2>2. FramesBefore(map, mmap) \subseteq Frames(map)
    BY <1>1, <2>1, SomeFrames
  <2>3. boot \in {"push", "panic"} => InRegion
    BY <1>1 DEF Found
  <2>4. InRegion => ToSet(pmm_stack) \subseteq Frames(map)
    BY <1>1, <2>2, RegionInFrames DEF InRegion
  <2>5. boot \in {"scan", "push", "panic", "done"}
    BY <1>1 DEF TypeInv, TypeOK
  <2> QED
    BY <1>1, <2>2, <2>3, <2>4, <2>5, AllFrames DEF Found
<1>3. boot = "done" => ToSet(pmm_stack) = Frames(map)
  BY <1>1, AllFrames DEF Found
<1>4. ASSUME boot = "panic" PROVE Cardinality(Frames(map)) > PAGE_MAX_SIZE
  <2> DEFINE S == ToSet(pmm_stack)
             T == S \cup {begin}
             F == Frames(map)
  <2>1. InRegion /\ begin < end /\ Len(pmm_stack) = PAGE_MAX_SIZE
    BY <1>1, <1>4 DEF Found, Full
  <2>2. begin \in F /\ begin \notin S
    BY <1>1, <2>1, BeginIsNew, RegionInFrames DEF InRegion
  <2>3. IsFiniteSet(S) /\ Cardinality(S) = PAGE_MAX_SIZE
    BY <1>1, <2>1 DEF Counted
  <2>4. IsFiniteSet(F) /\ S \subseteq F
    BY <1>1, <1>2, FramesFinite
  <2>5. PAGE_MAX_SIZE \in Nat
    BY BootAssumption
  <2> HIDE DEF S, F
  <2>6. Cardinality(T) = PAGE_MAX_SIZE + 1
    BY <2>2, <2>3, FS_AddElement
  <2>7. T \in SUBSET F
    BY <2>2, <2>4
  <2> HIDE DEF T
  <2>8. Cardinality(T) <= Cardinality(F) /\ Cardinality(F) \in Nat
    BY <2>4, <2>7, FS_Subset, FS_CardinalityType
  <2>9. Cardinality(F) > PAGE_MAX_SIZE
    BY <2>5, <2>6, <2>8
  <2> QED
    BY <2>9 DEF F
<1> QED
  BY <1>1, <1>2, <1>3, <1>4 DEF FindsExactlyTheFrames, Counted

LEMMA InvReachable == IInv => SmallMemoryReachable
<1> SUFFICES ASSUME IInv, boot = "done", NEW j \in DOMAIN pmm_stack,
                    \A i \in DOMAIN map :
                      map[i].type = AVAILABLE => After(map[i]) <= PMM_MAX_SIZE
             PROVE  pmm_stack[j] \div PMM_PAGE_SIZE \in window
  BY DEF SmallMemoryReachable, FramesReachable
<1>0. Below4GB /\ map \in Maps
  <2>1. map \in Maps
    BY DEF IInv, TypeInv, TypeOK
  <2>2. ASSUME NEW i \in DOMAIN map, map[i].type = AVAILABLE
        PROVE  After(map[i]) <= Word - PMM_PAGE_SIZE
    <3>1. After(map[i]) <= PMM_MAX_SIZE /\ After(map[i]) \in Nat
      BY <2>1, <2>2, EntryTyped
    <3> QED
      BY <3>1, PageSize, BootAssumption DEF P
  <2> QED
    BY <2>1, <2>2 DEF Below4GB
<1>1. map \in Maps /\ window = Window /\ ToSet(pmm_stack) = FramesBefore(map, Len(map) + 1)
  BY <1>0 DEF IInv, Found, WindowSet
<1>2. PICK i \in DOMAIN map : pmm_stack[j] \in RegionFrames(map, i)
  BY <1>1 DEF FramesBefore, ToSet
<1> DEFINE a == pmm_stack[j]
<1>3. /\ a \in Nat /\ kern_end <= a /\ a + P <= After(map[i])
      /\ map[i].type = AVAILABLE /\ \E f \in Nat : a = f * P
  BY <1>2 DEF RegionFrames, Addresses
<1>4. a + P <= PMM_MAX_SIZE /\ 0 < a
  <2>1. After(map[i]) <= PMM_MAX_SIZE /\ After(map[i]) \in Nat
    BY <1>1, <1>3, EntryTyped
  <2> QED
    BY <1>3, <2>1, PageSize, BootAssumption
<1>5. /\ PAGE_MAX_SIZE \in Nat /\ PMM_MAX_SIZE = PAGE_MAX_SIZE * P
      /\ PTE_COUNT * PTE_SIZE = PAGE_MAX_SIZE
  <2>1. /\ PMM_MAX_SIZE = (PMM_MAX_SIZE \div P) * P + (PMM_MAX_SIZE % P)
        /\ PMM_MAX_SIZE \div P \in Nat
    BY PageSize
  <2>2. PMM_MAX_SIZE % P = 0 /\ (PMM_MAX_SIZE \div P) * P \in Nat
    BY <2>1, PageSize, BootAssumption DEF P
  <2>3. PMM_MAX_SIZE = (PMM_MAX_SIZE \div P) * P
    BY <2>1, <2>2
  <2>4. PAGE_MAX_SIZE = PMM_MAX_SIZE \div P
    BY DEF PAGE_MAX_SIZE, P
  <2>5. PTE_COUNT * PTE_SIZE = PAGE_MAX_SIZE
    BY BootAssumption
  <2> QED
    BY <2>1, <2>3, <2>4, <2>5
<1> HIDE DEF a
<1>6. PICK f \in Nat : a = f * P
  BY <1>3
<1> DEFINE n == PAGE_MAX_SIZE
<1>7. n \in Nat /\ f * P + P <= n * P /\ 0 < f * P
  BY <1>4, <1>5, <1>6
<1>8. Window = 1 .. n - 1
  BY <1>5 DEF Window
<1> HIDE DEF n
<1>9. f \in 1 .. n - 1
  BY <1>7, PageSize
<1>10. a \div P = f
  BY <1>6, PageSize
<1> QED
  BY <1>1, <1>8, <1>9, <1>10 DEF a, P

LEMMA Invariant == Spec => []IInv
  BY InitInv, NextInv, PTL DEF Spec

(* On every map, until init_pmm() meets a region above 4 GB, it pushes the *)
(* frames that lie whole in available memory behind the kernel, all of     *)
(* them and each once, or panics because there are more than the stack can *)
(* hold.                                                                   *)
THEOREM FindsExactly == Spec => []FindsExactlyTheFrames
  BY Invariant, InvExact, PTL

(* If all available memory ends by PMM_MAX_SIZE, init_vmm() has mapped     *)
(* every one of those frames for the kernel.                               *)
THEOREM AllReachable == Spec => []SmallMemoryReachable
  BY Invariant, InvReachable, PTL
=============================================================================
