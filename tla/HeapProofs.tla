----------------------------- MODULE HeapProofs -----------------------------
(***************************************************************************)
(* The kernel heap, for every size of page, of page table and of header,   *)
(* every set of requests and every frame stack init_pmm() leaves: the list *)
(* of chunks tiles the mapped pages, no frame has two owners, and callers  *)
(* see the allocator of Allocator.                                         *)
(***************************************************************************)
EXTENDS HeapLists, FiniteSetTheorems

(* A request behind everything the frames can hold still ends below the    *)
(* top of the address space.  Where it does not, len and cur wrap and the  *)
(* properties do not hold.                                                 *)
Roomy == \A s \in BootStacks :
           /\ HEAP_START + Len(s) * PAGE_SIZE < Word
           /\ \A n \in Requests : HEAP_START + Len(s) * PAGE_SIZE + n + HeaderSize < Word

IsPage(a) == a \in Nat /\ a % PAGE_SIZE = 0
PageCount == (heap_max - HEAP_START) \div PAGE_SIZE
Limit == HEAP_START + phy_page_count * PAGE_SIZE

(* What init_pmm() found stays, and there is room for it.                  *)
Bounds == /\ phy_page_count \in Nat /\ phy_page_count <= PAGE_MAX_SIZE
          /\ Limit < Word
          /\ \A n \in Requests : Limit + n + HeaderSize < Word
          /\ IsPage(heap_max) /\ HEAP_START <= heap_max /\ heap_max <= Limit

(* A page table has an entry for each of its pages; what is mapped are the *)
(* pages of the heap.                                                      *)
TablesTyped(t, d) ==
  /\ t \in [DOMAIN t -> Frames \cup {NoFrame}]
  /\ d \in [DOMAIN d -> Frames] /\ IsFiniteSet(DOMAIN d)
  /\ \A p \in DOMAIN t : IsPage(p)
  /\ \A i \in DOMAIN d : PagesOf(i) \subseteq DOMAIN t
  /\ \A p \in DOMAIN t : t[p] # NoFrame => PGD_INDEX(p) \in DOMAIN d

HeapMapped(t, m) ==
  /\ \A p \in DOMAIN t : t[p] # NoFrame => HEAP_START <= p /\ p < m
  /\ \A p \in HEAP_START .. m - 1 : IsPage(p) => p \in DOMAIN t /\ t[p] # NoFrame

(* The frames of the stack s, of the pages in t and of the tables d.       *)
OneOwner(s, t, d) ==
  /\ \A i, j \in DOMAIN s : s[i] = s[j] => i = j
  /\ \A p, q \in DOMAIN t : t[p] = t[q] /\ t[p] # NoFrame => p = q
  /\ \A i, j \in DOMAIN d : d[i] = d[j] => i = j
  /\ \A i \in DOMAIN s, p \in DOMAIN t : s[i] # t[p]
  /\ \A i \in DOMAIN s, j \in DOMAIN d : s[i] # d[j]
  /\ \A p \in DOMAIN t, j \in DOMAIN d : t[p] # d[j]

Counted == pc # "panic" =>
             Len(pmm_stack) + PageCount + Cardinality(DOMAIN pgd) = phy_page_count

Coherent(c, t) == /\ c \in [DOMAIN c -> Frames]
                  /\ \A p \in DOMAIN c : p \in DOMAIN t /\ t[p] = c[p]

PagesInv == /\ Bounds /\ pmm_stack \in Seq(Frames)
            /\ TablesTyped(pte, pgd) /\ HeapMapped(pte, heap_max)
            /\ OneOwner(pmm_stack, pte, pgd) /\ Counted /\ Coherent(tlb, pte)

(* The chunks in use are those of the pointers callers hold.               *)
Held(h, l) ==
  /\ DOMAIN l \subseteq Nat /\ l \in [DOMAIN l -> Nat]
  /\ \A p \in DOMAIN l : p - HeaderSize \in InUse(h)
                         /\ h[p - HeaderSize].length >= l[p] + HeaderSize
  /\ \A c \in InUse(h) : c + HeaderSize \in DOMAIN l

FirstRight == pc \notin {"grow", "panic"} =>
                heap_first = IF DOMAIN hdr = {} THEN NULL ELSE HEAP_START

(* Where the walk stands, and what it looks for.                           *)
Cursor ==
  /\ pc \in {"ready", "walk", "grow", "shrink", "panic"}
  /\ pc = "walk" => \/ prev = NULL /\ cur = heap_first
                    \/ prev \in DOMAIN hdr /\ cur = hdr[prev].next
  /\ pc \in {"walk", "grow", "panic"} => \E n \in Requests : len = n + HeaderSize
  /\ pc = "grow" => /\ AtEnd(hdr, prev, cur)
                    /\ heap_first = HEAP_START
                    /\ heap_max <= cur + len + PAGE_SIZE
  /\ pc = "shrink" => EndsAt(hdr, cur)

(* The list ends on the heap's pages and, while nothing is to be released, *)
(* at most a page before their end.                                        *)
EndsOnPages == \E x \in HEAP_START .. heap_max :
                 EndsAt(hdr, x) /\ (pc \in {"ready", "walk"} => heap_max <= x + PAGE_SIZE)

ListInv == /\ Listed(hdr) /\ NoFreePair(hdr) /\ Held(hdr, live)
           /\ FirstRight /\ Cursor /\ EndsOnPages

IInv == PagesInv /\ ListInv


-----------------------------------------------------------------------------
(* Page arithmetic.                                                        *)

LEMMA Multiple ==
  ASSUME NEW q \in Nat
  PROVE  q * PAGE_SIZE \in Nat /\ IsPage(q * PAGE_SIZE) /\ (q * PAGE_SIZE) \div PAGE_SIZE = q
<1> DEFINE m == q * PAGE_SIZE
           d == m \div PAGE_SIZE
           r == m % PAGE_SIZE
<1>1. m \in Nat
  BY Sizes
<1>2. d \in Nat /\ r \in 0 .. PAGE_SIZE - 1 /\ m = d * PAGE_SIZE + r
  <2> HIDE DEF m
  <2> QED
    BY <1>1, Sizes
<1>3. m = q * PAGE_SIZE
  OBVIOUS
<1> HIDE DEF m, d, r
<1>4. ~(q > d)
  <2> SUFFICES ASSUME q > d PROVE FALSE
    OBVIOUS
  <2>1. q * PAGE_SIZE >= (d + 1) * PAGE_SIZE
    BY <1>2, Sizes
  <2>2. (d + 1) * PAGE_SIZE = d * PAGE_SIZE + PAGE_SIZE /\ d * PAGE_SIZE \in Nat
    BY <1>2, Sizes
  <2> QED
    BY <1>1, <1>2, <1>3, <2>1, <2>2, Sizes
<1>5. ~(q < d)
  <2> SUFFICES ASSUME q < d PROVE FALSE
    OBVIOUS
  <2>1. d * PAGE_SIZE >= (q + 1) * PAGE_SIZE
    BY <1>2, Sizes
  <2>2. (q + 1) * PAGE_SIZE = q * PAGE_SIZE + PAGE_SIZE /\ d * PAGE_SIZE \in Nat
    BY <1>2, Sizes
  <2> QED
    BY <1>1, <1>2, <1>3, <2>1, <2>2, Sizes
<1>6. q = d
  BY <1>2, <1>4, <1>5
<1>7. r = 0
  BY <1>1, <1>2, <1>3, <1>6
<1>8. m % PAGE_SIZE = r /\ m \div PAGE_SIZE = d
  BY DEF d, r
<1> QED
  BY <1>1, <1>3, <1>6, <1>7, <1>8 DEF IsPage

LEMMA PageNumber ==
  ASSUME NEW a, IsPage(a)
  PROVE  \E q \in Nat : a = q * PAGE_SIZE
<1>1. a \in Nat /\ a % PAGE_SIZE = 0
  BY DEF IsPage
<1>2. a \div PAGE_SIZE \in Nat /\ a = (a \div PAGE_SIZE) * PAGE_SIZE + (a % PAGE_SIZE)
  BY <1>1, Sizes
<1>3. (a \div PAGE_SIZE) * PAGE_SIZE \in Nat
  BY <1>2, Sizes
<1>4. a = (a \div PAGE_SIZE) * PAGE_SIZE
  BY <1>1, <1>2, <1>3
<1> QED
  BY <1>2, <1>4

LEMMA PageNext ==
  ASSUME NEW a, IsPage(a)
  PROVE  IsPage(a + PAGE_SIZE)
<1>1. PICK q \in Nat : a = q * PAGE_SIZE
  BY PageNumber
<1>2. a + PAGE_SIZE = (q + 1) * PAGE_SIZE /\ q + 1 \in Nat
  BY <1>1, Sizes
<1> QED
  BY <1>2, Multiple

LEMMA PageGap ==
  ASSUME NEW a, IsPage(a), NEW b, IsPage(b), a < b
  PROVE  a + PAGE_SIZE <= b
<1>1. PICK q \in Nat : a = q * PAGE_SIZE
  BY PageNumber
<1>2. PICK r \in Nat : b = r * PAGE_SIZE
  BY PageNumber
<1>3. ~(r <= q)
  <2>1. r <= q => r * PAGE_SIZE <= q * PAGE_SIZE
    BY Sizes
  <2> QED
    BY <1>1, <1>2, <2>1, Sizes
<1>4. (q + 1) * PAGE_SIZE <= r * PAGE_SIZE
  BY <1>3, Sizes
<1> QED
  BY <1>1, <1>2, <1>4, Sizes

LEMMA PageDiff ==
  ASSUME NEW a, IsPage(a), NEW b, IsPage(b), a <= b
  PROVE  IsPage(b - a) /\ b = a + ((b - a) \div PAGE_SIZE) * PAGE_SIZE
         /\ (b - a) \div PAGE_SIZE \in Nat
<1>1. PICK q \in Nat : a = q * PAGE_SIZE
  BY PageNumber
<1>2. PICK r \in Nat : b = r * PAGE_SIZE
  BY PageNumber
<1>3. q <= r
  <2>1. r < q => r * PAGE_SIZE < q * PAGE_SIZE
    BY Sizes
  <2> QED
    BY <1>1, <1>2, <2>1, Sizes
<1>4. r - q \in Nat /\ b - a = (r - q) * PAGE_SIZE /\ a \in Nat /\ b \in Nat
  BY <1>1, <1>2, <1>3, Sizes
<1>5. IsPage(b - a) /\ (b - a) \div PAGE_SIZE = r - q
  BY <1>4, Multiple
<1>6. b = a + (b - a)
  BY <1>4
<1> QED
  BY <1>4, <1>5, <1>6

LEMMA PageBefore ==
  ASSUME NEW a, IsPage(a), a >= PAGE_SIZE
  PROVE  IsPage(a - PAGE_SIZE)
<1>1. IsPage(PAGE_SIZE)
  <2>1. PAGE_SIZE = 1 * PAGE_SIZE
    BY Sizes
  <2> QED
    BY <2>1, Multiple
<1> QED
  BY <1>1, PageDiff

LEMMA OnePageMore ==
  ASSUME NEW a, IsPage(a), NEW b, IsPage(b), a <= b
  PROVE  ((b + PAGE_SIZE) - a) \div PAGE_SIZE = ((b - a) \div PAGE_SIZE) + 1
<1> DEFINE k == (b - a) \div PAGE_SIZE
<1>1. k \in Nat /\ b = a + k * PAGE_SIZE
  BY PageDiff
<1> HIDE DEF k
<1>2. a \in Nat /\ b \in Nat
  BY DEF IsPage
<1>3. (b + PAGE_SIZE) - a = (k + 1) * PAGE_SIZE
  <2>1. k * PAGE_SIZE \in Nat /\ (k + 1) * PAGE_SIZE = k * PAGE_SIZE + PAGE_SIZE
    BY <1>1, Sizes
  <2> QED
    BY <1>1, <1>2, <2>1, Sizes
<1>4. ((k + 1) * PAGE_SIZE) \div PAGE_SIZE = k + 1
  BY <1>1, Multiple
<1> QED
  BY <1>3, <1>4 DEF k

LEMMA StartIsPage == IsPage(HEAP_START)
  BY HeapAssumption DEF IsPage

(* The page of an address.                                                 *)
LEMMA PageOf ==
  ASSUME NEW a \in Nat
  PROVE  /\ IsPage(a - (a % PAGE_SIZE))
         /\ a - (a % PAGE_SIZE) <= a /\ a < a - (a % PAGE_SIZE) + PAGE_SIZE
<1>1. /\ a \div PAGE_SIZE \in Nat /\ a % PAGE_SIZE \in 0 .. PAGE_SIZE - 1
      /\ a = (a \div PAGE_SIZE) * PAGE_SIZE + (a % PAGE_SIZE)
  BY Sizes
<1>2. (a \div PAGE_SIZE) * PAGE_SIZE \in Nat
  BY <1>1, Sizes
<1>3. a - (a % PAGE_SIZE) = (a \div PAGE_SIZE) * PAGE_SIZE
  BY <1>1, <1>2
<1>4. IsPage(a - (a % PAGE_SIZE))
  BY <1>1, <1>3, Multiple
<1> QED
  BY <1>1, <1>4, Sizes

(* A page is one of those its table maps, and those are pages.             *)
LEMMA PageInTable ==
  ASSUME NEW a, IsPage(a)
  PROVE  PGD_INDEX(a) \in Nat /\ a \in PagesOf(PGD_INDEX(a))
<1> DEFINE T == PAGE_SIZE * PTE_SIZE
           i == a \div T
<1>1. PTE_SIZE \in Nat /\ PTE_SIZE > 0
  BY PagingAssumption
<1>2. T \in Nat /\ T > 0
  BY <1>1, Sizes
<1>3. PICK q \in Nat : a = q * PAGE_SIZE
  BY PageNumber
<1>4. a \in Nat
  BY DEF IsPage
<1>5. i \in Nat /\ a % T \in 0 .. T - 1 /\ a = i * T + (a % T)
  <2> HIDE DEF T
  <2> QED
    BY <1>2, <1>4
<1> HIDE DEF i
<1> DEFINE j == i * PTE_SIZE
<1>6. j \in Nat /\ i * T = j * PAGE_SIZE
  BY <1>1, <1>5, Sizes
<1>7. j <= q
  <2> SUFFICES ASSUME q < j PROVE FALSE
    BY <1>6
  <2> HIDE DEF j, T
  <2>1. q * PAGE_SIZE < j * PAGE_SIZE
    BY <1>6, Sizes
  <2>2. q * PAGE_SIZE \in Nat /\ j * PAGE_SIZE \in Nat
    BY <1>6, Sizes
  <2> QED
    BY <1>2, <1>3, <1>5, <1>6, <2>1, <2>2
<1>8. q - j < PTE_SIZE
  <2> SUFFICES ASSUME q - j >= PTE_SIZE PROVE FALSE
    BY <1>1, <1>6
  <2>1. q >= j + PTE_SIZE
    BY <1>1, <1>6
  <2>2. q * PAGE_SIZE >= (j + PTE_SIZE) * PAGE_SIZE
    BY <1>1, <1>6, <2>1, Sizes
  <2>3. (j + PTE_SIZE) * PAGE_SIZE = j * PAGE_SIZE + T
    BY <1>1, <1>6, Sizes
  <2>4. j * PAGE_SIZE \in Nat
    BY <1>6, Sizes
  <2> HIDE DEF j, T
  <2> QED
    BY <1>2, <1>3, <1>5, <1>6, <2>2, <2>3, <2>4
<1>9. q - j \in 0 .. PTE_SIZE - 1 /\ a = (i * PTE_SIZE + (q - j)) * PAGE_SIZE
  BY <1>1, <1>3, <1>6, <1>7, <1>8
<1>10. PGD_INDEX(a) = i
  BY DEF PGD_INDEX, i
<1> QED
  BY <1>5, <1>9, <1>10 DEF PagesOf

LEMMA TablePages ==
  ASSUME NEW i \in Nat, NEW p \in PagesOf(i)
  PROVE  IsPage(p)
<1>1. PICK k \in 0 .. PTE_SIZE - 1 : p = (i * PTE_SIZE + k) * PAGE_SIZE
  BY DEF PagesOf
<1>2. i * PTE_SIZE + k \in Nat
  BY PagingAssumption
<1> QED
  BY <1>1, <1>2, Multiple


-----------------------------------------------------------------------------
(* Frames and page tables.                                                 *)

LEMMA PopFields ==
  ASSUME NEW s \in Seq(Frames), s # << >>
  PROVE  /\ Pop(s) \in Seq(Frames) /\ Len(s) \in Nat /\ Len(s) > 0
         /\ Len(Pop(s)) = Len(s) - 1
         /\ Top(s) \in Frames /\ Len(s) \in DOMAIN s /\ Top(s) = s[Len(s)]
         /\ \A i \in DOMAIN Pop(s) : i \in DOMAIN s /\ i # Len(s) /\ Pop(s)[i] = s[i]
<1>1. Len(s) \in Nat /\ Len(s) > 0 /\ DOMAIN s = 1 .. Len(s)
  OBVIOUS
<1>2. \A i \in 1 .. Len(s) : s[i] \in Frames
  OBVIOUS
<1> DEFINE n == Len(s) - 1
<1>3. n \in Nat /\ n <= Len(s)
  BY <1>1
<1>4. Pop(s) = SubSeq(s, 1, n)
  BY DEF Pop
<1> HIDE DEF n
<1>5. Pop(s) = [i \in 1 .. n |-> s[i]]
  BY <1>1, <1>3, <1>4
<1>6. Pop(s) \in Seq(Frames) /\ Len(Pop(s)) = n /\ DOMAIN Pop(s) = 1 .. n
  BY <1>1, <1>2, <1>3, <1>5
<1>7. \A i \in DOMAIN Pop(s) : i \in DOMAIN s /\ i # Len(s) /\ Pop(s)[i] = s[i]
  BY <1>1, <1>5, <1>6 DEF n
<1> QED
  BY <1>1, <1>2, <1>6, <1>7 DEF n, Top

(* What map() makes of the page tables: m is mapped to f, the other        *)
(* entries of a new table are empty.                                       *)
Extended(t, u, m, f) ==
  /\ u \in [DOMAIN u -> Frames \cup {NoFrame}]
  /\ DOMAIN u = DOMAIN t \cup PagesOf(PGD_INDEX(m))
  /\ \A p \in DOMAIN u : u[p] = IF p = m THEN f ELSE IF p \in DOMAIN t THEN t[p] ELSE NoFrame

WithTable(d, e, m) == /\ e \in [DOMAIN e -> Frames]
                      /\ DOMAIN e = DOMAIN d \cup {PGD_INDEX(m)}

LEMMA MapTables ==
  ASSUME NEW t, NEW d, TablesTyped(t, d), NEW m, HeapMapped(t, m),
         IsPage(m), HEAP_START <= m, NEW f \in Frames,
         NEW u, Extended(t, u, m, f), NEW e, WithTable(d, e, m)
  PROVE  /\ TablesTyped(u, e) /\ HeapMapped(u, m + PAGE_SIZE)
         /\ m \in DOMAIN u /\ u[m] = f /\ (m \in DOMAIN t => t[m] = NoFrame)
<1> DEFINE i == PGD_INDEX(m)
<1>1. i \in Nat /\ m \in PagesOf(i) /\ m \in Nat
  BY PageInTable DEF IsPage
<1>2. \A p \in PagesOf(i) : IsPage(p)
  BY <1>1, TablePages
<1>i. i = PGD_INDEX(m)
  OBVIOUS
<1> HIDE DEF i
<1>3. /\ DOMAIN u = DOMAIN t \cup PagesOf(i) /\ DOMAIN e = DOMAIN d \cup {i}
      /\ \A p \in DOMAIN u : u[p] = IF p = m THEN f ELSE IF p \in DOMAIN t THEN t[p] ELSE NoFrame
  BY <1>i DEF Extended, WithTable
<1>t. u \in [DOMAIN u -> Frames \cup {NoFrame}] /\ e \in [DOMAIN e -> Frames]
  BY DEF Extended, WithTable
<1>4. m \in DOMAIN u /\ u[m] = f
  BY <1>1, <1>3
<1>5. m \in DOMAIN t => t[m] = NoFrame
  BY <1>1 DEF HeapMapped
<1>6. IsFiniteSet(DOMAIN e)
  BY <1>3, FS_AddElement DEF TablesTyped
<1>7. \A p \in DOMAIN u : IsPage(p)
  BY <1>2, <1>3 DEF TablesTyped
<1>8. \A j \in DOMAIN e : PagesOf(j) \subseteq DOMAIN u
  BY <1>3 DEF TablesTyped
<1>9. \A p \in DOMAIN u : u[p] # NoFrame => p = m \/ (p \in DOMAIN t /\ t[p] # NoFrame)
  BY <1>3
<1>10. \A p \in DOMAIN u : u[p] # NoFrame => PGD_INDEX(p) \in DOMAIN e
  <2>1. \A p \in DOMAIN t : t[p] # NoFrame => PGD_INDEX(p) \in DOMAIN d
    BY DEF TablesTyped
  <2> QED
    BY <1>3, <1>9, <1>i, <2>1
<1>11. TablesTyped(u, e)
  BY <1>t, <1>6, <1>7, <1>8, <1>10 DEF TablesTyped
<1>12. \A p \in DOMAIN u : u[p] # NoFrame => HEAP_START <= p /\ p < m + PAGE_SIZE
  <2>1. \A p \in DOMAIN t : t[p] # NoFrame => HEAP_START <= p /\ p < m
    BY DEF HeapMapped
  <2>2. \A p \in DOMAIN u : p \in Nat
    BY <1>7 DEF IsPage
  <2> QED
    BY <1>1, <1>9, <2>1, <2>2, Sizes
<1>13. ASSUME NEW p \in HEAP_START .. (m + PAGE_SIZE) - 1, IsPage(p)
       PROVE  p \in DOMAIN u /\ u[p] # NoFrame
  <2>1. CASE p < m
    <3>1. p \in HEAP_START .. m - 1
      BY <1>1, <2>1, Sizes
    <3>2. p \in DOMAIN t /\ t[p] # NoFrame
      BY <1>13, <3>1 DEF HeapMapped
    <3> QED
      BY <1>1, <1>3, <2>1, <3>2
  <2>2. CASE p > m
    <3>1. m + PAGE_SIZE <= p
      BY <1>13, <2>2, PageGap
    <3> QED
      BY <1>1, <1>13, <3>1, Sizes
  <2>3. CASE p = m
    BY <1>4, <2>3, PagingAssumption
  <2> QED
    BY <1>1, <2>1, <2>2, <2>3, Sizes
<1>14. HeapMapped(u, m + PAGE_SIZE)
  BY <1>12, <1>13 DEF HeapMapped
<1> QED
  BY <1>4, <1>5, <1>11, <1>14

(* The frame on top of the stack becomes a page.                           *)
LEMMA PageOwner ==
  ASSUME NEW s \in Seq(Frames), s # << >>, NEW t, NEW d,
         t \in [DOMAIN t -> Frames \cup {NoFrame}], d \in [DOMAIN d -> Frames],
         OneOwner(s, t, d), NEW m, m \in DOMAIN t => t[m] = NoFrame, NEW u, Extended(t, u, m, Top(s))
  PROVE  OneOwner(Pop(s), u, d)
<1>1. /\ Top(s) \in Frames /\ Len(s) \in DOMAIN s /\ Top(s) = s[Len(s)]
      /\ \A i \in DOMAIN Pop(s) : i \in DOMAIN s /\ i # Len(s) /\ Pop(s)[i] = s[i]
  BY PopFields
<1>2. ASSUME NEW p \in DOMAIN u
      PROVE  \/ p = m /\ u[p] = Top(s)
             \/ p # m /\ p \in DOMAIN t /\ u[p] = t[p]
             \/ p # m /\ u[p] = NoFrame
  <2>1. u[p] = IF p = m THEN Top(s) ELSE IF p \in DOMAIN t THEN t[p] ELSE NoFrame
    BY DEF Extended
  <2> QED
    BY <2>1
<1>3. \A i, j \in DOMAIN s : s[i] = s[j] => i = j
  BY DEF OneOwner
<1>4. \A i \in DOMAIN Pop(s) : s[i] # Top(s) /\ s[i] \in Frames
  BY <1>1, <1>3
<1>5. NoFrame \notin Frames
  BY PagingAssumption
<1>6. \A p \in DOMAIN t : t[p] # Top(s)
  BY <1>1 DEF OneOwner
<1>7. \A i, j \in DOMAIN Pop(s) : Pop(s)[i] = Pop(s)[j] => i = j
  BY <1>1, <1>3
<1>8. \A p, q \in DOMAIN u : u[p] = u[q] /\ u[p] # NoFrame => p = q
  <2>1. \A p, q \in DOMAIN t : t[p] = t[q] /\ t[p] # NoFrame => p = q
    BY DEF OneOwner
  <2> QED
    BY <1>2, <1>6, <2>1
<1>9. \A i \in DOMAIN Pop(s), p \in DOMAIN u : Pop(s)[i] # u[p]
  <2>1. \A i \in DOMAIN s, p \in DOMAIN t : s[i] # t[p]
    BY DEF OneOwner
  <2> QED
    BY <1>1, <1>2, <1>4, <1>5, <2>1
<1>10. \A i \in DOMAIN Pop(s), j \in DOMAIN d : Pop(s)[i] # d[j]
  BY <1>1 DEF OneOwner
<1>11. \A p \in DOMAIN u, j \in DOMAIN d : u[p] # d[j]
  <2>1. /\ \A p \in DOMAIN t, j \in DOMAIN d : t[p] # d[j]
        /\ \A j \in DOMAIN d : s[Len(s)] # d[j]
    BY <1>1 DEF OneOwner
  <2> QED
    BY <1>1, <1>2, <1>5, <2>1
<1> QED
  BY <1>7, <1>8, <1>9, <1>10, <1>11 DEF OneOwner


(* The frame on top of the stack becomes a page table.                     *)
LEMMA TableOwner ==
  ASSUME NEW s \in Seq(Frames), s # << >>, NEW t, NEW d, OneOwner(s, t, d),
         NEW i, i \notin DOMAIN d, NEW e, DOMAIN e = DOMAIN d \cup {i},
         \A j \in DOMAIN e : e[j] = IF j = i THEN Top(s) ELSE d[j]
  PROVE  OneOwner(Pop(s), t, e)
<1>1. /\ Len(s) \in DOMAIN s /\ Top(s) = s[Len(s)]
      /\ \A j \in DOMAIN Pop(s) : j \in DOMAIN s /\ j # Len(s) /\ Pop(s)[j] = s[j]
  BY PopFields
<1>2. \A j \in DOMAIN e : (j = i /\ e[j] = s[Len(s)]) \/ (j # i /\ j \in DOMAIN d /\ e[j] = d[j])
  BY <1>1
<1>3. /\ \A j, k \in DOMAIN s : s[j] = s[k] => j = k
      /\ \A p, q \in DOMAIN t : t[p] = t[q] /\ t[p] # NoFrame => p = q
      /\ \A j, k \in DOMAIN d : d[j] = d[k] => j = k
      /\ \A j \in DOMAIN s, p \in DOMAIN t : s[j] # t[p]
      /\ \A j \in DOMAIN s, k \in DOMAIN d : s[j] # d[k]
      /\ \A p \in DOMAIN t, k \in DOMAIN d : t[p] # d[k]
  BY DEF OneOwner
<1>4. \A j, k \in DOMAIN Pop(s) : Pop(s)[j] = Pop(s)[k] => j = k
  BY <1>1, <1>3
<1>5. \A j, k \in DOMAIN e : e[j] = e[k] => j = k
  BY <1>1, <1>2, <1>3
<1>6. \A j \in DOMAIN Pop(s), p \in DOMAIN t : Pop(s)[j] # t[p]
  BY <1>1, <1>3
<1>7. \A j \in DOMAIN Pop(s), k \in DOMAIN e : Pop(s)[j] # e[k]
  BY <1>1, <1>2, <1>3
<1>8. \A p \in DOMAIN t, k \in DOMAIN e : t[p] # e[k]
  BY <1>1, <1>2, <1>3
<1> QED
  BY <1>3, <1>4, <1>5, <1>6, <1>7, <1>8 DEF OneOwner

(* "out of memory" behind a page that was taken: the page is lost.         *)
LEMMA LostOwner ==
  ASSUME NEW s \in Seq(Frames), s # << >>, NEW t, NEW d, OneOwner(s, t, d)
  PROVE  OneOwner(Pop(s), t, d)
<1>1. \A j \in DOMAIN Pop(s) : j \in DOMAIN s /\ Pop(s)[j] = s[j]
  BY PopFields
<1> QED
  BY <1>1 DEF OneOwner

(* What unmap() makes of the tables, and the stack with the page's frame.  *)
Cleared(t, u, m) == /\ u \in [DOMAIN u -> Frames \cup {NoFrame}]
                    /\ DOMAIN u = DOMAIN t
                    /\ \A p \in DOMAIN u : u[p] = IF p = m THEN NoFrame ELSE t[p]

LEMMA UnmapTables ==
  ASSUME NEW t, NEW d, TablesTyped(t, d), NEW m, HeapMapped(t, m + PAGE_SIZE),
         IsPage(m), HEAP_START <= m,
         NEW u, Cleared(t, u, m)
  PROVE  /\ TablesTyped(u, d) /\ HeapMapped(u, m)
         /\ m \in DOMAIN t /\ t[m] \in Frames /\ PGD_INDEX(m) \in DOMAIN d
<1>1. /\ DOMAIN u = DOMAIN t /\ u \in [DOMAIN u -> Frames \cup {NoFrame}]
      /\ \A p \in DOMAIN u : u[p] = IF p = m THEN NoFrame ELSE t[p]
  BY DEF Cleared
<1>2. m \in Nat
  BY DEF IsPage
<1>3. m \in HEAP_START .. (m + PAGE_SIZE) - 1
  BY <1>2, Sizes
<1>4. m \in DOMAIN t /\ t[m] # NoFrame
  BY <1>3 DEF HeapMapped
<1>5. t[m] \in Frames /\ PGD_INDEX(m) \in DOMAIN d
  BY <1>4 DEF TablesTyped
<1>6. TablesTyped(u, d)
  BY <1>1 DEF TablesTyped
<1>7. ASSUME NEW p \in DOMAIN u, u[p] # NoFrame
      PROVE  HEAP_START <= p /\ p < m
  <2>1. p # m /\ p \in DOMAIN t /\ t[p] # NoFrame /\ IsPage(p)
    BY <1>1, <1>7 DEF TablesTyped
  <2>2. HEAP_START <= p /\ p < m + PAGE_SIZE
    BY <2>1 DEF HeapMapped
  <2>3. p > m => m + PAGE_SIZE <= p
    BY <2>1, PageGap
  <2>4. p \in Nat
    BY <2>1 DEF IsPage
  <2> QED
    BY <1>2, <2>1, <2>2, <2>3, <2>4, Sizes
<1>8. ASSUME NEW p \in HEAP_START .. m - 1, IsPage(p)
      PROVE  p \in DOMAIN u /\ u[p] # NoFrame
  <2>1. p \in HEAP_START .. (m + PAGE_SIZE) - 1 /\ p # m
    BY <1>2, Sizes
  <2>2. p \in DOMAIN t /\ t[p] # NoFrame
    BY <1>8, <2>1 DEF HeapMapped
  <2> QED
    BY <1>1, <2>1, <2>2
<1>9. HeapMapped(u, m)
  BY <1>7, <1>8 DEF HeapMapped
<1> QED
  BY <1>4, <1>5, <1>6, <1>9

LEMMA FreedOwner ==
  ASSUME NEW s \in Seq(Frames), NEW t, NEW d, OneOwner(s, t, d),
         d \in [DOMAIN d -> Frames],
         NEW m \in DOMAIN t, t[m] \in Frames, NEW u, Cleared(t, u, m)
  PROVE  OneOwner(Append(s, t[m]), u, d) /\ Append(s, t[m]) \in Seq(Frames)
<1> DEFINE r == Append(s, t[m])
           l == Len(s) + 1
<1>0. r \in Seq(Frames)
  OBVIOUS
<1>1. \A j \in DOMAIN r : (j = l /\ r[j] = t[m]) \/ (j # l /\ j \in DOMAIN s /\ r[j] = s[j])
  OBVIOUS
<1>2. \A j \in DOMAIN s : s[j] \in Frames
  OBVIOUS
<1> HIDE DEF r, l
<1>3. /\ DOMAIN u = DOMAIN t
      /\ \A p \in DOMAIN u : (p = m /\ u[p] = NoFrame) \/ (p # m /\ u[p] = t[p])
  BY DEF Cleared
<1>4. /\ \A j, k \in DOMAIN s : s[j] = s[k] => j = k
      /\ \A p, q \in DOMAIN t : t[p] = t[q] /\ t[p] # NoFrame => p = q
      /\ \A j, k \in DOMAIN d : d[j] = d[k] => j = k
      /\ \A j \in DOMAIN s, p \in DOMAIN t : s[j] # t[p]
      /\ \A j \in DOMAIN s, k \in DOMAIN d : s[j] # d[k]
      /\ \A p \in DOMAIN t, k \in DOMAIN d : t[p] # d[k]
  BY DEF OneOwner
<1>5. NoFrame \notin Frames /\ t[m] # NoFrame
  BY PagingAssumption
<1>6. \A j, k \in DOMAIN r : r[j] = r[k] => j = k
  BY <1>1, <1>4
<1>7. \A p, q \in DOMAIN u : u[p] = u[q] /\ u[p] # NoFrame => p = q
  BY <1>3, <1>4
<1>8. \A j \in DOMAIN r, p \in DOMAIN u : r[j] # u[p]
  BY <1>1, <1>2, <1>3, <1>4, <1>5
<1>9. \A j \in DOMAIN r, k \in DOMAIN d : r[j] # d[k]
  BY <1>1, <1>4
<1>10. \A p \in DOMAIN u, k \in DOMAIN d : u[p] # d[k]
  BY <1>3, <1>4, <1>5
<1>11. OneOwner(r, u, d)
  BY <1>4, <1>6, <1>7, <1>8, <1>9, <1>10 DEF OneOwner
<1> QED
  BY <1>0, <1>11 DEF r

(* A translation the processor holds stays right when that of m changes    *)
(* and is invalidated.                                                     *)
Dropped(c, b, m) == b = [p \in DOMAIN c \ {m} |-> c[p]]

LEMMA InvalidatedCoherent ==
  ASSUME NEW c, NEW t, Coherent(c, t), NEW m, NEW u, DOMAIN t \subseteq DOMAIN u,
         \A p \in DOMAIN t : p # m => u[p] = t[p],
         NEW b, Dropped(c, b, m)
  PROVE  Coherent(b, u)
  BY DEF Coherent, Dropped


-----------------------------------------------------------------------------
(* The steps of the frames and the page tables.                            *)

LEMMA BoundTypes ==
  ASSUME Bounds
  PROVE  /\ heap_max \in Nat /\ HEAP_START <= heap_max /\ heap_max <= Limit
         /\ Limit \in Nat /\ Limit < Word /\ heap_max < Word
         /\ PageCount \in Nat /\ heap_max = HEAP_START + PageCount * PAGE_SIZE
         /\ phy_page_count \in Nat
<1>1. /\ IsPage(heap_max) /\ HEAP_START <= heap_max /\ heap_max <= Limit /\ Limit < Word
      /\ phy_page_count \in Nat
  BY DEF Bounds
<1>2. heap_max \in Nat
  BY <1>1 DEF IsPage
<1>3. phy_page_count * PAGE_SIZE \in Nat
  BY <1>1, Sizes
<1>4. Limit \in Nat
  BY <1>3, Sizes DEF Limit
<1>5. PageCount \in Nat /\ heap_max = HEAP_START + PageCount * PAGE_SIZE
  BY <1>1, StartIsPage, PageDiff DEF PageCount
<1> QED
  BY <1>1, <1>2, <1>4, <1>5, Sizes

LEMMA FiniteTables ==
  ASSUME TablesTyped(pte, pgd)
  PROVE  /\ Cardinality(DOMAIN pgd) \in Nat
         /\ \A i : i \notin DOMAIN pgd =>
              Cardinality(DOMAIN pgd \cup {i}) = Cardinality(DOMAIN pgd) + 1
  BY FS_CardinalityType, FS_AddElement DEF TablesTyped

(* While frames are left the heap may take one more page.                  *)
LEMMA RoomForPage ==
  ASSUME Bounds, TablesTyped(pte, pgd), Counted, pc # "panic", Len(pmm_stack) \in Nat,
         Len(pmm_stack) > 0
  PROVE  heap_max + PAGE_SIZE <= Limit
<1>1. /\ PageCount \in Nat /\ phy_page_count \in Nat /\ heap_max \in Nat
      /\ heap_max = HEAP_START + PageCount * PAGE_SIZE
  BY BoundTypes
<1>2. Cardinality(DOMAIN pgd) \in Nat
  BY FiniteTables
<1>3. PageCount + 1 <= phy_page_count
  BY <1>1, <1>2 DEF Counted
<1>4. (PageCount + 1) * PAGE_SIZE <= phy_page_count * PAGE_SIZE
  BY <1>1, <1>3, Sizes
<1>5. /\ (PageCount + 1) * PAGE_SIZE = PageCount * PAGE_SIZE + PAGE_SIZE
      /\ PageCount * PAGE_SIZE \in Nat /\ phy_page_count * PAGE_SIZE \in Nat
  BY <1>1, Sizes
<1> QED
  BY <1>1, <1>4, <1>5, Sizes DEF Limit

LEMMA GrowPages == PagesInv /\ Grow => PagesInv'
<1> SUFFICES ASSUME PagesInv, Grow PROVE PagesInv'
  OBVIOUS
<1> DEFINE m == heap_max
           f == Top(pmm_stack)
           s == Pop(pmm_stack)
           i == PGD_INDEX(m)
<1>1. /\ pc = "grow" /\ pmm_stack # << >> /\ map(m, f, s)
      /\ heap_max' = Wrap(m + PAGE_SIZE)
      /\ phy_page_count' = phy_page_count /\ pc' = pc
  BY DEF Grow
<1>2. /\ Bounds /\ pmm_stack \in Seq(Frames) /\ TablesTyped(pte, pgd)
      /\ HeapMapped(pte, m) /\ OneOwner(pmm_stack, pte, pgd) /\ Counted /\ Coherent(tlb, pte)
  BY DEF PagesInv
<1>3. /\ s \in Seq(Frames) /\ f \in Frames /\ Len(pmm_stack) \in Nat /\ Len(pmm_stack) > 0
      /\ Len(s) = Len(pmm_stack) - 1
  BY <1>1, <1>2, PopFields
<1>4. IsPage(m) /\ HEAP_START <= m /\ m \in Nat
  BY <1>2 DEF Bounds, IsPage
<1>5. heap_max' = m + PAGE_SIZE /\ m + PAGE_SIZE <= Limit
  <2>1. m + PAGE_SIZE <= Limit
    BY <1>1, <1>2, <1>3, RoomForPage
  <2>2. Limit < Word /\ Limit \in Nat
    BY <1>2, BoundTypes
  <2>3. ~(m + PAGE_SIZE >= Word)
    BY <1>4, <2>1, <2>2, Sizes
  <2> QED
    BY <1>1, <2>1, <2>3 DEF Wrap
<1>6. Bounds'
  <2>1. IsPage(m + PAGE_SIZE)
    BY <1>4, PageNext
  <2>2. Limit' = Limit
    BY <1>1 DEF Limit
  <2>3. HEAP_START <= m + PAGE_SIZE
    BY <1>4, Sizes
  <2> QED
    BY <1>1, <1>2, <1>5, <2>1, <2>2, <2>3 DEF Bounds, IsPage
<1>7. PageCount' = PageCount + 1
  BY <1>4, <1>5, StartIsPage, OnePageMore DEF PageCount
<1>8. Dropped(tlb, tlb', m)
  BY <1>1 DEF map, Invalidated, Dropped
<1>i. i \in Nat /\ m \in PagesOf(i)
  BY <1>4, PageInTable
<1>9. CASE i \in DOMAIN pgd
  <2>1. /\ pmm_stack' = s /\ pte' = [pte EXCEPT ![m] = f] /\ pgd' = pgd
    BY <1>1, <1>9 DEF map
  <2>2. PagesOf(i) \subseteq DOMAIN pte /\ pte \in [DOMAIN pte -> Frames \cup {NoFrame}]
        /\ pgd \in [DOMAIN pgd -> Frames]
    BY <1>2, <1>9 DEF TablesTyped
  <2>3. pte' \in [DOMAIN pte' -> Frames \cup {NoFrame}] /\ DOMAIN pte' = DOMAIN pte
    BY <1>3, <2>1, <2>2
  <2>4. Extended(pte, pte', m, f)
    BY <1>i, <2>1, <2>2, <2>3 DEF Extended
  <2>5. WithTable(pgd, pgd', m)
    BY <1>9, <2>1, <2>2 DEF WithTable
  <2>6. /\ TablesTyped(pte', pgd') /\ HeapMapped(pte', m + PAGE_SIZE)
        /\ m \in DOMAIN pte => pte[m] = NoFrame
    <3> HIDE DEF m, f
    <3> QED
      BY <1>2, <1>3, <1>4, <2>4, <2>5, MapTables
  <2>7. OneOwner(s, pte', pgd)
    BY <1>1, <1>2, <2>2, <2>4, <2>6, PageOwner
  <2>8. Counted'
    <3>1. Len(pmm_stack') = Len(pmm_stack) - 1 /\ Cardinality(DOMAIN pgd') = Cardinality(DOMAIN pgd)
      BY <1>3, <2>1
    <3>2. PageCount \in Nat /\ Cardinality(DOMAIN pgd) \in Nat
      BY <1>2, BoundTypes, FiniteTables
    <3> QED
      BY <1>1, <1>2, <1>3, <1>7, <3>1, <3>2 DEF Counted
  <2>9. Coherent(tlb', pte')
    <3>1. \A p \in DOMAIN pte : p # m => pte'[p] = pte[p]
      BY <2>1
    <3> HIDE DEF m
    <3> QED
      BY <1>2, <1>8, <2>3, <3>1, InvalidatedCoherent
  <2> QED
    BY <1>3, <1>5, <1>6, <2>1, <2>6, <2>7, <2>8, <2>9 DEF PagesInv
<1>10. CASE i \notin DOMAIN pgd
  <2> DEFINE g == Top(s)
  <2>1. /\ s # << >> /\ pmm_stack' = Pop(s)
        /\ pgd' = [j \in DOMAIN pgd \cup {i} |-> IF j = i THEN g ELSE pgd[j]]
        /\ pte' = [p \in DOMAIN pte \cup PagesOf(i) |->
                     IF p = m THEN f ELSE IF p \in DOMAIN pte THEN pte[p] ELSE NoFrame]
    BY <1>1, <1>10 DEF map
  <2>2. /\ pte \in [DOMAIN pte -> Frames \cup {NoFrame}]
        /\ pgd \in [DOMAIN pgd -> Frames]
    BY <1>2 DEF TablesTyped
  <2>3. /\ Pop(s) \in Seq(Frames) /\ g \in Frames /\ Len(s) \in Nat
        /\ Len(Pop(s)) = Len(s) - 1
    BY <1>3, <2>1, PopFields
  <2>4. /\ DOMAIN pte' = DOMAIN pte \cup PagesOf(i)
        /\ pte' \in [DOMAIN pte' -> Frames \cup {NoFrame}]
        /\ \A p \in DOMAIN pte' :
             pte'[p] = IF p = m THEN f ELSE IF p \in DOMAIN pte THEN pte[p] ELSE NoFrame
    BY <1>3, <2>1, <2>2
  <2>5. Extended(pte, pte', m, f)
    BY <2>4 DEF Extended
  <2>6. /\ DOMAIN pgd' = DOMAIN pgd \cup {PGD_INDEX(m)} /\ pgd' \in [DOMAIN pgd' -> Frames]
        /\ \A j \in DOMAIN pgd' : pgd'[j] = IF j = i THEN g ELSE pgd[j]
    BY <2>1, <2>2, <2>3
  <2>7. /\ TablesTyped(pte', pgd') /\ HeapMapped(pte', m + PAGE_SIZE)
        /\ m \in DOMAIN pte => pte[m] = NoFrame
    <3> HIDE DEF m, f
    <3>1. WithTable(pgd, pgd', m)
      BY <2>6 DEF WithTable
    <3> QED
      BY <1>2, <1>3, <1>4, <2>5, <3>1, MapTables
  <2>8. OneOwner(s, pte', pgd)
    BY <1>1, <1>2, <2>2, <2>5, <2>7, PageOwner
  <2>9. OneOwner(Pop(s), pte', pgd')
    <3> HIDE DEF s, i
    <3> QED
      BY <1>3, <1>10, <2>1, <2>6, <2>8, TableOwner DEF i
  <2>10. Counted'
    <3>1. Cardinality(DOMAIN pgd') = Cardinality(DOMAIN pgd) + 1
      BY <1>2, <1>10, <2>6, FiniteTables
    <3> QED
      BY <1>1, <1>2, <1>3, <1>7, <2>1, <2>3, <3>1, BoundTypes, FiniteTables DEF Counted
  <2>11. Coherent(tlb', pte')
    <3>1. \A p \in DOMAIN pte : p # m => pte'[p] = pte[p]
      BY <2>4
    <3>2. DOMAIN pte \subseteq DOMAIN pte'
      BY <2>4
    <3> HIDE DEF m
    <3> QED
      BY <1>2, <1>8, <3>1, <3>2, InvalidatedCoherent
  <2> QED
    BY <1>5, <1>6, <2>1, <2>3, <2>7, <2>9, <2>10, <2>11 DEF PagesInv
<1> QED
  BY <1>9, <1>10


(* The stack has room for every frame init_pmm() found, so no page is      *)
(* refused when it is given back.                                          *)
LEMMA ShrinkPages ==
  ASSUME PagesInv, Shrink, cur \in Nat, cur >= HEAP_START
  PROVE  PagesInv' /\ pc' = "shrink" /\ heap_max' \in Nat /\ heap_max' > cur
<1> DEFINE m == heap_max - PAGE_SIZE
<1>1. /\ pc = "shrink" /\ m > cur /\ heap_max' = m
      /\ phy_page_count' = phy_page_count
  BY DEF Shrink, PageSpare
<1>2. /\ Bounds /\ pmm_stack \in Seq(Frames) /\ TablesTyped(pte, pgd)
      /\ HeapMapped(pte, heap_max) /\ OneOwner(pmm_stack, pte, pgd) /\ Counted
      /\ Coherent(tlb, pte)
  BY DEF PagesInv
<1>3. heap_max \in Nat /\ IsPage(heap_max) /\ heap_max <= Limit /\ Limit \in Nat
  BY <1>2, BoundTypes DEF Bounds
<1>4. m \in Nat /\ m >= HEAP_START /\ IsPage(m) /\ heap_max = m + PAGE_SIZE
  <2>1. m \in Nat /\ m >= HEAP_START /\ heap_max = m + PAGE_SIZE
    BY <1>1, <1>3, Sizes
  <2>2. IsPage(m)
    <3>1. heap_max >= PAGE_SIZE
      BY <1>3, <2>1, Sizes
    <3>2. IsPage(heap_max - PAGE_SIZE)
      BY <1>3, <3>1, PageBefore
    <3> QED
      BY <3>2
  <2> QED
    BY <2>1, <2>2
<1> HIDE DEF m
<1>5. PICK page \in get_mapping(m) :
        /\ unmap(m)
        /\ pc' = IF Len(pmm_stack) = PAGE_MAX_SIZE THEN "panic" ELSE pc
        /\ pmm_stack' = IF Len(pmm_stack) = PAGE_MAX_SIZE THEN pmm_stack ELSE Pushed(page)
  BY DEF Shrink, m
<1>6. pte \in [DOMAIN pte -> Frames \cup {NoFrame}] /\ pgd \in [DOMAIN pgd -> Frames]
  BY <1>2 DEF TablesTyped
<1>7. Cleared(pte, pte', m)
  BY <1>5, <1>6 DEF unmap, Cleared
<1>8. /\ TablesTyped(pte', pgd) /\ HeapMapped(pte', m)
      /\ m \in DOMAIN pte /\ pte[m] \in Frames /\ PGD_INDEX(m) \in DOMAIN pgd
  <2>1. HeapMapped(pte, m + PAGE_SIZE)
    BY <1>2, <1>4
  <2> QED
    BY <1>2, <1>4, <1>7, <2>1, UnmapTables
<1>9. page = pte[m] /\ pgd' = pgd
  BY <1>5, <1>8, PagingAssumption DEF get_mapping, Mapped, unmap
<1>10. PageCount' \in Nat /\ PageCount = PageCount' + 1
  <2> DEFINE k == (m - HEAP_START) \div PAGE_SIZE
  <2>1. k \in Nat
    BY <1>4, StartIsPage, PageDiff
  <2>2. PageCount = k + 1
    BY <1>4, StartIsPage, OnePageMore DEF PageCount
  <2>3. PageCount' = k
    BY <1>1 DEF PageCount
  <2> HIDE DEF k
  <2> QED
    BY <2>1, <2>2, <2>3
<1>11. Bounds'
  <2>1. Limit' = Limit
    BY <1>1 DEF Limit
  <2>2. IsPage(heap_max') /\ HEAP_START <= heap_max' /\ heap_max' <= Limit
    BY <1>1, <1>3, <1>4, Sizes DEF m
  <2> QED
    BY <1>1, <1>2, <2>1, <2>2 DEF Bounds, IsPage
<1>12. Len(pmm_stack) # PAGE_MAX_SIZE
  <2>1. /\ phy_page_count \in Nat /\ phy_page_count <= PAGE_MAX_SIZE
        /\ Cardinality(DOMAIN pgd) \in Nat /\ Len(pmm_stack) \in Nat
        /\ PAGE_MAX_SIZE \in Nat
    BY <1>2, FiniteTables, PagingAssumption DEF Bounds
  <2>2. Len(pmm_stack) + PageCount + Cardinality(DOMAIN pgd) = phy_page_count
    BY <1>1, <1>2 DEF Counted
  <2> QED
    BY <1>10, <2>1, <2>2
<1>13. pc' = "shrink" /\ pmm_stack' = Append(pmm_stack, pte[m])
  BY <1>1, <1>5, <1>9, <1>12 DEF Pushed
<1>14. OneOwner(pmm_stack', pte', pgd') /\ pmm_stack' \in Seq(Frames)
  BY <1>2, <1>6, <1>7, <1>8, <1>9, <1>13, FreedOwner
<1>15. Coherent(tlb', pte')
  <2>1. Dropped(tlb, tlb', m)
    BY <1>5, <1>8 DEF unmap, Invalidated, Dropped
  <2>2. DOMAIN pte \subseteq DOMAIN pte' /\ \A p \in DOMAIN pte : p # m => pte'[p] = pte[p]
    BY <1>7 DEF Cleared
  <2> QED
    BY <1>2, <2>1, <2>2, InvalidatedCoherent
<1>16. Counted'
  <2>1. Len(pmm_stack') = Len(pmm_stack) + 1 /\ Len(pmm_stack) \in Nat
    BY <1>2, <1>6, <1>8, <1>13
  <2>2. Len(pmm_stack) + PageCount + Cardinality(DOMAIN pgd) = phy_page_count
    BY <1>1, <1>2 DEF Counted
  <2>3. Cardinality(DOMAIN pgd) \in Nat
    BY <1>2, FiniteTables
  <2> QED
    BY <1>1, <1>9, <1>10, <2>1, <2>2, <2>3 DEF Counted
<1> QED
  BY <1>1, <1>4, <1>8, <1>9, <1>11, <1>13, <1>14, <1>15, <1>16 DEF PagesInv, m

LEMMA OutOfMemoryPages == PagesInv /\ OutOfMemory => PagesInv'
<1> SUFFICES ASSUME PagesInv, OutOfMemory PROVE PagesInv'
  OBVIOUS
<1>1. /\ heap_max' = heap_max /\ phy_page_count' = phy_page_count /\ pc' = "panic"
      /\ pgd' = pgd /\ pte' = pte /\ tlb' = tlb
      /\ \/ pmm_stack' = pmm_stack
         \/ pmm_stack # << >> /\ pmm_stack' = Pop(pmm_stack)
  BY DEF OutOfMemory
<1>2. pmm_stack' \in Seq(Frames) /\ OneOwner(pmm_stack', pte, pgd)
  BY <1>1, PopFields, LostOwner DEF PagesInv
<1>3. Bounds' /\ Counted'
  BY <1>1 DEF PagesInv, Bounds, Limit, Counted
<1> QED
  BY <1>1, <1>2, <1>3 DEF PagesInv

LEMMA FillPages == PagesInv /\ Fill => PagesInv'
<1> SUFFICES ASSUME PagesInv, Fill PROVE PagesInv'
  OBVIOUS
<1>1. PICK p \in Mapped : TlbFill(p) /\ UNCHANGED heapVars
  BY DEF Fill
<1>2. /\ UNCHANGED <<pmm_stack, pgd, pte, heap_max, phy_page_count, pc>>
      /\ tlb' = [q \in DOMAIN tlb \cup {p} |-> IF q = p THEN pte[p] ELSE tlb[q]]
  BY <1>1 DEF TlbFill, heapVars
<1>3. p \in DOMAIN pte /\ pte[p] \in Frames
  BY DEF Mapped, PagesInv, TablesTyped
<1>4. Coherent(tlb', pte')
  BY <1>2, <1>3 DEF PagesInv, Coherent
<1>5. Bounds' /\ Counted'
  BY <1>2 DEF PagesInv, Bounds, Limit, Counted, PageCount
<1> QED
  BY <1>2, <1>4, <1>5 DEF PagesInv

LEMMA OtherPages ==
  ASSUME PagesInv, UNCHANGED <<heap_max, phy_page_count, pmm_stack, pgd, pte, tlb>>,
         pc' = "panic" \/ pc # "panic"
  PROVE  PagesInv'
<1>1. Bounds' /\ Counted'
  BY DEF PagesInv, Bounds, Limit, Counted, PageCount
<1> QED
  BY <1>1 DEF PagesInv


-----------------------------------------------------------------------------
(* The steps of the list.                                                  *)

LEMMA EndUnique ==
  ASSUME NEW h, Listed(h), NEW x, NEW y, EndsAt(h, x), EndsAt(h, y)
  PROVE  x = y
<1>1. PICK p \in DOMAIN h \cup {NULL} : AtEnd(h, p, x)
  BY DEF EndsAt
<1>2. PICK q \in DOMAIN h \cup {NULL} : AtEnd(h, q, y)
  BY DEF EndsAt
<1>3. CASE DOMAIN h = {}
  BY <1>1, <1>2, <1>3 DEF AtEnd
<1>4. CASE DOMAIN h # {}
  <2>1. p \in DOMAIN h /\ h[p].next = NULL /\ x = p + h[p].length
    BY <1>1, <1>4 DEF AtEnd
  <2>2. q \in DOMAIN h /\ h[q].next = NULL /\ y = q + h[q].length
    BY <1>2, <1>4 DEF AtEnd
  <2>3. p <= q /\ q <= p /\ p \in Nat /\ q \in Nat
    BY <2>1, <2>2, ChunkTyped DEF Listed, OneEnd
  <2> QED
    BY <2>1, <2>2, <2>3
<1> QED
  BY <1>3, <1>4

LEMMA EndBehindAll ==
  ASSUME NEW h, Listed(h), NEW x, EndsAt(h, x)
  PROVE  /\ x \in Nat /\ x >= HEAP_START
         /\ \A d \in DOMAIN h : d + h[d].length <= x /\ d < x
<1>1. PICK p \in DOMAIN h \cup {NULL} : AtEnd(h, p, x)
  BY DEF EndsAt
<1> QED
  BY <1>1, AtEndBehindAll

(* The block of a chunk c that was free, or new, is given to the caller.   *)
LEMMA GiveHeld ==
  ASSUME Listed(hdr), Held(hdr, live), NEW g, NEW c \in Nat,
         InUse(g) = InUse(hdr) \cup {c}, c \notin InUse(hdr),
         \A d \in InUse(hdr) : g[d].length = hdr[d].length,
         NEW n \in Nat, g[c].length >= n + HeaderSize, GiveTo(c + HeaderSize, n)
  PROVE  Held(g, live') /\ c + HeaderSize \notin DOMAIN live
<1> DEFINE p == c + HeaderSize
<1>1. /\ DOMAIN live \subseteq Nat /\ live \in [DOMAIN live -> Nat]
      /\ \A q \in DOMAIN live : /\ q - HeaderSize \in InUse(hdr)
                                /\ hdr[q - HeaderSize].length >= live[q] + HeaderSize
      /\ \A d \in InUse(hdr) : d + HeaderSize \in DOMAIN live
  BY DEF Held
<1>2. p \in Nat /\ p - HeaderSize = c
  BY Sizes
<1>3. p \notin DOMAIN live
  BY <1>1, <1>2
<1>4. live' = [q \in DOMAIN live \cup {p} |-> IF q = p THEN n ELSE live[q]]
  BY DEF GiveTo
<1>p. c + HeaderSize = p
  OBVIOUS
<1> HIDE DEF p
<1>5. /\ DOMAIN live' = DOMAIN live \cup {p} /\ live' \in [DOMAIN live' -> Nat]
      /\ \A q \in DOMAIN live' : live'[q] = IF q = p THEN n ELSE live[q]
  BY <1>1, <1>4
<1>6. ASSUME NEW q \in DOMAIN live'
      PROVE  /\ q - HeaderSize \in InUse(g)
             /\ g[q - HeaderSize].length >= live'[q] + HeaderSize
  <2>1. CASE q = p
    BY <1>2, <1>5, <2>1
  <2>2. CASE q # p
    <3>1. q \in DOMAIN live /\ live'[q] = live[q]
      BY <1>5, <2>2
    <3>2. /\ q - HeaderSize \in InUse(hdr)
          /\ hdr[q - HeaderSize].length >= live[q] + HeaderSize
      BY <1>1, <3>1
    <3> QED
      BY <3>1, <3>2
  <2> QED
    BY <2>1, <2>2
<1>7. \A d \in InUse(g) : d + HeaderSize \in DOMAIN live'
  BY <1>1, <1>5, <1>p
<1>8. DOMAIN live' \subseteq Nat
  BY <1>1, <1>2, <1>5
<1> QED
  BY <1>3, <1>5, <1>6, <1>7, <1>8, <1>p DEF Held

(* A caller gives a block back.                                            *)
LEMMA TakeHeld ==
  ASSUME Listed(hdr), Held(hdr, live), NEW p \in DOMAIN live, NEW g,
         InUse(g) = InUse(hdr) \ {p - HeaderSize},
         \A d \in InUse(g) : g[d].length = hdr[d].length,
         live' = [q \in DOMAIN live \ {p} |-> live[q]]
  PROVE  Held(g, live')
<1>1. /\ DOMAIN live \subseteq Nat /\ live \in [DOMAIN live -> Nat]
      /\ \A q \in DOMAIN live : /\ q - HeaderSize \in InUse(hdr)
                                /\ hdr[q - HeaderSize].length >= live[q] + HeaderSize
      /\ \A d \in InUse(hdr) : d + HeaderSize \in DOMAIN live
  BY DEF Held
<1>2. /\ DOMAIN live' = DOMAIN live \ {p} /\ live' \in [DOMAIN live' -> Nat]
      /\ \A q \in DOMAIN live' : live'[q] = live[q]
  BY <1>1
<1>3. ASSUME NEW q \in DOMAIN live'
      PROVE  /\ q - HeaderSize \in InUse(g)
             /\ g[q - HeaderSize].length >= live'[q] + HeaderSize
  <2>1. q \in DOMAIN live /\ q # p /\ q \in Nat /\ p \in Nat /\ live'[q] = live[q]
    BY <1>1, <1>2
  <2>2. q - HeaderSize # p - HeaderSize
    BY <2>1, Sizes
  <2>3. q - HeaderSize \in InUse(g)
    BY <1>1, <2>1, <2>2
  <2> QED
    BY <1>1, <2>1, <2>3
<1>4. ASSUME NEW d \in InUse(g) PROVE d + HeaderSize \in DOMAIN live'
  <2>1. d \in InUse(hdr) /\ d # p - HeaderSize
    OBVIOUS
  <2>2. d \in Nat
    BY <2>1, ChunkTyped DEF InUse
  <2>3. d + HeaderSize \in DOMAIN live /\ p \in Nat
    BY <1>1, <2>1
  <2>4. d + HeaderSize # p
    BY <2>1, <2>2, <2>3, Sizes
  <2> QED
    BY <1>2, <2>3, <2>4
<1>5. DOMAIN live' \subseteq Nat
  BY <1>1, <1>2
<1> QED
  BY <1>2, <1>3, <1>4, <1>5 DEF Held


(* What the call in progress looks for, and that no sum wraps.             *)
LEMMA LookedFor ==
  ASSUME Bounds, Cursor, pc \in {"walk", "grow", "panic"}
  PROVE  /\ Asked \in Requests /\ Asked \in Nat /\ len = Asked + HeaderSize
         /\ len \in Nat /\ len >= HeaderSize /\ Limit + len < Word
         /\ len < Word \div 2
<1>1. PICK n \in Requests : len = n + HeaderSize
  BY DEF Cursor
<1>2. n \in Nat
  BY HeapAssumption
<1>3. len \in Nat /\ len >= HeaderSize /\ Asked = n
  BY <1>1, <1>2, Sizes DEF Asked
<1>4. Limit + n + HeaderSize < Word /\ Limit \in Nat
  BY BoundTypes DEF Bounds
<1>5. Limit + len < Word
  BY <1>1, <1>2, <1>4, Sizes
<1>6. HEAP_START <= Limit
  BY BoundTypes, Sizes
<1>7. len < Word \div 2
  BY <1>3, <1>4, <1>5, <1>6, Sizes
<1> QED
  BY <1>1, <1>2, <1>3, <1>5, <1>7

LEMMA KmallocList ==
  ASSUME ListInv, Bounds, NEW n \in Requests, Kmalloc(n)
  PROVE  ListInv'
<1>1. /\ pc = "ready" /\ len' = Wrap(n + HeaderSize) /\ cur' = heap_first
      /\ prev' = NULL /\ pc' = "walk"
      /\ UNCHANGED <<heap_first, heap_max, hdr, live>>
  BY DEF Kmalloc
<1>2. len' = n + HeaderSize
  <2>1. n \in Nat /\ Limit \in Nat /\ Limit + n + HeaderSize < Word
    BY HeapAssumption, BoundTypes DEF Bounds
  <2> QED
    BY <1>1, <2>1, Sizes DEF Wrap
<1>3. FirstRight'
  BY <1>1 DEF ListInv, FirstRight
<1>4. Cursor'
  BY <1>1, <1>2 DEF Cursor
<1>5. EndsOnPages'
  BY <1>1 DEF ListInv, EndsOnPages
<1> QED
  BY <1>1, <1>3, <1>4, <1>5 DEF ListInv

(* The walk visits chunks of the list.                                     *)
LEMMA CursorOnChunk ==
  ASSUME ListInv, pc = "walk", cur # NULL
  PROVE  cur \in DOMAIN hdr
<1>1. \/ prev = NULL /\ cur = heap_first
      \/ prev \in DOMAIN hdr /\ cur = hdr[prev].next
  BY DEF ListInv, Cursor
<1>2. heap_first = IF DOMAIN hdr = {} THEN NULL ELSE HEAP_START
  BY DEF ListInv, FirstRight
<1>3. DOMAIN hdr # {} => HEAP_START \in DOMAIN hdr
  BY DEF ListInv, Listed, OneEnd
<1> QED
  BY <1>1, <1>2, <1>3 DEF ListInv, Listed, LinkedOn

LEMMA WalkList ==
  ASSUME ListInv, Walk
  PROVE  ListInv'
<1>1. /\ pc = "walk" /\ cur # NULL /\ prev' = cur /\ cur' = hdr[cur].next
      /\ UNCHANGED <<heap_first, heap_max, hdr, pc, len, live>>
  BY DEF Walk
<1>2. cur \in DOMAIN hdr
  BY <1>1, CursorOnChunk
<1>3. FirstRight' /\ EndsOnPages'
  BY <1>1 DEF ListInv, FirstRight, EndsOnPages
<1>4. Cursor'
  BY <1>1, <1>2 DEF ListInv, Cursor
<1> QED
  BY <1>1, <1>3, <1>4 DEF ListInv

(* What TakeChunk and AppendChunk do to the blocks in use, for the list    *)
(* and for the refinement: a chunk c that was not in use gets a block, the *)
(* others keep theirs.                                                     *)
Granted(c) == /\ c \in Nat /\ c \notin InUse(hdr)
              /\ InUse(hdr') = InUse(hdr) \cup {c}
              /\ \A d \in InUse(hdr) : hdr'[d].length = hdr[d].length
              /\ hdr'[c].length >= Asked + HeaderSize
              /\ GiveTo(c + HeaderSize, Asked)

LEMMA TakeChunkList ==
  ASSUME ListInv, Bounds, TakeChunk
  PROVE  ListInv' /\ Granted(cur)
<1>1. /\ pc = "walk" /\ cur # NULL /\ Fits(cur)
      /\ hdr' = IF Splits(cur) THEN SplitTakes(cur) ELSE WholeTaken(cur)
      /\ GiveTo(cur + HeaderSize, Asked)
      /\ pc' = "ready" /\ UNCHANGED <<heap_first, heap_max>>
  BY DEF TakeChunk, Return
<1>2. cur \in DOMAIN hdr
  BY <1>1, CursorOnChunk
<1>3. ~hdr[cur].allocated /\ hdr[cur].length >= len
  BY <1>1 DEF Fits
<1>4. Listed(hdr) /\ NoFreePair(hdr) /\ Held(hdr, live) /\ Cursor /\ FirstRight /\ EndsOnPages
  BY DEF ListInv
<1>5. /\ Asked \in Nat /\ len = Asked + HeaderSize /\ len \in Nat /\ len >= HeaderSize
  BY <1>1, <1>4, LookedFor
<1>6. /\ Listed(hdr') /\ NoFreePair(hdr')
      /\ InUse(hdr') = InUse(hdr) \cup {cur}
      /\ hdr'[cur].length >= len
      /\ \A d \in InUse(hdr) : hdr'[d].length = hdr[d].length
      /\ \A x : EndsAt(hdr, x) => EndsAt(hdr', x)
      /\ DOMAIN hdr' # {}
  <2>1. CASE Splits(cur)
    <3>1. hdr' = SplitTakes(cur)
      BY <1>1, <2>1
    <3> QED
      BY <1>2, <1>3, <1>4, <1>5, <2>1, <3>1, SplitKeeps
  <2>2. CASE ~Splits(cur)
    <3>1. hdr' = WholeTaken(cur)
      BY <1>1, <2>2
    <3>2. /\ Listed(hdr') /\ NoFreePair(hdr')
          /\ InUse(hdr') = InUse(hdr) \cup {cur}
          /\ \A d \in DOMAIN hdr : hdr'[d].length = hdr[d].length
          /\ \A x : EndsAt(hdr, x) => EndsAt(hdr', x)
          /\ DOMAIN hdr' = DOMAIN hdr
      BY <1>2, <1>4, <3>1, TakeKeeps
    <3>3. \A d \in InUse(hdr) : d \in DOMAIN hdr
      BY DEF InUse
    <3> QED
      BY <1>2, <1>3, <3>2, <3>3
  <2> QED
    BY <2>1, <2>2
<1>7. cur \in Nat /\ cur \notin InUse(hdr)
  BY <1>2, <1>3, <1>4, ChunkTyped DEF InUse
<1>8. Granted(cur)
  BY <1>1, <1>5, <1>6, <1>7 DEF Granted
<1>9. Held(hdr', live')
  BY <1>4, <1>5, <1>8, GiveHeld DEF Granted
<1>10. FirstRight'
  BY <1>1, <1>2, <1>4, <1>6 DEF FirstRight
<1>11. Cursor'
  BY <1>1 DEF Cursor
<1>12. EndsOnPages'
  BY <1>1, <1>4, <1>6 DEF EndsOnPages
<1> QED
  BY <1>6, <1>8, <1>9, <1>10, <1>11, <1>12 DEF ListInv

LEMMA StartGrowingList ==
  ASSUME ListInv, Bounds, StartGrowing
  PROVE  ListInv'
<1>1. /\ pc = "walk" /\ cur = NULL /\ pc' = "grow"
      /\ prev # NULL => cur' = Wrap(prev + hdr[prev].length) /\ heap_first' = heap_first
      /\ prev = NULL => cur' = HEAP_START /\ heap_first' = HEAP_START
      /\ UNCHANGED <<heap_max, hdr, len, prev, live>>
  BY DEF StartGrowing
<1>2. Listed(hdr) /\ Cursor /\ FirstRight /\ EndsOnPages
  BY DEF ListInv
<1>3. PICK x \in HEAP_START .. heap_max : EndsAt(hdr, x) /\ heap_max <= x + PAGE_SIZE
  BY <1>1, <1>2 DEF EndsOnPages
<1>4. AtEnd(hdr, prev, cur') /\ heap_first' = HEAP_START
  <2>1. heap_first = IF DOMAIN hdr = {} THEN NULL ELSE HEAP_START
    BY <1>1, <1>2 DEF FirstRight
  <2>2. CASE prev = NULL
    <3>1. cur = heap_first
      <4>1. \/ prev = NULL /\ cur = heap_first
            \/ prev \in DOMAIN hdr /\ cur = hdr[prev].next
        BY <1>1, <1>2 DEF Cursor
      <4>2. prev \notin DOMAIN hdr
        BY <1>2, <2>2, ChunkTyped
      <4> QED
        BY <4>1, <4>2
    <3>2. DOMAIN hdr = {}
      <4>1. heap_first = NULL
        BY <1>1, <3>1
      <4>2. HEAP_START # NULL
        BY Sizes
      <4> QED
        BY <2>1, <4>1, <4>2
    <3> QED
      BY <1>1, <2>2, <3>2 DEF AtEnd
  <2>3. CASE prev # NULL
    <3>1. prev \in DOMAIN hdr /\ hdr[prev].next = NULL
      BY <1>1, <1>2, <2>3 DEF Cursor
    <3>2. prev \in Nat /\ hdr[prev].length \in Nat
      BY <1>2, <3>1, ChunkTyped
    <3>3. prev + hdr[prev].length <= x /\ x < Word
      BY <1>2, <1>3, <3>1, EndBehindAll, BoundTypes, Sizes
    <3>4. x \in Nat
      BY <1>2, <1>3, EndBehindAll
    <3>5. cur' = prev + hdr[prev].length
      BY <1>1, <2>3, <3>2, <3>3, <3>4, Sizes DEF Wrap
    <3> QED
      BY <1>1, <2>1, <2>3, <3>1, <3>5 DEF AtEnd
  <2> QED
    BY <2>2, <2>3
<1>5. heap_max <= cur' + len + PAGE_SIZE
  <2>1. prev \in DOMAIN hdr \cup {NULL}
    BY <1>4 DEF AtEnd
  <2>2. EndsAt(hdr, cur')
    BY <1>4, <2>1 DEF EndsAt
  <2>3. cur' = x /\ x \in Nat
    BY <1>2, <1>3, <2>2, EndUnique, EndBehindAll
  <2>4. len \in Nat
    BY <1>1, <1>2, LookedFor
  <2> QED
    BY <1>3, <2>3, <2>4, BoundTypes, Sizes
<1>6. Cursor'
  BY <1>1, <1>2, <1>4, <1>5 DEF Cursor
<1>7. FirstRight' /\ EndsOnPages'
  BY <1>1, <1>2 DEF FirstRight, EndsOnPages
<1> QED
  BY <1>1, <1>6, <1>7 DEF ListInv


LEMMA GrowList ==
  ASSUME ListInv, Bounds, Grow, heap_max' = heap_max + PAGE_SIZE
  PROVE  ListInv'
<1>1. /\ pc = "grow" /\ Uncovered
      /\ UNCHANGED <<heap_first, hdr, pc, len, cur, prev, live>>
  BY DEF Grow
<1>2. Listed(hdr) /\ Cursor /\ FirstRight /\ EndsOnPages
  BY DEF ListInv
<1>3. PICK x \in HEAP_START .. heap_max : EndsAt(hdr, x)
  BY <1>2 DEF EndsOnPages
<1>4. heap_max \in Nat /\ heap_max <= Limit /\ Limit \in Nat /\ x \in Nat
  BY <1>2, <1>3, BoundTypes, EndBehindAll
<1>5. cur = x /\ len \in Nat /\ Limit + len < Word
  <2>1. AtEnd(hdr, prev, cur) /\ prev \in DOMAIN hdr \cup {NULL}
    BY <1>1, <1>2 DEF Cursor, AtEnd
  <2>2. EndsAt(hdr, cur)
    BY <2>1 DEF EndsAt
  <2> QED
    BY <1>1, <1>2, <1>3, <2>2, EndUnique, LookedFor
<1>6. heap_max < cur + len
  BY <1>1, <1>3, <1>4, <1>5, Sizes DEF Uncovered, Wrap
<1>7. heap_max' <= cur' + len' + PAGE_SIZE
  BY <1>1, <1>4, <1>5, <1>6, Sizes
<1>8. Cursor'
  BY <1>1, <1>2, <1>7 DEF Cursor
<1>9. EndsOnPages'
  <2>1. x \in HEAP_START .. heap_max'
    BY <1>3, <1>4, Sizes
  <2> QED
    BY <1>1, <1>3, <2>1 DEF EndsOnPages
<1>10. FirstRight'
  BY <1>1, <1>2 DEF FirstRight
<1> QED
  BY <1>1, <1>8, <1>9, <1>10 DEF ListInv

LEMMA OutOfMemoryList ==
  ASSUME ListInv, OutOfMemory
  PROVE  ListInv'
<1>1. /\ pc = "grow" /\ pc' = "panic"
      /\ UNCHANGED <<heap_first, heap_max, hdr, len, cur, prev, live>>
  BY DEF OutOfMemory
<1>2. Cursor' /\ FirstRight' /\ EndsOnPages'
  BY <1>1 DEF ListInv, Cursor, FirstRight, EndsOnPages
<1> QED
  BY <1>1, <1>2 DEF ListInv

(* The pages of the chunk about to be linked are there: its header is      *)
(* written without a fault.                                                *)
LEMMA HeaderPresent ==
  ASSUME ListInv, PagesInv, pc = "grow", ~Uncovered
  PROVE  /\ Present(cur) /\ Present(cur + HeaderSize - 1)
         /\ cur + len <= heap_max /\ cur \in Nat
<1>1. Listed(hdr) /\ Cursor /\ EndsOnPages /\ Bounds /\ HeapMapped(pte, heap_max)
  BY DEF ListInv, PagesInv
<1>2. heap_max \in Nat /\ heap_max <= Limit /\ Limit \in Nat
  BY <1>1, BoundTypes
<1>3. AtEnd(hdr, prev, cur) /\ prev \in DOMAIN hdr \cup {NULL}
  BY <1>1 DEF Cursor, AtEnd
<1>4. cur \in Nat /\ cur >= HEAP_START /\ cur <= heap_max
  <2>1. EndsAt(hdr, cur)
    BY <1>3 DEF EndsAt
  <2>2. PICK x \in HEAP_START .. heap_max : EndsAt(hdr, x)
    BY <1>1 DEF EndsOnPages
  <2> QED
    BY <1>1, <2>1, <2>2, EndUnique, EndBehindAll
<1>5. len \in Nat /\ len >= HeaderSize /\ Limit + len < Word
  BY <1>1, LookedFor
<1>6. cur + len <= heap_max
  BY <1>2, <1>4, <1>5, Sizes DEF Uncovered, Wrap
<1>7. ASSUME NEW a \in Nat, a >= HEAP_START, a < heap_max PROVE Present(a)
  <2> DEFINE p == a - (a % PAGE_SIZE)
  <2>1. IsPage(p) /\ p <= a /\ a < p + PAGE_SIZE
    BY PageOf
  <2> HIDE DEF p
  <2>2. p \in Nat
    BY <2>1 DEF IsPage
  <2>3. p >= HEAP_START
    <3>1. p < HEAP_START => p + PAGE_SIZE <= HEAP_START
      BY <2>1, StartIsPage, PageGap
    <3> QED
      BY <1>7, <2>1, <2>2, <3>1, Sizes
  <2>4. p \in HEAP_START .. heap_max - 1
    BY <1>2, <1>7, <2>1, <2>2, <2>3, Sizes
  <2>5. p \in DOMAIN pte /\ pte[p] # NoFrame
    BY <1>1, <2>1, <2>4 DEF HeapMapped
  <2> QED
    BY <2>5 DEF Present, Mapped, p
<1>8. cur < heap_max /\ cur + HeaderSize - 1 < heap_max /\ cur + HeaderSize - 1 \in Nat
      /\ cur + HeaderSize - 1 >= HEAP_START
  BY <1>2, <1>4, <1>5, <1>6, Sizes
<1> QED
  BY <1>4, <1>6, <1>7, <1>8

LEMMA AppendChunkList ==
  ASSUME ListInv, PagesInv, AppendChunk
  PROVE  ListInv' /\ Granted(cur) /\ pc' = "ready"
<1>1. pc = "grow" /\ ~Uncovered /\ UNCHANGED <<heap_first, heap_max>>
  BY DEF AppendChunk
<1>2. /\ Present(cur) /\ Present(cur + HeaderSize - 1)
      /\ cur + len <= heap_max /\ cur \in Nat
  BY <1>1, HeaderPresent
<1>3. hdr' = Appended /\ GiveTo(cur + HeaderSize, Asked) /\ pc' = "ready"
  BY <1>2 DEF AppendChunk, Return
<1>4. Listed(hdr) /\ NoFreePair(hdr) /\ Held(hdr, live) /\ Cursor /\ Bounds
  BY DEF ListInv, PagesInv
<1>5. /\ Asked \in Nat /\ len = Asked + HeaderSize /\ len \in Nat /\ len >= HeaderSize
      /\ len < Word \div 2
  BY <1>1, <1>4, LookedFor
<1>6. AtEnd(hdr, prev, cur) /\ heap_first = HEAP_START /\ heap_max <= cur + len + PAGE_SIZE
  BY <1>1, <1>4 DEF Cursor
<1>7. /\ Listed(hdr') /\ NoFreePair(hdr')
      /\ cur \notin DOMAIN hdr
      /\ InUse(hdr') = InUse(hdr) \cup {cur}
      /\ hdr'[cur].length = len
      /\ \A d \in DOMAIN hdr : hdr'[d].length = hdr[d].length
      /\ EndsAt(hdr', cur + len)
      /\ DOMAIN hdr' = DOMAIN hdr \cup {cur}
  BY <1>3, <1>4, <1>5, <1>6, AppendKeeps
<1>8. Granted(cur)
  <2>1. cur \notin InUse(hdr) /\ \A d \in InUse(hdr) : d \in DOMAIN hdr
    BY <1>7 DEF InUse
  <2> QED
    BY <1>2, <1>3, <1>5, <1>7, <2>1 DEF Granted
<1>9. Held(hdr', live')
  BY <1>4, <1>5, <1>8, GiveHeld DEF Granted
<1>10. FirstRight'
  BY <1>1, <1>6, <1>7 DEF FirstRight
<1>11. Cursor'
  BY <1>3 DEF Cursor
<1>12. EndsOnPages'
  <2>1. cur + len \in HEAP_START .. heap_max'
    <3>1. cur >= HEAP_START
      BY <1>4, <1>6, AtEndBehindAll
    <3> QED
      BY <1>1, <1>2, <1>4, <1>5, <3>1, BoundTypes, Sizes
  <2>2. heap_max' <= (cur + len) + PAGE_SIZE
    BY <1>1, <1>6
  <2> QED
    BY <1>7, <2>1, <2>2 DEF EndsOnPages
<1> QED
  BY <1>3, <1>7, <1>8, <1>9, <1>10, <1>11, <1>12 DEF ListInv


(* What Kfree does to the blocks in use: that of p goes, the others stay.  *)
Released(p) == /\ live' = [q \in DOMAIN live \ {p} |-> live[q]]
               /\ InUse(hdr') = InUse(hdr) \ {p - HeaderSize}
               /\ \A d \in InUse(hdr') : hdr'[d].length = hdr[d].length

LEMMA KfreeList ==
  ASSUME ListInv, Bounds, NEW p \in DOMAIN live, Kfree(p)
  PROVE  ListInv' /\ Released(p) /\ pc' \in {"ready", "shrink"}
<1> DEFINE c == p - HeaderSize
           o == [hdr EXCEPT ![c].allocated = FALSE]
           h == GlueNext(o, c)
           g == GluePrev(h, c)
           k == Glued(h, c)
<1>1. /\ pc = "ready" /\ heap_max' = heap_max /\ len' = len /\ prev' = prev
      /\ live' = [q \in DOMAIN live \ {p} |-> live[q]]
      /\ \/ /\ g[k].next # NULL /\ hdr' = g
            /\ UNCHANGED <<heap_first, cur, pc>>
         \/ /\ g[k].next = NULL /\ hdr' = Unlinked(g, k)
            /\ heap_first' = FirstWithout(g, k)
            /\ cur' = k /\ pc' = "shrink"
  BY DEF Kfree
<1>2. Listed(hdr) /\ NoFreePair(hdr) /\ Held(hdr, live) /\ Cursor /\ FirstRight /\ EndsOnPages
  BY DEF ListInv
<1>3. c \in DOMAIN hdr
  BY <1>2 DEF Held, InUse
<1>4. /\ Listed(g)
      /\ InUse(g) = InUse(hdr) \ {c}
      /\ \A d \in InUse(g) : g[d].length = hdr[d].length
      /\ \A x : EndsAt(hdr, x) => EndsAt(g, x)
      /\ k \in DOMAIN g /\ ~g[k].allocated /\ Settled(g, {k})
      /\ g[k].next # NULL => NoFreePair(g)
  <2>1. PICK a \in BOOLEAN : a = FALSE
    OBVIOUS
  <2>2. o = Marked(hdr, c, a)
    BY <2>1 DEF Marked
  <2>a. ~a
    BY <2>1
  <2> HIDE DEF c, o, h, g, k
  <2>3. h = GlueNext(o, c) /\ g = GluePrev(h, c) /\ k = Glued(h, c)
    BY DEF h, g, k
  <2> QED
    BY <1>2, <1>3, <2>a, <2>2, <2>3, FreeKeeps
<1>c. c = p - HeaderSize
  OBVIOUS
<1> HIDE DEF c, o, h, g, k
<1>5. PICK x \in HEAP_START .. heap_max : EndsAt(hdr, x) /\ heap_max <= x + PAGE_SIZE
  BY <1>1, <1>2 DEF EndsOnPages
<1>6. EndsAt(g, x)
  BY <1>4, <1>5
<1>7. heap_first = HEAP_START
  BY <1>1, <1>2, <1>3 DEF FirstRight
<1>8. CASE g[k].next # NULL /\ hdr' = g /\ UNCHANGED <<heap_first, cur, pc>>
  <2>1. NoFreePair(g)
    BY <1>4, <1>8
  <2>2. Released(p)
    BY <1>1, <1>4, <1>8, <1>c DEF Released
  <2>3. Held(hdr', live')
    BY <1>2, <1>c, <2>2, TakeHeld DEF Released
  <2>4. FirstRight' /\ Cursor'
    BY <1>1, <1>4, <1>7, <1>8 DEF FirstRight, Cursor
  <2>5. EndsOnPages'
    BY <1>1, <1>5, <1>6, <1>8 DEF EndsOnPages
  <2> QED
    BY <1>1, <1>4, <1>8, <2>1, <2>2, <2>3, <2>4, <2>5 DEF ListInv
<1>9. CASE /\ g[k].next = NULL /\ hdr' = Unlinked(g, k)
           /\ heap_first' = FirstWithout(g, k) /\ cur' = k /\ pc' = "shrink"
  <2>1. Listed(hdr')
    BY <1>4, <1>9, UnlinkListed
  <2>2. /\ Kept(g, hdr') /\ NoFreePair(hdr') /\ EndsAt(hdr', k)
        /\ DOMAIN hdr' = {} <=> g[k].prev = NULL
    BY <1>4, <1>9, UnlinkKeeps
  <2>3. Released(p)
    BY <1>1, <1>4, <1>c, <2>2 DEF Released, Kept
  <2>4. Held(hdr', live')
    BY <1>2, <1>c, <2>3, TakeHeld DEF Released
  <2>5. FirstRight'
    BY <1>7, <1>9, <2>2 DEF FirstRight, FirstWithout
  <2>6. Cursor'
    BY <1>9, <2>2 DEF Cursor
  <2>7. EndsOnPages'
    <3>1. k < x /\ x \in Nat /\ k \in Nat /\ k >= HEAP_START
      BY <1>4, <1>6, EndBehindAll, ChunkTyped DEF Listed, Placed
    <3>2. k \in HEAP_START .. heap_max'
      BY <1>1, <1>2, <1>5, <3>1, BoundTypes, Sizes
    <3> QED
      BY <1>9, <2>2, <3>2 DEF EndsOnPages
  <2> QED
    BY <1>9, <2>1, <2>2, <2>3, <2>4, <2>5, <2>6, <2>7 DEF ListInv
<1> QED
  BY <1>1, <1>8, <1>9

LEMMA ShrinkList ==
  ASSUME ListInv, Shrink, pc' = "shrink", heap_max' \in Nat, heap_max' > cur
  PROVE  ListInv'
<1>1. pc = "shrink" /\ UNCHANGED <<heap_first, hdr, len, cur, prev, live>>
  BY DEF Shrink
<1>2. Listed(hdr) /\ EndsAt(hdr, cur)
  BY <1>1 DEF ListInv, Cursor
<1>3. cur \in HEAP_START .. heap_max'
  BY <1>2, EndBehindAll, Sizes
<1>4. EndsOnPages'
  BY <1>1, <1>2, <1>3 DEF EndsOnPages
<1>5. FirstRight' /\ Cursor'
  BY <1>1, <1>2 DEF ListInv, FirstRight, Cursor
<1> QED
  BY <1>1, <1>4, <1>5 DEF ListInv

LEMMA ShrinkDoneList ==
  ASSUME ListInv, Bounds, ShrinkDone
  PROVE  ListInv'
<1>1. /\ pc = "shrink" /\ ~PageSpare /\ pc' = "ready"
      /\ UNCHANGED <<heap_first, heap_max, hdr, live>>
  BY DEF ShrinkDone, Return
<1>2. Listed(hdr) /\ EndsAt(hdr, cur) /\ EndsOnPages
  BY <1>1 DEF ListInv, Cursor
<1>3. cur \in HEAP_START .. heap_max
  <2>1. PICK x \in HEAP_START .. heap_max : EndsAt(hdr, x)
    BY <1>2 DEF EndsOnPages
  <2> QED
    BY <1>2, <2>1, EndUnique
<1>4. heap_max <= cur + PAGE_SIZE
  BY <1>1, <1>3, BoundTypes, Sizes DEF PageSpare
<1>5. EndsOnPages'
  BY <1>1, <1>2, <1>3, <1>4 DEF EndsOnPages
<1>6. FirstRight' /\ Cursor'
  BY <1>1 DEF ListInv, FirstRight, Cursor
<1> QED
  BY <1>1, <1>5, <1>6 DEF ListInv

LEMMA OtherList ==
  ASSUME ListInv, UNCHANGED heapVars
  PROVE  ListInv'
<1>1. UNCHANGED <<heap_first, heap_max, hdr, pc, len, cur, prev, live>>
  BY DEF heapVars
<1>2. FirstRight' /\ Cursor' /\ EndsOnPages'
  BY <1>1 DEF ListInv, FirstRight, Cursor, EndsOnPages
<1> QED
  BY <1>1, <1>2 DEF ListInv


-----------------------------------------------------------------------------
(* The inductive invariant.                                                *)

LEMMA InitInv ==
  ASSUME Roomy, Init
  PROVE  IInv
<1>1. /\ pmm_stack \in BootStacks /\ phy_page_count = Len(pmm_stack)
      /\ pgd = [i \in {} |-> NoFrame] /\ pte = [p \in {} |-> NoFrame]
      /\ tlb = [p \in {} |-> NoFrame] /\ heap_first = NULL /\ heap_max = HEAP_START
      /\ hdr = [c \in {} |-> NULL] /\ pc = "ready" /\ live = [p \in {} |-> 0]
  BY DEF Init
<1>2. /\ pmm_stack \in Seq(Frames) /\ Len(pmm_stack) <= PAGE_MAX_SIZE
      /\ \A i, j \in DOMAIN pmm_stack : pmm_stack[i] = pmm_stack[j] => i = j
  BY <1>1, HeapAssumption
<1>3. Len(pmm_stack) \in Nat
  BY <1>2
<1>4. DOMAIN pgd = {} /\ DOMAIN pte = {} /\ DOMAIN tlb = {} /\ DOMAIN hdr = {} /\ DOMAIN live = {}
  BY <1>1
<1>5. Bounds
  <2>1. /\ HEAP_START + Len(pmm_stack) * PAGE_SIZE < Word
        /\ \A n \in Requests : HEAP_START + Len(pmm_stack) * PAGE_SIZE + n + HeaderSize < Word
    BY <1>1 DEF Roomy
  <2>2. Limit < Word /\ \A n \in Requests : Limit + n + HeaderSize < Word
    BY <1>1, <2>1 DEF Limit
  <2>3. Len(pmm_stack) * PAGE_SIZE \in Nat
    BY <1>3, Sizes
  <2>4. HEAP_START <= Limit
    BY <1>1, <2>3, Sizes DEF Limit
  <2> QED
    BY <1>1, <1>2, <1>3, <2>2, <2>4, StartIsPage, Sizes DEF Bounds
<1>6. TablesTyped(pte, pgd)
  <2>1. IsFiniteSet(DOMAIN pgd)
    BY <1>4, FS_EmptySet
  <2> QED
    BY <1>1, <1>4, <2>1 DEF TablesTyped
<1>7. HeapMapped(pte, heap_max)
  BY <1>1, <1>4, Sizes DEF HeapMapped
<1>8. OneOwner(pmm_stack, pte, pgd)
  BY <1>2, <1>4 DEF OneOwner
<1>9. Counted
  <2>1. Cardinality(DOMAIN pgd) = 0
    BY <1>4, FS_EmptySet
  <2>2. heap_max - HEAP_START = 0 * PAGE_SIZE
    BY <1>1, Sizes
  <2>3. PageCount = 0
    BY <2>2, Multiple DEF PageCount
  <2> QED
    BY <1>1, <1>3, <2>1, <2>3 DEF Counted
<1>10. Coherent(tlb, pte)
  BY <1>1, <1>4 DEF Coherent
<1>11. Listed(hdr)
  <2>1. Typed(hdr)
    BY <1>1, <1>4 DEF Typed
  <2> QED
    BY <1>4, <2>1 DEF Listed, Placed, LinkedBack, LinkedOn, Ordered, OneEnd
<1>12. NoFreePair(hdr)
  BY <1>4 DEF NoFreePair, Settled
<1>13. Held(hdr, live)
  BY <1>1, <1>4 DEF Held, InUse
<1>14. FirstRight /\ Cursor
  BY <1>1, <1>4 DEF FirstRight, Cursor
<1>15. EndsOnPages
  <2>1. EndsAt(hdr, HEAP_START)
    BY <1>4 DEF EndsAt, AtEnd
  <2> QED
    BY <1>1, <2>1, Sizes DEF EndsOnPages
<1> QED
  BY <1>2, <1>5, <1>6, <1>7, <1>8, <1>9, <1>10, <1>11, <1>12, <1>13, <1>14, <1>15
     DEF IInv, PagesInv, ListInv

LEMMA NextInv == IInv /\ [Next]_vars => IInv'
<1> SUFFICES ASSUME IInv, [Next]_vars PROVE IInv'
  OBVIOUS
<1>0. PagesInv /\ ListInv /\ Bounds
  BY DEF IInv, PagesInv
<1>1. ASSUME NEW n \in Requests, Kmalloc(n) PROVE IInv'
  <2>1. /\ pc # "panic"
        /\ UNCHANGED <<heap_max, phy_page_count, pmm_stack, pgd, pte, tlb>>
    BY <1>1 DEF Kmalloc, pagingVars
  <2> QED
    BY <1>0, <1>1, <2>1, OtherPages, KmallocList DEF IInv
<1>2. ASSUME NEW p \in DOMAIN live, Kfree(p) PROVE IInv'
  <2>1. /\ pc # "panic"
        /\ UNCHANGED <<heap_max, phy_page_count, pmm_stack, pgd, pte, tlb>>
    BY <1>2 DEF Kfree, pagingVars
  <2> QED
    BY <1>0, <1>2, <2>1, OtherPages, KfreeList DEF IInv
<1>3. CASE Walk
  <2>1. /\ pc # "panic"
        /\ UNCHANGED <<heap_max, phy_page_count, pmm_stack, pgd, pte, tlb>>
    BY <1>3 DEF Walk, pagingVars
  <2> QED
    BY <1>0, <1>3, <2>1, OtherPages, WalkList DEF IInv
<1>4. CASE TakeChunk
  <2>1. /\ pc # "panic"
        /\ UNCHANGED <<heap_max, phy_page_count, pmm_stack, pgd, pte, tlb>>
    BY <1>4 DEF TakeChunk, pagingVars
  <2> QED
    BY <1>0, <1>4, <2>1, OtherPages, TakeChunkList DEF IInv
<1>5. CASE StartGrowing
  <2>1. /\ pc # "panic"
        /\ UNCHANGED <<heap_max, phy_page_count, pmm_stack, pgd, pte, tlb>>
    BY <1>5 DEF StartGrowing, pagingVars
  <2> QED
    BY <1>0, <1>5, <2>1, OtherPages, StartGrowingList DEF IInv
<1>6. CASE Grow
  <2>1. PagesInv'
    BY <1>0, <1>6, GrowPages
  <2>2. heap_max' = heap_max + PAGE_SIZE
    <3>1. heap_max' = Wrap(heap_max + PAGE_SIZE) /\ pmm_stack # << >> /\ pc = "grow"
      BY <1>6 DEF Grow
    <3>2. Len(pmm_stack) \in Nat /\ Len(pmm_stack) > 0
      BY <1>0, <3>1, PopFields DEF PagesInv
    <3>3. heap_max + PAGE_SIZE <= Limit
      BY <1>0, <3>1, <3>2, RoomForPage DEF PagesInv
    <3> QED
      BY <1>0, <3>1, <3>3, BoundTypes, Sizes DEF Wrap
  <2> QED
    BY <1>0, <1>6, <2>1, <2>2, GrowList DEF IInv
<1>7. CASE OutOfMemory
  BY <1>0, <1>7, OutOfMemoryPages, OutOfMemoryList DEF IInv
<1>8. CASE AppendChunk
  <2>1. /\ pc # "panic"
        /\ UNCHANGED <<heap_max, phy_page_count, pmm_stack, pgd, pte, tlb>>
    BY <1>8 DEF AppendChunk, pagingVars
  <2> QED
    BY <1>0, <1>8, <2>1, OtherPages, AppendChunkList DEF IInv
<1>9. CASE Shrink
  <2>1. cur \in Nat /\ cur >= HEAP_START
    <3>1. Listed(hdr) /\ EndsAt(hdr, cur)
      BY <1>0, <1>9 DEF Shrink, ListInv, Cursor
    <3> QED
      BY <3>1, EndBehindAll
  <2>2. PagesInv' /\ pc' = "shrink" /\ heap_max' \in Nat /\ heap_max' > cur
    BY <1>0, <1>9, <2>1, ShrinkPages
  <2> QED
    BY <1>0, <1>9, <2>2, ShrinkList DEF IInv
<1>10. CASE ShrinkDone
  <2>1. /\ pc # "panic"
        /\ UNCHANGED <<heap_max, phy_page_count, pmm_stack, pgd, pte, tlb>>
    BY <1>10 DEF ShrinkDone, pagingVars
  <2> QED
    BY <1>0, <1>10, <2>1, OtherPages, ShrinkDoneList DEF IInv
<1>11. CASE Fill
  <2>1. UNCHANGED heapVars
    BY <1>11 DEF Fill
  <2> QED
    BY <1>0, <1>11, <2>1, FillPages, OtherList DEF IInv
<1>12. CASE UNCHANGED vars
  <2>1. /\ UNCHANGED <<heap_max, phy_page_count, pmm_stack, pgd, pte, tlb, pc>>
        /\ UNCHANGED heapVars
    BY <1>12 DEF vars, heapVars, pagingVars
  <2> QED
    BY <1>0, <2>1, OtherPages, OtherList DEF IInv
<1> QED
  BY <1>1, <1>2, <1>3, <1>4, <1>5, <1>6, <1>7, <1>8, <1>9, <1>10, <1>11, <1>12
     DEF Next, HeapStep

LEMMA Invariant == ASSUME Roomy PROVE Spec => []IInv
<1>1. Init => IInv
  BY InitInv
<1>2. IInv /\ [Next]_vars => IInv'
  BY NextInv
<1> QED
  BY <1>1, <1>2, PTL DEF Spec


-----------------------------------------------------------------------------
(* What follows from it.                                                   *)

LEMMA InvTypeOK == IInv => TypeOK
<1> SUFFICES ASSUME IInv PROVE TypeOK
  OBVIOUS
<1>1. Bounds /\ TablesTyped(pte, pgd) /\ Coherent(tlb, pte) /\ pmm_stack \in Seq(Frames)
      /\ Listed(hdr) /\ FirstRight /\ Cursor
  BY DEF IInv, PagesInv, ListInv
<1>2. hdr \in [DOMAIN hdr -> Chunk]
  BY <1>1 DEF Listed, Typed
<1>3. heap_max \in 0 .. Word - 1
  BY <1>1, BoundTypes, Sizes
<1>4. pc \notin {"grow", "panic"} => heap_first \in DOMAIN hdr \cup {NULL}
  BY <1>1 DEF FirstRight, Listed, OneEnd
<1>5. pc = "walk" => cur \in DOMAIN hdr \cup {NULL} /\ prev \in DOMAIN hdr \cup {NULL}
  <2>1. \A c \in DOMAIN hdr : hdr[c].next \in DOMAIN hdr \cup {NULL}
    BY <1>1 DEF Listed, LinkedOn
  <2> QED
    BY <1>1, <1>4, <2>1 DEF Cursor
<1>6. pc \in {"ready", "walk", "grow", "shrink", "panic"}
  BY <1>1 DEF Cursor
<1>7. /\ pgd \in [DOMAIN pgd -> Frames] /\ tlb \in [DOMAIN tlb -> Frames]
      /\ pte \in [DOMAIN pte -> Frames \cup {NoFrame}]
  BY <1>1 DEF TablesTyped, Coherent
<1> QED
  BY <1>1, <1>2, <1>3, <1>4, <1>5, <1>6, <1>7 DEF TypeOK

(* Every variable has its type, and no pointer that will be followed leads *)
(* to a header that is not linked.                                         *)
THEOREM TypeCorrect == ASSUME Roomy PROVE Spec => []TypeOK
  BY Invariant, InvTypeOK, PTL

LEMMA InvTiled == IInv => HeapTiled
<1> SUFFICES ASSUME IInv PROVE HeapTiled
  OBVIOUS
<1>1. Listed(hdr) /\ NoFreePair(hdr) /\ Held(hdr, live) /\ FirstRight
  BY DEF IInv, ListInv
<1>2. pc # "grow" /\ pc # "panic" => heap_first = IF DOMAIN hdr = {} THEN NULL ELSE HEAP_START
  BY <1>1 DEF FirstRight
<1>3. ASSUME NEW c \in DOMAIN hdr, NEW n, n = hdr[c].next
      PROVE  /\ c >= HEAP_START /\ hdr[c].length >= HeaderSize
             /\ c = HEAP_START <=> hdr[c].prev = NULL
             /\ hdr[c].prev # NULL => /\ hdr[c].prev \in DOMAIN hdr
                                      /\ hdr[hdr[c].prev].next = c
             /\ n # NULL => n \in DOMAIN hdr /\ n = c + hdr[c].length /\ hdr[n].prev = c
             /\ ~hdr[c].allocated => n # NULL /\ hdr[n].allocated
             /\ hdr[c].allocated <=> c + HeaderSize \in DOMAIN live
  <2>1. /\ c >= HEAP_START /\ hdr[c].length >= HeaderSize
        /\ c = HEAP_START <=> hdr[c].prev = NULL
    BY <1>1 DEF Listed, Placed
  <2>2. hdr[c].prev # NULL => hdr[c].prev \in DOMAIN hdr /\ hdr[hdr[c].prev].next = c
    BY <1>1 DEF Listed, LinkedBack
  <2>3. n # NULL => n \in DOMAIN hdr /\ n = c + hdr[c].length /\ hdr[n].prev = c
    BY <1>1, <1>3 DEF Listed, LinkedOn
  <2>4. ~hdr[c].allocated => n # NULL /\ hdr[n].allocated
    BY <1>1, <1>3 DEF NoFreePair, Settled
  <2>5. hdr[c].allocated <=> c + HeaderSize \in DOMAIN live
    <3>1. hdr[c].allocated => c + HeaderSize \in DOMAIN live
      BY <1>1 DEF Held, InUse
    <3>2. c + HeaderSize \in DOMAIN live => (c + HeaderSize) - HeaderSize \in InUse(hdr)
      BY <1>1 DEF Held
    <3>3. (c + HeaderSize) - HeaderSize = c
      BY <1>1, ChunkTyped, Sizes
    <3> QED
      BY <3>1, <3>2, <3>3 DEF InUse
  <2> QED
    BY <2>1, <2>2, <2>3, <2>4, <2>5
<1>4. \A p \in DOMAIN live : /\ p - HeaderSize \in DOMAIN hdr
                             /\ hdr[p - HeaderSize].length >= live[p] + HeaderSize
  BY <1>1 DEF Held, InUse
<1> QED
  BY <1>2, <1>3, <1>4 DEF HeapTiled

(* The chunks tile the heap in the order of the list, the links agree, no  *)
(* two neighbours are free, the last chunk is in use, and the chunks in    *)
(* use are the blocks callers hold.                                        *)
THEOREM ListCorrect == ASSUME Roomy PROVE Spec => []HeapTiled
  BY Invariant, InvTiled, PTL

LEMMA InvMapped == IInv => ChunksMapped
<1> SUFFICES ASSUME IInv PROVE ChunksMapped
  OBVIOUS
<1>1. /\ Listed(hdr) /\ EndsOnPages /\ TablesTyped(pte, pgd) /\ HeapMapped(pte, heap_max)
      /\ Bounds
  BY DEF IInv, ListInv, PagesInv
<1>2. Mapped = {p \in DOMAIN pte : HEAP_START <= p /\ p < heap_max}
  <2>1. ASSUME NEW p \in DOMAIN pte, HEAP_START <= p, p < heap_max PROVE pte[p] # NoFrame
    <3>1. IsPage(p)
      BY <1>1 DEF TablesTyped
    <3>2. p \in HEAP_START .. heap_max - 1
      BY <1>1, <2>1, <3>1, BoundTypes, Sizes DEF IsPage
    <3> QED
      BY <1>1, <3>1, <3>2 DEF HeapMapped
  <2>2. \A p \in DOMAIN pte : pte[p] # NoFrame => HEAP_START <= p /\ p < heap_max
    BY <1>1 DEF HeapMapped
  <2> QED
    BY <2>1, <2>2 DEF Mapped
<1>3. ASSUME NEW c \in DOMAIN hdr PROVE c + hdr[c].length <= heap_max
  <2>1. PICK x \in HEAP_START .. heap_max : EndsAt(hdr, x)
    BY <1>1 DEF EndsOnPages
  <2>2. c + hdr[c].length <= x /\ x \in Nat
    BY <1>1, <2>1, EndBehindAll
  <2>3. c \in Nat /\ hdr[c].length \in Nat
    BY <1>1, ChunkTyped
  <2> QED
    BY <1>1, <2>1, <2>2, <2>3, BoundTypes, Sizes
<1> QED
  BY <1>2, <1>3 DEF ChunksMapped

(* What is mapped are the heap's pages, and every chunk lies on them.      *)
THEOREM ChunksOnPages == ASSUME Roomy PROVE Spec => []ChunksMapped
  BY Invariant, InvMapped, PTL

LEMMA InvOwnership == IInv => FrameOwnership
<1> SUFFICES ASSUME IInv PROVE FrameOwnership
  OBVIOUS
<1>1. OneOwner(pmm_stack, pte, pgd) /\ Counted /\ Bounds /\ TablesTyped(pte, pgd)
      /\ pmm_stack \in Seq(Frames)
  BY DEF IInv, PagesInv
<1>2. /\ \A i, j \in DOMAIN pmm_stack : pmm_stack[i] = pmm_stack[j] => i = j
      /\ \A p, q \in Mapped : pte[p] = pte[q] => p = q
      /\ \A i, j \in DOMAIN pgd : pgd[i] = pgd[j] => i = j
  BY <1>1 DEF OneOwner, Mapped
<1>3. Free \cap Used = {} /\ Free \cap Tables = {} /\ Used \cap Tables = {}
  BY <1>1 DEF OneOwner, Free, Used, Tables, Mapped
<1>4. pc # "panic" =>
        Len(pmm_stack) + (heap_max - HEAP_START) \div PAGE_SIZE
          = phy_page_count - Cardinality(DOMAIN pgd)
  <2>1. /\ PageCount \in Nat /\ Cardinality(DOMAIN pgd) \in Nat /\ phy_page_count \in Nat
        /\ Len(pmm_stack) \in Nat
    BY <1>1, BoundTypes, FiniteTables
  <2>2. pc # "panic" => Len(pmm_stack) + PageCount = phy_page_count - Cardinality(DOMAIN pgd)
    BY <1>1, <2>1 DEF Counted
  <2> QED
    BY <2>2 DEF PageCount
<1> QED
  BY <1>2, <1>3, <1>4 DEF FrameOwnership

(* A frame is free, or a page of the heap, or a page table, and only one   *)
(* of these once; none is lost while the system runs.                      *)
THEOREM FramesOwnedOnce == ASSUME Roomy PROVE Spec => []FrameOwnership
  BY Invariant, InvOwnership, PTL

LEMMA InvCoherent == IInv => TlbCoherent
<1> SUFFICES ASSUME IInv PROVE TlbCoherent
  OBVIOUS
<1>1. Coherent(tlb, pte)
  BY DEF IInv, PagesInv
<1> QED
  BY <1>1, PagingAssumption DEF Coherent, TlbCoherent, Mapped

(* The processor translates through no entry that was removed or replaced. *)
THEOREM TlbStaysCoherent == ASSUME Roomy PROVE Spec => []TlbCoherent
  BY Invariant, InvCoherent, PTL

LEMMA InvTrimmed == IInv => Trimmed
<1> SUFFICES ASSUME IInv, pc = "ready" PROVE heap_max - End <= PAGE_SIZE
  BY DEF Trimmed
<1>1. Listed(hdr) /\ EndsOnPages /\ Bounds
  BY DEF IInv, ListInv, PagesInv
<1>2. PICK x \in HEAP_START .. heap_max : EndsAt(hdr, x) /\ heap_max <= x + PAGE_SIZE
  BY <1>1 DEF EndsOnPages
<1>3. End = x
  <2>1. CASE DOMAIN hdr = {}
    <3>1. hdr = [c \in {} |-> NULL]
      BY <1>1, <2>1 DEF Listed, Typed
    <3>2. x = HEAP_START
      BY <1>2, <2>1 DEF EndsAt, AtEnd
    <3> QED
      BY <3>1, <3>2 DEF End
  <2>2. CASE DOMAIN hdr # {}
    <3> DEFINE ends == {c + hdr[c].length : c \in Final}
    <3>1. \A e \in ends : e = x
      <4>1. ASSUME NEW c \in DOMAIN hdr, hdr[c].next = NULL PROVE EndsAt(hdr, c + hdr[c].length)
        BY <4>1 DEF EndsAt, AtEnd
      <4>2. ASSUME NEW c \in DOMAIN hdr, hdr[c].next = NULL PROVE c + hdr[c].length = x
        BY <1>1, <1>2, <4>1, <4>2, EndUnique
      <4> QED
        BY <4>2 DEF Final
    <3>2. PICK p \in DOMAIN hdr : hdr[p].next = NULL
      BY <1>1, <2>2 DEF Listed, OneEnd
    <3>3. ends = {x}
      BY <3>1, <3>2 DEF Final
    <3>4. hdr # [c \in {} |-> NULL]
      BY <2>2
    <3>5. End = CHOOSE e \in ends : TRUE
      BY <3>4 DEF End
    <3> HIDE DEF ends
    <3> QED
      BY <3>3, <3>5
  <2> QED
    BY <2>1, <2>2
<1> QED
  BY <1>1, <1>2, <1>3, BoundTypes, EndBehindAll, Sizes

(* Between calls at most one page lies free behind the last chunk.         *)
THEOREM MemoryGivenBack == ASSUME Roomy PROVE Spec => []Trimmed
  BY Invariant, InvTrimmed, PTL


-----------------------------------------------------------------------------
(* The heap implements the allocator.                                      *)

Blocks == [p \in DOMAIN live |-> hdr[p - HeaderSize].length - HeaderSize]
Request == IF pc \in {"walk", "grow", "panic"} THEN {Asked} ELSE {}

LEMMA BlockSizes ==
  ASSUME Listed(hdr), Held(hdr, live)
  PROVE  /\ DOMAIN Blocks = DOMAIN live
         /\ \A p \in DOMAIN live : /\ p \in Nat /\ p - HeaderSize \in InUse(hdr)
                                   /\ hdr[p - HeaderSize].length \in Nat
                                   /\ Blocks[p] = hdr[p - HeaderSize].length - HeaderSize
                                   /\ Blocks[p] >= live[p]
<1>1. /\ DOMAIN live \subseteq Nat /\ live \in [DOMAIN live -> Nat]
      /\ \A p \in DOMAIN live : /\ p - HeaderSize \in InUse(hdr)
                                /\ hdr[p - HeaderSize].length >= live[p] + HeaderSize
  BY DEF Held
<1>2. /\ DOMAIN Blocks = DOMAIN live
      /\ \A p \in DOMAIN live : Blocks[p] = hdr[p - HeaderSize].length - HeaderSize
  BY DEF Blocks
<1>3. \A d \in InUse(hdr) : hdr[d].length \in Nat
  BY ChunkTyped DEF InUse
<1>4. ASSUME NEW p \in DOMAIN live PROVE Blocks[p] >= live[p]
  <2>1. live[p] \in Nat /\ hdr[p - HeaderSize].length \in Nat
    BY <1>1, <1>3
  <2> QED
    BY <1>1, <1>2, <2>1, Sizes
<1> QED
  BY <1>1, <1>2, <1>3, <1>4

(* A call is granted a block that no block in use overlaps.                *)
LEMMA GrantStep ==
  ASSUME ListInv, ListInv', NEW c, Granted(c), Asked \in Nat,
         pc \in {"walk", "grow"}, pc' = "ready"
  PROVE  Alloc!Next
<1> DEFINE a == c + HeaderSize
<1>1. /\ c \in Nat /\ c \notin InUse(hdr)
      /\ InUse(hdr') = InUse(hdr) \cup {c}
      /\ \A d \in InUse(hdr) : hdr'[d].length = hdr[d].length
      /\ hdr'[c].length >= Asked + HeaderSize
      /\ live' = [q \in DOMAIN live \cup {a} |-> IF q = a THEN Asked ELSE live[q]]
  BY DEF Granted, GiveTo
<1>2. Listed(hdr) /\ Held(hdr, live) /\ Listed(hdr') /\ Held(hdr', live')
  BY DEF ListInv
<1>3. /\ DOMAIN Blocks = DOMAIN live
      /\ \A p \in DOMAIN live : /\ p \in Nat /\ p - HeaderSize \in InUse(hdr)
                                /\ hdr[p - HeaderSize].length \in Nat
                                /\ Blocks[p] = hdr[p - HeaderSize].length - HeaderSize
  BY <1>2, BlockSizes
<1>4. DOMAIN live' = DOMAIN live \cup {a} /\ DOMAIN Blocks' = DOMAIN live'
  BY <1>1 DEF Blocks
<1>5. \A p \in DOMAIN live' : Blocks'[p] = hdr'[p - HeaderSize].length - HeaderSize
  BY DEF Blocks
<1>6. a - HeaderSize = c /\ a \in Nat
  BY <1>1, Sizes
<1>7. a \notin DOMAIN live
  BY <1>1, <1>3, <1>6
<1>8. hdr'[c].length \in Nat /\ c \in DOMAIN hdr'
  BY <1>1, <1>2, ChunkTyped DEF InUse
<1>9. Blocks'[a] = hdr'[c].length - HeaderSize /\ Blocks'[a] >= Asked
  BY <1>1, <1>4, <1>5, <1>6, <1>8, Sizes
<1>10. ASSUME NEW b \in DOMAIN live
       PROVE  /\ Blocks'[b] = Blocks[b]
              /\ a + Blocks'[a] <= b \/ b + Blocks[b] <= a
  <2> DEFINE d == b - HeaderSize
  <2>1. /\ d \in InUse(hdr) /\ b \in Nat /\ hdr[d].length \in Nat
        /\ Blocks[b] = hdr[d].length - HeaderSize /\ b \in DOMAIN live'
    BY <1>3, <1>4
  <2>2. Blocks'[b] = hdr'[d].length - HeaderSize
    BY <1>5, <2>1
  <2>3. d \in DOMAIN hdr' /\ hdr'[d].length = hdr[d].length /\ d # c
    BY <1>1, <2>1 DEF InUse
  <2>4. d \in Nat /\ b = d + HeaderSize
    BY <1>2, <2>1, <2>3, ChunkTyped, Sizes
  <2>5. c + hdr'[c].length <= d \/ d + hdr'[d].length <= c
    <3>1. c < d => c + hdr'[c].length <= d
      BY <1>2, <1>8, <2>3 DEF Listed, Ordered
    <3>2. d < c => d + hdr'[d].length <= c
      BY <1>2, <1>8, <2>3 DEF Listed, Ordered
    <3> QED
      BY <1>1, <2>3, <2>4, <3>1, <3>2
  <2> HIDE DEF d
  <2> QED
    BY <1>1, <1>8, <1>9, <2>1, <2>2, <2>3, <2>4, <2>5, Sizes
<1>11. Request = {Asked} /\ Request' = {}
  BY DEF Request
<1> HIDE DEF a
<1>12. /\ a \notin DOMAIN Blocks
       /\ DOMAIN Blocks' = DOMAIN Blocks \cup {a}
       /\ \A b \in DOMAIN Blocks : /\ Blocks'[b] = Blocks[b]
                                   /\ a + Blocks'[a] <= b \/ b + Blocks[b] <= a
       /\ \A n \in Request : Blocks'[a] >= n
       /\ Request # {}
       /\ Request' = {}
  BY <1>3, <1>4, <1>7, <1>9, <1>10, <1>11
<1>13. Alloc!Grant(a) /\ a \in DOMAIN Blocks'
  BY <1>4, <1>12 DEF Alloc!Grant, Alloc!Apart, Blocks, Request
<1> QED
  BY <1>13 DEF Alloc!Next, Blocks


LEMMA AllocInit == Init => Alloc!Init
<1> SUFFICES ASSUME Init PROVE Alloc!Init
  OBVIOUS
<1>1. live = [p \in {} |-> 0] /\ pc = "ready"
  BY DEF Init
<1>2. Blocks = [a \in {} |-> 0] /\ Request = {}
  BY <1>1 DEF Blocks, Request
<1> QED
  BY <1>2 DEF Alloc!Init, Blocks, Request

LEMMA AllocStep ==
  ASSUME IInv, [Next]_vars
  PROVE  [Alloc!Next]_(Alloc!vars)
<1>0. PagesInv /\ ListInv /\ Bounds /\ Cursor
  BY DEF IInv, PagesInv, ListInv
<1>s. ASSUME Blocks' = Blocks, Request' = Request PROVE UNCHANGED Alloc!vars
  BY <1>s DEF Alloc!vars, Blocks, Request
<1>e. ASSUME UNCHANGED <<live, hdr>> PROVE Blocks' = Blocks
  BY <1>e DEF Blocks
<1>1. ASSUME NEW n \in Requests, Kmalloc(n) PROVE Alloc!Next
  <2>1. /\ pc = "ready" /\ pc' = "walk" /\ UNCHANGED <<live, hdr>>
    BY <1>1 DEF Kmalloc
  <2>2. ListInv' /\ Bounds'
    BY <1>0, <1>1, KmallocList DEF Kmalloc, Bounds, Limit
  <2>3. Asked' = n
    <3>1. len' = Wrap(n + HeaderSize) /\ n \in Nat
      BY <1>1, HeapAssumption DEF Kmalloc
    <3>2. Limit \in Nat /\ Limit + n + HeaderSize < Word
      BY <1>0, BoundTypes DEF Bounds
    <3>3. len' = n + HeaderSize
      BY <3>1, <3>2, Sizes DEF Wrap
    <3> QED
      BY <3>1, <3>3, Sizes DEF Asked
  <2>4. Request = {} /\ Request' = {n}
    BY <2>1, <2>3 DEF Request
  <2>5. Alloc!Call(n)
    BY <1>e, <2>1, <2>4 DEF Alloc!Call, Blocks, Request
  <2> QED
    BY <2>5 DEF Alloc!Next
<1>2. ASSUME NEW p \in DOMAIN live, Kfree(p) PROVE Alloc!Next
  <2>1. ListInv' /\ Released(p) /\ pc' \in {"ready", "shrink"} /\ pc = "ready"
    BY <1>0, <1>2, KfreeList DEF Kfree
  <2>2. Request = {} /\ Request' = {}
    BY <2>1 DEF Request
  <2>3. /\ DOMAIN live' = DOMAIN live \ {p}
        /\ \A d \in InUse(hdr') : hdr'[d].length = hdr[d].length
        /\ \A q \in DOMAIN live' : q - HeaderSize \in InUse(hdr')
    BY <2>1 DEF Released, ListInv, Held
  <2>4. Blocks' = [b \in DOMAIN Blocks \ {p} |-> Blocks[b]]
    <3>1. /\ DOMAIN Blocks = DOMAIN live
          /\ \A q \in DOMAIN live : Blocks[q] = hdr[q - HeaderSize].length - HeaderSize
      BY DEF Blocks
    <3>2. Blocks' = [q \in DOMAIN live' |-> hdr'[q - HeaderSize].length - HeaderSize]
      BY DEF Blocks
    <3> QED
      BY <2>3, <3>1, <3>2
  <2>5. Alloc!Free(p) /\ p \in DOMAIN Blocks
    BY <2>2, <2>4 DEF Alloc!Free, Blocks, Request
  <2> QED
    BY <2>5 DEF Alloc!Next, Blocks
<1>3. CASE Walk
  <2>1. pc = "walk" /\ UNCHANGED <<live, hdr, pc, len>>
    BY <1>3 DEF Walk
  <2> QED
    BY <1>s, <1>e, <2>1 DEF Request, Asked
<1>4. CASE TakeChunk
  <2>1. pc = "walk" /\ pc' = "ready"
    BY <1>4 DEF TakeChunk, Return
  <2>2. ListInv' /\ Granted(cur) /\ Asked \in Nat
    BY <1>0, <1>4, <2>1, TakeChunkList, LookedFor
  <2> QED
    BY <1>0, <2>1, <2>2, GrantStep
<1>5. CASE StartGrowing
  <2>1. pc = "walk" /\ pc' = "grow" /\ UNCHANGED <<live, hdr, len>>
    BY <1>5 DEF StartGrowing
  <2> QED
    BY <1>s, <1>e, <2>1 DEF Request, Asked
<1>6. CASE Grow
  <2>1. UNCHANGED <<live, hdr, pc, len>>
    BY <1>6 DEF Grow
  <2> QED
    BY <1>s, <1>e, <2>1 DEF Request, Asked
<1>7. CASE OutOfMemory
  <2>1. pc = "grow" /\ pc' = "panic" /\ UNCHANGED <<live, hdr, len>>
    BY <1>7 DEF OutOfMemory
  <2> QED
    BY <1>s, <1>e, <2>1 DEF Request, Asked
<1>8. CASE AppendChunk
  <2>1. pc = "grow"
    BY <1>8 DEF AppendChunk
  <2>2. ListInv' /\ Granted(cur) /\ pc' = "ready" /\ Asked \in Nat
    BY <1>0, <1>8, <2>1, AppendChunkList, LookedFor
  <2> QED
    BY <1>0, <2>1, <2>2, GrantStep
<1>9. CASE Shrink
  <2>1. cur \in Nat /\ cur >= HEAP_START
    <3>1. Listed(hdr) /\ EndsAt(hdr, cur)
      BY <1>0, <1>9 DEF Shrink, ListInv, Cursor
    <3> QED
      BY <3>1, EndBehindAll
  <2>2. pc = "shrink" /\ pc' = "shrink" /\ UNCHANGED <<live, hdr, len>>
    BY <1>0, <1>9, <2>1, ShrinkPages DEF Shrink
  <2> QED
    BY <1>s, <1>e, <2>2 DEF Request, Asked
<1>10. CASE ShrinkDone
  <2>1. pc = "shrink" /\ pc' = "ready" /\ UNCHANGED <<live, hdr>>
    BY <1>10 DEF ShrinkDone, Return
  <2> QED
    BY <1>s, <1>e, <2>1 DEF Request, Asked
<1>11. CASE Fill \/ UNCHANGED vars
  <2>1. UNCHANGED <<live, hdr, pc, len>>
    BY <1>11 DEF Fill, vars, heapVars
  <2> QED
    BY <1>s, <1>e, <2>1 DEF Request, Asked
<1> QED
  BY <1>1, <1>2, <1>3, <1>4, <1>5, <1>6, <1>7, <1>8, <1>9, <1>10, <1>11 DEF Next, HeapStep

(* Every call is granted a block as large as it asked for and apart from   *)
(* the blocks in use, and those keep their place and their size.           *)
THEOREM Implements == ASSUME Roomy PROVE Spec => GivesApartBlocks
<1>1. Init => Alloc!Init
  BY AllocInit
<1>2. IInv /\ [Next]_vars => [Alloc!Next]_(Alloc!vars)
  BY AllocStep
<1>3. Spec => []IInv
  BY Invariant
<1> QED
  BY <1>1, <1>2, <1>3, PTL DEF Spec, GivesApartBlocks, Alloc!Spec


-----------------------------------------------------------------------------
(* Stopping.                                                               *)

LEMMA StopStep ==
  ASSUME IInv, Next, pc # "panic", pc' = "panic"
  PROVE  pmm_stack' = << >>
<1>0. /\ PagesInv /\ ListInv /\ Listed(hdr) /\ pmm_stack \in Seq(Frames)
      /\ pc = "shrink" => EndsAt(hdr, cur)
  BY DEF IInv, PagesInv, ListInv, Cursor
<1>1. CASE OutOfMemory
  <2>1. CASE pmm_stack = << >> /\ UNCHANGED pmm_stack
    BY <2>1
  <2>2. CASE /\ pmm_stack # << >> /\ MapFails(heap_max, Pop(pmm_stack))
             /\ pmm_stack' = Pop(pmm_stack)
    BY <2>2 DEF MapFails
  <2> QED
    BY <1>1, <2>1, <2>2 DEF OutOfMemory
<1>2. CASE AppendChunk
  BY <1>0, <1>2, AppendChunkList
<1>3. CASE Shrink
  <2>1. cur \in Nat /\ cur >= HEAP_START
    BY <1>0, <1>3, EndBehindAll DEF Shrink
  <2> QED
    BY <1>0, <1>3, <2>1, ShrinkPages
<1>4. ASSUME \/ \E n \in Requests : Kmalloc(n)
             \/ Walk \/ TakeChunk \/ StartGrowing \/ Grow \/ ShrinkDone
             \/ Fill
      PROVE  pc' # "panic"
  BY <1>4 DEF Kmalloc, Walk, TakeChunk, StartGrowing, Grow, ShrinkDone, Return,
              Fill, heapVars
<1>5. ASSUME NEW p \in DOMAIN live, Kfree(p) PROVE pc' # "panic"
  BY <1>5 DEF Kfree
<1> QED
  BY <1>1, <1>2, <1>3, <1>4, <1>5 DEF Next, HeapStep

(* The heap stops the kernel in one way only, with the last frame gone: no *)
(* header is written to a page that is not mapped, and no frame given back *)
(* finds the stack full.                                                   *)
THEOREM StopsForWantOfFrames == ASSUME Roomy PROVE Spec => StopsOnlyWithoutFrames
<1>1. IInv /\ [Next]_vars => [pc # "panic" /\ pc' = "panic" => pmm_stack' = << >>]_vars
  BY StopStep DEF vars, heapVars
<1>2. Spec => []IInv
  BY Invariant
<1> QED
  BY <1>1, <1>2, PTL DEF Spec, StopsOnlyWithoutFrames
=============================================================================
