------------------------------ MODULE HeapLists ------------------------------
(***************************************************************************)
(* What the operations of kern/mm/heap.c do to the list of chunks: the     *)
(* conditions that make a function h from addresses to headers a list, and *)
(* that merging, unlinking, splitting and appending keep them.             *)
(***************************************************************************)
EXTENDS Heap, TLAPS

Typed(h) == h \in [DOMAIN h -> Chunk] /\ DOMAIN h \subseteq Nat

Placed(h) == \A c \in DOMAIN h : /\ c >= HEAP_START
                                 /\ h[c].length >= HeaderSize
                                 /\ c = HEAP_START <=> h[c].prev = NULL

LinkedBack(h) == \A c \in DOMAIN h : h[c].prev # NULL =>
                   h[c].prev \in DOMAIN h /\ h[h[c].prev].next = c

LinkedOn(h) == \A c \in DOMAIN h : h[c].next # NULL =>
                 /\ h[c].next \in DOMAIN h
                 /\ h[c].next = c + h[c].length
                 /\ h[h[c].next].prev = c

(* Two chunks are apart, whether neighbours or not.                        *)
Ordered(h) == \A c, d \in DOMAIN h : c < d => c + h[c].length <= d

(* The list begins at HEAP_START and has one end.                          *)
OneEnd(h) == /\ \A c \in DOMAIN h : h[c].next = NULL => \A d \in DOMAIN h : d <= c
             /\ DOMAIN h # {} => /\ HEAP_START \in DOMAIN h
                                 /\ \E c \in DOMAIN h : h[c].next = NULL

Listed(h) == /\ Typed(h) /\ Placed(h) /\ LinkedBack(h) /\ LinkedOn(h)
             /\ Ordered(h) /\ OneEnd(h)

-----------------------------------------------------------------------------
LEMMA Sizes == /\ HEAP_START \in Nat /\ HEAP_START > 0 /\ NULL = 0
               /\ HeaderSize \in Nat /\ HeaderSize > 0
               /\ PAGE_SIZE \in Nat /\ PAGE_SIZE > 0
               /\ Word \in Nat /\ HEAP_START < Word /\ Word <= 2 * HEAP_START
  BY HeapAssumption, PagingAssumption DEF NULL

LEMMA ChunkTyped ==
  ASSUME NEW h, Listed(h), NEW c \in DOMAIN h
  PROVE  /\ c \in Nat /\ c # NULL /\ h[c] \in Chunk
         /\ h[c].prev \in Nat /\ h[c].next \in Nat /\ h[c].length \in Nat
         /\ h[c].allocated \in BOOLEAN
         /\ h[c].length > 0
<1>1. c \in Nat /\ h[c] \in Chunk
  BY DEF Listed, Typed
<1>2. c >= HEAP_START /\ h[c].length >= HeaderSize
  BY DEF Listed, Placed
<1>3. h[c].prev \in Nat /\ h[c].next \in Nat /\ h[c].length \in Nat /\ h[c].allocated \in BOOLEAN
  BY <1>1 DEF Chunk
<1> QED
  BY <1>1, <1>2, <1>3, Sizes

-----------------------------------------------------------------------------
(* Merging a chunk with the next.                                          *)

LEMMA AbsorbFields ==
  ASSUME NEW h, Listed(h), NEW c \in DOMAIN h,
         NEW n, n = h[c].next, n # NULL, NEW g, g = Absorb(h, c)
  PROVE  /\ DOMAIN g = DOMAIN h \ {n}
         /\ g \in [DOMAIN g -> Chunk]
         /\ c \in DOMAIN g /\ n \in DOMAIN h /\ n = c + h[c].length /\ c < n
         /\ h[n].next # c
         /\ \A d \in DOMAIN g :
              /\ g[d].length = IF d = c THEN h[c].length + h[n].length ELSE h[d].length
              /\ g[d].next = IF d = c THEN h[n].next ELSE h[d].next
              /\ g[d].prev = IF d = h[n].next THEN c ELSE h[d].prev
              /\ g[d].allocated = h[d].allocated
<1>1. /\ n \in DOMAIN h /\ n = c + h[c].length /\ h[n].prev = c
      /\ h[n].next # NULL => h[n].next = n + h[n].length
  BY DEF Listed, LinkedOn
<1>2. /\ c \in Nat /\ c # NULL /\ h[c] \in Chunk /\ h[c].length \in Nat /\ h[c].length > 0
      /\ n \in Nat /\ h[n] \in Chunk /\ h[n].length \in Nat /\ h[n].length > 0
      /\ h[n].next \in Nat
  BY <1>1, ChunkTyped
<1>3. c < n /\ h[n].next # c
  BY <1>1, <1>2
<1> DEFINE D == DOMAIN h \ {n}
           b == [h[c] EXCEPT !.length = @ + h[n].length, !.next = h[n].next]
           m(d) == [h[d] EXCEPT !.prev = c]
<1>4. g = [d \in D |-> IF d = c THEN b ELSE IF d = h[n].next THEN m(d) ELSE h[d]]
  BY DEF Absorb
<1>5. /\ b \in Chunk /\ b.length = h[c].length + h[n].length
      /\ b.next = h[n].next /\ b.prev = h[c].prev /\ b.allocated = h[c].allocated
  <2>1. h[c].length + h[n].length \in Nat
    BY <1>2
  <2>2. b \in Chunk
    BY <1>2, <2>1 DEF Chunk
  <2> QED
    BY <1>2, <2>2 DEF Chunk
<1>6. \A d \in DOMAIN h : /\ h[d] \in Chunk
                          /\ m(d) \in Chunk /\ m(d).length = h[d].length
                          /\ m(d).next = h[d].next /\ m(d).prev = c
                          /\ m(d).allocated = h[d].allocated
  BY <1>2, ChunkTyped DEF Chunk
<1> HIDE DEF b, m
<1>7. DOMAIN g = D /\ \A d \in D : g[d] = IF d = c THEN b ELSE IF d = h[n].next THEN m(d) ELSE h[d]
  BY <1>4
<1>8. g \in [D -> Chunk]
  BY <1>4, <1>5, <1>6
<1>9. /\ g \in [DOMAIN g -> Chunk] /\ c \in DOMAIN g
  BY <1>1, <1>3, <1>7, <1>8
<1>10. ASSUME NEW d \in DOMAIN g
       PROVE  /\ g[d].length = IF d = c THEN h[c].length + h[n].length ELSE h[d].length
              /\ g[d].next = IF d = c THEN h[n].next ELSE h[d].next
              /\ g[d].prev = IF d = h[n].next THEN c ELSE h[d].prev
              /\ g[d].allocated = h[d].allocated
  BY <1>3, <1>5, <1>6, <1>7
<1> QED
  BY <1>1, <1>3, <1>7, <1>9, <1>10

LEMMA AbsorbListed ==
  ASSUME NEW h, Listed(h), NEW c \in DOMAIN h, h[c].next # NULL,
         NEW g, g = Absorb(h, c)
  PROVE  Listed(g)
<1> DEFINE n == h[c].next
           e == h[n].next
<1>1. /\ DOMAIN g = DOMAIN h \ {n} /\ g \in [DOMAIN g -> Chunk]
      /\ c \in DOMAIN g /\ n \in DOMAIN h /\ n = c + h[c].length /\ c < n /\ e # c
      /\ \A d \in DOMAIN g :
           /\ g[d].length = IF d = c THEN h[c].length + h[n].length ELSE h[d].length
           /\ g[d].next = IF d = c THEN e ELSE h[d].next
           /\ g[d].prev = IF d = e THEN c ELSE h[d].prev
  BY AbsorbFields
<1>2. \A d \in DOMAIN h : /\ d \in Nat /\ d # NULL
                          /\ h[d].prev \in Nat /\ h[d].next \in Nat
                          /\ h[d].length \in Nat /\ h[d].length > 0
  BY ChunkTyped
<1>n. h[c].next = n /\ h[n].next = e /\ n # NULL
  OBVIOUS
<1> HIDE DEF n, e
<1>3. /\ e # NULL => e \in DOMAIN h /\ e = n + h[n].length /\ h[e].prev = n
      /\ h[n].prev = c
  BY <1>1, <1>n DEF Listed, LinkedOn
<1>4. Typed(g)
  BY <1>1 DEF Typed, Listed
<1>5. Placed(g)
  <2> SUFFICES ASSUME NEW d \in DOMAIN g
               PROVE  /\ d >= HEAP_START /\ g[d].length >= HeaderSize
                      /\ d = HEAP_START <=> g[d].prev = NULL
    BY DEF Placed
  <2>1. /\ d >= HEAP_START /\ h[d].length >= HeaderSize
        /\ d = HEAP_START <=> h[d].prev = NULL
    BY <1>1 DEF Listed, Placed
  <2>2. n >= HEAP_START
    BY <1>1 DEF Listed, Placed
  <2>3. d = e => d # HEAP_START /\ g[d].prev # NULL
    BY <1>1, <1>2, <1>3, <2>2, Sizes
  <2>4. g[d].length >= HeaderSize
    BY <1>1, <1>2, <2>1, Sizes
  <2> QED
    BY <1>1, <2>1, <2>3, <2>4
<1>6. LinkedBack(g)
  <2> SUFFICES ASSUME NEW d \in DOMAIN g, g[d].prev # NULL
               PROVE  g[d].prev \in DOMAIN g /\ g[g[d].prev].next = d
    BY DEF LinkedBack
  <2>1. CASE d = e
    BY <1>1, <2>1
  <2>2. CASE d # e
    <3>1. g[d].prev = h[d].prev /\ h[d].prev \in DOMAIN h /\ h[h[d].prev].next = d
      BY <1>1, <2>2 DEF Listed, LinkedBack
    <3>2. h[d].prev # n /\ h[d].prev # c
      BY <1>1, <1>n, <2>2, <3>1
    <3> QED
      BY <1>1, <3>1, <3>2
  <2> QED
    BY <2>1, <2>2
<1>7. LinkedOn(g)
  <2> SUFFICES ASSUME NEW d \in DOMAIN g, g[d].next # NULL
               PROVE  /\ g[d].next \in DOMAIN g
                      /\ g[d].next = d + g[d].length
                      /\ g[g[d].next].prev = d
    BY DEF LinkedOn
  <2>1. CASE d = c
    <3>1. e \in DOMAIN g /\ g[c].next = e /\ g[e].prev = c
      BY <1>1, <1>2, <1>3, <2>1
    <3>2. e = c + (h[c].length + h[n].length)
      BY <1>1, <1>2, <1>3, <2>1
    <3> QED
      BY <1>1, <2>1, <3>1, <3>2
  <2>2. CASE d # c
    <3>1. /\ g[d].next = h[d].next /\ g[d].length = h[d].length
          /\ h[d].next \in DOMAIN h /\ h[d].next = d + h[d].length
          /\ h[h[d].next].prev = d
      BY <1>1, <2>2 DEF Listed, LinkedOn
    <3>2. h[d].next # n
      BY <1>3, <2>2, <3>1
    <3>3. h[d].next # e
      BY <1>1, <1>2, <1>3, <3>1
    <3> QED
      BY <1>1, <3>1, <3>2, <3>3
  <2> QED
    BY <2>1, <2>2
<1>8. Ordered(g)
  <2> SUFFICES ASSUME NEW b \in DOMAIN g, NEW d \in DOMAIN g, b < d
               PROVE  b + g[b].length <= d
    BY DEF Ordered
  <2>1. b \in DOMAIN h /\ d \in DOMAIN h /\ d # n /\ b + h[b].length <= d
    BY <1>1 DEF Listed, Ordered
  <2>2. CASE b = c
    <3>1. n < d
      BY <1>1, <1>2, <2>1, <2>2
    <3>2. n + h[n].length <= d
      BY <1>1, <2>1, <3>1 DEF Listed, Ordered
    <3> QED
      BY <1>1, <1>2, <2>2, <3>2
  <2> QED
    BY <1>1, <2>1, <2>2
<1>9. OneEnd(g)
  <2>1. HEAP_START # n /\ HEAP_START \in DOMAIN g
    <3>1. c >= HEAP_START /\ HEAP_START \in DOMAIN h
      BY DEF Listed, Placed, OneEnd
    <3>2. HEAP_START # n
      BY <1>1, <1>2, <3>1, Sizes
    <3> QED
      BY <1>1, <3>1, <3>2
  <2>2. PICK last \in DOMAIN h : h[last].next = NULL
    BY DEF Listed, OneEnd
  <2>3. \E d \in DOMAIN g : g[d].next = NULL
    <3>1. CASE last = n
      BY <1>1, <1>n, <2>2, <3>1
    <3>2. CASE last # n
      <4>1. last \in DOMAIN g /\ last # c
        BY <1>1, <1>n, <2>2, <3>2
      <4> QED
        BY <1>1, <2>2, <4>1
    <3> QED
      BY <3>1, <3>2
  <2>4. ASSUME NEW d \in DOMAIN g, g[d].next = NULL, NEW b \in DOMAIN g
        PROVE  b <= d
    <3>1. CASE d = c
      <4>1. h[n].next = NULL
        BY <1>1, <1>n, <2>4, <3>1
      <4>2. b \in DOMAIN h /\ b # n /\ b <= n
        BY <1>1, <4>1 DEF Listed, OneEnd
      <4>3. c < b => c + h[c].length <= b
        BY <1>1, <4>2 DEF Listed, Ordered
      <4> QED
        BY <1>1, <1>2, <3>1, <4>2, <4>3
    <3>2. CASE d # c
      BY <1>1, <2>4, <3>2 DEF Listed, OneEnd
    <3> QED
      BY <3>1, <3>2
  <2> QED
    BY <2>1, <2>3, <2>4 DEF OneEnd
<1> QED
  BY <1>4, <1>5, <1>6, <1>7, <1>8, <1>9 DEF Listed

-----------------------------------------------------------------------------
(* Taking the last chunk off the list.                                     *)

LEMMA UnlinkFields ==
  ASSUME NEW h, Listed(h), NEW c \in DOMAIN h, h[c].next = NULL,
         NEW g, g = Unlinked(h, c)
  PROVE  /\ DOMAIN g = DOMAIN h \ {c} /\ g \in [DOMAIN g -> Chunk]
         /\ \A d \in DOMAIN g :
              /\ g[d].length = h[d].length
              /\ g[d].next = IF d = h[c].prev THEN NULL ELSE h[d].next
              /\ g[d].prev = h[d].prev
              /\ g[d].allocated = h[d].allocated
<1> DEFINE m(d) == [h[d] EXCEPT !.next = NULL]
<1>1. \A d \in DOMAIN h : /\ h[d] \in Chunk /\ m(d) \in Chunk
                          /\ m(d).length = h[d].length /\ m(d).next = NULL
                          /\ m(d).prev = h[d].prev /\ m(d).allocated = h[d].allocated
  BY ChunkTyped DEF Chunk, NULL
<1>2. g = [d \in DOMAIN h \ {c} |-> IF d = h[c].prev THEN m(d) ELSE h[d]]
  BY DEF Unlinked
<1> HIDE DEF m
<1>3. DOMAIN g = DOMAIN h \ {c}
  BY <1>2
<1>4. \A d \in DOMAIN g : g[d] = IF d = h[c].prev THEN m(d) ELSE h[d]
  BY <1>2
<1>5. g \in [DOMAIN g -> Chunk]
  BY <1>1, <1>2
<1> QED
  BY <1>1, <1>3, <1>4, <1>5

LEMMA UnlinkListed ==
  ASSUME NEW h, Listed(h), NEW c \in DOMAIN h, h[c].next = NULL,
         NEW g, g = Unlinked(h, c)
  PROVE  Listed(g)
<1> DEFINE p == h[c].prev
<1>1. /\ DOMAIN g = DOMAIN h \ {c} /\ g \in [DOMAIN g -> Chunk]
      /\ \A d \in DOMAIN g :
           /\ g[d].length = h[d].length
           /\ g[d].next = IF d = p THEN NULL ELSE h[d].next
           /\ g[d].prev = h[d].prev
  BY UnlinkFields
<1>2. \A d \in DOMAIN h : /\ d \in Nat /\ d # NULL
                          /\ h[d].prev \in Nat /\ h[d].next \in Nat
                          /\ h[d].length \in Nat /\ h[d].length > 0
  BY ChunkTyped
<1>3. p # NULL => p \in DOMAIN h /\ h[p].next = c /\ c = p + h[p].length
  BY <1>2 DEF Listed, LinkedBack, LinkedOn
<1>4. \A d \in DOMAIN h : d <= c
  BY DEF Listed, OneEnd
<1>c. h[c].prev = p
  OBVIOUS
<1> HIDE DEF p
<1>5. Typed(g)
  BY <1>1 DEF Typed, Listed
<1>6. Placed(g)
  BY <1>1 DEF Placed, Listed
<1>7. LinkedBack(g)
  <2> SUFFICES ASSUME NEW d \in DOMAIN g, g[d].prev # NULL
               PROVE  g[d].prev \in DOMAIN g /\ g[g[d].prev].next = d
    BY DEF LinkedBack
  <2>1. g[d].prev = h[d].prev /\ h[d].prev \in DOMAIN h /\ h[h[d].prev].next = d
    BY <1>1 DEF Listed, LinkedBack
  <2>2. h[d].prev # c
    BY <1>1, <1>2, <2>1
  <2>3. h[d].prev # p
    BY <1>1, <1>2, <1>3, <2>1
  <2> QED
    BY <1>1, <2>1, <2>2, <2>3
<1>8. LinkedOn(g)
  <2> SUFFICES ASSUME NEW d \in DOMAIN g, g[d].next # NULL
               PROVE  /\ g[d].next \in DOMAIN g
                      /\ g[d].next = d + g[d].length
                      /\ g[g[d].next].prev = d
    BY DEF LinkedOn
  <2>1. /\ d # p /\ g[d].next = h[d].next /\ h[d].next \in DOMAIN h
        /\ h[d].next = d + h[d].length /\ h[h[d].next].prev = d
    BY <1>1 DEF Listed, LinkedOn
  <2>2. h[d].next # c
    BY <1>c, <2>1
  <2> QED
    BY <1>1, <2>1, <2>2
<1>9. Ordered(g)
  BY <1>1 DEF Ordered, Listed
<1>10. OneEnd(g)
  <2>1. ASSUME NEW d \in DOMAIN g, g[d].next = NULL PROVE d = p
    <3>1. d # p => h[d].next = NULL
      BY <1>1, <2>1
    <3>2. h[d].next = NULL => c <= d
      BY <1>1 DEF Listed, OneEnd
    <3> QED
      BY <1>1, <1>2, <1>4, <3>1, <3>2
  <2>2. ASSUME NEW d \in DOMAIN g, d = p, NEW b \in DOMAIN g PROVE b <= d
    <3>1. b < c /\ d # NULL /\ b \in Nat /\ d \in Nat
      BY <1>1, <1>2, <1>4
    <3>2. d < b => d + h[d].length <= b
      BY <1>1 DEF Listed, Ordered
    <3> QED
      BY <1>1, <1>2, <1>3, <2>2, <3>1, <3>2
  <2>3. ASSUME DOMAIN g # {}
        PROVE  HEAP_START \in DOMAIN g /\ \E d \in DOMAIN g : g[d].next = NULL
    <3>1. PICK d \in DOMAIN g : TRUE
      BY <2>3
    <3>2. d >= HEAP_START /\ d \in DOMAIN h /\ d # c
      BY <1>1 DEF Listed, Placed
    <3>3. c # HEAP_START
      BY <1>2, <1>4, <3>2, Sizes
    <3>4. p # NULL
      BY <1>c, <3>3 DEF Listed, Placed
    <3>5. p \in DOMAIN g
      BY <1>1, <1>2, <1>3, <3>4
    <3>6. HEAP_START \in DOMAIN h
      BY DEF Listed, OneEnd
    <3> QED
      BY <1>1, <3>3, <3>5, <3>6
  <2> QED
    BY <2>1, <2>2, <2>3 DEF OneEnd
<1> QED
  BY <1>5, <1>6, <1>7, <1>8, <1>9, <1>10 DEF Listed

-----------------------------------------------------------------------------
(* Marking a chunk as allocated or as free.                                *)

Marked(h, c, a) == [h EXCEPT ![c].allocated = a]

LEMMA MarkListed ==
  ASSUME NEW h, Listed(h), NEW c \in DOMAIN h, NEW a \in BOOLEAN,
         NEW g, g = Marked(h, c, a)
  PROVE  /\ DOMAIN g = DOMAIN h /\ Listed(g)
         /\ \A d \in DOMAIN g :
              /\ g[d].length = h[d].length
              /\ g[d].next = h[d].next
              /\ g[d].prev = h[d].prev
              /\ g[d].allocated = IF d = c THEN a ELSE h[d].allocated
<1> DEFINE m == [h[c] EXCEPT !.allocated = a]
<1>1. \A d \in DOMAIN h : h[d] \in Chunk
  BY ChunkTyped
<1>2. /\ m \in Chunk /\ m.length = h[c].length /\ m.next = h[c].next
      /\ m.prev = h[c].prev /\ m.allocated = a
  BY <1>1 DEF Chunk
<1>3. g = [h EXCEPT ![c] = m] /\ h \in [DOMAIN h -> Chunk]
  BY DEF Listed, Typed, Marked
<1> HIDE DEF m
<1>4. DOMAIN g = DOMAIN h /\ \A d \in DOMAIN h : g[d] = IF d = c THEN m ELSE h[d]
  BY <1>3
<1>5. g \in [DOMAIN g -> Chunk]
  BY <1>1, <1>2, <1>3
<1>6. \A d \in DOMAIN g :
        /\ g[d].length = h[d].length
        /\ g[d].next = h[d].next
        /\ g[d].prev = h[d].prev
        /\ g[d].allocated = IF d = c THEN a ELSE h[d].allocated
  BY <1>2, <1>4
<1>7. Typed(g) /\ Placed(g) /\ Ordered(g)
  BY <1>4, <1>5, <1>6 DEF Listed, Typed, Placed, Ordered
<1>8. LinkedBack(g)
  BY <1>4, <1>6 DEF Listed, LinkedBack
<1>9. LinkedOn(g)
  BY <1>4, <1>6 DEF Listed, LinkedOn
<1>10. OneEnd(g)
  BY <1>4, <1>6 DEF Listed, OneEnd
<1> QED
  BY <1>4, <1>6, <1>7, <1>8, <1>9, <1>10 DEF Listed


-----------------------------------------------------------------------------
(* Splitting a free chunk that is larger than the call needs.              *)

LEMMA SplitFields ==
  ASSUME Listed(hdr), NEW c \in DOMAIN hdr, len \in Nat, len >= HeaderSize,
         hdr[c].length >= len, Splits(c),
         NEW r, r = c + len, NEW g, g = SplitTakes(c)
  PROVE  /\ DOMAIN g = DOMAIN hdr \cup {r} /\ g \in [DOMAIN g -> Chunk]
         /\ r \notin DOMAIN hdr /\ r \in Nat /\ c < r /\ r # hdr[c].next
         /\ hdr[c].next # c
         /\ hdr[c].length - len \in Nat /\ hdr[c].length - len > HeaderSize
         /\ \A d \in DOMAIN g :
              /\ g[d].length = IF d = c THEN len
                               ELSE IF d = r THEN hdr[c].length - len ELSE hdr[d].length
              /\ g[d].next = IF d = c THEN r
                             ELSE IF d = r THEN hdr[c].next ELSE hdr[d].next
              /\ g[d].prev = IF d = r THEN c
                             ELSE IF d = hdr[c].next THEN r ELSE hdr[d].prev
              /\ g[d].allocated <=> d = c \/ (d # r /\ hdr[d].allocated)
<1> DEFINE n == hdr[c].next
           l == hdr[c].length - len
           a == [hdr[c] EXCEPT !.next = r, !.length = len, !.allocated = TRUE]
           b == [prev |-> c, next |-> n, allocated |-> FALSE, length |-> l]
           m(d) == [hdr[d] EXCEPT !.prev = r]
<1>1. \A d \in DOMAIN hdr : /\ d \in Nat /\ d # NULL /\ hdr[d] \in Chunk
                            /\ hdr[d].prev \in Nat /\ hdr[d].next \in Nat
                            /\ hdr[d].length \in Nat /\ hdr[d].length > 0
  BY ChunkTyped
<1>2. r \in Nat /\ c < r /\ l \in Nat /\ l > HeaderSize /\ r < c + hdr[c].length
  BY <1>1, Sizes DEF Splits
<1>3. r \notin DOMAIN hdr
  <2> SUFFICES ASSUME r \in DOMAIN hdr PROVE FALSE
    OBVIOUS
  <2>1. c + hdr[c].length <= r
    BY <1>2 DEF Listed, Ordered
  <2> QED
    BY <1>1, <1>2, <2>1
<1>4. r # n /\ n # c
  <2>1. n # NULL => n \in DOMAIN hdr /\ n = c + hdr[c].length
    BY DEF Listed, LinkedOn
  <2> QED
    BY <1>1, <1>2, <1>3, <2>1, Sizes
<1>5. g = [d \in DOMAIN hdr \cup {r} |->
             IF d = c THEN a ELSE IF d = r THEN b ELSE IF d = n THEN m(d) ELSE hdr[d]]
  BY DEF SplitTakes
<1>6. /\ a \in Chunk /\ a.next = r /\ a.length = len /\ a.allocated
      /\ a.prev = hdr[c].prev
  BY <1>1, <1>2 DEF Chunk
<1>7. /\ b \in Chunk /\ b.next = n /\ b.length = l /\ ~b.allocated /\ b.prev = c
  BY <1>1, <1>2 DEF Chunk
<1>8. \A d \in DOMAIN hdr : /\ m(d) \in Chunk /\ m(d).length = hdr[d].length
                            /\ m(d).next = hdr[d].next /\ m(d).prev = r
                            /\ m(d).allocated = hdr[d].allocated
  BY <1>1, <1>2 DEF Chunk
<1>n. n = hdr[c].next /\ l = hdr[c].length - len
  OBVIOUS
<1> HIDE DEF a, b, m, l, n
<1>9. DOMAIN g = DOMAIN hdr \cup {r}
  BY <1>5
<1>10. \A d \in DOMAIN g : g[d] = IF d = c THEN a ELSE IF d = r THEN b
                                  ELSE IF d = n THEN m(d) ELSE hdr[d]
  BY <1>5
<1>11. g \in [DOMAIN g -> Chunk]
  <2>1. \A d \in DOMAIN hdr \cup {r} :
          (IF d = c THEN a ELSE IF d = r THEN b ELSE IF d = n THEN m(d) ELSE hdr[d]) \in Chunk
    BY <1>1, <1>6, <1>7, <1>8
  <2> QED
    BY <1>5, <1>9, <2>1
<1>12. ASSUME NEW d \in DOMAIN g
       PROVE  /\ g[d].length = IF d = c THEN len ELSE IF d = r THEN l ELSE hdr[d].length
              /\ g[d].next = IF d = c THEN r ELSE IF d = r THEN n ELSE hdr[d].next
              /\ g[d].prev = IF d = r THEN c ELSE IF d = n THEN r ELSE hdr[d].prev
              /\ g[d].allocated <=> d = c \/ (d # r /\ hdr[d].allocated)
  <2>1. CASE d = c
    BY <1>4, <1>2, <1>6, <1>10, <2>1
  <2>2. CASE d = r
    BY <1>2, <1>4, <1>7, <1>10, <2>2
  <2>3. CASE d # c /\ d # r
    <3>1. d \in DOMAIN hdr /\ g[d] = IF d = n THEN m(d) ELSE hdr[d]
      BY <1>9, <1>10, <2>3
    <3> QED
      BY <1>8, <2>3, <3>1
  <2> QED
    BY <2>1, <2>2, <2>3
<1> QED
  BY <1>2, <1>3, <1>4, <1>9, <1>11, <1>12, <1>n

LEMMA SplitListed ==
  ASSUME Listed(hdr), NEW c \in DOMAIN hdr, len \in Nat, len >= HeaderSize,
         hdr[c].length >= len, Splits(c), NEW g, g = SplitTakes(c)
  PROVE  Listed(g)
<1> DEFINE n == hdr[c].next
           l == hdr[c].length - len
<1> DEFINE r == c + len
<1>r. r = c + len
  OBVIOUS
<1> HIDE DEF r
<1>1. /\ DOMAIN g = DOMAIN hdr \cup {r} /\ g \in [DOMAIN g -> Chunk]
      /\ r \notin DOMAIN hdr /\ r \in Nat /\ c < r /\ r # n /\ n # c
      /\ l \in Nat /\ l > HeaderSize
      /\ \A d \in DOMAIN g :
           /\ g[d].length = IF d = c THEN len ELSE IF d = r THEN l ELSE hdr[d].length
           /\ g[d].next = IF d = c THEN r ELSE IF d = r THEN n ELSE hdr[d].next
           /\ g[d].prev = IF d = r THEN c ELSE IF d = n THEN r ELSE hdr[d].prev
  BY <1>r, SplitFields
<1>2. \A d \in DOMAIN hdr : /\ d \in Nat /\ d # NULL
                            /\ hdr[d].prev \in Nat /\ hdr[d].next \in Nat
                            /\ hdr[d].length \in Nat /\ hdr[d].length > 0
  BY ChunkTyped
<1>n. n = hdr[c].next /\ r = c + len /\ r + l = c + hdr[c].length
  BY <1>2, <1>r
<1> HIDE DEF n, l
<1>3. n # NULL => n \in DOMAIN hdr /\ n = r + l /\ hdr[n].prev = c
  BY <1>n DEF Listed, LinkedOn
<1>4. Typed(g)
  BY <1>1 DEF Typed, Listed
<1>5. Placed(g)
  <2> SUFFICES ASSUME NEW d \in DOMAIN g
               PROVE  /\ d >= HEAP_START /\ g[d].length >= HeaderSize
                      /\ d = HEAP_START <=> g[d].prev = NULL
    BY DEF Placed
  <2>0. \A e \in DOMAIN hdr : /\ e >= HEAP_START /\ hdr[e].length >= HeaderSize
                              /\ e = HEAP_START <=> hdr[e].prev = NULL
    BY DEF Listed, Placed
  <2>1. CASE d = r
    <3>1. r > HEAP_START
      BY <1>1, <1>2, <2>0, Sizes
    <3>2. g[d].prev = c /\ c # NULL /\ g[d].length = l
      BY <1>1, <1>2, <2>1
    <3> QED
      BY <1>1, <2>1, <3>1, <3>2, Sizes
  <2>2. CASE d = n
    <3>1. n \in DOMAIN hdr /\ hdr[n].prev = c /\ c # NULL /\ n # r
      BY <1>1, <1>2, <1>3, <2>2
    <3>2. g[d].prev = r /\ r # NULL /\ g[d].length = hdr[d].length
      BY <1>1, <1>2, <2>2, <3>1, Sizes
    <3> QED
      BY <2>0, <2>2, <3>1, <3>2
  <2>3. CASE d # r /\ d # n
    <3>1. d \in DOMAIN hdr
      BY <1>1, <2>3
    <3>2. g[d].prev = hdr[d].prev /\ (g[d].length = len \/ g[d].length = hdr[d].length)
      BY <1>1, <2>3
    <3> QED
      BY <2>0, <3>1, <3>2
  <2> QED
    BY <2>1, <2>2, <2>3
<1>6. LinkedBack(g)
  <2> SUFFICES ASSUME NEW d \in DOMAIN g, g[d].prev # NULL
               PROVE  g[d].prev \in DOMAIN g /\ g[g[d].prev].next = d
    BY DEF LinkedBack
  <2>1. CASE d = r
    BY <1>1, <2>1
  <2>2. CASE d = n
    BY <1>1, <2>2
  <2>3. CASE d # r /\ d # n
    <3>1. g[d].prev = hdr[d].prev /\ hdr[d].prev \in DOMAIN hdr /\ hdr[hdr[d].prev].next = d
      BY <1>1, <2>3 DEF Listed, LinkedBack
    <3>2. hdr[d].prev # r /\ hdr[d].prev # c
      BY <1>1, <1>n, <2>3, <3>1
    <3> QED
      BY <1>1, <3>1, <3>2
  <2> QED
    BY <2>1, <2>2, <2>3
<1>7. LinkedOn(g)
  <2> SUFFICES ASSUME NEW d \in DOMAIN g, g[d].next # NULL
               PROVE  /\ g[d].next \in DOMAIN g
                      /\ g[d].next = d + g[d].length
                      /\ g[g[d].next].prev = d
    BY DEF LinkedOn
  <2>1. CASE d = c
    BY <1>1, <1>n, <2>1
  <2>2. CASE d = r
    BY <1>1, <1>3, <2>2
  <2>3. CASE d # c /\ d # r
    <3>1. /\ g[d].next = hdr[d].next /\ g[d].length = hdr[d].length
          /\ hdr[d].next \in DOMAIN hdr /\ hdr[d].next = d + hdr[d].length
          /\ hdr[hdr[d].next].prev = d
      BY <1>1, <2>3 DEF Listed, LinkedOn
    <3>2. hdr[d].next # r /\ hdr[d].next # n
      BY <1>1, <1>3, <2>3, <3>1
    <3> QED
      BY <1>1, <3>1, <3>2
  <2> QED
    BY <2>1, <2>2, <2>3
<1>8. Ordered(g)
  <2> SUFFICES ASSUME NEW b \in DOMAIN g, NEW d \in DOMAIN g, b < d
               PROVE  b + g[b].length <= d
    BY DEF Ordered
  <2>0. \A e, f \in DOMAIN hdr : e < f => e + hdr[e].length <= f
    BY DEF Listed, Ordered
  <2>1. CASE b = c /\ d = r
    BY <1>1, <1>n, <2>1
  <2>2. CASE b = c /\ d # r
    <3>1. d \in DOMAIN hdr /\ c + hdr[c].length <= d
      BY <1>1, <2>0, <2>2
    <3> QED
      BY <1>1, <1>2, <1>n, <2>2, <3>1
  <2>3. CASE b = r
    <3>1. d \in DOMAIN hdr /\ c < d
      BY <1>1, <1>2, <2>3
    <3>2. c + hdr[c].length <= d
      BY <2>0, <3>1
    <3> QED
      BY <1>1, <1>n, <2>3, <3>2
  <2>4. CASE b # c /\ b # r /\ d # r
    <3>1. b \in DOMAIN hdr /\ d \in DOMAIN hdr /\ g[b].length = hdr[b].length
      BY <1>1, <2>4
    <3> QED
      BY <2>0, <3>1
  <2>5. CASE b # c /\ b # r /\ d = r
    <3>1. b \in DOMAIN hdr /\ g[b].length = hdr[b].length
      BY <1>1, <2>5
    <3>2. b < c
      <4> SUFFICES ASSUME ~(b < c) PROVE FALSE
        OBVIOUS
      <4>1. c < b
        BY <1>2, <2>5, <3>1
      <4>2. c + hdr[c].length <= b
        BY <2>0, <3>1, <4>1
      <4> QED
        BY <1>1, <1>2, <1>n, <2>5, <3>1, <4>2
    <3>3. b + hdr[b].length <= c
      BY <2>0, <3>1, <3>2
    <3> QED
      BY <1>1, <1>2, <2>5, <3>1, <3>3
  <2> QED
    BY <2>1, <2>2, <2>3, <2>4, <2>5
<1>9. OneEnd(g)
  <2>0. /\ \A e \in DOMAIN hdr : hdr[e].next = NULL => \A f \in DOMAIN hdr : f <= e
        /\ HEAP_START \in DOMAIN hdr
        /\ \E e \in DOMAIN hdr : hdr[e].next = NULL
    BY DEF Listed, OneEnd
  <2>1. \E e \in DOMAIN g : g[e].next = NULL
    <3>1. PICK e \in DOMAIN hdr : hdr[e].next = NULL
      BY <2>0
    <3>2. CASE e = c
      BY <1>1, <1>n, <3>1, <3>2
    <3>3. CASE e # c
      <4>1. e \in DOMAIN g /\ e # r
        BY <1>1
      <4> QED
        BY <1>1, <3>1, <3>3, <4>1
    <3> QED
      BY <3>2, <3>3
  <2>2. ASSUME NEW d \in DOMAIN g, g[d].next = NULL, NEW b \in DOMAIN g
        PROVE  b <= d
    <3>0. d # c
      BY <1>1, <1>2, <2>2, Sizes
    <3>1. CASE d = r
      <4>1. hdr[c].next = NULL
        BY <1>1, <1>n, <2>2, <3>0, <3>1
      <4>2. \A f \in DOMAIN hdr : f <= c
        BY <2>0, <4>1
      <4> QED
        BY <1>1, <1>2, <3>1, <4>2
    <3>2. CASE d # r
      <4>1. d \in DOMAIN hdr /\ hdr[d].next = NULL
        BY <1>1, <2>2, <3>0, <3>2
      <4>2. \A f \in DOMAIN hdr : f <= d
        BY <2>0, <4>1
      <4>3. c < d
        BY <1>2, <3>0, <4>1, <4>2
      <4>4. c + hdr[c].length <= d
        BY <4>1, <4>3 DEF Listed, Ordered
      <4> QED
        BY <1>1, <1>2, <1>n, <4>1, <4>2, <4>4
    <3> QED
      BY <3>1, <3>2
  <2> QED
    BY <1>1, <2>0, <2>1, <2>2 DEF OneEnd
<1> QED
  BY <1>4, <1>5, <1>6, <1>7, <1>8, <1>9 DEF Listed


-----------------------------------------------------------------------------
(* Adding a chunk behind the last one.                                     *)

(* p is the last chunk, or NULL, and c is where the list ends.             *)
AtEnd(h, p, c) == \/ DOMAIN h = {} /\ p = NULL /\ c = HEAP_START
                  \/ p \in DOMAIN h /\ h[p].next = NULL /\ c = p + h[p].length

LEMMA AtEndBehindAll ==
  ASSUME NEW h, Listed(h), NEW p, NEW c, AtEnd(h, p, c)
  PROVE  /\ c \in Nat /\ c >= HEAP_START /\ c \notin DOMAIN h
         /\ \A d \in DOMAIN h : d + h[d].length <= c /\ d < c
<1>1. CASE DOMAIN h = {} /\ p = NULL /\ c = HEAP_START
  BY <1>1, Sizes
<1>2. CASE p \in DOMAIN h /\ h[p].next = NULL /\ c = p + h[p].length
  <2>1. \A d \in DOMAIN h : d \in Nat /\ h[d].length \in Nat /\ h[d].length > 0
    BY ChunkTyped
  <2>2. \A d \in DOMAIN h : d <= p
    BY <1>2 DEF Listed, OneEnd
  <2>3. \A d \in DOMAIN h : d < p => d + h[d].length <= p
    BY <1>2 DEF Listed, Ordered
  <2>4. p >= HEAP_START
    BY <1>2 DEF Listed, Placed
  <2>5. ASSUME NEW d \in DOMAIN h PROVE d + h[d].length <= c /\ d < c
    <3>1. d = p \/ d < p
      BY <1>2, <2>1, <2>2
    <3> QED
      BY <1>2, <2>1, <2>3, <3>1
  <2> QED
    BY <1>2, <2>1, <2>4, <2>5, Sizes
<1> QED
  BY <1>1, <1>2 DEF AtEnd

LEMMA AppendFields ==
  ASSUME Listed(hdr), AtEnd(hdr, prev, cur), len \in Nat, len < Word \div 2,
         NEW g, g = Appended
  PROVE  /\ DOMAIN g = DOMAIN hdr \cup {cur} /\ g \in [DOMAIN g -> Chunk]
         /\ cur \in Nat /\ cur \notin DOMAIN hdr /\ prev # cur
         /\ \A d \in DOMAIN g :
              /\ g[d].length = IF d = cur THEN len ELSE hdr[d].length
              /\ g[d].next = IF d = cur THEN NULL
                             ELSE IF d = prev THEN cur ELSE hdr[d].next
              /\ g[d].prev = IF d = cur THEN prev ELSE hdr[d].prev
              /\ g[d].allocated <=> d = cur \/ hdr[d].allocated
<1> DEFINE b == [prev |-> prev, next |-> NULL, allocated |-> TRUE,
                 length |-> len % (Word \div 2)]
           m(d) == [hdr[d] EXCEPT !.next = cur]
<1>1. \A d \in DOMAIN hdr : /\ d \in Nat /\ d # NULL /\ hdr[d] \in Chunk
                            /\ hdr[d].prev \in Nat /\ hdr[d].next \in Nat
                            /\ hdr[d].length \in Nat
  BY ChunkTyped
<1>2. cur \in Nat /\ cur >= HEAP_START /\ cur \notin DOMAIN hdr
  BY AtEndBehindAll
<1>3. prev \in Nat /\ prev # cur
  BY <1>1, <1>2, Sizes DEF AtEnd
<1>4. len % (Word \div 2) = len
  BY Sizes
<1>5. /\ b \in Chunk /\ b.next = NULL /\ b.length = len /\ b.allocated /\ b.prev = prev
  BY <1>3, <1>4 DEF Chunk, NULL
<1>6. \A d \in DOMAIN hdr : /\ m(d) \in Chunk /\ m(d).length = hdr[d].length
                            /\ m(d).prev = hdr[d].prev /\ m(d).next = cur
                            /\ m(d).allocated = hdr[d].allocated
  BY <1>1, <1>2 DEF Chunk
<1>7. g = [d \in DOMAIN hdr \cup {cur} |->
             IF d = cur THEN b ELSE IF d = prev THEN m(d) ELSE hdr[d]]
  BY DEF Appended
<1> HIDE DEF b, m
<1>8. DOMAIN g = DOMAIN hdr \cup {cur}
  BY <1>7
<1>9. \A d \in DOMAIN g : g[d] = IF d = cur THEN b ELSE IF d = prev THEN m(d) ELSE hdr[d]
  BY <1>7
<1>10. g \in [DOMAIN g -> Chunk]
  <2>1. \A d \in DOMAIN hdr \cup {cur} :
          (IF d = cur THEN b ELSE IF d = prev THEN m(d) ELSE hdr[d]) \in Chunk
    BY <1>1, <1>5, <1>6
  <2> QED
    BY <1>7, <1>8, <2>1
<1>11. ASSUME NEW d \in DOMAIN g
       PROVE  /\ g[d].length = IF d = cur THEN len ELSE hdr[d].length
              /\ g[d].next = IF d = cur THEN NULL
                             ELSE IF d = prev THEN cur ELSE hdr[d].next
              /\ g[d].prev = IF d = cur THEN prev ELSE hdr[d].prev
              /\ g[d].allocated <=> d = cur \/ hdr[d].allocated
  <2>1. CASE d = cur
    BY <1>5, <1>9, <2>1
  <2>2. CASE d # cur
    <3>1. d \in DOMAIN hdr /\ g[d] = IF d = prev THEN m(d) ELSE hdr[d]
      BY <1>8, <1>9, <2>2
    <3> QED
      BY <1>6, <2>2, <3>1
  <2> QED
    BY <2>1, <2>2
<1> QED
  BY <1>2, <1>3, <1>8, <1>10, <1>11

LEMMA AppendListed ==
  ASSUME Listed(hdr), AtEnd(hdr, prev, cur), len \in Nat, len < Word \div 2,
         len >= HeaderSize, NEW g, g = Appended
  PROVE  Listed(g)
<1>1. /\ DOMAIN g = DOMAIN hdr \cup {cur} /\ g \in [DOMAIN g -> Chunk]
      /\ cur \in Nat /\ cur \notin DOMAIN hdr /\ prev # cur
      /\ \A d \in DOMAIN g :
           /\ g[d].length = IF d = cur THEN len ELSE hdr[d].length
           /\ g[d].next = IF d = cur THEN NULL
                          ELSE IF d = prev THEN cur ELSE hdr[d].next
           /\ g[d].prev = IF d = cur THEN prev ELSE hdr[d].prev
  BY AppendFields
<1>2. \A d \in DOMAIN hdr : /\ d \in Nat /\ d # NULL
                            /\ hdr[d].prev \in Nat /\ hdr[d].next \in Nat
                            /\ hdr[d].length \in Nat /\ hdr[d].length > 0
  BY ChunkTyped
<1>3. /\ cur >= HEAP_START
      /\ \A d \in DOMAIN hdr : d + hdr[d].length <= cur /\ d < cur
  BY AtEndBehindAll
<1>4. \/ DOMAIN hdr = {} /\ prev = NULL /\ cur = HEAP_START
      \/ prev \in DOMAIN hdr /\ hdr[prev].next = NULL /\ cur = prev + hdr[prev].length
  BY DEF AtEnd
<1>5. Typed(g)
  BY <1>1 DEF Typed, Listed
<1>6. Placed(g)
  <2> SUFFICES ASSUME NEW d \in DOMAIN g
               PROVE  /\ d >= HEAP_START /\ g[d].length >= HeaderSize
                      /\ d = HEAP_START <=> g[d].prev = NULL
    BY DEF Placed
  <2>0. \A e \in DOMAIN hdr : /\ e >= HEAP_START /\ hdr[e].length >= HeaderSize
                              /\ e = HEAP_START <=> hdr[e].prev = NULL
    BY DEF Listed, Placed
  <2>1. CASE d = cur
    <3>1. g[d].prev = prev /\ g[d].length = len
      BY <1>1, <2>1
    <3>2. prev = NULL => cur = HEAP_START
      BY <1>2, <1>4
    <3>3. prev # NULL => cur # HEAP_START
      BY <1>1, <1>2, <1>3, <1>4, <2>0, Sizes
    <3> QED
      BY <1>3, <2>1, <3>1, <3>2, <3>3
  <2>2. CASE d # cur
    BY <1>1, <2>0, <2>2
  <2> QED
    BY <2>1, <2>2
<1>7. LinkedBack(g)
  <2> SUFFICES ASSUME NEW d \in DOMAIN g, g[d].prev # NULL
               PROVE  g[d].prev \in DOMAIN g /\ g[g[d].prev].next = d
    BY DEF LinkedBack
  <2>1. CASE d = cur
    <3>1. g[d].prev = prev /\ prev \in DOMAIN hdr
      BY <1>1, <1>4, <2>1
    <3> QED
      BY <1>1, <2>1, <3>1
  <2>2. CASE d # cur
    <3>1. d \in DOMAIN hdr /\ g[d].prev = hdr[d].prev
      BY <1>1, <2>2
    <3>2. hdr[d].prev \in DOMAIN hdr /\ hdr[hdr[d].prev].next = d
      BY <3>1, <2>2 DEF Listed, LinkedBack
    <3>3. hdr[d].prev # cur /\ hdr[d].prev # prev
      BY <1>1, <1>2, <1>4, <3>1, <3>2
    <3> QED
      BY <1>1, <3>1, <3>2, <3>3
  <2> QED
    BY <2>1, <2>2
<1>8. LinkedOn(g)
  <2> SUFFICES ASSUME NEW d \in DOMAIN g, g[d].next # NULL
               PROVE  /\ g[d].next \in DOMAIN g
                      /\ g[d].next = d + g[d].length
                      /\ g[g[d].next].prev = d
    BY DEF LinkedOn
  <2>1. d # cur /\ d \in DOMAIN hdr
    BY <1>1, <2>1
  <2>2. CASE d = prev
    BY <1>1, <1>4, <2>1, <2>2
  <2>3. CASE d # prev
    <3>1. /\ g[d].next = hdr[d].next /\ g[d].length = hdr[d].length
          /\ hdr[d].next \in DOMAIN hdr /\ hdr[d].next = d + hdr[d].length
          /\ hdr[hdr[d].next].prev = d
      BY <1>1, <2>1, <2>3 DEF Listed, LinkedOn
    <3> QED
      BY <1>1, <3>1
  <2> QED
    BY <2>2, <2>3
<1>9. Ordered(g)
  <2> SUFFICES ASSUME NEW b \in DOMAIN g, NEW d \in DOMAIN g, b < d
               PROVE  b + g[b].length <= d
    BY DEF Ordered
  <2>1. b \in DOMAIN hdr /\ g[b].length = hdr[b].length
    BY <1>1, <1>2, <1>3
  <2>2. CASE d = cur
    BY <1>3, <2>1, <2>2
  <2>3. CASE d # cur
    BY <1>1, <2>1, <2>3 DEF Listed, Ordered
  <2> QED
    BY <2>2, <2>3
<1>10. OneEnd(g)
  <2>1. ASSUME NEW d \in DOMAIN g, g[d].next = NULL PROVE d = cur
    <3> SUFFICES ASSUME d # cur PROVE FALSE
      OBVIOUS
    <3>1. d \in DOMAIN hdr /\ d # prev /\ hdr[d].next = NULL
      BY <1>1, <1>3, <2>1, Sizes
    <3>2. \A f \in DOMAIN hdr : f <= d
      BY <3>1 DEF Listed, OneEnd
    <3>3. prev \in DOMAIN hdr /\ \A f \in DOMAIN hdr : f <= prev
      BY <1>4, <3>1 DEF Listed, OneEnd
    <3> QED
      BY <1>2, <3>1, <3>2, <3>3
  <2>2. \A b \in DOMAIN g : b <= cur
    BY <1>1, <1>2, <1>3
  <2>3. HEAP_START \in DOMAIN g /\ cur \in DOMAIN g /\ g[cur].next = NULL
    BY <1>1, <1>4 DEF Listed, OneEnd
  <2> QED
    BY <2>1, <2>2, <2>3 DEF OneEnd
<1> QED
  BY <1>5, <1>6, <1>7, <1>8, <1>9, <1>10 DEF Listed


-----------------------------------------------------------------------------
(* The chunks in use, the free ones between them, and the end of the list. *)

InUse(h) == {d \in DOMAIN h : h[d].allocated}

Kept(h, g) == InUse(g) = InUse(h) /\ \A d \in InUse(h) : g[d].length = h[d].length

(* Every free chunk outside S has a chunk in use behind it.                *)
Settled(h, S) == \A d \in DOMAIN h \ S :
                   ~h[d].allocated => h[d].next # NULL /\ h[h[d].next].allocated

NoFreePair(h) == Settled(h, {})

EndsAt(h, x) == \E p \in DOMAIN h \cup {NULL} : AtEnd(h, p, x)

LEMMA AbsorbKeeps ==
  ASSUME NEW h, Listed(h), NEW c \in DOMAIN h, h[c].next # NULL,
         ~h[c].allocated, ~h[h[c].next].allocated, NEW g, g = Absorb(h, c)
  PROVE  Kept(h, g) /\ \A x : EndsAt(h, x) => EndsAt(g, x)
<1> DEFINE n == h[c].next
<1>n. ~h[n].allocated /\ n = h[c].next /\ n # NULL
  OBVIOUS
<1> HIDE DEF n
<1>1. /\ DOMAIN g = DOMAIN h \ {n}
      /\ c \in DOMAIN g /\ n \in DOMAIN h /\ n = c + h[c].length /\ c < n
      /\ \A d \in DOMAIN g :
           /\ g[d].length = IF d = c THEN h[c].length + h[n].length ELSE h[d].length
           /\ g[d].next = IF d = c THEN h[n].next ELSE h[d].next
           /\ g[d].allocated = h[d].allocated
  BY <1>n, AbsorbFields
<1>2. Kept(h, g)
  <2>1. \A d \in DOMAIN h : h[d].allocated => d # n /\ d # c
    BY <1>n
  <2>2. InUse(g) = InUse(h)
    BY <1>1, <2>1 DEF InUse
  <2> QED
    BY <1>1, <2>1, <2>2 DEF Kept, InUse
<1>3. ASSUME NEW x, EndsAt(h, x) PROVE EndsAt(g, x)
  <2>1. PICK p \in DOMAIN h : h[p].next = NULL /\ x = p + h[p].length
    BY <1>3 DEF EndsAt, AtEnd
  <2>2. /\ h[c].length \in Nat /\ h[n].length \in Nat /\ c \in Nat
        /\ h[p].length \in Nat /\ p \in Nat
    BY <1>1, ChunkTyped
  <2>3. \E q \in DOMAIN g : g[q].next = NULL /\ x = q + g[q].length
    <3>1. CASE p = n
      <4>1. g[c].next = NULL /\ g[c].length = h[c].length + h[n].length
        BY <1>1, <2>1, <3>1
      <4>2. x = c + g[c].length
        BY <1>1, <2>1, <2>2, <3>1, <4>1
      <4> QED
        BY <1>1, <4>1, <4>2
    <3>2. CASE p # n
      <4>1. p \in DOMAIN g /\ p # c
        BY <1>1, <1>n, <2>1, <3>2
      <4> QED
        BY <1>1, <2>1, <4>1
    <3> QED
      BY <3>1, <3>2
  <2> QED
    BY <2>3 DEF EndsAt, AtEnd
<1> QED
  BY <1>2, <1>3

(* A free chunk that takes in a free one behind it is settled, and so is   *)
(* every chunk that was.                                                   *)
LEMMA AbsorbSettles ==
  ASSUME NEW h, Listed(h), NEW c \in DOMAIN h, NEW n, n = h[c].next, n # NULL,
         ~h[c].allocated, ~h[n].allocated,
         NEW S, Settled(h, S), c \in S, NEW g, g = Absorb(h, c)
  PROVE  Settled(g, S)
<1>1. /\ DOMAIN g = DOMAIN h \ {n}
      /\ c \in DOMAIN g /\ n \in DOMAIN h
      /\ \A d \in DOMAIN g : /\ g[d].next = IF d = c THEN h[n].next ELSE h[d].next
                             /\ g[d].allocated = h[d].allocated
  BY AbsorbFields
<1> SUFFICES ASSUME NEW d \in DOMAIN g \ S, ~g[d].allocated
             PROVE  g[d].next # NULL /\ g[g[d].next].allocated
  BY DEF Settled
<1>2. d \in DOMAIN h /\ d # n /\ d # c /\ ~h[d].allocated
  BY <1>1
<1>3. h[d].next # NULL /\ h[h[d].next].allocated
  BY <1>2 DEF Settled
<1>4. h[d].next \in DOMAIN h /\ h[d].next # n
  BY <1>2, <1>3 DEF Listed, LinkedOn
<1> QED
  BY <1>1, <1>2, <1>3, <1>4

(* glue_chunk(): one merge with the chunk behind, one with the chunk       *)
(* before.  Afterwards the merged chunk is the only one that may not be    *)
(* settled, and it is free and followed by a chunk in use, or last.        *)
LEMMA GlueSettles ==
  ASSUME NEW o, Listed(o), NEW c \in DOMAIN o, ~o[c].allocated,
         Settled(o, {c, o[c].prev}),
         NEW h, h = GlueNext(o, c), NEW g, g = GluePrev(h, c),
         NEW k, k = Glued(h, c)
  PROVE  /\ Listed(g) /\ Kept(o, g) /\ \A x : EndsAt(o, x) => EndsAt(g, x)
         /\ k \in DOMAIN g /\ ~g[k].allocated
         /\ Settled(g, {k})
         /\ g[k].next # NULL => g[g[k].next].allocated
<1> DEFINE p == o[c].prev
           n == o[c].next
<1>1. /\ c \in Nat /\ c # NULL /\ p \in Nat
      /\ p # NULL => p \in DOMAIN o /\ o[p].next = c /\ p < c
      /\ n # NULL => n \in DOMAIN o /\ c < n
  <2>1. p # NULL => p \in DOMAIN o /\ o[p].next = c
    BY DEF Listed, LinkedBack
  <2>2. p # NULL => c = p + o[p].length
    BY <2>1, ChunkTyped DEF Listed, LinkedOn
  <2>3. n # NULL => n \in DOMAIN o /\ n = c + o[c].length
    BY DEF Listed, LinkedOn
  <2> QED
    BY <2>1, <2>2, <2>3, ChunkTyped
<1>n. n = o[c].next /\ p = o[c].prev /\ Settled(o, {c, p})
  OBVIOUS
<1> HIDE DEF n, p
<1>2. /\ Listed(h) /\ Kept(o, h) /\ \A x : EndsAt(o, x) => EndsAt(h, x)
      /\ c \in DOMAIN h /\ ~h[c].allocated /\ h[c].prev = p
      /\ Settled(h, {c, p})
      /\ h[c].next # NULL => h[h[c].next].allocated
  <2>1. CASE n # NULL /\ ~o[n].allocated
    <3>1. h = Absorb(o, c)
      BY <1>n, <2>1 DEF GlueNext, FreeAt
    <3>2. Listed(h)
      BY <1>n, <2>1, <3>1, AbsorbListed
    <3>3. Kept(o, h) /\ \A x : EndsAt(o, x) => EndsAt(h, x)
      BY <1>n, <2>1, <3>1, AbsorbKeeps
    <3>4. Settled(h, {c, p})
      <4>1. c \in {c, p}
        OBVIOUS
      <4> QED
        BY <1>n, <2>1, <3>1, <4>1, AbsorbSettles
    <3>5. /\ DOMAIN h = DOMAIN o \ {n} /\ c \in DOMAIN h /\ o[n].next # c
          /\ \A d \in DOMAIN h :
               /\ h[d].next = IF d = c THEN o[n].next ELSE o[d].next
               /\ h[d].prev = IF d = o[n].next THEN c ELSE o[d].prev
               /\ h[d].allocated = o[d].allocated
      BY <1>n, <2>1, <3>1, AbsorbFields
    <3>6. n # c /\ n # p /\ n \in DOMAIN o
      BY <1>1, <1>n, <2>1, ChunkTyped
    <3>7. o[n].next # NULL /\ o[o[n].next].allocated
      BY <1>n, <2>1, <3>6 DEF Settled
    <3>8. o[n].next \in DOMAIN o /\ o[n].next # n
      BY <2>1, <3>6, <3>7 DEF Listed, LinkedOn
    <3>9. h[c].next = o[n].next /\ o[n].next \in DOMAIN h
      BY <3>5, <3>8
    <3>10. h[h[c].next].allocated
      BY <3>5, <3>7, <3>9
    <3>11. ~h[c].allocated /\ h[c].prev = p
      BY <1>n, <3>5
    <3> QED
      BY <3>2, <3>3, <3>4, <3>5, <3>10, <3>11
  <2>2. CASE n = NULL \/ o[n].allocated
    <3>1. h = o
      BY <1>n, <2>2 DEF GlueNext, FreeAt
    <3> QED
      BY <1>n, <2>2, <3>1 DEF Kept
  <2> QED
    BY <2>1, <2>2
<1>3. CASE p # NULL /\ ~h[p].allocated
  <2>1. g = Absorb(h, p) /\ k = p
    BY <1>2, <1>3 DEF GluePrev, Glued, FreeAt
  <2>2. p \in DOMAIN h /\ h[p].next = c /\ c # NULL /\ p # c
    BY <1>1, <1>2, <1>3 DEF Listed, LinkedBack
  <2>3. Listed(g)
    BY <2>1, <2>2, <1>2, AbsorbListed
  <2>4. Kept(h, g) /\ \A x : EndsAt(h, x) => EndsAt(g, x)
    BY <1>2, <1>3, <2>1, <2>2, AbsorbKeeps
  <2>5. Kept(o, g)
    BY <1>2, <2>4 DEF Kept
  <2>6. Settled(g, {c, p})
    <3>1. p \in {c, p}
      OBVIOUS
    <3> QED
      BY <1>2, <1>3, <2>1, <2>2, <3>1, AbsorbSettles
  <2>a. Listed(h) /\ c = h[p].next /\ p \in DOMAIN h /\ c # NULL
    BY <1>2, <2>2
  <2>b. g = Absorb(h, p)
    BY <2>1
  <2>7. /\ DOMAIN g = DOMAIN h \ {c} /\ p \in DOMAIN g
        /\ \A d \in DOMAIN g :
             /\ g[d].next = IF d = p THEN h[c].next ELSE h[d].next
             /\ g[d].allocated = h[d].allocated
    BY ONLY <2>a, <2>b, AbsorbFields
  <2>8. Settled(g, {p})
    BY <2>6, <2>7 DEF Settled
  <2>9. ASSUME g[p].next # NULL PROVE g[g[p].next].allocated
    <3>1. g[p].next = h[c].next /\ h[h[c].next].allocated
      BY <1>2, <2>7, <2>9
    <3>2. h[c].next \in DOMAIN h /\ h[c].next # c
      BY <1>2, <2>9, <3>1 DEF Listed, LinkedOn
    <3> QED
      BY <2>7, <3>1, <3>2
  <2> QED
    BY <1>2, <1>3, <2>1, <2>3, <2>4, <2>5, <2>7, <2>8, <2>9
<1>4. CASE p = NULL \/ h[p].allocated
  <2>1. g = h /\ k = c
    BY <1>2, <1>4 DEF GluePrev, Glued, FreeAt
  <2>2. Settled(g, {c})
    <3>1. p = NULL => p \notin DOMAIN h
      BY <1>2, ChunkTyped
    <3> QED
      BY <1>2, <1>4, <2>1, <3>1 DEF Settled
  <2> QED
    BY <1>2, <2>1, <2>2
<1> QED
  BY <1>3, <1>4


LEMMA UnlinkKeeps ==
  ASSUME NEW h, Listed(h), NEW c \in DOMAIN h, h[c].next = NULL, ~h[c].allocated,
         Settled(h, {c}), NEW g, g = Unlinked(h, c)
  PROVE  /\ Kept(h, g) /\ NoFreePair(g) /\ EndsAt(g, c)
         /\ DOMAIN g = {} <=> h[c].prev = NULL
<1> DEFINE p == h[c].prev
<1>1. /\ DOMAIN g = DOMAIN h \ {c}
      /\ \A d \in DOMAIN g : /\ g[d].length = h[d].length
                             /\ g[d].next = IF d = p THEN NULL ELSE h[d].next
                             /\ g[d].allocated = h[d].allocated
  BY UnlinkFields
<1>p. p = h[c].prev
  OBVIOUS
<1> HIDE DEF p
<1>2. Kept(h, g)
  BY <1>1 DEF Kept, InUse
<1>3. p # NULL => p \in DOMAIN h /\ h[p].next = c /\ c = p + h[p].length /\ p # c
  <2>1. p # NULL => p \in DOMAIN h /\ h[p].next = c /\ c # NULL
    BY <1>p, ChunkTyped DEF Listed, LinkedBack
  <2>2. p # NULL => c = p + h[p].length
    BY <2>1 DEF Listed, LinkedOn
  <2> QED
    BY <2>1, <2>2
<1>4. NoFreePair(g)
  <2> SUFFICES ASSUME NEW d \in DOMAIN g, ~g[d].allocated
               PROVE  g[d].next # NULL /\ g[g[d].next].allocated
    BY DEF NoFreePair, Settled
  <2>1. d \in DOMAIN h \ {c} /\ ~h[d].allocated
    BY <1>1
  <2>2. h[d].next # NULL /\ h[h[d].next].allocated
    BY <2>1 DEF Settled
  <2>3. h[d].next \in DOMAIN h /\ h[h[d].next].prev = d
    BY <2>1, <2>2 DEF Listed, LinkedOn
  <2>4. h[d].next # c
    BY <2>2
  <2>5. d # p
    <3>1. d \in Nat /\ d # NULL
      BY <2>1, ChunkTyped
    <3> QED
      BY <1>3, <2>4, <3>1
  <2> QED
    BY <1>1, <2>2, <2>3, <2>4, <2>5
<1>5. CASE p = NULL
  <2>1. c = HEAP_START
    BY <1>5, <1>p DEF Listed, Placed
  <2>2. ASSUME NEW d \in DOMAIN g PROVE FALSE
    <3>1. d \in DOMAIN h /\ d # c
      BY <1>1
    <3>2. d <= c /\ d >= HEAP_START /\ d \in Nat
      BY <3>1, ChunkTyped DEF Listed, OneEnd, Placed
    <3> QED
      BY <2>1, <3>1, <3>2, Sizes
  <2>3. DOMAIN g = {}
    BY <2>2
  <2> QED
    BY <1>2, <1>4, <1>5, <1>p, <2>1, <2>3 DEF EndsAt, AtEnd
<1>6. CASE p # NULL
  <2>1. p \in DOMAIN g /\ g[p].next = NULL /\ c = p + g[p].length
    BY <1>1, <1>3, <1>6
  <2> QED
    BY <1>2, <1>4, <1>6, <1>p, <2>1 DEF EndsAt, AtEnd
<1> QED
  BY <1>5, <1>6

LEMMA TakeKeeps ==
  ASSUME Listed(hdr), NoFreePair(hdr), NEW c \in DOMAIN hdr,
         NEW g, g = WholeTaken(c)
  PROVE  /\ Listed(g) /\ NoFreePair(g)
         /\ InUse(g) = InUse(hdr) \cup {c}
         /\ \A d \in DOMAIN hdr : g[d].length = hdr[d].length
         /\ \A x : EndsAt(hdr, x) => EndsAt(g, x)
         /\ DOMAIN g = DOMAIN hdr
<1>a. PICK a \in BOOLEAN : a = TRUE
  OBVIOUS
<1>0. g = Marked(hdr, c, a)
  BY <1>a DEF WholeTaken, Marked
<1>1. /\ DOMAIN g = DOMAIN hdr /\ Listed(g)
      /\ \A d \in DOMAIN g : /\ g[d].length = hdr[d].length
                             /\ g[d].next = hdr[d].next
                             /\ g[d].prev = hdr[d].prev
                             /\ g[d].allocated = IF d = c THEN a ELSE hdr[d].allocated
  BY <1>0, MarkListed
<1>2. \A d \in DOMAIN g : g[d].allocated <=> d = c \/ hdr[d].allocated
  <2> SUFFICES ASSUME NEW d \in DOMAIN g PROVE g[d].allocated <=> d = c \/ hdr[d].allocated
    OBVIOUS
  <2>1. CASE d = c
    BY <1>1, <1>a, <2>1
  <2>2. CASE d # c
    BY <1>1, <2>2
  <2> QED
    BY <2>1, <2>2
<1>3. InUse(g) = InUse(hdr) \cup {c}
  BY <1>1, <1>2 DEF InUse
<1>4. NoFreePair(g)
  <2> SUFFICES ASSUME NEW d \in DOMAIN g, ~g[d].allocated
               PROVE  g[d].next # NULL /\ g[g[d].next].allocated
    BY DEF NoFreePair, Settled
  <2>1. d \in DOMAIN hdr \ {} /\ ~hdr[d].allocated
    BY <1>1, <1>2
  <2>2. hdr[d].next # NULL /\ hdr[hdr[d].next].allocated
    BY <2>1 DEF NoFreePair, Settled
  <2>3. hdr[d].next \in DOMAIN hdr
    BY <2>1, <2>2 DEF Listed, LinkedOn
  <2> QED
    BY <1>1, <1>2, <2>1, <2>2, <2>3
<1>5. \A x : EndsAt(hdr, x) => EndsAt(g, x)
  BY <1>1 DEF EndsAt, AtEnd
<1> QED
  BY <1>1, <1>3, <1>4, <1>5

LEMMA SplitKeeps ==
  ASSUME Listed(hdr), NoFreePair(hdr), NEW c \in DOMAIN hdr, ~hdr[c].allocated,
         len \in Nat, len >= HeaderSize, hdr[c].length >= len, Splits(c),
         NEW g, g = SplitTakes(c)
  PROVE  /\ Listed(g) /\ NoFreePair(g)
         /\ InUse(g) = InUse(hdr) \cup {c}
         /\ g[c].length = len
         /\ \A d \in InUse(hdr) : g[d].length = hdr[d].length
         /\ \A x : EndsAt(hdr, x) => EndsAt(g, x)
         /\ DOMAIN g # {}
<1> DEFINE r == c + len
<1>r. r = c + len
  OBVIOUS
<1> HIDE DEF r
<1>1. /\ DOMAIN g = DOMAIN hdr \cup {r} /\ r \notin DOMAIN hdr /\ c < r
      /\ \A d \in DOMAIN g :
           /\ g[d].length = IF d = c THEN len
                            ELSE IF d = r THEN hdr[c].length - len ELSE hdr[d].length
           /\ g[d].next = IF d = c THEN r
                          ELSE IF d = r THEN hdr[c].next ELSE hdr[d].next
           /\ g[d].allocated <=> d = c \/ (d # r /\ hdr[d].allocated)
  BY <1>r, SplitFields
<1>2. Listed(g)
  BY SplitListed
<1>3. InUse(g) = InUse(hdr) \cup {c}
  BY <1>1 DEF InUse
<1>4. g[c].length = len /\ \A d \in InUse(hdr) : g[d].length = hdr[d].length
  BY <1>1 DEF InUse
<1>5. hdr[c].next # NULL /\ hdr[hdr[c].next].allocated /\ hdr[c].next \in DOMAIN hdr
  <2>1. hdr[c].next # NULL /\ hdr[hdr[c].next].allocated
    BY DEF NoFreePair, Settled
  <2> QED
    BY <2>1 DEF Listed, LinkedOn
<1>6. NoFreePair(g)
  <2> SUFFICES ASSUME NEW d \in DOMAIN g, ~g[d].allocated
               PROVE  g[d].next # NULL /\ g[g[d].next].allocated
    BY DEF NoFreePair, Settled
  <2>1. CASE d = r
    <3>1. g[d].next = hdr[c].next
      BY <1>1, <2>1
    <3>2. hdr[c].next \in DOMAIN g /\ hdr[c].next # r
      BY <1>1, <1>5
    <3> QED
      BY <1>1, <1>5, <3>1, <3>2
  <2>2. CASE d # r
    <3>1. d \in DOMAIN hdr \ {} /\ d # c /\ ~hdr[d].allocated
      BY <1>1, <2>2
    <3>2. hdr[d].next # NULL /\ hdr[hdr[d].next].allocated
      BY <3>1 DEF NoFreePair, Settled
    <3>3. hdr[d].next \in DOMAIN hdr
      BY <3>1, <3>2 DEF Listed, LinkedOn
    <3>4. hdr[d].next \in DOMAIN g /\ hdr[d].next # r /\ g[d].next = hdr[d].next
      BY <1>1, <2>2, <3>1, <3>3
    <3> QED
      BY <1>1, <3>2, <3>4
  <2> QED
    BY <2>1, <2>2
<1>7. ASSUME NEW x, EndsAt(hdr, x) PROVE EndsAt(g, x)
  <2>1. PICK p \in DOMAIN hdr : hdr[p].next = NULL /\ x = p + hdr[p].length
    BY <1>7 DEF EndsAt, AtEnd
  <2>2. p # c /\ p # r /\ p \in DOMAIN g
    BY <1>1, <1>5, <2>1
  <2>3. g[p].next = NULL /\ g[p].length = hdr[p].length
    BY <1>1, <2>1, <2>2
  <2> QED
    BY <2>1, <2>2, <2>3 DEF EndsAt, AtEnd
<1> QED
  BY <1>1, <1>2, <1>3, <1>4, <1>6, <1>7

LEMMA AppendKeeps ==
  ASSUME Listed(hdr), NoFreePair(hdr), AtEnd(hdr, prev, cur),
         len \in Nat, len < Word \div 2, len >= HeaderSize, NEW g, g = Appended
  PROVE  /\ Listed(g) /\ NoFreePair(g)
         /\ cur \notin DOMAIN hdr
         /\ InUse(g) = InUse(hdr) \cup {cur}
         /\ g[cur].length = len
         /\ \A d \in DOMAIN hdr : g[d].length = hdr[d].length
         /\ EndsAt(g, cur + len)
         /\ DOMAIN g = DOMAIN hdr \cup {cur}
<1>1. /\ DOMAIN g = DOMAIN hdr \cup {cur} /\ cur \notin DOMAIN hdr
      /\ \A d \in DOMAIN g :
           /\ g[d].length = IF d = cur THEN len ELSE hdr[d].length
           /\ g[d].next = IF d = cur THEN NULL
                          ELSE IF d = prev THEN cur ELSE hdr[d].next
           /\ g[d].allocated <=> d = cur \/ hdr[d].allocated
  BY AppendFields
<1>2. Listed(g)
  BY AppendListed
<1>3. InUse(g) = InUse(hdr) \cup {cur}
  BY <1>1 DEF InUse
<1>4. g[cur].length = len /\ \A d \in DOMAIN hdr : g[d].length = hdr[d].length
  BY <1>1
<1>5. NoFreePair(g)
  <2> SUFFICES ASSUME NEW d \in DOMAIN g, ~g[d].allocated
               PROVE  g[d].next # NULL /\ g[g[d].next].allocated
    BY DEF NoFreePair, Settled
  <2>1. d \in DOMAIN hdr \ {} /\ d # cur /\ ~hdr[d].allocated
    BY <1>1
  <2>2. hdr[d].next # NULL /\ hdr[hdr[d].next].allocated
    BY <2>1 DEF NoFreePair, Settled
  <2>3. hdr[d].next \in DOMAIN hdr
    BY <2>1, <2>2 DEF Listed, LinkedOn
  <2>4. d # prev
    BY <2>1, <2>2 DEF AtEnd
  <2> QED
    BY <1>1, <2>1, <2>2, <2>3, <2>4
<1>6. EndsAt(g, cur + len)
  <2>1. cur \in DOMAIN g /\ g[cur].next = NULL /\ g[cur].length = len
    BY <1>1
  <2> QED
    BY <2>1 DEF EndsAt, AtEnd
<1> QED
  BY <1>1, <1>2, <1>3, <1>4, <1>5, <1>6


(* What kfree() does to the list before it looks at the last chunk.        *)
LEMMA FreeKeeps ==
  ASSUME Listed(hdr), NoFreePair(hdr), NEW c \in DOMAIN hdr,
         NEW a \in BOOLEAN, ~a, NEW o, o = Marked(hdr, c, a),
         NEW h, h = GlueNext(o, c), NEW g, g = GluePrev(h, c),
         NEW k, k = Glued(h, c)
  PROVE  /\ Listed(g)
         /\ InUse(g) = InUse(hdr) \ {c}
         /\ \A d \in InUse(g) : g[d].length = hdr[d].length
         /\ \A x : EndsAt(hdr, x) => EndsAt(g, x)
         /\ k \in DOMAIN g /\ ~g[k].allocated /\ Settled(g, {k})
         /\ g[k].next # NULL => NoFreePair(g)
<1>1. /\ DOMAIN o = DOMAIN hdr /\ Listed(o)
      /\ \A d \in DOMAIN o : /\ o[d].length = hdr[d].length
                             /\ o[d].next = hdr[d].next
                             /\ o[d].prev = hdr[d].prev
                             /\ o[d].allocated = IF d = c THEN a ELSE hdr[d].allocated
  BY MarkListed
<1>2. \A d \in DOMAIN o : o[d].allocated <=> d # c /\ hdr[d].allocated
  <2> SUFFICES ASSUME NEW d \in DOMAIN o PROVE o[d].allocated <=> d # c /\ hdr[d].allocated
    OBVIOUS
  <2>1. CASE d = c
    BY <1>1, <2>1
  <2>2. CASE d # c
    BY <1>1, <2>2
  <2> QED
    BY <2>1, <2>2
<1>3. InUse(o) = InUse(hdr) \ {c} /\ ~o[c].allocated
  BY <1>1, <1>2 DEF InUse
<1>4. Settled(o, {c, o[c].prev})
  <2> SUFFICES ASSUME NEW d \in DOMAIN o, d # c, d # o[c].prev, ~o[d].allocated
               PROVE  o[d].next # NULL /\ o[o[d].next].allocated
    BY DEF Settled
  <2>1. d \in DOMAIN hdr \ {} /\ ~hdr[d].allocated
    BY <1>1, <1>2
  <2>2. hdr[d].next # NULL /\ hdr[hdr[d].next].allocated
    BY <2>1 DEF NoFreePair, Settled
  <2>3. hdr[d].next \in DOMAIN hdr /\ hdr[hdr[d].next].prev = d
    BY <2>1, <2>2 DEF Listed, LinkedOn
  <2>4. hdr[d].next # c
    BY <1>1, <2>3
  <2> QED
    BY <1>1, <1>2, <2>1, <2>2, <2>3, <2>4
<1>5. /\ Listed(g) /\ Kept(o, g) /\ \A x : EndsAt(o, x) => EndsAt(g, x)
      /\ k \in DOMAIN g /\ ~g[k].allocated /\ Settled(g, {k})
      /\ g[k].next # NULL => g[g[k].next].allocated
  BY <1>1, <1>3, <1>4, GlueSettles
<1>6. InUse(g) = InUse(hdr) \ {c} /\ \A d \in InUse(g) : g[d].length = hdr[d].length
  <2>1. \A d \in InUse(o) : d \in DOMAIN o
    BY DEF InUse
  <2> QED
    BY <1>1, <1>3, <1>5, <2>1 DEF Kept
<1>7. \A x : EndsAt(hdr, x) => EndsAt(o, x)
  BY <1>1 DEF EndsAt, AtEnd
<1>8. g[k].next # NULL => NoFreePair(g)
  BY <1>5 DEF NoFreePair, Settled
<1> QED
  BY <1>5, <1>6, <1>7, <1>8
=============================================================================
