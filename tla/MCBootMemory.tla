---------------------------- MODULE MCBootMemory ----------------------------
(***************************************************************************)
(* BootMemory with pages of four bytes, a kernel that ends at 8, and as in *)
(* the real one room for an eighth of the address space.  The maps: any    *)
(* two disjoint regions, in either order, with ends on and off page        *)
(* boundaries, below, across and at the kernel's end and at PMM_MAX_SIZE;  *)
(* machines with three regions; and available memory up to, across and     *)
(* above 4 GB, before and behind a region that fits.                       *)
(***************************************************************************)
EXTENDS BootMemory

Region(b, n, t) == [base |-> b, length |-> n, type |-> t]

Regions == {Region(b, n, t) : b \in {0, 4, 6, 8, 9, 16, 23, 32, 36}, n \in {1, 4, 7, 8, 10, 24, 40}, t \in {1, 2}}

Pairs == {m \in {<<r, s>> : r \in Regions, s \in Regions} : Apart(m)}

High == {Region(b, n, 1) : b \in {240, 250, 253, 256, 476, 509}, n \in {3, 6, 8, 16, 20, 64}}

Others == {<< >>,
           <<Region(8, 3, 1), Region(11, 9, 1), Region(20, 12, 1)>>,
           <<Region(0, 200, 1), Region(252, 4, 2), Region(256, 64, 1)>>,
           <<Region(256, 64, 1), Region(0, 6, 1), Region(8, 200, 1)>>}
          \cup {<<h, Region(8, 12, 1)>> : h \in High}
          \cup {<<Region(8, 12, 1), h>> : h \in High}

(* A PC: low memory, a hole that ends where the kernel does, and the rest. *)
PC(top) == <<Region(0, 6, 1), Region(6, 2, 2), Region(8, top - 8, 1)>>
PCs == {PC(top) : top \in 12 .. 48}

MCMaps == Pairs \cup Others \cup PCs
=============================================================================
