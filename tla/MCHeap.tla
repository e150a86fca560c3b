------------------------------- MODULE MCHeap -------------------------------
(***************************************************************************)
(* Heap with pages of eight bytes, headers of three and page tables of two *)
(* entries.  As in the kernel the heap starts at 7/8 of the address space; *)
(* its first page is the last one of its page table.                       *)
(* After boot there are enough frames for the requests, or one too few for *)
(* a page, or one too few for a page table.                                *)
(***************************************************************************)
EXTENDS Heap, SequencesExt

FewestFrames == 4

Stacks == {SubSeq(SetToSeq(Frames), 1, k) : k \in FewestFrames .. Cardinality(Frames)}
=============================================================================
