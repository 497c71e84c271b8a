------------------------------- MODULE MCBuddy -------------------------------
(***************************************************************************)
(* Two memories of the allocator.  One (`contig` is FALSE) has two pools,  *)
(* in a segment that begins at an odd page and one of one page next to it, *)
(* on free lists of their own.  The other, whose constants the .cfg gives, *)
(* has one pool, in two segments that share a free list, with a gap, and   *)
(* one on another list, and its callers ask for contiguous pages beyond    *)
(* the largest block.                                                      *)
(***************************************************************************)
EXTENDS Buddy

VARIABLE contig

ThreeSegs ==
  {[start |-> 0, end |-> 8, flind |-> 0], [start |-> 9, end |-> 12, flind |-> 0],
   [start |-> 12, end |-> 13, flind |-> 1]}

TwoRanges == {<<0, 16>>, <<2, 7>>}

P == INSTANCE Buddy WITH
       Segs <- {[start |-> 3, end |-> 9, flind |-> 0], [start |-> 9, end |-> 10, flind |-> 1]},
       NumOrders <- 3, NumPools <- 2, NumLists <- 2, Orders <- {0, 1}, Counts <- {2, 3},
       Ranges <- {<<0, 16>>}, Alignments <- {1}, Boundaries <- {0}

ASSUME P!BuddyAssumption /\ P!SegsApart

MCInit == (contig = FALSE /\ P!Init) \/ (contig = TRUE /\ Init)

MCNext ==
  /\ UNCHANGED contig
  /\ \/ ~ contig /\ P!Next
     \/ contig /\ Next

MCSpec == MCInit /\ [][MCNext]_<<contig, vars>>

(* The properties are those of Buddy, of either memory.                    *)

(* Lists, orders and pools agree, and odd pages stay behind even ones.     *)
ListsAgree ==
  IF contig THEN TypeOK /\ ListsExact /\ PoolsUniform /\ OddLast
  ELSE P!TypeOK /\ P!ListsExact /\ P!PoolsUniform /\ P!OddLast

(* vm_phys_alloc_npages gives as many pages as were asked for, or all (of  *)
(* the first memory, which has the pools and lists it goes through).       *)
RequestsFilled == contig \/ P!NpagesComplete

(* Memory is never given twice or lost.                                    *)
MemoryKept == IF contig THEN MemoryPartitioned ELSE P!MemoryPartitioned

(* Free memory is as coalesced as it can be.                               *)
BuddiesJoined == IF contig THEN Coalesced ELSE P!Coalesced

(* vm_phys_unfree_page finds a page if and only if it is free.             *)
FreeFound == IF contig THEN UnfreeFinds ELSE P!UnfreeFinds
=============================================================================
