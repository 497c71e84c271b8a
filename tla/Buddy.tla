-------------------------------- MODULE Buddy --------------------------------
(***************************************************************************)
(* The physical page allocator (vm_phys.c): binary buddies in segments of  *)
(* physical memory, with free lists per pool and order.  Every entry point *)
(* runs under the lock of the free queues, so an action is one call; what  *)
(* is hard is the long run of calls.  Pages are page numbers, memory has   *)
(* one domain.                                                             *)
(***************************************************************************)
EXTENDS Integers, SequencesExt, FiniteSetsExt

CONSTANTS
  Segs,         \* vm_phys_segs: pages start .. end - 1, on free list flind
  NumOrders,    \* VM_NFREEORDER
  NumPools,     \* VM_NFREEPOOL; pool 0 is VM_FREEPOOL_DEFAULT
  NumLists,     \* vm_nfreelists
  Orders,       \* orders callers of vm_phys_alloc_pages ask for
  Counts,       \* numbers of pages callers of the other two ask for
  Ranges,       \* pairs <<low, high>> of vm_phys_alloc_contig, in pages
  Alignments,   \* alignments it is asked for, in pages
  Boundaries    \* boundaries it is asked for, in pages; 0 is none

MaxOrder == NumOrders - 1
Order == 0 .. MaxOrder
Pool == 0 .. NumPools - 1
FreeList == 0 .. NumLists - 1
PagesOf(seg) == seg.start .. seg.end - 1
Page == UNION {PagesOf(seg) : seg \in Segs}

ASSUME BuddyAssumption ==
  /\ NumOrders \in Nat \ {0} /\ NumPools \in Nat \ {0} /\ NumLists \in Nat \ {0}
  /\ Segs \subseteq [start : Nat, end : Nat, flind : FreeList]
  /\ Orders \subseteq Order
  /\ Counts \subseteq Nat \ {0}
  /\ Ranges \subseteq Nat \X Nat
  /\ Alignments \subseteq Nat \ {0}
  /\ Boundaries \subseteq Nat

(* vm_phys_init merges adjacent segments that share a free list. *)
ASSUME SegsApart ==
  \A a, b \in Segs : a # b => /\ PagesOf(a) \cap PagesOf(b) = {}
                              /\ a.end = b.start => a.flind # b.flind

VARIABLES
  order,  \* order[m]: NumOrders unless m heads a free block
  pool,   \* pool[m]
  lists,  \* vm_phys_free_queues: lists[flind][pool][order]
  runs    \* what callers hold: runs of pages they were given

vars == <<order, pool, lists, runs>>

NoPage == -1
Block(m, o) == m .. m + 2 ^ o - 1
SegOf(m) == CHOOSE seg \in Segs : m \in PagesOf(seg)
Down(m, o) == m - (m % 2 ^ o)
BuddyOf(m, o) == IF (m \div 2 ^ o) % 2 = 0 THEN m + 2 ^ o ELSE m - 2 ^ o

TypeOK ==
  /\ order \in [Page -> 0 .. NumOrders]
  /\ pool \in [Page -> Pool]
  /\ lists \in [FreeList -> [Pool -> [Order -> Seq(Page)]]]
  /\ runs \in SUBSET [first : Page, len : Nat \ {0}]

(***************************************************************************)
(* The free lists.  Functions take the allocator's state s and give back   *)
(* the next one.                                                           *)
(***************************************************************************)
State == [order |-> order, pool |-> pool, lists |-> lists]

Becomes(s) == order' = s.order /\ pool' = s.pool /\ lists' = s.lists

(* vm_freelist_add: an odd page at the tail, an even one at the head,      *)
(* whatever the caller asked for.                                          *)
FreelistAdd(s, f, p, m, o) ==
  [s EXCEPT !.order[m] = o,
            !.lists[f][p][o] = IF m % 2 = 1 THEN Append(@, m) ELSE <<m>> \o @]

(* Mutant of FreelistRem: the page keeps its order. *)
FreelistRemKeepsOrder(s, f, p, m, o) ==
  [s EXCEPT !.lists[f][p][o] = RemoveFirst(@, m)]

(* vm_freelist_rem *)
FreelistRem(s, f, p, m, o) ==
  [s EXCEPT !.order[m] = NumOrders, !.lists[f][p][o] = RemoveFirst(@, m)]

(* vm_phys_set_pool *)
SetPool(s, m, o, p) ==
  [s EXCEPT !.pool = [x \in Page |-> IF x \in Block(m, o) THEN p ELSE @[x]]]

(* A free block leaves its list and joins pool p. *)
Take(s, m, p) ==
  LET o == s.order[m]
      out == FreelistRem(s, SegOf(m).flind, s.pool[m], m, o)
  IN IF s.pool[m] = p THEN out ELSE SetPool(out, m, o, p)

(* Blocks of different orders join the lists of pool p. *)
AddAll(s, f, p, blocks) ==
  FoldSet(LAMBDA b, n : FreelistAdd(n, f, p, b[1], b[2]), s, blocks)

(* vm_phys_split_pages: what is left of a block of order oind. *)
SplitPages(s, f, p, m, oind, o) ==
  AddAll(s, f, p, {<<m + 2 ^ j, j>> : j \in o .. oind - 1})

(* vm_phys_enq_range: n pages that end at an aligned page, a block for     *)
(* each bit of n.                                                          *)
EnqRange(s, f, p, m, n) ==
  AddAll(s, f, p, {<<m + (n % 2 ^ j), j>> :
                     j \in {i \in Order : (n \div 2 ^ i) % 2 = 1}})

(***************************************************************************)
(* vm_phys_alloc_pages                                                     *)
(***************************************************************************)
OrdersWith(s, f, ps, o) ==
  {j \in o .. MaxOrder : \E p \in ps : s.lists[f][p][j] # <<>>}

(* The block vm_phys_alloc_freelist_pages takes: the smallest that fits    *)
(* from pool p, or else the largest of any pool.                           *)
Candidate(s, f, p, o) ==
  LET own == OrdersWith(s, f, {p}, o)
      any == OrdersWith(s, f, Pool, o)
      from == Min({q \in Pool : s.lists[f][q][Max(any)] # <<>>})
  IN IF own # {} THEN Head(s.lists[f][p][Min(own)])
     ELSE IF any # {} THEN Head(s.lists[f][from][Max(any)])
     ELSE NoPage

AllocPages(p, o) ==
  LET fits == {f \in FreeList : Candidate(State, f, p, o) # NoPage}
      f == Min(fits)
      m == Candidate(State, f, p, o)
  IN /\ fits # {}
     /\ Becomes(SplitPages(Take(State, m, p), f, p, m, order[m], o))
     /\ runs' = runs \cup {[first |-> m, len |-> 2 ^ o]}

(***************************************************************************)
(* vm_phys_alloc_npages                                                    *)
(***************************************************************************)
(* The blocks of free list f in the order they are taken for pool p: its   *)
(* own from the smallest, then the largest of the other pools.             *)
Supply(s, f, p) ==
  LET own == [i \in 1 .. NumOrders |-> s.lists[f][p][i - 1]]
      others(j) == [i \in 1 .. NumPools |->
                      IF i - 1 = p THEN <<>> ELSE s.lists[f][i - 1][j]]
      alt == [i \in 1 .. NumOrders |-> FlattenSeq(others(NumOrders - i))]
  IN FlattenSeq(own) \o FlattenSeq(alt)

(* Mutant of Excess: one page is kept too many. *)
ExcessShort(got, n) == IF got > n THEN got - n - 1 ELSE 0

(* Pages of the last block that go back to its free list. *)
Excess(got, n) == IF got > n THEN got - n ELSE 0

(* The pages given for a request of n, and the state they leave. *)
Npages(s, p, n) ==
  LET supply == FlattenSeq([i \in 1 .. NumLists |-> Supply(s, i - 1, p)])
      sum(k) == FoldLeft(LAMBDA x, m : x + 2 ^ s.order[m], 0, SubSeq(supply, 1, k))
      enough == {k \in DOMAIN supply : sum(k) >= n}
      count == IF enough = {} THEN Len(supply) ELSE Min(enough)
      taken == SubSeq(supply, 1, count)
      left == FoldLeft(LAMBDA x, m : Take(x, m, p), s, taken)
      all == UNION {Block(m, s.order[m]) : m \in ToSet(taken)}
      back == Excess(sum(count), n)
      last == Last(taken)
      first == last + 2 ^ s.order[last] - back
  IN IF taken = <<>> THEN [pages |-> {}, state |-> s]
     ELSE IF back = 0 THEN [pages |-> all, state |-> left]
     ELSE [pages |-> all \ (first .. first + back - 1),
           state |-> EnqRange(left, SegOf(last).flind, p, first, back)]

AllocNpages(p, n) ==
  LET got == Npages(State, p, n) IN
  /\ got.pages # {}
  /\ Becomes(got.state)
  /\ runs' = runs \cup {[first |-> m, len |-> 1] : m \in got.pages}

(***************************************************************************)
(* vm_phys_free_pages and vm_phys_free_contig                              *)
(***************************************************************************)
(* Mutant of Merges: the buddy may be free at a smaller order.             *)
MergesAnyOrder(s, m, o) ==
  LET b == BuddyOf(Down(m, o), o) IN
  b \in PagesOf(SegOf(m)) /\ s.order[b] # NumOrders /\ s.order[b] <= o

(* The block of order o around m joins its buddy. *)
Merges(s, m, o) ==
  LET b == BuddyOf(Down(m, o), o) IN b \in PagesOf(SegOf(m)) /\ s.order[b] = o

(* Mutant of FreePages: it merges once. *)
FreePagesOnce(s, m, o) ==
  LET top == IF o < MaxOrder /\ Merges(s, m, o) THEN o + 1 ELSE o
      buddies == {BuddyOf(Down(m, j), j) : j \in o .. top - 1}
      joined == FoldSet(LAMBDA b, n : Take(n, b, s.pool[m]), s, buddies)
  IN FreelistAdd(joined, SegOf(m).flind, s.pool[m], Down(m, top), top)

(* vm_phys_free_pages *)
FreePages(s, m, o) ==
  LET top == Min({j \in o .. MaxOrder : j = MaxOrder \/ ~ Merges(s, m, j)})
      buddies == {BuddyOf(Down(m, j), j) : j \in o .. top - 1}
      joined == FoldSet(LAMBDA b, n : Take(n, b, s.pool[m]), s, buddies)
  IN FreelistAdd(joined, SegOf(m).flind, s.pool[m], Down(m, top), top)

(* The order of the first block of n pages at m: what the alignment of m   *)
(* allows, or the largest that fits.                                       *)
PieceOrder(m, n) ==
  LET aligned == Max({j \in Order : m % 2 ^ j = 0}) IN
  IF 2 ^ aligned <= n THEN aligned ELSE Max({j \in Order : 2 ^ j <= n})

FreeContig(s, m, n) ==
  LET pieces[k \in 0 .. n] ==
        IF k = 0 THEN <<>>
        ELSE LET o == PieceOrder(m + n - k, k) IN
             <<<<m + n - k, o>>>> \o pieces[k - 2 ^ o]
  IN FoldLeft(LAMBDA x, b : FreePages(x, b[1], b[2]), s, pieces[n])

(* A run goes back whole, *)
FreeRun(r) ==
  /\ Becomes(FreeContig(State, r.first, r.len))
  /\ runs' = runs \ {r}

(* or one of its pages does, and the others will one by one. *)
FreePage(r, m) ==
  /\ m \in r.first .. r.first + r.len - 1
  /\ Becomes(FreePages(State, m, 0))
  /\ runs' = (runs \ {r}) \cup {[first |-> x, len |-> 1] :
                                  x \in (r.first .. r.first + r.len - 1) \ {m}}

(***************************************************************************)
(* vm_phys_unfree_page                                                     *)
(***************************************************************************)
(* Mutant of Holder: the size of the block found is not looked at. *)
HolderUnsized(s, m) ==
  LET heads == {o \in Order : Down(m, o) \in Page /\ s.order[Down(m, o)] # NumOrders}
      o == Min(heads)
  IN IF heads = {} \/ Down(m, o) < SegOf(m).start THEN NoPage ELSE Down(m, o)

(* The head of the free block that holds m: the first of m's aligned       *)
(* ancestors that heads any, if that one is large enough.                  *)
Holder(s, m) ==
  LET heads == {o \in Order : /\ Down(m, o) >= SegOf(m).start
                              /\ s.order[Down(m, o)] # NumOrders}
      o == Min(heads)
  IN IF heads = {} THEN NoPage
     ELSE IF s.order[Down(m, o)] < o THEN NoPage
     ELSE Down(m, o)

UnfreePage(m) ==
  LET h == Holder(State, m)
      f == SegOf(m).flind
      out == FreelistRem(State, f, pool[h], h, order[h])
  IN /\ h # NoPage
     /\ Becomes(AddAll(out, f, pool[h], {<<BuddyOf(Down(m, j), j), j>> :
                                          j \in 0 .. order[h] - 1}))
     /\ runs' = runs \cup {[first |-> m, len |-> 1]}

(***************************************************************************)
(* vm_phys_alloc_contig                                                    *)
(***************************************************************************)
(* A block larger than the largest order is put together from free ones.   *)
Follows(s, seg, m, n) ==
  \A j \in 1 .. (n - 1) \div 2 ^ MaxOrder :
    LET x == m + j * 2 ^ MaxOrder IN x \in PagesOf(seg) /\ s.order[x] = MaxOrder

Fits(m, n, range, align, boundary) ==
  /\ range[1] <= m /\ m + n <= range[2]
  /\ m % align = 0
  /\ boundary # 0 => m \div boundary = (m + n - 1) \div boundary

(* The block vm_phys_alloc_seg_contig picks: its segment's lists, which    *)
(* may hold blocks of other segments too, from the best fitting order.     *)
SegCandidate(s, seg, n, range, align, boundary) ==
  LET fit == {j \in Order : 2 ^ j >= n}
      least == IF fit = {} THEN MaxOrder ELSE Min(fit)
      all == FlattenSeq([i \in 1 .. NumOrders - least |->
               FlattenSeq([q \in 1 .. NumPools |->
                             s.lists[seg.flind][q - 1][least + i - 1]])])
      good == SelectSeq(all, LAMBDA m : /\ fit = {} => Follows(s, seg, m, n)
                                        /\ Fits(m, n, range, align, boundary))
  IN IF good = <<>> THEN NoPage ELSE Head(good)

Overlap(seg, range) ==
  (IF range[2] < seg.end THEN range[2] ELSE seg.end)
    - (IF range[1] > seg.start THEN range[1] ELSE seg.start)

AllocContig(n, range, align, boundary) ==
  LET pick(seg) == SegCandidate(State, seg, n, range, align, boundary)
      usable == {seg \in Segs : Overlap(seg, range) >= n /\ pick(seg) # NoPage}
      seg == CHOOSE x \in usable : \A y \in usable : y.start <= x.start
      m == pick(seg)
      o == order[m]
      blocks == {m + j * 2 ^ o : j \in 0 .. (n - 1) \div 2 ^ o}
      end == m + Cardinality(blocks) * 2 ^ o
      taken == FoldSet(LAMBDA b, x : Take(x, b, 0), State, blocks)
  IN /\ usable # {}
     /\ Becomes(EnqRange(taken, seg.flind, 0, m + n, end - (m + n)))
     /\ runs' = runs \cup {[first |-> m, len |-> n]}

(***************************************************************************)
(* vm_page_startup frees every segment.                                    *)
(***************************************************************************)
Init ==
  LET none == [order |-> [m \in Page |-> NumOrders],
               pool |-> [m \in Page |-> 0],
               lists |-> [f \in FreeList |-> [p \in Pool |-> [o \in Order |-> <<>>]]]]
      sorted == SetToSortSeq(Segs, LAMBDA a, b : a.start < b.start)
      full == FoldLeft(LAMBDA s, seg : FreeContig(s, seg.start, seg.end - seg.start),
                       none, sorted)
  IN /\ order = full.order /\ pool = full.pool /\ lists = full.lists
     /\ runs = {}

Next ==
  \/ \E p \in Pool : \/ \E o \in Orders : AllocPages(p, o)
                     \/ \E n \in Counts : AllocNpages(p, n)
  \/ \E n \in Counts, range \in Ranges, a \in Alignments, b \in Boundaries :
       AllocContig(n, range, a, b)
  \/ \E m \in Page : UnfreePage(m)
  \/ \E r \in runs : FreeRun(r) \/ \E m \in Page : FreePage(r, m)

Spec == Init /\ [][Next]_vars

(***************************************************************************)
(* Properties                                                              *)
(***************************************************************************)
Heads == {m \in Page : order[m] # NumOrders}
FreePageSet == UNION {Block(m, order[m]) : m \in Heads}
RunPages(r) == r.first .. r.first + r.len - 1

(* Exactly the heads of free blocks are on the lists, each once, on the    *)
(* list its own fields name: the allocator finds a block from either side. *)
ListsExact ==
  \A f \in FreeList, p \in Pool, o \in Order :
    /\ IsInjective(lists[f][p][o])
    /\ ToSet(lists[f][p][o]) =
         {m \in Heads : SegOf(m).flind = f /\ pool[m] = p /\ order[m] = o}

(* Free blocks are aligned, lie in one segment and do not overlap, and     *)
(* with the runs that callers hold they make up the memory: no page is     *)
(* given twice, and none is lost.                                          *)
MemoryPartitioned ==
  /\ \A m \in Heads : m % 2 ^ order[m] = 0 /\ Block(m, order[m]) \subseteq PagesOf(SegOf(m))
  /\ \A m, x \in Heads : m # x => Block(m, order[m]) \cap Block(x, order[x]) = {}
  /\ \A r, q \in runs : r # q => RunPages(r) \cap RunPages(q) = {}
  /\ FreePageSet \cap UNION {RunPages(r) : r \in runs} = {}
  /\ FreePageSet \cup UNION {RunPages(r) : r \in runs} = Page

(* Free memory is as coalesced as it can be: an aligned range of free      *)
(* pages lies in one free block, so a request for it does not fail.  Holds *)
(* after splits, partial returns (vm_phys_enq_range) and extractions       *)
(* (vm_phys_unfree_page) as well.                                          *)
Coalesced ==
  \A seg \in Segs, o \in Order : \A m \in PagesOf(seg) :
    /\ m % 2 ^ o = 0 /\ m + 2 ^ o <= seg.end /\ Block(m, o) \subseteq FreePageSet
    => \E h \in Heads : Block(m, o) \subseteq Block(h, order[h])

(* All pages of a free block are in the pool of its list, as the transfer  *)
(* of blocks between pools and their later splitting assume.               *)
PoolsUniform == \A m \in Heads : \A x \in Block(m, order[m]) : pool[x] = pool[m]

(* vm_phys_unfree_page finds a page if and only if it is free.             *)
UnfreeFinds == \A m \in Page : Holder(State, m) # NoPage <=> m \in FreePageSet

(* vm_phys_alloc_npages gives as many pages as were asked for, or all.     *)
NpagesComplete ==
  \A p \in Pool, n \in Counts :
    Cardinality(Npages(State, p, n).pages) = Min({n, Cardinality(FreePageSet)})

(* The even pages of a free list precede the odd ones, whatever mixture of *)
(* calls put them there (README.Captain, lines 34 to 37).                  *)
OddLast ==
  \A f \in FreeList, p \in Pool, o \in Order :
    \A j, k \in DOMAIN lists[f][p][o] :
      j < k => lists[f][p][o][j] % 2 <= lists[f][p][o][k] % 2
=============================================================================
