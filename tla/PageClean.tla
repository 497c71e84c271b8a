----------------------------- MODULE PageClean -----------------------------
(***************************************************************************)
(* How the laundry thread writes a page (vm_pageout_clean,                 *)
(* vm_pageout_cluster and vm_pageout_flush of vm_pageout.c): when the      *)
(* object is a vnode's it drops the page's and the object's lock to get    *)
(* the vnode's, and looks at the page again; it gathers dirty neighbours   *)
(* one by one into a cluster, and hands the cluster to the pager; what it  *)
(* gives up in the end its variables vp and mp tell.  Meanwhile other      *)
(* threads hold pages, clean them, free them and touch them.               *)
(***************************************************************************)
EXTENDS Integers, FiniteSets

CONSTANTS
  LastIndex, \* the object's pages have the indexes 0..LastIndex
  Count,     \* vm_pageout_page_count, the size of a cluster
  Changes    \* how many changes other threads make until it is done

VARIABLES
  page,      \* of an index: which page is there and its state
  vnode,     \* whether other threads hold the vnode's lock, suspend the file system,
             \* or take the object from the vnode; or that there is none
  pip,       \* paging_in_progress of the object
  at,        \* where the laundry thread is
  mine,      \* what it holds: "page", "object", "ref", "write", "vnode"
  vp, mp,    \* its variables: whether they are not NULL
  index,     \* pindex of the page it launders
  lo, hi,    \* the cluster: page_base and pageout_count as its first and last index
  back,      \* ib # 0: whether the reverse scan may go on
  todo,      \* the first page of the cluster whose result is still to be handled
  out,       \* numpagedout
  changes

\* A vnode's object has a page, and a cluster has one (vm_pageout_page_count).
CleanAssumption == LastIndex \in Nat /\ Count \in Nat \ {0}

vars == <<page, vnode, pip, at, mine, vp, mp, index, lo, hi, back, todo, out, changes>>
world == <<page, vnode, pip, changes>>
pointers == <<vp, mp>>
cluster == <<lo, hi, back, todo, out>>

Index == 0..LastIndex

\* A page as the checks see it; `same` says that it is the page that was there first.
PageType == [same : BOOLEAN, dirty : BOOLEAN, busy : BOOLEAN, held : BOOLEAN,
             laundry : BOOLEAN, writable : BOOLEAN]

Good == [same |-> TRUE, dirty |-> TRUE, busy |-> FALSE, held |-> FALSE,
         laundry |-> TRUE, writable |-> TRUE]
Fits(p) == p.dirty /\ ~p.busy /\ ~p.held /\ p.laundry

Init ==
  /\ index \in Index
  /\ page \in [Index -> {Good, [Good EXCEPT !.dirty = FALSE]}]
  /\ page[index].dirty
  /\ vnode \in {{}, {"none"}}
  /\ pip = 0
  /\ at = "clean" /\ mine = {"page", "object"} /\ vp = FALSE /\ mp = FALSE
  /\ lo = index /\ hi = index /\ back = TRUE
  /\ todo = 0 /\ out = 0
  /\ changes = 0

Go(here, there) == at = here /\ at' = there

-----------------------------------------------------------------------------
(* vm_pageout_clean *)

\* An object without a vnode keeps its locks.
NoVnode ==
  /\ Go("clean", "cluster") /\ "none" \in vnode
  /\ UNCHANGED <<mine, pointers, index, cluster>> /\ UNCHANGED world

\* A suspended file system is left alone; else the object gets a reference, and its lock
\* is dropped.
StartWrite ==
  LET suspended == "suspended" \in vnode IN
  /\ Go("clean", IF suspended THEN "unlock_all" ELSE "vget") /\ "none" \notin vnode
  /\ mine' = IF suspended THEN mine \ {"page"} ELSE {"ref", "write"}
  /\ vp' = TRUE /\ mp' = ~suspended
  /\ UNCHANGED <<index, cluster>> /\ UNCHANGED world

\* Mutant of VGet: vp is not cleared.
VGetKeepsVp ==
  /\ \/ Go("vget", "relock") /\ "locked" \notin vnode /\ mine' = mine \cup {"vnode"}
     \/ Go("vget", "unlock_mp") /\ UNCHANGED mine
  /\ UNCHANGED <<pointers, index, cluster>> /\ UNCHANGED world

\* The vnode's lock is waited for, but not forever.
VGet ==
  /\ \/ /\ Go("vget", "relock") /\ "locked" \notin vnode
        /\ mine' = mine \cup {"vnode"} /\ UNCHANGED vp
     \/ Go("vget", "unlock_mp") /\ vp' = FALSE /\ UNCHANGED mine
  /\ UNCHANGED <<mp, index, cluster>> /\ UNCHANGED world

\* Mutant of StillThere: whether the page was busied or held is not looked at.
StillListed(p) == p.same /\ p.laundry /\ p.dirty

\* The page may have been moved, freed, cleaned, busied or held since.
StillThere(p) == p.same /\ p.laundry /\ p.dirty /\ ~p.busy /\ ~p.held

Relock ==
  LET fine == "detached" \notin vnode /\ StillThere(page[index]) IN
  /\ Go("relock", IF fine THEN "cluster" ELSE "unlock_all")
  /\ mine' = mine \cup {"object"} \cup (IF fine THEN {"page"} ELSE {})
  /\ UNCHANGED <<pointers, index, cluster>> /\ UNCHANGED world

\* unlock_all
Unlock ==
  /\ Go("unlock_all", "unlock_mp")
  /\ mine' = mine \ {"object"}
  /\ UNCHANGED <<pointers, index, cluster>> /\ UNCHANGED world

\* What vput, vm_object_deallocate and vn_finished_write give up, by vp and mp.
Releases ==
  IF mp THEN {"ref", "write"} \cup (IF vp THEN {"vnode"} ELSE {}) ELSE {}

\* unlock_mp
UnlockMp ==
  /\ Go("unlock_mp", "done")
  /\ mine' = mine \ Releases
  /\ UNCHANGED <<pointers, index, cluster>> /\ UNCHANGED world

-----------------------------------------------------------------------------
(* vm_pageout_cluster: one page of the cluster at a time, under its lock *)

Protected(p) == [p EXCEPT !.writable = FALSE]
Gathered == hi - lo + 1

Protect ==
  /\ Go("cluster", "reverse")
  /\ mine' = mine \ {"page"}
  /\ page' = [page EXCEPT ![index] = Protected(@)]
  /\ UNCHANGED <<pointers, index, cluster, vnode, pip, changes>>

Joins(i) ==
  /\ i \in Index /\ Fits(page[i])
  /\ page' = [page EXCEPT ![i] = Protected(@)]

\* Backwards until the cluster is full or a page does not fit, pausing where the cluster
\* is aligned.
Aligned(i) == i % Count = 0
Reverse ==
  /\ at = "reverse"
  /\ \/ /\ back /\ Gathered < Count /\ Joins(lo - 1)
        /\ lo' = lo - 1
        /\ at' = IF Aligned(lo') THEN "forward" ELSE "reverse"
        /\ UNCHANGED back
     \/ /\ back /\ Gathered < Count /\ ~(lo - 1 \in Index /\ Fits(page[lo - 1]))
        /\ back' = FALSE /\ at' = "forward"
        /\ UNCHANGED <<lo, page>>
     \/ /\ ~back \/ Gathered >= Count
        /\ at' = "forward"
        /\ UNCHANGED <<lo, back, page>>
  /\ UNCHANGED <<vnode, pip, mine, pointers, index, hi, todo, out, changes>>

\* Then forwards, and backwards again if there is room.
Forward ==
  /\ at = "forward"
  /\ \/ /\ Gathered < Count /\ Joins(hi + 1)
        /\ hi' = hi + 1 /\ UNCHANGED at
     \/ /\ Gathered >= Count \/ ~(hi + 1 \in Index /\ Fits(page[hi + 1]))
        /\ at' = IF back /\ Gathered < Count THEN "reverse" ELSE "flush"
        /\ UNCHANGED <<hi, page>>
  /\ UNCHANGED <<vnode, pip, mine, pointers, index, lo, back, todo, out, changes>>

-----------------------------------------------------------------------------
(* vm_pageout_flush *)

Outcome == {"ok", "pend", "bad", "fail", "again"}

\* The cluster's pages are busied and given to the pager (external), which answers for each.
Put ==
  /\ Go("flush", "result")
  /\ page' = [i \in Index |-> IF i \in lo..hi THEN [page[i] EXCEPT !.busy = TRUE]
                              ELSE page[i]]
  /\ pip' = pip + Gathered
  /\ todo' = lo
  /\ UNCHANGED <<vnode, mine, pointers, index, lo, hi, back, out, changes>>

\* Mutant of After: a page in transit is given back too.
AfterAny(p, s) ==
  CASE s \in {"ok", "bad"} -> [p EXCEPT !.busy = FALSE, !.dirty = FALSE, !.laundry = FALSE]
    [] s = "fail" -> [p EXCEPT !.busy = FALSE, !.laundry = FALSE]
    [] s \in {"again", "pend"} -> [p EXCEPT !.busy = FALSE]

\* A page that was written is clean when the pager is done with it; one outside the file
\* is cleaned; one that failed becomes active; one in transit stays busy.
After(p, s) ==
  CASE s \in {"ok", "bad"} -> [p EXCEPT !.busy = FALSE, !.dirty = FALSE, !.laundry = FALSE]
    [] s = "fail" -> [p EXCEPT !.busy = FALSE, !.laundry = FALSE]
    [] s = "again" -> [p EXCEPT !.busy = FALSE]
    [] s = "pend" -> p

Result ==
  /\ at = "result"
  /\ \/ /\ todo <= hi
        /\ \E answer \in Outcome :
             /\ page' = [page EXCEPT ![todo] = After(@, answer)]
             /\ pip' = IF answer = "pend" THEN pip ELSE pip - 1
             /\ out' = IF answer \in {"ok", "pend"} THEN out + 1 ELSE out
        /\ todo' = todo + 1
        /\ UNCHANGED at
     \/ /\ todo > hi
        /\ at' = "unlock_all"
        /\ UNCHANGED <<page, pip, out, todo>>
  /\ UNCHANGED <<vnode, mine, pointers, index, lo, hi, back, changes>>

-----------------------------------------------------------------------------
(* Other threads (external) *)

Change(p) ==
  /\ at # "done" /\ changes < Changes /\ changes' = changes + 1
  /\ page' = p
  /\ UNCHANGED <<vnode, pip, at, mine, pointers, index, cluster>>

\* Under a page's lock alone: hold it, or move it to another queue.
Hold(i) ==
  /\ ~(i = index /\ "page" \in mine)
  /\ \/ Change([page EXCEPT ![i].held = ~@])
     \/ Change([page EXCEPT ![i].laundry = ~@])

\* Under the object's lock: busy, clean or dirty a page, map it, free it for another.
Touch(i) ==
  /\ "object" \notin mine /\ ~page[i].busy
  /\ \/ Change([page EXCEPT ![i].busy = TRUE])
     \/ Change([page EXCEPT ![i].dirty = FALSE])
     \/ Change([page EXCEPT ![i].writable = TRUE])
     \/ Change([page EXCEPT ![i] = [Good EXCEPT !.same = FALSE]])

\* A write through a mapping needs no lock.
Write(i) == page[i].writable /\ ~page[i].dirty /\ Change([page EXCEPT ![i].dirty = TRUE])

\* The pager finishes with a page in transit.
Complete(i) ==
  /\ at = "done" /\ pip > 0 /\ page[i].busy /\ i \in lo..hi
  /\ pip' = pip - 1
  /\ page' = [page EXCEPT ![i].busy = FALSE]
  /\ UNCHANGED <<vnode, at, mine, pointers, index, cluster, changes>>

Vnode(x) ==
  /\ at # "done" /\ changes < Changes /\ changes' = changes + 1
  /\ "none" \notin vnode
  /\ x = "suspended" => "write" \notin mine
  /\ x \in {"locked", "detached"} => "vnode" \notin mine
  /\ x = "detached" => "object" \notin mine
  /\ vnode' = vnode \cup {x}
  /\ UNCHANGED <<page, pip, at, mine, pointers, index, cluster>>

Launder == NoVnode \/ StartWrite \/ VGet \/ Relock \/ Unlock \/ UnlockMp
           \/ Protect \/ Reverse \/ Forward \/ Put \/ Result

Next ==
  \/ Launder
  \/ \E i \in Index : Hold(i) \/ Touch(i) \/ Write(i) \/ Complete(i)
  \/ \E x \in {"locked", "suspended", "detached"} : Vnode(x)

Spec == Init /\ [][Next]_vars

-----------------------------------------------------------------------------
TypeOK ==
  /\ page \in [Index -> PageType]
  /\ mine \subseteq {"page", "object", "ref", "write", "vnode"}
  /\ vp \in BOOLEAN /\ mp \in BOOLEAN
  /\ lo \in Index /\ hi \in Index /\ out \in 0..Count

\* What is written is a run of at most Count pages of the object that holds the page asked
\* for, each dirty and free, and none of them can be written to any more, although pages
\* were looked at one by one with their locks dropped in between.
ClusterSound ==
  at = "flush" =>
    /\ lo <= index /\ index <= hi /\ Gathered <= Count
    /\ page[index].same
    /\ \A i \in lo..hi : page[i].dirty /\ ~page[i].busy /\ ~page[i].writable
    /\ mine = {"object"} \cup (IF "none" \in vnode THEN {} ELSE {"ref", "write", "vnode"})

\* A cluster is the aligned block of a page in its middle whenever that block is dirty.
ClusterAligned ==
  LET first == index - (index % Count) IN
  at = "flush" /\ index # first /\ changes = 0 /\ first + Count - 1 \in Index
    /\ (\A i \in first..(first + Count - 1) : page[i].dirty)
      => lo = first

\* Whatever failed on the way, what vp and mp say at the end is what the thread still holds,
\* neither more nor less, and then it holds nothing; and the object counts as paging
\* exactly the pages still in transit, which stay busy.
CleanReleases ==
  /\ at = "unlock_all" => "object" \in mine /\ mine \ {"object"} = Releases
  /\ at = "unlock_mp" => mine = Releases
  /\ at = "done" => mine = {}
  /\ LET busied == Cardinality({i \in lo..hi : page[i].busy})
     IN  pip <= busied /\ (at = "result" => pip = busied)
=============================================================================
