----------------------------- MODULE PageQueues -----------------------------
(***************************************************************************)
(* Membership of pages in the paging queues (vm_page.c, vm_pageout.c).     *)
(* Where a page belongs (its queue field and flags) changes under the page *)
(* lock; the lists change later, under a queue lock, from per-CPU batches. *)
(* The page daemon takes inactive pages off their list without the page    *)
(* locks and decides on each of them afterwards; its laundry thread looks  *)
(* through the laundry, whose pages stay on their list.  Here the daemon   *)
(* makes the scans of both, one after the other.                           *)
(*                                                                         *)
(* What a thread has begun is a sequence of instructions it has yet to do, *)
(* one step each; a step that needs a lock waits for it.                   *)
(***************************************************************************)
EXTENDS Integers, FiniteSets, SequencesExt

CONSTANTS
  Page,
  Thread,     \* threads that use pages, each on a CPU of its own
  Daemon,     \* the page daemon, on another CPU
  BatchSize,  \* VM_BATCHQUEUE_SIZE
  Launders,   \* whether there are dirty pages, and a queue for them
  Nobody

Actor == Thread \cup {Daemon}

Queue == {"active", "inactive"} \cup (IF Launders THEN {"laundry"} ELSE {})

(* The flags of PGA_QUEUE_STATE_MASK. *)
Flag == {"enqueued", "dequeue", "requeue", "head"}

(* Pages that are no pages: the scan's marker and vmd_inacthead. *)
Marker == "marker"
Inacthead == "inacthead"

ASSUME QueuesAssumption ==
  /\ IsFiniteSet(Page) /\ {"none", Marker, Inacthead} \cap Page = {}
  /\ Daemon \notin Thread /\ Nobody \notin Actor
  /\ Launders \in BOOLEAN /\ BatchSize \in Nat

VARIABLES
  queue,  \* queue[p]: the field, "none" for PQ_NONE
  flags,  \* flags[p]: the queue state in aflags
  list,   \* list[q]: pq_pl
  cnt,    \* cnt[q]: pq_cnt
  batch,  \* batch[a][q]: pqbatch of the CPU a runs on
  plock,  \* plock[p]: who holds the page lock
  qlock,  \* qlock[q]: who holds the queue lock
  page,   \* page[p]: free, being allocated, allocated, wired, or of a dead object
  code,   \* code[a]: what a has yet to do
  scan,   \* the scan of the daemon: under way, its queue and batch, stuck pages,
          \* what is left of maxscan
  failed  \* the assertion of vm_pqbatch_process_page has failed

lists == <<queue, flags, list, cnt, batch, plock, qlock, page, code, scan>>
vars == <<lists, failed>>

Instr(do, p, q) == [do |-> do, page |-> p, queue |-> q]

TypeOK ==
  /\ queue \in [Page -> Queue \cup {"none"}]
  /\ flags \in [Page -> SUBSET Flag]
  /\ \A q \in Queue : list[q] \in Seq(Page \cup {Marker, Inacthead})
  /\ cnt \in [Queue -> 0..Cardinality(Page)]
  /\ \A a \in Actor, q \in Queue :
       batch[a][q] \in Seq(Page) /\ Len(batch[a][q]) <= BatchSize
  /\ plock \in [Page -> Actor \cup {Nobody}]
  /\ qlock \in [Queue -> Actor \cup {Nobody}]
  /\ page \in [Page -> {"free", "taking", "used", "wired", "dead"}]

(* vm_page_queue: where the page belongs once what is pending is done. *)
Logical(p) == IF "dequeue" \in flags[p] THEN "none" ELSE queue[p]

(***************************************************************************)
(* The operations on a locked page, as the instructions they come to       *)
(***************************************************************************)
Dequeue(p) == <<Instr("dequeue", p, "none")>>

(* vm_page_enqueue *)
Enqueue(p, q) ==
  <<Instr("assign", p, q), Instr("requeue", p, q), Instr("submit", p, q)>>

Requeue(p) == <<Instr("requeue", p, queue[p]), Instr("submit", p, queue[p])>>

DequeueDeferred(p) == <<Instr("deferred", p, "none")>>

Activate(p) ==
  IF page[p] = "wired" \/ Logical(p) = "active" THEN <<>>
  ELSE Dequeue(p) \o Enqueue(p, "active")

Deactivate(p) ==
  IF page[p] = "wired" THEN <<>>
  ELSE IF Logical(p) = "inactive" THEN Requeue(p)
  ELSE Dequeue(p) \o Enqueue(p, "inactive")

DeactivateNoreuse(p) ==
  IF page[p] = "wired" THEN <<>>
  ELSE (IF Logical(p) = "inactive" THEN <<>>
        ELSE Dequeue(p) \o <<Instr("assign", p, "inactive")>>)
       \o <<Instr("head", p, "inactive"), Instr("submit", p, "inactive")>>

Launder(p) ==
  IF page[p] = "wired" THEN <<>>
  ELSE IF Logical(p) = "laundry" THEN Requeue(p)
  ELSE Dequeue(p) \o Enqueue(p, "laundry")

(* vm_page_unwire, when the last wiring goes; to no queue with "none". *)
Unwire(p, q) ==
  IF Logical(p) = q
  THEN IF q \in {"active", "none"} THEN <<>> ELSE Requeue(p)
  ELSE Dequeue(p) \o (IF q = "none" THEN <<>> ELSE Enqueue(p, q))

(* vm_page_advise: what its advice makes of a page, dirty or not. *)
Advise(p) ==
  {Activate(p), DeactivateNoreuse(p)}
    \cup (IF Logical(p) = "laundry" \/ ~ Launders THEN {} ELSE {Launder(p)})

(* vm_page_free_prep, vm_page_free_toq *)
Free(p) == DequeueDeferred(p) \o <<Instr("free", p, "none")>>

(***************************************************************************)
(* Steps                                                                   *)
(***************************************************************************)
Next1(a) == Head(code[a])

Does(a, do) == code[a] # <<>> /\ Next1(a).do = do

(* a goes on with more, and then with what it had to do anyway. *)
Continue(a, more) == code' = [code EXCEPT ![a] = more \o Tail(@)]

Members(q) == ToSet(list[q]) \cap Page

Place(s, m) == CHOOSE i \in DOMAIN s : s[i] = m

(* TAILQ_REMOVE, TAILQ_INSERT_BEFORE; nothing is on a list twice. *)
Less(s, m) == IF Contains(s, m) THEN RemoveAt(s, Place(s, m)) ELSE s

Before(s, mark, p) == InsertAt(s, Place(s, mark), p)

Without(q, p) == [list EXCEPT ![q] = Less(@, p)]

(* The page is busy: the laundry thread writes it. *)
Writing(p) == \E i \in DOMAIN code[Daemon] : code[Daemon][i] = Instr("paged", p, "none")

(* A thread takes up a page of its object and does something with it; the  *)
(* thread that destroyed an object frees its pages, or pages them out.     *)
Begin(t, p) ==
  /\ code[t] = <<>> /\ plock[p] = Nobody /\ page[p] \in {"used", "wired", "dead"}
  /\ \/ /\ page[p] = "used"
        /\ \E op \in Advise(p) \cup {Deactivate(p)} :
             code' = [code EXCEPT ![t] = Append(op, Instr("unlock", p, "none"))]
        /\ UNCHANGED page
     \/ /\ page[p] = "used"
        /\ page' = [page EXCEPT ![p] = "wired"]
        /\ code' = [code EXCEPT ![t] = <<Instr("unlock", p, "none")>>]
     \/ /\ page[p] = "wired"
        /\ page' = [page EXCEPT ![p] = "used"]
        /\ \E q \in Queue \cup {"none"} :
             code' = [code EXCEPT ![t] = Append(Unwire(p, q), Instr("unlock", p, "none"))]
     \/ /\ page[p] = "dead"
        /\ \E op \in {Activate(p), DeactivateNoreuse(p)} :
             code' = [code EXCEPT ![t] = Append(op, Instr("unlock", p, "none"))]
        /\ UNCHANGED page
     \/ /\ page[p] \in {"used", "dead"} /\ ~ Writing(p)
        /\ code' = [code EXCEPT ![t] = Append(Free(p), Instr("unlock", p, "none"))]
        /\ UNCHANGED page
  /\ plock' = [plock EXCEPT ![p] = t]
  /\ UNCHANGED <<queue, flags, list, cnt, batch, qlock, scan>>

(* The page's object is destroyed (OBJ_DEAD).  The daemon holds the lock   *)
(* of the object while it decides on the page, and nobody else who has the *)
(* page's lock looks at the flag again.                                    *)
Destroy(p) ==
  /\ page[p] = "used" /\ plock[p] = Nobody
  /\ page' = [page EXCEPT ![p] = "dead"]
  /\ UNCHANGED <<queue, flags, list, cnt, batch, plock, qlock, code, scan>>

(* vm_page_alloc: the page is nobody else's, and dequeued without its lock. *)
Alloc(t, p) ==
  /\ code[t] = <<>> /\ page[p] = "free"
  /\ page' = [page EXCEPT ![p] = "taking"]
  /\ code' = [code EXCEPT ![t] = Append(Dequeue(p), Instr("use", p, "none"))]
  /\ UNCHANGED <<queue, flags, list, cnt, batch, plock, qlock, scan>>

Use(a) ==
  /\ Does(a, "use") \/ Does(a, "free")
  /\ page' = [page EXCEPT ![Next1(a).page] = IF Does(a, "use") THEN "used" ELSE "free"]
  /\ Continue(a, <<>>)
  /\ UNCHANGED <<queue, flags, list, cnt, batch, plock, qlock, scan>>

UnlockPage(a) ==
  /\ Does(a, "unlock")
  /\ plock' = [plock EXCEPT ![Next1(a).page] = Nobody]
  /\ Continue(a, <<>>)
  /\ UNCHANGED <<queue, flags, list, cnt, batch, qlock, page, scan>>

UnlockQueue(a) ==
  /\ Does(a, "unlock queue")
  /\ qlock' = [qlock EXCEPT ![Next1(a).queue] = Nobody]
  /\ Continue(a, <<>>)
  /\ UNCHANGED <<queue, flags, list, cnt, batch, plock, page, scan>>

(* The stores of vm_page_enqueue, vm_page_requeue and                      *)
(* vm_page_deactivate_noreuse.                                             *)
Mark(a) ==
  LET i == Next1(a) IN
  /\ code[a] # <<>>
  /\ \/ i.do = "assign" /\ queue' = [queue EXCEPT ![i.page] = i.queue] /\ UNCHANGED flags
     \/ /\ i.do \in {"requeue", "head"}
        /\ flags' = [flags EXCEPT ![i.page] = @ \cup {i.do}]
        /\ UNCHANGED queue
  /\ Continue(a, <<>>)
  /\ UNCHANGED <<list, cnt, batch, plock, qlock, page, scan>>

(* vm_page_dequeue_deferred *)
Defer(a) ==
  LET p == Next1(a).page IN
  /\ Does(a, "deferred")
  /\ IF queue[p] = "none"
     THEN Continue(a, <<>>) /\ UNCHANGED flags
     ELSE /\ flags' = [flags EXCEPT ![p] = @ \cup {"dequeue"}]
          /\ Continue(a, <<Instr("submit", p, queue[p])>>)
  /\ UNCHANGED <<queue, list, cnt, batch, plock, qlock, page, scan>>

(* Mutant of Detach: the field keeps the queue. *)
DetachKeepingField(p, q) ==
  /\ list' = IF "enqueued" \in flags[p] THEN Without(q, p) ELSE list
  /\ cnt' = IF "enqueued" \in flags[p] THEN [cnt EXCEPT ![q] = @ - 1] ELSE cnt
  /\ UNCHANGED queue

(* The first half of vm_page_dequeue_complete, with the queue lock held. *)
Detach(p, q) ==
  /\ list' = IF "enqueued" \in flags[p] THEN Without(q, p) ELSE list
  /\ cnt' = IF "enqueued" \in flags[p] THEN [cnt EXCEPT ![q] = @ - 1] ELSE cnt
  /\ queue' = [queue EXCEPT ![p] = "none"]

(* vm_page_dequeue: it spins while another thread completes a dequeue. *)
DequeueNow(a) ==
  LET p == Next1(a).page
      q == queue[p] IN
  /\ Does(a, "dequeue")
  /\ \/ /\ q = "none" /\ flags[p] = {}
        /\ Continue(a, <<>>)
        /\ UNCHANGED <<queue, list, cnt, qlock>>
     \/ /\ q # "none" /\ qlock[q] = Nobody
        /\ qlock' = [qlock EXCEPT ![q] = a]
        /\ Detach(p, q)
        /\ Continue(a, <<Instr("clear unlock", p, q)>>)
  /\ UNCHANGED <<flags, batch, plock, page, scan>>

(* The second half of vm_page_dequeue_complete. *)
Clear(a) ==
  /\ Does(a, "clear") \/ Does(a, "clear unlock")
  /\ flags' = [flags EXCEPT ![Next1(a).page] = {}]
  /\ qlock' = [qlock EXCEPT ![Next1(a).queue] = IF Does(a, "clear") THEN @ ELSE Nobody]
  /\ Continue(a, <<>>)
  /\ UNCHANGED <<queue, list, cnt, batch, plock, page, scan>>

(***************************************************************************)
(* The batches                                                             *)
(***************************************************************************)
Entries(do, s, q) == [i \in DOMAIN s |-> Instr(do, s[i], q)]

(* vm_pqbatch_submit_page: into the batch, or through it when it is full. *)
Submit(a) ==
  LET p == Next1(a).page
      q == Next1(a).queue IN
  /\ Does(a, "submit")
  /\ \/ /\ Len(batch[a][q]) < BatchSize
        /\ batch' = [batch EXCEPT ![a][q] = Append(@, p)]
        /\ Continue(a, <<>>)
        /\ UNCHANGED qlock
     \/ /\ Len(batch[a][q]) = BatchSize /\ qlock[q] = Nobody
        /\ qlock' = [qlock EXCEPT ![q] = a]
        /\ batch' = [batch EXCEPT ![a][q] = <<>>]
        /\ Continue(a, Append(Entries("process", batch[a][q], q), Instr("finish", p, q)))
  /\ UNCHANGED <<queue, flags, list, cnt, plock, page, scan>>

(* vm_page_drain_pqbatch, on the CPU of a. *)
Drain(a, q) ==
  /\ code[a] = <<>> /\ qlock[q] = Nobody /\ batch[a][q] # <<>>
  /\ qlock' = [qlock EXCEPT ![q] = a]
  /\ batch' = [batch EXCEPT ![a][q] = <<>>]
  /\ code' = [code EXCEPT ![a] = Append(Entries("process", batch[a][q], q),
                                        Instr("unlock queue", "none", q))]
  /\ UNCHANGED <<queue, flags, list, cnt, plock, page, scan>>

(* The end of vm_pqbatch_submit_page: the page may have been dequeued      *)
(* before the queue lock was had.                                          *)
Finish(a) ==
  LET p == Next1(a).page
      q == Next1(a).queue IN
  /\ Does(a, "finish")
  /\ IF queue[p] = q
     THEN UNCHANGED flags /\ Continue(a, <<Instr("apply", p, q), Instr("unlock queue", p, q)>>)
     ELSE /\ flags' = [flags EXCEPT ![p] = {}]
          /\ Continue(a, <<Instr("unlock queue", p, q)>>)
  /\ UNCHANGED <<queue, list, cnt, batch, plock, qlock, page, scan>>

(* vm_pqbatch_process: the page has moved on since it was batched, or not. *)
Check(a) ==
  LET p == Next1(a).page
      q == Next1(a).queue IN
  /\ Does(a, "process")
  /\ Continue(a, IF queue[p] = q THEN <<Instr("apply", p, q)>> ELSE <<>>)
  /\ UNCHANGED <<queue, flags, list, cnt, batch, plock, qlock, page, scan>>

(* The assertion of vm_pqbatch_process_page holds: the page whose flags it *)
(* loads belongs to the queue, or has no queue state.                      *)
Asserted(a) ==
  /\ Does(a, "apply")
  /\ queue[Next1(a).page] = Next1(a).queue \/ flags[Next1(a).page] = {}

(* Mutant of Apply: the request is cleared first. *)
ApplyClearingFirst(a) ==
  LET p == Next1(a).page
      q == Next1(a).queue IN
  /\ Asserted(a)
  /\ IF flags[p] \cap {"dequeue", "requeue", "head"} = {}
     THEN Continue(a, <<>>) /\ UNCHANGED <<queue, flags, list, cnt>>
     ELSE IF "dequeue" \in flags[p]
     THEN Detach(p, q) /\ Continue(a, <<Instr("clear", p, q)>>) /\ UNCHANGED flags
     ELSE /\ list' = [Without(q, p) EXCEPT ![q] =
               IF "head" \in flags[p] THEN Before(@, Inacthead, p) ELSE Append(@, p)]
          /\ cnt' = [cnt EXCEPT ![q] = IF "enqueued" \in flags[p] THEN @ ELSE @ + 1]
          /\ flags' = [flags EXCEPT ![p] = @ \ {"requeue", "head"}]
          /\ Continue(a, <<Instr("settle", p, q)>>)
          /\ UNCHANGED queue
  /\ UNCHANGED <<batch, plock, qlock, page, scan>>

(* vm_pqbatch_process_page.  A page that has no list gets one before the   *)
(* request is cleared (Settle).                                            *)
Apply(a) ==
  LET p == Next1(a).page
      q == Next1(a).queue IN
  /\ Asserted(a)
  /\ IF flags[p] \cap {"dequeue", "requeue", "head"} = {}
     THEN Continue(a, <<>>) /\ UNCHANGED <<queue, flags, list, cnt>>
     ELSE IF "dequeue" \in flags[p]
     THEN Detach(p, q) /\ Continue(a, <<Instr("clear", p, q)>>) /\ UNCHANGED flags
     ELSE /\ list' = [Without(q, p) EXCEPT ![q] =
               IF "head" \in flags[p] THEN Before(@, Inacthead, p) ELSE Append(@, p)]
          /\ cnt' = [cnt EXCEPT ![q] = IF "enqueued" \in flags[p] THEN @ ELSE @ + 1]
          /\ flags' = [flags EXCEPT ![p] = @ \cup {"enqueued"}]
          /\ Continue(a, <<Instr("settle", p, q)>>)
          /\ UNCHANGED queue
  /\ UNCHANGED <<batch, plock, qlock, page, scan>>

(* The assertion fails: the page has left the queue since vm_pqbatch_process *)
(* looked, and has queue state.  A kernel with assertions stops here; one    *)
(* without would go on to move the page on a list it is not on.              *)
Fail(a) ==
  /\ Does(a, "apply") /\ ~ Asserted(a)
  /\ failed' = TRUE
  /\ UNCHANGED lists

Settle(a) ==
  /\ Does(a, "settle")
  /\ flags' = [flags EXCEPT ![Next1(a).page] = @ \ {"requeue", "head"}]
  /\ Continue(a, <<>>)
  /\ UNCHANGED <<queue, list, cnt, batch, plock, qlock, page, scan>>

(***************************************************************************)
(* The scan of the inactive queue                                          *)
(***************************************************************************)
Inactive == "inactive"

NoScan == [on |-> FALSE, queue |-> Inactive, batch |-> <<>>, stuck |-> <<>>, left |-> 0]

(* vm_pageout_init_scan *)
BeginScan(q) ==
  /\ ~ scan.on /\ code[Daemon] = <<>> /\ qlock[q] = Nobody
  /\ list' = [list EXCEPT ![q] = <<Marker>> \o @]
  /\ scan' = [on |-> TRUE, queue |-> q, batch |-> <<>>, stuck |-> <<>>, left |-> cnt[q]]
  /\ UNCHANGED <<queue, flags, cnt, batch, plock, qlock, page, code>>

(* vm_pageout_collect_batch: what follows the marker is looked at under    *)
(* the queue lock.                                                         *)
Collect ==
  LET q == scan.queue IN
  /\ scan.on /\ code[Daemon] = <<>> /\ scan.batch = <<>> /\ qlock[q] = Nobody
  /\ scan.left > 0 /\ Last(list[q]) # Marker
  /\ qlock' = [qlock EXCEPT ![q] = Daemon]
  /\ code' = [code EXCEPT ![Daemon] =
       <<Instr("collect", "none", q), Instr("unlock queue", "none", q)>>]
  /\ UNCHANGED <<queue, flags, list, cnt, batch, plock, page, scan>>

(* A page joins the batch, and leaves the list if it is an inactive one;   *)
(* other markers count as scanned.                                         *)
CollectOne ==
  LET q == Next1(Daemon).queue
      i == Place(list[q], Marker)
      m == list[q][i + 1]
      leaves == q = Inactive /\ m \in Page IN
  /\ Does(Daemon, "collect")
  /\ \/ /\ i = Len(list[q]) \/ scan.left = 0 \/ Len(scan.batch) = BatchSize
        /\ Continue(Daemon, <<>>)
        /\ UNCHANGED <<flags, list, cnt, scan>>
     \/ /\ i < Len(list[q]) /\ scan.left > 0 /\ Len(scan.batch) < BatchSize
        /\ list' = IF leaves THEN Without(q, m)
                   ELSE [list EXCEPT ![q][i] = m, ![q][i + 1] = Marker]
        /\ flags' = IF leaves THEN [flags EXCEPT ![m] = @ \ {"enqueued"}] ELSE flags
        /\ cnt' = IF leaves THEN [cnt EXCEPT ![q] = @ - 1] ELSE cnt
        /\ scan' = [scan EXCEPT !.batch = IF m \in Page THEN Append(@, m) ELSE @,
                                !.left = @ - 1]
        /\ UNCHANGED code
  /\ UNCHANGED <<queue, batch, plock, qlock, page>>

Look ==
  /\ scan.on /\ code[Daemon] = <<>> /\ scan.batch # <<>>
  /\ LET p == Head(scan.batch) IN
     code' = [code EXCEPT ![Daemon] = <<Instr("look", p, "none")>>]
  /\ scan' = [scan EXCEPT !.batch = Tail(@)]
  /\ UNCHANGED <<queue, flags, list, cnt, batch, plock, qlock, page>>

(* Mutant of Decide: requests made since the page was collected are not    *)
(* looked for.                                                             *)
DecideUnchecked ==
  LET p == Next1(Daemon).page
      then(s) == Continue(Daemon, Append(s, Instr("unlock", p, "none")))
      reinsert == <<Instr("reinsert", p, Inactive)>> IN
  /\ Does(Daemon, "look") /\ scan.queue = Inactive /\ plock[p] = Nobody
  /\ plock' = [plock EXCEPT ![p] = Daemon]
  /\ IF Logical(p) # Inactive THEN then(<<>>) /\ UNCHANGED <<queue, flags>>
     ELSE IF page[p] = "wired" THEN then(DequeueDeferred(p)) /\ UNCHANGED <<queue, flags>>
     ELSE \/ then(reinsert) /\ UNCHANGED <<queue, flags>>
          \/ /\ then(<<Instr("free", p, "none")>>) /\ UNCHANGED flags
             /\ queue' = [queue EXCEPT ![p] = "none"]
  /\ UNCHANGED <<list, cnt, batch, qlock, page, scan>>

(* The decision of vm_pageout_scan_inactive on a locked page: a held or    *)
(* busy one is stuck; a referenced one is reactivated, or requeued when    *)
(* its object has no references; a clean one is freed, a dirty one sent to *)
(* the laundry, or, when its object is dead, left to the thread that       *)
(* destroyed it.  When the daemon has to drop the page lock to get the     *)
(* object's, it looks again: the step is the last look.                    *)
Decide ==
  LET p == Next1(Daemon).page
      then(s) == Continue(Daemon, Append(s, Instr("unlock", p, "none")))
      reinsert == <<Instr("reinsert", p, Inactive)>> IN
  /\ Does(Daemon, "look") /\ scan.queue = Inactive /\ plock[p] = Nobody
  /\ plock' = [plock EXCEPT ![p] = Daemon]
  /\ IF Logical(p) # Inactive THEN then(<<>>) /\ UNCHANGED <<queue, flags>>
     ELSE IF flags[p] \cap {"enqueued", "requeue", "head"} # {}
     THEN then(reinsert) /\ UNCHANGED <<queue, flags>>
     ELSE \/ then(reinsert) /\ UNCHANGED <<queue, flags>>
          \/ /\ page[p] = "wired"
             /\ then(DequeueDeferred(p)) /\ UNCHANGED <<queue, flags>>
          \/ /\ page[p] # "wired"
             /\ then(<<Instr("free", p, "none")>>) /\ UNCHANGED flags
             /\ queue' = [queue EXCEPT ![p] = "none"]
          \/ page[p] = "dead" /\ then(<<>>) /\ UNCHANGED <<queue, flags>>
          \/ /\ page[p] \notin {"wired", "dead"}
             /\ \/ then(Activate(p)) /\ UNCHANGED <<queue, flags>>
                \/ Launders /\ then(Launder(p)) /\ UNCHANGED <<queue, flags>>
                \/ /\ then(reinsert) /\ UNCHANGED queue
                   /\ flags' = [flags EXCEPT ![p] = @ \cup {"requeue"}]
  /\ UNCHANGED <<list, cnt, batch, qlock, page, scan>>

(* The decision of vm_pageout_launder: a page that was requeued gets a     *)
(* second chance, a held or busy one stays where it is; a dirty one is     *)
(* cleaned, with the page lock dropped on the way, unless its object is    *)
(* dead.                                                                   *)
DecideLaundry ==
  LET p == Next1(Daemon).page
      then(s) == Continue(Daemon, Append(s, Instr("unlock", p, "none"))) IN
  /\ Does(Daemon, "look") /\ scan.queue = "laundry" /\ plock[p] = Nobody
  /\ plock' = [plock EXCEPT ![p] = Daemon]
  /\ IF Logical(p) # "laundry" THEN then(<<>>)
     ELSE IF "requeue" \in flags[p] THEN then(Requeue(p))
     ELSE \/ then(<<>>)
          \/ page[p] = "wired" /\ then(DequeueDeferred(p))
          \/ page[p] # "wired" /\ then(Free(p))
          \/ /\ page[p] \notin {"wired", "dead"}
             /\ \/ \E op \in {Activate(p), Requeue(p)} : then(op)
                \/ Continue(Daemon, <<Instr("unlock", p, "none"), Instr("clean", p, "none")>>)
  /\ UNCHANGED <<queue, flags, list, cnt, batch, qlock, page, scan>>

(* vm_pageout_clean looks at the page again, and whether the object still  *)
(* is the vnode's, as a dead one is not, and writes it without its lock;   *)
(* then vm_pageout_flush makes it inactive, if it still is in the laundry, *)
(* or active when the pager failed, or leaves it.  A page written counts   *)
(* as scanned, once more.                                                  *)
Clean ==
  LET p == Next1(Daemon).page
      then(s) == Continue(Daemon, s \o <<Instr("unlock", p, "none")>>)
      writes == <<Instr("unlock", p, "none"), Instr("paged", p, "none")>> IN
  /\ \/ Does(Daemon, "clean") \/ Does(Daemon, "paged")
  /\ plock[p] = Nobody
  /\ plock' = [plock EXCEPT ![p] = Daemon]
  /\ \/ then(<<>>) /\ UNCHANGED scan
     \/ /\ Does(Daemon, "clean") /\ Logical(p) = "laundry"
        /\ page[p] \notin {"wired", "dead"}
        /\ Continue(Daemon, writes) /\ UNCHANGED scan
     \/ /\ Does(Daemon, "paged")
        /\ then(IF Logical(p) = "laundry" THEN DeactivateNoreuse(p) ELSE <<>>)
        /\ scan' = [scan EXCEPT !.left = Max({0, @ - 1})]
     \/ Does(Daemon, "paged") /\ then(Activate(p)) /\ UNCHANGED scan
  /\ UNCHANGED <<queue, flags, list, cnt, batch, qlock, page>>

(* vm_pageout_reinsert_inactive_page, with the queue lock held *)
Put ==
  LET p == Next1(Daemon).page
      s == list[Inactive] IN
  /\ Does(Daemon, "put")
  /\ IF queue[p] # Inactive \/ "enqueued" \in flags[p] THEN UNCHANGED <<flags, list, cnt>>
     ELSE /\ list' = [list EXCEPT ![Inactive] =
               IF "head" \in flags[p] THEN Before(s, Inacthead, p)
               ELSE IF "requeue" \in flags[p] THEN Append(s, p)
               ELSE Before(s, Marker, p)]
          /\ cnt' = [cnt EXCEPT ![Inactive] = @ + 1]
          /\ flags' = [flags EXCEPT ![p] = (@ \ {"requeue", "head"}) \cup {"enqueued"}]
  /\ Continue(Daemon, <<>>)
  /\ UNCHANGED <<queue, batch, plock, qlock, page, scan>>

(* vm_pageout_reinsert_inactive: a page that is stuck waits in a batch,    *)
(* unless that is full; at the end of the scan the stuck pages go back,    *)
(* and those that were not looked at.                                      *)
Reinsert ==
  LET p == Next1(Daemon).page
      puts(s) == s \o <<Instr("unlock queue", "none", Inactive)>> IN
  /\ \/ /\ Does(Daemon, "reinsert") /\ Len(scan.stuck) < BatchSize
        /\ Continue(Daemon, <<>>)
        /\ scan' = [scan EXCEPT !.stuck = Append(@, p)]
        /\ UNCHANGED qlock
     \/ /\ qlock[Inactive] = Nobody /\ qlock' = [qlock EXCEPT ![Inactive] = Daemon]
        /\ \/ /\ Does(Daemon, "reinsert") /\ Len(scan.stuck) = BatchSize
              /\ Continue(Daemon, puts(Entries("put", <<p>> \o scan.stuck, Inactive)))
              /\ scan' = [scan EXCEPT !.stuck = <<>>]
           \/ /\ Does(Daemon, "stuck")
              /\ Continue(Daemon, puts(Entries("put", scan.stuck, Inactive)))
              /\ scan' = [scan EXCEPT !.stuck = <<>>]
           \/ /\ Does(Daemon, "rest")
              /\ Continue(Daemon, puts(Entries("put", scan.batch, Inactive)))
              /\ scan' = [scan EXCEPT !.batch = <<>>]
  /\ UNCHANGED <<queue, flags, list, cnt, batch, plock, page>>

(* The target is met, or nothing is left to scan: stuck pages go back, and *)
(* those that were not looked at.  Pages of the laundry have not left it.  *)
StopScan ==
  /\ scan.on /\ code[Daemon] = <<>>
  /\ code' = [code EXCEPT ![Daemon] =
       (IF scan.queue = Inactive
        THEN <<Instr("stuck", "none", Inactive), Instr("rest", "none", Inactive)>>
        ELSE <<>>) \o <<Instr("end scan", "none", scan.queue)>>]
  /\ UNCHANGED <<queue, flags, list, cnt, batch, plock, qlock, page, scan>>

(* vm_pageout_end_scan *)
EndScan ==
  /\ Does(Daemon, "end scan") /\ qlock[scan.queue] = Nobody
  /\ list' = Without(scan.queue, Marker)
  /\ scan' = NoScan
  /\ Continue(Daemon, <<>>)
  /\ UNCHANGED <<queue, flags, cnt, batch, plock, qlock, page>>

Init ==
  /\ queue = [p \in Page |-> "none"]
  /\ flags = [p \in Page |-> {}]
  /\ list = [q \in Queue |-> IF q = Inactive THEN <<Inacthead>> ELSE <<>>]
  /\ cnt = [q \in Queue |-> 0]
  /\ batch = [a \in Actor |-> [q \in Queue |-> <<>>]]
  /\ plock = [p \in Page |-> Nobody]
  /\ qlock = [q \in Queue |-> Nobody]
  /\ page = [p \in Page |-> "free"]
  /\ code = [a \in Actor |-> <<>>]
  /\ scan = NoScan
  /\ failed = FALSE

Executes(a) ==
  \/ Use(a) \/ UnlockPage(a) \/ UnlockQueue(a) \/ Mark(a)
  \/ Defer(a) \/ DequeueNow(a) \/ Clear(a) \/ Submit(a) \/ Finish(a)
  \/ Check(a) \/ Apply(a) \/ Settle(a)

Scans ==
  \/ \E q \in Queue \ {"active"} : BeginScan(q)
  \/ Collect \/ CollectOne \/ Look \/ Decide \/ DecideLaundry \/ Clean \/ Reinsert
  \/ Put \/ StopScan \/ EndScan

Works ==
  \/ \E t \in Thread, p \in Page : Begin(t, p) \/ Alloc(t, p)
  \/ \E p \in Page : Destroy(p)
  \/ \E a \in Actor : Executes(a)
  \/ \E t \in Thread, q \in Queue : Drain(t, q)
  \/ Scans

Next == ~ failed /\ ((Works /\ UNCHANGED failed) \/ \E a \in Actor : Fail(a))

Spec == Init /\ [][Next]_vars

(***************************************************************************)
(* Properties                                                              *)
(***************************************************************************)
(* While nobody holds a queue's lock, its list holds exactly the pages     *)
(* whose field and flag say so, once each, and pq_cnt counts them: no      *)
(* interleaving of batches, dequeues and scans leaves a page on two lists  *)
(* or a list with a page that has moved on.                                *)
ListsAgree ==
  \A q \in Queue : qlock[q] = Nobody =>
    /\ Members(q) = {p \in Page : queue[p] = q /\ "enqueued" \in flags[p]}
    /\ cnt[q] = Cardinality(Members(q))
    /\ IsInjective(list[q])

Handled(p) ==
  \/ \E a \in Actor : \/ \E q \in Queue : Contains(batch[a][q], p)
                      \/ \E i \in DOMAIN code[a] : code[a][i].page = p
  \/ scan.queue = Inactive /\ Contains(scan.batch, p)
  \/ Contains(scan.stuck, p)

(* A page that belongs to a queue is on its list, or somebody has yet to   *)
(* put it there, and a request is pending only as long as somebody has yet *)
(* to look at it: no page drops out of the page daemon's sight, but those  *)
(* of dead objects, which the thread that destroyed the object frees.      *)
NoPageStranded ==
  \A p \in Page :
    /\ Logical(p) # "none" /\ page[p] # "dead" => "enqueued" \in flags[p] \/ Handled(p)
    /\ flags[p] \cap {"requeue", "head", "dequeue"} # {} => Handled(p)

(* "Once this check is performed, the page lock guarantees that the page   *)
(* will not be disassociated from the queue": where a page belongs changes *)
(* by the hand of whoever holds its lock, or is allocating it.             *)
MembershipKept ==
  \A p \in Page : Logical(p)' # Logical(p) =>
    plock[p] # Nobody \/ plock'[p] # Nobody \/ page[p] \in {"free", "taking"}

(* The assertion of vm_pqbatch_process_page: when the flags of a page are  *)
(* read, the page belongs to the locked queue or has no queue state.       *)
RightQueue ==
  \A a \in Actor : Does(a, "apply") =>
    queue[Next1(a).page] = Next1(a).queue \/ flags[Next1(a).page] = {}
=============================================================================
