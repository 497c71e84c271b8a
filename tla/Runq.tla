-------------------------------- MODULE Runq --------------------------------
(***************************************************************************)
(* The run queue of the kernel: an array of NQS lists of threads with a    *)
(* bit map of the lists that hold something (kern_switch_FIFO.c and        *)
(* kern_switch_pq.c).  The two files differ only in where a thread enters  *)
(* its list; Discipline says which of them is linked.  The operators are   *)
(* pure: a state machine keeps a run queue as a value and replaces it.     *)
(***************************************************************************)
EXTENDS Integers, SequencesExt

CONSTANTS
  Thread,      \* the threads of the system
  NoThread,    \* the NULL thread pointer
  NQS,         \* RQ_NQS, lists in a run queue (64)
  PPQ,         \* RQ_PPQ, priorities that share a list (4)
  Discipline,  \* "FIFO": kern_switch_FIFO.c, "PQ": kern_switch_pq.c
  SortFrom,    \* the three bounds of the test in kern_switch_pq.c:388, which
  SortBelow,   \* the code applies to the index of the list:
  SortAbove    \* index > 47 and < 80, or > 119

ASSUME RunqAssumption ==
  /\ NoThread \notin Thread
  /\ NQS \in Nat \ {0}
  /\ PPQ \in Nat \ {0}
  /\ Discipline \in {"FIFO", "PQ"}
  /\ SortFrom \in Int /\ SortBelow \in Int /\ SortAbove \in Int

Idx == 0 .. NQS - 1

(* rq_queues and rq_status: bits holds the indexes whose status bit is set. *)
RunqType == [queues : [Idx -> Seq(Thread)], bits : SUBSET Idx]

EmptyRunq == [queues |-> [i \in Idx |-> <<>>], bits |-> {}]

(***************************************************************************)
(* The lists the modified runq_add and runq_add_pri keep sorted.           *)
(***************************************************************************)
SortedList(i) ==
  /\ Discipline = "PQ"
  /\ \/ SortFrom < i /\ i < SortBelow
     \/ SortAbove < i

(* The positions of list whose thread has a worse priority than prio[t]. *)
Worse(list, t, prio) == {k \in DOMAIN list : prio[list[k]] > prio[t]}

(* Mutant of SortedInsert: before the last thread with a worse priority. *)
SortedInsertLate(list, t, prio) ==
  IF Worse(list, t, prio) = {}
  THEN Append(list, t)
  ELSE InsertAt(list, Max(Worse(list, t, prio)), t)

(* Before the first thread with a worse priority, at the tail if none has. *)
SortedInsert(list, t, prio) ==
  IF Worse(list, t, prio) = {}
  THEN Append(list, t)
  ELSE InsertAt(list, Min(Worse(list, t, prio)), t)

ListInsert(list, i, t, flags, prio) ==
  IF SortedList(i) THEN SortedInsert(list, t, prio)
  ELSE IF "PREEMPTED" \in flags THEN <<t>> \o list
  ELSE Append(list, t)

RunqAddPri(rq, t, i, flags, prio) ==
  [queues |-> [rq.queues EXCEPT ![i] = ListInsert(@, i, t, flags, prio)],
   bits   |-> rq.bits \cup {i}]

(* TAILQ_REMOVE; a thread is only ever removed from the list it is on. *)
ListRemove(list, t) ==
  IF \E k \in DOMAIN list : list[k] = t
  THEN RemoveAt(list, CHOOSE k \in DOMAIN list : list[k] = t)
  ELSE list

RunqRemove(rq, t, i) ==
  LET rest == ListRemove(rq.queues[i], t) IN
  [queues |-> [rq.queues EXCEPT ![i] = rest],
   bits   |-> IF rest = <<>> THEN rq.bits \ {i} ELSE rq.bits]

(* Mutant of RemoveIdx: the index is not taken around the calendar. *)
RemoveIdxUnwrapped(rq, t, i, ridx) ==
  IF ListRemove(rq.queues[i], t) = <<>> /\ ridx = i THEN i + 1 ELSE ridx

(* What runq_remove_idx leaves in the removal index it is handed. *)
RemoveIdx(rq, t, i, ridx) ==
  IF ListRemove(rq.queues[i], t) = <<>> /\ ridx = i
  THEN (i + 1) % NQS
  ELSE ridx

(***************************************************************************)
(* The scans.  runq_findbit_from starts at a given index and wraps once.   *)
(***************************************************************************)
Findbit(rq) == Min(rq.bits)

FindbitFrom(rq, start) ==
  LET ahead == {i \in rq.bits : i >= start} IN
  IF ahead # {} THEN Min(ahead) ELSE Min(rq.bits)

RunqChoose(rq) ==
  IF rq.bits = {} THEN NoThread ELSE Head(rq.queues[Findbit(rq)])

RunqChooseFrom(rq, start) ==
  IF rq.bits = {} THEN NoThread ELSE Head(rq.queues[FindbitFrom(rq, start)])

(***************************************************************************)
(* Stealing.  may is the set of threads the thief may take; the lists of   *)
(* slots are visited in index order, each from head to tail.               *)
(***************************************************************************)
FirstIn(list, may) == list[Min({k \in DOMAIN list : list[k] \in may})]

StealIn(rq, slots, may) ==
  LET hits == {i \in slots : \E k \in DOMAIN rq.queues[i] :
                               rq.queues[i][k] \in may}
  IN IF hits = {} THEN NoThread ELSE FirstIn(rq.queues[Min(hits)], may)

RunqSteal(rq, may) == StealIn(rq, rq.bits, may)

(* The scan passes over the very first thread it meets, scans again from 0 *)
(* if it began elsewhere, and as a last resort takes the last thread it    *)
(* met.  The second scan passes over nothing unless the first met nothing. *)
RunqStealFrom(rq, may, start) ==
  LET ahead  == {i \in rq.bits : i >= start}
      others == may \ {RunqChooseFrom(rq, start)}
      first  == StealIn(rq, ahead, others)
      second == IF start = 0 THEN NoThread
                ELSE StealIn(rq, rq.bits, IF ahead = {} THEN others ELSE may)
      resort == IF rq.bits = {} THEN NoThread ELSE Last(rq.queues[Max(rq.bits)])
  IN IF first # NoThread THEN first
     ELSE IF second # NoThread THEN second
     ELSE IF resort \in may THEN resort
     ELSE NoThread
=============================================================================
