----------------------------- MODULE UleProofs ------------------------------
(***************************************************************************)
(* The scheduler, for every number of CPUs, threads, lists and priorities. *)
(* First its types: what a function of the scheduler is handed and gives   *)
(* back is a value of SysType, in which every thread queue is sound.  Then *)
(* its safety invariants, from one inductive invariant, Safe: each list    *)
(* holds the threads whose records name it, in order if it is to be        *)
(* sorted; the counters of every CPU are right but for the thread a hand-  *)
(* over has in its hands; and each thread that runs is the current thread  *)
(* of one CPU.  Inside a critical section that is not so: the lemmas name  *)
(* the intermediate states (Vacant, a CPU that has to choose a thread;     *)
(* Nearly, a CPU whose current thread's record may already name another)   *)
(* and each function's step between them. Last its action properties:      *)
(* which threads a step moves and dispatches, and whom it asks to give     *)
(* way.  They need one more invariant, Homed, and a function of the        *)
(* scheduler is described by what it does not do (Stays, Plain, Quiet).    *)
(***************************************************************************)
EXTENDS Ule, WellFoundedInduction, SequenceTheorems, FiniteSetTheorems, TLAPS

(***************************************************************************)
(* Runq and Tdq: for every number of lists, every set of threads and every *)
(* priority range, the insertions and the removals keep the status bits    *)
(* exact and the calendar in step, and the scans return a thread that is   *)
(* there                                                                   *)
(***************************************************************************)
(* The least element of a set of natural numbers is one of them: the scans *)
(* of the bit map (runq_findbit, runq_findbit_from) return a set bit.      *)
LEMMA MinIn ==
  ASSUME NEW S \in SUBSET Nat, S # {}
  PROVE  Min(S) \in S /\ \A y \in S : Min(S) <= y
<1> DEFINE R == {p \in Nat \X Nat : p[1] < p[2]}
<1>1. IsWellFoundedOn(R, Nat)
  BY NatLessThanWellFounded, Zenon DEF OpToRel
<1>2. PICK x \in S : \A y \in S : <<y, x>> \notin R
  <2> HIDE DEF R
  <2> QED
    BY <1>1, WFMin
<1>3. \A y \in S : x =< y
  <2> TAKE y \in S
  <2>1. <<y, x>> \in Nat \X Nat /\ ~ y < x
    BY <1>2
  <2> QED
    BY <2>1
<1> QED
  BY <1>3 DEF Min

(* Both ways a thread enters a list give a list of threads, never an empty *)
(* one (TAILQ_INSERT_HEAD, TAILQ_INSERT_BEFORE, TAILQ_INSERT_TAIL).        *)
LEMMA InsertAtType ==
  ASSUME NEW list \in Seq(Thread), NEW k \in 1 .. Len(list), NEW t \in Thread
  PROVE  InsertAt(list, k, t) \in Seq(Thread) \ {<<>>}
<1> DEFINE left  == SubSeq(list, 1, k - 1)
           right == SubSeq(list, k, Len(list))
<1>1. Len(list) \in Nat /\ \A j \in 1 .. Len(list) : list[j] \in Thread
  BY LenProperties, ElementOfSeq
<1>2. left \in Seq(Thread) /\ right \in Seq(Thread)
  <2>1. left \in Seq(Thread)
    BY <1>1, SubSeqProperties
  <2>2. right \in Seq(Thread)
    BY <1>1, SubSeqProperties
  <2> QED
    BY <2>1, <2>2
<1>3. /\ <<t>> \in Seq(Thread) /\ Len(<<t>>) = 1
  OBVIOUS
<1> HIDE DEF left, right
<1>4. /\ left \o <<t>> \in Seq(Thread)
      /\ Len(left \o <<t>>) = Len(left) + 1
  BY <1>2, <1>3, ConcatProperties
<1>5. /\ (left \o <<t>>) \o right \in Seq(Thread)
      /\ Len((left \o <<t>>) \o right) = Len(left) + 1 + Len(right)
  BY <1>2, <1>4, ConcatProperties
<1>6. Len((left \o <<t>>) \o right) # 0
  BY <1>2, <1>5, LenProperties
<1>7. (left \o <<t>>) \o right # <<>>
  BY <1>6, EmptySeq
<1> QED
  BY <1>5, <1>7 DEF InsertAt, left, right

(* Removing a thread from a list leaves a list of threads. *)
LEMMA ListRemoveType ==
  ASSUME NEW list \in Seq(Thread), NEW t
  PROVE  ListRemove(list, t) \in Seq(Thread)
<1>1. CASE ~ \E k \in DOMAIN list : list[k] = t
  BY <1>1 DEF ListRemove
<1>2. CASE \E k \in DOMAIN list : list[k] = t
  <2> DEFINE k == CHOOSE j \in DOMAIN list : list[j] = t
  <2>1. Len(list) \in Nat /\ DOMAIN list = 1 .. Len(list)
    BY LenProperties
  <2>2. \A j \in 1 .. Len(list) : list[j] \in Thread
    BY ElementOfSeq
  <2>3. k \in 1 .. Len(list)
    BY <1>2, <2>1
  <2> HIDE DEF k
  <2>4. SubSeq(list, 1, k - 1) \in Seq(Thread)
    BY <2>1, <2>2, <2>3, SubSeqProperties
  <2>5. SubSeq(list, k + 1, Len(list)) \in Seq(Thread)
    BY <2>1, <2>2, <2>3, SubSeqProperties
  <2>6. RemoveAt(list, k) \in Seq(Thread)
    BY <2>4, <2>5, ConcatProperties DEF RemoveAt
  <2> QED
    BY <1>2, <2>6 DEF ListRemove, k
<1> QED
  BY <1>1, <1>2

(* runq_add and runq_add_pri: whatever the discipline, the list a thread   *)
(* enters is a list of threads and is not empty afterwards.                *)
LEMMA ListInsertType ==
  ASSUME NEW list \in Seq(Thread), NEW i, NEW t \in Thread, NEW flags, NEW prio
  PROVE  ListInsert(list, i, t, flags, prio) \in Seq(Thread) \ {<<>>}
<1>1. Append(list, t) \in Seq(Thread) \ {<<>>}
  BY AppendProperties
<1>2. <<t>> \o list \in Seq(Thread) \ {<<>>}
  <2>1. <<t>> \in Seq(Thread) /\ <<t>> # <<>>
    OBVIOUS
  <2>2. <<t>> \o list \in Seq(Thread)
    BY <2>1, ConcatProperties
  <2>3. <<t>> \o list # <<>>
    BY <2>1, ConcatEqualIffEmpty
  <2> QED
    BY <2>2, <2>3
<1>3. ASSUME Worse(list, t, prio) # {}
      PROVE  InsertAt(list, Min(Worse(list, t, prio)), t) \in Seq(Thread) \ {<<>>}
  <2>1. Worse(list, t, prio) \subseteq 1 .. Len(list) /\ Len(list) \in Nat
    BY LenProperties DEF Worse
  <2>2. Min(Worse(list, t, prio)) \in Worse(list, t, prio)
    BY <1>3, <2>1, MinIn
  <2> QED
    BY <2>1, <2>2, InsertAtType
<1> QED
  BY <1>1, <1>2, <1>3 DEF ListInsert, SortedInsert

(* A run queue whose status bits are exact. *)
GoodRunq == {rq \in RunqType : rq.bits = {i \in Idx : rq.queues[i] # <<>>}}

(* A thread queue as the operations find and leave it. *)
GoodTdq == {q \in TdqType : BitsExact(q) /\ Calendar(q)}

(* Each of the three run queues of a sound thread queue is sound (struct     *)
(* tdq).                                                                     *)
LEMMA GoodParts ==
  ASSUME NEW q \in GoodTdq, NEW r \in RunqName
  PROVE  q.rq[r] \in GoodRunq
BY DEF GoodTdq, GoodRunq, TdqType, BitsExact

(* runq_add_pri sets the bit of the list it puts the thread on. *)
LEMMA RunqAddGood ==
  ASSUME NEW rq \in GoodRunq, NEW i \in Idx, NEW t \in Thread, NEW flags, NEW prio
  PROVE  /\ RunqAddPri(rq, t, i, flags, prio) \in GoodRunq
         /\ \A j \in Idx : rq.queues[j] # <<>>
              => RunqAddPri(rq, t, i, flags, prio).queues[j] # <<>>
<1> DEFINE list == ListInsert(rq.queues[i], i, t, flags, prio)
           new  == RunqAddPri(rq, t, i, flags, prio)
<1>1. rq \in RunqType /\ rq.bits = {j \in Idx : rq.queues[j] # <<>>}
  BY DEF GoodRunq
<1>2. list \in Seq(Thread) /\ list # <<>>
  BY <1>1, ListInsertType DEF RunqType
<1>3. new = [queues |-> [rq.queues EXCEPT ![i] = list], bits |-> rq.bits \cup {i}]
  BY DEF RunqAddPri
<1> HIDE DEF list, new
<1>4. new \in RunqType
  BY <1>1, <1>2, <1>3 DEF RunqType
<1>5. \A j \in Idx : new.queues[j] = IF j = i THEN list ELSE rq.queues[j]
  BY <1>1, <1>3 DEF RunqType
<1>6. new.bits = {j \in Idx : new.queues[j] # <<>>}
  BY <1>1, <1>2, <1>3, <1>5
<1> QED
  BY <1>2, <1>4, <1>5, <1>6 DEF GoodRunq, new

(* runq_remove_idx clears the bit of the list it empties. *)
LEMMA RunqRemoveGood ==
  ASSUME NEW rq \in GoodRunq, NEW i \in Idx, NEW t
  PROVE  /\ RunqRemove(rq, t, i) \in GoodRunq
         /\ \A j \in Idx : RunqRemove(rq, t, i).queues[j]
                          = IF j = i THEN ListRemove(rq.queues[i], t)
                                     ELSE rq.queues[j]
<1> DEFINE rest == ListRemove(rq.queues[i], t)
           new  == RunqRemove(rq, t, i)
<1>1. rq \in RunqType /\ rq.bits = {j \in Idx : rq.queues[j] # <<>>}
  BY DEF GoodRunq
<1>2. rest \in Seq(Thread)
  BY <1>1, ListRemoveType DEF RunqType
<1>3. new = [queues |-> [rq.queues EXCEPT ![i] = rest],
             bits   |-> IF rest = <<>> THEN rq.bits \ {i} ELSE rq.bits]
  BY DEF RunqRemove
<1>4. rq.queues[i] = <<>> => rest = <<>>
  BY DEF ListRemove
<1> HIDE DEF rest, new
<1>5. new \in RunqType
  BY <1>1, <1>2, <1>3 DEF RunqType
<1>6. \A j \in Idx : new.queues[j] = IF j = i THEN rest ELSE rq.queues[j]
  BY <1>1, <1>3 DEF RunqType
<1>7. new.bits = {j \in Idx : new.queues[j] # <<>>}
  BY <1>1, <1>3, <1>4, <1>6
<1> QED
  BY <1>5, <1>6, <1>7 DEF GoodRunq, new, rest

(* Indexes taken modulo RQ_NQS are indexes. *)
LEMMA ModIdx ==
  ASSUME NEW n \in Int
  PROVE  n % NQS \in Idx
BY RunqAssumption DEF Idx

(* Dividing a bounded priority by RQ_PPQ gives a list index. *)
LEMMA DivBound ==
  ASSUME NEW a \in Nat, NEW b \in Nat \ {0}, NEW n \in Nat, a < n * b
  PROVE  a \div b \in Nat /\ a \div b < n
OBVIOUS

(* tdq_runq_add addresses a list the run queue has, whatever the priority. *)
LEMMA SlotOfIdx ==
  ASSUME NEW q \in TdqType, NEW p \in Pri, NEW flags
  PROVE  SlotOf(q, p, flags) \in Idx
<1>1. ASSUME RunqOf(p) = "timeshare"
      PROVE  CalendarSlot(q, p, flags) \in Idx
  <2> DEFINE d == (NQS * (p - MinBatch)) \div BatchRange
             slot == (d + q.idx) % NQS
  <2>1. p \in Int /\ q.idx \in Idx /\ q.ridx \in Idx /\ Idx \subseteq Int /\ q.idx \in Int
    BY TdqAssumption DEF Pri, TdqType, Idx
  <2>2. BatchRange \in Nat \ {0}
    BY TdqAssumption DEF BatchRange
  <2>3. NQS * (p - MinBatch) \in Int
    BY <2>1, RunqAssumption, TdqAssumption
  <2>4. d \in Int
    <3> DEFINE n == NQS * (p - MinBatch)
    <3> HIDE DEF n
    <3> QED
      BY <2>2, <2>3 DEF n
  <2> HIDE DEF d
  <2>5. slot \in Idx
    <3>1. d + q.idx \in Int
      BY <2>1, <2>4
    <3> QED
      BY <3>1, ModIdx
  <2>6. (slot - 1) % NQS \in Idx
    <3> HIDE DEF slot
    <3>1. slot - 1 \in Int
      BY <2>1, <2>5
    <3> QED
      BY <3>1, ModIdx
  <2> QED
    BY <2>1, <2>5, <2>6 DEF CalendarSlot, d
<1>2. p \div PPQ \in Idx
  <2>1. PPQ \in Nat \ {0} /\ NQS \in Nat /\ p \in Nat /\ p < NQS * PPQ
    BY RunqAssumption, TdqAssumption DEF Pri
  <2>2. p \div PPQ \in Nat /\ p \div PPQ < NQS
    BY <2>1, DivBound
  <2> QED
    BY <2>1, <2>2 DEF Idx
<1> QED
  BY <1>1, <1>2 DEF SlotOf


(***************************************************************************)
(* The thread queue.                                                       *)
(***************************************************************************)
(* Replacing fields of a thread queue by values of their types keeps its     *)
(* type.                                                                     *)
LEMMA TdqUpdate ==
  ASSUME NEW q \in TdqType, NEW rq \in [RunqName -> RunqType], NEW ridx \in Idx,
         NEW n \in Int
  PROVE  [q EXCEPT !.rq = rq, !.ridx = ridx, !.transferable = n] \in TdqType
BY DEF TdqType

(* tdq_runq_add keeps the status bits exact and the calendar in step.      *)
LEMMA EnqueueGood ==
  ASSUME NEW q \in GoodTdq, NEW t \in Thread, NEW flags,
         NEW prio \in [Thread -> Pri], NEW movable \in BOOLEAN
  PROVE  Enqueue(q, t, flags, prio, movable) \in GoodTdq
<1> DEFINE r    == RunqOf(prio[t])
           i    == SlotOf(q, prio[t], flags)
           part == RunqAddPri(q.rq[r], t, i, flags, prio)
           add  == IF movable THEN 1 ELSE 0
           new  == Enqueue(q, t, flags, prio, movable)
<1>1. q \in TdqType /\ BitsExact(q) /\ Calendar(q)
  BY DEF GoodTdq
<1>2. r \in RunqName
  BY DEF RunqOf, RunqName
<1>3. i \in Idx
  BY <1>1, SlotOfIdx
<1>4. add \in Int
  OBVIOUS
<1>5. new = [q EXCEPT !.rq[r] = part,
                      !.transferable = q.transferable + add]
  BY DEF Enqueue
<1> HIDE DEF r, i, add, new
<1>6. /\ part \in GoodRunq
      /\ \A j \in Idx : q.rq[r].queues[j] # <<>> => part.queues[j] # <<>>
  BY <1>2, <1>3, GoodParts, RunqAddGood
<1> HIDE DEF part
<1>7. new \in TdqType
  <2>1. [q.rq EXCEPT ![r] = part] \in [RunqName -> RunqType]
    BY <1>1, <1>2, <1>6 DEF TdqType, GoodRunq
  <2>2. q.transferable + add \in Int
    BY <1>1, <1>4 DEF TdqType
  <2> QED
    BY <1>1, <1>5, <2>1, <2>2 DEF TdqType
<1>8. \A x \in RunqName : new.rq[x] = IF x = r THEN part ELSE q.rq[x]
  BY <1>1, <1>2, <1>5 DEF TdqType
<1>9. BitsExact(new)
  BY <1>1, <1>6, <1>8 DEF BitsExact, GoodRunq
<1>10. new.idx = q.idx /\ new.ridx = q.ridx /\ q.ridx \in Idx
  BY <1>1, <1>5 DEF TdqType
<1>11. Calendar(new)
  BY <1>1, <1>6, <1>8, <1>10 DEF Calendar, RunqName
<1> QED
  BY <1>7, <1>9, <1>11 DEF GoodTdq, new

(* tdq_runq_rem: the removal index leaves a list only when the removal     *)
(* empties it, and then catches up with the insert index.                  *)
LEMMA DequeueGood ==
  ASSUME NEW q \in GoodTdq, NEW t, NEW r \in RunqName \cup {"none"},
         NEW i \in Idx, NEW xferable \in BOOLEAN
  PROVE  Dequeue(q, t, r, i, xferable) \in GoodTdq
<1> DEFINE part == RunqRemove(q.rq[r], t, i)
           ridx == IF r = "timeshare" /\ q.idx # q.ridx
                   THEN RemoveIdx(q.rq[r], t, i, q.ridx) ELSE q.ridx
           sub  == IF xferable THEN 1 ELSE 0
           new  == Dequeue(q, t, r, i, xferable)
<1>1. q \in TdqType /\ BitsExact(q) /\ Calendar(q)
  BY DEF GoodTdq
<1>2. sub \in Int
  OBVIOUS
<1>3. new = [q EXCEPT !.rq[r] = part, !.ridx = ridx,
                      !.transferable = q.transferable - sub]
  BY DEF Dequeue
<1>4. q.ridx \in Idx /\ q.idx \in Idx
  BY <1>1 DEF TdqType
<1>5. (i + 1) % NQS \in Idx
  BY ModIdx DEF Idx
<1>6. ridx \in Idx
  BY <1>4, <1>5 DEF RemoveIdx
<1>7. CASE r = "none"
  <2>1. q.rq \in [RunqName -> RunqType] /\ r \notin RunqName
    BY <1>1, <1>7 DEF TdqType, RunqName
  <2>2. [q.rq EXCEPT ![r] = part] = q.rq
    BY <2>1
  <2>3. ridx = q.ridx
    BY <1>7
  <2> HIDE DEF new, part, ridx, sub
  <2>4. /\ new \in TdqType
        /\ new.rq = q.rq /\ new.idx = q.idx /\ new.ridx = q.ridx
    <3>1. q.transferable - sub \in Int
      BY <1>1, <1>2 DEF TdqType
    <3> QED
      BY <1>1, <1>3, <2>2, <2>3, <3>1 DEF TdqType
  <2>5. BitsExact(new) /\ Calendar(new)
    BY <1>1, <2>4 DEF BitsExact, Calendar
  <2> QED
    BY <2>4, <2>5 DEF GoodTdq, new
<1>8. CASE r \in RunqName
  <2>1. /\ part \in GoodRunq
        /\ \A j \in Idx : part.queues[j] = IF j = i THEN ListRemove(q.rq[r].queues[i], t)
                                            ELSE q.rq[r].queues[j]
    BY <1>8, GoodParts, RunqRemoveGood
  <2>2. \/ ridx = q.ridx /\ (q.idx # q.ridx /\ r = "timeshare" =>
                               part.queues[q.ridx] # <<>>
                               \/ q.rq[r].queues[q.ridx] = <<>>)
        \/ q.idx # q.ridx /\ ridx = (q.ridx + 1) % NQS
    BY <1>4, <2>1 DEF RemoveIdx
  <2> HIDE DEF new, part, ridx, sub
  <2>3. new \in TdqType
    <3>1. q.transferable - sub \in Int
      BY <1>1, <1>2 DEF TdqType
    <3>2. [q.rq EXCEPT ![r] = part] \in [RunqName -> RunqType]
      BY <1>1, <1>8, <2>1 DEF TdqType, GoodRunq
    <3> QED
      BY <1>1, <1>3, <1>6, <3>1, <3>2, TdqUpdate
  <2>4. \A x \in RunqName : new.rq[x] = IF x = r THEN part ELSE q.rq[x]
    BY <1>1, <1>3, <1>8 DEF TdqType
  <2>5. BitsExact(new)
    BY <1>1, <2>1, <2>4 DEF BitsExact, GoodRunq
  <2>6. new.idx = q.idx /\ new.ridx = ridx
    BY <1>1, <1>3 DEF TdqType
  <2>7. Calendar(new)
    BY <1>1, <2>2, <2>4, <2>6 DEF Calendar, RunqName
  <2> QED
    BY <2>3, <2>5, <2>7 DEF GoodTdq, new
<1> QED
  BY <1>7, <1>8


(* The counters and tdq_lowpri say nothing about the lists. *)
LEMMA CountersGood ==
  ASSUME NEW q \in GoodTdq
  PROVE  /\ \A n \in Int : [q EXCEPT !.load = n] \in GoodTdq
         /\ \A p \in Pri : [q EXCEPT !.lowpri = p] \in GoodTdq
         /\ \A b \in BOOLEAN : [q EXCEPT !.ipipending = b] \in GoodTdq
         /\ q.load \in Int /\ q.lowpri \in Pri
<1>1. q \in TdqType /\ BitsExact(q) /\ Calendar(q)
  BY DEF GoodTdq
<1>2. ASSUME NEW n \in Int
      PROVE  [q EXCEPT !.load = n] \in GoodTdq
  <2> DEFINE new == [q EXCEPT !.load = n]
  <2>1. new \in TdqType /\ new.rq = q.rq /\ new.idx = q.idx /\ new.ridx = q.ridx
    BY <1>1 DEF TdqType
  <2> QED
    BY <1>1, <2>1, ZenonT(60) DEF GoodTdq, BitsExact, Calendar
<1>3. ASSUME NEW p \in Pri
      PROVE  [q EXCEPT !.lowpri = p] \in GoodTdq
  <2> DEFINE new == [q EXCEPT !.lowpri = p]
  <2>1. new \in TdqType /\ new.rq = q.rq /\ new.idx = q.idx /\ new.ridx = q.ridx
    BY <1>1 DEF TdqType
  <2> QED
    BY <1>1, <2>1, ZenonT(60) DEF GoodTdq, BitsExact, Calendar
<1>4. ASSUME NEW b \in BOOLEAN
      PROVE  [q EXCEPT !.ipipending = b] \in GoodTdq
  <2> DEFINE new == [q EXCEPT !.ipipending = b]
  <2>1. new \in TdqType /\ new.rq = q.rq /\ new.idx = q.idx /\ new.ridx = q.ridx
    BY <1>1 DEF TdqType
  <2> QED
    BY <1>1, <2>1, ZenonT(60) DEF GoodTdq, BitsExact, Calendar
<1> QED
  BY <1>1, <1>2, <1>3, <1>4 DEF TdqType

(* sched_clock turns the calendar by one list, and leaves the removal      *)
(* index behind only where there is something to drain.                    *)
LEMMA AdvanceGood ==
  ASSUME NEW q \in GoodTdq
  PROVE  AdvanceCalendar(q) \in GoodTdq
<1> DEFINE next == (q.idx + 1) % NQS
           ridx == IF q.rq["timeshare"].queues[q.ridx] = <<>> THEN next ELSE q.ridx
           new  == [q EXCEPT !.idx = next, !.ridx = ridx]
<1>1. q \in TdqType /\ BitsExact(q) /\ Calendar(q)
  BY DEF GoodTdq
<1>2. q.idx \in Idx /\ q.ridx \in Idx
  BY <1>1 DEF TdqType
<1>3. next \in Idx
  BY <1>2, ModIdx DEF Idx
<1>4. ridx \in Idx
  BY <1>2, <1>3
<1>5. \/ ridx = next
      \/ ridx = q.ridx /\ q.rq["timeshare"].queues[q.ridx] # <<>>
  <2> HIDE DEF next
  <2> QED
    OBVIOUS
<1>6. AdvanceCalendar(q) = IF q.idx # q.ridx THEN q ELSE new
  BY DEF AdvanceCalendar
<1>7. ASSUME q.idx = q.ridx
      PROVE  new \in GoodTdq
  <2>1. next = (q.ridx + 1) % NQS
    BY <1>7
  <2> HIDE DEF next, ridx
  <2>2. /\ new \in TdqType
        /\ new.rq = q.rq /\ new.idx = next /\ new.ridx = ridx
    BY <1>1, <1>3, <1>4 DEF TdqType
  <2>3. BitsExact(new)
    BY <1>1, <2>2 DEF BitsExact
  <2>4. Calendar(new)
    BY <1>5, <2>1, <2>2 DEF Calendar
  <2> QED
    BY <2>2, <2>3, <2>4 DEF GoodTdq
<1> QED
  BY <1>6, <1>7

(* runq_choose and runq_choose_from find a thread in every run queue that  *)
(* has a status bit set: the list they take the head of is not empty.      *)
LEMMA RunqChooseType ==
  ASSUME NEW rq \in GoodRunq, NEW start \in Idx
  PROVE  /\ RunqChoose(rq) \in Thread \cup {NoThread}
         /\ RunqChooseFrom(rq, start) \in Thread \cup {NoThread}
<1>1. /\ rq.queues \in [Idx -> Seq(Thread)] /\ rq.bits \subseteq Idx
      /\ \A i \in rq.bits : rq.queues[i] # <<>>
  BY DEF GoodRunq, RunqType
<1>2. \A i \in rq.bits : Head(rq.queues[i]) \in Thread
  BY <1>1, HeadTailProperties
<1>3. rq.bits \subseteq Nat
  BY <1>1 DEF Idx
<1>4. ASSUME rq.bits # {}
      PROVE  Findbit(rq) \in rq.bits /\ FindbitFrom(rq, start) \in rq.bits
  <2> DEFINE ahead == {i \in rq.bits : i >= start}
  <2>1. Min(rq.bits) \in rq.bits
    BY <1>3, <1>4, MinIn
  <2>2. ahead # {} => Min(ahead) \in ahead
    BY <1>3, MinIn
  <2> QED
    BY <2>1, <2>2 DEF Findbit, FindbitFrom
<1> QED
  BY <1>2, <1>4 DEF RunqChoose, RunqChooseFrom

(* tdq_choose *)
LEMMA TdqChooseType ==
  ASSUME NEW q \in GoodTdq
  PROVE  TdqChoose(q) \in Thread \cup {NoThread}
<1>1. q.ridx \in Idx
  BY DEF GoodTdq, TdqType
<1>2. \A r \in RunqName : q.rq[r] \in GoodRunq
  BY GoodParts
<1> QED
  BY <1>1, <1>2, RunqChooseType DEF TdqChoose, RunqName

(* tdq_setlowpri *)
LEMMA SetLowpriGood ==
  ASSUME NEW q \in GoodTdq, NEW p \in Pri, NEW prio \in [Thread -> Pri]
  PROVE  SetLowpri(q, p, prio) \in GoodTdq
<1> DEFINE best == TdqChoose(q)
           low  == IF best = NoThread THEN p ELSE IF prio[best] > p THEN p ELSE prio[best]
<1>1. best \in Thread \cup {NoThread}
  BY TdqChooseType
<1>2. SetLowpri(q, p, prio) = [q EXCEPT !.lowpri = low]
  BY DEF SetLowpri
<1> HIDE DEF best
<1>3. low \in Pri
  BY <1>1
<1> QED
  BY <1>2, <1>3, CountersGood

(* runq_steal visits only lists with a thread the thief may take. *)
LEMMA StealInType ==
  ASSUME NEW rq \in GoodRunq, NEW slots \in SUBSET Idx, NEW may
  PROVE  StealIn(rq, slots, may) \in may \cup {NoThread}
<1> DEFINE hits == {i \in slots : \E k \in DOMAIN rq.queues[i] :
                                   rq.queues[i][k] \in may}
<1>1. rq.queues \in [Idx -> Seq(Thread)]
  BY DEF GoodRunq, RunqType
<1>2. CASE hits = {}
  BY <1>2 DEF StealIn
<1>3. CASE hits # {}
  <2> DEFINE list == rq.queues[Min(hits)]
             ks   == {k \in DOMAIN list : list[k] \in may}
  <2>1. Min(hits) \in hits
    <3>1. hits \subseteq slots /\ slots \subseteq Nat
      BY DEF Idx
    <3> HIDE DEF hits
    <3> QED
      BY <1>3, <3>1, MinIn
  <2>2. ks # {}
    BY <2>1
  <2>3. DOMAIN list = 1 .. Len(list) /\ Len(list) \in Nat
    BY <1>1, <2>1, LenProperties
  <2>4. Min(ks) \in ks
    <3>1. ks \in SUBSET Nat
      BY <2>3
    <3> HIDE DEF ks
    <3> QED
      BY <2>2, <3>1, MinIn
  <2>5. FirstIn(list, may) \in may
    BY <2>4 DEF FirstIn
  <2> QED
    BY <1>3, <2>5 DEF StealIn
<1> QED
  BY <1>2, <1>3

(* tdq_steal gives the thief nothing but a thread it may take, also when   *)
(* the scan of the timeshare queue falls back on the one it passed over.   *)
LEMMA TdqStealType ==
  ASSUME NEW q \in GoodTdq, NEW may
  PROVE  TdqSteal(q, may) \in may \cup {NoThread}
<1>1. /\ q.ridx \in Idx
      /\ \A r \in RunqName : q.rq[r] \in GoodRunq
  BY GoodParts DEF GoodTdq, TdqType
<1>2. ASSUME NEW rq \in GoodRunq
      PROVE  RunqSteal(rq, may) \in may \cup {NoThread}
  BY StealInType DEF RunqSteal, GoodRunq, RunqType
<1>3. ASSUME NEW rq \in GoodRunq, NEW start \in Idx
      PROVE  RunqStealFrom(rq, may, start) \in may \cup {NoThread}
  <2> DEFINE others == may \ {RunqChooseFrom(rq, start)}
             ahead  == {i \in rq.bits : i >= start}
  <2>1. rq.bits \in SUBSET Idx /\ ahead \in SUBSET Idx
    BY DEF GoodRunq, RunqType
  <2>2. /\ StealIn(rq, ahead, others) \in may \cup {NoThread}
        /\ StealIn(rq, rq.bits, others) \in may \cup {NoThread}
        /\ StealIn(rq, rq.bits, may) \in may \cup {NoThread}
    BY <2>1, StealInType
  <2> QED
    BY <2>2 DEF RunqStealFrom
<1> QED
  BY <1>1, <1>2, <1>3 DEF TdqSteal, RunqName

(***************************************************************************)
(* What is on a list.                                                      *)
(***************************************************************************)
(* A list that has one thread more than another, at position k.            *)
OneMore(more, list, k, t) ==
  /\ Len(more) = Len(list) + 1
  /\ \A j \in 1 .. Len(more) :
       more[j] = IF j < k THEN list[j] ELSE IF j = k THEN t ELSE list[j - 1]

(* It holds the same threads and that one, and each once if the other does *)
(* and does not have it.                                                   *)
LEMMA OneMoreRange ==
  ASSUME NEW list \in Seq(Thread), NEW more \in Seq(Thread), NEW t \in Thread,
         NEW k \in 1 .. Len(list) + 1, OneMore(more, list, k, t)
  PROVE  /\ Range(more) = Range(list) \cup {t}
         /\ IsInjective(more) <=> IsInjective(list) /\ t \notin Range(list)
<1>1. /\ DOMAIN list = 1 .. Len(list) /\ Len(list) \in Nat
      /\ DOMAIN more = 1 .. Len(list) + 1
  BY LenProperties DEF OneMore
<1>2. \A j \in 1 .. Len(list) + 1 :
        more[j] = IF j < k THEN list[j] ELSE IF j = k THEN t ELSE list[j - 1]
  BY DEF OneMore
<1> DEFINE to(j) == IF j < k THEN j ELSE j + 1
<1>3. \A j \in 1 .. Len(list) : to(j) \in 1 .. Len(list) + 1 /\ to(j) # k /\ more[to(j)] = list[j]
  BY <1>1, <1>2
<1>4. \A i \in 1 .. Len(list) + 1 : i # k => \E j \in 1 .. Len(list) : to(j) = i
  <2> TAKE i \in 1 .. Len(list) + 1
  <2>1. CASE i < k
    BY <1>1, <2>1
  <2>2. CASE i > k
    <3>1. i - 1 \in 1 .. Len(list) /\ to(i - 1) = i
      BY <1>1, <2>2
    <3> QED
      BY <3>1
  <2> QED
    BY <1>1, <2>1, <2>2
<1>5. more[k] = t /\ k \in DOMAIN more
  BY <1>1, <1>2
<1>6. \A i, j \in 1 .. Len(list) : to(i) = to(j) => i = j
  BY <1>1
<1> HIDE DEF to
<1>7. Range(more) = Range(list) \cup {t}
  <2>1. ASSUME NEW i \in DOMAIN more
        PROVE  more[i] \in Range(list) \cup {t}
    BY <1>1, <1>3, <1>4, <1>5, <2>1 DEF Range
  <2>2. \A j \in DOMAIN list : list[j] \in Range(more)
    BY <1>1, <1>3 DEF Range
  <2> QED
    BY <1>5, <2>1, <2>2 DEF Range
<1>8. ASSUME IsInjective(more)
      PROVE  IsInjective(list) /\ t \notin Range(list)
  <2>1. ASSUME NEW i \in DOMAIN list, NEW j \in DOMAIN list, list[i] = list[j]
        PROVE  i = j
    BY <1>1, <1>3, <1>6, <1>8, <2>1 DEF IsInjective
  <2>2. ASSUME NEW i \in DOMAIN list, list[i] = t
        PROVE  FALSE
    BY <1>1, <1>3, <1>5, <1>8, <2>2 DEF IsInjective
  <2> QED
    BY <2>1, <2>2 DEF IsInjective, Range
<1>9. ASSUME IsInjective(list), t \notin Range(list)
      PROVE  IsInjective(more)
  <2>1. ASSUME NEW i \in DOMAIN more, NEW j \in DOMAIN more, more[i] = more[j]
        PROVE  i = j
    <3>1. CASE i = k /\ j = k
      BY <3>1
    <3>2. CASE i = k /\ j # k
      BY <1>1, <1>3, <1>4, <1>5, <1>9, <2>1, <3>2 DEF Range
    <3>3. CASE i # k /\ j = k
      BY <1>1, <1>3, <1>4, <1>5, <1>9, <2>1, <3>3 DEF Range
    <3>4. CASE i # k /\ j # k
      <4>1. PICK x \in 1 .. Len(list) : to(x) = i
        BY <1>1, <1>4, <3>4
      <4>2. PICK y \in 1 .. Len(list) : to(y) = j
        BY <1>1, <1>4, <3>4
      <4>3. list[x] = list[y]
        BY <1>3, <2>1, <4>1, <4>2
      <4> QED
        BY <1>1, <1>9, <4>1, <4>2, <4>3 DEF IsInjective
    <3> QED
      BY <3>1, <3>2, <3>3, <3>4
  <2> QED
    BY <2>1 DEF IsInjective
<1> QED
  BY <1>7, <1>8, <1>9

(* TAILQ_INSERT_BEFORE. *)
LEMMA InsertAtOneMore ==
  ASSUME NEW list \in Seq(Thread), NEW k \in 1 .. Len(list), NEW t \in Thread
  PROVE  OneMore(InsertAt(list, k, t), list, k, t)
<1> DEFINE left  == SubSeq(list, 1, k - 1)
           right == SubSeq(list, k, Len(list))
           mid   == left \o <<t>>
<1>1. Len(list) \in Nat /\ \A j \in 1 .. Len(list) : list[j] \in Thread
  BY LenProperties, ElementOfSeq
<1>2. /\ left \in Seq(Thread) /\ Len(left) = k - 1
      /\ \A j \in 1 .. k - 1 : left[j] = list[j]
  BY <1>1, SubSeqProperties
<1>3. /\ right \in Seq(Thread) /\ Len(right) = Len(list) - k + 1
      /\ \A j \in 1 .. Len(list) - k + 1 : right[j] = list[k + j - 1]
  BY <1>1, SubSeqProperties
<1>4. /\ <<t>> \in Seq(Thread) /\ Len(<<t>>) = 1 /\ <<t>>[1] = t
  OBVIOUS
<1> HIDE DEF left, right
<1>5. /\ mid \in Seq(Thread) /\ Len(mid) = k
      /\ \A j \in 1 .. k : mid[j] = IF j < k THEN list[j] ELSE t
  <2>1. /\ mid \in Seq(Thread) /\ Len(mid) = Len(left) + Len(<<t>>)
        /\ \A j \in 1 .. Len(left) + Len(<<t>>) :
             mid[j] = IF j <= Len(left) THEN left[j] ELSE <<t>>[j - Len(left)]
    BY <1>2, <1>4, ConcatProperties
  <2>2. Len(mid) = k
    BY <1>2, <1>4, <2>1
  <2>3. ASSUME NEW j \in 1 .. k
        PROVE  mid[j] = IF j < k THEN list[j] ELSE t
    BY <1>2, <1>4, <2>1
  <2> QED
    BY <2>1, <2>2, <2>3
<1> HIDE DEF mid
<1>6. /\ Len(mid \o right) = Len(mid) + Len(right)
      /\ \A j \in 1 .. Len(mid) + Len(right) :
           (mid \o right)[j] = IF j <= Len(mid) THEN mid[j] ELSE right[j - Len(mid)]
  BY <1>3, <1>5, ConcatProperties
<1>7. Len(mid \o right) = Len(list) + 1
  BY <1>1, <1>3, <1>5, <1>6
<1>8. ASSUME NEW j \in 1 .. Len(list) + 1
      PROVE  (mid \o right)[j]
               = IF j < k THEN list[j] ELSE IF j = k THEN t ELSE list[j - 1]
  <2>1. CASE j <= k
    BY <1>1, <1>3, <1>5, <1>6, <2>1
  <2>2. CASE j > k
    <3>1. j - k \in 1 .. Len(list) - k + 1 /\ k + (j - k) - 1 = j - 1
      BY <1>1, <2>2
    <3>2. (mid \o right)[j] = right[j - k]
      BY <1>1, <1>3, <1>5, <1>6, <2>2
    <3>3. right[j - k] = list[j - 1]
      BY <1>3, <3>1
    <3> QED
      BY <2>2, <3>2, <3>3
  <2>3. j <= k \/ j > k
    BY <1>1
  <2> QED
    BY <2>1, <2>2, <2>3
<1>9. InsertAt(list, k, t) = mid \o right
  BY DEF InsertAt, mid, left, right
<1> QED
  BY <1>7, <1>8, <1>9 DEF OneMore

(* A thread enters a list it is not on (runq_add and runq_add_pri). *)
LEMMA ListInsertRange ==
  ASSUME NEW list \in Seq(Thread), NEW i, NEW t \in Thread, NEW flags, NEW prio,
         IsInjective(list), t \notin Range(list)
  PROVE  /\ Range(ListInsert(list, i, t, flags, prio)) = Range(list) \cup {t}
         /\ IsInjective(ListInsert(list, i, t, flags, prio))
<1>0. Len(list) \in Nat
  BY LenProperties
<1>1. ListInsert(list, i, t, flags, prio) \in Seq(Thread)
  BY ListInsertType
<1>2. OneMore(Append(list, t), list, Len(list) + 1, t)
  BY <1>0, AppendProperties DEF OneMore
<1>3. OneMore(<<t>> \o list, list, 1, t)
  <2>1. <<t>> \in Seq(Thread) /\ Len(<<t>>) = 1 /\ <<t>>[1] = t
    OBVIOUS
  <2>2. /\ Len(<<t>> \o list) = 1 + Len(list)
        /\ \A j \in 1 .. 1 + Len(list) :
             (<<t>> \o list)[j] = IF j <= 1 THEN <<t>>[j] ELSE list[j - 1]
    BY <2>1, ConcatProperties
  <2> QED
    BY <1>0, <2>1, <2>2 DEF OneMore
<1>4. ASSUME Worse(list, t, prio) # {}
      PROVE  /\ Min(Worse(list, t, prio)) \in 1 .. Len(list)
             /\ OneMore(InsertAt(list, Min(Worse(list, t, prio)), t), list,
                        Min(Worse(list, t, prio)), t)
  <2>1. Worse(list, t, prio) \subseteq 1 .. Len(list)
    BY LenProperties DEF Worse
  <2>2. Min(Worse(list, t, prio)) \in Worse(list, t, prio)
    BY <1>0, <1>4, <2>1, MinIn
  <2> QED
    BY <2>1, <2>2, InsertAtOneMore
<1>5. \E k \in 1 .. Len(list) + 1 :
        OneMore(ListInsert(list, i, t, flags, prio), list, k, t)
  BY <1>0, <1>2, <1>3, <1>4 DEF ListInsert, SortedInsert
<1> QED
  BY <1>1, <1>5, OneMoreRange

(* TAILQ_REMOVE of a thread that is on the list. *)
LEMMA ListRemoveOneMore ==
  ASSUME NEW list \in Seq(Thread), NEW t \in Range(list)
  PROVE  /\ t \in Thread
         /\ \E k \in 1 .. Len(ListRemove(list, t)) + 1 :
              OneMore(list, ListRemove(list, t), k, t)
<1> DEFINE k     == CHOOSE j \in DOMAIN list : list[j] = t
           left  == SubSeq(list, 1, k - 1)
           right == SubSeq(list, k + 1, Len(list))
           rest  == ListRemove(list, t)
<1>1. /\ Len(list) \in Nat /\ DOMAIN list = 1 .. Len(list)
      /\ \A j \in 1 .. Len(list) : list[j] \in Thread
  BY LenProperties, ElementOfSeq
<1>2. k \in 1 .. Len(list) /\ list[k] = t
  BY <1>1 DEF Range
<1>3. rest = left \o right
  BY <1>1, <1>2 DEF ListRemove, RemoveAt
<1>4. rest \in Seq(Thread)
  BY ListRemoveType
<1> HIDE DEF k, rest
<1>5. /\ left \in Seq(Thread) /\ Len(left) = k - 1
      /\ \A j \in 1 .. k - 1 : left[j] = list[j]
  BY <1>1, <1>2, SubSeqProperties
<1>6. /\ right \in Seq(Thread) /\ Len(right) = Len(list) - k
      /\ \A j \in 1 .. Len(list) - k : right[j] = list[k + j]
  <2> DEFINE m == k + 1
  <2>1. m \in Int /\ Len(list) \in Int /\ \A j \in m .. Len(list) : list[j] \in Thread
    BY <1>1, <1>2
  <2>2. /\ SubSeq(list, m, Len(list)) \in Seq(Thread)
        /\ Len(SubSeq(list, m, Len(list))) = IF m <= Len(list) THEN Len(list) - m + 1 ELSE 0
        /\ \A j \in 1 .. Len(list) - m + 1 : SubSeq(list, m, Len(list))[j] = list[m + j - 1]
    <3> HIDE DEF m
    <3> QED
      BY <2>1, SubSeqProperties
  <2>3. /\ (IF m <= Len(list) THEN Len(list) - m + 1 ELSE 0) = Len(list) - k
        /\ Len(list) - m + 1 = Len(list) - k
        /\ \A j \in 1 .. Len(list) - k : m + j - 1 = k + j
    <3>1. k \in Int /\ Len(list) \in Int /\ 1 <= k /\ k <= Len(list)
      BY <1>1, <1>2
    <3>2. ASSUME NEW j \in 1 .. Len(list) - k
          PROVE  k + 1 + j - 1 = k + j
      BY <3>1
    <3>3. /\ Len(list) - (k + 1) + 1 = Len(list) - k
          /\ k + 1 <= Len(list) \/ Len(list) - k = 0
      BY <3>1
    <3> QED
      BY <3>2, <3>3
  <2>4. right = SubSeq(list, m, Len(list))

    OBVIOUS
  <2> HIDE DEF m, right
  <2> QED
    BY <2>2, <2>3, <2>4
<1> HIDE DEF left, right
<1>7. /\ Len(rest) = Len(list) - 1
      /\ \A j \in 1 .. Len(list) - 1 : rest[j] = IF j < k THEN list[j] ELSE list[j + 1]
  <2>1. /\ Len(left \o right) = Len(left) + Len(right)
        /\ \A j \in 1 .. Len(left) + Len(right) :
             (left \o right)[j] = IF j <= Len(left) THEN left[j] ELSE right[j - Len(left)]
    BY <1>5, <1>6, ConcatProperties
  <2>2. Len(rest) = Len(list) - 1
    BY <1>1, <1>2, <1>3, <1>5, <1>6, <2>1
  <2>3. ASSUME NEW j \in 1 .. Len(list) - 1
        PROVE  rest[j] = IF j < k THEN list[j] ELSE list[j + 1]
    <3>1. CASE j < k
      BY <1>1, <1>2, <1>3, <1>5, <1>6, <2>1, <3>1
    <3>2. CASE j >= k
      <4>1. j - (k - 1) \in 1 .. Len(list) - k /\ k + (j - (k - 1)) = j + 1
        BY <1>1, <1>2, <3>2
      <4>2. rest[j] = right[j - (k - 1)]
        BY <1>1, <1>2, <1>3, <1>5, <1>6, <2>1, <3>2
      <4>3. right[j - (k - 1)] = list[k + (j - (k - 1))]
        BY <1>6, <4>1
      <4> QED
        BY <1>2, <3>2, <4>1, <4>2, <4>3
    <3> QED
      BY <1>2, <3>1, <3>2
  <2> QED
    BY <2>2, <2>3
<1>8. OneMore(list, rest, k, t)
  <2>1. Len(list) = Len(rest) + 1
    BY <1>1, <1>7
  <2>2. ASSUME NEW j \in 1 .. Len(list)
        PROVE  list[j] = IF j < k THEN rest[j] ELSE IF j = k THEN t ELSE rest[j - 1]
    <3>1. CASE j < k
      BY <1>1, <1>2, <1>7, <3>1
    <3>2. CASE j > k
      <4>1. j - 1 \in 1 .. Len(list) - 1 /\ ~ j - 1 < k /\ (j - 1) + 1 = j
        BY <1>1, <1>2, <3>2
      <4>2. rest[j - 1] = list[(j - 1) + 1]
        BY <1>7, <4>1
      <4> QED
        BY <1>2, <3>2, <4>1, <4>2

    <3> QED
      BY <1>1, <1>2, <3>1, <3>2
  <2> QED
    BY <2>1, <2>2 DEF OneMore
<1>9. t \in Thread /\ k \in 1 .. Len(rest) + 1
  BY <1>1, <1>2, <1>7
<1> QED
  BY <1>8, <1>9 DEF rest

(* A thread leaves the list it is on. *)
LEMMA ListRemoveRange ==
  ASSUME NEW list \in Seq(Thread), NEW t \in Range(list), IsInjective(list)
  PROVE  /\ Range(ListRemove(list, t)) = Range(list) \ {t}
         /\ IsInjective(ListRemove(list, t))
<1> DEFINE rest == ListRemove(list, t)
<1>1. rest \in Seq(Thread)
  BY ListRemoveType
<1>2. t \in Thread
  BY ListRemoveOneMore
<1>3. PICK k \in 1 .. Len(rest) + 1 : OneMore(list, rest, k, t)
  BY ListRemoveOneMore
<1> HIDE DEF rest
<1>4. /\ Range(list) = Range(rest) \cup {t}
      /\ IsInjective(list) <=> IsInjective(rest) /\ t \notin Range(rest)
  BY <1>1, <1>2, <1>3, OneMoreRange
<1> QED
  BY <1>4 DEF rest

(***************************************************************************)
(* Sorted lists (kern_switch_pq.c).                                        *)
(***************************************************************************)
InOrder(list, prio) ==
  \A j, k \in DOMAIN list : j < k => prio[list[j]] <= prio[list[k]]

(* A list without one of its threads is in order if the list is. *)
LEMMA ListRemoveInOrder ==
  ASSUME NEW list \in Seq(Thread), NEW t \in Range(list), NEW prio, InOrder(list, prio)
  PROVE  InOrder(ListRemove(list, t), prio)
<1> DEFINE rest  == ListRemove(list, t)
<1>1. rest \in Seq(Thread)
  BY ListRemoveType
<1>2. PICK k \in 1 .. Len(rest) + 1 : OneMore(list, rest, k, t)
  BY ListRemoveOneMore
<1> HIDE DEF rest
<1> DEFINE to(j) == IF j < k THEN j ELSE j + 1
<1>3. /\ DOMAIN rest = 1 .. Len(rest) /\ Len(rest) \in Nat
      /\ DOMAIN list = 1 .. Len(rest) + 1
  BY <1>1, <1>2, LenProperties DEF OneMore
<1>4. \A j \in 1 .. Len(rest) + 1 :
        list[j] = IF j < k THEN rest[j] ELSE IF j = k THEN t ELSE rest[j - 1]
  BY <1>2, <1>3 DEF OneMore
<1>5. \A j \in 1 .. Len(rest) : to(j) \in 1 .. Len(rest) + 1 /\ list[to(j)] = rest[j]
  BY <1>2, <1>3, <1>4
<1>6. \A i, j \in 1 .. Len(rest) : i < j => to(i) < to(j)
  BY <1>2, <1>3
<1> HIDE DEF to
<1> SUFFICES ASSUME NEW i \in DOMAIN rest, NEW j \in DOMAIN rest, i < j
             PROVE  prio[rest[i]] <= prio[rest[j]]
  BY DEF InOrder, rest
<1>7. to(i) \in DOMAIN list /\ to(j) \in DOMAIN list /\ to(i) < to(j)
  BY <1>3, <1>5, <1>6
<1>8. list[to(i)] = rest[i] /\ list[to(j)] = rest[j]
  BY <1>3, <1>5
<1> QED
  BY <1>7, <1>8 DEF InOrder

(* A list with one more thread is in order if the threads before it are no *)
(* worse than that one and those behind it no better.                      *)
LEMMA OneMoreInOrder ==
  ASSUME NEW list \in Seq(Thread), NEW more, NEW t \in Thread,
         NEW k \in 1 .. Len(list) + 1, OneMore(more, list, k, t),
         DOMAIN more = 1 .. Len(more), NEW prio, InOrder(list, prio),
         \A j \in 1 .. Len(list) : j < k => prio[list[j]] <= prio[t],
         \A j \in 1 .. Len(list) : k <= j => prio[t] <= prio[list[j]]
  PROVE  InOrder(more, prio)
<1>1. /\ DOMAIN list = 1 .. Len(list) /\ Len(list) \in Nat
      /\ DOMAIN more = 1 .. Len(list) + 1
  BY LenProperties DEF OneMore
<1>2. \A j \in 1 .. Len(list) + 1 :
        more[j] = IF j < k THEN list[j] ELSE IF j = k THEN t ELSE list[j - 1]
  BY DEF OneMore
<1> SUFFICES ASSUME NEW i \in 1 .. Len(list) + 1, NEW j \in 1 .. Len(list) + 1, i < j
             PROVE  prio[more[i]] <= prio[more[j]]
  BY <1>1 DEF InOrder
<1>3. CASE j < k
  <2>1. i \in DOMAIN list /\ j \in DOMAIN list /\ i < k
    BY <1>1, <1>3
  <2> QED
    BY <1>2, <1>3, <2>1 DEF InOrder
<1>4. CASE j = k
  <2>1. i \in 1 .. Len(list) /\ i < k
    BY <1>1, <1>4
  <2> QED
    BY <1>2, <1>4, <2>1
<1>5. CASE k < j /\ i = k
  <2>1. j - 1 \in 1 .. Len(list) /\ k <= j - 1
    BY <1>1, <1>5
  <2> QED
    BY <1>2, <1>5, <2>1
<1>6. CASE k < j /\ i < k
  <2>1. i \in DOMAIN list /\ j - 1 \in DOMAIN list /\ i < j - 1
    BY <1>1, <1>6
  <2>2. more[i] = list[i] /\ more[j] = list[j - 1]
    BY <1>2, <1>6
  <2> QED
    BY <2>1, <2>2 DEF InOrder
<1>7. CASE k < i
  <2>1. i - 1 \in DOMAIN list /\ j - 1 \in DOMAIN list /\ i - 1 < j - 1
    BY <1>1, <1>7
  <2>2. more[i] = list[i - 1] /\ more[j] = list[j - 1]
    BY <1>2, <1>7
  <2> QED
    BY <2>1, <2>2 DEF InOrder
<1> QED
  BY <1>1, <1>3, <1>4, <1>5, <1>6, <1>7

(* The modified runq_add and runq_add_pri keep a sorted list sorted. *)
LEMMA ListInsertInOrder ==
  ASSUME NEW list \in Seq(Thread), NEW i, SortedList(i), NEW t \in Thread, NEW flags,
         NEW prio \in [Thread -> Int], InOrder(list, prio)
  PROVE  InOrder(ListInsert(list, i, t, flags, prio), prio)
<1> DEFINE more == ListInsert(list, i, t, flags, prio)
           bad  == Worse(list, t, prio)
<1>1. /\ Len(list) \in Nat /\ DOMAIN list = 1 .. Len(list)
      /\ \A j \in 1 .. Len(list) : list[j] \in Thread
  BY LenProperties, ElementOfSeq
<1>2. DOMAIN more = 1 .. Len(more)
  BY ListInsertType, LenProperties
<1>3. more = SortedInsert(list, t, prio)
  BY DEF ListInsert
<1>4. \A j \in 1 .. Len(list) : j \notin bad => prio[list[j]] <= prio[t]
  BY <1>1 DEF Worse
<1>5. \A j \in bad : j \in 1 .. Len(list) /\ prio[t] <= prio[list[j]]
  BY <1>1 DEF Worse
<1> HIDE DEF more, bad
<1>6. CASE bad = {}
  <2>1. more = Append(list, t)
    BY <1>3, <1>6 DEF SortedInsert, bad
  <2> DEFINE k == Len(list) + 1
  <2>2. OneMore(more, list, k, t)
    BY <1>1, <2>1, AppendProperties DEF OneMore
  <2>3. /\ \A j \in 1 .. Len(list) : j < k => prio[list[j]] <= prio[t]
        /\ \A j \in 1 .. Len(list) : k <= j => prio[t] <= prio[list[j]]
        /\ k \in 1 .. Len(list) + 1
    BY <1>1, <1>4, <1>6
  <2> HIDE DEF k
  <2>4. InOrder(more, prio)
    BY <1>2, <2>2, <2>3, OneMoreInOrder
  <2> QED
    BY <2>4 DEF more
<1>7. CASE bad # {}
  <2> DEFINE k == Min(bad)
  <2>1. k \in bad /\ \A y \in bad : k <= y
    <3>1. bad \in SUBSET Nat
      BY <1>1, <1>5
    <3> QED
      BY <1>7, <3>1, MinIn
  <2>2. k \in 1 .. Len(list)
    BY <1>5, <2>1
  <2>3. more = InsertAt(list, k, t)
    BY <1>3, <1>7 DEF SortedInsert, bad
  <2> HIDE DEF k
  <2>4. OneMore(more, list, k, t)
    BY <2>2, <2>3, InsertAtOneMore
  <2>5. ASSUME NEW j \in 1 .. Len(list), j < k
        PROVE  prio[list[j]] <= prio[t]
    <3>1. j \notin bad
      BY <1>1, <2>1, <2>2, <2>5
    <3> QED
      BY <1>4, <3>1
  <2>6. ASSUME NEW j \in 1 .. Len(list), k <= j
        PROVE  prio[t] <= prio[list[j]]
    <3>1. prio[t] <= prio[list[k]]
      BY <1>5, <2>1
    <3>2. prio[list[k]] <= prio[list[j]]
      <4>1. CASE k = j
        <5>1. prio[list[j]] \in Int
          BY <1>1
        <5> QED
          BY <4>1, <5>1
      <4>2. CASE k < j
        BY <1>1, <2>2, <4>2 DEF InOrder
      <4> QED
        BY <1>1, <2>2, <2>6, <4>1, <4>2
    <3>3. prio[t] \in Int /\ prio[list[k]] \in Int /\ prio[list[j]] \in Int
      BY <1>1, <2>2
    <3> QED
      BY <3>1, <3>2, <3>3
  <2>7. k \in 1 .. Len(list) + 1
    BY <1>1, <2>2
  <2>8. InOrder(more, prio)
    BY <1>2, <2>4, <2>5, <2>6, <2>7, OneMoreInOrder
  <2> QED
    BY <2>8 DEF more
<1> QED
  BY <1>6, <1>7

(***************************************************************************)
(* Where the threads of a thread queue are.                                *)
(***************************************************************************)
\* t is on one of the lists of q.
OnSome(q, t) == \E r \in RunqName, i \in Idx : t \in Range(q.rq[r].queues[i])

(* runq_choose and runq_choose_from take the head of a list. *)
LEMMA RunqChooseOn ==
  ASSUME NEW rq \in GoodRunq, NEW start \in Idx
  PROVE  /\ RunqChoose(rq) # NoThread
              => \E i \in Idx : RunqChoose(rq) \in Range(rq.queues[i])
         /\ RunqChooseFrom(rq, start) # NoThread
              => \E i \in Idx : RunqChooseFrom(rq, start) \in Range(rq.queues[i])
<1>1. /\ rq.queues \in [Idx -> Seq(Thread)] /\ rq.bits \subseteq Idx
      /\ \A i \in rq.bits : rq.queues[i] # <<>>
  BY DEF GoodRunq, RunqType
<1>2. \A i \in rq.bits : i \in Idx /\ Head(rq.queues[i]) \in Range(rq.queues[i])
  <2> TAKE i \in rq.bits
  <2>1. rq.queues[i] \in Seq(Thread) /\ rq.queues[i] # <<>>
    BY <1>1
  <2>2. Len(rq.queues[i]) \in Nat \ {0} /\ DOMAIN rq.queues[i] = 1 .. Len(rq.queues[i])
    BY <2>1, EmptySeq, LenProperties
  <2>3. Head(rq.queues[i]) = rq.queues[i][1]
    BY <2>1
  <2> QED
    BY <1>1, <2>2, <2>3 DEF Range
<1>3. rq.bits \subseteq Nat
  BY <1>1 DEF Idx
<1>4. ASSUME rq.bits # {}
      PROVE  Findbit(rq) \in rq.bits /\ FindbitFrom(rq, start) \in rq.bits
  <2> DEFINE ahead == {i \in rq.bits : i >= start}
  <2>1. Min(rq.bits) \in rq.bits
    BY <1>3, <1>4, MinIn
  <2>2. ahead # {} => Min(ahead) \in ahead
    BY <1>3, MinIn
  <2> QED
    BY <2>1, <2>2 DEF Findbit, FindbitFrom
<1> QED
  BY <1>2, <1>4 DEF RunqChoose, RunqChooseFrom

(* tdq_choose takes a thread that is queued. *)
LEMMA TdqChooseOn ==
  ASSUME NEW q \in GoodTdq, TdqChoose(q) # NoThread
  PROVE  OnSome(q, TdqChoose(q))
<1>1. q.ridx \in Idx
  BY DEF GoodTdq, TdqType
<1>2. \A r \in RunqName : q.rq[r] \in GoodRunq
  BY GoodParts
<1>3. /\ "realtime" \in RunqName /\ "timeshare" \in RunqName /\ "idle" \in RunqName
  BY DEF RunqName
<1>4. \E r \in RunqName, i \in Idx : TdqChoose(q) \in Range(q.rq[r].queues[i])
  <2>1. CASE RunqChoose(q.rq["realtime"]) # NoThread
    BY <1>1, <1>2, <1>3, <2>1, RunqChooseOn DEF TdqChoose
  <2>2. CASE /\ RunqChoose(q.rq["realtime"]) = NoThread
             /\ RunqChooseFrom(q.rq["timeshare"], q.ridx) # NoThread
    BY <1>1, <1>2, <1>3, <2>2, RunqChooseOn DEF TdqChoose
  <2>3. CASE /\ RunqChoose(q.rq["realtime"]) = NoThread
             /\ RunqChooseFrom(q.rq["timeshare"], q.ridx) = NoThread
    BY <1>1, <1>2, <1>3, <2>3, RunqChooseOn DEF TdqChoose
  <2> QED
    BY <2>1, <2>2, <2>3
<1> QED
  BY <1>4 DEF OnSome

(* runq_steal takes a thread from a list it visits. *)
LEMMA StealInOn ==
  ASSUME NEW rq \in GoodRunq, NEW slots \in SUBSET Idx, NEW may,
         StealIn(rq, slots, may) # NoThread
  PROVE  \E i \in Idx : StealIn(rq, slots, may) \in Range(rq.queues[i])
<1> DEFINE hits == {i \in slots : \E k \in DOMAIN rq.queues[i] :
                                   rq.queues[i][k] \in may}
           list == rq.queues[Min(hits)]
           ks   == {k \in DOMAIN list : list[k] \in may}
<1>1. rq.queues \in [Idx -> Seq(Thread)]
  BY DEF GoodRunq, RunqType
<1>2. hits # {}
  BY DEF StealIn
<1>3. Min(hits) \in hits
  <2>1. hits \subseteq slots /\ slots \subseteq Nat
    BY DEF Idx
  <2> HIDE DEF hits
  <2> QED
    BY <1>2, <2>1, MinIn
<1>4. ks # {} /\ Min(hits) \in Idx
  BY <1>3
<1>5. DOMAIN list = 1 .. Len(list) /\ Len(list) \in Nat
  BY <1>1, <1>4, LenProperties
<1>6. Min(ks) \in ks
  <2>1. ks \in SUBSET Nat
    BY <1>5
  <2> HIDE DEF ks
  <2> QED
    BY <1>4, <2>1, MinIn
<1>7. FirstIn(list, may) \in Range(list)
  BY <1>6 DEF FirstIn, Range
<1> QED
  BY <1>2, <1>4, <1>7 DEF StealIn

(* The greatest of a set of list indexes is one of them (runq_steal_from   *)
(* falls back on the last thread it met).                                  *)
LEMMA MaxIn ==
  ASSUME NEW S \in SUBSET Idx, S # {}
  PROVE  Max(S) \in S
<1> DEFINE down == {NQS - i : i \in S}
<1>1. NQS \in Int /\ \A i \in S : i \in Int /\ NQS - i \in Nat
  BY RunqAssumption DEF Idx
<1>2. down \in SUBSET Nat /\ \A i \in S : NQS - i \in down
  BY <1>1
<1>3. PICK i \in S : TRUE
  OBVIOUS
<1>4. down # {}
  BY <1>2
<1>5. \A x \in down : \E m \in S : x = NQS - m
  OBVIOUS
<1> HIDE DEF down
<1>6. Min(down) \in down /\ \A x \in down : Min(down) <= x
  BY <1>2, <1>4, MinIn
<1>7. PICK m \in S : Min(down) = NQS - m
  BY <1>5, <1>6
<1>8. ASSUME NEW j \in S
      PROVE  j <= m
  <2>1. NQS - m <= NQS - j
    BY <1>2, <1>6, <1>7
  <2> QED
    BY <1>1, <2>1
<1> QED
  BY <1>1, <1>7, <1>8 DEF Max

(* tdq_steal takes a thread that is queued, also as a last resort. *)
LEMMA TdqStealOn ==
  ASSUME NEW q \in GoodTdq, NEW may, TdqSteal(q, may) # NoThread
  PROVE  OnSome(q, TdqSteal(q, may))
<1>1. /\ q.ridx \in Idx
      /\ \A r \in RunqName : q.rq[r] \in GoodRunq
  BY GoodParts DEF GoodTdq, TdqType
<1>2. ASSUME NEW rq \in GoodRunq, RunqSteal(rq, may) # NoThread
      PROVE  \E i \in Idx : RunqSteal(rq, may) \in Range(rq.queues[i])
  <2>1. rq.bits \in SUBSET Idx
    BY DEF GoodRunq, RunqType
  <2> QED
    BY <1>2, <2>1, StealInOn DEF RunqSteal
<1>3. ASSUME NEW rq \in GoodRunq, NEW start \in Idx,
             RunqStealFrom(rq, may, start) # NoThread
      PROVE  \E i \in Idx : RunqStealFrom(rq, may, start) \in Range(rq.queues[i])
  <2> DEFINE others == may \ {RunqChooseFrom(rq, start)}
             ahead  == {i \in rq.bits : i >= start}
             found(t) == \E i \in Idx : t \in Range(rq.queues[i])
             resort == Last(rq.queues[Max(rq.bits)])
  <2>1. rq.bits \in SUBSET Idx /\ ahead \in SUBSET Idx
    BY DEF GoodRunq, RunqType
  <2>2. /\ StealIn(rq, ahead, others) # NoThread => found(StealIn(rq, ahead, others))
        /\ StealIn(rq, rq.bits, others) # NoThread => found(StealIn(rq, rq.bits, others))
        /\ StealIn(rq, rq.bits, may) # NoThread => found(StealIn(rq, rq.bits, may))
    BY <2>1, StealInOn
  <2>3. ASSUME rq.bits # {}
        PROVE  found(resort)
    <3>1. Max(rq.bits) \in rq.bits
      BY <2>1, <2>3, MaxIn
    <3>2. rq.queues[Max(rq.bits)] \in Seq(Thread) /\ rq.queues[Max(rq.bits)] # <<>>
      BY <3>1 DEF GoodRunq, RunqType
    <3> DEFINE list == rq.queues[Max(rq.bits)]
    <3>3. Len(list) \in 1 .. Len(list) /\ DOMAIN list = 1 .. Len(list)
      <4> HIDE DEF list
      <4>1. list \in Seq(Thread) /\ list # <<>>
        BY <3>2 DEF list
      <4> QED
        BY <4>1, EmptySeq, LenProperties
    <3>4. resort \in Range(list)
      BY <3>3 DEF Last, Range
    <3> QED
      BY <2>1, <3>1, <3>4
  <2> HIDE DEF found, resort
  <2>4. found(RunqStealFrom(rq, may, start))
    BY <1>3, <2>2, <2>3 DEF RunqStealFrom, resort
  <2> QED
    BY <2>4 DEF found
<1>4. \E r \in RunqName, i \in Idx : TdqSteal(q, may) \in Range(q.rq[r].queues[i])
  <2>0. /\ "realtime" \in RunqName /\ "timeshare" \in RunqName /\ "idle" \in RunqName
    BY DEF RunqName
  <2>1. CASE RunqSteal(q.rq["realtime"], may) # NoThread
    BY <1>1, <1>2, <2>0, <2>1 DEF TdqSteal
  <2>2. CASE /\ RunqSteal(q.rq["realtime"], may) = NoThread
             /\ RunqStealFrom(q.rq["timeshare"], may, q.ridx) # NoThread
    BY <1>1, <1>3, <2>0, <2>2 DEF TdqSteal
  <2>3. CASE /\ RunqSteal(q.rq["realtime"], may) = NoThread
             /\ RunqStealFrom(q.rq["timeshare"], may, q.ridx) = NoThread
    BY <1>1, <1>2, <2>0, <2>3 DEF TdqSteal
  <2> QED
    BY <2>1, <2>2, <2>3
<1> QED
  BY <1>4 DEF OnSome

(* tdq_runq_add puts the thread on the list of its priority and touches no *)
(* other list, and of the rest of the queue only the count.                *)
LEMMA EnqueueLists ==
  ASSUME NEW q \in GoodTdq, NEW t \in Thread, NEW flags,
         NEW prio \in [Thread -> Pri], NEW movable \in BOOLEAN
  PROVE  LET n == Enqueue(q, t, flags, prio, movable)
             r == RunqOf(prio[t])
             i == SlotOf(q, prio[t], flags)
         IN /\ r \in RunqName /\ i \in Idx
            /\ \A x \in RunqName, j \in Idx :
                 n.rq[x].queues[j] = IF x = r /\ j = i
                                     THEN ListInsert(q.rq[x].queues[j], i, t, flags, prio)
                                     ELSE q.rq[x].queues[j]
            /\ n.load = q.load /\ n.lowpri = q.lowpri /\ n.ipipending = q.ipipending
            /\ n.transferable = q.transferable + IF movable THEN 1 ELSE 0
<1> DEFINE r    == RunqOf(prio[t])
           i    == SlotOf(q, prio[t], flags)
           list == ListInsert(q.rq[r].queues[i], i, t, flags, prio)
           part == RunqAddPri(q.rq[r], t, i, flags, prio)
           add  == IF movable THEN 1 ELSE 0
           n    == Enqueue(q, t, flags, prio, movable)
<1>1. q \in TdqType
  BY DEF GoodTdq
<1>2. r \in RunqName
  BY DEF RunqOf, RunqName
<1>3. i \in Idx
  BY <1>1, SlotOfIdx
<1>4. n = [q EXCEPT !.rq[r] = part, !.transferable = q.transferable + add]
  BY DEF Enqueue
<1>5. part = [queues |-> [q.rq[r].queues EXCEPT ![i] = list], bits |-> q.rq[r].bits \cup {i}]
  BY DEF RunqAddPri
<1> HIDE DEF r, i, list, part, n, add
<1>6. q.rq \in [RunqName -> RunqType] /\ q.rq[r].queues \in [Idx -> Seq(Thread)]
  BY <1>1, <1>2 DEF TdqType, RunqType
<1>7. \A j \in Idx : part.queues[j] = IF j = i THEN list ELSE q.rq[r].queues[j]
  BY <1>3, <1>5, <1>6
<1>8. /\ \A x \in RunqName : n.rq[x] = IF x = r THEN part ELSE q.rq[x]
      /\ n.load = q.load /\ n.lowpri = q.lowpri /\ n.ipipending = q.ipipending
      /\ n.transferable = q.transferable + add
  BY <1>1, <1>2, <1>4, <1>6 DEF TdqType
<1> QED
  BY <1>2, <1>3, <1>7, <1>8 DEF r, i, list, n, add

(* tdq_runq_rem, in the same way. *)
LEMMA DequeueLists ==
  ASSUME NEW q \in GoodTdq, NEW t, NEW r \in RunqName, NEW i \in Idx,
         NEW xferable \in BOOLEAN
  PROVE  LET n == Dequeue(q, t, r, i, xferable) IN
         /\ \A x \in RunqName, j \in Idx :
              n.rq[x].queues[j] = IF x = r /\ j = i THEN ListRemove(q.rq[x].queues[j], t)
                                  ELSE q.rq[x].queues[j]
         /\ n.load = q.load /\ n.lowpri = q.lowpri /\ n.ipipending = q.ipipending
         /\ n.transferable = q.transferable - IF xferable THEN 1 ELSE 0
<1> DEFINE part == RunqRemove(q.rq[r], t, i)
           ridx == IF r = "timeshare" /\ q.idx # q.ridx
                   THEN RemoveIdx(q.rq[r], t, i, q.ridx) ELSE q.ridx
           sub  == IF xferable THEN 1 ELSE 0
           n    == Dequeue(q, t, r, i, xferable)
<1>1. q \in TdqType
  BY DEF GoodTdq
<1>2. n = [q EXCEPT !.rq[r] = part, !.ridx = ridx, !.transferable = q.transferable - sub]
  BY DEF Dequeue
<1>3. \A j \in Idx : part.queues[j] = IF j = i THEN ListRemove(q.rq[r].queues[i], t)
                                      ELSE q.rq[r].queues[j]
  BY GoodParts, RunqRemoveGood
<1> HIDE DEF part, ridx, sub, n
<1>4. /\ \A x \in RunqName : n.rq[x] = IF x = r THEN part ELSE q.rq[x]
      /\ n.load = q.load /\ n.lowpri = q.lowpri /\ n.ipipending = q.ipipending
      /\ n.transferable = q.transferable - sub
  BY <1>1, <1>2 DEF TdqType
<1> QED
  BY <1>3, <1>4 DEF n, sub

(* sched_clock turns the calendar and nothing else. *)
LEMMA AdvanceLists ==
  ASSUME NEW q \in GoodTdq
  PROVE  LET n == AdvanceCalendar(q) IN
         /\ n.rq = q.rq /\ n.load = q.load /\ n.lowpri = q.lowpri
         /\ n.ipipending = q.ipipending /\ n.transferable = q.transferable
<1>1. q \in TdqType
  BY DEF GoodTdq
<1> DEFINE next == (q.idx + 1) % NQS
           ridx == IF q.rq["timeshare"].queues[q.ridx] = <<>> THEN next ELSE q.ridx
<1>2. AdvanceCalendar(q) = IF q.idx # q.ridx THEN q
                           ELSE [q EXCEPT !.idx = next, !.ridx = ridx]
  BY DEF AdvanceCalendar
<1> HIDE DEF next, ridx
<1> QED
  BY <1>1, <1>2 DEF TdqType

(* tdq_setlowpri never leaves a worse priority than the one that runs. *)
LEMMA SetLowpriBound ==
  ASSUME NEW q \in GoodTdq, NEW p \in Pri, NEW prio \in [Thread -> Pri]
  PROVE  LET n == SetLowpri(q, p, prio) IN
         /\ n.lowpri <= p
         /\ n.rq = q.rq /\ n.load = q.load /\ n.ipipending = q.ipipending
         /\ n.transferable = q.transferable
<1> DEFINE best == TdqChoose(q)
           low  == IF best = NoThread THEN p ELSE IF prio[best] > p THEN p ELSE prio[best]
<1>1. best \in Thread \cup {NoThread} /\ q \in TdqType
  BY TdqChooseType DEF GoodTdq
<1>2. SetLowpri(q, p, prio) = [q EXCEPT !.lowpri = low]
  BY DEF SetLowpri
<1> HIDE DEF best
<1>3. low <= p
  <2>1. p \in Int /\ (best # NoThread => prio[best] \in Int)
    BY <1>1 DEF Pri
  <2> QED
    BY <2>1
<1> HIDE DEF low
<1> QED
  BY <1>1, <1>2, <1>3 DEF TdqType


(* The state between two critical sections. *)
SysType ==
  [tdq : [CPU -> GoodTdq], td : [Thread -> ThreadType],
   cur : [CPU -> Thread \cup {NoThread}], ipi : [CPU -> BOOLEAN]]

(* The inductive invariant. *)
Inv == Sys \in SysType /\ pend \in [CPU -> PendType]

(* It is made of the two invariants the theorems below state. *)
LEMMA InvIsInvariants == Inv <=> TypeOK /\ QueuesSound
<1>1. Sys \in SysType <=> /\ tdq \in [CPU -> GoodTdq]
                          /\ td \in [Thread -> ThreadType]
                          /\ cur \in [CPU -> Thread \cup {NoThread}]
                          /\ ipi \in [CPU -> BOOLEAN]
  BY DEF Sys, SysType
<1>2. tdq \in [CPU -> GoodTdq]
        <=> tdq \in [CPU -> TdqType] /\ \A c \in CPU : BitsExact(tdq[c]) /\ Calendar(tdq[c])
  BY DEF GoodTdq
<1> QED
  BY <1>1, <1>2 DEF Inv, TypeOK, QueuesSound

(***************************************************************************)
(* The parts of the state.                                                 *)
(***************************************************************************)
(* A state is made of sound thread queues and of threads. *)
LEMMA SysParts ==
  ASSUME NEW s \in SysType
  PROVE  /\ \A c \in CPU : /\ s.tdq[c] \in GoodTdq
                           /\ s.cur[c] \in Thread \cup {NoThread}
                           /\ s.ipi[c] \in BOOLEAN
                           /\ CurPri(s, c) \in Pri
         /\ \A t \in Thread : s.td[t] \in ThreadType
         /\ Prio(s) \in [Thread -> Pri]
<1>1. /\ \A c \in CPU : /\ s.tdq[c] \in GoodTdq
                        /\ s.cur[c] \in Thread \cup {NoThread}
                        /\ s.ipi[c] \in BOOLEAN
      /\ \A t \in Thread : s.td[t] \in ThreadType
  BY DEF SysType
<1>2. \A t \in Thread : s.td[t].pri \in Pri
  BY <1>1 DEF ThreadType
<1>3. MaxPri \in Pri
  BY TdqAssumption DEF Pri
<1> QED
  BY <1>1, <1>2, <1>3 DEF CurPri, Prio

(* The fields of a thread that the scheduler's functions read. *)
LEMMA ThreadParts ==
  ASSUME NEW r \in ThreadType
  PROVE  /\ r.pri \in Pri /\ r.base \in Pri /\ r.user \in Pri
         /\ r.cpu \in CPU /\ r.mask \subseteq CPU /\ r.mask # {}
         /\ r.runq \in RunqName \cup {"none"} /\ r.rqindex \in Idx
         /\ r.xferable \in BOOLEAN /\ r.pinned \in BOOLEAN /\ r.bound \in BOOLEAN
         /\ r.borrowing \in BOOLEAN /\ r.slice \in Int
         /\ r.needresched \in BOOLEAN /\ r.sliceend \in BOOLEAN
         /\ r.owepreempt \in BOOLEAN
BY DEF ThreadType

(* Replacing one part of the state by a value of its type keeps the type. *)
LEMMA SetTdqType ==
  ASSUME NEW s \in SysType, NEW c \in CPU, NEW q \in GoodTdq
  PROVE  SetTdq(s, c, q) \in SysType
BY DEF SetTdq, SysType

(* A thread is replaced by a thread. *)
LEMMA SetTdType ==
  ASSUME NEW s \in SysType, NEW t \in Thread, NEW r \in ThreadType
  PROVE  SetTd(s, t, r) \in SysType
BY DEF SetTd, SysType

(* An IPI is sent or taken. *)
LEMMA SetIpiType ==
  ASSUME NEW s \in SysType, NEW c \in CPU, NEW b \in BOOLEAN
  PROVE  [s EXCEPT !.ipi[c] = b] \in SysType
BY DEF SysType

(* A CPU changes its current thread. *)
LEMMA SetCurType ==
  ASSUME NEW s \in SysType, NEW c \in CPU, NEW t \in Thread \cup {NoThread}
  PROVE  [s EXCEPT !.cur[c] = t] \in SysType
BY DEF SysType

(* A critical section that ends in a state of the type keeps the           *)
(* invariant.                                                              *)
LEMMA SettleInv ==
  ASSUME Inv, NEW s \in SysType, Settle(s)
  PROVE  Inv'
<1>1. tdq' = s.tdq /\ td' = s.td /\ cur' = s.cur /\ ipi' = s.ipi /\ pend' = pend
  BY DEF Settle, Becomes
<1>2. Sys' = s
  BY <1>1 DEF Sys, SysType
<1> QED
  BY <1>1, <1>2 DEF Inv

(* So does one that leaves a CPU with the rest of its work to do. *)
LEMMA PendInv ==
  ASSUME Inv, NEW s \in SysType, NEW c \in CPU, NEW p \in PendType, Becomes(s),
         pend' = [pend EXCEPT ![c] = p]
  PROVE  Inv'
<1>1. tdq' = s.tdq /\ td' = s.td /\ cur' = s.cur /\ ipi' = s.ipi
  BY DEF Becomes
<1>2. Sys' = s
  BY <1>1 DEF Sys, SysType
<1>3. pend' \in [CPU -> PendType]
  BY DEF Inv
<1> QED
  BY <1>2, <1>3 DEF Inv

(***************************************************************************)
(* The functions of the scheduler.                                         *)
(***************************************************************************)
(* tdq_runq_add *)
LEMMA RunqAddType ==
  ASSUME NEW s \in SysType, NEW c \in CPU, NEW t \in Thread, NEW flags
  PROVE  RunqAdd(s, c, t, flags) \in SysType
<1> DEFINE q    == s.tdq[c]
           p    == s.td[t].pri
           mov  == ~ s.td[t].pinned
           slot == SlotOf(q, p, flags)
           queue == Enqueue(q, t, flags, Prio(s), mov)
           r    == [s.td[t] EXCEPT !.state = "runq", !.runq = RunqOf(p),
                                   !.rqindex = slot, !.xferable = mov]
<1>1. /\ q \in GoodTdq /\ s.td[t] \in ThreadType /\ p \in Pri
      /\ Prio(s) \in [Thread -> Pri]
  BY SysParts, ThreadParts
<1>2. mov \in BOOLEAN
  OBVIOUS
<1>3. slot \in Idx
  BY <1>1, SlotOfIdx DEF GoodTdq
<1>4. RunqOf(p) \in RunqName
  BY DEF RunqOf, RunqName
<1>5. RunqAdd(s, c, t, flags) = SetTd(SetTdq(s, c, queue), t, r)
  BY DEF RunqAdd, SetBoth
<1> HIDE DEF q, p, mov, slot
<1>6. queue \in GoodTdq
  BY <1>1, <1>2, EnqueueGood
<1>7. r \in ThreadType
  BY <1>1, <1>2, <1>3, <1>4 DEF ThreadType
<1> HIDE DEF queue, r
<1> QED
  BY <1>5, <1>6, <1>7, SetTdqType, SetTdType

(* tdq_runq_rem *)
LEMMA RunqRemType ==
  ASSUME NEW s \in SysType, NEW c \in CPU, NEW t \in Thread,
         NEW state \in {"inactive", "sleeping", "canrun", "runq", "running"}
  PROVE  RunqRem(s, c, t, state) \in SysType
<1> DEFINE old == s.td[t]
           queue == Dequeue(s.tdq[c], t, old.runq, old.rqindex, old.xferable)
           r   == [old EXCEPT !.state = state, !.runq = "none", !.rqindex = 0,
                              !.xferable = FALSE]
<1>1. s.tdq[c] \in GoodTdq /\ old \in ThreadType
  BY SysParts
<1>2. RunqRem(s, c, t, state) = SetTd(SetTdq(s, c, queue), t, r)
  BY DEF RunqRem, SetBoth
<1> HIDE DEF old
<1>3. /\ old.runq \in RunqName \cup {"none"} /\ old.rqindex \in Idx
      /\ old.xferable \in BOOLEAN
  BY <1>1, ThreadParts
<1>4. queue \in GoodTdq
  BY <1>1, <1>3, DequeueGood
<1>5. 0 \in Idx
  BY RunqAssumption DEF Idx
<1>6. r \in ThreadType
  BY <1>1, <1>5 DEF ThreadType
<1> HIDE DEF queue, r
<1> QED
  BY <1>2, <1>4, <1>6, SetTdqType, SetTdType

(* tdq_load_add and tdq_load_rem *)
LEMMA LoadAddType ==
  ASSUME NEW s \in SysType, NEW c \in CPU, NEW n \in Int
  PROVE  LoadAdd(s, c, n) \in SysType
<1>1. s.tdq[c] \in GoodTdq
  BY SysParts
<1>2. s.tdq[c].load + n \in Int
  BY <1>1, CountersGood
<1>3. [s.tdq[c] EXCEPT !.load = s.tdq[c].load + n] \in GoodTdq
  BY <1>1, <1>2, CountersGood
<1>4. LoadAdd(s, c, n) = SetTdq(s, c, [s.tdq[c] EXCEPT !.load = s.tdq[c].load + n])
  BY DEF LoadAdd
<1> QED
  BY <1>3, <1>4, SetTdqType

(* The first half of tdq_add. *)
LEMMA LowerLowpriType ==
  ASSUME NEW s \in SysType, NEW c \in CPU, NEW p \in Pri
  PROVE  LowerLowpri(s, c, p) \in SysType /\ LowerLowpri(s, c, p).td = s.td
<1> DEFINE low == IF p < s.tdq[c].lowpri THEN p ELSE s.tdq[c].lowpri
<1>1. s.tdq[c] \in GoodTdq
  BY SysParts
<1>2. low \in Pri
  BY <1>1, CountersGood
<1>3. LowerLowpri(s, c, p) = SetTdq(s, c, [s.tdq[c] EXCEPT !.lowpri = low])
  BY DEF LowerLowpri
<1> HIDE DEF low
<1>4. [s.tdq[c] EXCEPT !.lowpri = low] \in GoodTdq
  BY <1>1, <1>2, CountersGood
<1>5. LowerLowpri(s, c, p).td = s.td
  BY <1>3 DEF SetTdq, SysType
<1> QED
  BY <1>3, <1>4, <1>5, SetTdqType

(* tdq_add *)
LEMMA TdqAddType ==
  ASSUME NEW s \in SysType, NEW c \in CPU, NEW t \in Thread, NEW flags
  PROVE  TdqAdd(s, c, t, flags) \in SysType
<1> DEFINE lowered == LowerLowpri(s, c, s.td[t].pri)
<1>1. lowered \in SysType
  BY SysParts, ThreadParts, LowerLowpriType
<1> HIDE DEF lowered
<1>2. RunqAdd(lowered, c, t, flags) \in SysType
  BY <1>1, RunqAddType
<1> QED
  BY <1>2, LoadAddType DEF TdqAdd, lowered

(* sched_rem *)
LEMMA SchedRemType ==
  ASSUME NEW s \in SysType, NEW t \in Thread
  PROVE  SchedRem(s, t) \in SysType
<1> DEFINE c   == s.td[t].cpu
           out == LoadAdd(RunqRem(s, c, t, "canrun"), c, -1)
           low == SetLowpri(out.tdq[c], CurPri(out, c), Prio(out))
<1>1. c \in CPU
  BY SysParts, ThreadParts
<1> HIDE DEF c
<1>2. out \in SysType
  BY <1>1, RunqRemType, LoadAddType
<1> HIDE DEF out
<1>3. /\ out.tdq[c] \in GoodTdq /\ CurPri(out, c) \in Pri
      /\ Prio(out) \in [Thread -> Pri]
  BY <1>1, <1>2, SysParts
<1>4. low \in GoodTdq
  BY <1>3, SetLowpriGood
<1> HIDE DEF low
<1>5. SetTdq(out, c, low) \in SysType
  BY <1>1, <1>2, <1>4, SetTdqType
<1>6. SchedRem(s, t) = out \/ SchedRem(s, t) = SetTdq(out, c, low)
  BY DEF SchedRem, out, low, c
<1> QED
  BY <1>2, <1>5, <1>6

(* tdq_notify *)
LEMMA NotifyType ==
  ASSUME NEW s \in SysType, NEW c \in CPU, NEW t \in Thread, NEW wired
  PROVE  Notify(s, c, t, wired) \in SysType
<1> DEFINE q == [s.tdq[c] EXCEPT !.ipipending = TRUE]
<1>1. q \in GoodTdq
  BY SysParts, CountersGood
<1> HIDE DEF q
<1>2. SetTdq(s, c, q) \in SysType
  BY <1>1, SetTdqType
<1>3. [SetTdq(s, c, q) EXCEPT !.ipi[c] = TRUE] \in SysType
  BY <1>2, SetIpiType
<1>4. \/ Notify(s, c, t, wired) = s
      \/ Notify(s, c, t, wired) = [SetTdq(s, c, q) EXCEPT !.ipi[c] = TRUE]
  BY DEF Notify, q
<1> QED
  BY <1>3, <1>4

(* sched_setpreempt *)
LEMMA SetPreemptType ==
  ASSUME NEW s \in SysType, NEW c \in CPU, NEW t \in Thread
  PROVE  SetPreempt(s, c, t) \in SysType
<1>1. CASE s.cur[c] = NoThread
  BY <1>1 DEF SetPreempt
<1>2. CASE s.cur[c] # NoThread
  <2> DEFINE x   == s.cur[c]
             owe == ShouldPreempt(s.td[t].pri, CurPri(s, c), FALSE)
             r   == [s.td[x] EXCEPT !.needresched = TRUE,
                                    !.owepreempt = s.td[x].owepreempt \/ owe]
  <2>1. x \in Thread
    BY <1>2, SysParts
  <2>2. s.td[x] \in ThreadType /\ s.td[x].owepreempt \in BOOLEAN
    BY <2>1, SysParts, ThreadParts
  <2>3. owe \in BOOLEAN
    BY DEF ShouldPreempt
  <2> HIDE DEF owe
  <2>4. r \in ThreadType
    <3> DEFINE b == s.td[x].owepreempt \/ owe
    <3>1. b \in BOOLEAN
      BY <2>2, <2>3
    <3> HIDE DEF b, x
    <3>2. [s.td[x] EXCEPT !.needresched = TRUE, !.owepreempt = b] \in ThreadType
      BY <2>2, <3>1 DEF ThreadType
    <3> QED
      BY <3>2 DEF b
  <2> HIDE DEF r
  <2>5. SetTd(s, x, r) \in SysType
    BY <2>1, <2>4, SetTdType
  <2>6. SetPreempt(s, c, t) = s \/ SetPreempt(s, c, t) = SetTd(s, x, r)
    BY DEF SetPreempt, r, owe
  <2> QED
    BY <2>5, <2>6
<1> QED
  BY <1>1, <1>2

(* The end of sched_add. *)
LEMMA AddToType ==
  ASSUME NEW s \in SysType, NEW c \in CPU, NEW d \in CPU, NEW t \in Thread,
         NEW flags, NEW wired
  PROVE  AddTo(s, c, d, t, flags, wired) \in SysType
<1>1. TdqAdd(s, d, t, flags) \in SysType
  BY TdqAddType
<1> QED
  BY <1>1, SetPreemptType, NotifyType DEF AddTo

(* choosethread: the thread switched to was on a list. *)
LEMMA ChooseType ==
  ASSUME NEW s \in SysType, NEW c \in CPU
  PROVE  Choose(s, c) \in SysType
<1> DEFINE t   == TdqChoose(s.tdq[c])
           low == IF t = NoThread THEN MaxPri ELSE s.td[t].pri
           q   == [s.tdq[c] EXCEPT !.lowpri = low]
           on  == [s EXCEPT !.cur[c] = t, !.tdq[c].lowpri = low]
<1>1. s.tdq[c] \in GoodTdq
  BY SysParts
<1>2. t \in Thread \cup {NoThread}
  BY <1>1, TdqChooseType
<1>3. low \in Pri
  BY <1>2, SysParts, ThreadParts, TdqAssumption DEF Pri
<1>4. q \in GoodTdq
  <2> HIDE DEF low
  <2> QED
    BY <1>1, <1>3, CountersGood
<1>5. on = SetTdq([s EXCEPT !.cur[c] = t], c, q)
  <2> HIDE DEF low, t
  <2> QED
    BY DEF SetTdq, SysType
<1>6. on \in SysType
  <2> HIDE DEF t, q, on
  <2> QED
    BY <1>2, <1>4, <1>5, SetCurType, SetTdqType
<1>7. \/ Choose(s, c) = on
      \/ t # NoThread /\ Choose(s, c) = RunqRem(on, c, t, "running")
  BY DEF Choose
<1> HIDE DEF on, t
<1> QED
  BY <1>2, <1>6, <1>7, RunqRemType

(* tdq_move *)
LEMMA MoveType ==
  ASSUME NEW s \in SysType, NEW t \in Thread, NEW c \in CPU
  PROVE  Move(s, t, c) \in SysType
<1> DEFINE out == SchedRem(s, t)
           r   == [out.td[t] EXCEPT !.cpu = c]
<1>1. out \in SysType
  BY SchedRemType
<1> HIDE DEF out
<1>2. r \in ThreadType
  BY <1>1, SysParts DEF ThreadType
<1> HIDE DEF r
<1>3. SetTd(out, t, r) \in SysType
  BY <1>1, <1>2, SetTdType
<1> QED
  BY <1>3, TdqAddType DEF Move, out, r

(* The running case of sched_thread_priority. *)
LEMMA RunningPriorityType ==
  ASSUME NEW s \in SysType, NEW t \in Thread, NEW p \in Pri
  PROVE  RunningPriority(s, t, p) \in SysType
<1> DEFINE c   == s.td[t].cpu
           q   == s.tdq[c]
           r   == [s.td[t] EXCEPT !.pri = p]
           out == SetTd(s, t, r)
           low == SetLowpri(q, p, Prio(out))
<1>1. s.td[t] \in ThreadType
  BY SysParts
<1>2. c \in CPU
  BY <1>1, ThreadParts
<1>3. r \in ThreadType
  BY <1>1 DEF ThreadType
<1> HIDE DEF c, r
<1>4. q \in GoodTdq
  BY <1>2, SysParts
<1>5. out \in SysType
  BY <1>3, SetTdType
<1> HIDE DEF q, out
<1>6. low \in GoodTdq
  BY <1>4, <1>5, SysParts, SetLowpriGood
<1>7. [q EXCEPT !.lowpri = p] \in GoodTdq
  BY <1>4, CountersGood
<1> HIDE DEF low
<1>8. /\ SetTdq(out, c, low) \in SysType
      /\ SetTdq(out, c, [q EXCEPT !.lowpri = p]) \in SysType
  BY <1>2, <1>5, <1>6, <1>7, SetTdqType
<1>9. \/ RunningPriority(s, t, p) = out
      \/ RunningPriority(s, t, p) = SetTdq(out, c, low)
      \/ RunningPriority(s, t, p) = SetTdq(out, c, [q EXCEPT !.lowpri = p])
  BY DEF RunningPriority, out, low, q, c, r
<1> QED
  BY <1>5, <1>8, <1>9

(***************************************************************************)
(* What several actions share.                                             *)
(***************************************************************************)
LEMMA UserPrisPri ==
  ASSUME NEW t \in Thread
  PROVE  UserPris[t] \subseteq Pri
BY UleAssumption

(* sched_priority recomputes the user priority. *)
LEMMA RescoredType ==
  ASSUME NEW r \in ThreadType, NEW u \in Pri
  PROVE  Rescored(r, u) \in ThreadType
BY DEF Rescored, ThreadType

(* Replacing the flags, the slice and the place of a thread. *)
LEMMA FieldsType ==
  ASSUME NEW r \in ThreadType, NEW b \in BOOLEAN, NEW k \in Int, NEW d \in CPU
  PROVE  /\ [r EXCEPT !.borrowing = b] \in ThreadType
         /\ [r EXCEPT !.slice = k, !.needresched = b, !.sliceend = b] \in ThreadType
         /\ [r EXCEPT !.slice = k, !.state = "canrun", !.cpu = d] \in ThreadType
BY DEF ThreadType

(* sched_switch clears the request flags. *)
LEMMA UnflagType ==
  ASSUME NEW r \in ThreadType
  PROVE  Unflag(r) \in ThreadType
BY DEF Unflag, ThreadType

(* What is left to do names a thread. *)
LEMMA PendParts ==
  ASSUME Inv, NEW c \in CPU, pend[c].step # "run"
  PROVE  pend[c].thread \in Thread
<1>1. pend[c] \in PendType
  BY DEF Inv
<1>2. pend[c] # NoPend
  BY DEF NoPend
<1> QED
  BY <1>1, <1>2 DEF PendType

(* What sched_setcpu, sched_switch and tdq_trysteal leave to do. *)
LEMMA PendRecord ==
  ASSUME NEW step \in {"setcpu", "migrate", "trysteal"}, NEW t \in Thread,
         NEW flags \in SUBSET Flag
  PROVE  [step |-> step, thread |-> t, flags |-> flags] \in PendType
BY DEF PendType

(* A CPU finishes what it had left to do. *)
LEMMA DoneInv ==
  ASSUME Inv, NEW s \in SysType, NEW c \in CPU, Becomes(s),
         pend' = [pend EXCEPT ![c] = NoPend]
  PROVE  Inv'
<1>1. NoPend \in PendType
  BY DEF PendType
<1> QED
  BY <1>1, PendInv

(* sched_switch of a thread that is still running. *)
LEMMA SwitchRunningInv ==
  ASSUME Inv, NEW s \in SysType, NEW c \in CPU, s.cur[c] # NoThread, NEW preempt,
         SwitchRunning(s, c, preempt)
  PROVE  Inv'
<1> DEFINE t     == s.cur[c]
           r     == s.td[t]
           flags == IF preempt /\ ~ r.sliceend THEN {"PREEMPTED"} ELSE {}
           out   == SetTd(s, t, Unflag(r))
           gone(d) == LoadAdd(SetTd(out, t, [out.td[t] EXCEPT !.cpu = d]), c, -1)
<1>1. t \in Thread
  BY SysParts
<1> HIDE DEF t
<1>2. r \in ThreadType
  BY <1>1, SysParts
<1>3. flags \in SUBSET Flag
  BY DEF Flag
<1>4. out \in SysType
  BY <1>1, <1>2, UnflagType, SetTdType
<1>5. PICK d \in IF r.pinned \/ r.cpu \in r.mask THEN {r.cpu} ELSE r.mask :
        IF d = c THEN \E n \in {RunqAdd(out, c, t, flags)} : Settle(Choose(n, c))
        ELSE /\ Becomes(gone(d))
             /\ pend' = [pend EXCEPT ![c] =
                          [step |-> "migrate", thread |-> t, flags |-> flags]]
  BY DEF SwitchRunning, t
<1>6. d \in CPU
  BY <1>2, <1>5, ThreadParts
<1> HIDE DEF r, flags, out
<1>7. CASE d = c
  <2>1. Settle(Choose(RunqAdd(out, c, t, flags), c))
    BY <1>5, <1>7
  <2>2. Choose(RunqAdd(out, c, t, flags), c) \in SysType
    BY <1>1, <1>4, RunqAddType, ChooseType
  <2> QED
    BY <2>1, <2>2, SettleInv
<1>8. CASE d # c
  <2>1. /\ Becomes(gone(d))
        /\ pend' = [pend EXCEPT ![c] =
                     [step |-> "migrate", thread |-> t, flags |-> flags]]
    BY <1>5, <1>8
  <2>2. [out.td[t] EXCEPT !.cpu = d] \in ThreadType
    BY <1>1, <1>4, <1>6, SysParts DEF ThreadType
  <2>3. gone(d) \in SysType
    BY <1>1, <1>4, <2>2, SetTdType, LoadAddType
  <2>4. [step |-> "migrate", thread |-> t, flags |-> flags] \in PendType
    BY <1>1, <1>3, PendRecord
  <2> QED
    BY <2>1, <2>3, <2>4, PendInv
<1> QED
  BY <1>7, <1>8

(* sched_switch, also from the idle thread. *)
LEMMA SwitchOutInv ==
  ASSUME Inv, NEW s \in SysType, NEW c \in CPU, NEW preempt, SwitchOut(s, c, preempt)
  PROVE  Inv'
<1>1. CASE s.cur[c] = NoThread
  BY <1>1, ChooseType, SettleInv DEF SwitchOut
<1>2. CASE s.cur[c] # NoThread
  BY <1>2, SwitchRunningInv DEF SwitchOut
<1> QED
  BY <1>1, <1>2

(* sched_rem and sched_add of a queued thread, which may be left half done *)
(* when the thread changes its CPU.                                        *)
LEMMA ReaddInv ==
  ASSUME Inv, NEW s \in SysType, NEW c \in CPU, NEW t \in Thread, NEW p \in Pri,
         NEW flags \in SUBSET Flag, Readd(s, c, t, p, flags)
  PROVE  Inv'
<1> DEFINE out     == SchedRem(s, t)
           r(d, u) == [Rescored(out.td[t], u) EXCEPT !.pri = p, !.cpu = d]
<1>1. PICK d \in PickCpu(s.td[t]), u \in UserPris[t] :
        IF d = s.td[t].cpu
        THEN \E wired \in IdleIpi :
               Settle(AddTo(SetTd(out, t, r(d, u)), c, d, t, flags, wired))
        ELSE /\ Becomes(SetTd(out, t, r(d, u)))
             /\ pend' = [pend EXCEPT ![c] =
                          [step |-> "setcpu", thread |-> t, flags |-> flags]]
  BY DEF Readd
<1>2. d \in CPU
  BY <1>1, SysParts, ThreadParts DEF PickCpu
<1>3. u \in Pri
  BY <1>1, UserPrisPri
<1>4. out \in SysType
  BY SchedRemType
<1> HIDE DEF out
<1>5. Rescored(out.td[t], u) \in ThreadType
  BY <1>3, <1>4, SysParts, RescoredType
<1>6. r(d, u) \in ThreadType
  BY <1>2, <1>5 DEF ThreadType
<1> HIDE DEF r
<1>7. SetTd(out, t, r(d, u)) \in SysType
  BY <1>4, <1>6, SetTdType
<1>8. CASE d = s.td[t].cpu
  <2>1. PICK wired \in IdleIpi :
          Settle(AddTo(SetTd(out, t, r(d, u)), c, d, t, flags, wired))
    BY <1>1, <1>8
  <2>2. AddTo(SetTd(out, t, r(d, u)), c, d, t, flags, wired) \in SysType
    BY <1>2, <1>7, AddToType
  <2> QED
    BY <2>1, <2>2, SettleInv
<1>9. CASE d # s.td[t].cpu
  <2>1. /\ Becomes(SetTd(out, t, r(d, u)))
        /\ pend' = [pend EXCEPT ![c] =
                     [step |-> "setcpu", thread |-> t, flags |-> flags]]
    BY <1>1, <1>9
  <2>2. [step |-> "setcpu", thread |-> t, flags |-> flags] \in PendType
    BY PendRecord
  <2> QED
    BY <1>7, <2>1, <2>2, PendInv
<1> QED
  BY <1>8, <1>9

(* sched_thread_priority *)
LEMMA ThreadPriorityInv ==
  ASSUME Inv, NEW s \in SysType, NEW c \in CPU, NEW t \in Thread, NEW p \in Pri,
         ThreadPriority(s, c, t, p)
  PROVE  Inv'
<1> DEFINE r == [s.td[t] EXCEPT !.pri = p]
<1>1. r \in ThreadType
  BY SysParts DEF ThreadType
<1> HIDE DEF r
<1>2. SetTd(s, t, r) \in SysType
  BY <1>1, SetTdType
<1>3. RunningPriority(s, t, p) \in SysType
  BY RunningPriorityType
<1>4. \/ Settle(s)
      \/ Readd(s, c, t, p, {"BORROWING"})
      \/ Settle(RunningPriority(s, t, p))
      \/ Settle(SetTd(s, t, r))
  BY DEF ThreadPriority, r
<1>5. {"BORROWING"} \in SUBSET Flag
  BY DEF Flag
<1> QED
  BY <1>2, <1>3, <1>4, <1>5, SettleInv, ReaddInv

(* sched_prio *)
LEMMA SchedPrioInv ==
  ASSUME Inv, NEW s \in SysType, NEW c \in CPU, NEW t \in Thread, NEW p \in Pri,
         SchedPrio(s, c, t, p)
  PROVE  Inv'
<1> DEFINE r == [s.td[t] EXCEPT !.base = p]
<1>1. r \in ThreadType
  BY SysParts DEF ThreadType
<1> HIDE DEF r
<1>2. SetTd(s, t, r) \in SysType
  BY <1>1, SetTdType
<1>3. Settle(SetTd(s, t, r)) \/ ThreadPriority(SetTd(s, t, r), c, t, p)
  BY DEF SchedPrio, r
<1> QED
  BY <1>2, <1>3, SettleInv, ThreadPriorityInv

(* sched_lend_prio *)
LEMMA LendPrioInv ==
  ASSUME Inv, NEW s \in SysType, NEW c \in CPU, NEW t \in Thread, NEW p \in Pri,
         LendPrio(s, c, t, p)
  PROVE  Inv'
<1> DEFINE r == [s.td[t] EXCEPT !.borrowing = TRUE]
<1>1. s.td[t] \in ThreadType /\ s.td[t].cpu \in CPU /\ 0 \in Int /\ TRUE \in BOOLEAN
  BY SysParts, ThreadParts
<1>2. r \in ThreadType
  BY <1>1, FieldsType
<1> HIDE DEF r
<1>3. SetTd(s, t, r) \in SysType
  BY <1>2, SetTdType
<1> QED
  BY <1>3, ThreadPriorityInv DEF LendPrio, r

(***************************************************************************)
(* The actions, one lemma each.                                            *)
(***************************************************************************)
LEMMA SysIsSys ==
  ASSUME Inv
  PROVE  /\ Sys \in SysType /\ Sys.tdq = tdq /\ Sys.td = td /\ Sys.cur = cur
         /\ \A c \in CPU : tdq[c] \in GoodTdq /\ cur[c] \in Thread \cup {NoThread}
         /\ \A t \in Thread : td[t] \in ThreadType
BY DEF Inv, Sys, SysType

(* The current thread of a busy CPU. *)
LEMMA BusyParts ==
  ASSUME Inv, NEW c \in CPU, Busy(c)
  PROVE  cur[c] \in Thread /\ td[cur[c]] \in ThreadType
BY SysIsSys DEF Busy

(* sched_relinquish *)
LEMMA RelinquishInv ==
  ASSUME Inv, NEW c \in CPU, Relinquish(c)
  PROVE  Inv'
BY SysIsSys, SwitchOutInv DEF Relinquish

(* critical_exit_preempt *)
LEMMA CriticalExitInv ==
  ASSUME Inv, NEW c \in CPU, CriticalExit(c)
  PROVE  Inv'
BY SysIsSys, SwitchOutInv DEF CriticalExit

(* The switch in sched_idletd. *)
LEMMA IdleSwitchInv ==
  ASSUME Inv, NEW c \in CPU, IdleSwitch(c)
  PROVE  Inv'
BY SysIsSys, SwitchOutInv DEF IdleSwitch

(* The second half of sched_switch_migrate. *)
LEMMA MigrateDoneInv ==
  ASSUME Inv, NEW c \in CPU, MigrateDone(c)
  PROVE  Inv'
<1> DEFINE t     == pend[c].thread
           d     == td[t].cpu
           added == TdqAdd(Sys, d, t, pend[c].flags)
<1>1. /\ pend[c].step = "migrate"
      /\ \E wired \in IdleIpi :
           \E n \in {Notify(added, d, t, wired)} : Becomes(Choose(n, c))
      /\ pend' = [pend EXCEPT ![c] = NoPend]
  BY DEF MigrateDone
<1>2. t \in Thread
  BY <1>1, PendParts
<1> HIDE DEF t
<1>3. d \in CPU
  BY <1>2, SysIsSys, ThreadParts
<1> HIDE DEF d
<1>4. added \in SysType
  BY <1>2, <1>3, SysIsSys, TdqAddType
<1> HIDE DEF added
<1>5. PICK wired \in IdleIpi : Becomes(Choose(Notify(added, d, t, wired), c))
  BY <1>1
<1>6. Choose(Notify(added, d, t, wired), c) \in SysType
  BY <1>2, <1>3, <1>4, NotifyType, ChooseType
<1> QED
  BY <1>1, <1>5, <1>6, DoneInv

(* The second half of sched_setcpu. *)
LEMMA SetcpuDoneInv ==
  ASSUME Inv, NEW c \in CPU, SetcpuDone(c)
  PROVE  Inv'
<1> DEFINE t == pend[c].thread
           d == td[t].cpu
<1>1. /\ pend[c].step = "setcpu"
      /\ \E wired \in IdleIpi : Becomes(AddTo(Sys, c, d, t, pend[c].flags, wired))
      /\ pend' = [pend EXCEPT ![c] = NoPend]
  BY DEF SetcpuDone
<1>2. t \in Thread
  BY <1>1, PendParts
<1> HIDE DEF t
<1>3. d \in CPU
  BY <1>2, SysIsSys, ThreadParts
<1> HIDE DEF d
<1>4. PICK wired \in IdleIpi : Becomes(AddTo(Sys, c, d, t, pend[c].flags, wired))
  BY <1>1
<1>5. AddTo(Sys, c, d, t, pend[c].flags, wired) \in SysType
  BY <1>2, <1>3, SysIsSys, AddToType
<1> QED
  BY <1>1, <1>4, <1>5, DoneInv

(* sched_preempt *)
LEMMA PreemptIpiInv ==
  ASSUME Inv, NEW c \in CPU, PreemptIpi(c)
  PROVE  Inv'
<1> DEFINE q    == [tdq[c] EXCEPT !.ipipending = FALSE]
           seen == [SetTdq(Sys, c, q) EXCEPT !.ipi[c] = FALSE]
           owes == [td[cur[c]] EXCEPT !.owepreempt = TRUE]
<1>1. q \in GoodTdq
  BY SysIsSys, CountersGood
<1> HIDE DEF q
<1>2. SetTdq(Sys, c, q) \in SysType
  BY <1>1, SysIsSys, SetTdqType
<1>3. seen \in SysType
  BY <1>2, SetIpiType
<1>4. \/ Settle(seen)
      \/ SwitchOut(seen, c, TRUE)
      \/ cur[c] # NoThread /\ Settle(SetTd(seen, cur[c], owes))
  BY DEF PreemptIpi, q
<1> HIDE DEF seen
<1>5. ASSUME cur[c] # NoThread
      PROVE  SetTd(seen, cur[c], owes) \in SysType
  <2>1. cur[c] \in Thread
    BY <1>5, SysIsSys
  <2>2. td[cur[c]] \in ThreadType
    BY <2>1, SysIsSys
  <2>3. owes \in ThreadType
    BY <2>2 DEF ThreadType
  <2> QED
    BY <1>3, <2>1, <2>3, SetTdType
<1> QED
  BY <1>3, <1>4, <1>5, SettleInv, SwitchOutInv

(* A turnstile lends a priority. *)
LEMMA LendInv ==
  ASSUME Inv, NEW c \in CPU, NEW t \in Thread, Lend(c, t)
  PROVE  Inv'
<1>1. Busy(c) /\ LendPrio(Sys, c, t, td[cur[c]].pri)
  BY DEF Lend
<1>2. td[cur[c]].pri \in Pri
  BY <1>1, BusyParts, ThreadParts
<1> QED
  BY <1>1, <1>2, SysIsSys, LendPrioInv

(* sched_unlend_prio *)
LEMMA UnlendInv ==
  ASSUME Inv, NEW c \in CPU, NEW p \in Pri, Unlend(c, p)
  PROVE  Inv'
<1> DEFINE t    == cur[c]
           r    == td[t]
           base == IF r.base >= MinInteract /\ r.base <= MaxBatch THEN r.user ELSE r.base
           n    == [r EXCEPT !.borrowing = FALSE]
<1>1. /\ Busy(c)
      /\ \/ ThreadPriority(SetTd(Sys, t, n), c, t, base)
         \/ LendPrio(Sys, c, t, p)
  BY DEF Unlend
<1>2. t \in Thread /\ r \in ThreadType
  BY <1>1, BusyParts
<1> HIDE DEF t, r
<1>3. base \in Pri
  BY <1>2, ThreadParts
<1>4. n \in ThreadType
  BY <1>2 DEF ThreadType
<1> HIDE DEF base, n
<1>5. SetTd(Sys, t, n) \in SysType
  BY <1>2, <1>4, SysIsSys, SetTdType
<1> QED
  BY <1>1, <1>2, <1>3, <1>5, SysIsSys, ThreadPriorityInv, LendPrioInv

(* sched_nice *)
LEMMA NiceInv ==
  ASSUME Inv, NEW c \in CPU, NEW t \in Thread, Nice(c, t)
  PROVE  Inv'
<1>1. PICK u \in UserPris[t] : SchedPrio(SetTd(Sys, t, Rescored(td[t], u)), c, t, u)
  BY DEF Nice
<1>2. u \in Pri
  BY <1>1, UserPrisPri
<1>3. SetTd(Sys, t, Rescored(td[t], u)) \in SysType
  BY <1>2, SysIsSys, RescoredType, SetTdType
<1> QED
  BY <1>1, <1>2, <1>3, SchedPrioInv

(* sched_userret_slowpath *)
LEMMA UserRetInv ==
  ASSUME Inv, NEW c \in CPU, UserRet(c)
  PROVE  Inv'
<1> DEFINE t   == cur[c]
           r   == td[t]
           n   == [r EXCEPT !.pri = r.user, !.base = r.user]
           out == SetTd(Sys, t, n)
           low == SetLowpri(tdq[c], r.user, Prio(out))
<1>1. Busy(c) /\ Settle(SetTdq(out, c, low))
  BY DEF UserRet
<1>2. t \in Thread /\ r \in ThreadType /\ r.user \in Pri
  BY <1>1, BusyParts, ThreadParts
<1> HIDE DEF t, r
<1>3. n \in ThreadType
  BY <1>2 DEF ThreadType
<1> HIDE DEF n
<1>4. out \in SysType
  BY <1>2, <1>3, SysIsSys, SetTdType
<1> HIDE DEF out
<1>5. low \in GoodTdq
  BY <1>2, <1>4, SysIsSys, SysParts, SetLowpriGood
<1> HIDE DEF low
<1> QED
  BY <1>1, <1>4, <1>5, SetTdqType, SettleInv

(* The switch on the way back to user mode. *)
LEMMA AstInv ==
  ASSUME Inv, NEW c \in CPU, Ast(c)
  PROVE  Inv'
<1> DEFINE t     == cur[c]
           r     == td[t]
           b     == [r EXCEPT !.base = r.user]
           based == SetTd(Sys, t, b)
<1>1. /\ Busy(c)
      /\ \/ SwitchOut(based, c, FALSE)
         \/ SwitchOut(RunningPriority(based, t, r.user), c, FALSE)
  BY DEF Ast
<1>2. t \in Thread /\ r \in ThreadType /\ r.user \in Pri
  BY <1>1, BusyParts, ThreadParts
<1> HIDE DEF t, r
<1>3. b \in ThreadType
  BY <1>2 DEF ThreadType
<1> HIDE DEF b
<1>4. based \in SysType
  BY <1>2, <1>3, SysIsSys, SetTdType
<1> HIDE DEF based
<1>5. RunningPriority(based, t, r.user) \in SysType
  BY <1>2, <1>4, RunningPriorityType
<1> QED
  BY <1>1, <1>4, <1>5, SwitchOutInv

(* sched_sleep and the switch after it, with or without an attempt to steal. *)
LEMMA SleepInv ==
  ASSUME Inv, NEW c \in CPU, Sleep(c)
  PROVE  Inv'
<1> DEFINE t     == cur[c]
           r     == td[t]
           boost == Timeshare(t) /\ r.pri > StaticBoost
           b     == [r EXCEPT !.base = StaticBoost]
           calm  == IF boost THEN RunningPriority(SetTd(Sys, t, b), t, StaticBoost)
                    ELSE Sys
           z     == [Unflag(calm.td[t]) EXCEPT !.state = "sleeping"]
           out   == LoadAdd(SetTd(calm, t, z), c, -1)
           p     == [step |-> "trysteal", thread |-> t, flags |-> {}]
<1>1. /\ Busy(c)
      /\ \/ Becomes(out) /\ pend' = [pend EXCEPT ![c] = p]
         \/ Settle(Choose(out, c))
  BY DEF Sleep
<1>2. t \in Thread /\ r \in ThreadType
  BY <1>1, BusyParts
<1>3. StaticBoost \in Pri
  BY UleAssumption
<1> HIDE DEF t, r
<1>4. b \in ThreadType
  BY <1>2, <1>3 DEF ThreadType
<1> HIDE DEF b, boost
<1>5. calm \in SysType
  BY <1>2, <1>3, <1>4, SysIsSys, SetTdType, RunningPriorityType
<1> HIDE DEF calm
<1>6. Unflag(calm.td[t]) \in ThreadType
  BY <1>2, <1>5, SysParts, UnflagType
<1>7. z \in ThreadType
  BY <1>6 DEF ThreadType
<1> HIDE DEF z
<1>8. out \in SysType
  BY <1>2, <1>5, <1>7, SetTdType, LoadAddType
<1>9. p \in PendType
  BY <1>2, PendRecord
<1> HIDE DEF out, p
<1> QED
  BY <1>1, <1>8, <1>9, ChooseType, SettleInv, PendInv

(* A thread that may be taken is a thread. *)
LEMMA StolenThread ==
  ASSUME Inv, NEW c \in CPU, NEW d \in CPU,
         TdqSteal(tdq[d], May(Sys, c)) # NoThread
  PROVE  TdqSteal(tdq[d], May(Sys, c)) \in Thread
<1>1. May(Sys, c) \subseteq Thread
  BY DEF May
<1>2. TdqSteal(tdq[d], May(Sys, c)) \in May(Sys, c) \cup {NoThread}
  BY SysIsSys, TdqStealType
<1> QED
  BY <1>1, <1>2

(* The second half of tdq_trysteal. *)
LEMMA TryStealDoneInv ==
  ASSUME Inv, NEW c \in CPU, TryStealDone(c)
  PROVE  Inv'
<1> DEFINE t(d) == TdqSteal(tdq[d], May(Sys, c))
<1>1. /\ \/ Becomes(Choose(Sys, c))
         \/ \E d \in CPU : t(d) # NoThread /\ Becomes(Choose(Move(Sys, t(d), c), c))
      /\ pend' = [pend EXCEPT ![c] = NoPend]
  BY DEF TryStealDone
<1>2. CASE Becomes(Choose(Sys, c))
  <2>1. Choose(Sys, c) \in SysType
    BY SysIsSys, ChooseType
  <2> QED
    BY <1>1, <1>2, <2>1, DoneInv
<1>3. ASSUME NEW d \in CPU, t(d) # NoThread, Becomes(Choose(Move(Sys, t(d), c), c))
      PROVE  Inv'
  <2>1. t(d) \in Thread
    BY <1>3, StolenThread
  <2>2. Choose(Move(Sys, t(d), c), c) \in SysType
    BY <2>1, SysIsSys, MoveType, ChooseType
  <2> QED
    BY <1>1, <1>3, <2>2, DoneInv
<1> QED
  BY <1>1, <1>2, <1>3

(* tdq_idled *)
LEMMA IdleStealInv ==
  ASSUME Inv, NEW c \in CPU, NEW d \in CPU, IdleSteal(c, d)
  PROVE  Inv'
<1> DEFINE t == TdqSteal(tdq[d], May(Sys, c))
<1>1. t # NoThread /\ SwitchOut(Move(Sys, t, c), c, FALSE)
  BY DEF IdleSteal
<1>2. t \in Thread
  BY <1>1, StolenThread
<1>3. Move(Sys, t, c) \in SysType
  BY <1>2, SysIsSys, MoveType
<1> QED
  BY <1>1, <1>3, SwitchOutInv

(* sched_balance_pair *)
LEMMA BalanceInv ==
  ASSUME Inv, NEW high \in CPU, NEW low \in CPU, Balance(high, low)
  PROVE  Inv'
<1> DEFINE t     == TdqSteal(tdq[high], May(Sys, low))
           moved == Move(Sys, t, low)
<1>1. /\ t # NoThread
      /\ \/ Settle(moved)
         \/ \E wired \in IdleIpi : Settle(Notify(moved, low, t, wired))
  BY DEF Balance
<1>2. t \in Thread
  BY <1>1, StolenThread
<1> HIDE DEF t
<1>3. moved \in SysType
  BY <1>2, SysIsSys, MoveType
<1> HIDE DEF moved
<1>4. \A wired \in IdleIpi : Notify(moved, low, t, wired) \in SysType
  BY <1>2, <1>3, NotifyType
<1> QED
  BY <1>1, <1>3, <1>4, SettleInv

(* sched_wakeup *)
LEMMA WakeupInv ==
  ASSUME Inv, NEW c \in CPU, NEW t \in Thread, Wakeup(c, t)
  PROVE  Inv'
<1> DEFINE r(d, u) == [Rescored(td[t], u) EXCEPT !.slice = 0, !.state = "canrun",
                                                !.cpu = d]
<1>1. PICK d \in PickCpu(td[t]), u \in UserPris[t], wired \in IdleIpi :
        Settle(AddTo(SetTd(Sys, t, r(d, u)), c, d, t, {}, wired))
  BY DEF Wakeup
<1>2. td[t] \in ThreadType
  BY SysIsSys
<1>3. d \in CPU /\ u \in Pri
  BY <1>1, <1>2, ThreadParts, UserPrisPri DEF PickCpu
<1>4. Rescored(td[t], u) \in ThreadType
  BY <1>2, <1>3, RescoredType
<1>5. r(d, u) \in ThreadType
  <2>1. 0 \in Int /\ TRUE \in BOOLEAN
    OBVIOUS
  <2> QED
    BY <1>3, <1>4, <2>1, FieldsType
<1> HIDE DEF r
<1>6. SetTd(Sys, t, r(d, u)) \in SysType
  BY <1>5, SysIsSys, SetTdType
<1>7. AddTo(SetTd(Sys, t, r(d, u)), c, d, t, {}, wired) \in SysType
  BY <1>3, <1>6, AddToType
<1> QED
  BY <1>1, <1>7, SettleInv

(* A thread that does not exist yet. *)
LEMMA UnbornType ==
  ASSUME NEW t
  PROVE  Unborn(t) \in ThreadType
<1>1. /\ BalanceCpu \in CPU /\ MaxPri \in Pri /\ 0 \in Idx
      /\ CPU \in (SUBSET CPU) \ {{}}
  BY UleAssumption, TdqAssumption, RunqAssumption DEF Pri, Idx
<1> QED
  BY <1>1 DEF Unborn, ThreadType

(* tdq_slice gives a number of ticks. *)
LEMMA TdqSliceInt ==
  ASSUME NEW q \in GoodTdq
  PROVE  TdqSlice(q) \in Int
<1>1. q.load \in Int
  BY CountersGood
<1>2. Slice \in Nat /\ SliceMin \in Nat /\ SliceDivisor \in Nat
  BY TdqAssumption
<1>3. ASSUME NEW n \in Int, n > 1
      PROVE  Slice \div n \in Int
  BY <1>2, <1>3
<1>4. CASE q.load - 1 <= 1
  BY <1>2, <1>4 DEF TdqSlice
<1>5. CASE q.load - 1 > 1
  <2>1. Slice \div (q.load - 1) \in Int
    BY <1>1, <1>3, <1>5
  <2> QED
    BY <1>2, <2>1 DEF TdqSlice
<1> QED
  BY <1>1, <1>4, <1>5

(* sched_fork and the sched_add that follows. *)
LEMMA ForkInv ==
  ASSUME Inv, NEW c \in CPU, NEW t \in Thread, Fork(c, t)
  PROVE  Inv'
<1> DEFINE p      == cur[c]
           parent == td[p]
           slice  == TdqSlice(tdq[c]) - SliceMin
           child(u, d) == [Unborn(t) EXCEPT
                             !.state = "canrun", !.pri = parent.base,
                             !.base = parent.base, !.user = u, !.cpu = d,
                             !.mask = parent.mask, !.slice = slice]
           forked(v, u, d) == SetTd(SetTd(Sys, p, Rescored(parent, v)), t, child(u, d))
<1>1. /\ Busy(c)
      /\ \E v \in UserPris[p], u \in UserPris[t], wired \in IdleIpi :
         \E d \in parent.mask : Settle(AddTo(forked(v, u, d), c, d, t, {}, wired))
  BY DEF Fork
<1>2. p \in Thread /\ parent \in ThreadType
  BY <1>1, BusyParts
<1>3. slice \in Int
  <2>1. TdqSlice(tdq[c]) \in Int
    BY SysIsSys, TdqSliceInt
  <2> QED
    BY <2>1, TdqAssumption
<1> HIDE DEF p, parent, slice
<1>4. PICK v \in UserPris[p], u \in UserPris[t], wired \in IdleIpi :
        \E d \in parent.mask : Settle(AddTo(forked(v, u, d), c, d, t, {}, wired))
  BY <1>1
<1>5. PICK d \in parent.mask : Settle(AddTo(forked(v, u, d), c, d, t, {}, wired))
  BY <1>4
<1>6. d \in CPU /\ u \in Pri /\ v \in Pri
  BY <1>2, <1>4, <1>5, ThreadParts, UserPrisPri
<1>7. child(u, d) \in ThreadType
  <2>1. Unborn(t) \in ThreadType
    BY UnbornType
  <2>2. parent.base \in Pri /\ parent.mask \in (SUBSET CPU) \ {{}}
    BY <1>2, ThreadParts
  <2> QED
    BY <1>3, <1>6, <2>1, <2>2 DEF ThreadType
<1> HIDE DEF child
<1>8. SetTd(Sys, p, Rescored(parent, v)) \in SysType
  BY <1>2, <1>6, SysIsSys, RescoredType, SetTdType
<1>9. forked(v, u, d) \in SysType
  BY <1>7, <1>8, SetTdType
<1> HIDE DEF forked
<1>10. AddTo(forked(v, u, d), c, d, t, {}, wired) \in SysType
  BY <1>6, <1>9, AddToType
<1> QED
  BY <1>5, <1>10, SettleInv

(* sched_throw *)
LEMMA ExitInv ==
  ASSUME Inv, NEW c \in CPU, Exit(c)
  PROVE  Inv'
<1> DEFINE t   == cur[c]
           out == LoadAdd(SetTd(Sys, t, Unborn(t)), c, -1)
<1>1. Busy(c) /\ Settle(Choose(out, c))
  BY DEF Exit
<1>2. t \in Thread
  BY <1>1, BusyParts
<1> HIDE DEF t
<1>3. out \in SysType
  BY <1>2, SysIsSys, UnbornType, SetTdType, LoadAddType
<1> QED
  BY <1>1, <1>3, ChooseType, SettleInv

(* sched_exit_thread *)
LEMMA ExitThreadInv ==
  ASSUME Inv, NEW t \in Thread, ExitThread(t)
  PROVE  Inv'
<1>1. PICK u \in UserPris[t] : Settle(SetTd(Sys, t, Rescored(td[t], u)))
  BY DEF ExitThread
<1>2. SetTd(Sys, t, Rescored(td[t], u)) \in SysType
  BY <1>1, SysIsSys, UserPrisPri, RescoredType, SetTdType
<1> QED
  BY <1>1, <1>2, SettleInv

(* sched_pin, sched_unpin, sched_bind and sched_unbind write two flags of  *)
(* the current thread, and its CPU.                                        *)
LEMMA FlagsType ==
  ASSUME NEW r \in ThreadType, NEW pinned \in BOOLEAN, NEW bound \in BOOLEAN,
         NEW d \in CPU
  PROVE  /\ [r EXCEPT !.pinned = pinned] \in ThreadType
         /\ [r EXCEPT !.bound = bound, !.pinned = pinned] \in ThreadType
         /\ [r EXCEPT !.cpu = d] \in ThreadType
BY DEF ThreadType

(* sched_pin, and sched_unpin below. *)
LEMMA PinInv ==
  ASSUME Inv, NEW c \in CPU, Pin(c) \/ Unpin(c) \/ Unbind(c)
  PROVE  Inv'
<1> DEFINE t == cur[c]
<1>1. /\ Busy(c)
      /\ \/ \E b \in BOOLEAN : Settle(SetTd(Sys, t, [td[t] EXCEPT !.pinned = b]))
         \/ Settle(SetTd(Sys, t, [td[t] EXCEPT !.bound = FALSE, !.pinned = FALSE]))
  BY DEF Pin, Unpin, Unbind
<1>2. t \in Thread /\ td[t] \in ThreadType
  BY <1>1, BusyParts
<1> HIDE DEF t
<1>3. /\ \A b \in BOOLEAN : [td[t] EXCEPT !.pinned = b] \in ThreadType
      /\ [td[t] EXCEPT !.bound = FALSE, !.pinned = FALSE] \in ThreadType
  BY <1>2, FlagsType, UleAssumption
<1>4. /\ \A b \in BOOLEAN : SetTd(Sys, t, [td[t] EXCEPT !.pinned = b]) \in SysType
      /\ SetTd(Sys, t, [td[t] EXCEPT !.bound = FALSE, !.pinned = FALSE]) \in SysType
  BY <1>2, <1>3, SysIsSys, SetTdType
<1> QED
  BY <1>1, <1>4, SettleInv

(* sched_bind and sched_unbind. *)
LEMMA BindInv ==
  ASSUME Inv, NEW c \in CPU, NEW d \in CPU, Bind(c, d)
  PROVE  Inv'
<1> DEFINE t     == cur[c]
           bound == [td[t] EXCEPT !.bound = TRUE, !.pinned = TRUE]
           away  == [bound EXCEPT !.cpu = d]
<1>1. /\ Busy(c)
      /\ \/ Settle(SetTd(Sys, t, bound))
         \/ SwitchOut(SetTd(Sys, t, away), c, FALSE)
  BY DEF Bind
<1>2. t \in Thread /\ td[t] \in ThreadType
  BY <1>1, BusyParts
<1> HIDE DEF t
<1>3. bound \in ThreadType
  BY <1>2, FlagsType
<1> HIDE DEF bound
<1>4. away \in ThreadType
  BY <1>3, FlagsType
<1> HIDE DEF away
<1>5. SetTd(Sys, t, bound) \in SysType /\ SetTd(Sys, t, away) \in SysType
  BY <1>2, <1>3, <1>4, SysIsSys, SetTdType
<1> QED
  BY <1>1, <1>5, SettleInv, SwitchOutInv

(* sched_affinity *)
LEMMA AffinityInv ==
  ASSUME Inv, NEW c \in CPU, NEW t \in Thread, NEW m \in Masks, Affinity(c, t, m)
  PROVE  Inv'
<1> DEFINE r    == [td[t] EXCEPT !.mask = m]
           out  == SetTd(Sys, t, r)
           n    == [r EXCEPT !.needresched = TRUE]
           told == SetTd(Sys, t, n)
           sent == [told EXCEPT !.ipi[r.cpu] = TRUE]
<1>1. \/ Readd(out, c, t, r.pri, {})
      \/ Settle(told)
      \/ Settle(sent)
      \/ Settle(out)
  BY DEF Affinity
<1>2. m \in (SUBSET CPU) \ {{}}
  BY UleAssumption
<1>3. td[t] \in ThreadType
  BY SysIsSys
<1>4. r \in ThreadType
  BY <1>2, <1>3 DEF ThreadType
<1> HIDE DEF r
<1>5. n \in ThreadType
  BY <1>4 DEF ThreadType
<1> HIDE DEF n
<1>6. out \in SysType /\ told \in SysType
  BY <1>4, <1>5, SysIsSys, SetTdType
<1> HIDE DEF out, told
<1>7. r.cpu \in CPU /\ r.pri \in Pri /\ {} \in SUBSET Flag
  BY <1>4, ThreadParts
<1>8. sent \in SysType
  BY <1>6, <1>7, SetIpiType
<1> HIDE DEF sent
<1> QED
  BY <1>1, <1>6, <1>7, <1>8, ReaddInv, SettleInv

(* sched_clock charges a tick to the running thread. *)
LEMMA ChargedType ==
  ASSUME NEW r \in ThreadType, NEW t, NEW q, NEW u \in Pri
  PROVE  Charged(r, t, q, u) \in ThreadType
<1> DEFINE used == Rescored(r, u)
           a    == [used EXCEPT !.slice = 0, !.needresched = TRUE, !.sliceend = TRUE]
           b    == [used EXCEPT !.slice = used.slice + 1]
<1>1. used \in ThreadType
  BY RescoredType
<1> HIDE DEF used
<1>2. used.slice + 1 \in Int
  BY <1>1, ThreadParts
<1>3. a \in ThreadType
  <2>1. used.cpu \in CPU /\ 0 \in Int /\ TRUE \in BOOLEAN
    BY <1>1, ThreadParts
  <2> QED
    BY <1>1, <2>1, FieldsType
<1>4. b \in ThreadType
  <2> DEFINE k == used.slice + 1
  <2> HIDE DEF k
  <2>1. k \in Int
    BY <1>2 DEF k
  <2>2. [used EXCEPT !.slice = k] \in ThreadType
    BY <1>1, <2>1 DEF ThreadType
  <2> QED
    BY <2>2 DEF k
<1> HIDE DEF a, b
<1>5. \/ Charged(r, t, q, u) = r
      \/ Charged(r, t, q, u) = a
      \/ Charged(r, t, q, u) = b
  BY DEF Charged, used, a, b
<1> QED
  BY <1>3, <1>4, <1>5

(* sched_clock *)
LEMMA ClockInv ==
  ASSUME Inv, NEW c \in CPU, Clock(c)
  PROVE  Inv'
<1> DEFINE t      == cur[c]
           turned == SetTdq(Sys, c, AdvanceCalendar(tdq[c]))
<1>1. turned \in SysType
  BY SysIsSys, AdvanceGood, SetTdqType
<1>2. \/ Settle(turned)
      \/ /\ t # NoThread
         /\ \E u \in UserPris[t] :
              Settle(SetTd(turned, t, Charged(td[t], t, tdq[c], u)))
  BY DEF Clock
<1> HIDE DEF turned
<1>3. ASSUME t # NoThread, NEW u \in UserPris[t]
      PROVE  SetTd(turned, t, Charged(td[t], t, tdq[c], u)) \in SysType
  <2>1. t \in Thread
    BY <1>3, SysIsSys
  <2>2. Charged(td[t], t, tdq[c], u) \in ThreadType
    BY <1>3, <2>1, SysIsSys, UserPrisPri, ChargedType
  <2> QED
    BY <1>1, <2>1, <2>2, SetTdType
<1> QED
  BY <1>1, <1>2, <1>3, SettleInv

(***************************************************************************)
(* The specification.                                                      *)
(***************************************************************************)
(* sched_setup leaves queues that are empty and thread0 running. *)
LEMMA EmptyTdqGood == EmptyTdq \in GoodTdq
<1>1. EmptyRunq \in RunqType
  BY DEF EmptyRunq, RunqType
<1>2. 0 \in Idx /\ MaxPri \in Pri
  BY RunqAssumption, TdqAssumption DEF Idx, Pri
<1>3. EmptyTdq \in TdqType
  BY <1>1, <1>2 DEF EmptyTdq, TdqType
<1>4. BitsExact(EmptyTdq)
  BY DEF BitsExact, EmptyTdq, EmptyRunq
<1>5. Calendar(EmptyTdq)
  BY DEF Calendar, EmptyTdq
<1> QED
  BY <1>3, <1>4, <1>5 DEF GoodTdq

(* sched_setup leaves a state of the type. *)
LEMMA InitInv ==
  ASSUME Init
  PROVE  Inv
<1>1. PICK p \in UserPris[Thread0] :
        /\ td = [t \in Thread |->
                  IF t = Thread0
                  THEN [Unborn(t) EXCEPT !.state = "running", !.pri = p, !.base = p,
                                         !.user = p]
                  ELSE Unborn(t)]
        /\ tdq = [c \in CPU |->
                   IF c = BalanceCpu THEN [EmptyTdq EXCEPT !.load = 1, !.lowpri = p]
                   ELSE EmptyTdq]
        /\ cur = [c \in CPU |-> IF c = BalanceCpu THEN Thread0 ELSE NoThread]
        /\ ipi = [c \in CPU |-> FALSE]
        /\ pend = [c \in CPU |-> NoPend]
  BY DEF Init
<1>2. p \in Pri /\ Thread0 \in Thread
  BY <1>1, UleAssumption
<1>3. td \in [Thread -> ThreadType]
  <2> DEFINE first == [Unborn(Thread0) EXCEPT !.state = "running", !.pri = p,
                                              !.base = p, !.user = p]
  <2>1. Unborn(Thread0) \in ThreadType /\ \A t \in Thread : Unborn(t) \in ThreadType
    BY UnbornType
  <2>2. [Unborn(Thread0) EXCEPT !.state = "running", !.pri = p] \in ThreadType
    BY <1>2, <2>1 DEF ThreadType
  <2>3. first \in ThreadType
    BY <1>2, <2>2 DEF ThreadType
  <2> QED
    BY <1>1, <2>1, <2>3
<1>4. tdq \in [CPU -> GoodTdq]
  <2>1. [EmptyTdq EXCEPT !.load = 1] \in GoodTdq
    BY EmptyTdqGood, CountersGood
  <2>2. [EmptyTdq EXCEPT !.load = 1, !.lowpri = p] \in GoodTdq
    BY <1>2, <2>1, CountersGood
  <2> QED
    BY <1>1, <2>2, EmptyTdqGood
<1>5. /\ cur \in [CPU -> Thread \cup {NoThread}]
      /\ ipi \in [CPU -> BOOLEAN]
      /\ pend \in [CPU -> PendType]
  BY <1>1, <1>2 DEF PendType
<1> QED
  BY <1>3, <1>4, <1>5 DEF Inv, Sys, SysType

(* Every step of every CPU keeps Inv. *)
LEMMA NextInv ==
  ASSUME Inv, [Next]_vars
  PROVE  Inv'
<1>1. ASSUME NEW c \in CPU, Switch(c)
      PROVE  Inv'
  BY <1>1, RelinquishInv, CriticalExitInv, AstInv, SleepInv, ExitInv DEF Switch
<1>2. ASSUME NEW c \in CPU, Finish(c)
      PROVE  Inv'
  BY <1>2, MigrateDoneInv, SetcpuDoneInv, TryStealDoneInv DEF Finish
<1>3. ASSUME NEW c \in CPU, Interrupt(c)
      PROVE  Inv'
  BY <1>3, PreemptIpiInv, ClockInv, WakeupInv DEF Interrupt
<1>4. ASSUME NEW c \in CPU, Idle(c)
      PROVE  Inv'
  BY <1>4, IdleSwitchInv, IdleStealInv DEF Idle
<1>5. ASSUME NEW c \in CPU, Reprioritise(c)
      PROVE  Inv'
  BY <1>5, UserRetInv, UnlendInv, LendInv, NiceInv DEF Reprioritise
<1>6. ASSUME NEW c \in CPU, Reassign(c)
      PROVE  Inv'
  BY <1>6, PinInv, BindInv, AffinityInv, UleAssumption DEF Reassign
<1>7. ASSUME NEW c \in CPU, NEW t \in Forks, Fork(c, t)
      PROVE  Inv'
  BY <1>7, ForkInv, UleAssumption
<1>8. ASSUME NEW t \in Thread, ExitThread(t)
      PROVE  Inv'
  BY <1>8, ExitThreadInv
<1>9. ASSUME NEW high \in CPU, NEW low \in CPU, Balance(high, low)
      PROVE  Inv'
  BY <1>9, BalanceInv
<1>10. CASE UNCHANGED vars
  BY <1>10 DEF Inv, Sys, vars
<1> QED
  BY <1>1, <1>2, <1>3, <1>4, <1>5, <1>6, <1>7, <1>8, <1>9, <1>10 DEF Next

(* Every reachable state of the scheduler satisfies the inductive invariant. *)
THEOREM Invariance == Spec => []Inv
<1>1. Init => Inv
  BY InitInv
<1>2. Inv /\ [Next]_vars => Inv'
  BY NextInv
<1> QED
  BY <1>1, <1>2, PTL DEF Spec

(* Every field of struct tdq and struct td_sched keeps its range: every    *)
(* index the calendar of sched_clock and tdq_runq_add computes addresses a *)
(* list, and every CPU number names a CPU.                                 *)
THEOREM TypeCorrect == Spec => []TypeOK
<1>1. Inv => TypeOK
  BY InvIsInvariants
<1> QED
  BY <1>1, Invariance, PTL

(* On every CPU a status bit is set exactly for the lists that hold a      *)
(* thread, and the removal index of the calendar is the insert index or    *)
(* one behind it, on a list still being drained.                           *)
THEOREM QueuesAreSound == Spec => []QueuesSound
<1>1. Inv => QueuesSound
  BY InvIsInvariants
<1> QED
  BY <1>1, Invariance, PTL

(***************************************************************************)
(* Where the threads are.  What the proofs of the safety invariants keep   *)
(* true of the state s between two functions of the scheduler.             *)
(***************************************************************************)
List(s, c, r, i) == s.tdq[c].rq[r].queues[i]

\* The threads that believe to be on that list.
Filed(s, c, r, i) ==
  {t \in Thread : /\ s.td[t].state = "runq" /\ s.td[t].cpu = c
                  /\ s.td[t].runq = r /\ s.td[t].rqindex = i}

\* Each list holds these threads, each once.
Listed(s) ==
  /\ \A c \in CPU, r \in RunqName, i \in Idx :
       IsInjective(List(s, c, r, i)) /\ Range(List(s, c, r, i)) = Filed(s, c, r, i)
  /\ \A t \in Thread : s.td[t].state = "runq" => s.td[t].runq # "none"

Backed(s) == \A c \in CPU : s.tdq[c].ipipending => s.ipi[c]

HighEnough(r) ==
  \/ r.runq = "realtime" /\ r.rqindex <= r.pri \div PPQ
  \/ r.runq = "timeshare" /\ r.pri >= MinBatch
  \/ r.runq = "idle" /\ r.pri > MaxBatch

High(s) == \A t \in Thread : s.td[t].state = "runq" => HighEnough(s.td[t])

On(s, c) == {t \in Thread : s.td[t].state = "runq" /\ s.td[t].cpu = c}
Free(s, c) == {t \in On(s, c) : ~ s.td[t].pinned}

\* TSF_XFERABLE is the answer THREAD_CAN_MIGRATE gave at the insertion.
Transferable(s) ==
  /\ \A c \in CPU : s.tdq[c].transferable = Cardinality(Free(s, c))
  /\ \A t \in Thread : s.td[t].state = "runq"
       => (s.td[t].xferable <=> ~ s.td[t].pinned)

\* The lists that have to be sorted are.
Ordered(s) ==
  Niced = {} => \A c \in CPU, r \in RunqName, i \in Idx :
                  SortedList(i) => InOrder(List(s, c, r, i), Prio(s))

Kept(s) ==
  /\ s \in SysType /\ Listed(s) /\ Backed(s) /\ High(s) /\ Transferable(s)
  /\ Ordered(s)

\* What the load of c counts beside the threads queued on it.
Extra(s, c) == s.tdq[c].load - Cardinality(On(s, c))

LowAt(s, c) == s.tdq[c].lowpri <= CurPri(s, c)

(* The sets of queued threads are finite. *)
LEMMA QueuedFinite ==
  ASSUME NEW s, NEW c
  PROVE  /\ IsFiniteSet(On(s, c)) /\ IsFiniteSet(Free(s, c))
         /\ Cardinality(On(s, c)) \in Nat /\ Cardinality(Free(s, c)) \in Nat
<1>1. IsFiniteSet(Thread) /\ On(s, c) \in SUBSET Thread /\ Free(s, c) \in SUBSET Thread
  BY UleAssumption DEF On, Free
<1> QED
  BY <1>1, FS_Subset, FS_CardinalityType

(* What a function that replaces one thread queue and one thread leaves. *)
LEMMA SetBothParts ==
  ASSUME NEW s \in SysType, NEW c \in CPU, NEW q \in GoodTdq, NEW t \in Thread,
         NEW r \in ThreadType
  PROVE  LET n == SetTd(SetTdq(s, c, q), t, r) IN
         /\ n \in SysType /\ n.cur = s.cur /\ n.ipi = s.ipi
         /\ \A d \in CPU : n.tdq[d] = IF d = c THEN q ELSE s.tdq[d]
         /\ \A u \in Thread : n.td[u] = IF u = t THEN r ELSE s.td[u]
<1>1. SetTdq(s, c, q) \in SysType
  BY SetTdqType
<1>2. SetTd(SetTdq(s, c, q), t, r) \in SysType
  BY <1>1, SetTdType
<1> QED
  BY <1>2 DEF SetTd, SetTdq, SysType

\* A thread's place in the queues is the same, or it is in none.
Alike(o, r) ==
  \/ o.state # "runq" /\ r.state # "runq"
  \/ /\ r.state = o.state /\ r.cpu = o.cpu /\ r.runq = o.runq
     /\ r.rqindex = o.rqindex /\ r.xferable = o.xferable /\ r.pinned = o.pinned
     /\ r.pri >= o.pri /\ (Niced = {} => r.pri = o.pri)

(* A worse priority calls for no better list. *)
LEMMA DivMonotone ==
  ASSUME NEW a \in Nat, NEW b \in Nat, NEW m \in Nat \ {0}, a <= b
  PROVE  a \div m <= b \div m
OBVIOUS

(* A function that moves no thread between lists. *)
LEMMA KeptFrame ==
  ASSUME NEW s, NEW n \in SysType, Kept(s),
         \A c \in CPU : /\ n.tdq[c].rq = s.tdq[c].rq
                        /\ n.tdq[c].transferable = s.tdq[c].transferable
                        /\ n.tdq[c].ipipending => n.ipi[c],
         \A u \in Thread : Alike(s.td[u], n.td[u])
  PROVE  Kept(n) /\ \A c \in CPU : On(n, c) = On(s, c)
<1>1. /\ Listed(s) /\ High(s) /\ Transferable(s) /\ Ordered(s) /\ s \in SysType
  BY DEF Kept
<1>2. \A u \in Thread : (n.td[u].state = "runq") <=> (s.td[u].state = "runq")
  BY DEF Alike
<1>3. \A u \in Thread : s.td[u].state = "runq" =>
        /\ n.td[u].cpu = s.td[u].cpu /\ n.td[u].runq = s.td[u].runq
        /\ n.td[u].rqindex = s.td[u].rqindex /\ n.td[u].xferable = s.td[u].xferable
        /\ n.td[u].pinned = s.td[u].pinned /\ n.td[u].pri >= s.td[u].pri
  BY DEF Alike
<1>4. Listed(n)
  <2>1. \A c \in CPU, r \in RunqName, i \in Idx : Filed(n, c, r, i) = Filed(s, c, r, i)
    BY <1>2, <1>3 DEF Filed
  <2> QED
    BY <1>1, <1>2, <1>3, <2>1 DEF Listed, List
<1>5. \A c \in CPU : On(n, c) = On(s, c)
  BY <1>2, <1>3 DEF On
<1>6. \A c \in CPU : Free(n, c) = Free(s, c)
  BY <1>2, <1>3 DEF On, Free
<1>7. Transferable(n)
  BY <1>1, <1>2, <1>3, <1>6 DEF Transferable
<1>8. High(n)
  <2> SUFFICES ASSUME NEW u \in Thread, n.td[u].state = "runq"
               PROVE  HighEnough(n.td[u])
    BY DEF High
  <2>1. HighEnough(s.td[u])
    BY <1>1, <1>2 DEF High
  <2>2. /\ s.td[u].pri \in Nat /\ n.td[u].pri \in Nat /\ s.td[u].pri <= n.td[u].pri
        /\ s.td[u].rqindex \in Nat
    <3>1. s.td[u].pri \in Pri /\ n.td[u].pri \in Pri /\ s.td[u].rqindex \in Idx
      BY <1>1, SysParts, ThreadParts
    <3> QED
      BY <1>2, <1>3, <3>1 DEF Pri, Idx
  <2>3. /\ s.td[u].pri \div PPQ <= n.td[u].pri \div PPQ
        /\ s.td[u].pri \div PPQ \in Int /\ n.td[u].pri \div PPQ \in Int
    BY <2>2, DivMonotone, RunqAssumption
  <2>4. /\ n.td[u].runq = s.td[u].runq /\ n.td[u].rqindex = s.td[u].rqindex
    BY <1>2, <1>3
  <2>5. MinBatch \in Nat /\ MaxBatch \in Nat
    BY TdqAssumption
  <2> DEFINE a == s.td[u].pri \div PPQ
             b == n.td[u].pri \div PPQ
  <2>6. a <= b /\ a \in Int /\ b \in Int
    BY <2>3
  <2>7. /\ (s.td[u].runq = "realtime" /\ s.td[u].rqindex <= a)
             => (n.td[u].runq = "realtime" /\ n.td[u].rqindex <= b)
        /\ (s.td[u].runq = "timeshare" /\ s.td[u].pri >= MinBatch)
             => (n.td[u].runq = "timeshare" /\ n.td[u].pri >= MinBatch)
        /\ (s.td[u].runq = "idle" /\ s.td[u].pri > MaxBatch)
             => (n.td[u].runq = "idle" /\ n.td[u].pri > MaxBatch)
    <3> HIDE DEF a, b
    <3> QED
      BY <2>2, <2>4, <2>5, <2>6
  <2> QED
    BY <2>1, <2>7 DEF HighEnough
<1>9. Ordered(n)
  <2> SUFFICES ASSUME Niced = {}, NEW c \in CPU, NEW r \in RunqName, NEW i \in Idx,
                      SortedList(i)
               PROVE  InOrder(List(n, c, r, i), Prio(n))
    BY DEF Ordered
  <2>1. List(n, c, r, i) = List(s, c, r, i) /\ InOrder(List(s, c, r, i), Prio(s))
    BY <1>1 DEF List, Ordered
  <2>2. ASSUME NEW k \in DOMAIN List(s, c, r, i)
        PROVE  Prio(n)[List(s, c, r, i)[k]] = Prio(s)[List(s, c, r, i)[k]]
    <3> DEFINE u == List(s, c, r, i)[k]
    <3>1. u \in Filed(s, c, r, i)
      BY <1>1 DEF Listed, Range
    <3> HIDE DEF u
    <3>2. u \in Thread /\ s.td[u].state = "runq"
      BY <3>1 DEF Filed
    <3>3. n.td[u].pri = s.td[u].pri
      BY <3>2 DEF Alike
    <3> QED
      BY <3>2, <3>3 DEF Prio, u
  <2> QED
    BY <2>1, <2>2 DEF InOrder
<1> QED
  BY <1>4, <1>5, <1>7, <1>8, <1>9 DEF Kept, Backed

(* Lists change on one CPU only, and keep their order there. *)
LEMMA OrderedThen ==
  ASSUME NEW s \in SysType, NEW n \in SysType, Ordered(s),
         \A u \in Thread : n.td[u].pri = s.td[u].pri,
         \A c \in CPU, r \in RunqName, i \in Idx :
           \/ List(n, c, r, i) = List(s, c, r, i)
           \/ SortedList(i) /\ InOrder(List(s, c, r, i), Prio(s))
                => InOrder(List(n, c, r, i), Prio(s))
  PROVE  Ordered(n)
<1>1. Prio(n) = Prio(s)
  BY DEF Prio
<1> QED
  BY <1>1 DEF Ordered

(* tdq_runq_add keeps the lists and counts of every CPU. *)
LEMMA RunqAddKept ==
  ASSUME NEW s, Kept(s), NEW c \in CPU, NEW t \in Thread, NEW flags,
         s.td[t].state # "runq", s.td[t].cpu = c
  PROVE  LET n == RunqAdd(s, c, t, flags) IN
         /\ Kept(n) /\ n.cur = s.cur
         /\ \A u \in Thread : n.td[u].pri = s.td[u].pri
         /\ \A u \in Thread \ {t} : n.td[u] = s.td[u]
         /\ n.td[t].state = "runq" /\ n.td[t].cpu = c
         /\ \A d \in CPU : /\ n.tdq[d].lowpri = s.tdq[d].lowpri
                           /\ Extra(n, d) = Extra(s, d) - IF d = c THEN 1 ELSE 0
<1> DEFINE q    == s.tdq[c]
           o    == s.td[t]
           mov  == ~ o.pinned
           x    == RunqOf(o.pri)
           i    == SlotOf(q, o.pri, flags)
           add  == Enqueue(q, t, flags, Prio(s), mov)
           r    == [o EXCEPT !.state = "runq", !.runq = x, !.rqindex = i, !.xferable = mov]
           n    == RunqAdd(s, c, t, flags)
<1>1. /\ s \in SysType /\ Listed(s) /\ Backed(s) /\ High(s) /\ Transferable(s)
      /\ Ordered(s)
  BY DEF Kept
<1>2. /\ q \in GoodTdq /\ o \in ThreadType /\ o.pri \in Pri /\ o.pinned \in BOOLEAN
      /\ Prio(s) \in [Thread -> Pri] /\ Prio(s)[t] = o.pri
  BY <1>1, SysParts, ThreadParts DEF Prio
<1>3. /\ x \in RunqName /\ i \in Idx /\ add \in GoodTdq
      /\ \A y \in RunqName, j \in Idx :
           add.rq[y].queues[j] = IF y = x /\ j = i
                                 THEN ListInsert(q.rq[y].queues[j], i, t, flags, Prio(s))
                                 ELSE q.rq[y].queues[j]
      /\ add.load = q.load /\ add.lowpri = q.lowpri /\ add.ipipending = q.ipipending
      /\ add.transferable = q.transferable + IF mov THEN 1 ELSE 0
  <2>1. mov \in BOOLEAN
    OBVIOUS
  <2> HIDE DEF q, o, mov
  <2> QED
    BY <1>2, <2>1, EnqueueLists, EnqueueGood
<1>4. HighEnough(r)
  <2> HIDE DEF i, mov
  <2>1. /\ r.runq = x /\ r.rqindex = i /\ r.pri = o.pri
    BY <1>2 DEF ThreadType
  <2>2. x # "timeshare" => i = o.pri \div PPQ
    BY DEF i, SlotOf
  <2>3. i <= i
    BY <1>3 DEF Idx
  <2>4. /\ o.pri \in Int /\ MinBatch \in Int /\ MaxBatch \in Int
    BY <1>2, TdqAssumption DEF Pri
  <2>5. \/ x = "realtime"
        \/ x = "timeshare" /\ o.pri >= MinBatch
        \/ x = "idle" /\ o.pri > MaxBatch
    BY <2>4 DEF RunqOf
  <2> HIDE DEF x, r, o
  <2> QED
    BY <2>1, <2>2, <2>3, <2>5 DEF HighEnough
<1>5. /\ r \in ThreadType
      /\ r.state = "runq" /\ r.cpu = c /\ r.runq = x /\ r.rqindex = i /\ r.xferable = mov
      /\ r.pinned = o.pinned /\ r.pri = o.pri
  BY <1>2, <1>3, ZenonT(60) DEF ThreadType
<1>6. n = SetTd(SetTdq(s, c, add), t, r)
  BY DEF RunqAdd, SetBoth
<1> HIDE DEF x, i, add, r, n, mov
<1>7. /\ n \in SysType /\ n.cur = s.cur /\ n.ipi = s.ipi
      /\ \A d \in CPU : n.tdq[d] = IF d = c THEN add ELSE s.tdq[d]
      /\ \A u \in Thread : n.td[u] = IF u = t THEN r ELSE s.td[u]
  BY <1>1, <1>3, <1>5, <1>6, SetBothParts
<1>8. Listed(n)
  <2>1. ASSUME NEW d \in CPU, NEW y \in RunqName, NEW j \in Idx
        PROVE  /\ IsInjective(List(n, d, y, j))
               /\ Range(List(n, d, y, j)) = Filed(n, d, y, j)
    <3>1. /\ IsInjective(List(s, d, y, j)) /\ Range(List(s, d, y, j)) = Filed(s, d, y, j)
      BY <1>1 DEF Listed
    <3>2. CASE d = c /\ y = x /\ j = i
      <4>1. List(n, d, y, j) = ListInsert(List(s, d, y, j), i, t, flags, Prio(s))
        BY <1>3, <1>7, <3>2 DEF List
      <4>2. Filed(n, d, y, j) = Filed(s, d, y, j) \cup {t} /\ t \notin Filed(s, d, y, j)
        BY <1>5, <1>7, <3>2 DEF Filed
      <4>3. List(s, d, y, j) \in Seq(Thread)
        BY <1>2, <3>2 DEF List, GoodTdq, TdqType, RunqType
      <4> QED
        BY <3>1, <4>1, <4>2, <4>3, ListInsertRange
    <3>3. CASE ~ (d = c /\ y = x /\ j = i)
      <4>1. List(n, d, y, j) = List(s, d, y, j)
        BY <1>3, <1>7, <3>3 DEF List
      <4>2. Filed(n, d, y, j) = Filed(s, d, y, j)
        BY <1>5, <1>7, <3>3 DEF Filed
      <4> QED
        BY <3>1, <4>1, <4>2
    <3> QED
      BY <3>2, <3>3
  <2>2. \A u \in Thread : n.td[u].state = "runq" => n.td[u].runq # "none"
    BY <1>1, <1>3, <1>5, <1>7 DEF Listed, RunqName
  <2> QED
    BY <2>1, <2>2 DEF Listed
<1>9. Backed(n)
  BY <1>1, <1>3, <1>7 DEF Backed
<1>10. High(n)
  BY <1>1, <1>4, <1>7 DEF High
<1>11. \A d \in CPU : Cardinality(On(n, d)) = Cardinality(On(s, d)) + IF d = c THEN 1 ELSE 0
  <2>1. /\ On(n, c) = On(s, c) \cup {t} /\ t \notin On(s, c)
        /\ \A d \in CPU \ {c} : On(n, d) = On(s, d)
    BY <1>5, <1>7 DEF On
  <2>2. Cardinality(On(n, c)) = Cardinality(On(s, c)) + 1
    BY <2>1, QueuedFinite, FS_AddElement, ZenonT(60)
  <2>3. \A d \in CPU : Cardinality(On(s, d)) \in Nat
    BY QueuedFinite
  <2> QED
    BY <2>1, <2>2, <2>3
<1>12. Transferable(n)
  <2>1. \A u \in Thread : n.td[u].state = "runq" => (n.td[u].xferable <=> ~ n.td[u].pinned)
    BY <1>1, <1>5, <1>7 DEF Transferable, mov
  <2>2. ASSUME NEW d \in CPU
        PROVE  n.tdq[d].transferable = Cardinality(Free(n, d))
    <3>1. s.tdq[d].transferable = Cardinality(Free(s, d)) /\ Cardinality(Free(s, d)) \in Nat
      BY <1>1, QueuedFinite DEF Transferable
    <3>2. CASE d # c
      <4>1. Free(n, d) = Free(s, d)
        BY <1>5, <1>7, <3>2 DEF On, Free
      <4> QED
        BY <1>7, <3>1, <3>2, <4>1
    <3>3. CASE d = c /\ mov
      <4>1. Free(n, d) = Free(s, d) \cup {t} /\ t \notin Free(s, d)
        BY <1>5, <1>7, <3>3 DEF On, Free, mov
      <4>2. Cardinality(Free(n, d)) = Cardinality(Free(s, d)) + 1
        BY <4>1, QueuedFinite, FS_AddElement
      <4>3. n.tdq[d].transferable = s.tdq[d].transferable + 1
        BY <1>3, <1>7, <3>3
      <4> QED
        BY <3>1, <4>2, <4>3
    <3>4. CASE d = c /\ ~ mov
      <4>1. Free(n, d) = Free(s, d)
        BY <1>5, <1>7, <3>4 DEF On, Free, mov
      <4>2. n.tdq[d].transferable = s.tdq[d].transferable + 0
        BY <1>3, <1>7, <3>4
      <4> QED
        BY <3>1, <4>1, <4>2
    <3> QED
      BY <3>2, <3>3, <3>4
  <2> QED
    BY <2>1, <2>2 DEF Transferable
<1>13. \A d \in CPU : /\ n.tdq[d].lowpri = s.tdq[d].lowpri
                      /\ Extra(n, d) = Extra(s, d) - IF d = c THEN 1 ELSE 0
  <2> TAKE d \in CPU
  <2>1. /\ n.tdq[d].load = s.tdq[d].load /\ n.tdq[d].lowpri = s.tdq[d].lowpri
        /\ s.tdq[d].load \in Int
    BY <1>1, <1>3, <1>7, SysParts, CountersGood
  <2>2. Cardinality(On(s, d)) \in Nat
    BY QueuedFinite
  <2>3. CASE d = c
    BY <1>11, <2>1, <2>2, <2>3 DEF Extra
  <2>4. CASE d # c
    BY <1>11, <2>1, <2>2, <2>4 DEF Extra
  <2> QED
    BY <2>1, <2>3, <2>4
<1>14. Ordered(n)
  <2>1. \A u \in Thread : n.td[u].pri = s.td[u].pri
    BY <1>5, <1>7
  <2>2. ASSUME NEW d \in CPU, NEW y \in RunqName, NEW j \in Idx
        PROVE  \/ List(n, d, y, j) = List(s, d, y, j)
               \/ SortedList(j) /\ InOrder(List(s, d, y, j), Prio(s))
                    => InOrder(List(n, d, y, j), Prio(s))
    <3>1. CASE d = c /\ y = x /\ j = i
      <4>1. List(n, d, y, j) = ListInsert(List(s, d, y, j), i, t, flags, Prio(s))
        BY <1>3, <1>7, <3>1 DEF List
      <4>2. List(s, d, y, j) \in Seq(Thread)
        BY <1>2, <3>1 DEF List, GoodTdq, TdqType, RunqType
      <4>3. Prio(s) \in [Thread -> Int]
        BY <1>2 DEF Pri
      <4> QED
        BY <3>1, <4>1, <4>2, <4>3, ListInsertInOrder
    <3>2. CASE ~ (d = c /\ y = x /\ j = i)
      BY <1>3, <1>7, <3>2 DEF List
    <3> QED
      BY <3>1, <3>2
  <2> QED
    BY <1>1, <1>7, <2>1, <2>2, OrderedThen
<1> QED
  BY <1>5, <1>7, <1>8, <1>9, <1>10, <1>12, <1>13, <1>14 DEF Kept, n

(* tdq_runq_rem, of a thread that is queued on c. *)
LEMMA RunqRemKept ==
  ASSUME NEW s, Kept(s), NEW c \in CPU, NEW t \in Thread,
         s.td[t].state = "runq", s.td[t].cpu = c,
         NEW state \in {"inactive", "sleeping", "canrun", "running"}
  PROVE  LET n == RunqRem(s, c, t, state) IN
         /\ Kept(n) /\ n.cur = s.cur
         /\ \A u \in Thread : n.td[u].pri = s.td[u].pri
         /\ \A u \in Thread \ {t} : n.td[u] = s.td[u]
         /\ n.td[t].state = state /\ n.td[t].cpu = c
         /\ \A d \in CPU : /\ n.tdq[d].lowpri = s.tdq[d].lowpri
                           /\ Extra(n, d) = Extra(s, d) + IF d = c THEN 1 ELSE 0
<1> DEFINE q    == s.tdq[c]
           o    == s.td[t]
           x    == o.runq
           i    == o.rqindex
           xfer == o.xferable
           sub  == Dequeue(q, t, x, i, xfer)
           r    == [o EXCEPT !.state = state, !.runq = "none", !.rqindex = 0,
                             !.xferable = FALSE]
           n    == RunqRem(s, c, t, state)
<1>1. /\ s \in SysType /\ Listed(s) /\ Backed(s) /\ High(s) /\ Transferable(s)
      /\ Ordered(s)
  BY DEF Kept
<1>2. /\ q \in GoodTdq /\ o \in ThreadType /\ o.pinned \in BOOLEAN /\ xfer \in BOOLEAN
      /\ i \in Idx /\ x \in RunqName /\ (xfer <=> ~ o.pinned)
  <2>1. q \in GoodTdq /\ o \in ThreadType
    BY <1>1, SysParts
  <2>2. x # "none" /\ (xfer <=> ~ o.pinned)
    BY <1>1 DEF Listed, Transferable
  <2> QED
    BY <2>1, <2>2, ThreadParts
<1>3. /\ sub \in GoodTdq
      /\ \A y \in RunqName, j \in Idx :
           sub.rq[y].queues[j] = IF y = x /\ j = i THEN ListRemove(q.rq[y].queues[j], t)
                                 ELSE q.rq[y].queues[j]
      /\ sub.load = q.load /\ sub.lowpri = q.lowpri /\ sub.ipipending = q.ipipending
      /\ sub.transferable = q.transferable - IF xfer THEN 1 ELSE 0
  <2> HIDE DEF q, o, x, i, xfer
  <2> QED
    BY <1>2, DequeueLists, DequeueGood
<1>4. n = SetTd(SetTdq(s, c, sub), t, r)
  BY DEF RunqRem, SetBoth
<1>5. /\ r \in ThreadType /\ r.state = state /\ r.cpu = c /\ r.pri = o.pri
      /\ r.pinned = o.pinned
  <2>1. 0 \in Idx
    BY RunqAssumption DEF Idx
  <2> QED
    BY <1>2, <2>1 DEF ThreadType
<1> HIDE DEF sub, r, n
<1>6. /\ n \in SysType /\ n.cur = s.cur /\ n.ipi = s.ipi
      /\ \A d \in CPU : n.tdq[d] = IF d = c THEN sub ELSE s.tdq[d]
      /\ \A u \in Thread : n.td[u] = IF u = t THEN r ELSE s.td[u]
  BY <1>1, <1>3, <1>4, <1>5, SetBothParts
<1>7. r.state # "runq"
  BY <1>5
<1>8. Listed(n)
  <2>1. ASSUME NEW d \in CPU, NEW y \in RunqName, NEW j \in Idx
        PROVE  /\ IsInjective(List(n, d, y, j))
               /\ Range(List(n, d, y, j)) = Filed(n, d, y, j)
    <3>1. /\ IsInjective(List(s, d, y, j)) /\ Range(List(s, d, y, j)) = Filed(s, d, y, j)
      BY <1>1 DEF Listed
    <3>2. CASE d = c /\ y = x /\ j = i
      <4>1. List(n, d, y, j) = ListRemove(List(s, d, y, j), t)
        BY <1>3, <1>6, <3>2, ZenonT(60) DEF List
      <4>2. Filed(n, d, y, j) = Filed(s, d, y, j) \ {t} /\ t \in Filed(s, d, y, j)
        BY <1>6, <1>7, <3>2 DEF Filed
      <4>3. List(s, d, y, j) \in Seq(Thread)
        <5>1. s.tdq[d] \in TdqType
          BY <1>1, SysParts DEF GoodTdq
        <5> QED
          BY <5>1 DEF List, TdqType, RunqType

      <4> QED
        BY <3>1, <4>1, <4>2, <4>3, ListRemoveRange
    <3>3. CASE ~ (d = c /\ y = x /\ j = i)
      <4>1. List(n, d, y, j) = List(s, d, y, j)
        BY <1>3, <1>6, <3>3 DEF List
      <4>2. Filed(n, d, y, j) = Filed(s, d, y, j)
        BY <1>6, <1>7, <3>3 DEF Filed
      <4> QED
        BY <3>1, <4>1, <4>2
    <3> QED
      BY <3>2, <3>3
  <2>2. \A u \in Thread : n.td[u].state = "runq" => n.td[u].runq # "none"
    BY <1>1, <1>6, <1>7 DEF Listed
  <2> QED
    BY <2>1, <2>2 DEF Listed
<1>9. Backed(n)
  BY <1>1, <1>3, <1>6 DEF Backed
<1>10. High(n)
  BY <1>1, <1>6, <1>7 DEF High
<1>11. \A d \in CPU : Cardinality(On(n, d)) = Cardinality(On(s, d)) - IF d = c THEN 1 ELSE 0
  <2>1. /\ On(n, c) = On(s, c) \ {t} /\ t \in On(s, c)
        /\ \A d \in CPU \ {c} : On(n, d) = On(s, d)
    BY <1>6, <1>7 DEF On
  <2>2. Cardinality(On(n, c)) = Cardinality(On(s, c)) - 1
    <3>1. IsFiniteSet(On(s, c))
      BY QueuedFinite
    <3>2. Cardinality(On(s, c) \ {t}) = Cardinality(On(s, c)) - 1
      BY <2>1, <3>1, FS_RemoveElement
    <3> QED
      BY <2>1, <3>2
  <2>3. \A d \in CPU : Cardinality(On(s, d)) \in Nat
    BY QueuedFinite
  <2>4. ASSUME NEW d \in CPU, d # c
        PROVE  Cardinality(On(n, d)) = Cardinality(On(s, d)) - 0
    BY <2>1, <2>3, <2>4
  <2> QED
    BY <2>2, <2>4
<1>12. Transferable(n)
  <2>1. \A u \in Thread : n.td[u].state = "runq" => (n.td[u].xferable <=> ~ n.td[u].pinned)
    BY <1>1, <1>6, <1>7 DEF Transferable
  <2>2. ASSUME NEW d \in CPU
        PROVE  n.tdq[d].transferable = Cardinality(Free(n, d))
    <3>1. s.tdq[d].transferable = Cardinality(Free(s, d)) /\ Cardinality(Free(s, d)) \in Nat
      BY <1>1, QueuedFinite DEF Transferable
    <3>2. CASE d # c
      <4>1. Free(n, d) = Free(s, d)
        BY <1>6, <1>7, <3>2 DEF On, Free
      <4> QED
        BY <1>6, <3>1, <3>2, <4>1
    <3>3. CASE d = c /\ xfer
      <4>1. Free(n, d) = Free(s, d) \ {t} /\ t \in Free(s, d)
        BY <1>2, <1>6, <1>7, <3>3 DEF On, Free
      <4>2. Cardinality(Free(n, d)) = Cardinality(Free(s, d)) - 1
        BY <4>1, QueuedFinite, FS_RemoveElement
      <4>3. n.tdq[d].transferable = s.tdq[d].transferable - 1
        BY <1>3, <1>6, <3>3
      <4> QED
        BY <3>1, <4>2, <4>3
    <3>4. CASE d = c /\ ~ xfer
      <4>1. Free(n, d) = Free(s, d)
        BY <1>2, <1>6, <1>7, <3>4 DEF On, Free
      <4>2. n.tdq[d].transferable = s.tdq[d].transferable - 0
        BY <1>3, <1>6, <3>4
      <4> QED
        BY <3>1, <4>1, <4>2
    <3> QED
      BY <3>2, <3>3, <3>4
  <2> QED
    BY <2>1, <2>2 DEF Transferable
<1>13. \A d \in CPU : /\ n.tdq[d].lowpri = s.tdq[d].lowpri
                      /\ Extra(n, d) = Extra(s, d) + IF d = c THEN 1 ELSE 0
  <2> TAKE d \in CPU
  <2>1. /\ n.tdq[d].load = s.tdq[d].load /\ n.tdq[d].lowpri = s.tdq[d].lowpri
        /\ s.tdq[d].load \in Int
    BY <1>1, <1>3, <1>6, SysParts, CountersGood
  <2>2. Cardinality(On(s, d)) \in Nat
    BY QueuedFinite
  <2>3. CASE d = c
    BY <1>11, <2>1, <2>2, <2>3 DEF Extra
  <2>4. CASE d # c
    BY <1>11, <2>1, <2>2, <2>4 DEF Extra
  <2> QED
    BY <2>1, <2>3, <2>4
<1>14. Ordered(n)
  <2>1. \A u \in Thread : n.td[u].pri = s.td[u].pri
    BY <1>5, <1>6
  <2>2. ASSUME NEW d \in CPU, NEW y \in RunqName, NEW j \in Idx
        PROVE  \/ List(n, d, y, j) = List(s, d, y, j)
               \/ SortedList(j) /\ InOrder(List(s, d, y, j), Prio(s))
                    => InOrder(List(n, d, y, j), Prio(s))
    <3>1. CASE d = c /\ y = x /\ j = i
      <4>1. List(n, d, y, j) = ListRemove(List(s, d, y, j), t)
        BY <1>3, <1>6, <3>1, ZenonT(60) DEF List
      <4>2. List(s, d, y, j) \in Seq(Thread)
        <5>1. s.tdq[d] \in TdqType
          BY <1>1, SysParts DEF GoodTdq
        <5> QED
          BY <5>1 DEF List, TdqType, RunqType
      <4>3. t \in Range(List(s, d, y, j))
        <5>1. t \in Filed(s, d, y, j)
          BY <3>1 DEF Filed
        <5> QED
          BY <1>1, <5>1 DEF Listed
      <4> QED
        BY <4>1, <4>2, <4>3, ListRemoveInOrder
    <3>2. CASE ~ (d = c /\ y = x /\ j = i)
      BY <1>3, <1>6, <3>2 DEF List
    <3> QED
      BY <3>1, <3>2
  <2> QED
    BY <1>1, <1>6, <2>1, <2>2, OrderedThen
<1> QED
  BY <1>5, <1>6, <1>8, <1>9, <1>10, <1>12, <1>13, <1>14 DEF Kept, n

(* A thread queue is replaced by one with the same lists. *)
LEMMA SetTdqKept ==
  ASSUME NEW s, Kept(s), NEW c \in CPU, NEW q \in GoodTdq,
         q.rq = s.tdq[c].rq, q.transferable = s.tdq[c].transferable,
         q.ipipending => s.ipi[c]
  PROVE  LET n == SetTdq(s, c, q) IN
         /\ Kept(n) /\ n.cur = s.cur /\ n.td = s.td
         /\ \A d \in CPU : n.tdq[d] = IF d = c THEN q ELSE s.tdq[d]
         /\ \A d \in CPU : Extra(n, d) = Extra(s, d) + IF d = c THEN q.load - s.tdq[c].load
                                                       ELSE 0
<1> DEFINE n == SetTdq(s, c, q)
<1>1. s \in SysType /\ Backed(s)
  BY DEF Kept
<1>2. /\ n \in SysType /\ n.cur = s.cur /\ n.td = s.td /\ n.ipi = s.ipi
      /\ \A d \in CPU : n.tdq[d] = IF d = c THEN q ELSE s.tdq[d]
  BY <1>1, SetTdqType DEF SetTdq, SysType
<1> HIDE DEF n
<1>3. \A d \in CPU : /\ n.tdq[d].rq = s.tdq[d].rq
                     /\ n.tdq[d].transferable = s.tdq[d].transferable
                     /\ n.tdq[d].ipipending => n.ipi[d]
  BY <1>1, <1>2 DEF Backed
<1>4. \A u \in Thread : Alike(s.td[u], n.td[u])
  <2>1. \A u \in Thread : s.td[u].pri >= s.td[u].pri
    BY <1>1, SysParts, ThreadParts DEF Pri
  <2> QED
    BY <1>2, <2>1 DEF Alike
<1>5. Kept(n) /\ \A d \in CPU : On(n, d) = On(s, d)
  BY <1>2, <1>3, <1>4, KeptFrame
<1>6. ASSUME NEW d \in CPU
      PROVE  Extra(n, d) = Extra(s, d) + IF d = c THEN q.load - s.tdq[c].load ELSE 0
  <2>1. /\ s.tdq[d].load \in Int /\ q.load \in Int /\ Cardinality(On(s, d)) \in Nat
        /\ On(n, d) = On(s, d)
    BY <1>1, <1>5, SysParts, CountersGood, QueuedFinite
  <2>2. CASE d = c
    BY <1>2, <2>1, <2>2 DEF Extra
  <2>3. CASE d # c
    BY <1>2, <2>1, <2>3 DEF Extra
  <2> QED
    BY <2>2, <2>3
<1> QED
  BY <1>2, <1>5, <1>6 DEF n

(* A thread is replaced by one at the same place. *)
LEMMA SetTdKept ==
  ASSUME NEW s, Kept(s), NEW t \in Thread, NEW r \in ThreadType, Alike(s.td[t], r)
  PROVE  LET n == SetTd(s, t, r) IN
         /\ Kept(n) /\ n.cur = s.cur /\ n.tdq = s.tdq /\ n.ipi = s.ipi
         /\ \A u \in Thread : n.td[u] = IF u = t THEN r ELSE s.td[u]
         /\ \A d \in CPU : Extra(n, d) = Extra(s, d)
<1> DEFINE n == SetTd(s, t, r)
<1>1. s \in SysType /\ Backed(s)
  BY DEF Kept
<1>2. /\ n \in SysType /\ n.cur = s.cur /\ n.tdq = s.tdq /\ n.ipi = s.ipi
      /\ \A u \in Thread : n.td[u] = IF u = t THEN r ELSE s.td[u]
  BY <1>1, SetTdType DEF SetTd, SysType
<1> HIDE DEF n
<1>3. \A d \in CPU : /\ n.tdq[d].rq = s.tdq[d].rq
                     /\ n.tdq[d].transferable = s.tdq[d].transferable
                     /\ n.tdq[d].ipipending => n.ipi[d]
  BY <1>1, <1>2 DEF Backed
<1>4. \A u \in Thread : Alike(s.td[u], n.td[u])
  <2>1. \A u \in Thread : s.td[u].pri >= s.td[u].pri
    BY <1>1, SysParts, ThreadParts DEF Pri
  <2> QED
    BY <1>2, <2>1 DEF Alike
<1>5. Kept(n) /\ \A d \in CPU : On(n, d) = On(s, d)
  BY <1>2, <1>3, <1>4, KeptFrame
<1>6. \A d \in CPU : Extra(n, d) = Extra(s, d)
  BY <1>2, <1>5 DEF Extra
<1> QED
  BY <1>2, <1>5, <1>6 DEF n

(* tdq_load_add and tdq_load_rem *)
LEMMA LoadAddKept ==
  ASSUME NEW s, Kept(s), NEW c \in CPU, NEW k \in Int
  PROVE  LET n == LoadAdd(s, c, k) IN
         /\ Kept(n) /\ n.cur = s.cur /\ n.td = s.td
         /\ \A d \in CPU : /\ n.tdq[d].lowpri = s.tdq[d].lowpri
                           /\ Extra(n, d) = Extra(s, d) + IF d = c THEN k ELSE 0
<1> DEFINE q == [s.tdq[c] EXCEPT !.load = s.tdq[c].load + k]
           n == LoadAdd(s, c, k)
<1>1. s \in SysType /\ Backed(s)
  BY DEF Kept
<1>2. s.tdq[c] \in GoodTdq /\ s.tdq[c] \in TdqType /\ s.tdq[c].load \in Int
  BY <1>1, SysParts, CountersGood DEF GoodTdq
<1>3. q \in GoodTdq
  BY <1>2, CountersGood
<1>4. /\ q.rq = s.tdq[c].rq /\ q.transferable = s.tdq[c].transferable
      /\ q.ipipending = s.tdq[c].ipipending /\ q.lowpri = s.tdq[c].lowpri
      /\ q.load = s.tdq[c].load + k
  BY <1>2 DEF TdqType
<1>5. n = SetTdq(s, c, q)
  BY DEF LoadAdd
<1> HIDE DEF q, n
<1>6. q.ipipending => s.ipi[c]
  BY <1>1, <1>4 DEF Backed
<1>7. q.load - s.tdq[c].load = k
  BY <1>2, <1>4
<1> QED
  BY <1>3, <1>4, <1>5, <1>6, <1>7, SetTdqKept DEF n

(* With the same current threads and priorities a CPU runs at the same one. *)
LEMMA CurPriSame ==
  ASSUME NEW s \in SysType, NEW n, n.cur = s.cur,
         \A u \in Thread : n.td[u].pri = s.td[u].pri, NEW c \in CPU
  PROVE  CurPri(n, c) = CurPri(s, c)
<1>1. s.cur[c] \in Thread \cup {NoThread}
  BY SysParts
<1> QED
  BY <1>1 DEF CurPri

(***************************************************************************)
(* n is s but for the place of t, which is now in state st on CPU c.       *)
(***************************************************************************)
Places(s, n, t, st, c) ==
  /\ Kept(n) /\ n.cur = s.cur
  /\ \A u \in Thread : n.td[u].pri = s.td[u].pri
  /\ \A u \in Thread \ {t} : n.td[u].state = s.td[u].state /\ n.td[u].cpu = s.td[u].cpu
  /\ n.td[t].state = st /\ n.td[t].cpu = c
  /\ \A d \in CPU : (LowAt(s, d) => LowAt(n, d)) /\ Extra(n, d) = Extra(s, d)

(* One function of the scheduler after the other. *)
LEMMA PlacesThen ==
  ASSUME NEW s, NEW m, NEW n, NEW t, NEW a, NEW b, NEW x, NEW y,
         Places(s, m, t, a, x), Places(m, n, t, b, y)
  PROVE  Places(s, n, t, b, y)
BY DEF Places

(* A better or equal mark is left on the same current thread. *)
LEMMA LowSame ==
  ASSUME NEW s \in SysType, NEW n \in SysType, n.cur = s.cur,
         \A u \in Thread : n.td[u].pri = s.td[u].pri,
         NEW d \in CPU, n.tdq[d].lowpri <= s.tdq[d].lowpri \/ n.tdq[d].lowpri <= CurPri(n, d),
         LowAt(s, d)
  PROVE  LowAt(n, d)
<1>1. CurPri(n, d) = CurPri(s, d)
  BY CurPriSame
<1>2. /\ CurPri(s, d) \in Int /\ s.tdq[d].lowpri \in Int /\ n.tdq[d].lowpri \in Int
  BY SysParts, CountersGood DEF Pri
<1> QED
  BY <1>1, <1>2 DEF LowAt

(* tdq_add *)
LEMMA TdqAddPlaces ==
  ASSUME NEW s, Kept(s), NEW c \in CPU, NEW t \in Thread, NEW flags,
         s.td[t].state # "runq", s.td[t].cpu = c
  PROVE  Places(s, TdqAdd(s, c, t, flags), t, "runq", c)
<1> DEFINE p   == s.td[t].pri
           low == IF p < s.tdq[c].lowpri THEN p ELSE s.tdq[c].lowpri
           q   == [s.tdq[c] EXCEPT !.lowpri = low]
           m   == LowerLowpri(s, c, p)
           k   == RunqAdd(m, c, t, flags)
           n   == LoadAdd(k, c, 1)
<1>1. s \in SysType /\ Backed(s)
  BY DEF Kept
<1>2. /\ s.tdq[c] \in GoodTdq /\ s.tdq[c] \in TdqType /\ s.tdq[c].lowpri \in Pri
      /\ s.tdq[c].load \in Int /\ p \in Pri
  BY <1>1, SysParts, ThreadParts, CountersGood DEF GoodTdq
<1>3. low \in Pri /\ low <= s.tdq[c].lowpri
  BY <1>2 DEF Pri
<1>4. m = SetTdq(s, c, q)
  BY DEF LowerLowpri
<1>5. n = TdqAdd(s, c, t, flags)
  BY DEF TdqAdd
<1> HIDE DEF p, low, m, k, n
<1>6. q \in GoodTdq
  BY <1>2, <1>3, CountersGood
<1>7. /\ q.rq = s.tdq[c].rq /\ q.transferable = s.tdq[c].transferable
      /\ q.ipipending = s.tdq[c].ipipending /\ q.lowpri = low
      /\ q.load = s.tdq[c].load
  BY <1>2 DEF TdqType
<1> HIDE DEF q
<1>8. q.ipipending => s.ipi[c]
  BY <1>1, <1>7 DEF Backed
<1>9. /\ Kept(m) /\ m.cur = s.cur /\ m.td = s.td
      /\ \A d \in CPU : m.tdq[d] = IF d = c THEN q ELSE s.tdq[d]
      /\ \A d \in CPU : Extra(m, d) = Extra(s, d) + IF d = c THEN q.load - s.tdq[c].load ELSE 0
  BY <1>4, <1>6, <1>7, <1>8, SetTdqKept
<1>10. m.td[t].state # "runq" /\ m.td[t].cpu = c
  BY <1>9
<1>11. /\ Kept(k) /\ k.cur = m.cur
       /\ \A u \in Thread : k.td[u].pri = m.td[u].pri
       /\ \A u \in Thread \ {t} : k.td[u] = m.td[u]
       /\ k.td[t].state = "runq" /\ k.td[t].cpu = c
       /\ \A d \in CPU : /\ k.tdq[d].lowpri = m.tdq[d].lowpri
                         /\ Extra(k, d) = Extra(m, d) - IF d = c THEN 1 ELSE 0
  BY <1>9, <1>10, RunqAddKept DEF k
<1>12. /\ Kept(n) /\ n.cur = k.cur /\ n.td = k.td
       /\ \A d \in CPU : /\ n.tdq[d].lowpri = k.tdq[d].lowpri
                         /\ Extra(n, d) = Extra(k, d) + IF d = c THEN 1 ELSE 0
  BY <1>11, LoadAddKept DEF n
<1>13. ASSUME NEW d \in CPU
       PROVE  Extra(n, d) = Extra(s, d)
  <2>1. s.tdq[d].load \in Int /\ Cardinality(On(s, d)) \in Nat
    BY <1>1, SysParts, CountersGood, QueuedFinite
  <2>2. Extra(s, d) \in Int
    BY <2>1 DEF Extra
  <2>3. q.load - s.tdq[c].load = 0
    BY <1>2, <1>7
  <2> QED
    BY <1>9, <1>11, <1>12, <2>2, <2>3
<1>14. ASSUME NEW d \in CPU, LowAt(s, d)
       PROVE  LowAt(n, d)
  <2>1. n.tdq[d].lowpri = m.tdq[d].lowpri
    BY <1>11, <1>12
  <2>2. n.tdq[d].lowpri <= s.tdq[d].lowpri
    <3>1. s.tdq[d].lowpri \in Int
      BY <1>1, SysParts, CountersGood DEF Pri
    <3> QED
      BY <1>3, <1>7, <1>9, <2>1, <3>1
  <2> QED
    BY <1>1, <1>9, <1>11, <1>12, <1>14, <2>2, LowSame DEF Kept
<1> QED
  BY <1>5, <1>9, <1>11, <1>12, <1>13, <1>14 DEF Places

(* sched_rem of a queued thread. *)
LEMMA SchedRemPlaces ==
  ASSUME NEW s, Kept(s), NEW t \in Thread, s.td[t].state = "runq"
  PROVE  Places(s, SchedRem(s, t), t, "canrun", s.td[t].cpu)
<1> DEFINE c   == s.td[t].cpu
           k   == RunqRem(s, c, t, "canrun")
           out == LoadAdd(k, c, -1)
           low == SetLowpri(out.tdq[c], CurPri(out, c), Prio(out))
           n   == SchedRem(s, t)
<1>1. s \in SysType /\ c \in CPU
  BY SysParts, ThreadParts DEF Kept
<1>2. c = s.td[t].cpu
  OBVIOUS
<1>3. n = out \/ n = SetTdq(out, c, low)
  BY DEF SchedRem
<1> HIDE DEF c, k, out, low, n
<1>4. /\ Kept(k) /\ k.cur = s.cur
      /\ \A u \in Thread : k.td[u].pri = s.td[u].pri
      /\ \A u \in Thread \ {t} : k.td[u] = s.td[u]
      /\ k.td[t].state = "canrun" /\ k.td[t].cpu = c
      /\ \A d \in CPU : /\ k.tdq[d].lowpri = s.tdq[d].lowpri
                        /\ Extra(k, d) = Extra(s, d) + IF d = c THEN 1 ELSE 0
  BY <1>1, <1>2, RunqRemKept DEF k
<1>5. /\ Kept(out) /\ out.cur = k.cur /\ out.td = k.td
      /\ \A d \in CPU : /\ out.tdq[d].lowpri = k.tdq[d].lowpri
                        /\ Extra(out, d) = Extra(k, d) + IF d = c THEN -1 ELSE 0
  BY <1>1, <1>4, LoadAddKept DEF out
<1>6. \A d \in CPU : Extra(out, d) = Extra(s, d)
  <2> TAKE d \in CPU
  <2>1. s.tdq[d].load \in Int /\ Cardinality(On(s, d)) \in Nat
    BY <1>1, SysParts, CountersGood, QueuedFinite
  <2>2. Extra(s, d) \in Int
    BY <2>1 DEF Extra
  <2> QED
    BY <1>4, <1>5, <2>2
<1>7. Places(s, out, t, "canrun", c)
  <2>1. ASSUME NEW d \in CPU, LowAt(s, d)
        PROVE  LowAt(out, d)
    <3>1. out.tdq[d].lowpri = s.tdq[d].lowpri /\ s.tdq[d].lowpri \in Int
      BY <1>1, <1>4, <1>5, SysParts, CountersGood DEF Pri
    <3> QED
      BY <1>1, <1>4, <1>5, <2>1, <3>1, LowSame DEF Kept
  <2> QED
    BY <1>4, <1>5, <1>6, <2>1 DEF Places
<1>8. Places(out, SetTdq(out, c, low), t, "canrun", c)
  <2> DEFINE m == SetTdq(out, c, low)
  <2>1. /\ out \in SysType /\ out.tdq[c] \in GoodTdq /\ CurPri(out, c) \in Pri
        /\ Prio(out) \in [Thread -> Pri]
    BY <1>1, <1>5, SysParts DEF Kept
  <2>2. /\ low.lowpri <= CurPri(out, c)
        /\ low.rq = out.tdq[c].rq /\ low.load = out.tdq[c].load
        /\ low.ipipending = out.tdq[c].ipipending
        /\ low.transferable = out.tdq[c].transferable /\ low \in GoodTdq
    BY <2>1, SetLowpriBound, SetLowpriGood DEF low
  <2>3. low.ipipending => out.ipi[c]
    BY <1>1, <1>5, <2>2 DEF Kept, Backed
  <2> HIDE DEF m
  <2>4. /\ Kept(m) /\ m.cur = out.cur /\ m.td = out.td
        /\ \A d \in CPU : m.tdq[d] = IF d = c THEN low ELSE out.tdq[d]
        /\ \A d \in CPU : Extra(m, d) = Extra(out, d)
                            + IF d = c THEN low.load - out.tdq[c].load ELSE 0
    BY <1>1, <1>5, <2>2, <2>3, SetTdqKept DEF m
  <2>5. ASSUME NEW d \in CPU
        PROVE  /\ Extra(m, d) = Extra(out, d)
               /\ LowAt(out, d) => LowAt(m, d)
    <3>1. /\ out.tdq[d].load \in Int /\ Cardinality(On(out, d)) \in Nat
          /\ out.tdq[d].lowpri \in Int /\ out.tdq[c].load \in Int
      BY <1>1, <2>1, SysParts, CountersGood, QueuedFinite DEF Pri
    <3>2. Extra(out, d) \in Int
      BY <3>1 DEF Extra
    <3>3. low.load - out.tdq[c].load = 0
      BY <2>2, <3>1
    <3>4. CurPri(m, d) = CurPri(out, d)
      BY <2>1, <2>4, CurPriSame
    <3>5. LowAt(out, d) => LowAt(m, d)
      BY <2>2, <2>4, <3>4 DEF LowAt
    <3> QED
      BY <2>4, <3>2, <3>3, <3>5
  <2> QED
    BY <1>4, <1>5, <2>4, <2>5 DEF Places, m
<1> QED
  BY <1>2, <1>3, <1>7, <1>8, PlacesThen DEF n

(* tdq_notify: the mark is set together with the IPI. *)
LEMMA NotifyPlaces ==
  ASSUME NEW s, Kept(s), NEW c \in CPU, NEW t, NEW wired, NEW x \in Thread
  PROVE  Places(s, Notify(s, c, t, wired), x, s.td[x].state, s.td[x].cpu)
<1> DEFINE q == [s.tdq[c] EXCEPT !.ipipending = TRUE]
           m == SetTdq(s, c, q)
           n == [m EXCEPT !.ipi[c] = TRUE]
<1>1. s \in SysType /\ Backed(s)
  BY DEF Kept
<1>2. s.tdq[c] \in GoodTdq /\ s.tdq[c] \in TdqType
  BY <1>1, SysParts DEF GoodTdq
<1>3. q \in GoodTdq
  BY <1>2, CountersGood
<1>4. /\ q.rq = s.tdq[c].rq /\ q.transferable = s.tdq[c].transferable
      /\ q.lowpri = s.tdq[c].lowpri /\ q.load = s.tdq[c].load
  BY <1>2 DEF TdqType
<1>5. Notify(s, c, t, wired) = s \/ Notify(s, c, t, wired) = n
  BY DEF Notify
<1> HIDE DEF q
<1>6. /\ m \in SysType /\ m.cur = s.cur /\ m.td = s.td /\ m.ipi = s.ipi
      /\ \A d \in CPU : m.tdq[d] = IF d = c THEN q ELSE s.tdq[d]
  BY <1>1, <1>3, SetTdqType, ZenonT(60) DEF SetTdq, SysType
<1> HIDE DEF m
<1>7. /\ n \in SysType /\ n.cur = s.cur /\ n.td = s.td
      /\ \A d \in CPU : n.tdq[d] = IF d = c THEN q ELSE s.tdq[d]
      /\ \A d \in CPU : n.ipi[d] = IF d = c THEN TRUE ELSE s.ipi[d]
  <2>1. n \in SysType
    BY <1>6, SetIpiType
  <2> QED
    BY <1>6, <2>1 DEF SysType
<1> HIDE DEF n
<1>8. Kept(n) /\ \A d \in CPU : On(n, d) = On(s, d)
  <2>1. \A d \in CPU : /\ n.tdq[d].rq = s.tdq[d].rq
                       /\ n.tdq[d].transferable = s.tdq[d].transferable
                       /\ n.tdq[d].ipipending => n.ipi[d]
    BY <1>1, <1>4, <1>7 DEF Backed
  <2>2. \A u \in Thread : s.td[u].pri >= s.td[u].pri
    BY <1>1, SysParts, ThreadParts DEF Pri
  <2>3. \A u \in Thread : Alike(s.td[u], n.td[u])
    BY <1>7, <2>2 DEF Alike
  <2> QED
    BY <1>7, <2>1, <2>3, KeptFrame
<1>9. ASSUME NEW d \in CPU
      PROVE  (LowAt(s, d) => LowAt(n, d)) /\ Extra(n, d) = Extra(s, d)
  <2>1. n.tdq[d].load = s.tdq[d].load /\ n.tdq[d].lowpri = s.tdq[d].lowpri
    BY <1>4, <1>7
  <2>2. CurPri(n, d) = CurPri(s, d)
    BY <1>1, <1>7, CurPriSame
  <2> QED
    BY <1>8, <2>1, <2>2 DEF LowAt, Extra
<1>10. Places(s, n, x, s.td[x].state, s.td[x].cpu)
  BY <1>7, <1>8, <1>9 DEF Places
<1>11. Places(s, s, x, s.td[x].state, s.td[x].cpu)
  BY DEF Places
<1> QED
  BY <1>5, <1>10, <1>11

(* A current thread is asked to reschedule, or its record changes in       *)
(* another way that no queue and no CPU looks at.                          *)
LEMMA SetTdPlaces ==
  ASSUME NEW s, Kept(s), NEW u \in Thread, NEW r \in ThreadType,
         r.state = s.td[u].state, r.cpu = s.td[u].cpu, r.pri = s.td[u].pri,
         Alike(s.td[u], r), NEW x \in Thread
  PROVE  Places(s, SetTd(s, u, r), x, s.td[x].state, s.td[x].cpu)
<1> DEFINE n == SetTd(s, u, r)
<1>1. s \in SysType
  BY DEF Kept
<1> HIDE DEF n
<1>2. /\ Kept(n) /\ n.cur = s.cur /\ n.tdq = s.tdq
      /\ \A y \in Thread : n.td[y] = IF y = u THEN r ELSE s.td[y]
      /\ \A d \in CPU : Extra(n, d) = Extra(s, d)
  BY SetTdKept DEF n
<1>3. \A y \in Thread : n.td[y].pri = s.td[y].pri
  BY <1>2
<1>4. \A d \in CPU : CurPri(n, d) = CurPri(s, d)
  BY <1>1, <1>2, <1>3, CurPriSame
<1>5. \A d \in CPU : LowAt(s, d) => LowAt(n, d)
  BY <1>2, <1>4 DEF LowAt
<1> QED
  BY <1>2, <1>3, <1>5 DEF Places, n

(* sched_setpreempt *)
LEMMA SetPreemptPlaces ==
  ASSUME NEW s, Kept(s), NEW c \in CPU, NEW t, NEW x \in Thread
  PROVE  Places(s, SetPreempt(s, c, t), x, s.td[x].state, s.td[x].cpu)
<1> DEFINE u   == s.cur[c]
           o   == s.td[u]
           owe == ShouldPreempt(s.td[t].pri, CurPri(s, c), FALSE)
           b   == o.owepreempt \/ owe
           r   == [o EXCEPT !.needresched = TRUE, !.owepreempt = b]
<1>1. s \in SysType
  BY DEF Kept
<1>2. Places(s, s, x, s.td[x].state, s.td[x].cpu)
  BY DEF Places
<1>3. \/ SetPreempt(s, c, t) = s
      \/ u # NoThread /\ SetPreempt(s, c, t) = SetTd(s, u, r)
  BY DEF SetPreempt
<1>4. CASE u # NoThread
  <2>1. u \in Thread /\ o \in ThreadType /\ o.owepreempt \in BOOLEAN /\ o.pri >= o.pri
    BY <1>1, <1>4, SysParts, ThreadParts DEF Pri
  <2>2. b \in BOOLEAN
    BY <2>1 DEF ShouldPreempt
  <2> HIDE DEF u, b
  <2>3. /\ r \in ThreadType /\ r.state = o.state /\ r.cpu = o.cpu /\ r.pri = o.pri
        /\ r.runq = o.runq /\ r.rqindex = o.rqindex /\ r.xferable = o.xferable
        /\ r.pinned = o.pinned
    BY <2>1, <2>2 DEF ThreadType
  <2> HIDE DEF r
  <2>4. Alike(o, r)
    BY <2>1, <2>3 DEF Alike
  <2> QED
    BY <1>2, <1>3, <2>1, <2>3, <2>4, SetTdPlaces
<1> QED
  BY <1>2, <1>3, <1>4

(* The end of sched_add. *)
LEMMA AddToPlaces ==
  ASSUME NEW s, Kept(s), NEW c \in CPU, NEW d \in CPU, NEW t \in Thread, NEW flags,
         NEW wired, s.td[t].state # "runq", s.td[t].cpu = d
  PROVE  Places(s, AddTo(s, c, d, t, flags, wired), t, "runq", d)
<1> DEFINE m == TdqAdd(s, d, t, flags)
<1>1. Places(s, m, t, "runq", d)
  BY TdqAddPlaces
<1> HIDE DEF m
<1>2. Kept(m) /\ m.td[t].state = "runq" /\ m.td[t].cpu = d
  BY <1>1 DEF Places
<1>3. Places(m, SetPreempt(m, c, t), t, "runq", d) /\ Places(m, Notify(m, d, t, wired), t, "runq", d)
  BY <1>2, SetPreemptPlaces, NotifyPlaces
<1>4. Places(s, SetPreempt(m, c, t), t, "runq", d) /\ Places(s, Notify(m, d, t, wired), t, "runq", d)
  BY <1>1, <1>3, PlacesThen
<1> QED
  BY <1>4 DEF AddTo, m

(* tdq_move *)
LEMMA MovePlaces ==
  ASSUME NEW s, Kept(s), NEW t \in Thread, NEW c \in CPU, s.td[t].state = "runq"
  PROVE  Places(s, Move(s, t, c), t, "runq", c)
<1> DEFINE out == SchedRem(s, t)
           r   == [out.td[t] EXCEPT !.cpu = c]
           m   == SetTd(out, t, r)
<1>1. Places(s, out, t, "canrun", s.td[t].cpu)
  BY SchedRemPlaces
<1>2. Move(s, t, c) = TdqAdd(m, c, t, {})
  BY DEF Move
<1> HIDE DEF out
<1>3. Kept(out) /\ out \in SysType /\ out.td[t].state = "canrun" /\ out.td[t] \in ThreadType
  BY <1>1, SysParts DEF Places, Kept
<1>4. r \in ThreadType /\ r.state = "canrun" /\ r.cpu = c /\ r.pri = out.td[t].pri
  BY <1>3 DEF ThreadType
<1> HIDE DEF r, m
<1>5. Alike(out.td[t], r)
  BY <1>3, <1>4 DEF Alike
<1>6. /\ Kept(m) /\ m.cur = out.cur /\ m.tdq = out.tdq
      /\ \A u \in Thread : m.td[u] = IF u = t THEN r ELSE out.td[u]
      /\ \A d \in CPU : Extra(m, d) = Extra(out, d)
  BY <1>3, <1>4, <1>5, SetTdKept DEF m
<1>7. Places(out, m, t, "canrun", c)
  <2>1. \A u \in Thread : m.td[u].pri = out.td[u].pri
    BY <1>4, <1>6
  <2>2. \A d \in CPU : CurPri(m, d) = CurPri(out, d)
    BY <1>3, <1>6, <2>1, CurPriSame
  <2>3. \A d \in CPU : LowAt(out, d) => LowAt(m, d)
    BY <1>6, <2>2 DEF LowAt
  <2> QED
    BY <1>4, <1>6, <2>1, <2>3 DEF Places
<1>8. m.td[t].state # "runq" /\ m.td[t].cpu = c
  BY <1>4, <1>6
<1>9. Places(m, Move(s, t, c), t, "runq", c)
  BY <1>2, <1>6, <1>8, TdqAddPlaces
<1>10. Places(s, m, t, "canrun", c)
  BY <1>1, <1>7, PlacesThen
<1> QED
  BY <1>9, <1>10, PlacesThen

(* A thread on a list of c is queued on c. *)
LEMMA OnSomeQueued ==
  ASSUME NEW s, Kept(s), NEW c \in CPU, NEW t, OnSome(s.tdq[c], t)
  PROVE  t \in Thread /\ s.td[t].state = "runq" /\ s.td[t].cpu = c
<1>1. PICK r \in RunqName, i \in Idx : t \in Range(s.tdq[c].rq[r].queues[i])
  BY DEF OnSome
<1>2. t \in Filed(s, c, r, i)
  BY <1>1 DEF Kept, Listed, List
<1> QED
  BY <1>2 DEF Filed

(* choosethread: the thread that c switches to was queued on c. *)
LEMMA ChooseKept ==
  ASSUME NEW s, Kept(s), NEW c \in CPU
  PROVE  LET t == TdqChoose(s.tdq[c])
             n == Choose(s, c)
         IN /\ Kept(n) /\ t \in Thread \cup {NoThread}
            /\ n.cur[c] = t /\ \A d \in CPU \ {c} : n.cur[d] = s.cur[d]
            /\ \A u \in Thread \ {t} : n.td[u] = s.td[u]
            /\ t # NoThread => /\ s.td[t].state = "runq" /\ s.td[t].cpu = c
                               /\ n.td[t].state = "running" /\ n.td[t].cpu = c
            /\ LowAt(n, c)
            /\ \A d \in CPU \ {c} : LowAt(s, d) => LowAt(n, d)
            /\ \A d \in CPU \ {c} : Extra(n, d) = Extra(s, d)
            /\ Extra(n, c) = Extra(s, c) + IF t # NoThread THEN 1 ELSE 0
<1> DEFINE t   == TdqChoose(s.tdq[c])
           low == IF t = NoThread THEN MaxPri ELSE s.td[t].pri
           q   == [s.tdq[c] EXCEPT !.lowpri = low]
           at  == [s EXCEPT !.cur[c] = t]
           on  == [s EXCEPT !.cur[c] = t, !.tdq[c].lowpri = low]
           n   == Choose(s, c)
<1>1. s \in SysType /\ Backed(s)
  BY DEF Kept
<1>2. s.tdq[c] \in GoodTdq /\ s.tdq[c] \in TdqType
  BY <1>1, SysParts DEF GoodTdq
<1>3. /\ t \in Thread \cup {NoThread}
      /\ t # NoThread => t \in Thread /\ s.td[t].state = "runq" /\ s.td[t].cpu = c
  BY <1>2, TdqChooseType, TdqChooseOn, OnSomeQueued
<1>4. n = IF t = NoThread THEN on ELSE RunqRem(on, c, t, "running")
  BY DEF Choose
<1> HIDE DEF t, n
<1>5. low \in Pri
  BY <1>1, <1>3, SysParts, ThreadParts, TdqAssumption DEF Pri
<1> HIDE DEF low
<1>6. /\ q \in GoodTdq /\ q.lowpri = low /\ q.rq = s.tdq[c].rq /\ q.load = s.tdq[c].load
      /\ q.transferable = s.tdq[c].transferable /\ q.ipipending = s.tdq[c].ipipending
  BY <1>2, <1>5, CountersGood DEF TdqType
<1>7. on = SetTdq(at, c, q)
  BY <1>1 DEF SetTdq, SysType
<1>8. /\ at \in SysType /\ at.tdq = s.tdq /\ at.td = s.td /\ at.ipi = s.ipi
      /\ \A d \in CPU : at.cur[d] = IF d = c THEN t ELSE s.cur[d]
  <2>1. at \in SysType
    <3>1. t \in Thread \cup {NoThread}
      BY <1>3
    <3> QED
      BY <1>1, <3>1, SetCurType
  <2> QED
    BY <1>1, <2>1 DEF SysType

<1> HIDE DEF q, at, on
<1>9. /\ on \in SysType /\ on.td = s.td /\ on.ipi = s.ipi
      /\ \A d \in CPU : on.cur[d] = IF d = c THEN t ELSE s.cur[d]
      /\ \A d \in CPU : on.tdq[d] = IF d = c THEN q ELSE s.tdq[d]
  BY <1>6, <1>7, <1>8, SetTdqType, ZenonT(60) DEF SetTdq, SysType
<1>10. Kept(on) /\ \A d \in CPU : On(on, d) = On(s, d)
  <2>1. \A d \in CPU : /\ on.tdq[d].rq = s.tdq[d].rq
                       /\ on.tdq[d].transferable = s.tdq[d].transferable
                       /\ on.tdq[d].ipipending => on.ipi[d]
    BY <1>1, <1>6, <1>9 DEF Backed
  <2>2. \A u \in Thread : s.td[u].pri >= s.td[u].pri
    BY <1>1, SysParts, ThreadParts DEF Pri
  <2>3. \A u \in Thread : Alike(s.td[u], on.td[u])
    BY <1>9, <2>2 DEF Alike
  <2> QED
    BY <1>9, <2>1, <2>3, KeptFrame
<1>11. \A d \in CPU : Extra(on, d) = Extra(s, d)
  BY <1>6, <1>9, <1>10 DEF Extra
<1>12. /\ Kept(n) /\ n.cur = on.cur
       /\ \A u \in Thread : n.td[u].pri = s.td[u].pri
       /\ \A u \in Thread \ {t} : n.td[u] = s.td[u]
       /\ t # NoThread => n.td[t].state = "running" /\ n.td[t].cpu = c
       /\ \A d \in CPU : n.tdq[d].lowpri = on.tdq[d].lowpri
       /\ \A d \in CPU \ {c} : Extra(n, d) = Extra(on, d)
       /\ Extra(n, c) = Extra(on, c) + IF t # NoThread THEN 1 ELSE 0
  <2>1. \A d \in CPU : Extra(on, d) \in Int
    <3>1. \A d \in CPU : on.tdq[d].load \in Int /\ Cardinality(On(on, d)) \in Nat
      BY <1>9, SysParts, CountersGood, QueuedFinite
    <3> QED
      BY <3>1 DEF Extra
  <2>2. CASE t = NoThread
    BY <1>4, <1>9, <1>10, <2>1, <2>2
  <2>3. CASE t # NoThread
    <3>1. /\ t \in Thread /\ on.td[t].state = "runq" /\ on.td[t].cpu = c
          /\ n = RunqRem(on, c, t, "running")
      BY <1>3, <1>4, <1>9, <2>3
    <3>2. /\ Kept(n) /\ n.cur = on.cur
          /\ \A u \in Thread : n.td[u].pri = on.td[u].pri
          /\ \A u \in Thread \ {t} : n.td[u] = on.td[u]
          /\ n.td[t].state = "running" /\ n.td[t].cpu = c
          /\ \A d \in CPU : /\ n.tdq[d].lowpri = on.tdq[d].lowpri
                            /\ Extra(n, d) = Extra(on, d) + IF d = c THEN 1 ELSE 0
      BY <1>10, <3>1, RunqRemKept
    <3> QED
      BY <1>9, <2>1, <2>3, <3>2
  <2> QED
    BY <2>2, <2>3
<1>13. LowAt(n, c)
  <2>1. n.tdq[c].lowpri = low /\ n.cur[c] = t /\ low <= low
    BY <1>5, <1>6, <1>9, <1>12 DEF Pri
  <2> QED
    BY <1>3, <1>12, <2>1 DEF LowAt, CurPri, low
<1>14. ASSUME NEW d \in CPU \ {c}, LowAt(s, d)
       PROVE  LowAt(n, d)
  <2>1. n.tdq[d].lowpri = s.tdq[d].lowpri /\ n.cur[d] = s.cur[d]
    BY <1>9, <1>12
  <2>2. CurPri(n, d) = CurPri(s, d)
    <3>1. s.cur[d] \in Thread \cup {NoThread}
      BY <1>1, SysParts
    <3> QED
      BY <1>12, <2>1, <3>1 DEF CurPri
  <2> QED
    BY <1>14, <2>1, <2>2 DEF LowAt
<1> QED
  BY <1>3, <1>9, <1>11, <1>12, <1>13, <1>14 DEF t, n

(***************************************************************************)
(* Who runs where.  p[c] is what CPU c has left to do.                     *)
(***************************************************************************)
\* The current thread of c is in the state that its step calls for.
Stands(s, p, c) ==
  /\ p[c].step \in {"migrate", "trysteal"} => s.cur[c] = p[c].thread
  /\ p[c].step = "setcpu" => s.td[p[c].thread].state = "canrun"
  /\ s.cur[c] # NoThread =>
       /\ p[c].step \in {"run", "setcpu"}
            => s.td[s.cur[c]].state = "running" /\ s.td[s.cur[c]].cpu = c
       /\ p[c].step = "migrate" => s.td[s.cur[c]].state = "running"
       /\ p[c].step = "trysteal" => s.td[s.cur[c]].state = "sleeping"

\* What the load of c counts beside its queue.
Counts(s, p, c) ==
  IF s.cur[c] # NoThread /\ p[c].step \notin {"migrate", "trysteal"} THEN 1 ELSE 0

\* No two CPUs of cs have a current thread, or a thread in transit, in common.
Apart(s, p, cs) ==
  \A c, d \in cs : /\ s.cur[c] = s.cur[d] /\ s.cur[c] # NoThread => c = d
                   /\ p[c].thread = p[d].thread /\ p[c].thread # NoThread => c = d

\* A running thread is the current thread of one of cs.
Known(s, cs) == \A t \in Thread : s.td[t].state = "running" => \E c \in cs : s.cur[c] = t

\* CPU c is as it should be between two critical sections.
Settled(s, p, c) == Stands(s, p, c) /\ LowAt(s, c) /\ Extra(s, c) = Counts(s, p, c)

Sound(s, p) ==
  /\ Kept(s) /\ p \in [CPU -> PendType]
  /\ \A c \in CPU : Settled(s, p, c)
  /\ Apart(s, p, CPU) /\ Known(s, CPU)

\* All CPUs but c, which has no current thread that counts.
Vacant(s, p, c) ==
  /\ Kept(s) /\ p \in [CPU -> PendType]
  /\ \A d \in CPU \ {c} : Settled(s, p, d)
  /\ Extra(s, c) = 0
  /\ Apart(s, p, CPU \ {c}) /\ Known(s, CPU \ {c})

\* c runs its current thread, whose record may already name another CPU.
Nearly(s, p, c) ==
  /\ Kept(s) /\ p \in [CPU -> PendType]
  /\ \A d \in CPU \ {c} : Settled(s, p, d)
  /\ LowAt(s, c) /\ Extra(s, c) = Counts(s, p, c)
  /\ Apart(s, p, CPU) /\ Known(s, CPU)
  /\ s.cur[c] # NoThread /\ s.td[s.cur[c]].state = "running"

\* n is s but for t, and each CPU keeps its current thread, load and mark.
Shift(s, n, t) ==
  /\ Kept(n) /\ n.cur = s.cur
  /\ \A u \in Thread \ {t} : n.td[u].state = s.td[u].state /\ n.td[u].cpu = s.td[u].cpu
  /\ \A d \in CPU : (LowAt(s, d) => LowAt(n, d)) /\ Extra(n, d) = Extra(s, d)

\* No CPU runs t or has it in transit.
Loose(s, p, t) == \A c \in CPU : s.cur[c] # t /\ p[c].thread # t

(* What a CPU between two critical sections still has to do. *)
LEMMA PendSteps ==
  ASSUME NEW p \in [CPU -> PendType], NEW c \in CPU
  PROVE  \/ p[c].step = "run" /\ p[c].thread = NoThread /\ p[c] = NoPend
         \/ p[c].step \in {"setcpu", "migrate", "trysteal"} /\ p[c].thread \in Thread
BY DEF PendType, NoPend

(* A thread that is queued, or that sleeps on no CPU's account, is loose. *)
LEMMA StandsApart ==
  ASSUME NEW s, NEW p \in [CPU -> PendType], NEW c \in CPU, Stands(s, p, c),
         NEW t \in Thread
  PROVE  /\ s.td[t].state \notin {"running", "sleeping", "canrun"}
              => s.cur[c] # t /\ p[c].thread # t
         /\ s.td[t].state \notin {"running"} /\ p[c].thread # t => s.cur[c] # t
         /\ s.td[t].state \in {"running"} /\ s.cur[c] # t => p[c].thread # t
<1>1. t # NoThread
  BY RunqAssumption
<1> QED
  BY <1>1, PendSteps DEF Stands

(* A queued thread is neither running nor in transit. *)
LEMMA QueuedLoose ==
  ASSUME NEW s, NEW p, Sound(s, p), NEW t \in Thread, s.td[t].state = "runq"
  PROVE  Loose(s, p, t)
BY StandsApart DEF Sound, Settled, Loose

(* So is a thread that can be locked and does not run. *)
LEMMA UnlockedLoose ==
  ASSUME NEW s, NEW p, Sound(s, p), NEW t \in Thread, s.td[t].state # "running",
         \A c \in CPU : p[c].thread # t
  PROVE  Loose(s, p, t)
BY StandsApart DEF Sound, Settled, Loose

(* A loose thread is not running. *)
LEMMA LooseNotRunning ==
  ASSUME NEW s, NEW p, Sound(s, p), NEW t \in Thread, Loose(s, p, t)
  PROVE  s.td[t].state # "running"
BY DEF Sound, Known, Loose

(* A step that changes a loose thread only. *)
LEMMA LooseSound ==
  ASSUME NEW s, NEW n, NEW p, Sound(s, p), NEW t \in Thread, Loose(s, p, t),
         Shift(s, n, t), n.td[t].state # "running"
  PROVE  Sound(n, p) /\ Loose(n, p, t)
<1>1. s \in SysType /\ p \in [CPU -> PendType] /\ Kept(n) /\ n.cur = s.cur
  BY DEF Sound, Kept, Shift
<1>2. \A u \in Thread \ {t} : n.td[u].state = s.td[u].state /\ n.td[u].cpu = s.td[u].cpu
  BY DEF Shift
<1>3. Loose(n, p, t)
  BY <1>1 DEF Loose
<1>4. ASSUME NEW c \in CPU
      PROVE  Settled(n, p, c)
  <2>1. Stands(s, p, c) /\ LowAt(s, c) /\ Extra(s, c) = Counts(s, p, c)
    BY DEF Sound, Settled
  <2>2. s.cur[c] # t /\ s.cur[c] \in Thread \cup {NoThread} /\ p[c].thread # t
    BY <1>1, SysParts DEF Loose
  <2>3. Stands(n, p, c)
    BY <1>1, <1>2, <2>1, <2>2, PendSteps DEF Stands
  <2> QED
    BY <1>1, <2>1, <2>3 DEF Settled, Shift, Counts
<1>5. Apart(n, p, CPU)
  BY <1>1 DEF Sound, Apart
<1>6. Known(n, CPU)
  BY <1>1, <1>2 DEF Sound, Known
<1> QED
  BY <1>1, <1>3, <1>4, <1>5, <1>6 DEF Sound

(* A step that leaves every thread in its state and on its CPU. *)
LEMMA CalmSound ==
  ASSUME NEW s, NEW n, NEW p, Sound(s, p), NEW t \in Thread,
         Shift(s, n, t), n.td[t].state = s.td[t].state, n.td[t].cpu = s.td[t].cpu
  PROVE  Sound(n, p)
<1>1. s \in SysType /\ p \in [CPU -> PendType] /\ Kept(n) /\ n.cur = s.cur
  BY DEF Sound, Kept, Shift
<1>2. \A u \in Thread : n.td[u].state = s.td[u].state /\ n.td[u].cpu = s.td[u].cpu
  BY DEF Shift
<1>3. ASSUME NEW c \in CPU
      PROVE  Settled(n, p, c)
  <2>1. Stands(s, p, c) /\ LowAt(s, c) /\ Extra(s, c) = Counts(s, p, c)
    BY DEF Sound, Settled
  <2>2. s.cur[c] \in Thread \cup {NoThread}
    BY <1>1, SysParts
  <2>3. Stands(n, p, c)
    BY <1>1, <1>2, <2>1, <2>2, PendSteps DEF Stands
  <2> QED
    BY <1>1, <2>1, <2>3 DEF Settled, Shift, Counts
<1>4. Apart(n, p, CPU)
  BY <1>1 DEF Sound, Apart
<1>5. Known(n, CPU)
  BY <1>1, <1>2 DEF Sound, Known
<1> QED
  BY <1>1, <1>3, <1>4, <1>5 DEF Sound

(* A CPU with a thread that runs is as it should be, and more. *)
LEMMA SoundNearly ==
  ASSUME NEW s, NEW p, Sound(s, p), NEW c \in CPU, s.cur[c] # NoThread,
         p[c].step # "trysteal"
  PROVE  Nearly(s, p, c)
<1>1. s.td[s.cur[c]].state = "running"
  <2>1. Stands(s, p, c) /\ p \in [CPU -> PendType]
    BY DEF Sound, Settled
  <2> QED
    BY <2>1, PendSteps DEF Stands
<1> QED
  BY <1>1 DEF Sound, Settled, Nearly

(* The others do not have the current thread of c in transit. *)
LEMMA NearlyApart ==
  ASSUME NEW s, NEW p, NEW c \in CPU, Nearly(s, p, c), NEW d \in CPU \ {c}
  PROVE  s.cur[d] # s.cur[c] /\ p[d].thread # s.cur[c] /\ s.cur[c] \in Thread
<1>1. s.cur[d] # s.cur[c]
  BY DEF Nearly, Apart
<1>2. s.cur[c] \in Thread
  BY SysParts DEF Nearly, Kept
<1>3. p \in [CPU -> PendType] /\ Stands(s, p, d) /\ s.td[s.cur[c]].state = "running"
  BY DEF Nearly, Settled
<1> QED
  BY <1>1, <1>2, <1>3, StandsApart

(* The other CPUs do not notice what happens to the current thread of c. *)
LEMMA OthersSettled ==
  ASSUME NEW s, NEW n, NEW p, NEW c \in CPU, Nearly(s, p, c),
         n.cur = s.cur,
         \A u \in Thread \ {s.cur[c]} :
           n.td[u].state = s.td[u].state /\ n.td[u].cpu = s.td[u].cpu,
         NEW d \in CPU \ {c}, LowAt(s, d) => LowAt(n, d), Extra(n, d) = Extra(s, d)
  PROVE  Settled(n, p, d)
<1>1. Stands(s, p, d) /\ LowAt(s, d) /\ Extra(s, d) = Counts(s, p, d)
  BY DEF Nearly, Settled
<1>2. s.cur[d] # s.cur[c] /\ p[d].thread # s.cur[c] /\ s.cur[c] \in Thread
  BY NearlyApart
<1>3. s.cur[d] \in Thread \cup {NoThread} /\ p \in [CPU -> PendType]
  BY SysParts DEF Nearly, Kept
<1>4. Stands(n, p, d)
  BY <1>1, <1>2, <1>3, PendSteps DEF Stands
<1> QED
  BY <1>1, <1>4 DEF Settled, Counts

(* The current thread of c stops running: c must choose another. *)
LEMMA LeaveVacant ==
  ASSUME NEW s, NEW n, NEW p, NEW c \in CPU, Nearly(s, p, c),
         Kept(n), n.cur = s.cur,
         \A u \in Thread \ {s.cur[c]} :
           n.td[u].state = s.td[u].state /\ n.td[u].cpu = s.td[u].cpu,
         n.td[s.cur[c]].state # "running",
         \A d \in CPU \ {c} : (LowAt(s, d) => LowAt(n, d)) /\ Extra(n, d) = Extra(s, d),
         Extra(n, c) = 0
  PROVE  Vacant(n, p, c)
<1>1. \A d \in CPU \ {c} : Settled(n, p, d)
  BY OthersSettled, ZenonT(60)
<1>2. Apart(n, p, CPU \ {c})
  BY DEF Nearly, Apart
<1>3. Known(n, CPU \ {c})
  <2> SUFFICES ASSUME NEW u \in Thread, n.td[u].state = "running"
               PROVE  \E d \in CPU \ {c} : n.cur[d] = u
    BY DEF Known
  <2>1. u # s.cur[c]
    OBVIOUS
  <2>2. s.td[u].state = "running"
    BY <2>1
  <2> QED
    BY <2>1, <2>2 DEF Nearly, Known
<1> QED
  BY <1>1, <1>2, <1>3 DEF Vacant, Nearly

(* The current thread of c leaves it, and c lets go of its queue first. *)
LEMMA LeavePend ==
  ASSUME NEW s, NEW n, NEW p, NEW c \in CPU, Nearly(s, p, c), p[c].step = "run",
         NEW step \in {"migrate", "trysteal"}, NEW flags \in SUBSET Flag,
         Kept(n), n.cur = s.cur,
         \A u \in Thread \ {s.cur[c]} :
           n.td[u].state = s.td[u].state /\ n.td[u].cpu = s.td[u].cpu,
         n.td[s.cur[c]].state = IF step = "migrate" THEN "running" ELSE "sleeping",
         \A d \in CPU : LowAt(s, d) => LowAt(n, d),
         \A d \in CPU \ {c} : Extra(n, d) = Extra(s, d),
         Extra(n, c) = 0
  PROVE  Sound(n, [p EXCEPT ![c] = [step |-> step, thread |-> s.cur[c], flags |-> flags]])
<1> DEFINE t == s.cur[c]
           e == [step |-> step, thread |-> t, flags |-> flags]
           m == [p EXCEPT ![c] = e]
<1>1. t \in Thread /\ p \in [CPU -> PendType] /\ t # NoThread
  BY SysParts DEF Nearly, Kept
<1>2. e \in PendType
  BY <1>1, PendRecord
<1>3. /\ e.step = step /\ e.thread = t
  OBVIOUS
<1> HIDE DEF e
<1>4. /\ m \in [CPU -> PendType] /\ m[c] = e /\ \A d \in CPU \ {c} : m[d] = p[d]
  BY <1>1, <1>2
<1> HIDE DEF m
<1>5. ASSUME NEW d \in CPU \ {c}
      PROVE  Settled(n, m, d)
  <2>1. (LowAt(s, d) => LowAt(n, d)) /\ Extra(n, d) = Extra(s, d)
    OBVIOUS
  <2>2. Settled(n, p, d)
    BY <2>1, OthersSettled
  <2> QED
    BY <1>4, <2>2 DEF Settled, Stands, Counts
<1>6. Settled(n, m, c)

  <2>1. LowAt(n, c) /\ Counts(n, m, c) = 0
    BY <1>3, <1>4 DEF Nearly, Counts
  <2>2. Stands(n, m, c)
    BY <1>1, <1>3, <1>4 DEF Stands
  <2> QED
    BY <2>1, <2>2 DEF Settled
<1>7. Apart(n, m, CPU)
  <2>1. \A d \in CPU \ {c} : p[d].thread # t
    BY NearlyApart
  <2> QED
    BY <1>3, <1>4, <2>1 DEF Nearly, Apart
<1>8. Known(n, CPU)
  <2>1. ASSUME NEW u \in Thread, n.td[u].state = "running", u # t
        PROVE  \E d \in CPU : n.cur[d] = u
    BY <2>1 DEF Nearly, Known
  <2> QED
    BY <2>1 DEF Known
<1> QED
  BY <1>4, <1>5, <1>6, <1>7, <1>8 DEF Sound, m, e

(* An idle CPU must choose a thread. *)
LEMMA IdleVacant ==
  ASSUME NEW s, NEW p, Sound(s, p), NEW c \in CPU,
         \/ s.cur[c] = NoThread /\ p[c].step = "run"
         \/ p[c].step = "trysteal"
  PROVE  Vacant(s, p, c)
<1>1. Settled(s, p, c) /\ p \in [CPU -> PendType]
  BY DEF Sound
<1>2. Extra(s, c) = 0
  BY <1>1 DEF Settled, Counts
<1>3. \A t \in Thread : s.td[t].state = "running" => s.cur[c] # t
  <2> SUFFICES ASSUME NEW t \in Thread, s.td[t].state = "running", s.cur[c] = t
               PROVE  FALSE
    OBVIOUS
  <2>1. t # NoThread
    BY RunqAssumption
  <2> QED
    BY <1>1, <2>1 DEF Settled, Stands
<1>4. Known(s, CPU \ {c})
  BY <1>3 DEF Sound, Known
<1> QED
  BY <1>1, <1>2, <1>4 DEF Sound, Vacant, Apart

(* A thread queued elsewhere comes to the queue of a CPU. *)
LEMMA VacantMove ==
  ASSUME NEW s, NEW n, NEW p, NEW c \in CPU, Vacant(s, p, c), NEW t \in Thread,
         s.td[t].state = "runq", NEW d, Places(s, n, t, "runq", d)
  PROVE  Vacant(n, p, c)
<1>1. s \in SysType /\ p \in [CPU -> PendType] /\ Kept(n) /\ n.cur = s.cur
  BY DEF Vacant, Kept, Places
<1>2. \A u \in Thread \ {t} : n.td[u].state = s.td[u].state /\ n.td[u].cpu = s.td[u].cpu
  BY DEF Places
<1>3. ASSUME NEW x \in CPU \ {c}
      PROVE  Settled(n, p, x)
  <2>1. Stands(s, p, x) /\ LowAt(s, x) /\ Extra(s, x) = Counts(s, p, x)
    BY DEF Vacant, Settled
  <2>2. s.cur[x] # t /\ p[x].thread # t /\ s.cur[x] \in Thread \cup {NoThread}
    BY <1>1, <2>1, StandsApart, SysParts
  <2>3. Stands(n, p, x)
    BY <1>1, <1>2, <2>1, <2>2, PendSteps DEF Stands
  <2> QED
    BY <1>1, <2>1, <2>3 DEF Settled, Places, Counts
<1>4. Known(n, CPU \ {c})
  BY <1>1, <1>2 DEF Vacant, Known, Places
<1> QED
  BY <1>1, <1>3, <1>4 DEF Vacant, Apart, Places

(* choosethread on a CPU that must choose. *)
LEMMA ChooseSound ==
  ASSUME NEW s, NEW p, NEW c \in CPU, Vacant(s, p, c)
  PROVE  Sound(Choose(s, c), [p EXCEPT ![c] = NoPend])
<1> DEFINE t == TdqChoose(s.tdq[c])
           n == Choose(s, c)
           m == [p EXCEPT ![c] = NoPend]
<1>1. Kept(s) /\ s \in SysType /\ p \in [CPU -> PendType]
  BY DEF Vacant, Kept
<1>2. /\ Kept(n) /\ t \in Thread \cup {NoThread}
      /\ n.cur[c] = t /\ \A d \in CPU \ {c} : n.cur[d] = s.cur[d]
      /\ \A u \in Thread \ {t} : n.td[u] = s.td[u]
      /\ t # NoThread => /\ s.td[t].state = "runq" /\ s.td[t].cpu = c
                         /\ n.td[t].state = "running" /\ n.td[t].cpu = c
      /\ LowAt(n, c)
      /\ \A d \in CPU \ {c} : LowAt(s, d) => LowAt(n, d)
      /\ \A d \in CPU \ {c} : Extra(n, d) = Extra(s, d)
      /\ Extra(n, c) = Extra(s, c) + IF t # NoThread THEN 1 ELSE 0
  BY <1>1, ChooseKept
<1> HIDE DEF t, n
<1>3. /\ m \in [CPU -> PendType] /\ m[c] = NoPend /\ \A d \in CPU \ {c} : m[d] = p[d]
  BY <1>1 DEF PendType
<1>4. NoPend.step = "run" /\ NoPend.thread = NoThread
  BY DEF NoPend
<1> HIDE DEF m
<1>5. ASSUME NEW d \in CPU \ {c}
      PROVE  /\ Settled(n, m, d) /\ (t # NoThread => s.cur[d] # t)
  <2>1. Stands(s, p, d) /\ LowAt(s, d) /\ Extra(s, d) = Counts(s, p, d)
    BY DEF Vacant, Settled
  <2>2. t # NoThread => s.cur[d] # t /\ p[d].thread # t
    BY <1>1, <1>2, <2>1, StandsApart
  <2>3. s.cur[d] \in Thread \cup {NoThread}
    BY <1>1, SysParts
  <2>4. \/ p[d].step = "run" \/ p[d].thread \in Thread
    BY <1>1, PendSteps
  <2>5. /\ s.cur[d] # NoThread => n.td[s.cur[d]] = s.td[s.cur[d]]
        /\ p[d].step # "run" => n.td[p[d].thread] = s.td[p[d].thread]
    <3>1. NoThread \notin Thread
      BY RunqAssumption
    <3> QED
      BY <1>2, <2>2, <2>3, <2>4, <3>1
  <2>6. Stands(n, m, d)
    BY <1>2, <1>3, <2>1, <2>5 DEF Stands
  <2>7. Counts(n, m, d) = Counts(s, p, d)
    BY <1>2, <1>3 DEF Counts
  <2> QED
    BY <1>2, <2>1, <2>2, <2>6, <2>7 DEF Settled
<1>6. Settled(n, m, c)
  <2>1. Stands(n, m, c)
    BY <1>2, <1>3, <1>4 DEF Stands
  <2>2. Counts(n, m, c) = IF t # NoThread THEN 1 ELSE 0
    BY <1>2, <1>3, <1>4 DEF Counts
  <2>3. Extra(s, c) = 0
    BY DEF Vacant
  <2> QED
    BY <1>2, <2>1, <2>2, <2>3 DEF Settled
<1>7. Apart(n, m, CPU)
  BY <1>2, <1>3, <1>4, <1>5 DEF Vacant, Apart
<1>8. Known(n, CPU)
  BY <1>2 DEF Vacant, Known
<1> QED
  BY <1>2, <1>3, <1>5, <1>6, <1>7, <1>8 DEF Sound, n, m

(* A thread that c takes to another CPU, once c lets go of its queue. *)
LEMMA HandOver ==
  ASSUME NEW s, NEW p, Sound(s, p), NEW t \in Thread, Loose(s, p, t),
         s.td[t].state = "canrun", NEW c \in CPU, p[c].step = "run",
         NEW flags \in SUBSET Flag
  PROVE  Sound(s, [p EXCEPT ![c] = [step |-> "setcpu", thread |-> t, flags |-> flags]])
<1> DEFINE e == [step |-> "setcpu", thread |-> t, flags |-> flags]
           m == [p EXCEPT ![c] = e]
<1>1. p \in [CPU -> PendType] /\ e \in PendType
  BY PendRecord DEF Sound
<1>2. e.step = "setcpu" /\ e.thread = t
  OBVIOUS
<1> HIDE DEF e
<1>3. /\ m \in [CPU -> PendType] /\ m[c] = e /\ \A d \in CPU \ {c} : m[d] = p[d]
  BY <1>1
<1> HIDE DEF m
<1>4. ASSUME NEW d \in CPU
      PROVE  Settled(s, m, d)
  <2>1. Settled(s, p, d)
    BY DEF Sound
  <2>2. CASE d = c
    BY <1>2, <1>3, <2>1, <2>2 DEF Settled, Stands, Counts
  <2>3. CASE d # c
    BY <1>3, <2>1, <2>3 DEF Settled, Stands, Counts
  <2> QED
    BY <2>2, <2>3
<1>5. Apart(s, m, CPU)
  <2>1. \A d \in CPU : p[d].thread # t
    BY DEF Loose
  <2> QED
    BY <1>2, <1>3, <2>1 DEF Sound, Apart
<1> QED
  BY <1>3, <1>4, <1>5 DEF Sound, m, e

(* And once it has the lock of the target. *)
LEMMA HandDone ==
  ASSUME NEW s, NEW p, Sound(s, p), NEW c \in CPU, p[c].step = "setcpu"
  PROVE  /\ p[c].thread \in Thread /\ s.td[p[c].thread].state = "canrun"
         /\ Sound(s, [p EXCEPT ![c] = NoPend])
         /\ Loose(s, [p EXCEPT ![c] = NoPend], p[c].thread)
<1> DEFINE t == p[c].thread
           m == [p EXCEPT ![c] = NoPend]
<1>1. p \in [CPU -> PendType] /\ t \in Thread /\ t # NoThread
  BY PendSteps, RunqAssumption DEF Sound
<1>2. s.td[t].state = "canrun"
  BY DEF Sound, Settled, Stands
<1> HIDE DEF t
<1>3. /\ m \in [CPU -> PendType] /\ m[c] = NoPend /\ \A d \in CPU \ {c} : m[d] = p[d]
  BY <1>1 DEF PendType
<1>4. NoPend.step = "run" /\ NoPend.thread = NoThread
  BY DEF NoPend
<1> HIDE DEF m
<1>5. ASSUME NEW d \in CPU
      PROVE  Settled(s, m, d)
  <2>1. Settled(s, p, d)
    BY DEF Sound
  <2>2. CASE d = c
    BY <1>3, <1>4, <2>1, <2>2 DEF Settled, Stands, Counts
  <2>3. CASE d # c
    BY <1>3, <2>1, <2>3 DEF Settled, Stands, Counts
  <2> QED
    BY <2>2, <2>3
<1>6. Apart(s, m, CPU)
  BY <1>3, <1>4 DEF Sound, Apart
<1>7. Sound(s, m)
  BY <1>3, <1>5, <1>6 DEF Sound
<1>8. \A d \in CPU : m[d].thread # t
  BY <1>1, <1>3, <1>4 DEF Sound, Apart, t
<1>9. Loose(s, m, t)
  BY <1>1, <1>2, <1>7, <1>8, UnlockedLoose
<1> QED
  BY <1>1, <1>2, <1>7, <1>9 DEF t, m

(***************************************************************************)
(* The inductive invariant of the safety theorems.                         *)
(***************************************************************************)
Safe == Sound(Sys, pend)

(* It holds more than the types. *)
LEMMA SafeInv ==
  ASSUME Safe
  PROVE  Inv /\ Sys \in SysType /\ pend \in [CPU -> PendType]
BY DEF Safe, Sound, Kept, Inv

(* A critical section ends in a sound state. *)
LEMMA BecomesSafe ==
  ASSUME NEW n, Sound(n, pend'), Becomes(n)
  PROVE  Safe'
<1>1. n \in SysType
  BY DEF Sound, Kept
<1>2. Sys' = n
  BY <1>1 DEF Becomes, Sys, SysType
<1> QED
  BY <1>2 DEF Safe

(* And its CPU goes on with its current thread. *)
LEMMA SettleSafe ==
  ASSUME NEW n, Sound(n, pend), Settle(n)
  PROVE  Safe'
<1>1. pend' = pend /\ Becomes(n)
  BY DEF Settle
<1> QED
  BY <1>1, BecomesSafe

(* A CPU that runs has nothing left to do. *)
LEMMA RunSame ==
  ASSUME NEW p \in [CPU -> PendType], NEW c \in CPU, p[c].step = "run"
  PROVE  [p EXCEPT ![c] = NoPend] = p
<1>1. p[c] = NoPend
  BY PendSteps
<1> QED
  BY <1>1

(* A change of place is a change of one thread. *)
LEMMA PlacesShift ==
  ASSUME NEW s, NEW n, NEW t, NEW st, NEW c, Places(s, n, t, st, c)
  PROVE  Shift(s, n, t) /\ n.td[t].state = st /\ n.td[t].cpu = c
BY DEF Places, Shift

(* A thread takes its place; nobody runs it or has it in transit. *)
LEMMA LoosePlaces ==
  ASSUME NEW s, NEW n, NEW p, Sound(s, p), NEW t \in Thread, Loose(s, p, t),
         NEW st, NEW c, Places(s, n, t, st, c), st # "running"
  PROVE  Sound(n, p) /\ Loose(n, p, t)
BY PlacesShift, LooseSound

(* A step that changes no place. *)
LEMMA CalmPlaces ==
  ASSUME NEW s, NEW n, NEW p, Sound(s, p), NEW t \in Thread,
         Places(s, n, t, s.td[t].state, s.td[t].cpu)
  PROVE  Sound(n, p)
BY PlacesShift, CalmSound

(* The record of a thread changes in what no queue and no CPU looks at. *)
LEMMA CalmTd ==
  ASSUME NEW s, NEW p, Sound(s, p), NEW t \in Thread, NEW r \in ThreadType,
         r.state = s.td[t].state, r.cpu = s.td[t].cpu, r.pri = s.td[t].pri,
         \/ s.td[t].state # "runq"
         \/ /\ r.runq = s.td[t].runq /\ r.rqindex = s.td[t].rqindex
            /\ r.xferable = s.td[t].xferable /\ r.pinned = s.td[t].pinned
  PROVE  /\ Sound(SetTd(s, t, r), p)
         /\ SetTd(s, t, r).td[t] = r /\ SetTd(s, t, r).cur = s.cur
<1>1. Kept(s) /\ s \in SysType
  BY DEF Sound, Kept
<1>2. s.td[t].pri >= s.td[t].pri
  BY <1>1, SysParts, ThreadParts DEF Pri
<1>3. Alike(s.td[t], r)
  BY <1>2 DEF Alike
<1>4. Places(s, SetTd(s, t, r), t, s.td[t].state, s.td[t].cpu)
  BY <1>1, <1>3, SetTdPlaces
<1>5. SetTd(s, t, r).td[t] = r /\ SetTd(s, t, r).cur = s.cur
  BY <1>1 DEF SetTd, SysType
<1> QED
  BY <1>4, <1>5, CalmPlaces

(* The record of a thread that no CPU runs changes. *)
LEMMA LooseTd ==
  ASSUME NEW s, NEW p, Sound(s, p), NEW t \in Thread, Loose(s, p, t),
         NEW r \in ThreadType, Alike(s.td[t], r), r.state # "running"
  PROVE  /\ Sound(SetTd(s, t, r), p) /\ Loose(SetTd(s, t, r), p, t)
         /\ SetTd(s, t, r).td[t] = r
<1> DEFINE n == SetTd(s, t, r)
<1>1. Kept(s) /\ s \in SysType
  BY DEF Sound, Kept
<1>2. /\ Kept(n) /\ n.cur = s.cur /\ n.tdq = s.tdq
      /\ \A u \in Thread : n.td[u] = IF u = t THEN r ELSE s.td[u]
      /\ \A d \in CPU : Extra(n, d) = Extra(s, d)
  BY <1>1, SetTdKept
<1> HIDE DEF n
<1>3. \A d \in CPU : LowAt(s, d) => LowAt(n, d)
  <2> TAKE d \in CPU
  <2>1. s.cur[d] # t /\ s.cur[d] \in Thread \cup {NoThread}
    BY <1>1, SysParts DEF Loose
  <2>2. CurPri(n, d) = CurPri(s, d)
    BY <1>2, <2>1 DEF CurPri
  <2> QED
    BY <1>2, <2>2 DEF LowAt
<1>4. Shift(s, n, t)
  BY <1>2, <1>3 DEF Shift
<1>5. n.td[t] = r
  BY <1>2
<1> QED
  BY <1>4, <1>5, LooseSound DEF n

(* Nobody runs t, or its own CPU does. *)
Held(s, p, t) ==
  Loose(s, p, t) \/ (s.td[t].state = "running" /\ s.cur[s.td[t].cpu] = t)

(* thread_lock(t) succeeds only for such a thread. *)
LEMMA LockedHeld ==
  ASSUME NEW s, NEW p, Sound(s, p), NEW t \in Thread, \A c \in CPU : p[c].thread # t
  PROVE  Held(s, p, t)
<1>1. CASE s.td[t].state # "running"
  BY <1>1, UnlockedLoose DEF Held
<1>2. CASE s.td[t].state = "running"
  <2>1. PICK c \in CPU : s.cur[c] = t
    BY <1>2 DEF Sound, Known
  <2>2. Stands(s, p, c) /\ p \in [CPU -> PendType] /\ t # NoThread
    BY RunqAssumption DEF Sound, Settled
  <2>3. s.td[t].cpu = c
    BY <2>1, <2>2, PendSteps DEF Stands
  <2> QED
    BY <1>2, <2>1, <2>3 DEF Held
<1> QED
  BY <1>1, <1>2

(* The current thread of a CPU that runs. *)
LEMMA RunsHeld ==
  ASSUME NEW s, NEW p, Sound(s, p), NEW c \in CPU, p[c].step = "run",
         s.cur[c] # NoThread
  PROVE  /\ s.cur[c] \in Thread /\ s.td[s.cur[c]] \in ThreadType
         /\ s.td[s.cur[c]].state = "running" /\ s.td[s.cur[c]].cpu = c
         /\ Held(s, p, s.cur[c])
         /\ \A d \in CPU \ {c} : s.cur[d] # s.cur[c]
<1>1. s \in SysType /\ Stands(s, p, c)
  BY DEF Sound, Kept, Settled
<1>2. s.cur[c] \in Thread
  BY <1>1, SysParts
<1>3. s.td[s.cur[c]].state = "running" /\ s.td[s.cur[c]].cpu = c
  BY <1>1 DEF Stands
<1>4. \A d \in CPU \ {c} : s.cur[d] # s.cur[c]
  BY DEF Sound, Apart
<1>5. s.td[s.cur[c]] \in ThreadType
  BY <1>1, <1>2, SysParts
<1> QED
  BY <1>2, <1>3, <1>4, <1>5 DEF Held

(***************************************************************************)
(* sched_switch                                                            *)
(***************************************************************************)
(* The current thread of c leaves the CPU, and its load with it. *)
LEMMA LeaveLoad ==
  ASSUME NEW s, NEW p, NEW c \in CPU, Nearly(s, p, c), p[c].step = "run",
         NEW r \in ThreadType, r.state # "runq"
  PROVE  LET n == LoadAdd(SetTd(s, s.cur[c], r), c, -1) IN
         /\ Kept(n) /\ n.cur = s.cur /\ n.td[s.cur[c]] = r
         /\ \A u \in Thread \ {s.cur[c]} :
              n.td[u].state = s.td[u].state /\ n.td[u].cpu = s.td[u].cpu
         /\ \A d \in CPU \ {c} : (LowAt(s, d) => LowAt(n, d)) /\ Extra(n, d) = Extra(s, d)
         /\ r.pri = s.td[s.cur[c]].pri => LowAt(n, c)
         /\ Extra(n, c) = 0
<1> DEFINE t == s.cur[c]
           m == SetTd(s, t, r)
           n == LoadAdd(m, c, -1)
<1>1. /\ Kept(s) /\ s \in SysType /\ t \in Thread /\ s.td[t].state = "running"
      /\ LowAt(s, c) /\ t # NoThread
      /\ \A d \in CPU \ {c} : s.cur[d] # t
  BY NearlyApart, SysParts DEF Nearly, Kept
<1>2. Extra(s, c) = 1
  BY DEF Nearly, Counts
<1>3. t = s.cur[c]
  OBVIOUS
<1> HIDE DEF t
<1>4. Alike(s.td[t], r)
  BY <1>1 DEF Alike
<1>5. /\ Kept(m) /\ m.cur = s.cur /\ m.tdq = s.tdq
      /\ \A u \in Thread : m.td[u] = IF u = t THEN r ELSE s.td[u]
      /\ \A d \in CPU : Extra(m, d) = Extra(s, d)
  BY <1>1, <1>4, SetTdKept
<1> HIDE DEF m
<1>6. /\ Kept(n) /\ n.cur = m.cur /\ n.td = m.td
      /\ \A d \in CPU : /\ n.tdq[d].lowpri = m.tdq[d].lowpri
                        /\ Extra(n, d) = Extra(m, d) + IF d = c THEN -1 ELSE 0
  BY <1>5, LoadAddKept
<1> HIDE DEF n
<1>7. \A d \in CPU : /\ s.tdq[d].load \in Int /\ Cardinality(On(s, d)) \in Nat
                     /\ s.cur[d] \in Thread \cup {NoThread}
  BY <1>1, SysParts, CountersGood, QueuedFinite
<1>8. \A d \in CPU : Extra(s, d) \in Int
  BY <1>7 DEF Extra
<1>9. ASSUME NEW d \in CPU \ {c}
      PROVE  (LowAt(s, d) => LowAt(n, d)) /\ Extra(n, d) = Extra(s, d)
  <2>1. CurPri(n, d) = CurPri(s, d)
    BY <1>1, <1>5, <1>6, <1>7 DEF CurPri
  <2>2. n.tdq[d].lowpri = s.tdq[d].lowpri
    BY <1>5, <1>6
  <2> QED
    BY <1>5, <1>6, <1>8, <2>1, <2>2 DEF LowAt
<1>10. r.pri = s.td[t].pri => LowAt(n, c)
  <2>1. n.tdq[c].lowpri = s.tdq[c].lowpri
    BY <1>5, <1>6
  <2>2. r.pri = s.td[t].pri => CurPri(n, c) = CurPri(s, c)
    BY <1>1, <1>3, <1>5, <1>6 DEF CurPri
  <2> QED
    BY <1>1, <2>1, <2>2 DEF LowAt
<1>11. Extra(n, c) = 0
  BY <1>2, <1>5, <1>6
<1> QED
  BY <1>1, <1>3, <1>5, <1>6, <1>9, <1>10, <1>11 DEF n, m

(* The current thread of c stays, and keeps running at its priority. *)
LEMMA NearlyTd ==
  ASSUME NEW s, NEW p, NEW c \in CPU, Nearly(s, p, c),
         NEW r \in ThreadType, r.state = "running", r.pri = s.td[s.cur[c]].pri
  PROVE  LET n == SetTd(s, s.cur[c], r) IN
         /\ Nearly(n, p, c) /\ n.cur = s.cur /\ n.td[s.cur[c]] = r
<1> DEFINE t == s.cur[c]
           n == SetTd(s, t, r)
<1>1. /\ Kept(s) /\ s \in SysType /\ t \in Thread /\ s.td[t].state = "running"
      /\ t # NoThread
  BY SysParts DEF Nearly, Kept
<1>2. t = s.cur[c]
  OBVIOUS
<1> HIDE DEF t
<1>3. Alike(s.td[t], r)
  BY <1>1 DEF Alike
<1>4. /\ Kept(n) /\ n.cur = s.cur /\ n.tdq = s.tdq
      /\ \A u \in Thread : n.td[u] = IF u = t THEN r ELSE s.td[u]
      /\ \A d \in CPU : Extra(n, d) = Extra(s, d)
  BY <1>1, <1>3, SetTdKept
<1> HIDE DEF n
<1>5. \A u \in Thread : n.td[u].pri = s.td[u].pri
  BY <1>2, <1>4
<1>6. \A d \in CPU : LowAt(s, d) => LowAt(n, d)
  <2>1. \A d \in CPU : CurPri(n, d) = CurPri(s, d)
    BY <1>1, <1>4, <1>5, CurPriSame
  <2> QED
    BY <1>4, <2>1 DEF LowAt
<1>7. \A d \in CPU \ {c} : Settled(n, p, d)
  <2> TAKE d \in CPU \ {c}
  <2>1. n.cur = s.cur /\ (LowAt(s, d) => LowAt(n, d)) /\ Extra(n, d) = Extra(s, d)
    BY <1>4, <1>6
  <2>2. \A u \in Thread \ {s.cur[c]} :
          n.td[u].state = s.td[u].state /\ n.td[u].cpu = s.td[u].cpu
    BY <1>2, <1>4
  <2> QED
    BY <2>1, <2>2, OthersSettled
<1>8. LowAt(n, c) /\ Extra(n, c) = Counts(n, p, c)
  <2>1. Extra(s, c) = Counts(s, p, c) /\ LowAt(s, c)
    BY DEF Nearly
  <2> QED
    BY <1>4, <1>6, <2>1 DEF Counts
<1>9. Apart(n, p, CPU)
  BY <1>4 DEF Nearly, Apart
<1>10. Known(n, CPU)
  <2> SUFFICES ASSUME NEW u \in Thread, n.td[u].state = "running"
               PROVE  \E d \in CPU : n.cur[d] = u
    BY DEF Known
  <2>1. CASE u = t
    BY <1>2, <1>4, <2>1
  <2>2. CASE u # t
    BY <1>4, <2>2 DEF Nearly, Known
  <2> QED
    BY <2>1, <2>2
<1>11. n.cur[c] # NoThread /\ n.td[n.cur[c]].state = "running"
  BY <1>1, <1>2, <1>4
<1>12. n.td[t] = r
  BY <1>1, <1>4
<1> QED
  BY <1>2, <1>4, <1>7, <1>8, <1>9, <1>10, <1>11, <1>12 DEF Nearly, n

(* The current thread goes back on the queue of its CPU. *)
LEMMA StayVacant ==
  ASSUME NEW s, NEW p, NEW c \in CPU, Nearly(s, p, c), p[c].step = "run",
         s.td[s.cur[c]].cpu = c, NEW flags
  PROVE  Vacant(RunqAdd(s, c, s.cur[c], flags), p, c)
<1> DEFINE t == s.cur[c]
           n == RunqAdd(s, c, t, flags)
<1>1. /\ Kept(s) /\ s \in SysType /\ t \in Thread /\ s.td[t].state = "running"
      /\ s.td[t].cpu = c
  BY SysParts DEF Nearly, Kept
<1>2. t = s.cur[c]
  OBVIOUS
<1>3. Extra(s, c) = 1
  BY DEF Nearly, Counts
<1> HIDE DEF t
<1>4. /\ Kept(n) /\ n.cur = s.cur
      /\ \A u \in Thread : n.td[u].pri = s.td[u].pri
      /\ \A u \in Thread \ {t} : n.td[u] = s.td[u]
      /\ n.td[t].state = "runq"
      /\ \A d \in CPU : /\ n.tdq[d].lowpri = s.tdq[d].lowpri
                        /\ Extra(n, d) = Extra(s, d) - IF d = c THEN 1 ELSE 0
  BY <1>1, RunqAddKept
<1> HIDE DEF n
<1>5. \A d \in CPU : CurPri(n, d) = CurPri(s, d)
  BY <1>1, <1>4, CurPriSame
<1>6. \A d \in CPU : s.tdq[d].load \in Int /\ Cardinality(On(s, d)) \in Nat
  BY <1>1, SysParts, CountersGood, QueuedFinite
<1>7. \A d \in CPU : Extra(s, d) \in Int
  BY <1>6 DEF Extra
<1>8. \A d \in CPU \ {c} : (LowAt(s, d) => LowAt(n, d)) /\ Extra(n, d) = Extra(s, d)
  BY <1>4, <1>5, <1>7 DEF LowAt
<1>9. Extra(n, c) = 0
  BY <1>3, <1>4
<1>10. /\ n.td[s.cur[c]].state # "running"
       /\ \A u \in Thread \ {s.cur[c]} :
            n.td[u].state = s.td[u].state /\ n.td[u].cpu = s.td[u].cpu
  BY <1>2, <1>4
<1>11. Vacant(n, p, c)
  BY <1>4, <1>8, <1>9, <1>10, LeaveVacant
<1> QED
  BY <1>2, <1>11 DEF n

(* What sched_switch leaves of the record of the thread that gives way. *)
LEMMA UnflagParts ==
  ASSUME NEW r \in ThreadType
  PROVE  /\ Unflag(r) \in ThreadType
         /\ Unflag(r).state = r.state /\ Unflag(r).cpu = r.cpu /\ Unflag(r).pri = r.pri
         /\ Unflag(r).pinned = r.pinned
BY DEF Unflag, ThreadType

(* c chooses a thread and goes on. *)
LEMMA ChooseSafe ==
  ASSUME NEW s, NEW c \in CPU, Vacant(s, pend, c), pend[c].step = "run",
         Settle(Choose(s, c))
  PROVE  Safe'
<1>1. pend \in [CPU -> PendType]
  BY DEF Vacant
<1>2. Sound(Choose(s, c), pend)
  BY <1>1, ChooseSound, RunSame
<1> QED
  BY <1>2, SettleSafe

(* c lets go of its queue with something left to do. *)
LEMMA LeftSafe ==
  ASSUME NEW n, NEW c \in CPU, NEW e, Sound(n, [pend EXCEPT ![c] = e]), Becomes(n),
         pend' = [pend EXCEPT ![c] = e]
  PROVE  Safe'
BY BecomesSafe

(* sched_switch of a thread that is still running; its CPU may already be *)
(* the one it binds itself to.                                            *)
LEMMA SwitchRunningSafe ==
  ASSUME NEW s, NEW c \in CPU, Nearly(s, pend, c), pend[c].step = "run",
         s.td[s.cur[c]].cpu = c \/ s.td[s.cur[c]].pinned,
         NEW preempt, SwitchRunning(s, c, preempt)
  PROVE  Safe'
<1> DEFINE t     == s.cur[c]
           r     == s.td[t]
           flags == IF preempt /\ ~ r.sliceend THEN {"PREEMPTED"} ELSE {}
           out   == SetTd(s, t, Unflag(r))
           x(d)  == [out.td[t] EXCEPT !.cpu = d]
           gone(d) == LoadAdd(SetTd(out, t, x(d)), c, -1)
           e     == [step |-> "migrate", thread |-> t, flags |-> flags]
<1>1. /\ t \in Thread /\ r \in ThreadType /\ r.state = "running"
      /\ r.cpu = c \/ r.pinned
  BY SysParts DEF Nearly, Kept
<1>2. flags \in SUBSET Flag
  BY DEF Flag
<1>3. PICK d \in IF r.pinned \/ r.cpu \in r.mask THEN {r.cpu} ELSE r.mask :
        IF d = c THEN \E n \in {RunqAdd(out, c, t, flags)} : Settle(Choose(n, c))
        ELSE Becomes(gone(d)) /\ pend' = [pend EXCEPT ![c] = e]
  BY DEF SwitchRunning
<1>4. d \in CPU
  BY <1>1, <1>3, ThreadParts
<1>5. d = c => r.cpu = c
  BY <1>1, <1>3
<1>6. t = s.cur[c] /\ r = s.td[t]
  OBVIOUS
<1>7. /\ Unflag(r) \in ThreadType /\ Unflag(r).state = "running"
      /\ Unflag(r).pri = r.pri /\ Unflag(r).cpu = r.cpu
  BY <1>1, UnflagParts
<1> HIDE DEF flags, t, r
<1>8. /\ Nearly(out, pend, c) /\ out.cur = s.cur /\ out.td[t] = Unflag(r)
  BY <1>6, <1>7, NearlyTd
<1> HIDE DEF out
<1>9. CASE d = c
  <2>1. Settle(Choose(RunqAdd(out, c, t, flags), c))
    BY <1>3, <1>9
  <2>2. out.td[out.cur[c]].cpu = c /\ out.cur[c] = t
    BY <1>5, <1>6, <1>7, <1>8, <1>9
  <2>3. Vacant(RunqAdd(out, c, t, flags), pend, c)
    BY <1>8, <2>2, StayVacant
  <2> QED
    BY <2>1, <2>3, ChooseSafe
<1>10. CASE d # c
  <2>1. Becomes(gone(d)) /\ pend' = [pend EXCEPT ![c] = e]
    BY <1>3, <1>10
  <2>2. /\ x(d) \in ThreadType /\ x(d).state = "running" /\ x(d).pri = out.td[t].pri
    BY <1>4, <1>7, <1>8 DEF ThreadType
  <2>3. out.cur[c] = t
    BY <1>6, <1>8
  <2> HIDE DEF x
  <2>4. /\ Kept(gone(d)) /\ gone(d).cur = out.cur /\ gone(d).td[t] = x(d)
        /\ \A u \in Thread \ {t} :
             gone(d).td[u].state = out.td[u].state /\ gone(d).td[u].cpu = out.td[u].cpu
        /\ \A y \in CPU \ {c} : /\ LowAt(out, y) => LowAt(gone(d), y)
                                /\ Extra(gone(d), y) = Extra(out, y)
        /\ LowAt(gone(d), c)
        /\ Extra(gone(d), c) = 0
    <3>1. x(d).state # "runq"
      BY <2>2
    <3> QED
      BY <1>8, <2>2, <2>3, <3>1, LeaveLoad
  <2> HIDE DEF gone
  <2>5. \A y \in CPU : LowAt(out, y) => LowAt(gone(d), y)
    BY <2>4
  <2>6. \A y \in CPU \ {c} : Extra(gone(d), y) = Extra(out, y)
    BY <2>4
  <2>7. gone(d).td[out.cur[c]].state = "running"
    BY <2>2, <2>3, <2>4
  <2>8. Sound(gone(d), [pend EXCEPT ![c] = e])
    <3>1. /\ Kept(gone(d)) /\ gone(d).cur = out.cur /\ Extra(gone(d), c) = 0
          /\ \A u \in Thread \ {out.cur[c]} :
               gone(d).td[u].state = out.td[u].state /\ gone(d).td[u].cpu = out.td[u].cpu
      BY <2>3, <2>4
    <3>2. gone(d).td[out.cur[c]].state = IF "migrate" = "migrate" THEN "running" ELSE "sleeping"
      BY <2>7
    <3>3. "migrate" \in {"migrate", "trysteal"}
      OBVIOUS
    <3>4. Sound(gone(d), [pend EXCEPT ![c] =
                           [step |-> "migrate", thread |-> out.cur[c], flags |-> flags]])
      BY <1>2, <1>8, <2>5, <2>6, <3>1, <3>2, <3>3, LeavePend
    <3> QED
      BY <2>3, <3>4
  <2> QED
    BY <2>1, <2>8, LeftSafe
<1> QED
  BY <1>9, <1>10

(* sched_switch, also from the idle thread. *)
LEMMA SwitchOutSafe ==
  ASSUME NEW s, Sound(s, pend), NEW c \in CPU, pend[c].step = "run",
         NEW preempt, SwitchOut(s, c, preempt)
  PROVE  Safe'
<1>1. CASE s.cur[c] = NoThread
  <2>1. Vacant(s, pend, c)
    BY <1>1, IdleVacant
  <2> QED
    BY <1>1, <2>1, ChooseSafe DEF SwitchOut
<1>2. CASE s.cur[c] # NoThread
  <2>1. Nearly(s, pend, c)
    BY <1>2, SoundNearly
  <2>2. s.td[s.cur[c]].cpu = c
    BY <1>2, RunsHeld
  <2> QED
    BY <1>2, <2>1, <2>2, SwitchRunningSafe DEF SwitchOut
<1> QED
  BY <1>1, <1>2

(* The state between two critical sections, as the lemmas take it. *)
LEMMA SafeSys ==
  ASSUME Safe
  PROVE  /\ Sound(Sys, pend) /\ Kept(Sys)
         /\ Sys.tdq = tdq /\ Sys.td = td /\ Sys.cur = cur /\ Sys.ipi = ipi
         /\ \A c \in CPU : tdq[c] \in GoodTdq /\ cur[c] \in Thread \cup {NoThread}
         /\ \A t \in Thread : td[t] \in ThreadType
<1>1. Inv
  BY SafeInv
<1>2. Sys.ipi = ipi
  BY DEF Sys
<1> QED
  BY <1>1, <1>2, SysIsSys DEF Safe, Sound

(* A busy CPU runs its current thread. *)
LEMMA BusySafe ==
  ASSUME Safe, NEW c \in CPU, Busy(c)
  PROVE  /\ pend[c].step = "run" /\ cur[c] # NoThread
         /\ cur[c] \in Thread /\ td[cur[c]] \in ThreadType
         /\ td[cur[c]].state = "running" /\ td[cur[c]].cpu = c
         /\ Held(Sys, pend, cur[c])
         /\ \A d \in CPU \ {c} : cur[d] # cur[c]
         /\ Nearly(Sys, pend, c)
<1>1. pend[c].step = "run" /\ cur[c] # NoThread
  BY DEF Busy, OnCpu
<1>2. Sound(Sys, pend) /\ Sys.td = td /\ Sys.cur = cur
  BY SafeSys
<1>3. /\ Sys.cur[c] \in Thread /\ Sys.td[Sys.cur[c]] \in ThreadType
      /\ Sys.td[Sys.cur[c]].state = "running" /\ Sys.td[Sys.cur[c]].cpu = c
      /\ Held(Sys, pend, Sys.cur[c])
      /\ \A d \in CPU \ {c} : Sys.cur[d] # Sys.cur[c]
  BY <1>1, <1>2, RunsHeld
<1>4. Nearly(Sys, pend, c)
  BY <1>1, <1>2, SoundNearly
<1> QED
  BY <1>1, <1>2, <1>3, <1>4

(* sched_relinquish, critical_exit_preempt and the switch in sched_idletd *)
LEMMA YieldSafe ==
  ASSUME Safe, NEW c \in CPU, Relinquish(c) \/ CriticalExit(c) \/ IdleSwitch(c)
  PROVE  Safe'
<1>1. pend[c].step = "run" /\ \E preempt \in BOOLEAN : SwitchOut(Sys, c, preempt)
  BY DEF Relinquish, CriticalExit, IdleSwitch, Busy, OnCpu
<1> QED
  BY <1>1, SafeSys, SwitchOutSafe

(***************************************************************************)
(* Priorities                                                              *)
(***************************************************************************)
(* The current thread of c takes a new priority, and c a mark no worse. *)
LEMMA NewPriSound ==
  ASSUME NEW s, NEW p, Sound(s, p), NEW c \in CPU, NEW t \in Thread, s.cur[c] = t,
         s.td[t].state = "running", s.td[t].cpu = c,
         NEW r \in ThreadType, r.state = "running", r.cpu = c,
         NEW q, q.rq = s.tdq[c].rq, q.transferable = s.tdq[c].transferable,
         q.ipipending = s.tdq[c].ipipending, q.load = s.tdq[c].load,
         q.lowpri <= r.pri,
         NEW n \in SysType, n.cur = s.cur, n.ipi = s.ipi,
         \A u \in Thread : n.td[u] = IF u = t THEN r ELSE s.td[u],
         \A d \in CPU : n.tdq[d] = IF d = c THEN q ELSE s.tdq[d]
  PROVE  Sound(n, p)
<1>1. Kept(s) /\ s \in SysType /\ Backed(s)
  BY DEF Sound, Kept
<1>2. \A d \in CPU \ {c} : s.cur[d] # t
  <2>1. t # NoThread
    BY RunqAssumption
  <2> QED
    BY <2>1 DEF Sound, Apart
<1>3. Kept(n) /\ \A d \in CPU : On(n, d) = On(s, d)
  <2>1. \A d \in CPU : /\ n.tdq[d].rq = s.tdq[d].rq
                       /\ n.tdq[d].transferable = s.tdq[d].transferable
                       /\ n.tdq[d].ipipending => n.ipi[d]
    BY <1>1 DEF Backed
  <2>2. \A u \in Thread : s.td[u].pri >= s.td[u].pri
    BY <1>1, SysParts, ThreadParts DEF Pri
  <2>3. \A u \in Thread : Alike(s.td[u], n.td[u])
    BY <2>2 DEF Alike
  <2> QED
    BY <1>1, <2>1, <2>3, KeptFrame
<1>4. \A d \in CPU : Extra(n, d) = Extra(s, d)
  BY <1>3 DEF Extra
<1>5. \A d \in CPU : LowAt(s, d) => LowAt(n, d)
  <2> TAKE d \in CPU
  <2>1. CASE d = c
    <3>1. CurPri(n, c) = r.pri
      <4>1. t # NoThread
        BY RunqAssumption
      <4> QED
        BY <4>1 DEF CurPri
    <3> QED
      BY <2>1, <3>1 DEF LowAt
  <2>2. CASE d # c
    <3>1. s.cur[d] # t /\ s.cur[d] \in Thread \cup {NoThread}
      BY <1>1, <1>2, <2>2, SysParts
    <3>2. CurPri(n, d) = CurPri(s, d)
      BY <3>1 DEF CurPri
    <3> QED
      BY <2>2, <3>2 DEF LowAt
  <2> QED
    BY <2>1, <2>2
<1>6. Shift(s, n, t)
  BY <1>3, <1>4, <1>5 DEF Shift
<1>7. n.td[t].state = s.td[t].state /\ n.td[t].cpu = s.td[t].cpu
  OBVIOUS
<1> QED
  BY <1>6, <1>7, CalmSound

(* sched_thread_priority of a thread that runs. *)
LEMMA RunningPrioritySound ==
  ASSUME NEW s, NEW p, Sound(s, p), NEW t \in Thread, s.td[t].state = "running",
         s.cur[s.td[t].cpu] = t, NEW k \in Pri
  PROVE  LET n == RunningPriority(s, t, k) IN
         /\ Sound(n, p) /\ n.cur = s.cur
         /\ n.td[t].state = "running" /\ n.td[t].cpu = s.td[t].cpu
<1> DEFINE c   == s.td[t].cpu
           q   == s.tdq[c]
           r   == [s.td[t] EXCEPT !.pri = k]
           out == SetTd(s, t, r)
           low == [q EXCEPT !.lowpri = k]
           set == SetLowpri(q, k, Prio(out))
           n   == RunningPriority(s, t, k)
<1>1. /\ s \in SysType /\ s.td[t] \in ThreadType /\ c \in CPU
      /\ q \in GoodTdq /\ q \in TdqType /\ q.lowpri \in Pri
  BY SysParts, ThreadParts, CountersGood DEF Sound, Kept, GoodTdq
<1>2. /\ r \in ThreadType /\ r.state = "running" /\ r.cpu = c /\ r.pri = k
  BY <1>1 DEF ThreadType
<1>3. /\ out \in SysType /\ out.cur = s.cur /\ out.tdq = s.tdq /\ out.ipi = s.ipi
      /\ \A u \in Thread : out.td[u] = IF u = t THEN r ELSE s.td[u]
  <2>1. out \in SysType
    BY <1>1, <1>2, SetTdType
  <2> QED
    BY <1>1, <2>1 DEF SetTd, SysType
<1>4. \/ k < q.lowpri /\ n = SetTdq(out, c, low)
      \/ n = SetTdq(out, c, set)
      \/ ~ (k < q.lowpri) /\ n = out
  BY DEF RunningPriority
<1>5. c = s.td[t].cpu /\ q = s.tdq[c]
  OBVIOUS
<1> HIDE DEF c, q, r, out, n
<1>6. ASSUME NEW x \in GoodTdq, x.rq = q.rq, x.transferable = q.transferable,
             x.ipipending = q.ipipending, x.load = q.load, x.lowpri <= k,
             NEW m, m = SetTdq(out, c, x) \/ (m = out /\ x = q)
      PROVE  /\ Sound(m, p) /\ m.cur = s.cur
             /\ m.td[t].state = "running" /\ m.td[t].cpu = c
  <2>1. /\ m \in SysType /\ m.cur = s.cur /\ m.ipi = s.ipi /\ m.td = out.td
        /\ \A d \in CPU : m.tdq[d] = IF d = c THEN x ELSE s.tdq[d]
    <3>1. CASE m = SetTdq(out, c, x)
      <4>1. m \in SysType
        BY <1>1, <1>3, <3>1, SetTdqType
      <4> QED
        BY <1>1, <1>3, <3>1, <4>1 DEF SetTdq, SysType
    <3>2. CASE m = out /\ x = q
      BY <1>3, <1>5, <3>2
    <3> QED
      BY <1>6, <3>1, <3>2
  <2>2. \A u \in Thread : m.td[u] = IF u = t THEN r ELSE s.td[u]
    BY <1>3, <2>1
  <2>3. Sound(m, p)
    BY <1>1, <1>2, <1>5, <1>6, <2>1, <2>2, NewPriSound
  <2> QED
    BY <1>2, <2>1, <2>2, <2>3
<1>7. CASE n = SetTdq(out, c, low)
  <2>1. /\ low \in GoodTdq /\ low.rq = q.rq /\ low.transferable = q.transferable
        /\ low.ipipending = q.ipipending /\ low.load = q.load /\ low.lowpri <= k
    BY <1>1, CountersGood DEF TdqType, Pri
  <2> HIDE DEF low
  <2> QED
    BY <1>5, <1>6, <1>7, <2>1 DEF n
<1>8. CASE n = SetTdq(out, c, set)
  <2>1. Prio(out) \in [Thread -> Pri]
    BY <1>3, SysParts
  <2>2. /\ set \in GoodTdq /\ set.rq = q.rq /\ set.transferable = q.transferable
        /\ set.ipipending = q.ipipending /\ set.load = q.load /\ set.lowpri <= k
    BY <1>1, <2>1, SetLowpriBound, SetLowpriGood
  <2> HIDE DEF set
  <2> QED
    BY <1>5, <1>6, <1>8, <2>2 DEF n
<1>9. CASE ~ (k < q.lowpri) /\ n = out
  <2>1. q.lowpri <= k
    BY <1>1, <1>9 DEF Pri
  <2> QED
    BY <1>1, <1>5, <1>6, <1>9, <2>1 DEF n
<1> QED
  BY <1>4, <1>7, <1>8, <1>9

(* sched_rem and sched_add of a queued thread. *)
LEMMA ReaddSafe ==
  ASSUME NEW s, Sound(s, pend), NEW c \in CPU, pend[c].step = "run",
         NEW t \in Thread, s.td[t].state = "runq", NEW p \in Pri,
         NEW flags \in SUBSET Flag, Readd(s, c, t, p, flags)
  PROVE  Safe'
<1> DEFINE out     == SchedRem(s, t)
           r(d, u) == [Rescored(out.td[t], u) EXCEPT !.pri = p, !.cpu = d]
           m(d, u) == SetTd(out, t, r(d, u))
<1>1. PICK d \in PickCpu(s.td[t]), u \in UserPris[t] :
        IF d = s.td[t].cpu
        THEN \E wired \in IdleIpi : Settle(AddTo(m(d, u), c, d, t, flags, wired))
        ELSE /\ Becomes(m(d, u))
             /\ pend' = [pend EXCEPT ![c] =
                          [step |-> "setcpu", thread |-> t, flags |-> flags]]
  BY DEF Readd
<1>2. Kept(s) /\ s \in SysType
  BY DEF Sound, Kept
<1>3. d \in CPU /\ u \in Pri
  BY <1>1, <1>2, SysParts, ThreadParts, UserPrisPri DEF PickCpu
<1>4. Places(s, out, t, "canrun", s.td[t].cpu)
  BY <1>2, SchedRemPlaces
<1> HIDE DEF out
<1>5. Sound(out, pend) /\ Loose(out, pend, t)
  BY <1>4, QueuedLoose, LoosePlaces
<1>6. out \in SysType /\ out.td[t] \in ThreadType /\ out.td[t].state = "canrun"
  BY <1>4, <1>5, SysParts DEF Sound, Kept, Places
<1>7. /\ r(d, u) \in ThreadType /\ r(d, u).state = "canrun" /\ r(d, u).cpu = d
  <2>1. Rescored(out.td[t], u) \in ThreadType /\ Rescored(out.td[t], u).state = "canrun"
    BY <1>3, <1>6, RescoredType DEF Rescored, ThreadType
  <2> QED
    BY <1>3, <2>1 DEF ThreadType
<1> HIDE DEF r
<1>8. /\ Sound(m(d, u), pend) /\ Loose(m(d, u), pend, t) /\ m(d, u).td[t] = r(d, u)
  <2>1. Alike(out.td[t], r(d, u)) /\ r(d, u).state # "running"
    BY <1>6, <1>7 DEF Alike
  <2> QED
    BY <1>5, <1>7, <2>1, LooseTd
<1> HIDE DEF m
<1>9. CASE d = s.td[t].cpu
  <2>1. PICK wired \in IdleIpi : Settle(AddTo(m(d, u), c, d, t, flags, wired))
    BY <1>1, <1>9
  <2>2. Places(m(d, u), AddTo(m(d, u), c, d, t, flags, wired), t, "runq", d)
    BY <1>3, <1>7, <1>8, AddToPlaces DEF Sound
  <2>3. Sound(AddTo(m(d, u), c, d, t, flags, wired), pend)
    BY <1>8, <2>2, LoosePlaces
  <2> QED
    BY <2>1, <2>3, SettleSafe
<1>10. CASE d # s.td[t].cpu
  <2>1. /\ Becomes(m(d, u))
        /\ pend' = [pend EXCEPT ![c] =
                     [step |-> "setcpu", thread |-> t, flags |-> flags]]
    BY <1>1, <1>10
  <2>2. Sound(m(d, u), [pend EXCEPT ![c] =
                         [step |-> "setcpu", thread |-> t, flags |-> flags]])
    BY <1>7, <1>8, HandOver
  <2> QED
    BY <2>1, <2>2, LeftSafe
<1> QED
  BY <1>9, <1>10

\* Only the priority of a thread that may be niced gets worse in a queue.
Licensed(s, t, p) == s.td[t].state = "runq" /\ s.td[t].pri < p => Niced # {}

(* sched_thread_priority of a thread whose lock c holds. *)
LEMMA ThreadPrioritySafe ==
  ASSUME NEW s, Sound(s, pend), NEW c \in CPU, pend[c].step = "run",
         NEW t \in Thread, Held(s, pend, t), NEW p \in Pri, Licensed(s, t, p),
         ThreadPriority(s, c, t, p)
  PROVE  Safe'
<1> DEFINE r == [s.td[t] EXCEPT !.pri = p]
<1>1. s \in SysType /\ s.td[t] \in ThreadType
  BY SysParts DEF Sound, Kept
<1>2. /\ r \in ThreadType /\ r.state = s.td[t].state /\ r.cpu = s.td[t].cpu /\ r.pri = p
      /\ r.runq = s.td[t].runq /\ r.rqindex = s.td[t].rqindex
      /\ r.xferable = s.td[t].xferable /\ r.pinned = s.td[t].pinned
  BY <1>1 DEF ThreadType
<1>3. \/ Settle(s)
      \/ s.td[t].state = "runq" /\ Readd(s, c, t, p, {"BORROWING"})
      \/ s.td[t].state = "running" /\ Settle(RunningPriority(s, t, p))
      \/ /\ s.td[t].state # "running" /\ s.td[t].pri # p
         /\ ~ (s.td[t].state = "runq" /\ p < s.td[t].pri)
         /\ Settle(SetTd(s, t, r))
  BY DEF ThreadPriority
<1> HIDE DEF r
<1>4. CASE Settle(s)
  BY <1>4, SettleSafe
<1>5. CASE s.td[t].state = "runq" /\ Readd(s, c, t, p, {"BORROWING"})
  <2>1. {"BORROWING"} \in SUBSET Flag
    BY DEF Flag
  <2> QED
    BY <1>5, <2>1, ReaddSafe
<1>6. CASE s.td[t].state = "running" /\ Settle(RunningPriority(s, t, p))
  <2>1. s.cur[s.td[t].cpu] = t
    BY <1>6, LooseNotRunning DEF Held
  <2>2. Sound(RunningPriority(s, t, p), pend)
    BY <1>6, <2>1, RunningPrioritySound
  <2> QED
    BY <1>6, <2>2, SettleSafe
<1>7. CASE /\ s.td[t].state # "running" /\ s.td[t].pri # p
           /\ ~ (s.td[t].state = "runq" /\ p < s.td[t].pri)
           /\ Settle(SetTd(s, t, r))
  <2>1. s.td[t].state = "runq" => r.pri >= s.td[t].pri /\ Niced # {}
    <3>1. s.td[t].pri \in Int /\ p \in Int
      BY <1>1, ThreadParts DEF Pri
    <3>2. s.td[t].state = "runq" => s.td[t].pri < p
      BY <1>7, <3>1
    <3>3. s.td[t].state = "runq" => Niced # {}
      BY <3>2 DEF Licensed
    <3> QED
      BY <1>2, <3>1, <3>2, <3>3
  <2>2. Alike(s.td[t], r)
    BY <1>2, <2>1 DEF Alike
  <2>3. Loose(s, pend, t)
    BY <1>7 DEF Held
  <2>4. Sound(SetTd(s, t, r), pend)
    BY <1>2, <1>7, <2>2, <2>3, LooseTd
  <2> QED
    BY <1>7, <2>4, SettleSafe
<1> QED
  BY <1>3, <1>4, <1>5, <1>6, <1>7

\* The records o and r differ in nothing that a queue or a CPU looks at.
SamePlace(o, r) ==
  /\ r.state = o.state /\ r.cpu = o.cpu /\ r.pri = o.pri
  /\ r.runq = o.runq /\ r.rqindex = o.rqindex /\ r.xferable = o.xferable
  /\ r.pinned = o.pinned

(* A thread whose lock c holds keeps its place. *)
LEMMA HeldTd ==
  ASSUME NEW s, NEW p, Sound(s, p), NEW t \in Thread, NEW r \in ThreadType,
         SamePlace(s.td[t], r)
  PROVE  /\ Sound(SetTd(s, t, r), p) /\ SetTd(s, t, r).cur = s.cur
         /\ SetTd(s, t, r).td[t] = r
         /\ Held(s, p, t) => Held(SetTd(s, t, r), p, t)
         /\ \A k : Licensed(s, t, k) => Licensed(SetTd(s, t, r), t, k)
<1>1. /\ Sound(SetTd(s, t, r), p) /\ SetTd(s, t, r).cur = s.cur
      /\ SetTd(s, t, r).td[t] = r
  BY CalmTd DEF SamePlace
<1>2. r.state = s.td[t].state /\ r.cpu = s.td[t].cpu /\ r.pri = s.td[t].pri
  BY DEF SamePlace
<1>3. Held(s, p, t) => Held(SetTd(s, t, r), p, t)
  BY <1>1, <1>2 DEF Held, Loose
<1> QED
  BY <1>1, <1>2, <1>3 DEF Licensed

(* Fields of a thread that no queue and no CPU looks at. *)
LEMMA FieldsSame ==
  ASSUME NEW r \in ThreadType, NEW u \in Pri, NEW b \in BOOLEAN
  PROVE  /\ [r EXCEPT !.base = u] \in ThreadType
         /\ SamePlace(r, [r EXCEPT !.base = u])
         /\ [r EXCEPT !.borrowing = b] \in ThreadType
         /\ SamePlace(r, [r EXCEPT !.borrowing = b])
         /\ [r EXCEPT !.owepreempt = b] \in ThreadType
         /\ SamePlace(r, [r EXCEPT !.owepreempt = b])
         /\ [r EXCEPT !.needresched = b] \in ThreadType
         /\ SamePlace(r, [r EXCEPT !.needresched = b])
         /\ Rescored(r, u) \in ThreadType
         /\ SamePlace(r, Rescored(r, u))
BY DEF Rescored, ThreadType, SamePlace

(* sched_prio *)
LEMMA SchedPrioSafe ==
  ASSUME NEW s, Sound(s, pend), NEW c \in CPU, pend[c].step = "run",
         NEW t \in Thread, Held(s, pend, t), NEW p \in Pri, Licensed(s, t, p),
         SchedPrio(s, c, t, p)
  PROVE  Safe'
<1> DEFINE r == [s.td[t] EXCEPT !.base = p]
           m == SetTd(s, t, r)
<1>1. s.td[t] \in ThreadType
  BY SysParts DEF Sound, Kept
<1>2. r \in ThreadType /\ SamePlace(s.td[t], r)
  BY <1>1, FieldsSame
<1>3. Settle(m) \/ ThreadPriority(m, c, t, p)
  BY DEF SchedPrio
<1> HIDE DEF r
<1>4. Sound(m, pend) /\ Held(m, pend, t) /\ Licensed(m, t, p)
  BY <1>2, HeldTd
<1> HIDE DEF m
<1> QED
  BY <1>3, <1>4, SettleSafe, ThreadPrioritySafe

(* sched_lend_prio *)
LEMMA LendPrioSafe ==
  ASSUME NEW s, Sound(s, pend), NEW c \in CPU, pend[c].step = "run",
         NEW t \in Thread, Held(s, pend, t), NEW p \in Pri, Licensed(s, t, p),
         LendPrio(s, c, t, p)
  PROVE  Safe'
<1> DEFINE r == [s.td[t] EXCEPT !.borrowing = TRUE]
           m == SetTd(s, t, r)
<1>1. s.td[t] \in ThreadType
  BY SysParts DEF Sound, Kept
<1>2. r \in ThreadType /\ SamePlace(s.td[t], r)
  BY <1>1, FieldsSame
<1>3. ThreadPriority(m, c, t, p)
  BY DEF LendPrio
<1> HIDE DEF r
<1>4. Sound(m, pend) /\ Held(m, pend, t) /\ Licensed(m, t, p)
  BY <1>2, HeldTd
<1> HIDE DEF m
<1> QED
  BY <1>3, <1>4, ThreadPrioritySafe

(* A turnstile lends a priority. *)
LEMMA LendSafe ==
  ASSUME Safe, NEW c \in CPU, NEW t \in Thread, Lend(c, t)
  PROVE  Safe'
<1>1. /\ Busy(c) /\ Lockable(t) /\ LendPrio(Sys, c, t, td[cur[c]].pri)
      /\ td[cur[c]].pri < td[t].pri
  BY DEF Lend
<1>2. td[cur[c]].pri \in Pri /\ pend[c].step = "run"
  BY <1>1, BusySafe, ThreadParts
<1>3. Held(Sys, pend, t)
  BY <1>1, SafeSys, LockedHeld DEF Lockable
<1>4. Licensed(Sys, t, td[cur[c]].pri)
  <2>1. Sys.td[t] = td[t] /\ td[t].pri \in Int /\ td[cur[c]].pri \in Int
    BY <1>2, SafeSys, ThreadParts DEF Pri
  <2> QED
    BY <1>1, <2>1 DEF Licensed
<1> QED
  BY <1>1, <1>2, <1>3, <1>4, SafeSys, LendPrioSafe

(* sched_unlend_prio *)
LEMMA UnlendSafe ==
  ASSUME Safe, NEW c \in CPU, NEW p \in Pri, Unlend(c, p)
  PROVE  Safe'
<1> DEFINE t    == cur[c]
           r    == td[t]
           base == IF r.base >= MinInteract /\ r.base <= MaxBatch THEN r.user ELSE r.base
           n    == [r EXCEPT !.borrowing = FALSE]
           m    == SetTd(Sys, t, n)
<1>1. /\ Busy(c)
      /\ ThreadPriority(m, c, t, base) \/ LendPrio(Sys, c, t, p)
  BY DEF Unlend
<1>2. /\ t \in Thread /\ r \in ThreadType /\ Held(Sys, pend, t) /\ pend[c].step = "run"
      /\ r.state = "running"
  BY <1>1, BusySafe
<1>3. Sound(Sys, pend) /\ Sys.td[t] = r
  BY SafeSys
<1> HIDE DEF t, r
<1>4. base \in Pri
  BY <1>2, ThreadParts
<1>5. n \in ThreadType /\ SamePlace(r, n)
  BY <1>2, <1>4, FieldsSame
<1>6. \A k : Licensed(Sys, t, k)
  BY <1>2, <1>3 DEF Licensed
<1> HIDE DEF base, n
<1>7. Sound(m, pend) /\ Held(m, pend, t) /\ Licensed(m, t, base)
  BY <1>2, <1>3, <1>5, <1>6, HeldTd
<1> HIDE DEF m
<1>8. CASE ThreadPriority(m, c, t, base)
  BY <1>2, <1>4, <1>7, <1>8, ThreadPrioritySafe
<1>9. CASE LendPrio(Sys, c, t, p)
  BY <1>2, <1>3, <1>6, <1>9, LendPrioSafe
<1> QED
  BY <1>1, <1>8, <1>9

(* sched_nice *)
LEMMA NiceSafe ==
  ASSUME Safe, NEW c \in CPU, NEW t \in Thread, Nice(c, t)
  PROVE  Safe'
<1> DEFINE r(u) == Rescored(td[t], u)
           m(u) == SetTd(Sys, t, r(u))
<1>1. PICK u \in UserPris[t] : SchedPrio(m(u), c, t, u)
  BY DEF Nice
<1>2. u \in Pri /\ pend[c].step = "run" /\ Lockable(t) /\ Niced # {}
  BY <1>1, UserPrisPri DEF Nice, Busy, OnCpu
<1>3. Sound(Sys, pend) /\ Sys.td[t] = td[t] /\ td[t] \in ThreadType
  BY SafeSys
<1>4. Held(Sys, pend, t)
  BY <1>2, <1>3, LockedHeld DEF Lockable
<1>5. r(u) \in ThreadType /\ SamePlace(td[t], r(u))
  BY <1>2, <1>3, FieldsSame
<1> HIDE DEF r
<1>6. Sound(m(u), pend) /\ Held(m(u), pend, t) /\ Licensed(m(u), t, u)
  BY <1>2, <1>3, <1>4, <1>5, HeldTd DEF Licensed
<1> HIDE DEF m
<1> QED
  BY <1>1, <1>2, <1>6, SchedPrioSafe

(* sched_userret_slowpath *)
LEMMA UserRetSafe ==
  ASSUME Safe, NEW c \in CPU, UserRet(c)
  PROVE  Safe'
<1> DEFINE t   == cur[c]
           r   == td[t]
           n   == [r EXCEPT !.pri = r.user, !.base = r.user]
           out == SetTd(Sys, t, n)
           low == SetLowpri(tdq[c], r.user, Prio(out))
           m   == SetTdq(out, c, low)
<1>1. Busy(c) /\ Settle(m)
  BY DEF UserRet
<1>2. /\ t \in Thread /\ r \in ThreadType /\ r.user \in Pri
      /\ r.state = "running" /\ r.cpu = c
  BY <1>1, BusySafe, ThreadParts
<1>3. /\ Sound(Sys, pend) /\ Sys \in SysType /\ Sys.cur[c] = t /\ Sys.td[t] = r
      /\ Sys.tdq[c] = tdq[c] /\ tdq[c] \in GoodTdq
  BY SafeSys, SafeInv
<1> HIDE DEF t, r
<1>4. n \in ThreadType /\ n.state = "running" /\ n.cpu = c /\ n.pri = r.user
  BY <1>2 DEF ThreadType
<1> HIDE DEF n
<1>5. /\ out \in SysType /\ out.cur = Sys.cur /\ out.tdq = Sys.tdq /\ out.ipi = Sys.ipi
      /\ \A u \in Thread : out.td[u] = IF u = t THEN n ELSE Sys.td[u]
  <2>1. out \in SysType
    BY <1>2, <1>3, <1>4, SetTdType
  <2> QED
    BY <1>2, <1>3, <2>1 DEF SetTd, SysType
<1>6. Prio(out) \in [Thread -> Pri]
  BY <1>5, SysParts
<1> HIDE DEF out
<1>7. /\ low \in GoodTdq /\ low.rq = tdq[c].rq /\ low.transferable = tdq[c].transferable
      /\ low.ipipending = tdq[c].ipipending /\ low.load = tdq[c].load
      /\ low.lowpri <= r.user
  BY <1>2, <1>3, <1>6, SetLowpriBound, SetLowpriGood
<1> HIDE DEF low
<1>8. /\ m \in SysType /\ m.cur = Sys.cur /\ m.ipi = Sys.ipi /\ m.td = out.td
      /\ \A d \in CPU : m.tdq[d] = IF d = c THEN low ELSE Sys.tdq[d]
  <2>1. m \in SysType
    BY <1>5, <1>7, SetTdqType
  <2> QED
    BY <1>3, <1>5, <2>1 DEF SetTdq, SysType
<1> HIDE DEF m
<1>9. Sound(m, pend)
  <2>1. \A u \in Thread : m.td[u] = IF u = t THEN n ELSE Sys.td[u]
    BY <1>5, <1>8
  <2> QED
    BY <1>2, <1>3, <1>4, <1>7, <1>8, <2>1, NewPriSound
<1> QED
  BY <1>1, <1>9, SettleSafe

(* The switch on the way back to user mode. *)
LEMMA AstSafe ==
  ASSUME Safe, NEW c \in CPU, Ast(c)
  PROVE  Safe'
<1> DEFINE t     == cur[c]
           r     == td[t]
           b     == [r EXCEPT !.base = r.user]
           based == SetTd(Sys, t, b)
           down  == RunningPriority(based, t, r.user)
<1>1. /\ Busy(c)
      /\ SwitchOut(based, c, FALSE) \/ SwitchOut(down, c, FALSE)
  BY DEF Ast
<1>2. /\ t \in Thread /\ r \in ThreadType /\ r.user \in Pri /\ pend[c].step = "run"
      /\ r.state = "running" /\ r.cpu = c
  BY <1>1, BusySafe, ThreadParts
<1>3. /\ Sound(Sys, pend) /\ Sys.cur[c] = t /\ Sys.td[t] = r
  BY SafeSys
<1> HIDE DEF t, r
<1>4. b \in ThreadType /\ SamePlace(r, b)
  BY <1>2, FieldsSame
<1>5. b.state = "running" /\ b.cpu = c
  BY <1>2, <1>4 DEF SamePlace
<1> HIDE DEF b
<1>6. Sound(based, pend) /\ based.cur = Sys.cur /\ based.td[t] = b
  BY <1>2, <1>3, <1>4, HeldTd
<1> HIDE DEF based
<1>7. Sound(down, pend)
  BY <1>2, <1>3, <1>5, <1>6, RunningPrioritySound
<1> HIDE DEF down
<1> QED
  BY <1>1, <1>2, <1>6, <1>7, SwitchOutSafe

(***************************************************************************)
(* Threads that leave a CPU, and threads that come to one                  *)
(***************************************************************************)
(* The current thread of c sleeps or ends, and c chooses another. *)
LEMMA LeaveChoose ==
  ASSUME NEW s, NEW p, NEW c \in CPU, Nearly(s, p, c), p[c].step = "run",
         NEW r \in ThreadType, r.state \notin {"runq", "running"}
  PROVE  Vacant(LoadAdd(SetTd(s, s.cur[c], r), c, -1), p, c)
<1> DEFINE n == LoadAdd(SetTd(s, s.cur[c], r), c, -1)
<1>1. r.state # "runq" /\ r.state # "running"
  OBVIOUS
<1>2. /\ Kept(n) /\ n.cur = s.cur /\ n.td[s.cur[c]] = r
      /\ \A u \in Thread \ {s.cur[c]} :
           n.td[u].state = s.td[u].state /\ n.td[u].cpu = s.td[u].cpu
      /\ \A d \in CPU \ {c} : (LowAt(s, d) => LowAt(n, d)) /\ Extra(n, d) = Extra(s, d)
      /\ Extra(n, c) = 0
  BY <1>1, LeaveLoad
<1> HIDE DEF n
<1>3. n.td[s.cur[c]].state # "running"
  BY <1>1, <1>2
<1>4. Vacant(n, p, c)
  BY <1>2, <1>3, LeaveVacant
<1> QED
  BY <1>4 DEF n

(* The current thread of c sleeps, and c looks for one to steal. *)
LEMMA LeaveSteal ==
  ASSUME NEW s, NEW p, NEW c \in CPU, Nearly(s, p, c), p[c].step = "run",
         NEW r \in ThreadType, r.state = "sleeping", r.pri = s.td[s.cur[c]].pri
  PROVE  Sound(LoadAdd(SetTd(s, s.cur[c], r), c, -1),
               [p EXCEPT ![c] = [step |-> "trysteal", thread |-> s.cur[c], flags |-> {}]])
<1> DEFINE n == LoadAdd(SetTd(s, s.cur[c], r), c, -1)
<1>1. r.state # "runq"
  OBVIOUS
<1>2. /\ Kept(n) /\ n.cur = s.cur /\ n.td[s.cur[c]] = r
      /\ \A u \in Thread \ {s.cur[c]} :
           n.td[u].state = s.td[u].state /\ n.td[u].cpu = s.td[u].cpu
      /\ \A d \in CPU \ {c} : (LowAt(s, d) => LowAt(n, d)) /\ Extra(n, d) = Extra(s, d)
      /\ LowAt(n, c)
      /\ Extra(n, c) = 0
  BY <1>1, LeaveLoad
<1> HIDE DEF n
<1>3. n.td[s.cur[c]].state = IF "trysteal" = "migrate" THEN "running" ELSE "sleeping"
  BY <1>2
<1>4. \A d \in CPU : LowAt(s, d) => LowAt(n, d)
  BY <1>2
<1>5. \A d \in CPU \ {c} : Extra(n, d) = Extra(s, d)
  BY <1>2
<1>6. "trysteal" \in {"migrate", "trysteal"} /\ {} \in SUBSET Flag
  OBVIOUS
<1>7. Sound(n, [p EXCEPT ![c] = [step |-> "trysteal", thread |-> s.cur[c], flags |-> {}]])
  BY <1>2, <1>3, <1>4, <1>5, <1>6, LeavePend
<1> QED
  BY <1>7 DEF n

(* The record of the current thread of c that goes to sleep, its priority  *)
(* raised if it is worse than static_boost.                                *)
LEMMA SleepSound ==
  ASSUME Safe, NEW c \in CPU, Busy(c)
  PROVE  LET t == cur[c]
             based == SetTd(Sys, t, [td[t] EXCEPT !.base = StaticBoost])
             calm == IF Timeshare(t) /\ td[t].pri > StaticBoost
                     THEN RunningPriority(based, t, StaticBoost) ELSE Sys
             z == [Unflag(calm.td[t]) EXCEPT !.state = "sleeping"]
         IN /\ Sound(calm, pend) /\ calm.cur[c] = t /\ calm.td[t] \in ThreadType
            /\ calm.td[t].state = "running" /\ Nearly(calm, pend, c)
            /\ z \in ThreadType /\ z.state = "sleeping" /\ z.pri = calm.td[t].pri
<1> DEFINE t     == cur[c]
           r     == td[t]
           boost == Timeshare(t) /\ r.pri > StaticBoost
           b     == [r EXCEPT !.base = StaticBoost]
           based == SetTd(Sys, t, b)
           calm  == IF boost THEN RunningPriority(based, t, StaticBoost) ELSE Sys
           z     == [Unflag(calm.td[t]) EXCEPT !.state = "sleeping"]
<1>1. /\ t \in Thread /\ r \in ThreadType /\ pend[c].step = "run"
      /\ r.state = "running" /\ r.cpu = c /\ t # NoThread
  BY BusySafe
<1>2. Sound(Sys, pend) /\ Sys.cur[c] = t /\ Sys.td[t] = r /\ StaticBoost \in Pri
  BY SafeSys, UleAssumption
<1> HIDE DEF t, r
<1>3. b \in ThreadType /\ SamePlace(r, b)
  BY <1>1, <1>2, FieldsSame
<1>4. b.state = "running" /\ b.cpu = c
  BY <1>1, <1>3 DEF SamePlace
<1> HIDE DEF b, boost
<1>5. Sound(based, pend) /\ based.cur = Sys.cur /\ based.td[t] = b
  BY <1>1, <1>2, <1>3, HeldTd
<1> HIDE DEF based
<1>6. /\ Sound(calm, pend) /\ calm.cur[c] = t
      /\ calm.td[t].state = "running" /\ calm.td[t].cpu = c
  <2>1. LET n == RunningPriority(based, t, StaticBoost) IN
        /\ Sound(n, pend) /\ n.cur = based.cur
        /\ n.td[t].state = "running" /\ n.td[t].cpu = based.td[t].cpu
    BY <1>1, <1>2, <1>4, <1>5, RunningPrioritySound
  <2> QED
    BY <1>1, <1>2, <1>4, <1>5, <2>1
<1> HIDE DEF calm
<1>7. Nearly(calm, pend, c)
  BY <1>1, <1>6, SoundNearly
<1>8. calm.td[t] \in ThreadType
  BY <1>1, <1>6, SysParts DEF Sound, Kept
<1>9. /\ z \in ThreadType /\ z.state = "sleeping" /\ z.pri = calm.td[t].pri
  <2>1. Unflag(calm.td[t]) \in ThreadType /\ Unflag(calm.td[t]).pri = calm.td[t].pri
    BY <1>8, UnflagParts
  <2> QED
    BY <2>1 DEF ThreadType
<1> QED
  BY <1>6, <1>7, <1>8, <1>9 DEF calm, based, boost, b, r, t

(* sched_sleep and the switch of a thread that no longer runs. *)
LEMMA SleepSafe ==
  ASSUME Safe, NEW c \in CPU, Sleep(c)
  PROVE  Safe'
<1> DEFINE t     == cur[c]
           r     == td[t]
           boost == Timeshare(t) /\ r.pri > StaticBoost
           based == SetTd(Sys, t, [r EXCEPT !.base = StaticBoost])
           calm  == IF boost THEN RunningPriority(based, t, StaticBoost) ELSE Sys
           z     == [Unflag(calm.td[t]) EXCEPT !.state = "sleeping"]
           out   == LoadAdd(SetTd(calm, t, z), c, -1)
           p     == [step |-> "trysteal", thread |-> t, flags |-> {}]
<1>1. /\ Busy(c)
      /\ \/ Becomes(out) /\ pend' = [pend EXCEPT ![c] = p]
         \/ Settle(Choose(out, c))
  BY DEF Sleep
<1>2. pend[c].step = "run"
  BY <1>1, BusySafe
<1>3. /\ calm.cur[c] = t /\ Nearly(calm, pend, c)
      /\ z \in ThreadType /\ z.state = "sleeping" /\ z.pri = calm.td[t].pri
  BY <1>1, SleepSound
<1> HIDE DEF calm, z, t
<1>4. CASE Becomes(out) /\ pend' = [pend EXCEPT ![c] = p]
  <2>1. Sound(out, [pend EXCEPT ![c] = p])
    BY <1>2, <1>3, LeaveSteal
  <2> QED
    BY <1>4, <2>1, LeftSafe
<1>5. CASE Settle(Choose(out, c))
  <2>1. z.state \notin {"runq", "running"}
    BY <1>3
  <2>2. Vacant(out, pend, c)
    BY <1>2, <1>3, <2>1, LeaveChoose
  <2> QED
    BY <1>2, <1>5, <2>2, ChooseSafe
<1> QED
  BY <1>1, <1>4, <1>5

(* sched_throw *)
LEMMA ExitSafe ==
  ASSUME Safe, NEW c \in CPU, Exit(c)
  PROVE  Safe'
<1> DEFINE t   == cur[c]
           out == LoadAdd(SetTd(Sys, t, Unborn(t)), c, -1)
<1>1. Busy(c) /\ Settle(Choose(out, c))
  BY DEF Exit
<1>2. Nearly(Sys, pend, c) /\ pend[c].step = "run" /\ Sys.cur[c] = t
  BY <1>1, BusySafe, SafeSys
<1>3. Unborn(t) \in ThreadType /\ Unborn(t).state \notin {"runq", "running"}
  BY UnbornType DEF Unborn
<1> HIDE DEF t
<1>4. Vacant(out, pend, c)
  BY <1>2, <1>3, LeaveChoose
<1> QED
  BY <1>1, <1>2, <1>4, ChooseSafe

(* c has done what it had left to do. *)
LEMMA DoneSafe ==
  ASSUME NEW n, NEW c \in CPU, Sound(n, [pend EXCEPT ![c] = NoPend]), Becomes(n),
         pend' = [pend EXCEPT ![c] = NoPend]
  PROVE  Safe'
BY BecomesSafe

(* The second half of sched_switch_migrate. *)
LEMMA MigrateDoneSafe ==
  ASSUME Safe, NEW c \in CPU, MigrateDone(c)
  PROVE  Safe'
<1> DEFINE t     == pend[c].thread
           d     == td[t].cpu
           added == TdqAdd(Sys, d, t, pend[c].flags)
           n(w)  == Notify(added, d, t, w)
<1>1. /\ pend[c].step = "migrate"
      /\ \E w \in IdleIpi : Becomes(Choose(n(w), c))
      /\ pend' = [pend EXCEPT ![c] = NoPend]
  BY DEF MigrateDone
<1>2. /\ Sound(Sys, pend) /\ Kept(Sys) /\ pend \in [CPU -> PendType]
      /\ Sys.cur = cur /\ Sys.td = td
  BY SafeSys, SafeInv
<1>3. t \in Thread /\ t # NoThread
  BY <1>1, <1>2, PendSteps, RunqAssumption
<1>4. Settled(Sys, pend, c)
  BY <1>2 DEF Sound
<1>5. Sys.cur[c] = t /\ Extra(Sys, c) = 0
  BY <1>1, <1>4 DEF Settled, Stands, Counts
<1> HIDE DEF t
<1>6. Nearly(Sys, pend, c)
  BY <1>1, <1>2, <1>3, <1>5, SoundNearly
<1>7. Sys.td[t].state = "running" /\ Sys.td[t].cpu = d /\ d \in CPU
  BY <1>2, <1>3, <1>5, <1>6, SafeSys, ThreadParts DEF Nearly
<1> HIDE DEF d
<1>8. Places(Sys, added, t, "runq", d)
  BY <1>2, <1>3, <1>7, TdqAddPlaces
<1> HIDE DEF added
<1>9. PICK w \in IdleIpi : Becomes(Choose(n(w), c))
  BY <1>1
<1>10. Places(added, n(w), t, "runq", d)
  <2>1. Kept(added) /\ added.td[t].state = "runq" /\ added.td[t].cpu = d
    BY <1>8 DEF Places
  <2>2. Places(added, n(w), t, added.td[t].state, added.td[t].cpu)
    BY <1>3, <1>7, <2>1, NotifyPlaces
  <2> QED
    BY <2>1, <2>2

<1> HIDE DEF n
<1>11. Places(Sys, n(w), t, "runq", d)
  BY <1>8, <1>10, PlacesThen
<1>12. Vacant(n(w), pend, c)
  <2>1. /\ Kept(n(w)) /\ n(w).cur = Sys.cur /\ n(w).td[Sys.cur[c]].state # "running"
        /\ \A u \in Thread \ {Sys.cur[c]} :
             n(w).td[u].state = Sys.td[u].state /\ n(w).td[u].cpu = Sys.td[u].cpu
        /\ \A y \in CPU \ {c} : /\ LowAt(Sys, y) => LowAt(n(w), y)
                                /\ Extra(n(w), y) = Extra(Sys, y)
        /\ Extra(n(w), c) = 0
    BY <1>5, <1>11 DEF Places
  <2> QED
    BY <1>6, <2>1, LeaveVacant
<1>13. Sound(Choose(n(w), c), [pend EXCEPT ![c] = NoPend])
  BY <1>12, ChooseSound
<1> QED
  BY <1>1, <1>9, <1>13, DoneSafe

(* The second half of sched_setcpu. *)
LEMMA SetcpuDoneSafe ==
  ASSUME Safe, NEW c \in CPU, SetcpuDone(c)
  PROVE  Safe'
<1> DEFINE t    == pend[c].thread
           d    == td[t].cpu
           p    == [pend EXCEPT ![c] = NoPend]
           n(w) == AddTo(Sys, c, d, t, pend[c].flags, w)
<1>1. pend[c].step = "setcpu" /\ pend' = p /\ \E w \in IdleIpi : Becomes(n(w))
  BY DEF SetcpuDone
<1>2. /\ Sound(Sys, pend) /\ Kept(Sys) /\ Sys.td = td
      /\ \A u \in Thread : td[u] \in ThreadType
  BY SafeSys
<1>3. /\ t \in Thread /\ Sys.td[t].state = "canrun"
      /\ Sound(Sys, p) /\ Loose(Sys, p, t)
  BY <1>1, <1>2, HandDone
<1>4. d \in CPU /\ Sys.td[t].cpu = d
  BY <1>2, <1>3, ThreadParts
<1> HIDE DEF t, d
<1>5. PICK w \in IdleIpi : Becomes(n(w))
  BY <1>1
<1>6. Places(Sys, n(w), t, "runq", d)
  BY <1>2, <1>3, <1>4, AddToPlaces
<1> HIDE DEF n
<1>7. Sound(n(w), p)
  BY <1>3, <1>6, LoosePlaces
<1> QED
  BY <1>1, <1>5, <1>7, DoneSafe

(* What tdq_steal returns is queued where it looked. *)
LEMMA StolenQueued ==
  ASSUME Safe, NEW c \in CPU, NEW d \in CPU,
         TdqSteal(tdq[d], May(Sys, c)) # NoThread
  PROVE  LET t == TdqSteal(tdq[d], May(Sys, c)) IN
         /\ t \in Thread /\ Sys.td[t].state = "runq" /\ Sys.td[t].cpu = d
<1>1. Kept(Sys) /\ Sys.tdq = tdq /\ tdq[d] \in GoodTdq
  BY SafeSys
<1>2. OnSome(Sys.tdq[d], TdqSteal(tdq[d], May(Sys, c)))
  BY <1>1, TdqStealOn
<1> QED
  BY <1>1, <1>2, OnSomeQueued

(* The second half of tdq_trysteal. *)
LEMMA TryStealDoneSafe ==
  ASSUME Safe, NEW c \in CPU, TryStealDone(c)
  PROVE  Safe'
<1> DEFINE t(d) == TdqSteal(tdq[d], May(Sys, c))
<1>1. /\ \/ Becomes(Choose(Sys, c))
         \/ \E d \in CPU : t(d) # NoThread /\ Becomes(Choose(Move(Sys, t(d), c), c))
      /\ pend' = [pend EXCEPT ![c] = NoPend] /\ pend[c].step = "trysteal"
  BY DEF TryStealDone
<1>2. Vacant(Sys, pend, c) /\ Kept(Sys)
  BY <1>1, SafeSys, IdleVacant
<1>3. CASE Becomes(Choose(Sys, c))
  BY <1>1, <1>2, <1>3, ChooseSound, DoneSafe
<1>4. ASSUME NEW d \in CPU, t(d) # NoThread, Becomes(Choose(Move(Sys, t(d), c), c))
      PROVE  Safe'
  <2>1. t(d) \in Thread /\ Sys.td[t(d)].state = "runq"
    BY <1>4, StolenQueued
  <2> HIDE DEF t
  <2>2. Places(Sys, Move(Sys, t(d), c), t(d), "runq", c)
    BY <1>2, <2>1, MovePlaces
  <2>3. Vacant(Move(Sys, t(d), c), pend, c)
    BY <1>2, <2>1, <2>2, VacantMove
  <2> QED
    BY <1>1, <1>4, <2>3, ChooseSound, DoneSafe
<1> QED
  BY <1>1, <1>3, <1>4

(* A thread moves from one queue to another. *)
LEMMA MoveSound ==
  ASSUME NEW s, NEW p, Sound(s, p), NEW t \in Thread, s.td[t].state = "runq",
         NEW c \in CPU
  PROVE  Sound(Move(s, t, c), p) /\ Kept(Move(s, t, c)) /\ Move(s, t, c).cur = s.cur
<1>1. Kept(s)
  BY DEF Sound
<1>2. Places(s, Move(s, t, c), t, "runq", c)
  BY <1>1, MovePlaces
<1>3. Loose(s, p, t)
  BY QueuedLoose
<1>4. Sound(Move(s, t, c), p)
  BY <1>2, <1>3, LoosePlaces
<1> QED
  BY <1>2, <1>4 DEF Places

(* tdq_idled *)
LEMMA IdleStealSafe ==
  ASSUME Safe, NEW c \in CPU, NEW d \in CPU, IdleSteal(c, d)
  PROVE  Safe'
<1> DEFINE t == TdqSteal(tdq[d], May(Sys, c))
<1>1. t # NoThread /\ SwitchOut(Move(Sys, t, c), c, FALSE) /\ pend[c].step = "run"
  BY DEF IdleSteal, OnCpu
<1>2. t \in Thread /\ Sys.td[t].state = "runq"
  BY <1>1, StolenQueued
<1> HIDE DEF t
<1>3. Sound(Move(Sys, t, c), pend)
  BY <1>2, SafeSys, MoveSound
<1> QED
  BY <1>1, <1>3, SwitchOutSafe

(* sched_balance_pair *)
LEMMA BalanceSafe ==
  ASSUME Safe, NEW high \in CPU, NEW low \in CPU, Balance(high, low)
  PROVE  Safe'
<1> DEFINE t     == TdqSteal(tdq[high], May(Sys, low))
           moved == Move(Sys, t, low)
<1>1. /\ t # NoThread
      /\ \/ Settle(moved)
         \/ \E wired \in IdleIpi : Settle(Notify(moved, low, t, wired))
  BY DEF Balance
<1>2. t \in Thread /\ Sys.td[t].state = "runq"
  BY <1>1, StolenQueued
<1> HIDE DEF t
<1>3. Sound(moved, pend) /\ Kept(moved)
  BY <1>2, SafeSys, MoveSound
<1> HIDE DEF moved
<1>4. ASSUME NEW wired \in IdleIpi
      PROVE  Sound(Notify(moved, low, t, wired), pend)
  <2>1. Places(moved, Notify(moved, low, t, wired), t, moved.td[t].state, moved.td[t].cpu)
    BY <1>2, <1>3, NotifyPlaces
  <2> QED
    BY <1>2, <1>3, <2>1, CalmPlaces
<1> QED
  BY <1>1, <1>3, <1>4, SettleSafe

(***************************************************************************)
(* Interrupts, new threads and affinity                                    *)
(***************************************************************************)
(* The mark goes with the interrupt. *)
LEMMA IpiTaken ==
  ASSUME Safe, NEW c \in CPU
  PROVE  LET seen == [SetTdq(Sys, c, [tdq[c] EXCEPT !.ipipending = FALSE])
                        EXCEPT !.ipi[c] = FALSE]
         IN Sound(seen, pend) /\ seen \in SysType /\ seen.cur = cur /\ seen.td = td
<1> DEFINE q    == [tdq[c] EXCEPT !.ipipending = FALSE]
           m    == SetTdq(Sys, c, q)
           seen == [m EXCEPT !.ipi[c] = FALSE]
<1>1. /\ Sound(Sys, pend) /\ Sys \in SysType /\ Backed(Sys) /\ Kept(Sys)
      /\ Sys.tdq = tdq /\ Sys.td = td /\ Sys.cur = cur
      /\ tdq[c] \in GoodTdq /\ tdq[c] \in TdqType
  BY SafeSys, SafeInv DEF Kept, GoodTdq
<1>2. /\ q \in GoodTdq /\ ~ q.ipipending /\ q.rq = tdq[c].rq /\ q.load = tdq[c].load
      /\ q.transferable = tdq[c].transferable /\ q.lowpri = tdq[c].lowpri
  BY <1>1, CountersGood DEF TdqType
<1> HIDE DEF q
<1>3. /\ m \in SysType /\ m.cur = cur /\ m.td = td /\ m.ipi = Sys.ipi
      /\ \A d \in CPU : m.tdq[d] = IF d = c THEN q ELSE tdq[d]
  <2>1. m \in SysType
    BY <1>1, <1>2, SetTdqType
  <2> QED
    BY <1>1, <2>1 DEF SetTdq, SysType
<1> HIDE DEF m
<1>4. /\ seen \in SysType /\ seen.cur = cur /\ seen.td = td
      /\ \A d \in CPU : seen.tdq[d] = IF d = c THEN q ELSE tdq[d]
      /\ \A d \in CPU : seen.ipi[d] = IF d = c THEN FALSE ELSE Sys.ipi[d]
  <2>1. seen \in SysType
    BY <1>3, SetIpiType
  <2> QED
    BY <1>1, <1>3, <2>1 DEF SysType
<1> HIDE DEF seen
<1>5. Kept(seen) /\ \A d \in CPU : On(seen, d) = On(Sys, d)
  <2>1. \A d \in CPU : /\ seen.tdq[d].rq = Sys.tdq[d].rq
                       /\ seen.tdq[d].transferable = Sys.tdq[d].transferable
                       /\ seen.tdq[d].ipipending => seen.ipi[d]
    BY <1>1, <1>2, <1>4 DEF Backed
  <2>2. \A u \in Thread : Sys.td[u].pri >= Sys.td[u].pri
    BY <1>1, SysParts, ThreadParts DEF Pri
  <2>3. \A u \in Thread : Alike(Sys.td[u], seen.td[u])
    BY <1>1, <1>4, <2>2 DEF Alike
  <2> QED
    BY <1>1, <1>4, <2>1, <2>3, KeptFrame
<1>6. Sound(seen, pend)
  <2>1. \A u \in Thread : seen.td[u].pri = Sys.td[u].pri
    BY <1>1, <1>4
  <2>2. \A d \in CPU : CurPri(seen, d) = CurPri(Sys, d)
    BY <1>1, <1>4, <2>1, CurPriSame
  <2>3. \A d \in CPU : (LowAt(Sys, d) => LowAt(seen, d)) /\ Extra(seen, d) = Extra(Sys, d)
    BY <1>1, <1>2, <1>4, <1>5, <2>2 DEF LowAt, Extra
  <2>4. Shift(Sys, seen, Thread0)
    BY <1>1, <1>4, <1>5, <2>3 DEF Shift
  <2> QED
    BY <1>1, <1>4, <2>4, CalmSound, UleAssumption
<1> QED
  BY <1>4, <1>6 DEF seen, m, q

(* sched_preempt *)
LEMMA PreemptIpiSafe ==
  ASSUME Safe, NEW c \in CPU, PreemptIpi(c)
  PROVE  Safe'
<1> DEFINE seen == [SetTdq(Sys, c, [tdq[c] EXCEPT !.ipipending = FALSE])
                      EXCEPT !.ipi[c] = FALSE]
           owes == [td[cur[c]] EXCEPT !.owepreempt = TRUE]
<1>1. /\ pend[c].step = "run"
      /\ \/ Settle(seen)
         \/ SwitchOut(seen, c, TRUE)
         \/ cur[c] # NoThread /\ Settle(SetTd(seen, cur[c], owes))
  BY DEF PreemptIpi, OnCpu
<1>2. Sound(seen, pend) /\ seen.td = td
  BY IpiTaken
<1> HIDE DEF seen
<1>3. CASE cur[c] # NoThread /\ Settle(SetTd(seen, cur[c], owes))
  <2>1. cur[c] \in Thread /\ td[cur[c]] \in ThreadType
    BY <1>3, SafeSys
  <2>2. owes \in ThreadType /\ SamePlace(td[cur[c]], owes)
    <3>1. MaxPri \in Pri
      BY TdqAssumption DEF Pri
    <3> QED
      BY <2>1, <3>1, FieldsSame
  <2> HIDE DEF owes
  <2>3. Sound(SetTd(seen, cur[c], owes), pend)
    BY <1>2, <2>1, <2>2, HeldTd
  <2> QED
    BY <1>3, <2>3, SettleSafe
<1> QED
  BY <1>1, <1>2, <1>3, SettleSafe, SwitchOutSafe

(* sched_add of a thread that nobody else can reach. *)
LEMMA AddSafe ==
  ASSUME NEW s, Sound(s, pend), NEW t \in Thread, Loose(s, pend, t),
         s.td[t].state # "runq", NEW r \in ThreadType, r.state = "canrun",
         NEW c \in CPU, NEW d, r.cpu = d, NEW flags, NEW wired,
         Settle(AddTo(SetTd(s, t, r), c, d, t, flags, wired))
  PROVE  Safe'
<1> DEFINE m == SetTd(s, t, r)
           n == AddTo(m, c, d, t, flags, wired)
<1>1. Alike(s.td[t], r) /\ r.state # "running" /\ r.state # "runq"
  BY DEF Alike
<1>2. Sound(m, pend) /\ Loose(m, pend, t) /\ m.td[t] = r
  BY <1>1, LooseTd
<1>3. d \in CPU
  BY ThreadParts
<1> HIDE DEF m
<1>4. Places(m, n, t, "runq", d)
  BY <1>1, <1>2, <1>3, AddToPlaces DEF Sound
<1> HIDE DEF n
<1>5. Sound(n, pend)
  BY <1>2, <1>4, LoosePlaces
<1> QED
  BY <1>5, SettleSafe DEF m, n

(* sched_wakeup *)
LEMMA WakeupSafe ==
  ASSUME Safe, NEW c \in CPU, NEW t \in Thread, Wakeup(c, t)
  PROVE  Safe'
<1> DEFINE r(d, u) == [Rescored(td[t], u) EXCEPT !.slice = 0, !.state = "canrun",
                                                !.cpu = d]
<1>1. /\ Lockable(t) /\ td[t].state = "sleeping"
      /\ \E d \in PickCpu(td[t]), u \in UserPris[t], wired \in IdleIpi :
           Settle(AddTo(SetTd(Sys, t, r(d, u)), c, d, t, {}, wired))
  BY DEF Wakeup
<1>2. Sound(Sys, pend) /\ Sys.td = td /\ td[t] \in ThreadType
  BY SafeSys
<1>3. Loose(Sys, pend, t)
  BY <1>1, <1>2, UnlockedLoose DEF Lockable
<1>4. PICK d \in PickCpu(td[t]), u \in UserPris[t], wired \in IdleIpi :
        Settle(AddTo(SetTd(Sys, t, r(d, u)), c, d, t, {}, wired))
  BY <1>1
<1>5. d \in CPU /\ u \in Pri
  BY <1>2, <1>4, ThreadParts, UserPrisPri DEF PickCpu
<1>6. Rescored(td[t], u) \in ThreadType
  BY <1>2, <1>5, RescoredType
<1>7. /\ r(d, u) \in ThreadType /\ r(d, u).state = "canrun" /\ r(d, u).cpu = d
  <2>1. 0 \in Int /\ TRUE \in BOOLEAN
    OBVIOUS
  <2>2. r(d, u) \in ThreadType
    BY <1>5, <1>6, <2>1, FieldsType
  <2> QED
    BY <1>6, <2>2 DEF ThreadType
<1> HIDE DEF r
<1> QED
  BY <1>1, <1>2, <1>3, <1>4, <1>7, AddSafe

(* sched_fork and the sched_add that follows. *)
LEMMA ForkSafe ==
  ASSUME Safe, NEW c \in CPU, NEW t \in Thread, Fork(c, t)
  PROVE  Safe'
<1> DEFINE p      == cur[c]
           parent == td[p]
           slice  == TdqSlice(tdq[c]) - SliceMin
           child(u, d) == [Unborn(t) EXCEPT
                             !.state = "canrun", !.pri = parent.base,
                             !.base = parent.base, !.user = u, !.cpu = d,
                             !.mask = parent.mask, !.slice = slice]
           m(v)   == SetTd(Sys, p, Rescored(parent, v))
<1>1. /\ Busy(c) /\ td[t].state = "inactive"
      /\ \E v \in UserPris[p], u \in UserPris[t], wired \in IdleIpi :
         \E d \in parent.mask : Settle(AddTo(SetTd(m(v), t, child(u, d)), c, d, t, {}, wired))
  BY DEF Fork
<1>2. /\ Sound(Sys, pend) /\ Sys.td = td /\ Sys.cur = cur
  BY SafeSys
<1>3. p \in Thread /\ parent \in ThreadType /\ parent.state = "running"
  BY <1>1, BusySafe
<1>4. slice \in Int
  <2>1. TdqSlice(tdq[c]) \in Int
    BY SafeSys, TdqSliceInt
  <2> QED
    BY <2>1, TdqAssumption
<1>5. Loose(Sys, pend, t)
  BY <1>1, <1>2, StandsApart DEF Sound, Settled, Loose
<1>6. p # t /\ parent = Sys.td[p]
  BY <1>1, <1>2, <1>3
<1> HIDE DEF p, parent, slice
<1>7. PICK v \in UserPris[p], u \in UserPris[t], wired \in IdleIpi :
        \E d \in parent.mask : Settle(AddTo(SetTd(m(v), t, child(u, d)), c, d, t, {}, wired))
  BY <1>1
<1>8. PICK d \in parent.mask :
        Settle(AddTo(SetTd(m(v), t, child(u, d)), c, d, t, {}, wired))
  BY <1>7
<1>9. d \in CPU /\ u \in Pri /\ v \in Pri
  BY <1>3, <1>7, <1>8, ThreadParts, UserPrisPri
<1>10. child(u, d) \in ThreadType /\ child(u, d).state = "canrun" /\ child(u, d).cpu = d
  <2>1. Unborn(t) \in ThreadType
    BY UnbornType
  <2>2. parent.base \in Pri /\ parent.mask \in (SUBSET CPU) \ {{}}
    BY <1>3, ThreadParts
  <2> QED
    BY <1>4, <1>9, <2>1, <2>2 DEF ThreadType
<1> HIDE DEF child
<1>11. Rescored(parent, v) \in ThreadType /\ SamePlace(parent, Rescored(parent, v))
  <2>1. TRUE \in BOOLEAN
    OBVIOUS
  <2> QED
    BY <1>3, <1>9, <2>1, FieldsSame
<1>12. Sound(m(v), pend) /\ m(v).cur = Sys.cur
  BY <1>2, <1>3, <1>6, <1>11, HeldTd
<1>13. m(v).td[t] = Sys.td[t]
  BY <1>2, <1>6, SafeInv DEF SetTd, SysType
<1> HIDE DEF m
<1>14. Loose(m(v), pend, t)
  BY <1>5, <1>12 DEF Loose
<1>15. m(v).td[t].state # "runq"
  BY <1>1, <1>2, <1>13
<1> QED
  BY <1>8, <1>10, <1>12, <1>14, <1>15, AddSafe

(* sched_exit_thread *)
LEMMA ExitThreadSafe ==
  ASSUME Safe, NEW t \in Thread, ExitThread(t)
  PROVE  Safe'
<1>1. PICK u \in UserPris[t] : Settle(SetTd(Sys, t, Rescored(td[t], u)))
  BY DEF ExitThread
<1>2. Sound(Sys, pend) /\ Sys.td = td /\ td[t] \in ThreadType /\ u \in Pri
  BY <1>1, SafeSys, UserPrisPri
<1>3. Rescored(td[t], u) \in ThreadType /\ SamePlace(td[t], Rescored(td[t], u))
  <2>1. TRUE \in BOOLEAN
    OBVIOUS
  <2> QED
    BY <1>2, <2>1, FieldsSame
<1>4. Sound(SetTd(Sys, t, Rescored(td[t], u)), pend)
  BY <1>2, <1>3, HeldTd
<1> QED
  BY <1>1, <1>4, SettleSafe

(* sched_pin, sched_unpin and sched_unbind *)
LEMMA PinSafe ==
  ASSUME Safe, NEW c \in CPU, Pin(c) \/ Unpin(c) \/ Unbind(c)
  PROVE  Safe'
<1> DEFINE t    == cur[c]
           r(b) == [td[t] EXCEPT !.pinned = b]
           x    == [td[t] EXCEPT !.bound = FALSE, !.pinned = FALSE]
<1>1. /\ Busy(c)
      /\ \/ \E b \in BOOLEAN : Settle(SetTd(Sys, t, r(b)))
         \/ Settle(SetTd(Sys, t, x))
  BY DEF Pin, Unpin, Unbind
<1>2. /\ Sound(Sys, pend) /\ Sys.td = td
      /\ t \in Thread /\ td[t] \in ThreadType /\ td[t].state = "running"
  BY <1>1, BusySafe, SafeSys
<1> HIDE DEF t
<1>3. ASSUME NEW k \in ThreadType, k.state = td[t].state, k.cpu = td[t].cpu,
             k.pri = td[t].pri
      PROVE  Sound(SetTd(Sys, t, k), pend)
  <2>1. Sys.td[t].state # "runq"
    BY <1>2
  <2> QED
    BY <1>2, <1>3, <2>1, CalmTd
<1>4. ASSUME NEW b \in BOOLEAN
      PROVE  Sound(SetTd(Sys, t, r(b)), pend)
  <2>1. r(b) \in ThreadType
    BY <1>2, FlagsType, UleAssumption
  <2>2. r(b).state = td[t].state /\ r(b).cpu = td[t].cpu /\ r(b).pri = td[t].pri
    BY <1>2 DEF ThreadType
  <2> HIDE DEF r
  <2> QED
    BY <1>3, <2>1, <2>2
<1>5. Sound(SetTd(Sys, t, x), pend)
  <2>1. x \in ThreadType
    BY <1>2, FlagsType, UleAssumption
  <2>2. x.state = td[t].state /\ x.cpu = td[t].cpu /\ x.pri = td[t].pri
    BY <1>2 DEF ThreadType
  <2> HIDE DEF x
  <2> QED
    BY <1>3, <2>1, <2>2
<1> QED
  BY <1>1, <1>4, <1>5, SettleSafe

(* sched_bind: the thread's record names its new CPU before the switch. *)
LEMMA BindSafe ==
  ASSUME Safe, NEW c \in CPU, NEW d \in CPU, Bind(c, d)
  PROVE  Safe'
<1> DEFINE t     == cur[c]
           bound == [td[t] EXCEPT !.bound = TRUE, !.pinned = TRUE]
           away  == [bound EXCEPT !.cpu = d]
           m     == SetTd(Sys, t, away)
<1>1. /\ Busy(c)
      /\ \/ Settle(SetTd(Sys, t, bound))
         \/ SwitchOut(m, c, FALSE)
  BY DEF Bind
<1>2. /\ Sound(Sys, pend) /\ Sys.td = td /\ Sys.cur = cur /\ Nearly(Sys, pend, c)
      /\ t \in Thread /\ td[t] \in ThreadType /\ td[t].state = "running"
      /\ t # NoThread /\ pend[c].step = "run"
  BY <1>1, BusySafe, SafeSys
<1>3. t = Sys.cur[c]
  BY <1>2
<1> HIDE DEF t
<1>4. /\ bound \in ThreadType /\ bound.state = "running" /\ bound.pri = td[t].pri
      /\ bound.cpu = td[t].cpu /\ bound.pinned
  <2>1. bound \in ThreadType
    BY <1>2, FlagsType
  <2> QED
    BY <1>2, <2>1 DEF ThreadType
<1> HIDE DEF bound
<1>5. /\ away \in ThreadType /\ away.state = "running" /\ away.pri = td[t].pri
      /\ away.pinned
  <2>1. away \in ThreadType
    BY <1>4, FlagsType
  <2> QED
    BY <1>4, <2>1 DEF ThreadType
<1> HIDE DEF away
<1>6. CASE Settle(SetTd(Sys, t, bound))
  <2>1. Sys.td[t].state # "runq"
    BY <1>2
  <2>2. Sound(SetTd(Sys, t, bound), pend)
    BY <1>2, <1>4, <2>1, CalmTd
  <2> QED
    BY <1>6, <2>2, SettleSafe
<1>7. CASE SwitchOut(m, c, FALSE)
  <2>1. Nearly(m, pend, c) /\ m.cur = Sys.cur /\ m.td[t] = away
    BY <1>2, <1>3, <1>5, NearlyTd
  <2> HIDE DEF m
  <2>2. m.cur[c] = t /\ m.td[m.cur[c]].pinned
    BY <1>3, <1>5, <2>1
  <2>3. SwitchRunning(m, c, FALSE)
    BY <1>2, <1>7, <2>2 DEF SwitchOut
  <2> QED
    BY <1>2, <2>1, <2>2, <2>3, SwitchRunningSafe
<1> QED
  BY <1>1, <1>6, <1>7

(* An IPI is sent; no mark stands for it. *)
LEMMA IpiSound ==
  ASSUME NEW s, NEW p, Sound(s, p), NEW c \in CPU
  PROVE  Sound([s EXCEPT !.ipi[c] = TRUE], p)
<1> DEFINE n == [s EXCEPT !.ipi[c] = TRUE]
<1>1. s \in SysType /\ Kept(s) /\ Backed(s)
  BY DEF Sound, Kept
<1>2. /\ n \in SysType /\ n.tdq = s.tdq /\ n.td = s.td /\ n.cur = s.cur
      /\ \A d \in CPU : n.ipi[d] = IF d = c THEN TRUE ELSE s.ipi[d]
  <2>1. n \in SysType
    BY <1>1, SetIpiType
  <2> QED
    BY <1>1, <2>1 DEF SysType
<1> HIDE DEF n
<1>3. Kept(n) /\ \A d \in CPU : On(n, d) = On(s, d)
  <2>1. \A d \in CPU : /\ n.tdq[d].rq = s.tdq[d].rq
                       /\ n.tdq[d].transferable = s.tdq[d].transferable
                       /\ n.tdq[d].ipipending => n.ipi[d]
    BY <1>1, <1>2 DEF Backed
  <2>2. \A u \in Thread : s.td[u].pri >= s.td[u].pri
    BY <1>1, SysParts, ThreadParts DEF Pri
  <2>3. \A u \in Thread : Alike(s.td[u], n.td[u])
    BY <1>2, <2>2 DEF Alike
  <2> QED
    BY <1>1, <1>2, <2>1, <2>3, KeptFrame
<1>4. \A d \in CPU : CurPri(n, d) = CurPri(s, d)
  BY <1>2 DEF CurPri
<1>5. Shift(s, n, Thread0)
  BY <1>2, <1>3, <1>4 DEF Shift, LowAt, Extra
<1> QED
  BY <1>2, <1>5, CalmSound, UleAssumption DEF n

(* sched_affinity *)
LEMMA AffinitySafe ==
  ASSUME Safe, NEW c \in CPU, NEW t \in Thread, NEW m \in Masks, Affinity(c, t, m)
  PROVE  Safe'
<1> DEFINE r    == [td[t] EXCEPT !.mask = m]
           out  == SetTd(Sys, t, r)
           n    == [r EXCEPT !.needresched = TRUE]
           told == SetTd(Sys, t, n)
           sent == [told EXCEPT !.ipi[r.cpu] = TRUE]
<1>1. /\ pend[c].step = "run"
      /\ \/ r.state = "runq" /\ Readd(out, c, t, r.pri, {})
         \/ Settle(told)
         \/ Settle(sent)
         \/ Settle(out)
  BY DEF Affinity, OnCpu
<1>2. m \in (SUBSET CPU) \ {{}} /\ Sound(Sys, pend) /\ Sys.td = td /\ td[t] \in ThreadType
  BY SafeSys, UleAssumption
<1>3. r \in ThreadType /\ SamePlace(td[t], r)
  BY <1>2 DEF ThreadType, SamePlace
<1> HIDE DEF r
<1>4. n \in ThreadType /\ SamePlace(td[t], n)
  <2>1. MaxPri \in Pri /\ TRUE \in BOOLEAN
    BY TdqAssumption DEF Pri
  <2>2. n \in ThreadType /\ SamePlace(r, n)
    BY <1>3, <2>1, FieldsSame
  <2> QED
    BY <1>3, <2>2 DEF SamePlace
<1> HIDE DEF n
<1>5. Sound(out, pend) /\ out.td[t] = r
  BY <1>2, <1>3, HeldTd
<1>6. Sound(told, pend)
  BY <1>2, <1>4, HeldTd
<1> HIDE DEF out, told
<1>7. r.cpu \in CPU /\ r.pri \in Pri /\ {} \in SUBSET Flag
  BY <1>3, ThreadParts
<1>8. Sound(sent, pend)
  BY <1>6, <1>7, IpiSound
<1> HIDE DEF sent
<1>9. CASE r.state = "runq" /\ Readd(out, c, t, r.pri, {})
  <2>1. out.td[t].state = "runq"
    BY <1>5, <1>9
  <2> QED
    BY <1>1, <1>5, <1>7, <1>9, <2>1, ReaddSafe
<1> QED
  BY <1>1, <1>5, <1>6, <1>8, <1>9, SettleSafe

(* sched_clock leaves the thread it charges where it is. *)
LEMMA ChargedSame ==
  ASSUME NEW r \in ThreadType, NEW t, NEW q, NEW u \in Pri
  PROVE  SamePlace(r, Charged(r, t, q, u))
BY DEF Charged, Rescored, SamePlace, ThreadType

(* sched_clock *)
LEMMA ClockSafe ==
  ASSUME Safe, NEW c \in CPU, Clock(c)
  PROVE  Safe'
<1> DEFINE t      == cur[c]
           q      == AdvanceCalendar(tdq[c])
           turned == SetTdq(Sys, c, q)
           r(u)   == Charged(td[t], t, tdq[c], u)
<1>1. \/ Settle(turned)
      \/ /\ t # NoThread
         /\ \E u \in UserPris[t] : Settle(SetTd(turned, t, r(u)))
  BY DEF Clock
<1>2. /\ Sound(Sys, pend) /\ Kept(Sys) /\ Backed(Sys) /\ Sys \in SysType
      /\ Sys.tdq = tdq /\ Sys.td = td /\ Sys.cur = cur /\ tdq[c] \in GoodTdq
  BY SafeSys, SafeInv DEF Kept
<1>3. /\ q \in GoodTdq /\ q.rq = tdq[c].rq /\ q.load = tdq[c].load
      /\ q.lowpri = tdq[c].lowpri /\ q.ipipending = tdq[c].ipipending
      /\ q.transferable = tdq[c].transferable
  BY <1>2, AdvanceGood, AdvanceLists
<1> HIDE DEF q
<1>4. /\ Kept(turned) /\ turned.cur = cur /\ turned.td = td
      /\ \A d \in CPU : turned.tdq[d] = IF d = c THEN q ELSE tdq[d]
      /\ \A d \in CPU : Extra(turned, d) = Extra(Sys, d)
                          + IF d = c THEN q.load - tdq[c].load ELSE 0
  <2>1. q.ipipending => Sys.ipi[c]
    BY <1>2, <1>3 DEF Backed
  <2> QED
    BY <1>2, <1>3, <2>1, SetTdqKept
<1> HIDE DEF turned
<1>5. Sound(turned, pend)
  <2>1. \A d \in CPU : Extra(turned, d) = Extra(Sys, d)
    <3>1. \A d \in CPU : tdq[d].load \in Int /\ Cardinality(On(Sys, d)) \in Nat
      BY <1>2, SysParts, CountersGood, QueuedFinite
    <3>2. \A d \in CPU : Extra(Sys, d) \in Int
      BY <1>2, <3>1 DEF Extra
    <3>3. q.load - tdq[c].load = 0
      BY <1>3, <3>1
    <3> QED
      BY <1>4, <3>2, <3>3
  <2>2. \A d \in CPU : CurPri(turned, d) = CurPri(Sys, d)
    BY <1>2, <1>4 DEF CurPri
  <2>3. \A d \in CPU : LowAt(Sys, d) => LowAt(turned, d)
    BY <1>2, <1>3, <1>4, <2>2 DEF LowAt
  <2>4. Shift(Sys, turned, Thread0)
    BY <1>2, <1>4, <2>1, <2>3 DEF Shift
  <2> QED
    BY <1>2, <1>4, <2>4, CalmSound, UleAssumption
<1>6. ASSUME t # NoThread, NEW u \in UserPris[t], Settle(SetTd(turned, t, r(u)))
      PROVE  Safe'
  <2>1. t \in Thread /\ td[t] \in ThreadType
    BY <1>6, SafeSys
  <2>2. u \in Pri
    BY <1>6, <2>1, UserPrisPri
  <2>3. r(u) \in ThreadType /\ SamePlace(td[t], r(u))
    BY <2>1, <2>2, ChargedType, ChargedSame
  <2> HIDE DEF r
  <2>4. Sound(SetTd(turned, t, r(u)), pend)
    BY <1>4, <1>5, <2>1, <2>3, HeldTd
  <2> QED
    BY <1>6, <2>4, SettleSafe
<1> QED
  BY <1>1, <1>5, <1>6, SettleSafe

(***************************************************************************)
(* The specification.                                                      *)
(***************************************************************************)
(* sched_setup leaves empty queues and one thread that runs. *)
LEMMA InitSafe ==
  ASSUME Init
  PROVE  Safe
<1>1. Inv /\ Sys \in SysType /\ pend \in [CPU -> PendType]
  BY InitInv DEF Inv
<1>2. PICK p \in UserPris[Thread0] :
        /\ td = [t \in Thread |->
                  IF t = Thread0
                  THEN [Unborn(t) EXCEPT !.state = "running", !.pri = p, !.base = p,
                                         !.user = p]
                  ELSE Unborn(t)]
        /\ tdq = [c \in CPU |->
                   IF c = BalanceCpu THEN [EmptyTdq EXCEPT !.load = 1, !.lowpri = p]
                   ELSE EmptyTdq]
        /\ cur = [c \in CPU |-> IF c = BalanceCpu THEN Thread0 ELSE NoThread]
        /\ ipi = [c \in CPU |-> FALSE]
        /\ pend = [c \in CPU |-> NoPend]
  BY DEF Init
<1>3. p \in Pri /\ Thread0 \in Thread /\ BalanceCpu \in CPU /\ Thread0 # NoThread
  BY <1>2, UleAssumption, RunqAssumption
<1>4. Sys.tdq = tdq /\ Sys.td = td /\ Sys.cur = cur /\ Sys.ipi = ipi
  BY DEF Sys
<1>5. /\ td[Thread0].state = "running" /\ td[Thread0].cpu = BalanceCpu
      /\ td[Thread0].pri = p
      /\ \A t \in Thread \ {Thread0} : td[t].state = "inactive"
  BY <1>2, <1>3 DEF Unborn
<1>6. \A c \in CPU :
        /\ tdq[c].rq = EmptyTdq.rq /\ tdq[c].transferable = 0 /\ ~ tdq[c].ipipending
        /\ tdq[c].load = IF c = BalanceCpu THEN 1 ELSE 0
        /\ tdq[c].lowpri = IF c = BalanceCpu THEN p ELSE MaxPri
        /\ cur[c] = IF c = BalanceCpu THEN Thread0 ELSE NoThread
        /\ pend[c] = NoPend
  BY <1>2 DEF EmptyTdq
<1>7. \A t \in Thread : td[t].state # "runq"
  BY <1>5
<1>8. Listed(Sys)
  <2>1. ASSUME NEW c \in CPU, NEW r \in RunqName, NEW i \in Idx
        PROVE  IsInjective(List(Sys, c, r, i)) /\ Range(List(Sys, c, r, i)) = Filed(Sys, c, r, i)
    <3>1. List(Sys, c, r, i) = <<>>
      BY <1>4, <1>6 DEF List, EmptyTdq, EmptyRunq
    <3>2. Filed(Sys, c, r, i) = {}
      BY <1>4, <1>7 DEF Filed
    <3>3. DOMAIN <<>> = {}
      OBVIOUS
    <3> QED
      BY <3>1, <3>2, <3>3 DEF IsInjective, Range
  <2> QED
    BY <1>4, <1>7, <2>1 DEF Listed
<1>9. \A c \in CPU : On(Sys, c) = {} /\ Free(Sys, c) = {}
  BY <1>4, <1>7 DEF On, Free
<1>10. Cardinality({}) = 0
  BY FS_EmptySet
<1>11. Kept(Sys)
  <2>1. Backed(Sys)
    BY <1>4, <1>6 DEF Backed
  <2>2. High(Sys)
    BY <1>4, <1>7 DEF High
  <2>3. Transferable(Sys)
    BY <1>4, <1>6, <1>7, <1>9, <1>10 DEF Transferable
  <2>4. Ordered(Sys)
    <3>1. \A c \in CPU, r \in RunqName, i \in Idx : List(Sys, c, r, i) = <<>>
      BY <1>4, <1>6 DEF List, EmptyTdq, EmptyRunq
    <3>2. DOMAIN <<>> = {}
      OBVIOUS
    <3> QED
      BY <3>1, <3>2 DEF Ordered, InOrder
  <2> QED
    BY <1>1, <1>8, <2>1, <2>2, <2>3, <2>4 DEF Kept
<1>12. NoPend.step = "run" /\ NoPend.thread = NoThread
  BY DEF NoPend
<1>13. ASSUME NEW c \in CPU
       PROVE  Settled(Sys, pend, c)
  <2>1. Stands(Sys, pend, c)
    BY <1>4, <1>5, <1>6, <1>12 DEF Stands
  <2>2. CurPri(Sys, c) = IF c = BalanceCpu THEN p ELSE MaxPri
    BY <1>3, <1>4, <1>5, <1>6 DEF CurPri
  <2>3. LowAt(Sys, c)
    <3>1. p <= p /\ MaxPri <= MaxPri
      BY <1>3, TdqAssumption DEF Pri
    <3> QED
      BY <1>4, <1>6, <2>2, <3>1 DEF LowAt
  <2>4. Extra(Sys, c) = IF c = BalanceCpu THEN 1 ELSE 0
    <3>1. Extra(Sys, c) = tdq[c].load - 0
      BY <1>4, <1>9, <1>10 DEF Extra
    <3>2. tdq[c].load = IF c = BalanceCpu THEN 1 ELSE 0
      BY <1>6
    <3> QED
      BY <3>1, <3>2

  <2>5. Counts(Sys, pend, c) = IF c = BalanceCpu THEN 1 ELSE 0
    BY <1>3, <1>4, <1>6, <1>12 DEF Counts
  <2> QED
    BY <2>1, <2>3, <2>4, <2>5 DEF Settled
<1>14. Apart(Sys, pend, CPU)
  BY <1>4, <1>6, <1>12 DEF Apart
<1>15. Known(Sys, CPU)
  <2>1. \A t \in Thread : td[t].state = "running" => t = Thread0
    BY <1>5
  <2>2. cur[BalanceCpu] = Thread0
    BY <1>3, <1>6
  <2> QED
    BY <1>3, <1>4, <2>1, <2>2 DEF Known
<1> QED
  BY <1>1, <1>11, <1>13, <1>14, <1>15 DEF Safe, Sound

(* Every step of every CPU leaves a sound state. *)
LEMMA NextSafe ==
  ASSUME Safe, [Next]_vars
  PROVE  Safe'
<1>1. ASSUME NEW c \in CPU, Switch(c)
      PROVE  Safe'
  BY <1>1, YieldSafe, AstSafe, SleepSafe, ExitSafe DEF Switch
<1>2. ASSUME NEW c \in CPU, Finish(c)
      PROVE  Safe'
  BY <1>2, MigrateDoneSafe, SetcpuDoneSafe, TryStealDoneSafe DEF Finish
<1>3. ASSUME NEW c \in CPU, Interrupt(c)
      PROVE  Safe'
  BY <1>3, PreemptIpiSafe, ClockSafe, WakeupSafe DEF Interrupt
<1>4. ASSUME NEW c \in CPU, Idle(c)
      PROVE  Safe'
  BY <1>4, YieldSafe, IdleStealSafe DEF Idle
<1>5. ASSUME NEW c \in CPU, Reprioritise(c)
      PROVE  Safe'
  BY <1>5, UserRetSafe, UnlendSafe, LendSafe, NiceSafe DEF Reprioritise
<1>6. ASSUME NEW c \in CPU, Reassign(c)
      PROVE  Safe'
  BY <1>6, PinSafe, BindSafe, AffinitySafe, UleAssumption DEF Reassign
<1>7. ASSUME NEW c \in CPU, NEW t \in Forks, Fork(c, t)
      PROVE  Safe'
  BY <1>7, ForkSafe, UleAssumption
<1>8. ASSUME NEW t \in Thread, ExitThread(t)
      PROVE  Safe'
  BY <1>8, ExitThreadSafe
<1>9. ASSUME NEW high \in CPU, NEW low \in CPU, Balance(high, low)
      PROVE  Safe'
  BY <1>9, BalanceSafe
<1>10. CASE UNCHANGED vars
  <2>1. Sys' = Sys /\ pend' = pend
    BY <1>10 DEF Sys, vars
  <2> QED
    BY <2>1 DEF Safe
<1> QED
  BY <1>1, <1>2, <1>3, <1>4, <1>5, <1>6, <1>7, <1>8, <1>9, <1>10 DEF Next

(* Every reachable state of the scheduler is sound. *)
THEOREM Safety == Spec => []Safe
<1>1. Init => Safe
  BY InitSafe
<1>2. Safe /\ [Next]_vars => Safe'
  BY NextSafe
<1> QED
  BY <1>1, <1>2, PTL DEF Spec

(* While no thread is niced, the lists kern_switch_pq.c sorts stay sorted: *)
(* a thread enters before the first worse one, none changes its priority   *)
(* where it is, and theft and removal leave the order of the others.       *)
THEOREM ListsStaySorted == Spec => []SortedUnlessNiced
<1>1. Safe => SortedUnlessNiced
  <2> SUFFICES ASSUME Safe, Niced = {}, NEW c \in CPU, NEW r \in RunqName,
                      NEW i \in Idx, SortedList(i),
                      NEW j \in DOMAIN Queue(c, r, i), NEW k \in DOMAIN Queue(c, r, i),
                      j < k
               PROVE  td[Queue(c, r, i)[j]].pri <= td[Queue(c, r, i)[k]].pri
    BY DEF SortedUnlessNiced, ListsSorted
  <2>1. Ordered(Sys) /\ Listed(Sys) /\ Sys.td = td /\ Sys.tdq = tdq
    BY DEF Safe, Sound, Kept, Sys
  <2>2. List(Sys, c, r, i) = Queue(c, r, i)
    BY <2>1 DEF List, Queue
  <2>3. Prio(Sys)[Queue(c, r, i)[j]] <= Prio(Sys)[Queue(c, r, i)[k]]
    BY <2>1, <2>2 DEF Ordered, InOrder
  <2>4. Queue(c, r, i)[j] \in Thread /\ Queue(c, r, i)[k] \in Thread
    BY <2>1, <2>2 DEF Listed, Filed, Range
  <2> QED
    BY <2>1, <2>3, <2>4 DEF Prio
<1> QED
  BY <1>1, Safety, PTL

(* No function of the scheduler loses a queued thread or puts one on two   *)
(* lists, whichever CPU runs it: a list holds each thread once, the        *)
(* threads whose record names it, and those only.                          *)
THEOREM ThreadsQueuedOnce == Spec => []QueuedOnce
<1>1. ASSUME Safe
      PROVE  QueuedOnce
  <2>1. Listed(Sys) /\ Sys.td = td /\ Sys \in SysType
    BY <1>1, SafeSys, SafeInv DEF Kept
  <2>2. \A c \in CPU, r \in RunqName, i \in Idx :
          /\ Queue(c, r, i) = List(Sys, c, r, i)
          /\ IsInjective(Queue(c, r, i)) /\ Range(Queue(c, r, i)) = Filed(Sys, c, r, i)
    BY <2>1 DEF Queue, List, Listed, Sys
  <2>3. ASSUME NEW c \in CPU, NEW r \in RunqName, NEW i \in Idx,
               NEW k \in DOMAIN Queue(c, r, i)
        PROVE  LET t == td[Queue(c, r, i)[k]] IN
               t.state = "runq" /\ t.cpu = c /\ t.runq = r /\ t.rqindex = i
    <3>1. Queue(c, r, i)[k] \in Filed(Sys, c, r, i)
      BY <2>2 DEF Range
    <3> QED
      BY <2>1, <3>1 DEF Filed
  <2>4. ASSUME NEW t \in Thread, td[t].state = "runq"
        PROVE  \E k \in DOMAIN Queue(td[t].cpu, td[t].runq, td[t].rqindex) :
                 Queue(td[t].cpu, td[t].runq, td[t].rqindex)[k] = t
    <3>1. td[t].runq \in RunqName /\ td[t].cpu \in CPU /\ td[t].rqindex \in Idx
      BY <2>1, <2>4, SysParts, ThreadParts DEF Listed
    <3>2. t \in Filed(Sys, td[t].cpu, td[t].runq, td[t].rqindex)
      BY <2>1, <2>4 DEF Filed
    <3> QED
      BY <2>2, <3>1, <3>2 DEF Range
  <2> QED
    BY <2>2, <2>3, <2>4 DEF QueuedOnce
<1> QED
  BY <1>1, Safety, PTL

(* No thread runs on two CPUs at once, a CPU runs a thread that is its     *)
(* own, and no running thread is lost, through every switch, migration,    *)
(* theft and interrupt.                                                    *)
THEOREM ThreadsRunOnce == Spec => []RunsOnce
<1>1. ASSUME Safe
      PROVE  RunsOnce
  <2>1. Apart(Sys, pend, CPU) /\ Known(Sys, CPU) /\ Sys.td = td /\ Sys.cur = cur
    BY <1>1, SafeSys DEF Sound
  <2>2. \A c \in CPU : Busy(c) => td[cur[c]].state = "running" /\ td[cur[c]].cpu = c
    BY <1>1, BusySafe
  <2> QED
    BY <2>1, <2>2 DEF RunsOnce, Apart, Known
<1> QED
  BY <1>1, Safety, PTL

(* tdq_ipipending never stands without the interrupt it stands for, so the *)
(* CPU that tdq_notify spares an IPI is always about to take one.          *)
THEOREM MarksAreBacked == Spec => []IpiBacked
<1>1. ASSUME Safe
      PROVE  IpiBacked
  BY <1>1, SafeSys DEF Kept, Backed, IpiBacked
<1> QED
  BY <1>1, Safety, PTL

(* tdq_lowpri is never worse than the priority its CPU runs at.            *)
THEOREM LowpriIsBound == Spec => []LowpriBound
<1>1. ASSUME Safe
      PROVE  LowpriBound
  BY <1>1, SafeSys DEF Sound, Settled, LowAt, LowpriBound
<1> QED
  BY <1>1, Safety, PTL

(* tdq_runq_add files every thread high enough, and a change of priority   *)
(* or a move leaves none too low: the KASSERTs of tdq_choose.              *)
THEOREM FiledHighEnough == Spec => []QueuedHighEnough
<1>1. ASSUME Safe
      PROVE  QueuedHighEnough
  BY <1>1, SafeSys DEF Kept, High, HighEnough, QueuedHighEnough
<1> QED
  BY <1>1, Safety, PTL

(* tdq_load and tdq_transferable count exactly the threads they stand for, *)
(* also while a thread is on its way from one queue to another.            *)
THEOREM CountersAreExact == Spec => []CountersExact
<1>1. ASSUME Safe
      PROVE  CountersExact
  <2>1. /\ Sound(Sys, pend) /\ Transferable(Sys) /\ Sys \in SysType
        /\ Sys.tdq = tdq /\ Sys.td = td /\ Sys.cur = cur
    <3>1. /\ Sound(Sys, pend) /\ Kept(Sys) /\ Sys \in SysType
          /\ Sys.tdq = tdq /\ Sys.td = td /\ Sys.cur = cur
      BY <1>1, SafeSys, SafeInv
    <3> QED
      BY <3>1 DEF Kept
  <2> SUFFICES ASSUME NEW c \in CPU
               PROVE  /\ tdq[c].load = Cardinality(Queued(c)) + Counted(c)
                      /\ tdq[c].transferable
                           = Cardinality({t \in Queued(c) : ~ td[t].pinned})
    BY DEF CountersExact
  <2>2. /\ On(Sys, c) = Queued(c) /\ Free(Sys, c) = {t \in Queued(c) : ~ td[t].pinned}
        /\ Counts(Sys, pend, c) = Counted(c)
    BY <2>1 DEF On, Free, Queued, Counts, Counted
  <2>3. Extra(Sys, c) = Counted(c)
    BY <2>1, <2>2 DEF Sound, Settled
  <2>4. tdq[c].load \in Int /\ Cardinality(On(Sys, c)) \in Nat
    BY <2>1, SysParts, CountersGood, QueuedFinite
  <2>5. tdq[c].load = Cardinality(Queued(c)) + Counted(c)
    BY <2>1, <2>2, <2>3, <2>4 DEF Extra
  <2>6. tdq[c].transferable = Cardinality({t \in Queued(c) : ~ td[t].pinned})
    BY <2>1, <2>2 DEF Transferable
  <2> QED
    BY <2>5, <2>6
<1> QED
  BY <1>1, Safety, PTL

(***************************************************************************)
(* Where threads may be, and who is asked to give way to them.             *)
(***************************************************************************)
\* The CPU of a record's thread is one that it may use.
Fit(r) == r.pinned \/ r.cpu \in r.mask

SameHome(o, r) ==
  r.cpu = o.cpu /\ r.mask = o.mask /\ r.pinned = o.pinned /\ r.bound = o.bound

\* What MoveAllowed says of a thread's records before and after.
Moves(o, r) ==
  o.state # "inactive" /\ r.state # "inactive" /\ r.cpu # o.cpu
    => r.bound \/ (~ o.pinned /\ r.cpu \in r.mask)

\* A thread that waits, or is on its way to a queue, is where it may be.  A
\* thread that runs need not be: its mask may change under it.
Homed(s, p) ==
  /\ \A u \in Thread : /\ s.td[u].bound => s.td[u].pinned
                       /\ s.td[u].state = "runq" => Fit(s.td[u])
  /\ \A c \in CPU : p[c].step \in {"setcpu", "migrate"} => Fit(s.td[p[c].thread])

\* All threads stay on their CPUs, and only x may join a queue.
Stays(s, n, x) ==
  \A u \in Thread :
    /\ SameHome(s.td[u], n.td[u])
    /\ u # x => /\ n.td[u].state = "runq" => s.td[u].state = "runq"
                /\ s.td[u].state = "inactive" => n.td[u].state = "inactive"

\* So they do; no CPU switches, and nothing else changes that counts here.
Plain(s, n, x) ==
  /\ Stays(s, n, x) /\ n.cur = s.cur /\ n.ipi = s.ipi
  /\ \A u \in Thread : /\ n.td[u].pri = s.td[u].pri
                       /\ n.td[u].owepreempt = s.td[u].owepreempt

\* x should run before the current thread of c.
First(s, c, x) ==
  /\ s.cur[c] # NoThread /\ s.td[x].pri < s.td[s.cur[c]].pri
  /\ PreemptThresh # 0 /\ s.td[x].pri <= PreemptThresh

\* The CPU that x joins is asked to preempt its thread if x should run first.
Asks(s, n, x) ==
  \A c \in CPU :
    n.td[x].cpu = c /\ n.cur[c] = s.cur[c] /\ First(n, c, x)
      => n.ipi[c] \/ n.td[n.cur[c]].owepreempt

\* The state of a step after it moved threads, before they stay.
Start(m) ==
  /\ Homed(m, pend)
  /\ \A u \in Thread : /\ Moves(td[u], m.td[u])
                       /\ m.td[u].state = "runq" => td[u].state = "runq"

\* What a step must do, and must leave behind.
Obeys ==
  /\ \A t \in Thread : MoveAllowed(t)
  /\ \A c \in CPU : DispatchAllowed(c)
  /\ \A c \in CPU, t \in Thread : PreemptionOwed(c, t)
  /\ Homed(Sys, pend)'

(* One step of a function after another. *)
LEMMA StaysThen ==
  ASSUME NEW s, NEW m, NEW n, NEW x, Stays(s, m, x), Stays(m, n, x)
  PROVE  Stays(s, n, x)
BY DEF Stays, SameHome

(* If nobody may join a queue, x does not. *)
LEMMA StaysMore ==
  ASSUME NEW s, NEW n, NEW x, Stays(s, n, NoThread)
  PROVE  Stays(s, n, x)
<1>1. NoThread \notin Thread
  BY RunqAssumption
<1> QED
  BY <1>1 DEF Stays

(* A step that first moves threads (to m), then has them stay.             *)
LEMMA StepObeys ==
  ASSUME Safe, Safe', NEW m, NEW n, NEW x \in Thread \cup {NoThread},
         Becomes(n), Start(m), Stays(m, n, x),
         x # NoThread =>
           /\ m.td[x].state # "inactive" /\ Fit(m.td[x])
           /\ \/ td[x].state = "runq"
              \/ \E c \in CPU : x = cur[c] /\ m.td[x].cpu = c
              \/ Asks(Sys, n, x),
         \A c \in CPU : \/ n.cur[c] = cur[c] \/ n.cur[c] = NoThread
                        \/ /\ n.cur[c] \in Thread /\ n.td[n.cur[c]].cpu = c
                           /\ Fit(n.td[n.cur[c]]),
         \A c \in CPU : \/ pend'[c] = pend[c]
                        \/ pend'[c].step \notin {"setcpu", "migrate"}
                        \/ Fit(n.td[pend'[c].thread])
  PROVE  Obeys
<1>1. tdq' = n.tdq /\ td' = n.td /\ cur' = n.cur /\ ipi' = n.ipi
  BY DEF Becomes
<1>2. /\ Sys'.td = td' /\ Sys'.cur = cur' /\ Sound(Sys', pend')
      /\ Sys.td = td /\ Sys.cur = cur
  BY DEF Sys, Safe
<1>3. NoThread \notin Thread
  BY RunqAssumption
<1>4. /\ \A u \in Thread : SameHome(m.td[u], td'[u])
      /\ Homed(m, pend)
      /\ \A u \in Thread : /\ Moves(td[u], m.td[u])
                           /\ m.td[u].state = "runq" => td[u].state = "runq"
  BY <1>1 DEF Stays, Start
<1>5. ASSUME NEW t \in Thread
      PROVE  MoveAllowed(t)
  <2> SUFFICES ASSUME td[t].state # "inactive", td'[t].state # "inactive",
                      td'[t].cpu # td[t].cpu
               PROVE  td'[t].bound \/ (~ td[t].pinned /\ td'[t].cpu \in td'[t].mask)
    BY DEF MoveAllowed
  <2>1. m.td[t].state # "inactive"
    <3>1. CASE t = x
      BY <1>3, <3>1
    <3>2. CASE t # x
      BY <1>1, <3>2 DEF Stays
    <3> QED
      BY <3>1, <3>2
  <2> QED
    BY <1>4, <2>1 DEF Moves, SameHome
<1>6. ASSUME NEW c \in CPU
      PROVE  DispatchAllowed(c)
  BY <1>1 DEF DispatchAllowed, Fit
<1>7. ASSUME NEW c \in CPU, NEW t \in Thread
      PROVE  PreemptionOwed(c, t)
  <2> SUFFICES ASSUME td[t].state # "runq" \/ td[t].cpu = c,
                      t \in Queued(c)' \ Queued(c),
                      cur[c] # NoThread, cur'[c] = cur[c], OnCpu(c)',
                      td'[t].pri < td'[cur[c]].pri,
                      PreemptThresh # 0, td'[t].pri <= PreemptThresh
               PROVE  ipi'[c] \/ td'[cur[c]].owepreempt
    BY DEF PreemptionOwed
  <2>1. td'[t].state = "runq" /\ td'[t].cpu = c /\ td[t].state # "runq"
    BY DEF Queued
  <2>2. t = x /\ x # NoThread
    <3>1. m.td[t].state # "runq"
      BY <1>4, <2>1
    <3> QED
      BY <1>1, <1>3, <2>1, <3>1 DEF Stays
  <2>3. ~ \E d \in CPU : x = cur[d] /\ m.td[x].cpu = d
    <3> SUFFICES ASSUME NEW d \in CPU, x = cur[d], m.td[x].cpu = d
                 PROVE  FALSE
      OBVIOUS
    <3>1. d = c
      BY <1>4, <2>1, <2>2 DEF SameHome
    <3>2. pend'[c].step = "run" /\ Sys'.cur[c] = t /\ Sys'.cur[c] # NoThread
      BY <1>2, <2>2, <3>1 DEF OnCpu
    <3>3. Sys'.td[Sys'.cur[c]].state = "running"
      BY <1>2, <3>2, RunsHeld
    <3> QED
      BY <1>2, <2>1, <3>2, <3>3
  <2>4. Asks(Sys, n, x)
    BY <2>1, <2>2, <2>3
  <2> QED
    BY <1>1, <1>2, <2>1, <2>2, <2>4 DEF Asks, First
<1>8. Homed(Sys', pend')
  <2>1. ASSUME NEW u \in Thread
        PROVE  /\ Sys'.td[u].bound => Sys'.td[u].pinned
               /\ Sys'.td[u].state = "runq" => Fit(Sys'.td[u])
    <3>1. SameHome(m.td[u], Sys'.td[u])
      BY <1>2, <1>4
    <3>2. Sys'.td[u].bound => Sys'.td[u].pinned
      BY <1>4, <3>1 DEF Homed, SameHome
    <3>3. ASSUME Sys'.td[u].state = "runq"
          PROVE  Fit(m.td[u])
      <4>1. CASE u = x
        BY <1>3, <4>1
      <4>2. CASE u # x
        BY <1>1, <1>2, <1>4, <3>3, <4>2 DEF Stays, Homed
      <4> QED
        BY <4>1, <4>2
    <3> QED
      BY <3>1, <3>2, <3>3 DEF Fit, SameHome
  <2>2. ASSUME NEW c \in CPU, pend'[c].step \in {"setcpu", "migrate"}
        PROVE  Fit(Sys'.td[pend'[c].thread])
    <3>1. CASE pend'[c] = pend[c]
      <4>1. pend'[c].thread \in Thread
        BY <2>2, <3>1, SafeInv, PendSteps
      <4>2. Fit(m.td[pend'[c].thread])
        BY <1>4, <2>2, <3>1 DEF Homed
      <4> QED
        BY <1>2, <1>4, <4>1, <4>2 DEF Fit, SameHome
    <3>2. CASE Fit(n.td[pend'[c].thread])
      BY <1>1, <1>2, <3>2
    <3> QED
      BY <2>2, <3>1, <3>2
  <2> QED
    BY <2>1, <2>2 DEF Homed
<1> QED
  BY <1>5, <1>6, <1>7, <1>8 DEF Obeys, Homed

(* Threads that stay keep a state homed.                                    *)
LEMMA HomedStays ==
  ASSUME NEW s, NEW p \in [CPU -> PendType], Homed(s, p), NEW n,
         NEW x \in Thread \cup {NoThread}, Stays(s, n, x), x # NoThread => Fit(s.td[x])
  PROVE  Homed(n, p)
<1>1. NoThread \notin Thread
  BY RunqAssumption
<1>2. \A u \in Thread : SameHome(s.td[u], n.td[u])
  BY DEF Stays
<1>3. ASSUME NEW u \in Thread
      PROVE  /\ n.td[u].bound => n.td[u].pinned
             /\ n.td[u].state = "runq" => Fit(n.td[u])
  <2>1. n.td[u].bound => n.td[u].pinned
    BY <1>2 DEF Homed, SameHome
  <2>2. ASSUME n.td[u].state = "runq"
        PROVE  Fit(s.td[u])
    <3>1. CASE u = x
      BY <1>1, <3>1
    <3>2. CASE u # x
      BY <2>2, <3>2 DEF Stays, Homed
    <3> QED
      BY <3>1, <3>2
  <2> QED
    BY <1>2, <2>1, <2>2 DEF Fit, SameHome
<1>4. ASSUME NEW c \in CPU, p[c].step \in {"setcpu", "migrate"}
      PROVE  Fit(n.td[p[c].thread])
  <2>1. p[c].thread \in Thread
    BY <1>4, PendSteps
  <2> QED
    BY <1>2, <1>4, <2>1 DEF Homed, Fit, SameHome
<1> QED
  BY <1>3, <1>4 DEF Homed

(* The state a step starts in. *)
LEMMA StartSys ==
  ASSUME Safe, Homed(Sys, pend)
  PROVE  Start(Sys)
<1>1. Sys.td = td
  BY SafeSys
<1> QED
  BY <1>1 DEF Start, Moves

(* Functions that leave threads where they are.                            *)
LEMMA StartStays ==
  ASSUME Safe, NEW m, Start(m), NEW n, Stays(m, n, NoThread)
  PROVE  Start(n)
<1>1. Homed(n, pend)
  <2>1. Homed(m, pend) /\ pend \in [CPU -> PendType]
    BY SafeInv DEF Start
  <2> QED
    BY <2>1, HomedStays
<1>2. ASSUME NEW u \in Thread
      PROVE  /\ Moves(td[u], n.td[u])
             /\ n.td[u].state = "runq" => td[u].state = "runq"
  <2>1. u # NoThread
    BY RunqAssumption
  <2>2. /\ SameHome(m.td[u], n.td[u])
        /\ n.td[u].state = "runq" => m.td[u].state = "runq"
        /\ m.td[u].state = "inactive" => n.td[u].state = "inactive"
    BY <2>1 DEF Stays
  <2> QED
    BY <2>2 DEF Start, Moves, SameHome
<1> QED
  BY <1>1, <1>2 DEF Start

(* One that changes the record of t.                                       *)
LEMMA StartTd ==
  ASSUME NEW m \in SysType, Start(m), NEW t \in Thread, NEW r, Moves(td[t], r),
         r.bound => r.pinned,
         r.state = "runq" => Fit(r) /\ td[t].state = "runq",
         Fit(r) \/ \A c \in CPU : pend[c].thread # t
  PROVE  LET n == SetTd(m, t, r) IN
         /\ Start(n) /\ n.tdq = m.tdq /\ n.cur = m.cur /\ n.ipi = m.ipi
         /\ \A u \in Thread : n.td[u] = IF u = t THEN r ELSE m.td[u]
<1> DEFINE n == SetTd(m, t, r)
<1>1. /\ n.tdq = m.tdq /\ n.cur = m.cur /\ n.ipi = m.ipi
      /\ \A u \in Thread : n.td[u] = IF u = t THEN r ELSE m.td[u]
  BY DEF SetTd, SysType
<1>2. n.td = [m.td EXCEPT ![t] = r] /\ DOMAIN m.td = Thread
  BY DEF SetTd, SysType
<1> HIDE DEF n
<1>3. ASSUME NEW c \in CPU, pend[c].step \in {"setcpu", "migrate"}
      PROVE  Fit(n.td[pend[c].thread])
  <2>1. Fit(m.td[pend[c].thread])
    BY <1>3 DEF Start, Homed
  <2>2. CASE pend[c].thread = t
    BY <1>1, <2>2
  <2>3. CASE pend[c].thread # t
    <3>1. n.td[pend[c].thread] = m.td[pend[c].thread]
      BY <1>2, <2>3
    <3> QED
      BY <2>1, <3>1
  <2> QED
    BY <2>2, <2>3
<1>4. Start(n)
  BY <1>1, <1>3 DEF Start, Homed
<1> QED
  BY <1>1, <1>4 DEF n

(***************************************************************************)
(* The functions of the scheduler                                          *)
(***************************************************************************)
(* One plain step after another. *)
LEMMA PlainThen ==
  ASSUME NEW s, NEW m, NEW n, NEW x, Plain(s, m, x), Plain(m, n, x)
  PROVE  Plain(s, n, x)
<1>1. Stays(s, n, x)
  BY StaysThen DEF Plain
<1> QED
  BY <1>1 DEF Plain

(* A change of a thread queue is plain. *)
LEMMA SetTdqPlain ==
  ASSUME NEW s \in SysType, NEW c, NEW q, NEW x
  PROVE  LET n == SetTdq(s, c, q) IN Plain(s, n, x) /\ n.td = s.td
BY DEF SetTdq, SysType, Plain, Stays, SameHome

(* tdq_load_add and tdq_load_rem *)
LEMMA LoadAddPlain ==
  ASSUME NEW s \in SysType, NEW c, NEW k, NEW x
  PROVE  LET n == LoadAdd(s, c, k) IN Plain(s, n, x) /\ n.td = s.td
BY SetTdqPlain DEF LoadAdd

(* tdq_runq_add: t may join a queue. *)
LEMMA RunqAddPlain ==
  ASSUME NEW s \in SysType, NEW c \in CPU, NEW t \in Thread, NEW flags
  PROVE  Plain(s, RunqAdd(s, c, t, flags), t)
<1> DEFINE q == Enqueue(s.tdq[c], t, flags, Prio(s), ~ s.td[t].pinned)
           i == SlotOf(s.tdq[c], s.td[t].pri, flags)
           y == RunqOf(s.td[t].pri)
           v == ~ s.td[t].pinned
           r == [s.td[t] EXCEPT !.state = "runq", !.runq = y, !.rqindex = i, !.xferable = v]
           m == SetTdq(s, c, q)
           n == SetTd(m, t, r)
<1>1. RunqAdd(s, c, t, flags) = n
  BY DEF RunqAdd, SetBoth
<1>2. s.td[t] \in ThreadType
  BY SysParts
<1> HIDE DEF q, i, y, v
<1>3. SameHome(s.td[t], r) /\ r.pri = s.td[t].pri /\ r.owepreempt = s.td[t].owepreempt
  BY <1>2 DEF ThreadType, SameHome
<1>4. /\ n.cur = s.cur /\ n.ipi = s.ipi
      /\ \A u \in Thread : n.td[u] = IF u = t THEN r ELSE s.td[u]
  BY DEF SetTd, SetTdq, SysType
<1> HIDE DEF r, m, n
<1>5. Stays(s, n, t)
  BY <1>3, <1>4 DEF Stays, SameHome
<1> QED
  BY <1>1, <1>3, <1>4, <1>5 DEF Plain

(* tdq_runq_rem *)
LEMMA RunqRemPlain ==
  ASSUME NEW s \in SysType, NEW c \in CPU, NEW t \in Thread, NEW state, state # "runq",
         s.td[t].state # "inactive", NEW x
  PROVE  Plain(s, RunqRem(s, c, t, state), x)
<1> DEFINE q == Dequeue(s.tdq[c], t, s.td[t].runq, s.td[t].rqindex, s.td[t].xferable)
           r == [s.td[t] EXCEPT !.state = state, !.runq = "none", !.rqindex = 0,
                                !.xferable = FALSE]
           m == SetTdq(s, c, q)
           n == SetTd(m, t, r)
<1>1. RunqRem(s, c, t, state) = n
  BY DEF RunqRem, SetBoth
<1>2. s.td[t] \in ThreadType
  BY SysParts
<1> HIDE DEF q
<1>3. /\ SameHome(s.td[t], r) /\ r.pri = s.td[t].pri /\ r.owepreempt = s.td[t].owepreempt
      /\ r.state = state
  BY <1>2 DEF ThreadType, SameHome
<1>4. /\ n.cur = s.cur /\ n.ipi = s.ipi
      /\ \A u \in Thread : n.td[u] = IF u = t THEN r ELSE s.td[u]
  BY DEF SetTd, SetTdq, SysType
<1> HIDE DEF r, m, n
<1>5. Stays(s, n, x)
  BY <1>3, <1>4 DEF Stays, SameHome
<1> QED
  BY <1>1, <1>3, <1>4, <1>5 DEF Plain

(* tdq_add *)
LEMMA TdqAddPlain ==
  ASSUME NEW s \in SysType, NEW c \in CPU, NEW t \in Thread, NEW flags
  PROVE  Plain(s, TdqAdd(s, c, t, flags), t)
<1> DEFINE m == LowerLowpri(s, c, s.td[t].pri)
           o == RunqAdd(m, c, t, flags)
           n == LoadAdd(o, c, 1)
<1>1. s.td[t].pri \in Pri
  BY SysParts, ThreadParts
<1>2. m \in SysType /\ Plain(s, m, t)
  BY <1>1, LowerLowpriType, SetTdqPlain DEF LowerLowpri
<1> HIDE DEF m
<1>3. o \in SysType /\ Plain(m, o, t)
  BY <1>2, RunqAddType, RunqAddPlain
<1> HIDE DEF o
<1>4. Plain(o, n, t)
  BY <1>3, LoadAddPlain
<1> HIDE DEF n
<1>5. Plain(s, n, t)
  BY <1>2, <1>3, <1>4, PlainThen
<1> QED
  BY <1>5 DEF TdqAdd, n, o, m

(* sched_rem *)
LEMMA SchedRemPlain ==
  ASSUME NEW s \in SysType, NEW t \in Thread, s.td[t].state # "inactive", NEW x
  PROVE  Plain(s, SchedRem(s, t), x)
<1> DEFINE c == s.td[t].cpu
           m == RunqRem(s, c, t, "canrun")
           o == LoadAdd(m, c, -1)
           q == SetLowpri(o.tdq[c], CurPri(o, c), Prio(o))
<1>1. c \in CPU
  BY SysParts, ThreadParts
<1>2. m \in SysType /\ Plain(s, m, x)
  BY <1>1, RunqRemType, RunqRemPlain
<1> HIDE DEF m, c
<1>3. o \in SysType /\ Plain(m, o, x)
  BY <1>1, <1>2, LoadAddType, LoadAddPlain
<1> HIDE DEF o, q
<1>4. Plain(o, SetTdq(o, c, q), x)
  BY <1>3, SetTdqPlain
<1>5. Plain(s, o, x) /\ Plain(s, SetTdq(o, c, q), x)
  BY <1>2, <1>3, <1>4, PlainThen
<1>6. SchedRem(s, t) = o \/ SchedRem(s, t) = SetTdq(o, c, q)
  BY DEF SchedRem, o, q, m, c
<1> QED
  BY <1>5, <1>6

(* A thread that should run first preempts. *)
LEMMA FirstPreempts ==
  ASSUME NEW s, NEW c, NEW x, First(s, c, x), NEW remote
  PROVE  ShouldPreempt(s.td[x].pri, CurPri(s, c), remote)
BY DEF First, ShouldPreempt, CurPri

(* tdq_notify: an interrupt is on its way, or was. *)
LEMMA NotifyAsks ==
  ASSUME NEW s, Kept(s), NEW c \in CPU, NEW t \in Thread, NEW wired, NEW x
  PROVE  LET n == Notify(s, c, t, wired) IN
         /\ Stays(s, n, x) /\ n.cur = s.cur /\ n.td = s.td
         /\ First(s, c, t) => n.ipi[c]
<1> DEFINE q == [s.tdq[c] EXCEPT !.ipipending = TRUE]
           m == SetTdq(s, c, q)
           o == [m EXCEPT !.ipi[c] = TRUE]
           n == Notify(s, c, t, wired)
<1>1. s \in SysType /\ (s.tdq[c].ipipending => s.ipi[c])
  BY DEF Kept, Backed
<1>2. /\ m.cur = s.cur /\ m.td = s.td /\ m.ipi = s.ipi
      /\ o.cur = s.cur /\ o.td = s.td /\ o.ipi[c]
  BY <1>1 DEF SetTdq, SysType
<1> HIDE DEF q, m, o
<1>3. /\ n = s \/ n = o
      /\ n = s => \/ s.tdq[c].ipipending
                  \/ ~ ShouldPreempt(s.td[t].pri, CurPri(s, c), TRUE)
                  \/ s.cur[c] = NoThread
                  \/ s = o
  BY DEF Notify, q, m, o
<1> HIDE DEF n
<1>4. n.td = s.td /\ n.cur = s.cur
  BY <1>2, <1>3
<1>5. ASSUME First(s, c, t)
      PROVE  n.ipi[c]
  <2>1. ShouldPreempt(s.td[t].pri, CurPri(s, c), TRUE) /\ s.cur[c] # NoThread
    BY <1>5, FirstPreempts DEF First
  <2> QED
    BY <1>1, <1>2, <1>3, <2>1
<1>6. Stays(s, n, x)
  BY <1>4 DEF Stays, SameHome
<1> QED
  BY <1>4, <1>5, <1>6 DEF n

(* sched_setpreempt: the current thread owes a preemption. *)
LEMMA SetPreemptAsks ==
  ASSUME NEW s \in SysType, NEW c \in CPU, NEW t \in Thread, NEW x
  PROVE  LET n == SetPreempt(s, c, t) IN
         /\ Stays(s, n, x) /\ n.cur = s.cur
         /\ \A u \in Thread : n.td[u].pri = s.td[u].pri
         /\ First(s, c, t) => n.td[n.cur[c]].owepreempt
<1> DEFINE n == SetPreempt(s, c, t)
           y == s.cur[c]
           owe == ShouldPreempt(s.td[t].pri, CurPri(s, c), FALSE)
           r == [s.td[y] EXCEPT !.needresched = TRUE, !.owepreempt = @ \/ owe]
<1>1. CASE y = NoThread \/ s.td[t].pri >= CurPri(s, c)
  <2>1. n = s
    BY <1>1 DEF SetPreempt
  <2>2. ~ First(s, c, t)
    BY <1>1, SysParts, ThreadParts DEF First, CurPri, Pri
  <2> QED
    BY <2>1, <2>2 DEF Stays, SameHome
<1>2. CASE ~ (y = NoThread \/ s.td[t].pri >= CurPri(s, c))
  <2>1. n = SetTd(s, y, r)
    BY <1>2 DEF SetPreempt
  <2>2. y \in Thread /\ s.td[y] \in ThreadType
    BY <1>2, SysParts
  <2>3. /\ SameHome(s.td[y], r) /\ r.pri = s.td[y].pri /\ r.state = s.td[y].state
        /\ owe => r.owepreempt
    BY <2>2 DEF ThreadType, SameHome
  <2> HIDE DEF r, owe
  <2>4. n.cur = s.cur /\ \A u \in Thread : n.td[u] = IF u = y THEN r ELSE s.td[u]
    BY <2>1 DEF SetTd, SysType
  <2> HIDE DEF n
  <2>5. Stays(s, n, x) /\ \A u \in Thread : n.td[u].pri = s.td[u].pri
    BY <2>3, <2>4 DEF Stays, SameHome
  <2>6. ASSUME First(s, c, t)
        PROVE  n.td[n.cur[c]].owepreempt
    <3>1. owe
      BY <2>6, FirstPreempts DEF owe
    <3> QED
      BY <2>2, <2>3, <2>4, <3>1
  <2> QED
    BY <2>4, <2>5, <2>6 DEF n
<1> QED
  BY <1>1, <1>2

(* The second half of sched_add. *)
LEMMA AddToAsks ==
  ASSUME NEW s, Kept(s), NEW c \in CPU, NEW d \in CPU, NEW t \in Thread, NEW flags,
         NEW wired, s.td[t].state # "runq", s.td[t].cpu = d, NEW o, o.cur = s.cur
  PROVE  LET n == AddTo(s, c, d, t, flags, wired) IN
         Stays(s, n, t) /\ n.cur = s.cur /\ Asks(o, n, t)
<1> DEFINE m == TdqAdd(s, d, t, flags)
           n == AddTo(s, c, d, t, flags, wired)
<1>1. s \in SysType /\ s.td[t].cpu = d
  BY DEF Kept
<1>2. Plain(s, m, t) /\ Kept(m)
  BY <1>1, TdqAddPlain, TdqAddPlaces DEF Places
<1>3. n = IF d = c THEN SetPreempt(m, c, t) ELSE Notify(m, d, t, wired)
  BY DEF AddTo
<1> HIDE DEF m, n
<1>4. Stays(s, m, t) /\ m.cur = s.cur /\ m \in SysType
  BY <1>2 DEF Plain, Kept
<1>5. /\ Stays(m, n, t) /\ n.cur = m.cur
      /\ \A u \in Thread : n.td[u].pri = m.td[u].pri
      /\ First(m, d, t) => n.ipi[d] \/ n.td[n.cur[d]].owepreempt
  <2>1. CASE d = c
    BY <1>3, <1>4, <2>1, SetPreemptAsks
  <2>2. CASE d # c
    BY <1>2, <1>3, <2>2, NotifyAsks
  <2> QED
    BY <2>1, <2>2
<1>6. Stays(s, n, t)
  BY <1>4, <1>5, StaysThen
<1>7. Asks(o, n, t)
  <2> SUFFICES ASSUME NEW e \in CPU, n.td[t].cpu = e, First(n, e, t)
               PROVE  n.ipi[e] \/ n.td[n.cur[e]].owepreempt
    BY DEF Asks
  <2>1. e = d
    BY <1>1, <1>6 DEF Stays, SameHome
  <2>2. n.cur[e] \in Thread
    BY <1>4, <1>5, SysParts DEF First
  <2>3. First(m, d, t)
    BY <1>5, <2>1, <2>2 DEF First
  <2> QED
    BY <1>5, <2>1, <2>3
<1> QED
  BY <1>4, <1>5, <1>6, <1>7 DEF n

(* choosethread: c takes a thread of its queue, or none. *)
LEMMA ChooseStays ==
  ASSUME NEW s, Kept(s), NEW c \in CPU
  PROVE  LET n == Choose(s, c) IN
         /\ Stays(s, n, NoThread) /\ n.ipi = s.ipi
         /\ \A u \in Thread : /\ n.td[u].pri = s.td[u].pri
                              /\ n.td[u].owepreempt = s.td[u].owepreempt
         /\ \A d \in CPU \ {c} : n.cur[d] = s.cur[d]
         /\ \/ n.cur[c] = NoThread
            \/ /\ n.cur[c] \in Thread /\ s.td[n.cur[c]].state = "runq"
               /\ s.td[n.cur[c]].cpu = c
<1> DEFINE t == TdqChoose(s.tdq[c])
           low == IF t = NoThread THEN MaxPri ELSE s.td[t].pri
           on == [s EXCEPT !.cur[c] = t, !.tdq[c].lowpri = low]
           n == Choose(s, c)
<1>1. /\ t \in Thread \cup {NoThread} /\ n.cur[c] = t
      /\ \A d \in CPU \ {c} : n.cur[d] = s.cur[d]
      /\ t # NoThread => s.td[t].state = "runq" /\ s.td[t].cpu = c
  BY ChooseKept
<1>2. n = IF t = NoThread THEN on ELSE RunqRem(on, c, t, "running")
  BY DEF Choose
<1>3. s \in SysType
  BY DEF Kept
<1> HIDE DEF t, n, low
<1>4. on.td = s.td /\ on.ipi = s.ipi
  BY <1>3 DEF SysType
<1> DEFINE q == Dequeue(on.tdq[c], t, on.td[t].runq, on.td[t].rqindex, on.td[t].xferable)
           r == [s.td[t] EXCEPT !.state = "running", !.runq = "none", !.rqindex = 0,
                                !.xferable = FALSE]
<1>5. CASE t = NoThread
  BY <1>1, <1>2, <1>4, <1>5 DEF Stays, SameHome, n
<1>6. CASE t # NoThread
  <2>1. t \in Thread /\ s.td[t] \in ThreadType
    BY <1>1, <1>3, <1>6, SysParts
  <2>2. n = SetTd(SetTdq(on, c, q), t, r)
    BY <1>2, <1>4, <1>6 DEF RunqRem, SetBoth
  <2>3. /\ SameHome(s.td[t], r) /\ r.pri = s.td[t].pri /\ r.owepreempt = s.td[t].owepreempt
        /\ r.state = "running"
    BY <2>1 DEF ThreadType, SameHome
  <2> HIDE DEF r, q, on
  <2>4. n.ipi = on.ipi /\ n.td = [on.td EXCEPT ![t] = r]
    BY <2>2 DEF SetTd, SetTdq
  <2>5. n.ipi = s.ipi /\ \A u \in Thread : n.td[u] = IF u = t THEN r ELSE s.td[u]
    BY <1>3, <1>4, <2>4 DEF SysType
  <2>6. Stays(s, n, NoThread)
    BY <1>1, <1>6, <2>3, <2>5 DEF Stays, SameHome
  <2> QED
    BY <1>1, <1>6, <2>3, <2>5, <2>6 DEF n
<1> QED
  BY <1>5, <1>6

(* tdq_move: t goes to another CPU. *)
LEMMA MoveStays ==
  ASSUME NEW s, Kept(s), NEW t \in Thread, s.td[t].state = "runq", NEW c \in CPU
  PROVE  LET o == SchedRem(s, t)
             m == SetTd(o, t, [o.td[t] EXCEPT !.cpu = c])
         IN /\ Stays(m, Move(s, t, c), t) /\ Stays(s, o, NoThread) /\ o \in SysType
            /\ o.cur = s.cur
<1> DEFINE o == SchedRem(s, t)
           r == [o.td[t] EXCEPT !.cpu = c]
           m == SetTd(o, t, r)
<1>1. s \in SysType
  BY DEF Kept
<1>2. o \in SysType /\ Plain(s, o, NoThread)
  BY <1>1, SchedRemType, SchedRemPlain
<1>3. Move(s, t, c) = TdqAdd(m, c, t, {})
  BY DEF Move
<1> HIDE DEF o
<1>4. o.td[t] \in ThreadType
  BY <1>2, SysParts
<1>5. r \in ThreadType
  BY <1>4, FlagsType
<1> HIDE DEF r
<1>6. m \in SysType
  BY <1>2, <1>5, SetTdType
<1> HIDE DEF m
<1>7. Plain(m, TdqAdd(m, c, t, {}), t)
  BY <1>6, TdqAddPlain
<1> QED
  BY <1>2, <1>3, <1>7 DEF Plain, m, r, o

(* A change of the record of t that leaves it where it is. *)
LEMMA SetTdStays ==
  ASSUME NEW s \in SysType, NEW t \in Thread, NEW r, SameHome(s.td[t], r), NEW x,
         r.state = "runq" => s.td[t].state = "runq",
         s.td[t].state = "inactive" => r.state = "inactive"
  PROVE  LET n == SetTd(s, t, r) IN
         /\ Stays(s, n, x) /\ n.cur = s.cur /\ n.tdq = s.tdq /\ n.ipi = s.ipi
         /\ \A u \in Thread : n.td[u] = IF u = t THEN r ELSE s.td[u]
<1> DEFINE n == SetTd(s, t, r)
<1>1. /\ n.cur = s.cur /\ n.tdq = s.tdq /\ n.ipi = s.ipi
      /\ \A u \in Thread : n.td[u] = IF u = t THEN r ELSE s.td[u]
  BY DEF SetTd, SysType
<1> HIDE DEF n
<1>2. Stays(s, n, x)
  BY <1>1 DEF Stays, SameHome
<1> QED
  BY <1>1, <1>2 DEF n

(* The running case of sched_thread_priority. *)
LEMMA RunningPriorityStays ==
  ASSUME NEW s \in SysType, NEW t \in Thread, NEW p \in Pri, NEW x
  PROVE  LET n == RunningPriority(s, t, p) IN
         Stays(s, n, x) /\ n.cur = s.cur /\ n.ipi = s.ipi
<1> DEFINE r == [s.td[t] EXCEPT !.pri = p]
           o == SetTd(s, t, r)
           c == s.td[t].cpu
           n == RunningPriority(s, t, p)
<1>1. s.td[t] \in ThreadType
  BY SysParts
<1>2. /\ r \in ThreadType /\ SameHome(s.td[t], r) /\ r.state = s.td[t].state
  BY <1>1 DEF ThreadType, SameHome
<1>3. n = o \/ \E q : n = SetTdq(o, c, q)
  BY DEF RunningPriority
<1> HIDE DEF r, n, c
<1>4. o \in SysType /\ Stays(s, o, x) /\ o.cur = s.cur /\ o.ipi = s.ipi
  BY <1>2, SetTdType, SetTdStays
<1> HIDE DEF o
<1>5. CASE n = o
  BY <1>4, <1>5 DEF n
<1>6. CASE \E q : n = SetTdq(o, c, q)
  <2>1. PICK q : n = SetTdq(o, c, q)
    BY <1>6
  <2>2. Plain(o, n, x)
    BY <1>4, <2>1, SetTdqPlain
  <2>3. Stays(s, n, x)
    BY <1>4, <2>2, StaysThen DEF Plain
  <2> QED
    BY <1>4, <2>2, <2>3 DEF Plain, n
<1> QED
  BY <1>3, <1>5, <1>6

(* c is done with its thread and chooses another. *)
LEMMA ChooseObeys ==
  ASSUME Safe, Safe', NEW m, Start(m), NEW o, Kept(o), NEW x \in Thread \cup {NoThread},
         Stays(m, o, x),
         x # NoThread => m.td[x].state # "inactive" /\ Fit(m.td[x]),
         NEW c \in CPU, \A d \in CPU \ {c} : o.cur[d] = cur[d],
         x # NoThread => \/ td[x].state = "runq"
                         \/ x = cur[c] /\ m.td[x].cpu = c
                         \/ Asks(Sys, Choose(o, c), x),
         Becomes(Choose(o, c)),
         \A d \in CPU : \/ pend'[d] = pend[d]
                        \/ pend'[d].step \notin {"setcpu", "migrate"}
  PROVE  Obeys
<1> DEFINE n == Choose(o, c)
<1>1. /\ Stays(o, n, NoThread)
      /\ \A d \in CPU \ {c} : n.cur[d] = o.cur[d]
      /\ \/ n.cur[c] = NoThread
         \/ n.cur[c] \in Thread /\ o.td[n.cur[c]].state = "runq" /\ o.td[n.cur[c]].cpu = c
  BY ChooseStays
<1> HIDE DEF n
<1>2. Stays(m, n, x)
  BY <1>1, StaysMore, StaysThen
<1>3. Homed(o, pend)
  BY SafeInv, HomedStays DEF Start
<1>4. \A d \in CPU : \/ n.cur[d] = cur[d] \/ n.cur[d] = NoThread
                     \/ /\ n.cur[d] \in Thread /\ n.td[n.cur[d]].cpu = d
                        /\ Fit(n.td[n.cur[d]])
  <2> SUFFICES ASSUME n.cur[c] # NoThread
               PROVE  /\ n.cur[c] \in Thread /\ n.td[n.cur[c]].cpu = c
                      /\ Fit(n.td[n.cur[c]])
    BY <1>1
  <2>1. n.cur[c] \in Thread /\ o.td[n.cur[c]].state = "runq" /\ o.td[n.cur[c]].cpu = c
    BY <1>1
  <2>2. SameHome(o.td[n.cur[c]], n.td[n.cur[c]])
    BY <1>1, <2>1 DEF Stays
  <2> QED
    BY <1>3, <2>1, <2>2 DEF Homed, Fit, SameHome
<1>5. Becomes(n)
  BY DEF n
<1>6. x # NoThread =>
        /\ m.td[x].state # "inactive" /\ Fit(m.td[x])
        /\ \/ td[x].state = "runq"
           \/ \E d \in CPU : x = cur[d] /\ m.td[x].cpu = d
           \/ Asks(Sys, n, x)
  BY DEF n
<1>7. \A d \in CPU : \/ pend'[d] = pend[d]
                     \/ pend'[d].step \notin {"setcpu", "migrate"}
                     \/ Fit(n.td[pend'[d].thread])
  OBVIOUS
<1> QED
  BY <1>2, <1>4, <1>5, <1>6, <1>7, StepObeys

(* No CPU switches. *)
LEMMA StayObeys ==
  ASSUME Safe, Safe', NEW m, Start(m), NEW n, Stays(m, n, NoThread), n.cur = cur,
         Settle(n)
  PROVE  Obeys
<1>1. Becomes(n) /\ pend' = pend
  BY DEF Settle
<1>2. \A c \in CPU : \/ n.cur[c] = cur[c] \/ n.cur[c] = NoThread
                     \/ /\ n.cur[c] \in Thread /\ n.td[n.cur[c]].cpu = c
                        /\ Fit(n.td[n.cur[c]])
  OBVIOUS
<1>3. \A c \in CPU : \/ pend'[c] = pend[c]
                     \/ pend'[c].step \notin {"setcpu", "migrate"}
                     \/ Fit(n.td[pend'[c].thread])
  BY <1>1
<1> QED
  BY <1>1, <1>2, <1>3, StepObeys

(* t joins a queue, which may ask for a preemption. *)
LEMMA AddObeys ==
  ASSUME Safe, Safe', NEW m, Start(m), Kept(m), m.cur = cur, NEW t \in Thread,
         m.td[t].state \notin {"inactive", "runq"}, Fit(m.td[t]),
         NEW c \in CPU, NEW d \in CPU, m.td[t].cpu = d, NEW flags, NEW wired,
         Becomes(AddTo(m, c, d, t, flags, wired)),
         \A e \in CPU : \/ pend'[e] = pend[e]
                        \/ pend'[e].step \notin {"setcpu", "migrate"}
  PROVE  Obeys
<1> DEFINE n == AddTo(m, c, d, t, flags, wired)
<1>1. Sys.cur = cur
  BY SafeSys
<1>2. Stays(m, n, t) /\ n.cur = cur /\ Asks(Sys, n, t) /\ Becomes(n)
  BY <1>1, AddToAsks
<1> HIDE DEF n
<1>3. \A e \in CPU : \/ n.cur[e] = cur[e] \/ n.cur[e] = NoThread
                     \/ /\ n.cur[e] \in Thread /\ n.td[n.cur[e]].cpu = e
                        /\ Fit(n.td[n.cur[e]])
  BY <1>2
<1>4. t # NoThread =>
        /\ m.td[t].state # "inactive" /\ Fit(m.td[t])
        /\ \/ td[t].state = "runq"
           \/ \E e \in CPU : t = cur[e] /\ m.td[t].cpu = e
           \/ Asks(Sys, n, t)
  BY <1>2
<1>5. \A e \in CPU : \/ pend'[e] = pend[e]
                     \/ pend'[e].step \notin {"setcpu", "migrate"}
                     \/ Fit(n.td[pend'[e].thread])
  OBVIOUS
<1> QED
  BY <1>2, <1>3, <1>4, <1>5, StepObeys

(* sched_switch of a thread that still runs, or that binds itself. *)
LEMMA SwitchRunningObeys ==
  ASSUME Safe, Safe', NEW s, Start(s), s.cur = cur,
         NEW c \in CPU, Nearly(s, pend, c), pend[c].step = "run",
         \/ s.td[cur[c]].pinned
         \/ s.td[cur[c]].cpu = c /\ ~ td[cur[c]].pinned,
         NEW preempt, SwitchRunning(s, c, preempt)
  PROVE  Obeys
<1> DEFINE t     == cur[c]
           r     == s.td[t]
           flags == IF preempt /\ ~ r.sliceend THEN {"PREEMPTED"} ELSE {}
           out   == SetTd(s, t, Unflag(r))
           x(d)  == [out.td[t] EXCEPT !.cpu = d]
           left(d) == SetTd(out, t, x(d))
           e     == [step |-> "migrate", thread |-> t, flags |-> flags]
<1>1. /\ t \in Thread /\ r \in ThreadType /\ r.state = "running" /\ s \in SysType
  BY SysParts DEF Nearly, Kept
<1>2. PICK d \in IF r.pinned \/ r.cpu \in r.mask THEN {r.cpu} ELSE r.mask :
        IF d = c THEN \E n \in {RunqAdd(out, c, t, flags)} : Settle(Choose(n, c))
        ELSE Becomes(LoadAdd(left(d), c, -1)) /\ pend' = [pend EXCEPT ![c] = e]
  BY DEF SwitchRunning
<1>3. d \in CPU
  BY <1>1, <1>2, ThreadParts
<1>4. t = s.cur[c] /\ r = s.td[t] /\ (r.pinned \/ (r.cpu = c /\ ~ td[t].pinned))
  OBVIOUS
<1>5. /\ Unflag(r) \in ThreadType /\ SameHome(r, Unflag(r))
      /\ Unflag(r).state = "running" /\ Unflag(r).pri = r.pri
  BY <1>1 DEF Unflag, ThreadType, SameHome
<1> HIDE DEF flags, t, r
<1>6. Nearly(out, pend, c) /\ out.cur = cur /\ out.td[t] = Unflag(r)
  BY <1>4, <1>5, NearlyTd
<1>7. Stays(s, out, NoThread)
  BY <1>1, <1>4, <1>5, SetTdStays
<1>8. Start(out)
  BY <1>7, StartStays
<1> HIDE DEF out
<1>9. CASE d = c
  <2> DEFINE o == RunqAdd(out, c, t, flags)
  <2>1. Settle(Choose(o, c))
    BY <1>2, <1>9
  <2>2. r.cpu = c /\ Fit(r)
    BY <1>2, <1>4, <1>9 DEF Fit
  <2>3. out.td[t].cpu = c /\ Fit(out.td[t]) /\ out.td[t].state # "inactive"
    BY <1>5, <1>6, <2>2 DEF Fit, SameHome
  <2>4. Kept(o)
    BY <1>4, <1>6, <2>3, StayVacant DEF Vacant
  <2>5. Plain(out, o, t)
    BY <1>1, <1>6, RunqAddPlain DEF Nearly, Kept
  <2> HIDE DEF o
  <2>6. Becomes(Choose(o, c)) /\ pend' = pend
    BY <2>1 DEF Settle
  <2>7. t = cur[c]
    BY <1>4
  <2>8. Stays(out, o, t) /\ \A f \in CPU \ {c} : o.cur[f] = cur[f]
    BY <1>6, <2>5 DEF Plain
  <2> QED
    BY <1>1, <1>8, <2>3, <2>4, <2>6, <2>7, <2>8, ChooseObeys
<1>10. CASE d # c
  <2> DEFINE m == left(d)
             n == LoadAdd(m, c, -1)
  <2>1. Becomes(n) /\ pend' = [pend EXCEPT ![c] = e]
    BY <1>2, <1>10
  <2>2. /\ x(d) \in ThreadType /\ x(d).state = "running" /\ x(d).cpu = d
        /\ x(d).mask = r.mask /\ x(d).pinned = r.pinned /\ x(d).bound = r.bound
    BY <1>3, <1>5, <1>6 DEF ThreadType, SameHome
  <2>3. /\ r.pinned => r.cpu = d
        /\ ~ r.pinned => ~ td[t].pinned /\ d \in r.mask
    BY <1>2, <1>4, <1>10
  <2>4. Moves(td[t], r) /\ (r.bound => r.pinned)
    BY <1>1, <1>4 DEF Start, Homed
  <2>5. Moves(td[t], x(d))
    BY <1>1, <2>2, <2>3, <2>4 DEF Moves
  <2>6. Fit(x(d)) /\ (x(d).bound => x(d).pinned) /\ x(d).state # "runq"
    BY <2>2, <2>3, <2>4 DEF Fit
  <2>7. out \in SysType
    BY <1>6 DEF Nearly, Kept
  <2> HIDE DEF x
  <2>8. /\ m \in SysType /\ Start(m) /\ m.cur = cur
        /\ \A u \in Thread : m.td[u] = IF u = t THEN x(d) ELSE out.td[u]
    BY <1>1, <1>6, <1>8, <2>2, <2>5, <2>6, <2>7, StartTd, SetTdType
  <2> HIDE DEF m
  <2>9. Plain(m, n, NoThread) /\ n.td = m.td
    BY <2>8, LoadAddPlain
  <2> HIDE DEF n
  <2>10. n.cur = cur /\ Stays(m, n, NoThread) /\ Fit(n.td[t])
    BY <1>1, <2>6, <2>8, <2>9 DEF Plain
  <2>11. \A f \in CPU : \/ n.cur[f] = cur[f] \/ n.cur[f] = NoThread
                        \/ /\ n.cur[f] \in Thread /\ n.td[n.cur[f]].cpu = f
                           /\ Fit(n.td[n.cur[f]])
    BY <2>10
  <2>12. ASSUME NEW f \in CPU
         PROVE  \/ pend'[f] = pend[f]
                \/ pend'[f].step \notin {"setcpu", "migrate"}
                \/ Fit(n.td[pend'[f].thread])
    <3>1. pend \in [CPU -> PendType]
      BY SafeInv
    <3>2. CASE f = c
      <4>1. pend'[f] = e
        BY <2>1, <3>1, <3>2
      <4>2. pend'[f].thread = t
        BY <4>1
      <4> QED
        BY <2>10, <4>2
    <3>3. CASE f # c
      BY <2>1, <3>1, <3>3
    <3> QED
      BY <3>2, <3>3
  <2> QED
    BY <2>1, <2>8, <2>10, <2>11, <2>12, StepObeys
<1> QED
  BY <1>9, <1>10

\* The threads other than t stay, and no CPU switches.
StayBut(s, n, t) ==
  \A u \in Thread \ {t} : /\ SameHome(s.td[u], n.td[u])
                          /\ n.td[u].state = "runq" => s.td[u].state = "runq"
                          /\ s.td[u].state = "inactive" => n.td[u].state = "inactive"

\* What a step has done so far counts for nothing here.
Quiet(s) == Stays(Sys, s, NoThread) /\ s.cur = cur

\* The records o and r of a thread differ in nothing that counts here.
Calm(o, r) == SameHome(o, r) /\ r.state = o.state

(* A step that gives t its CPU or its mask anew.                           *)
LEMMA StartAnew ==
  ASSUME Safe, Homed(Sys, pend), NEW n, NEW t \in Thread, StayBut(Sys, n, t),
         Moves(td[t], n.td[t]), n.td[t].bound => n.td[t].pinned,
         n.td[t].state = "runq" => Fit(n.td[t]) /\ td[t].state = "runq",
         Fit(n.td[t]) \/ \A c \in CPU : pend[c].thread # t
  PROVE  Start(n)
<1>1. Sys.td = td /\ pend \in [CPU -> PendType]
  BY SafeSys, SafeInv
<1>2. ASSUME NEW u \in Thread
      PROVE  /\ n.td[u].bound => n.td[u].pinned
             /\ n.td[u].state = "runq" => Fit(n.td[u]) /\ td[u].state = "runq"
             /\ Moves(td[u], n.td[u])
  <2>1. CASE u = t
    BY <2>1
  <2>2. CASE u # t
    <3>1. /\ SameHome(td[u], n.td[u])
          /\ n.td[u].state = "runq" => td[u].state = "runq"
      BY <1>1, <2>2 DEF StayBut
    <3>2. /\ td[u].bound => td[u].pinned
          /\ td[u].state = "runq" => Fit(td[u])
      BY <1>1 DEF Homed
    <3> QED
      BY <3>1, <3>2 DEF SameHome, Fit, Moves
  <2> QED
    BY <2>1, <2>2
<1>3. ASSUME NEW c \in CPU, pend[c].step \in {"setcpu", "migrate"}
      PROVE  Fit(n.td[pend[c].thread])
  <2>1. pend[c].thread \in Thread /\ Fit(td[pend[c].thread])
    BY <1>1, <1>3, PendSteps DEF Homed
  <2>2. CASE pend[c].thread = t
    BY <2>2
  <2>3. CASE pend[c].thread # t
    <3>1. SameHome(td[pend[c].thread], n.td[pend[c].thread])
      BY <1>1, <2>1, <2>3 DEF StayBut
    <3> QED
      BY <2>1, <3>1 DEF Fit, SameHome
  <2> QED
    BY <2>2, <2>3
<1> QED
  BY <1>2, <1>3 DEF Start, Homed

(* Threads that stay, but for t. *)
LEMMA StayButThen ==
  ASSUME NEW s, NEW m, NEW n, NEW t, StayBut(s, m, t), Stays(m, n, NoThread)
  PROVE  StayBut(s, n, t)
<1>1. NoThread \notin Thread
  BY RunqAssumption
<1> QED
  BY <1>1 DEF StayBut, Stays, SameHome

(* Whatever happens to t. *)
LEMMA StayButTd ==
  ASSUME NEW s, NEW m \in SysType, NEW t \in Thread, StayBut(s, m, t), NEW r
  PROVE  /\ StayBut(s, SetTd(m, t, r), t) /\ SetTd(m, t, r).td[t] = r
         /\ SetTd(m, t, r).cur = m.cur
<1> DEFINE n == SetTd(m, t, r)
<1>1. n.cur = m.cur /\ \A u \in Thread : n.td[u] = IF u = t THEN r ELSE m.td[u]
  BY DEF SetTd, SysType
<1> HIDE DEF n
<1>2. StayBut(s, n, t)
  BY <1>1 DEF StayBut
<1> QED
  BY <1>1, <1>2 DEF n

(* The state a step starts in is quiet. *)
LEMMA QuietSys ==
  ASSUME Safe
  PROVE  Quiet(Sys)
BY SafeSys DEF Quiet, Stays, SameHome

(* A step may change fields that do not count. *)
LEMMA QuietTd ==
  ASSUME NEW s \in SysType, Quiet(s), NEW t \in Thread, NEW r, Calm(s.td[t], r)
  PROVE  /\ Quiet(SetTd(s, t, r)) /\ SetTd(s, t, r).td[t] = r
         /\ SetTd(s, t, r).tdq = s.tdq /\ SetTd(s, t, r).ipi = s.ipi
<1> DEFINE n == SetTd(s, t, r)
<1>1. /\ Stays(s, n, NoThread) /\ n.cur = s.cur /\ n.tdq = s.tdq /\ n.ipi = s.ipi
      /\ \A u \in Thread : n.td[u] = IF u = t THEN r ELSE s.td[u]
  BY SetTdStays DEF Calm
<1> HIDE DEF n
<1>2. Quiet(n)
  BY <1>1, StaysThen DEF Quiet
<1> QED
  BY <1>1, <1>2 DEF n

(* Or call a function that moves nobody. *)
LEMMA QuietThen ==
  ASSUME NEW s, Quiet(s), NEW n, Stays(s, n, NoThread), n.cur = s.cur
  PROVE  Quiet(n)
BY StaysThen DEF Quiet

(* A quiet step may still move threads. *)
LEMMA QuietStart ==
  ASSUME Safe, Homed(Sys, pend), NEW s, Quiet(s)
  PROVE  Start(s) /\ s.cur = cur
BY StartSys, StartStays DEF Quiet

(* Or end as it is. *)
LEMMA QuietObeys ==

  ASSUME Safe, Safe', Homed(Sys, pend), NEW n, Quiet(n), Settle(n)
  PROVE  Obeys
<1>1. Start(n) /\ n.cur = cur
  BY QuietStart
<1>2. Stays(n, n, NoThread)
  BY DEF Stays, SameHome
<1> QED
  BY <1>1, <1>2, StayObeys

(* sched_switch, also from the idle thread. *)
LEMMA SwitchOutObeys ==
  ASSUME Safe, Safe', Homed(Sys, pend), NEW s, Sound(s, pend), Quiet(s),
         NEW c \in CPU, pend[c].step = "run", NEW preempt, SwitchOut(s, c, preempt)
  PROVE  Obeys
<1>1. Start(s) /\ s.cur = cur /\ Kept(s) /\ s \in SysType
  BY QuietStart DEF Sound, Kept
<1>2. CASE cur[c] = NoThread
  <2>1. Settle(Choose(s, c))
    BY <1>1, <1>2 DEF SwitchOut
  <2>2. Becomes(Choose(s, c)) /\ pend' = pend
    BY <2>1 DEF Settle
  <2>3. Stays(s, s, NoThread)
    BY DEF Stays, SameHome
  <2> QED
    BY <1>1, <2>2, <2>3, ChooseObeys
<1>3. CASE cur[c] # NoThread
  <2>1. SwitchRunning(s, c, preempt) /\ Nearly(s, pend, c)
    BY <1>1, <1>3, SoundNearly DEF SwitchOut
  <2>2. s.td[cur[c]].cpu = c /\ cur[c] \in Thread
    BY <1>1, <1>3, RunsHeld
  <2>3. s.td[cur[c]].pinned = td[cur[c]].pinned
    BY <2>2, SafeSys DEF Quiet, Stays, SameHome
  <2> QED
    BY <1>1, <2>1, <2>2, <2>3, SwitchRunningObeys
<1> QED
  BY <1>2, <1>3

(* sched_rem and sched_add of a queued thread, whose mask may be new. *)
LEMMA ReaddObeys ==
  ASSUME Safe, Safe', Homed(Sys, pend), NEW s, Sound(s, pend), s.cur = cur,
         NEW c \in CPU, pend[c].step = "run",
         NEW t \in Thread, StayBut(Sys, s, t), s.td[t].state = "runq",
         td[t].state = "runq", s.td[t].cpu = td[t].cpu,
         s.td[t].pinned = td[t].pinned, s.td[t].bound = td[t].bound,
         NEW p \in Pri, NEW flags \in SUBSET Flag, Readd(s, c, t, p, flags)
  PROVE  Obeys
<1> DEFINE out     == SchedRem(s, t)
           r(d, u) == [Rescored(out.td[t], u) EXCEPT !.pri = p, !.cpu = d]
           m(d, u) == SetTd(out, t, r(d, u))
<1>1. PICK d \in PickCpu(s.td[t]), u \in UserPris[t] :
        IF d = s.td[t].cpu
        THEN \E wired \in IdleIpi : Settle(AddTo(m(d, u), c, d, t, flags, wired))
        ELSE /\ Becomes(m(d, u))
             /\ pend' = [pend EXCEPT ![c] =
                          [step |-> "setcpu", thread |-> t, flags |-> flags]]
  BY DEF Readd
<1>2. Kept(s) /\ s \in SysType /\ s.td[t] \in ThreadType
  BY SysParts DEF Sound, Kept
<1>3. d \in CPU /\ u \in Pri
  BY <1>1, <1>2, SysParts, ThreadParts, UserPrisPri DEF PickCpu
<1>4. Places(s, out, t, "canrun", s.td[t].cpu) /\ Plain(s, out, NoThread)
  BY <1>2, SchedRemPlaces, SchedRemPlain
<1> HIDE DEF out
<1>5. /\ Sound(out, pend) /\ Loose(out, pend, t) /\ out.cur = cur
      /\ StayBut(Sys, out, t)
  BY <1>4, QueuedLoose, LoosePlaces, StayButThen DEF Plain
<1>6. /\ out \in SysType /\ out.td[t] \in ThreadType /\ out.td[t].state = "canrun"
      /\ SameHome(s.td[t], out.td[t])
  BY <1>4, <1>5, SysParts DEF Sound, Kept, Places, Plain, Stays
<1>7. /\ r(d, u) \in ThreadType /\ r(d, u).state = "canrun" /\ r(d, u).cpu = d
      /\ r(d, u).mask = s.td[t].mask /\ r(d, u).pinned = s.td[t].pinned
      /\ r(d, u).bound = s.td[t].bound
  <2>1. /\ Rescored(out.td[t], u) \in ThreadType /\ Rescored(out.td[t], u).state = "canrun"
        /\ Rescored(out.td[t], u).mask = s.td[t].mask
        /\ Rescored(out.td[t], u).pinned = s.td[t].pinned
        /\ Rescored(out.td[t], u).bound = s.td[t].bound
    BY <1>3, <1>6 DEF Rescored, ThreadType, SameHome
  <2> QED
    BY <1>3, <2>1 DEF ThreadType
<1>8. Fit(r(d, u)) /\ Moves(td[t], r(d, u)) /\ (r(d, u).bound => r(d, u).pinned)
  <2>1. td[t].bound => td[t].pinned
    BY SafeSys DEF Homed
  <2>2. IF s.td[t].pinned THEN d = s.td[t].cpu ELSE d \in s.td[t].mask
    BY <1>1 DEF PickCpu
  <2> HIDE DEF r
  <2> QED
    BY <1>7, <2>1, <2>2 DEF Fit, Moves
<1> HIDE DEF r
<1>9. /\ Sound(m(d, u), pend) /\ m(d, u).td[t] = r(d, u) /\ m(d, u).cur = cur
      /\ StayBut(Sys, m(d, u), t)
  <2>1. Alike(out.td[t], r(d, u)) /\ r(d, u).state # "running"
    BY <1>6, <1>7 DEF Alike
  <2>2. /\ StayBut(Sys, SetTd(out, t, r(d, u)), t)
        /\ SetTd(out, t, r(d, u)).cur = out.cur
    BY <1>5, <1>6, StayButTd
  <2>3. /\ Sound(SetTd(out, t, r(d, u)), pend)
        /\ SetTd(out, t, r(d, u)).td[t] = r(d, u)
    BY <1>5, <1>7, <2>1, LooseTd
  <2> QED
    BY <1>5, <2>2, <2>3

<1> HIDE DEF m
<1>10. Start(m(d, u))
  BY <1>7, <1>8, <1>9, StartAnew
<1>11. CASE d = s.td[t].cpu
  <2>1. PICK wired \in IdleIpi : Settle(AddTo(m(d, u), c, d, t, flags, wired))
    BY <1>1, <1>11
  <2>2. Becomes(AddTo(m(d, u), c, d, t, flags, wired)) /\ pend' = pend
    BY <2>1 DEF Settle
  <2>3. /\ Kept(m(d, u)) /\ m(d, u).td[t].state \notin {"inactive", "runq"}
        /\ Fit(m(d, u).td[t]) /\ m(d, u).td[t].cpu = d
    BY <1>7, <1>8, <1>9 DEF Sound
  <2> QED
    BY <1>3, <1>9, <1>10, <2>2, <2>3, AddObeys
<1>12. CASE d # s.td[t].cpu
  <2> DEFINE n == m(d, u)
  <2>1. /\ Becomes(n)
        /\ pend' = [pend EXCEPT ![c] =
                     [step |-> "setcpu", thread |-> t, flags |-> flags]]
    BY <1>1, <1>12
  <2>2. Start(n) /\ n.cur = cur /\ Fit(n.td[t])
    BY <1>8, <1>9, <1>10
  <2> HIDE DEF n
  <2>3. Stays(n, n, NoThread)
    BY DEF Stays, SameHome
  <2>4. \A e \in CPU : \/ n.cur[e] = cur[e] \/ n.cur[e] = NoThread
                       \/ /\ n.cur[e] \in Thread /\ n.td[n.cur[e]].cpu = e
                          /\ Fit(n.td[n.cur[e]])
    BY <2>2
  <2>5. ASSUME NEW e \in CPU
        PROVE  \/ pend'[e] = pend[e]
               \/ pend'[e].step \notin {"setcpu", "migrate"}
               \/ Fit(n.td[pend'[e].thread])
    <3>1. pend \in [CPU -> PendType]
      BY SafeInv
    <3>2. CASE e = c
      <4>1. pend'[e].thread = t
        BY <2>1, <3>1, <3>2
      <4> QED
        BY <2>2, <4>1
    <3>3. CASE e # c
      BY <2>1, <3>1, <3>3
    <3> QED
      BY <3>2, <3>3
  <2> QED
    BY <2>1, <2>2, <2>3, <2>4, <2>5, StepObeys
<1> QED
  BY <1>11, <1>12

(* sched_thread_priority *)
LEMMA ThreadPriorityObeys ==
  ASSUME Safe, Safe', Homed(Sys, pend), NEW s, Sound(s, pend), Quiet(s),
         NEW c \in CPU, pend[c].step = "run",
         NEW t \in Thread, NEW p \in Pri, ThreadPriority(s, c, t, p)
  PROVE  Obeys
<1> DEFINE r == [s.td[t] EXCEPT !.pri = p]
<1>1. s \in SysType /\ s.td[t] \in ThreadType
  BY SysParts DEF Sound, Kept
<1>2. Calm(s.td[t], r)
  BY <1>1 DEF ThreadType, Calm, SameHome
<1>3. \/ Settle(s)
      \/ s.td[t].state = "runq" /\ Readd(s, c, t, p, {"BORROWING"})
      \/ Settle(RunningPriority(s, t, p))
      \/ Settle(SetTd(s, t, r))
  BY DEF ThreadPriority
<1> HIDE DEF r
<1>4. CASE Settle(s)
  BY <1>4, QuietObeys
<1>5. CASE s.td[t].state = "runq" /\ Readd(s, c, t, p, {"BORROWING"})
  <2>1. {"BORROWING"} \in SUBSET Flag
    BY DEF Flag
  <2>2. t # NoThread /\ Sys.td = td
    BY RunqAssumption, SafeSys
  <2>3. /\ td[t].state = "runq" /\ SameHome(td[t], s.td[t]) /\ StayBut(Sys, s, t)
        /\ s.cur = cur
    <3>1. NoThread \notin Thread
      BY RunqAssumption
    <3> QED
      BY <1>5, <2>2, <3>1 DEF Quiet, Stays, StayBut
  <2>4. /\ s.td[t].cpu = td[t].cpu /\ s.td[t].pinned = td[t].pinned
        /\ s.td[t].bound = td[t].bound
    BY <2>3 DEF SameHome
  <2> QED
    BY <1>5, <2>1, <2>3, <2>4, ReaddObeys
<1>6. CASE Settle(RunningPriority(s, t, p))
  <2>1. Quiet(RunningPriority(s, t, p))
    BY <1>1, RunningPriorityStays, QuietThen
  <2> QED
    BY <1>6, <2>1, QuietObeys
<1>7. CASE Settle(SetTd(s, t, r))
  BY <1>1, <1>2, <1>7, QuietTd, QuietObeys
<1> QED
  BY <1>3, <1>4, <1>5, <1>6, <1>7

(* Fields of a thread that do not count here. *)
LEMMA FieldsCalm ==
  ASSUME NEW r \in ThreadType, NEW u, NEW b
  PROVE  /\ Calm(r, [r EXCEPT !.base = u]) /\ Calm(r, [r EXCEPT !.borrowing = b])
         /\ Calm(r, [r EXCEPT !.owepreempt = b]) /\ Calm(r, Rescored(r, u))
         /\ Calm(r, [r EXCEPT !.pri = u, !.base = u])
BY DEF Rescored, ThreadType, Calm, SameHome

(* sched_prio *)
LEMMA SchedPrioObeys ==
  ASSUME Safe, Safe', Homed(Sys, pend), NEW s, Sound(s, pend), Quiet(s),
         NEW c \in CPU, pend[c].step = "run",
         NEW t \in Thread, NEW p \in Pri, SchedPrio(s, c, t, p)
  PROVE  Obeys
<1> DEFINE r == [s.td[t] EXCEPT !.base = p]
           m == SetTd(s, t, r)
<1>1. s \in SysType /\ s.td[t] \in ThreadType
  BY SysParts DEF Sound, Kept
<1>2. r \in ThreadType /\ SamePlace(s.td[t], r) /\ Calm(s.td[t], r)
  BY <1>1, FieldsSame, FieldsCalm
<1>3. Settle(m) \/ ThreadPriority(m, c, t, p)
  BY DEF SchedPrio
<1> HIDE DEF r
<1>4. Sound(m, pend) /\ Quiet(m)
  BY <1>1, <1>2, HeldTd, QuietTd
<1> HIDE DEF m
<1> QED
  BY <1>3, <1>4, QuietObeys, ThreadPriorityObeys

(* sched_lend_prio *)
LEMMA LendPrioObeys ==
  ASSUME Safe, Safe', Homed(Sys, pend), NEW s, Sound(s, pend), Quiet(s),
         NEW c \in CPU, pend[c].step = "run",
         NEW t \in Thread, NEW p \in Pri, LendPrio(s, c, t, p)
  PROVE  Obeys
<1> DEFINE r == [s.td[t] EXCEPT !.borrowing = TRUE]
           m == SetTd(s, t, r)
<1>1. s \in SysType /\ s.td[t] \in ThreadType
  BY SysParts DEF Sound, Kept
<1>2. r \in ThreadType /\ SamePlace(s.td[t], r) /\ Calm(s.td[t], r)
  BY <1>1, FieldsSame, FieldsCalm
<1>3. ThreadPriority(m, c, t, p)
  BY DEF LendPrio
<1> HIDE DEF r
<1>4. Sound(m, pend) /\ Quiet(m)
  BY <1>1, <1>2, HeldTd, QuietTd
<1> HIDE DEF m
<1> QED
  BY <1>3, <1>4, ThreadPriorityObeys

(***************************************************************************)
(* The actions                                                             *)
(***************************************************************************)
(* sched_relinquish, critical_exit and the switch in sched_idletd *)
LEMMA YieldObeys ==
  ASSUME Safe, Safe', Homed(Sys, pend), NEW c \in CPU,
         Relinquish(c) \/ CriticalExit(c) \/ IdleSwitch(c)
  PROVE  Obeys
<1>1. pend[c].step = "run" /\ \E preempt \in BOOLEAN : SwitchOut(Sys, c, preempt)
  BY DEF Relinquish, CriticalExit, IdleSwitch, Busy, OnCpu
<1> QED
  BY <1>1, SafeSys, QuietSys, SwitchOutObeys

(* The switch on the way back to user mode. *)
LEMMA AstObeys ==
  ASSUME Safe, Safe', Homed(Sys, pend), NEW c \in CPU, Ast(c)
  PROVE  Obeys
<1> DEFINE t     == cur[c]
           r     == td[t]
           b     == [r EXCEPT !.base = r.user]
           based == SetTd(Sys, t, b)
           down  == RunningPriority(based, t, r.user)
<1>1. /\ Busy(c)
      /\ SwitchOut(based, c, FALSE) \/ SwitchOut(down, c, FALSE)
  BY DEF Ast
<1>2. /\ t \in Thread /\ r \in ThreadType /\ r.user \in Pri /\ pend[c].step = "run"
      /\ r.state = "running" /\ r.cpu = c
  BY <1>1, BusySafe, ThreadParts
<1>3. /\ Sound(Sys, pend) /\ Sys \in SysType /\ Sys.cur[c] = t /\ Sys.td[t] = r
      /\ Quiet(Sys)
  BY SafeSys, SafeInv, QuietSys
<1> HIDE DEF t, r
<1>4. b \in ThreadType /\ SamePlace(r, b) /\ Calm(r, b)
  BY <1>2, FieldsSame, FieldsCalm
<1>5. b.state = "running" /\ b.cpu = c
  BY <1>2, <1>4 DEF SamePlace
<1> HIDE DEF b
<1>6. /\ Sound(based, pend) /\ based.cur = Sys.cur /\ based.td[t] = b
      /\ Quiet(based) /\ based \in SysType
  BY <1>2, <1>3, <1>4, HeldTd, QuietTd, SetTdType
<1> HIDE DEF based
<1>7. Sound(down, pend)
  BY <1>2, <1>3, <1>5, <1>6, RunningPrioritySound
<1>8. Quiet(down)
  BY <1>2, <1>6, RunningPriorityStays, QuietThen
<1> HIDE DEF down
<1> QED
  BY <1>1, <1>2, <1>6, <1>7, <1>8, SwitchOutObeys

(* sched_sleep: c chooses another thread, or tries to steal one first. *)
LEMMA SleepObeys ==
  ASSUME Safe, Safe', Homed(Sys, pend), NEW c \in CPU, Sleep(c)
  PROVE  Obeys
<1> DEFINE t     == cur[c]
           r     == td[t]
           b     == [r EXCEPT !.base = StaticBoost]
           based == SetTd(Sys, t, b)
           boost == Timeshare(t) /\ r.pri > StaticBoost
           calm  == IF boost THEN RunningPriority(based, t, StaticBoost) ELSE Sys
           z     == [Unflag(calm.td[t]) EXCEPT !.state = "sleeping"]
           off   == SetTd(calm, t, z)
           out   == LoadAdd(off, c, -1)
           p     == [step |-> "trysteal", thread |-> t, flags |-> {}]
<1>1. /\ Busy(c)
      /\ \/ Becomes(out) /\ pend' = [pend EXCEPT ![c] = p]
         \/ Settle(Choose(out, c))
  BY DEF Sleep
<1>2. t \in Thread /\ r \in ThreadType /\ pend[c].step = "run" /\ Sys.td[t] = r
  BY <1>1, BusySafe, SafeSys
<1>3. /\ Nearly(calm, pend, c) /\ z \in ThreadType /\ z.state = "sleeping"
      /\ calm.cur[c] = t /\ calm.td[t] \in ThreadType /\ calm.td[t].state = "running"
  BY <1>1, SleepSound
<1>4. SameHome(calm.td[t], z)
  BY <1>3, ZenonT(60) DEF Unflag, ThreadType, SameHome
<1> HIDE DEF t, r, boost, z
<1>5. Quiet(based) /\ based \in SysType
  <2>1. StaticBoost \in Pri /\ TRUE \in BOOLEAN /\ Sys \in SysType
    BY UleAssumption, SafeInv
  <2>2. b \in ThreadType /\ Calm(r, b)
    BY <1>2, <2>1, FieldsSame, FieldsCalm
  <2> HIDE DEF b
  <2> QED
    BY <1>2, <2>1, <2>2, QuietSys, QuietTd, SetTdType
<1> HIDE DEF b, based
<1>6. Quiet(calm)
  BY <1>2, <1>5, RunningPriorityStays, QuietThen, QuietSys, UleAssumption
<1> HIDE DEF calm
<1>7. calm \in SysType
  BY <1>3 DEF Nearly, Kept
<1>8. off \in SysType /\ Stays(calm, off, NoThread) /\ off.cur = calm.cur
  <2>1. /\ z.state = "runq" => calm.td[t].state = "runq"
        /\ calm.td[t].state = "inactive" => z.state = "inactive"
    BY <1>3
  <2>2. off \in SysType
    BY <1>2, <1>3, <1>7, SetTdType
  <2>3. Stays(calm, off, NoThread) /\ off.cur = calm.cur
    BY <1>2, <1>4, <1>7, <2>1, SetTdStays
  <2> QED
    BY <2>2, <2>3
<1>9. Quiet(off)
  BY <1>6, <1>8, QuietThen
<1>10. Vacant(out, pend, c)
  <2>1. z.state \notin {"runq", "running"}
    BY <1>3
  <2> QED
    BY <1>2, <1>3, <2>1, LeaveChoose
<1> HIDE DEF off
<1>11. Plain(off, out, NoThread)
  BY <1>8, LoadAddPlain
<1> HIDE DEF out
<1>12. Quiet(out) /\ Kept(out)
  BY <1>9, <1>10, <1>11, QuietThen DEF Plain, Vacant
<1>13. Start(out) /\ out.cur = cur /\ Stays(out, out, NoThread)
  BY <1>12, QuietStart DEF Stays, SameHome
<1>14. CASE Becomes(out) /\ pend' = [pend EXCEPT ![c] = p]
  <2>1. pend \in [CPU -> PendType] /\ p.step \notin {"setcpu", "migrate"}
    BY SafeInv
  <2>2. \A d \in CPU : \/ pend'[d] = pend[d]
                       \/ pend'[d].step \notin {"setcpu", "migrate"}
                       \/ Fit(out.td[pend'[d].thread])
    BY <1>14, <2>1
  <2>3. \A d \in CPU : \/ out.cur[d] = cur[d] \/ out.cur[d] = NoThread
                       \/ /\ out.cur[d] \in Thread /\ out.td[out.cur[d]].cpu = d
                          /\ Fit(out.td[out.cur[d]])
    BY <1>13
  <2> QED
    BY <1>13, <1>14, <2>2, <2>3, StepObeys
<1>15. CASE Settle(Choose(out, c))
  <2>1. Becomes(Choose(out, c)) /\ pend' = pend
    BY <1>15 DEF Settle
  <2> QED
    BY <1>12, <1>13, <2>1, ChooseObeys
<1> QED
  BY <1>1, <1>14, <1>15

(* sched_throw *)
LEMMA ExitObeys ==
  ASSUME Safe, Safe', Homed(Sys, pend), NEW c \in CPU, Exit(c)
  PROVE  Obeys
<1> DEFINE t   == cur[c]
           m   == SetTd(Sys, t, Unborn(t))
           out == LoadAdd(m, c, -1)
<1>1. Busy(c) /\ Settle(Choose(out, c))
  BY DEF Exit
<1>2. /\ Nearly(Sys, pend, c) /\ pend[c].step = "run" /\ Sys.cur[c] = t /\ t \in Thread
      /\ Sys.cur = cur /\ Sys \in SysType
  BY <1>1, BusySafe, SafeSys, SafeInv
<1>3. /\ Unborn(t) \in ThreadType /\ Unborn(t).state \notin {"runq", "running"}
      /\ Unborn(t).state = "inactive" /\ ~ Unborn(t).bound /\ Fit(Unborn(t))
  BY UnbornType, UleAssumption DEF Unborn, Fit
<1> HIDE DEF t
<1>4. Kept(out)
  BY <1>2, <1>3, LeaveChoose DEF Vacant
<1>5. m \in SysType /\ StayBut(Sys, m, t) /\ m.td[t] = Unborn(t) /\ m.cur = cur
  <2>1. StayBut(Sys, Sys, t)
    BY DEF StayBut, SameHome
  <2>2. m \in SysType
    BY <1>2, <1>3, SetTdType
  <2>3. StayBut(Sys, m, t) /\ m.td[t] = Unborn(t) /\ m.cur = Sys.cur
    BY <1>2, <2>1, StayButTd
  <2> QED
    BY <1>2, <2>2, <2>3
<1> HIDE DEF m

<1>6. Start(m)
  BY <1>2, <1>3, <1>5, StartAnew DEF Moves
<1>7. Stays(m, out, NoThread) /\ out.cur = cur
  BY <1>5, LoadAddPlain, ZenonT(60) DEF Plain
<1> HIDE DEF out
<1>8. Becomes(Choose(out, c)) /\ pend' = pend
  BY <1>1 DEF Settle
<1> QED
  BY <1>4, <1>6, <1>7, <1>8, ChooseObeys

(* The second half of sched_switch_migrate. *)
LEMMA MigrateDoneObeys ==
  ASSUME Safe, Safe', Homed(Sys, pend), NEW c \in CPU, MigrateDone(c)
  PROVE  Obeys
<1> DEFINE t     == pend[c].thread
           d     == td[t].cpu
           added == TdqAdd(Sys, d, t, pend[c].flags)
           o(w)  == Notify(added, d, t, w)
<1>1. /\ pend[c].step = "migrate"
      /\ \E w \in IdleIpi : Becomes(Choose(o(w), c))
      /\ pend' = [pend EXCEPT ![c] = NoPend]
  BY DEF MigrateDone
<1>2. /\ Sound(Sys, pend) /\ Kept(Sys) /\ Sys \in SysType /\ pend \in [CPU -> PendType]
      /\ Sys.cur = cur /\ Sys.td = td
  BY SafeSys, SafeInv
<1>3. t \in Thread /\ t # NoThread /\ Fit(Sys.td[t])
  BY <1>1, <1>2, PendSteps, RunqAssumption DEF Homed
<1>4. Sys.cur[c] = t /\ Sys.td[t].state = "running"
  <2>1. Settled(Sys, pend, c)
    BY <1>2 DEF Sound
  <2> QED
    BY <1>1, <1>3, <2>1 DEF Settled, Stands
<1>5. Sys.td[t].cpu = d /\ d \in CPU
  BY <1>2, <1>3, SysParts, ThreadParts
<1> HIDE DEF t, d
<1>6. Places(Sys, added, t, "runq", d) /\ Plain(Sys, added, t)
  BY <1>2, <1>3, <1>4, <1>5, TdqAddPlaces, TdqAddPlain
<1> HIDE DEF added
<1>7. PICK w \in IdleIpi : Becomes(Choose(o(w), c))
  BY <1>1
<1>8. Kept(o(w))
  <2>1. Kept(added)
    BY <1>6 DEF Places
  <2> QED
    BY <1>3, <1>5, <2>1, NotifyPlaces, ZenonT(60) DEF Places
<1>9. /\ Stays(added, o(w), t) /\ o(w).cur = added.cur /\ o(w).td = added.td
      /\ First(added, d, t) => o(w).ipi[d]
  BY <1>3, <1>5, <1>6, NotifyAsks DEF Places
<1> HIDE DEF o
<1>10. Stays(Sys, o(w), t) /\ o(w).cur = cur
  BY <1>2, <1>6, <1>9, StaysThen DEF Plain
<1>11. CASE d = c
  <2>1. Start(Sys) /\ t = cur[c] /\ Sys.td[t].cpu = c
    BY <1>2, <1>4, <1>5, <1>11, StartSys
  <2>2. \A e \in CPU : \/ pend'[e] = pend[e]
                       \/ pend'[e].step \notin {"setcpu", "migrate"}
    BY <1>1, <1>2 DEF NoPend
  <2> QED
    BY <1>3, <1>4, <1>7, <1>8, <1>10, <2>1, <2>2, ChooseObeys
<1>12. CASE d # c
  <2> DEFINE n == Choose(o(w), c)
  <2>1. /\ Stays(o(w), n, NoThread) /\ n.ipi = o(w).ipi
        /\ \A u \in Thread : /\ n.td[u].pri = o(w).td[u].pri
                             /\ n.td[u].owepreempt = o(w).td[u].owepreempt
        /\ \A e \in CPU \ {c} : n.cur[e] = o(w).cur[e]
    BY <1>8, ChooseStays
  <2> HIDE DEF n
  <2>2. Asks(Sys, n, t)
    <3> SUFFICES ASSUME NEW e \in CPU, n.td[t].cpu = e, First(n, e, t)
                 PROVE  n.ipi[e]
      BY DEF Asks
    <3>1. e = d
      BY <1>3, <1>5, <1>10, <2>1 DEF Stays, SameHome
    <3>2. n.cur[d] = added.cur[d] /\ added.cur[d] \in Thread
      <4>1. n.cur[d] = added.cur[d]
        BY <1>5, <1>9, <1>12, <2>1
      <4>2. added \in SysType /\ added.cur[d] # NoThread
        BY <1>6, <3>1, <4>1 DEF First, Places, Kept
      <4> QED
        BY <1>5, <4>1, <4>2, SysParts
    <3>3. First(added, d, t)
      BY <1>3, <1>9, <2>1, <3>1, <3>2 DEF First
    <3> QED
      BY <1>9, <2>1, <3>1, <3>3
  <2>3. Start(Sys)
    BY StartSys
  <2>4. \A e \in CPU : \/ pend'[e] = pend[e]
                       \/ pend'[e].step \notin {"setcpu", "migrate"}
    BY <1>1, <1>2 DEF NoPend
  <2> QED
    BY <1>3, <1>4, <1>7, <1>8, <1>10, <2>2, <2>3, <2>4, ChooseObeys DEF n
<1> QED
  BY <1>11, <1>12

(* The second half of sched_setcpu. *)
LEMMA SetcpuDoneObeys ==
  ASSUME Safe, Safe', Homed(Sys, pend), NEW c \in CPU, SetcpuDone(c)
  PROVE  Obeys
<1> DEFINE t    == pend[c].thread
           d    == td[t].cpu
<1>1. /\ pend[c].step = "setcpu" /\ pend' = [pend EXCEPT ![c] = NoPend]
      /\ \E w \in IdleIpi : Becomes(AddTo(Sys, c, d, t, pend[c].flags, w))
  BY DEF SetcpuDone
<1>2. /\ Sound(Sys, pend) /\ Kept(Sys) /\ Sys \in SysType /\ pend \in [CPU -> PendType]
      /\ Sys.cur = cur /\ Sys.td = td
  BY SafeSys, SafeInv
<1>3. /\ t \in Thread /\ Sys.td[t].state = "canrun" /\ Fit(Sys.td[t])
  BY <1>1, <1>2, HandDone DEF Homed
<1>4. d \in CPU /\ Sys.td[t].cpu = d
  BY <1>2, <1>3, SysParts, ThreadParts
<1> HIDE DEF t, d
<1>5. \A e \in CPU : \/ pend'[e] = pend[e]
                     \/ pend'[e].step \notin {"setcpu", "migrate"}
  BY <1>1, <1>2 DEF NoPend
<1>6. Sys.td[t].state \notin {"inactive", "runq"}
  BY <1>3
<1> QED
  BY <1>1, <1>2, <1>3, <1>4, <1>5, <1>6, StartSys, AddObeys

(* tdq_steal returns a thread that the CPU may run; tdq_move takes it there. *)
LEMMA StolenStart ==
  ASSUME Safe, Homed(Sys, pend), NEW c \in CPU, NEW d \in CPU,
         TdqSteal(tdq[d], May(Sys, c)) # NoThread
  PROVE  LET t == TdqSteal(tdq[d], May(Sys, c))
             n == Move(Sys, t, c)
         IN /\ t \in Thread /\ td[t].state = "runq"
            /\ Sound(n, pend) /\ Kept(n) /\ n.cur = cur
            /\ \E m : /\ Start(m) /\ Stays(m, n, t)
                      /\ m.td[t].state # "inactive" /\ Fit(m.td[t])
<1> DEFINE t == TdqSteal(tdq[d], May(Sys, c))
           n == Move(Sys, t, c)
           o == SchedRem(Sys, t)
           r == [o.td[t] EXCEPT !.cpu = c]
           m == SetTd(o, t, r)
<1>1. /\ Sound(Sys, pend) /\ Kept(Sys) /\ Sys.td = td /\ Sys.cur = cur /\ tdq[d] \in GoodTdq
  BY SafeSys
<1>2. t \in Thread /\ td[t].state = "runq"
  BY <1>1, StolenQueued
<1>3. ~ td[t].pinned /\ c \in td[t].mask
  <2>1. t \in May(Sys, c) \cup {NoThread}
    BY <1>1, TdqStealType
  <2> QED
    BY <1>1, <2>1 DEF May
<1> HIDE DEF t
<1>4. Sound(n, pend) /\ Kept(n) /\ n.cur = cur
  BY <1>1, <1>2, MoveSound
<1>5. Stays(m, n, t) /\ Stays(Sys, o, NoThread) /\ o \in SysType
  BY <1>1, <1>2, MoveStays
<1>6. o.td[t].state = "canrun"
  BY <1>1, <1>2, SchedRemPlaces DEF Places
<1> HIDE DEF n, o
<1>7. o.td[t] \in ThreadType /\ SameHome(td[t], o.td[t])
  BY <1>1, <1>2, <1>5, SysParts DEF Stays
<1>8. /\ r.state = "canrun" /\ r.cpu = c /\ r.mask = td[t].mask
      /\ r.pinned = td[t].pinned /\ r.bound = td[t].bound
  BY <1>6, <1>7 DEF ThreadType, SameHome
<1> HIDE DEF r
<1>9. Fit(r) /\ Moves(td[t], r) /\ (r.bound => r.pinned)
  BY <1>1, <1>2, <1>3, <1>8 DEF Fit, Moves, Homed
<1>10. StayBut(Sys, m, t) /\ m.td[t] = r
  <2>1. StayBut(Sys, Sys, t)
    BY DEF StayBut, SameHome
  <2>2. StayBut(Sys, o, t)
    BY <1>5, <2>1, StayButThen
  <2> QED
    BY <1>2, <1>5, <2>2, StayButTd
<1> HIDE DEF m
<1>11. Start(m)
  BY <1>2, <1>8, <1>9, <1>10, StartAnew
<1>12. m.td[t].state # "inactive" /\ Fit(m.td[t])
  BY <1>8, <1>9, <1>10
<1> QED
  BY <1>2, <1>4, <1>5, <1>11, <1>12 DEF n, t

(* The second half of tdq_trysteal. *)
LEMMA TryStealDoneObeys ==
  ASSUME Safe, Safe', Homed(Sys, pend), NEW c \in CPU, TryStealDone(c)
  PROVE  Obeys
<1> DEFINE t(d) == TdqSteal(tdq[d], May(Sys, c))
<1>1. /\ \/ Becomes(Choose(Sys, c))
         \/ \E d \in CPU : t(d) # NoThread /\ Becomes(Choose(Move(Sys, t(d), c), c))
      /\ pend' = [pend EXCEPT ![c] = NoPend]
  BY DEF TryStealDone
<1>2. \A e \in CPU : \/ pend'[e] = pend[e]
                     \/ pend'[e].step \notin {"setcpu", "migrate"}
  BY <1>1, SafeInv DEF NoPend
<1>3. CASE Becomes(Choose(Sys, c))
  <2>1. Start(Sys) /\ Kept(Sys) /\ Sys.cur = cur
    BY StartSys, SafeSys
  <2>2. Stays(Sys, Sys, NoThread)
    BY DEF Stays, SameHome
  <2> QED
    BY <1>2, <1>3, <2>1, <2>2, ChooseObeys
<1>4. ASSUME NEW d \in CPU, t(d) # NoThread, Becomes(Choose(Move(Sys, t(d), c), c))
      PROVE  Obeys
  <2>1. /\ t(d) \in Thread /\ td[t(d)].state = "runq"
        /\ Kept(Move(Sys, t(d), c)) /\ Move(Sys, t(d), c).cur = cur
        /\ \E m : /\ Start(m) /\ Stays(m, Move(Sys, t(d), c), t(d))
                  /\ m.td[t(d)].state # "inactive" /\ Fit(m.td[t(d)])
    BY <1>4, StolenStart
  <2> HIDE DEF t
  <2>2. PICK m : /\ Start(m) /\ Stays(m, Move(Sys, t(d), c), t(d))
                 /\ m.td[t(d)].state # "inactive" /\ Fit(m.td[t(d)])
    BY <2>1
  <2> QED
    BY <1>2, <1>4, <2>1, <2>2, ChooseObeys
<1> QED
  BY <1>1, <1>3, <1>4

(* tdq_idled *)
LEMMA IdleStealObeys ==
  ASSUME Safe, Safe', Homed(Sys, pend), NEW c \in CPU, NEW d \in CPU, IdleSteal(c, d)
  PROVE  Obeys
<1> DEFINE t == TdqSteal(tdq[d], May(Sys, c))
           n == Move(Sys, t, c)
<1>1. t # NoThread /\ SwitchOut(n, c, FALSE) /\ cur[c] = NoThread
  BY DEF IdleSteal
<1>2. /\ t \in Thread /\ td[t].state = "runq" /\ Kept(n) /\ n.cur = cur
      /\ \E m : /\ Start(m) /\ Stays(m, n, t)
                /\ m.td[t].state # "inactive" /\ Fit(m.td[t])
  BY <1>1, StolenStart
<1> HIDE DEF t, n
<1>3. Becomes(Choose(n, c)) /\ pend' = pend
  BY <1>1, <1>2 DEF SwitchOut, Settle
<1>4. PICK m : /\ Start(m) /\ Stays(m, n, t)
               /\ m.td[t].state # "inactive" /\ Fit(m.td[t])
  BY <1>2
<1> QED
  BY <1>2, <1>3, <1>4, ChooseObeys

(* sched_balance_pair *)
LEMMA BalanceObeys ==
  ASSUME Safe, Safe', Homed(Sys, pend), NEW high \in CPU, NEW low \in CPU,
         Balance(high, low)
  PROVE  Obeys
<1> DEFINE t     == TdqSteal(tdq[high], May(Sys, low))
           moved == Move(Sys, t, low)
<1>1. /\ t # NoThread
      /\ \/ Settle(moved)
         \/ \E wired \in IdleIpi : Settle(Notify(moved, low, t, wired))
  BY DEF Balance
<1>2. /\ t \in Thread /\ td[t].state = "runq" /\ Kept(moved) /\ moved.cur = cur
      /\ \E m : /\ Start(m) /\ Stays(m, moved, t)
                /\ m.td[t].state # "inactive" /\ Fit(m.td[t])
  BY <1>1, StolenStart
<1> HIDE DEF t, moved
<1>3. PICK m : /\ Start(m) /\ Stays(m, moved, t)
               /\ m.td[t].state # "inactive" /\ Fit(m.td[t])
  BY <1>2
<1>4. PICK n : Settle(n) /\ Stays(m, n, t) /\ n.cur = cur
  <2>1. CASE Settle(moved)
    BY <1>2, <1>3, <2>1
  <2>2. CASE \E wired \in IdleIpi : Settle(Notify(moved, low, t, wired))
    <3>1. PICK wired \in IdleIpi : Settle(Notify(moved, low, t, wired))
      BY <2>2
    <3>2. /\ Stays(moved, Notify(moved, low, t, wired), t)
          /\ Notify(moved, low, t, wired).cur = moved.cur
      BY <1>2, NotifyAsks
    <3>3. Stays(m, Notify(moved, low, t, wired), t)
      BY <1>3, <3>2, StaysThen
    <3> QED
      BY <1>2, <3>1, <3>2, <3>3
  <2> QED
    BY <1>1, <2>1, <2>2
<1>5. Becomes(n) /\ pend' = pend
  BY <1>4 DEF Settle
<1>6. \A c \in CPU : \/ n.cur[c] = cur[c] \/ n.cur[c] = NoThread
                     \/ /\ n.cur[c] \in Thread /\ n.td[n.cur[c]].cpu = c
                        /\ Fit(n.td[n.cur[c]])
  BY <1>4
<1>7. \A c \in CPU : \/ pend'[c] = pend[c]
                     \/ pend'[c].step \notin {"setcpu", "migrate"}
                     \/ Fit(n.td[pend'[c].thread])
  BY <1>5
<1>8. t # NoThread =>
        /\ m.td[t].state # "inactive" /\ Fit(m.td[t])
        /\ \/ td[t].state = "runq"
           \/ \E e \in CPU : t = cur[e] /\ m.td[t].cpu = e
           \/ Asks(Sys, n, t)
  BY <1>2, <1>3
<1> QED
  BY <1>2, <1>3, <1>4, <1>5, <1>6, <1>7, <1>8, StepObeys

(***************************************************************************)
(* Interrupts, priorities and new threads                                  *)
(***************************************************************************)
(* sched_preempt *)
LEMMA PreemptIpiObeys ==
  ASSUME Safe, Safe', Homed(Sys, pend), NEW c \in CPU, PreemptIpi(c)
  PROVE  Obeys
<1> DEFINE seen == [SetTdq(Sys, c, [tdq[c] EXCEPT !.ipipending = FALSE])
                      EXCEPT !.ipi[c] = FALSE]
           owes == [td[cur[c]] EXCEPT !.owepreempt = TRUE]
<1>1. /\ pend[c].step = "run"
      /\ \/ Settle(seen)
         \/ SwitchOut(seen, c, TRUE)
         \/ cur[c] # NoThread /\ Settle(SetTd(seen, cur[c], owes))
  BY DEF PreemptIpi, OnCpu
<1>2. Sound(seen, pend) /\ seen \in SysType /\ seen.cur = cur /\ seen.td = td
  BY IpiTaken
<1> HIDE DEF seen
<1>3. Quiet(seen)
  BY <1>2, SafeSys DEF Quiet, Stays, SameHome
<1>4. CASE cur[c] # NoThread /\ Settle(SetTd(seen, cur[c], owes))
  <2>1. cur[c] \in Thread /\ td[cur[c]] \in ThreadType
    BY <1>4, SafeSys
  <2>2. Calm(td[cur[c]], owes)
    BY <2>1, FieldsCalm
  <2> HIDE DEF owes
  <2>3. Quiet(SetTd(seen, cur[c], owes))
    BY <1>2, <1>3, <2>1, <2>2, QuietTd
  <2> QED
    BY <1>4, <2>3, QuietObeys
<1> QED
  BY <1>1, <1>2, <1>3, <1>4, QuietObeys, SwitchOutObeys

(* sched_clock *)
LEMMA ClockObeys ==
  ASSUME Safe, Safe', Homed(Sys, pend), NEW c \in CPU, Clock(c)
  PROVE  Obeys
<1> DEFINE t      == cur[c]
           q      == AdvanceCalendar(tdq[c])
           turned == SetTdq(Sys, c, q)
           r(u)   == Charged(td[t], t, tdq[c], u)
<1>1. \/ Settle(turned)
      \/ /\ t # NoThread
         /\ \E u \in UserPris[t] : Settle(SetTd(turned, t, r(u)))
  BY DEF Clock
<1>2. /\ Sys \in SysType /\ Sys.td = td /\ tdq[c] \in GoodTdq
      /\ t \in Thread \cup {NoThread}
  BY SafeSys, SafeInv
<1>3. turned \in SysType /\ turned.td = td /\ Quiet(turned)
  <2>1. q \in GoodTdq
    BY <1>2, AdvanceGood
  <2>2. turned \in SysType
    BY <1>2, <2>1, SetTdqType
  <2>3. Plain(Sys, turned, NoThread) /\ turned.td = Sys.td
    BY <1>2, SetTdqPlain
  <2> QED
    BY <1>2, <2>2, <2>3, QuietSys, QuietThen DEF Plain
<1> HIDE DEF turned
<1>4. ASSUME t # NoThread, NEW u \in UserPris[t], Settle(SetTd(turned, t, r(u)))
      PROVE  Obeys
  <2>1. t \in Thread /\ td[t] \in ThreadType
    BY <1>2, <1>4, SafeSys
  <2>2. Calm(td[t], r(u))
    BY <2>1 DEF Charged, Rescored, Calm, SameHome, ThreadType
  <2> HIDE DEF r, t
  <2>3. Quiet(SetTd(turned, t, r(u)))
    BY <1>3, <2>1, <2>2, QuietTd
  <2> QED
    BY <1>4, <2>3, QuietObeys
<1> QED
  BY <1>1, <1>3, <1>4, QuietObeys

(* sched_exit_thread *)
LEMMA ExitThreadObeys ==
  ASSUME Safe, Safe', Homed(Sys, pend), NEW t \in Thread, ExitThread(t)
  PROVE  Obeys
<1>1. PICK u \in UserPris[t] : Settle(SetTd(Sys, t, Rescored(td[t], u)))
  BY DEF ExitThread
<1>2. Sys \in SysType /\ Sys.td = td /\ td[t] \in ThreadType
  BY SafeSys, SafeInv
<1>3. Calm(td[t], Rescored(td[t], u))
  BY <1>2, FieldsCalm
<1>4. Quiet(SetTd(Sys, t, Rescored(td[t], u)))
  BY <1>2, <1>3, QuietSys, QuietTd
<1> QED
  BY <1>1, <1>4, QuietObeys

(* sched_userret_slowpath *)
LEMMA UserRetObeys ==
  ASSUME Safe, Safe', Homed(Sys, pend), NEW c \in CPU, UserRet(c)
  PROVE  Obeys
<1> DEFINE t   == cur[c]
           r   == td[t]
           n   == [r EXCEPT !.pri = r.user, !.base = r.user]
           out == SetTd(Sys, t, n)
           low == SetLowpri(tdq[c], r.user, Prio(out))
           m   == SetTdq(out, c, low)
<1>1. Busy(c) /\ Settle(m)
  BY DEF UserRet
<1>2. t \in Thread /\ r \in ThreadType /\ Sys \in SysType /\ Sys.td[t] = r /\ r.user \in Pri
  BY <1>1, BusySafe, ThreadParts, SafeSys, SafeInv
<1> HIDE DEF t, r
<1>3. n \in ThreadType /\ Calm(r, n)
  BY <1>2 DEF ThreadType, Calm, SameHome
<1> HIDE DEF n
<1>4. out \in SysType
  BY <1>2, <1>3, SetTdType
<1>5. Quiet(out)
  BY <1>2, <1>3, QuietSys, QuietTd
<1> HIDE DEF out, low
<1>6. Quiet(m)
  BY <1>4, <1>5, SetTdqPlain, QuietThen DEF Plain
<1> HIDE DEF m
<1> QED
  BY <1>1, <1>6, QuietObeys

(* A turnstile lends a priority. *)
LEMMA LendObeys ==
  ASSUME Safe, Safe', Homed(Sys, pend), NEW c \in CPU, NEW t \in Thread, Lend(c, t)
  PROVE  Obeys
<1>1. Busy(c) /\ LendPrio(Sys, c, t, td[cur[c]].pri)
  BY DEF Lend
<1>2. td[cur[c]].pri \in Pri /\ pend[c].step = "run"
  BY <1>1, BusySafe, ThreadParts
<1> QED
  BY <1>1, <1>2, SafeSys, QuietSys, LendPrioObeys

(* sched_unlend_prio *)
LEMMA UnlendObeys ==
  ASSUME Safe, Safe', Homed(Sys, pend), NEW c \in CPU, NEW p \in Pri, Unlend(c, p)
  PROVE  Obeys
<1> DEFINE t    == cur[c]
           r    == td[t]
           base == IF r.base >= MinInteract /\ r.base <= MaxBatch THEN r.user ELSE r.base
           n    == [r EXCEPT !.borrowing = FALSE]
           m    == SetTd(Sys, t, n)
<1>1. /\ Busy(c)
      /\ ThreadPriority(m, c, t, base) \/ LendPrio(Sys, c, t, p)
  BY DEF Unlend
<1>2. t \in Thread /\ r \in ThreadType /\ pend[c].step = "run"
  BY <1>1, BusySafe
<1>3. Sound(Sys, pend) /\ Sys.td[t] = r /\ Quiet(Sys) /\ Sys \in SysType
  BY SafeSys, QuietSys, SafeInv
<1> HIDE DEF t, r
<1>4. base \in Pri
  BY <1>2, ThreadParts
<1>5. n \in ThreadType /\ SamePlace(r, n)
  BY <1>2, <1>4, FieldsSame
<1>6. Calm(r, n)
  BY <1>2, FieldsCalm
<1> HIDE DEF base, n
<1>7. Sound(m, pend)
  BY <1>2, <1>3, <1>5, HeldTd
<1>8. Quiet(m)
  BY <1>2, <1>3, <1>6, QuietTd
<1> HIDE DEF m
<1>9. CASE ThreadPriority(m, c, t, base)
  BY <1>2, <1>4, <1>7, <1>8, <1>9, ThreadPriorityObeys
<1>10. CASE LendPrio(Sys, c, t, p)
  BY <1>2, <1>3, <1>10, LendPrioObeys
<1> QED
  BY <1>1, <1>9, <1>10

(* sched_nice *)
LEMMA NiceObeys ==
  ASSUME Safe, Safe', Homed(Sys, pend), NEW c \in CPU, NEW t \in Thread, Nice(c, t)
  PROVE  Obeys
<1> DEFINE r(u) == Rescored(td[t], u)
           m(u) == SetTd(Sys, t, r(u))
<1>1. PICK u \in UserPris[t] : SchedPrio(m(u), c, t, u)
  BY DEF Nice
<1>2. u \in Pri /\ pend[c].step = "run"
  BY <1>1, UserPrisPri DEF Nice, Busy, OnCpu
<1>3. Sound(Sys, pend) /\ Sys.td[t] = td[t] /\ td[t] \in ThreadType /\ Sys \in SysType
  BY SafeSys, SafeInv
<1>4. r(u) \in ThreadType /\ SamePlace(td[t], r(u))
  BY <1>2, <1>3, FieldsSame
<1>5. Calm(td[t], r(u))
  BY <1>3, FieldsCalm
<1> HIDE DEF r
<1>6. Sound(m(u), pend)
  BY <1>3, <1>4, HeldTd
<1>7. Quiet(m(u))
  BY <1>3, <1>5, QuietSys, QuietTd
<1> HIDE DEF m
<1> QED
  BY <1>1, <1>2, <1>6, <1>7, SchedPrioObeys

(* sched_wakeup *)
LEMMA WakeupObeys ==
  ASSUME Safe, Safe', Homed(Sys, pend), NEW c \in CPU, NEW t \in Thread, Wakeup(c, t)
  PROVE  Obeys
<1> DEFINE r(d, u) == [Rescored(td[t], u) EXCEPT !.slice = 0, !.state = "canrun",
                                                !.cpu = d]
           m(d, u) == SetTd(Sys, t, r(d, u))
<1>1. /\ Lockable(t) /\ td[t].state = "sleeping"
      /\ \E d \in PickCpu(td[t]), u \in UserPris[t], wired \in IdleIpi :
           Settle(AddTo(m(d, u), c, d, t, {}, wired))
  BY DEF Wakeup
<1>2. /\ Sound(Sys, pend) /\ Sys.td = td /\ Sys.cur = cur /\ td[t] \in ThreadType
      /\ Sys \in SysType
  BY SafeSys, SafeInv
<1>3. Loose(Sys, pend, t)
  BY <1>1, <1>2, UnlockedLoose DEF Lockable
<1>4. PICK d \in PickCpu(td[t]), u \in UserPris[t], wired \in IdleIpi :
        Settle(AddTo(m(d, u), c, d, t, {}, wired))
  BY <1>1
<1>5. d \in CPU /\ u \in Pri
  BY <1>2, <1>4, ThreadParts, UserPrisPri DEF PickCpu
<1>6. /\ r(d, u) \in ThreadType /\ r(d, u).state = "canrun" /\ r(d, u).cpu = d
      /\ r(d, u).mask = td[t].mask /\ r(d, u).pinned = td[t].pinned
      /\ r(d, u).bound = td[t].bound
  <2>1. Rescored(td[t], u) \in ThreadType /\ Calm(td[t], Rescored(td[t], u))
    BY <1>2, <1>5, RescoredType, FieldsCalm
  <2>2. 0 \in Int
    OBVIOUS
  <2>3. r(d, u) \in ThreadType
    BY <1>5, <2>1, <2>2, FieldsType
  <2> QED
    BY <2>1, <2>3 DEF ThreadType, Calm, SameHome
<1> HIDE DEF r
<1>7. Fit(r(d, u)) /\ Moves(td[t], r(d, u)) /\ (r(d, u).bound => r(d, u).pinned)
  <2>1. td[t].bound => td[t].pinned
    BY <1>2 DEF Homed
  <2>2. IF td[t].pinned THEN d = td[t].cpu ELSE d \in td[t].mask
    BY <1>4 DEF PickCpu
  <2> QED
    BY <1>6, <2>1, <2>2 DEF Fit, Moves
<1>8. StayBut(Sys, m(d, u), t) /\ m(d, u).td[t] = r(d, u) /\ m(d, u).cur = cur
  <2>1. StayBut(Sys, Sys, t)
    BY DEF StayBut, SameHome
  <2> QED
    BY <1>2, <2>1, StayButTd
<1>9. Kept(m(d, u))
  <2>1. Alike(Sys.td[t], r(d, u)) /\ r(d, u).state # "running"
    BY <1>1, <1>2, <1>6 DEF Alike
  <2> QED
    BY <1>2, <1>3, <1>6, <2>1, LooseTd DEF Sound
<1> HIDE DEF m
<1>10. Start(m(d, u))
  BY <1>6, <1>7, <1>8, StartAnew
<1>11. Becomes(AddTo(m(d, u), c, d, t, {}, wired)) /\ pend' = pend
  BY <1>4 DEF Settle
<1>12. /\ m(d, u).td[t].state \notin {"inactive", "runq"}
       /\ Fit(m(d, u).td[t]) /\ m(d, u).td[t].cpu = d
  BY <1>6, <1>7, <1>8
<1> QED
  BY <1>5, <1>8, <1>9, <1>10, <1>11, <1>12, AddObeys

(* sched_fork and the sched_add that follows. *)
LEMMA ForkObeys ==
  ASSUME Safe, Safe', Homed(Sys, pend), NEW c \in CPU, NEW t \in Thread, Fork(c, t)
  PROVE  Obeys
<1> DEFINE p      == cur[c]
           parent == td[p]
           slice  == TdqSlice(tdq[c]) - SliceMin
           child(u, d) == [Unborn(t) EXCEPT
                             !.state = "canrun", !.pri = parent.base,
                             !.base = parent.base, !.user = u, !.cpu = d,
                             !.mask = parent.mask, !.slice = slice]
           m(v)   == SetTd(Sys, p, Rescored(parent, v))
           n(u, v, d) == SetTd(m(v), t, child(u, d))
<1>1. /\ Busy(c) /\ td[t].state = "inactive"
      /\ \E v \in UserPris[p], u \in UserPris[t], wired \in IdleIpi :
         \E d \in parent.mask : Settle(AddTo(n(u, v, d), c, d, t, {}, wired))
  BY DEF Fork
<1>2. /\ Sound(Sys, pend) /\ Sys.td = td /\ Sys.cur = cur /\ Sys \in SysType
  BY SafeSys, SafeInv
<1>3. p \in Thread /\ parent \in ThreadType /\ parent.state = "running"
  BY <1>1, BusySafe
<1>4. slice \in Int
  <2>1. TdqSlice(tdq[c]) \in Int
    BY SafeSys, TdqSliceInt
  <2> QED
    BY <2>1, TdqAssumption
<1>5. Loose(Sys, pend, t)
  BY <1>1, <1>2, StandsApart DEF Sound, Settled, Loose
<1>6. p # t /\ parent = Sys.td[p]
  BY <1>1, <1>2, <1>3
<1> HIDE DEF p, parent, slice
<1>7. PICK v \in UserPris[p], u \in UserPris[t], wired \in IdleIpi :
        \E d \in parent.mask : Settle(AddTo(n(u, v, d), c, d, t, {}, wired))
  BY <1>1
<1>8. PICK d \in parent.mask : Settle(AddTo(n(u, v, d), c, d, t, {}, wired))
  BY <1>7
<1>9. d \in CPU /\ u \in Pri /\ v \in Pri
  BY <1>3, <1>7, <1>8, ThreadParts, UserPrisPri
<1>10. /\ child(u, d) \in ThreadType /\ child(u, d).state = "canrun"
       /\ child(u, d).cpu = d /\ child(u, d).mask = parent.mask /\ ~ child(u, d).bound
  <2>1. Unborn(t) \in ThreadType
    BY UnbornType
  <2>2. parent.base \in Pri /\ parent.mask \in (SUBSET CPU) \ {{}}
    BY <1>3, ThreadParts
  <2>3. child(u, d) \in ThreadType /\ child(u, d).state = "canrun" /\ child(u, d).cpu = d
    BY <1>4, <1>9, <2>1, <2>2 DEF ThreadType
  <2>4. child(u, d).mask = parent.mask /\ ~ child(u, d).bound
    BY DEF Unborn
  <2> QED
    BY <2>3, <2>4
<1> HIDE DEF child
<1>11. /\ Rescored(parent, v) \in ThreadType /\ SamePlace(parent, Rescored(parent, v))
       /\ Calm(parent, Rescored(parent, v))
  <2>1. TRUE \in BOOLEAN
    OBVIOUS
  <2>2. Rescored(parent, v) \in ThreadType /\ SamePlace(parent, Rescored(parent, v))
    BY <1>3, <1>9, <2>1, FieldsSame
  <2> QED
    BY <1>3, <2>2, FieldsCalm
<1>12. Sound(m(v), pend) /\ m(v).cur = Sys.cur
  BY <1>2, <1>3, <1>6, <1>11, HeldTd
<1>13. StayBut(Sys, m(v), t)
  <2>1. Quiet(m(v))
    BY <1>2, <1>3, <1>6, <1>11, QuietSys, QuietTd
  <2>2. StayBut(Sys, Sys, t)
    BY DEF StayBut, SameHome
  <2> QED
    BY <2>1, <2>2, StayButThen DEF Quiet
<1>14. m(v).td[t] = Sys.td[t]
  BY <1>2, <1>6 DEF SetTd, SysType
<1> HIDE DEF m
<1>15. Loose(m(v), pend, t)
  BY <1>5, <1>12 DEF Loose
<1>16. Kept(n(u, v, d))
  <2>1. Alike(m(v).td[t], child(u, d)) /\ child(u, d).state # "running"
    BY <1>1, <1>2, <1>10, <1>14 DEF Alike
  <2> QED
    BY <1>10, <1>12, <1>15, <2>1, LooseTd DEF Sound
<1>17. /\ StayBut(Sys, n(u, v, d), t) /\ n(u, v, d).td[t] = child(u, d)
       /\ n(u, v, d).cur = cur
  BY <1>2, <1>12, <1>13, StayButTd DEF Sound, Kept
<1> HIDE DEF n
<1>18. Fit(child(u, d)) /\ Moves(td[t], child(u, d))
  BY <1>1, <1>8, <1>10 DEF Fit, Moves
<1>19. Start(n(u, v, d))
  BY <1>10, <1>17, <1>18, StartAnew
<1>20. Becomes(AddTo(n(u, v, d), c, d, t, {}, wired)) /\ pend' = pend
  BY <1>8 DEF Settle
<1>21. /\ n(u, v, d).td[t].state \notin {"inactive", "runq"}
       /\ Fit(n(u, v, d).td[t]) /\ n(u, v, d).td[t].cpu = d
  BY <1>10, <1>17, <1>18
<1> QED
  BY <1>9, <1>16, <1>17, <1>19, <1>20, <1>21, AddObeys

(***************************************************************************)
(* Affinity                                                                *)
(***************************************************************************)
(* A step that changes the record of t, which no CPU has in transit.       *)
LEMMA RecordStart ==
  ASSUME Safe, Homed(Sys, pend), NEW t \in Thread, \A c \in CPU : pend[c].thread # t,
         NEW r, Moves(td[t], r), r.bound => r.pinned,
         r.state = "runq" => Fit(r) /\ td[t].state = "runq"
  PROVE  /\ Start(SetTd(Sys, t, r)) /\ SetTd(Sys, t, r).cur = cur
         /\ StayBut(Sys, SetTd(Sys, t, r), t) /\ SetTd(Sys, t, r).td[t] = r
<1> DEFINE m == SetTd(Sys, t, r)
<1>1. Sys \in SysType /\ Sys.cur = cur
  BY SafeSys, SafeInv
<1>2. StayBut(Sys, Sys, t)
  BY DEF StayBut, SameHome
<1>3. StayBut(Sys, m, t) /\ m.td[t] = r /\ m.cur = cur
  BY <1>1, <1>2, StayButTd
<1> HIDE DEF m
<1>4. Start(m)
  BY <1>3, StartAnew
<1> QED
  BY <1>3, <1>4 DEF m

(* And ends there. *)
LEMMA RecordObeys ==
  ASSUME Safe, Safe', NEW m, Start(m), m.cur = cur, Settle(m)
  PROVE  Obeys
<1>1. Stays(m, m, NoThread)
  BY DEF Stays, SameHome
<1> QED
  BY <1>1, StayObeys

(* No CPU has the current thread of a busy one in transit. *)
LEMMA BusyAlone ==
  ASSUME Safe, NEW c \in CPU, Busy(c)
  PROVE  \A d \in CPU : pend[d].thread # cur[c]
<1>1. Nearly(Sys, pend, c) /\ Sys.cur = cur /\ pend[c].step = "run" /\ cur[c] # NoThread
  BY BusySafe, SafeSys
<1>2. \A d \in CPU \ {c} : pend[d].thread # cur[c]
  BY <1>1, NearlyApart
<1>3. pend[c].thread = NoThread
  BY <1>1, SafeInv, PendSteps
<1> QED
  BY <1>1, <1>2, <1>3

(* sched_pin, sched_unpin and sched_unbind *)
LEMMA PinObeys ==
  ASSUME Safe, Safe', Homed(Sys, pend), NEW c \in CPU, Pin(c) \/ Unpin(c) \/ Unbind(c)
  PROVE  Obeys
<1> DEFINE t == cur[c]
<1>1. /\ Busy(c)
      /\ \/ Settle(SetTd(Sys, t, [td[t] EXCEPT !.pinned = TRUE]))
         \/ /\ ~ td[t].bound
            /\ Settle(SetTd(Sys, t, [td[t] EXCEPT !.pinned = FALSE]))
         \/ Settle(SetTd(Sys, t, [td[t] EXCEPT !.bound = FALSE, !.pinned = FALSE]))
  BY DEF Pin, Unpin, Unbind
<1>2. /\ t \in Thread /\ td[t] \in ThreadType /\ td[t].state = "running"
      /\ \A d \in CPU : pend[d].thread # t
  BY <1>1, BusySafe, BusyAlone
<1> HIDE DEF t
<1>3. PICK r : /\ Settle(SetTd(Sys, t, r)) /\ r.state = "running"
               /\ r.cpu = td[t].cpu /\ (r.bound => r.pinned)
  <2>1. CASE Settle(SetTd(Sys, t, [td[t] EXCEPT !.pinned = TRUE]))
    BY <1>2, <2>1 DEF ThreadType
  <2>2. CASE ~ td[t].bound /\ Settle(SetTd(Sys, t, [td[t] EXCEPT !.pinned = FALSE]))
    BY <1>2, <2>2 DEF ThreadType
  <2>3. CASE Settle(SetTd(Sys, t, [td[t] EXCEPT !.bound = FALSE, !.pinned = FALSE]))
    <3> DEFINE x == [td[t] EXCEPT !.bound = FALSE, !.pinned = FALSE]
    <3>1. x.state = "running" /\ x.cpu = td[t].cpu /\ ~ x.bound
      BY <1>2 DEF ThreadType
    <3>2. Settle(SetTd(Sys, t, x))
      BY <2>3
    <3> HIDE DEF x
    <3> QED
      BY <3>1, <3>2

  <2> QED
    BY <1>1, <2>1, <2>2, <2>3
<1>4. Moves(td[t], r)
  BY <1>3 DEF Moves
<1>5. Start(SetTd(Sys, t, r)) /\ SetTd(Sys, t, r).cur = cur
  BY <1>2, <1>3, <1>4, RecordStart
<1> QED
  BY <1>3, <1>5, RecordObeys

(* sched_bind *)
LEMMA BindObeys ==
  ASSUME Safe, Safe', Homed(Sys, pend), NEW c \in CPU, NEW d \in CPU, Bind(c, d)
  PROVE  Obeys
<1> DEFINE t     == cur[c]
           bound == [td[t] EXCEPT !.bound = TRUE, !.pinned = TRUE]
           away  == [bound EXCEPT !.cpu = d]
           m     == SetTd(Sys, t, away)
<1>1. /\ Busy(c)
      /\ \/ Settle(SetTd(Sys, t, bound))
         \/ SwitchOut(m, c, FALSE)
  BY DEF Bind
<1>2. /\ Sys.td = td /\ Sys.cur = cur /\ Nearly(Sys, pend, c)
      /\ t \in Thread /\ td[t] \in ThreadType /\ td[t].state = "running"
      /\ t # NoThread /\ pend[c].step = "run" /\ \A e \in CPU : pend[e].thread # t
  BY <1>1, BusySafe, SafeSys, BusyAlone
<1>3. t = Sys.cur[c]
  BY <1>2
<1> HIDE DEF t
<1>4. /\ bound \in ThreadType /\ bound.state = "running" /\ bound.pri = td[t].pri
      /\ bound.cpu = td[t].cpu /\ bound.pinned /\ bound.bound
  <2>1. bound \in ThreadType
    BY <1>2, FlagsType
  <2> QED
    BY <1>2, <2>1 DEF ThreadType
<1> HIDE DEF bound
<1>5. /\ away \in ThreadType /\ away.state = "running" /\ away.pri = td[t].pri
      /\ away.pinned /\ away.bound
  <2>1. away \in ThreadType
    BY <1>4, FlagsType
  <2> QED
    BY <1>4, <2>1 DEF ThreadType
<1> HIDE DEF away
<1>6. CASE Settle(SetTd(Sys, t, bound))
  <2>1. Moves(td[t], bound)
    BY <1>4 DEF Moves
  <2>2. Start(SetTd(Sys, t, bound)) /\ SetTd(Sys, t, bound).cur = cur
    BY <1>2, <1>4, <2>1, RecordStart
  <2> QED
    BY <1>6, <2>2, RecordObeys
<1>7. CASE SwitchOut(m, c, FALSE)
  <2>1. Moves(td[t], away)
    BY <1>5 DEF Moves
  <2>2. Start(m) /\ m.cur = cur
    BY <1>2, <1>5, <2>1, RecordStart
  <2>3. Nearly(m, pend, c) /\ m.td[t] = away
    BY <1>2, <1>3, <1>5, NearlyTd
  <2> HIDE DEF m
  <2>4. m.cur[c] = t /\ cur[c] = t /\ m.td[cur[c]].pinned
    BY <1>2, <1>3, <1>5, <2>2, <2>3
  <2>5. SwitchRunning(m, c, FALSE)
    BY <1>2, <1>7, <2>4 DEF SwitchOut
  <2> QED
    BY <1>2, <2>2, <2>3, <2>4, <2>5, SwitchRunningObeys
<1> QED
  BY <1>1, <1>6, <1>7

(* sched_affinity *)
LEMMA AffinityObeys ==
  ASSUME Safe, Safe', Homed(Sys, pend), NEW c \in CPU, NEW t \in Thread, NEW m \in Masks,
         Affinity(c, t, m)
  PROVE  Obeys
<1> DEFINE r    == [td[t] EXCEPT !.mask = m]
           out  == SetTd(Sys, t, r)
           n    == [r EXCEPT !.needresched = TRUE]
           told == SetTd(Sys, t, n)
           sent == [told EXCEPT !.ipi[r.cpu] = TRUE]
<1>1. /\ pend[c].step = "run" /\ \A e \in CPU : pend[e].thread # t
      /\ \/ r.state = "runq" /\ Readd(out, c, t, r.pri, {})
         \/ r.state = "running" /\ (Settle(told) \/ Settle(sent))
         \/ (r.state = "runq" => r.cpu \in m) /\ Settle(out)
  BY DEF Affinity, OnCpu, Lockable
<1>2. m \in (SUBSET CPU) \ {{}} /\ Sound(Sys, pend) /\ Sys.td = td /\ td[t] \in ThreadType
  BY SafeSys, UleAssumption
<1>3. /\ r \in ThreadType /\ r.state = td[t].state /\ r.cpu = td[t].cpu /\ r.mask = m
      /\ r.pinned = td[t].pinned /\ r.bound = td[t].bound /\ SamePlace(td[t], r)
  BY <1>2 DEF ThreadType, SamePlace
<1> HIDE DEF r
<1>4. n.state = r.state /\ n.cpu = r.cpu /\ n.pinned = r.pinned /\ n.bound = r.bound
  BY <1>3 DEF ThreadType
<1> HIDE DEF n
<1>5. td[t].bound => td[t].pinned
  BY <1>2 DEF Homed
<1>6. Moves(td[t], r) /\ Moves(td[t], n)
  BY <1>3, <1>4 DEF Moves
<1>7. CASE r.state = "runq" /\ Readd(out, c, t, r.pri, {})
  <2>1. Sound(out, pend) /\ out.cur = Sys.cur
    BY <1>2, <1>3, HeldTd
  <2>2. StayBut(Sys, out, t) /\ out.td[t] = r
    <3>1. StayBut(Sys, Sys, t)
      BY DEF StayBut, SameHome
    <3> QED
      BY <3>1, SafeInv, StayButTd
  <2>3. r.pri \in Pri /\ {} \in SUBSET Flag
    BY <1>3, ThreadParts
  <2> HIDE DEF out
  <2>4. out.cur = cur /\ out.td[t].state = "runq" /\ td[t].state = "runq"
    BY <1>3, <1>7, <2>1, <2>2, SafeSys
  <2>5. /\ out.td[t].cpu = td[t].cpu /\ out.td[t].pinned = td[t].pinned
        /\ out.td[t].bound = td[t].bound
    BY <1>3, <2>2
  <2> QED
    BY <1>1, <1>7, <2>1, <2>2, <2>3, <2>4, <2>5, ReaddObeys
<1>8. CASE r.state = "running" /\ (Settle(told) \/ Settle(sent))
  <2>1. n.state # "runq" /\ (n.bound => n.pinned)
    BY <1>3, <1>4, <1>5, <1>8
  <2>2. Start(told) /\ told.cur = cur
    BY <1>1, <1>6, <2>1, RecordStart
  <2> HIDE DEF told
  <2>3. sent.cur = told.cur /\ sent.td = told.td
    OBVIOUS
  <2> HIDE DEF sent
  <2>4. Stays(told, sent, NoThread)
    BY <2>3 DEF Stays, SameHome
  <2> QED
    BY <1>8, <2>2, <2>3, <2>4, RecordObeys, StayObeys
<1>9. CASE (r.state = "runq" => r.cpu \in m) /\ Settle(out)
  <2>1. /\ r.state = "runq" => Fit(r) /\ td[t].state = "runq"
        /\ r.bound => r.pinned
    BY <1>3, <1>5, <1>9 DEF Fit
  <2>2. Start(out) /\ out.cur = cur
    BY <1>1, <1>6, <2>1, RecordStart
  <2> HIDE DEF out
  <2> QED
    BY <1>9, <2>2, RecordObeys
<1> QED
  BY <1>1, <1>7, <1>8, <1>9

(***************************************************************************)
(* The action properties of the scheduler                                  *)
(***************************************************************************)
(* Nobody waits when the machine boots. *)
LEMMA InitHomed ==
  ASSUME Init
  PROVE  Homed(Sys, pend)
<1>1. Sys.td = td
  BY DEF Sys
<1>2. \A t \in Thread : ~ td[t].bound /\ td[t].state # "runq"
  BY DEF Init, Unborn
<1>3. \A c \in CPU : pend[c].step = "run"
  <2>1. pend = [c \in CPU |-> NoPend]
    BY DEF Init
  <2>2. NoPend.step = "run"
    BY DEF NoPend
  <2> QED
    BY <2>1, <2>2
<1> QED
  BY <1>1, <1>2, <1>3 DEF Homed

(* Every step moves, dispatches and asks as it must. *)
LEMMA NextObeys ==
  ASSUME Safe, Safe', Homed(Sys, pend), [Next]_vars
  PROVE  Obeys
<1>1. ASSUME NEW c \in CPU, Switch(c)
      PROVE  Obeys
  BY <1>1, YieldObeys, AstObeys, SleepObeys, ExitObeys DEF Switch
<1>2. ASSUME NEW c \in CPU, Finish(c)
      PROVE  Obeys
  BY <1>2, MigrateDoneObeys, SetcpuDoneObeys, TryStealDoneObeys DEF Finish
<1>3. ASSUME NEW c \in CPU, Interrupt(c)
      PROVE  Obeys
  BY <1>3, PreemptIpiObeys, ClockObeys, WakeupObeys DEF Interrupt
<1>4. ASSUME NEW c \in CPU, Idle(c)
      PROVE  Obeys
  BY <1>4, YieldObeys, IdleStealObeys DEF Idle
<1>5. ASSUME NEW c \in CPU, Reprioritise(c)
      PROVE  Obeys
  BY <1>5, UserRetObeys, UnlendObeys, LendObeys, NiceObeys DEF Reprioritise
<1>6. ASSUME NEW c \in CPU, Reassign(c)
      PROVE  Obeys
  BY <1>6, PinObeys, BindObeys, AffinityObeys, UleAssumption DEF Reassign
<1>7. ASSUME NEW c \in CPU, NEW t \in Forks, Fork(c, t)
      PROVE  Obeys
  BY <1>7, ForkObeys, UleAssumption
<1>8. ASSUME NEW t \in Thread, ExitThread(t)
      PROVE  Obeys
  BY <1>8, ExitThreadObeys
<1>9. ASSUME NEW high \in CPU, NEW low \in CPU, Balance(high, low)
      PROVE  Obeys
  BY <1>9, BalanceObeys
<1>10. CASE UNCHANGED vars
  <2>1. Sys' = Sys /\ pend' = pend /\ td' = td /\ cur' = cur
    BY <1>10 DEF Sys, vars
  <2>2. Homed(Sys, pend)'
    BY <2>1 DEF Homed
  <2>3. \A c \in CPU, t \in Thread : PreemptionOwed(c, t)
    BY <2>1 DEF PreemptionOwed, Queued
  <2>4. \A t \in Thread : MoveAllowed(t)
    BY <2>1 DEF MoveAllowed
  <2>5. \A c \in CPU : DispatchAllowed(c)
    BY <2>1 DEF DispatchAllowed
  <2> QED
    BY <2>2, <2>3, <2>4, <2>5 DEF Obeys
<1> QED
  BY <1>1, <1>2, <1>3, <1>4, <1>5, <1>6, <1>7, <1>8, <1>9, <1>10 DEF Next

(* Threads move to, and are dispatched on, only the CPUs they may use,     *)
(* through every change of mask, binding, theft and migration: a thread    *)
(* that waits, or is on its way to a queue, is always where it may be.     *)
THEOREM AffinityIsKept == Spec => AffinityKept
<1>1. Init => Homed(Sys, pend)
  BY InitHomed
<1>2. Safe /\ Safe' /\ Homed(Sys, pend) /\ [Next]_vars => Homed(Sys, pend)'
  BY NextObeys DEF Obeys
<1>3. Safe /\ Safe' /\ Homed(Sys, pend) /\ [Next]_vars
        => (\A t \in Thread : MoveAllowed(t)) /\ (\A c \in CPU : DispatchAllowed(c))
  BY NextObeys DEF Obeys
<1> QED
  BY <1>1, <1>2, <1>3, Safety, PTL DEF Spec, AffinityKept

(* A thread that joins a queue with a better priority than the CPU's       *)
(* current thread, and within a threshold that is not 0, leaves that CPU   *)
(* with a preemption owed or an interrupt on its way, also when            *)
(* tdq_notify sends none because one was marked before.                    *)
THEOREM PreemptionIsAsked == Spec => PreemptionAsked
<1>1. Init => Homed(Sys, pend)
  BY InitHomed
<1>2. Safe /\ Safe' /\ Homed(Sys, pend) /\ [Next]_vars => Homed(Sys, pend)'
  BY NextObeys DEF Obeys
<1>3. Safe /\ Safe' /\ Homed(Sys, pend) /\ [Next]_vars
        => \A c \in CPU, t \in Thread : PreemptionOwed(c, t)
  BY NextObeys DEF Obeys
<1> QED
  BY <1>1, <1>2, <1>3, Safety, PTL DEF Spec, PreemptionAsked

=============================================================================
