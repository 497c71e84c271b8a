-------------------------------- MODULE Tdq ---------------------------------
(***************************************************************************)
(* The thread queue of one CPU (struct tdq): three run queues, the two     *)
(* indexes of the timeshare calendar, and the counters other CPUs read.    *)
(* Policy says which scheduler file is linked: "PRI" for sched_ule_pri.c,  *)
(* "SPLATTER" for sched_ule_splatter.c.  Operators take the queue q, and   *)
(* the priorities prio : [Thread -> Pri] where the order of a list may     *)
(* depend on them.                                                         *)
(***************************************************************************)
EXTENDS Runq

CONSTANTS
  Policy,
  MinInteract,   \* PRI_MIN_INTERACT (120): better ones are kernel threads
  MinBatch,      \* PRI_MIN_BATCH (152)
  MaxBatch,      \* PRI_MAX_BATCH (223); idle priorities follow
  MaxPri,        \* PRI_MAX_IDLE (255), the priority of the idle thread
  PreemptThresh, \* preempt_thresh
  StealThresh,   \* steal_thresh
  Slice,         \* sched_slice, in ticks
  SliceMin,      \* sched_slice_min
  SliceDivisor   \* SCHED_SLICE_MIN_DIVISOR

ASSUME TdqAssumption ==
  /\ Policy \in {"PRI", "SPLATTER"}
  /\ MinInteract \in Nat /\ MinBatch \in Nat /\ MaxBatch \in Nat /\ MaxPri \in Nat
  /\ MinInteract < MinBatch /\ MinBatch <= MaxBatch /\ MaxBatch < MaxPri
  /\ MaxPri < NQS * PPQ
  /\ PreemptThresh \in Int
  /\ StealThresh \in Nat
  /\ Slice \in Nat \ {0} /\ SliceMin \in Nat \ {0} /\ SliceDivisor \in Nat \ {0}

(* The splatter build draws a number below NQS and compares it with the    *)
(* priority bounds: every draw is below PRI_MIN_BATCH.                     *)
ASSUME SplatterAssumption == Policy = "SPLATTER" => NQS <= MinBatch

Pri == 0 .. MaxPri
BatchRange == MaxBatch - MinBatch + 1
RunqName == {"realtime", "timeshare", "idle"}
Flag == {"BORROWING", "PREEMPTED"}

TdqType ==
  [rq : [RunqName -> RunqType], idx : Idx, ridx : Idx, load : Int,
   transferable : Int, lowpri : Pri, ipipending : BOOLEAN]

(* tdq_setup, for a CPU whose idle thread runs. *)
EmptyTdq ==
  [rq |-> [r \in RunqName |-> EmptyRunq], idx |-> 0, ridx |-> 0, load |-> 0,
   transferable |-> 0, lowpri |-> MaxPri, ipipending |-> FALSE]

(***************************************************************************)
(* tdq_runq_add: which run queue a priority belongs to, and where in it.   *)
(***************************************************************************)
RunqOf(pri) ==
  IF Policy = "SPLATTER" \/ pri < MinBatch THEN "realtime"
  ELSE IF pri <= MaxBatch THEN "timeshare"
  ELSE "idle"

(* The calendar: a batch priority is a distance from the insert index idx. *)
(* While the removal index ridx lags behind, its list takes nobody but     *)
(* threads that were preempted or lent a priority.                         *)
CalendarSlot(q, pri, flags) ==
  LET slot == ((NQS * (pri - MinBatch)) \div BatchRange + q.idx) % NQS IN
  IF flags \cap {"BORROWING", "PREEMPTED"} # {} THEN q.ridx
  ELSE IF q.ridx # q.idx /\ slot = q.ridx THEN (slot - 1) % NQS
  ELSE slot

SlotOf(q, pri, flags) ==
  IF RunqOf(pri) = "timeshare" THEN CalendarSlot(q, pri, flags)
  ELSE pri \div PPQ

(* tdq_runq_add; movable is THREAD_CAN_MIGRATE(t). *)
Enqueue(q, t, flags, prio, movable) ==
  LET r == RunqOf(prio[t]) IN
  [q EXCEPT
     !.rq[r] = RunqAddPri(@, t, SlotOf(q, prio[t], flags), flags, prio),
     !.transferable = @ + IF movable THEN 1 ELSE 0]

(* Mutant of Dequeue: the removal index may pass the insert index. *)
DequeueRunsAhead(q, t, r, i, xferable) ==
  [q EXCEPT
     !.rq[r] = RunqRemove(@, t, i),
     !.ridx = IF r = "timeshare" THEN RemoveIdx(q.rq[r], t, i, @) ELSE @,
     !.transferable = @ - IF xferable THEN 1 ELSE 0]

(* tdq_runq_rem of t from list i of run queue r; xferable is TSF_XFERABLE. *)
Dequeue(q, t, r, i, xferable) ==
  [q EXCEPT
     !.rq[r] = RunqRemove(@, t, i),
     !.ridx = IF r = "timeshare" /\ q.idx # q.ridx
              THEN RemoveIdx(q.rq[r], t, i, @) ELSE @,
     !.transferable = @ - IF xferable THEN 1 ELSE 0]

(* tdq_choose *)
TdqChoose(q) ==
  LET realtime  == RunqChoose(q.rq["realtime"])
      timeshare == RunqChooseFrom(q.rq["timeshare"], q.ridx)
  IN IF realtime # NoThread THEN realtime
     ELSE IF timeshare # NoThread THEN timeshare
     ELSE RunqChoose(q.rq["idle"])

(* tdq_steal *)
TdqSteal(q, may) ==
  LET realtime  == RunqSteal(q.rq["realtime"], may)
      timeshare == RunqStealFrom(q.rq["timeshare"], may, q.ridx)
  IN IF realtime # NoThread THEN realtime
     ELSE IF timeshare # NoThread THEN timeshare
     ELSE RunqSteal(q.rq["idle"], may)

(* tdq_setlowpri for a CPU whose current thread has priority curpri. *)
SetLowpri(q, curpri, prio) ==
  LET best == TdqChoose(q) IN
  [q EXCEPT !.lowpri = IF best = NoThread THEN curpri
                       ELSE IF prio[best] > curpri THEN curpri
                       ELSE prio[best]]

(* Mutant of AdvanceCalendar: the indexes wait for their list to empty. *)
AdvanceWhenDrained(q) ==
  IF q.idx # q.ridx \/ q.rq["timeshare"].queues[q.ridx] # <<>> THEN q
  ELSE [q EXCEPT !.idx = (q.idx + 1) % NQS, !.ridx = (q.idx + 1) % NQS]

(* The part of sched_clock that turns the calendar. *)
AdvanceCalendar(q) ==
  IF q.idx # q.ridx THEN q
  ELSE LET next == (q.idx + 1) % NQS IN
       [q EXCEPT !.idx = next,
                 !.ridx = IF q.rq["timeshare"].queues[@] = <<>> THEN next ELSE @]

(* tdq_slice, with every thread counted in sysload. *)
TdqSlice(q) ==
  LET others == q.load - 1 IN
  IF others >= SliceDivisor THEN SliceMin
  ELSE IF others <= 1 THEN Slice
  ELSE Slice \div others

(* Mutant of ShouldPreempt: the threshold itself does not preempt. *)
ShouldPreemptBelow(pri, cpri, remote) ==
  /\ pri < cpri
  /\ \/ cpri > MaxBatch
     \/ /\ PreemptThresh # 0
        /\ \/ pri < PreemptThresh
           \/ remote /\ pri < MinBatch /\ cpri >= MinBatch

(* sched_shouldpreempt *)
ShouldPreempt(pri, cpri, remote) ==
  /\ pri < cpri
  /\ \/ cpri > MaxBatch
     \/ /\ PreemptThresh # 0
        /\ \/ pri <= PreemptThresh
           \/ remote /\ pri < MinBatch /\ cpri >= MinBatch

(***************************************************************************)
(* What a thread queue keeps true of itself.                               *)
(***************************************************************************)
(* A status bit is set exactly for the lists that hold a thread: the scans *)
(* look at the bits only and then take the head of the list.               *)
BitsExact(q) ==
  \A r \in RunqName :
    q.rq[r].bits = {i \in Idx : q.rq[r].queues[i] # <<>>}

(* The removal index is the insert index or one behind it, and it stays    *)
(* behind only while its list is being drained.                            *)
Calendar(q) ==
  q.idx # q.ridx => /\ q.idx = (q.ridx + 1) % NQS
                    /\ q.rq["timeshare"].queues[q.ridx] # <<>>
=============================================================================
