-------------------------------- MODULE Ule ---------------------------------
(***************************************************************************)
(* The ULE scheduler of ThreadScheduler/: thread queues of several CPUs,   *)
(* the thread each runs, and the interrupts between them.  An action is    *)
(* what one CPU does inside one critical section, that is, while it holds  *)
(* the lock of a thread queue (or of the two it moves a thread between).   *)
(* Where the code gives up its lock half way - a migrating switch, a       *)
(* thread added to another CPU's queue, a CPU that tries to steal before   *)
(* it idles - the rest is an action of its own and pend[c] says what CPU c *)
(* still has to do.  Until then c takes no interrupt, and its subject has  *)
(* td_lock = blocked_lock: nobody else can lock that thread.               *)
(***************************************************************************)
EXTENDS Tdq

CONSTANTS
  CPU,
  BalanceCpu,   \* the boot CPU, whose clock runs the balancer (balance_tdq)
  Thread0,      \* the thread that runs at boot
  UserPris,     \* UserPris[t]: the values sched_priority can compute for t
  FifoThread,   \* the threads of a FIFO class, exempt from time slices
  StaticBoost,  \* static_boost: the priority a sleeping thread is raised to
  Masks,        \* the affinity masks a thread can be given
  IdleIpi,      \* whether an idle CPU must be sent an IPI: a subset of BOOLEAN
  Pinnable,     \* the threads that pin themselves
  Owners,       \* the threads that hold locks others block on
  Forks,        \* the threads that come and go
  Niced,        \* the threads whose nice value is changed
  BindCpus      \* the CPUs threads bind themselves to

ASSUME UleAssumption ==
  /\ BalanceCpu \in CPU
  /\ Thread0 \in Thread /\ IsFiniteSet(Thread)
  /\ UserPris \in [Thread -> (SUBSET Pri) \ {{}}]
  /\ FifoThread \subseteq Thread
  /\ StaticBoost \in Pri
  /\ Masks \subseteq (SUBSET CPU) \ {{}}
  /\ IdleIpi \subseteq BOOLEAN
  /\ Pinnable \subseteq Thread /\ Owners \subseteq Thread /\ Forks \subseteq Thread
  /\ Niced \subseteq Thread
  /\ BindCpus \subseteq CPU

VARIABLES
  tdq,   \* tdq[c]: the thread queue of CPU c
  td,    \* td[t]: struct thread and struct td_sched
  cur,   \* cur[c]: pc_curthread, NoThread when the idle thread runs
  ipi,   \* ipi[c]: an IPI_PREEMPT is on its way to c
  pend   \* pend[c]: what c does between two critical sections

vars == <<tdq, td, cur, ipi, pend>>

ThreadType ==
  [state : {"inactive", "sleeping", "canrun", "runq", "running"},
   pri : Pri, base : Pri, user : Pri, borrowing : BOOLEAN,
   cpu : CPU, runq : RunqName \cup {"none"}, rqindex : Idx, xferable : BOOLEAN,
   bound : BOOLEAN, pinned : BOOLEAN, mask : (SUBSET CPU) \ {{}}, slice : Int,
   needresched : BOOLEAN, sliceend : BOOLEAN, owepreempt : BOOLEAN]

NoPend == [step |-> "run", thread |-> NoThread, flags |-> {}]

PendType ==
  {NoPend} \cup [step : {"setcpu", "migrate", "trysteal"},
                 thread : Thread, flags : SUBSET Flag]

TypeOK ==
  /\ tdq \in [CPU -> TdqType]
  /\ td \in [Thread -> ThreadType]
  /\ cur \in [CPU -> Thread \cup {NoThread}]
  /\ ipi \in [CPU -> BOOLEAN]
  /\ pend \in [CPU -> PendType]

(***************************************************************************)
(* The state a function of the scheduler is handed and gives back.         *)
(***************************************************************************)
Sys == [tdq |-> tdq, td |-> td, cur |-> cur, ipi |-> ipi]

Becomes(s) ==
  \E n \in {s} : tdq' = n.tdq /\ td' = n.td /\ cur' = n.cur /\ ipi' = n.ipi

(* The critical section ends and CPU c goes on with its current thread. *)
Settle(s) == Becomes(s) /\ UNCHANGED pend

Prio(s) == [u \in Thread |-> s.td[u].pri]

CurPri(s, c) == IF s.cur[c] = NoThread THEN MaxPri ELSE s.td[s.cur[c]].pri

SetTdq(s, c, q) == [s EXCEPT !.tdq[c] = q]
SetTd(s, t, r) == [s EXCEPT !.td[t] = r]
SetBoth(s, c, q, t, r) == SetTd(SetTdq(s, c, q), t, r)

(* tdq_runq_add, with what it records in the thread. *)
RunqAdd(s, c, t, flags) ==
  LET q == s.tdq[c]
      p == s.td[t].pri
      movable == ~ s.td[t].pinned
  IN SetBoth(s, c, Enqueue(q, t, flags, Prio(s), movable), t,
             [s.td[t] EXCEPT !.state = "runq", !.runq = RunqOf(p),
                             !.rqindex = SlotOf(q, p, flags), !.xferable = movable])

(* tdq_runq_rem.  ts_runq and td_rqindex, which the code leaves alone and  *)
(* never reads again before the next insertion, are reset.                 *)
RunqRem(s, c, t, state) ==
  LET r == s.td[t] IN
  SetBoth(s, c, Dequeue(s.tdq[c], t, r.runq, r.rqindex, r.xferable), t,
          [r EXCEPT !.state = state, !.runq = "none", !.rqindex = 0,
                    !.xferable = FALSE])

LoadAdd(s, c, n) == SetTdq(s, c, [s.tdq[c] EXCEPT !.load = @ + n])

LowerLowpri(s, c, p) ==
  SetTdq(s, c, [s.tdq[c] EXCEPT !.lowpri = IF p < @ THEN p ELSE @])

(* tdq_add *)
TdqAdd(s, c, t, flags) ==
  LoadAdd(RunqAdd(LowerLowpri(s, c, s.td[t].pri), c, t, flags), c, 1)

(* Mutant of SchedRem: the load of the thread is left behind. *)
SchedRemKeepsLoad(s, t) ==
  LET c == s.td[t].cpu
      out == RunqRem(s, c, t, "canrun")
  IN IF s.td[t].pri = s.tdq[c].lowpri
     THEN SetTdq(out, c, SetLowpri(out.tdq[c], CurPri(out, c), Prio(out)))
     ELSE out

(* sched_rem *)
SchedRem(s, t) ==
  LET c == s.td[t].cpu
      out == LoadAdd(RunqRem(s, c, t, "canrun"), c, -1)
  IN IF s.td[t].pri = s.tdq[c].lowpri
     THEN SetTdq(out, c, SetLowpri(out.tdq[c], CurPri(out, c), Prio(out)))
     ELSE out

(* tdq_notify.  An idle CPU that polls its load, or that the machine's     *)
(* wakeup routine reaches, is not sent an IPI: wired says that it needs    *)
(* one.                                                                    *)
Notify(s, c, t, wired) ==
  IF \/ s.tdq[c].ipipending
     \/ ~ ShouldPreempt(s.td[t].pri, CurPri(s, c), TRUE)
     \/ s.cur[c] = NoThread /\ ~ wired
  THEN s
  ELSE [SetTdq(s, c, [s.tdq[c] EXCEPT !.ipipending = TRUE])
          EXCEPT !.ipi[c] = TRUE]

(* sched_setpreempt; the idle thread looks at its load by itself. *)
SetPreempt(s, c, t) ==
  IF s.cur[c] = NoThread \/ s.td[t].pri >= CurPri(s, c) THEN s
  ELSE LET owe == ShouldPreempt(s.td[t].pri, CurPri(s, c), FALSE) IN
       SetTd(s, s.cur[c],
             [s.td[s.cur[c]] EXCEPT !.needresched = TRUE,
                                    !.owepreempt = @ \/ owe])

(* The second half of sched_add, run by CPU c once it holds d's lock. *)
AddTo(s, c, d, t, flags, wired) ==
  LET added == TdqAdd(s, d, t, flags) IN
  IF d = c THEN SetPreempt(added, c, t) ELSE Notify(added, d, t, wired)

(* sched_pickcpu.  The search weighs loads it reads without locks, so any  *)
(* CPU it may consider can come out.                                       *)
PickCpu(r) == IF r.pinned THEN {r.cpu} ELSE r.mask

(* choosethread, sched_choose and the switch to its result. *)
Choose(s, c) ==
  LET t == TdqChoose(s.tdq[c])
      low == IF t = NoThread THEN MaxPri ELSE s.td[t].pri
      on == [s EXCEPT !.cur[c] = t,
                      !.tdq[c].lowpri = low]
  IN IF t = NoThread THEN on ELSE RunqRem(on, c, t, "running")

(* Mutant of Move: ts_cpu still names the queue the thread came from. *)
MoveKeepsCpu(s, t, c) == TdqAdd(SchedRem(s, t), c, t, {})

(* tdq_move of t from its queue to the queue of c. *)
Move(s, t, c) ==
  LET out == SchedRem(s, t) IN
  TdqAdd(SetTd(out, t, [out.td[t] EXCEPT !.cpu = c]), c, t, {})

(* THREAD_CAN_MIGRATE and THREAD_CAN_SCHED. *)
May(s, c) == {u \in Thread : ~ s.td[u].pinned /\ c \in s.td[u].mask}

(* CPU c executes code of its current thread, or an interrupt on top. *)
OnCpu(c) == pend[c].step = "run"
Busy(c) == OnCpu(c) /\ cur[c] # NoThread

(* Mutant of Lockable: thread_lock_block was forgotten. *)
LockableAlways(t) == TRUE

(* thread_lock(t) succeeds: t is not in transit. *)
Lockable(t) == \A c \in CPU : pend[c].thread # t

(***************************************************************************)
(* sched_switch                                                            *)
(***************************************************************************)
Unflag(r) ==
  [r EXCEPT !.needresched = FALSE, !.sliceend = FALSE, !.owepreempt = FALSE]

(* The current thread t of c is still running: it goes back on the queue,  *)
(* or on its way to the queue of another CPU.                              *)
SwitchRunning(s, c, preempt) ==
  LET t == s.cur[c]
      r == s.td[t]
      flags == IF preempt /\ ~ r.sliceend THEN {"PREEMPTED"} ELSE {}
      out == SetTd(s, t, Unflag(r))
  IN \E d \in IF r.pinned \/ r.cpu \in r.mask THEN {r.cpu} ELSE r.mask :
       IF d = c THEN \E n \in {RunqAdd(out, c, t, flags)} : Settle(Choose(n, c))
       ELSE /\ Becomes(LoadAdd(SetTd(out, t, [out.td[t] EXCEPT !.cpu = d]), c, -1))
            /\ pend' = [pend EXCEPT ![c] =
                         [step |-> "migrate", thread |-> t, flags |-> flags]]

(* Any thread, the idle thread included, is made to give way. *)
SwitchOut(s, c, preempt) ==
  IF s.cur[c] = NoThread THEN Settle(Choose(s, c)) ELSE SwitchRunning(s, c, preempt)

(* sched_switch_migrate holds both locks; the target is notified and c     *)
(* chooses another thread.                                                 *)
MigrateDone(c) ==
  LET t == pend[c].thread
      d == td[t].cpu
      added == TdqAdd(Sys, d, t, pend[c].flags)
  IN /\ pend[c].step = "migrate"
     /\ \E wired \in IdleIpi :
        \E n \in {Notify(added, d, t, wired)} : Becomes(Choose(n, c))
     /\ pend' = [pend EXCEPT ![c] = NoPend]

(* sched_relinquish *)
Relinquish(c) == Busy(c) /\ SwitchOut(Sys, c, FALSE)

(* critical_exit of a thread that owes a preemption. *)
CriticalExit(c) == Busy(c) /\ td[cur[c]].owepreempt /\ SwitchOut(Sys, c, TRUE)

(* The idle thread sees the load of its CPU (sched_idletd). *)
IdleSwitch(c) ==
  OnCpu(c) /\ cur[c] = NoThread /\ tdq[c].load > 0 /\ SwitchOut(Sys, c, FALSE)

(* Mutant of PreemptIpi: tdq_ipipending is not cleared. *)
PreemptIpiKeepsMark(c) ==
  LET seen == [Sys EXCEPT !.ipi[c] = FALSE] IN
  /\ OnCpu(c) /\ ipi[c]
  /\ IF CurPri(Sys, c) <= tdq[c].lowpri THEN Settle(seen)
     ELSE SwitchOut(seen, c, TRUE)

(* sched_preempt, the handler of IPI_PREEMPT.  nested: the interrupt hit a *)
(* critical section.                                                       *)
PreemptIpi(c) ==
  LET seen == [SetTdq(Sys, c, [tdq[c] EXCEPT !.ipipending = FALSE])
                 EXCEPT !.ipi[c] = FALSE]
  IN /\ OnCpu(c) /\ ipi[c]
     /\ IF CurPri(Sys, c) <= tdq[c].lowpri THEN Settle(seen)
        ELSE \/ SwitchOut(seen, c, TRUE)
             \/ /\ cur[c] # NoThread
                /\ Settle(SetTd(seen, cur[c], [td[cur[c]] EXCEPT !.owepreempt = TRUE]))

(***************************************************************************)
(* Priorities                                                              *)
(***************************************************************************)
(* sched_priority: scored from the thread's history and nice value. *)
Rescored(r, u) == [r EXCEPT !.user = u]

(* sched_rem and sched_add of a queued thread, whose priority becomes p in *)
(* between: at once if it stays on its CPU, else the thread is blocked and *)
(* c lets go of the queue it came from.                                    *)
Readd(s, c, t, p, flags) ==
  LET out == SchedRem(s, t) IN
  \E d \in PickCpu(s.td[t]), u \in UserPris[t] :
    LET r == [Rescored(out.td[t], u) EXCEPT !.pri = p, !.cpu = d] IN
    IF d = s.td[t].cpu
    THEN \E wired \in IdleIpi : Settle(AddTo(SetTd(out, t, r), c, d, t, flags, wired))
    ELSE /\ Becomes(SetTd(out, t, r))
         /\ pend' = [pend EXCEPT ![c] =
                      [step |-> "setcpu", thread |-> t, flags |-> flags]]

(* sched_setcpu has the lock of the target; the rest of sched_add. *)
SetcpuDone(c) ==
  LET t == pend[c].thread IN
  /\ pend[c].step = "setcpu"
  /\ \E wired \in IdleIpi :
       Becomes(AddTo(Sys, c, td[t].cpu, t, pend[c].flags, wired))
  /\ pend' = [pend EXCEPT ![c] = NoPend]

(* The running case of sched_thread_priority. *)
RunningPriority(s, t, p) ==
  LET c == s.td[t].cpu
      q == s.tdq[c]
      out == SetTd(s, t, [s.td[t] EXCEPT !.pri = p])
  IN IF p < q.lowpri THEN SetTdq(out, c, [q EXCEPT !.lowpri = p])
     ELSE IF q.lowpri = s.td[t].pri THEN SetTdq(out, c, SetLowpri(q, p, Prio(out)))
     ELSE out

(* Mutant of ThreadPriority: a queued thread is never moved. *)
ThreadPriorityInPlace(s, c, t, p) ==
  IF s.td[t].pri # p /\ s.td[t].state = "running"
  THEN Settle(RunningPriority(s, t, p))
  ELSE Settle(SetTd(s, t, [s.td[t] EXCEPT !.pri = p]))

(* sched_thread_priority, called by CPU c.  A queued thread whose priority *)
(* gets worse stays where it is.                                           *)
ThreadPriority(s, c, t, p) ==
  LET r == s.td[t]
      lent == SetTd(s, t, [r EXCEPT !.pri = p])
  IN IF r.pri = p THEN Settle(s)
     ELSE IF r.state = "runq" /\ p < r.pri
     THEN Readd(s, c, t, p, {"BORROWING"})
     ELSE IF r.state = "running" THEN Settle(RunningPriority(s, t, p))
     ELSE Settle(lent)

(* sched_prio: a borrowed priority is never lowered. *)
SchedPrio(s, c, t, p) ==
  LET based == SetTd(s, t, [s.td[t] EXCEPT !.base = p]) IN
  IF s.td[t].borrowing /\ s.td[t].pri < p THEN Settle(based)
  ELSE ThreadPriority(based, c, t, p)

(* sched_lend_prio *)
LendPrio(s, c, t, p) ==
  ThreadPriority(SetTd(s, t, [s.td[t] EXCEPT !.borrowing = TRUE]), c, t, p)

(* The current thread of c finds a lock held by t and lends it its own     *)
(* priority (the turnstile's propagation).                                 *)
Lend(c, t) ==
  /\ Busy(c) /\ t \in Owners \ {cur[c]} /\ Lockable(t)
  /\ td[t].state # "inactive" /\ td[cur[c]].pri < td[t].pri
  /\ LendPrio(Sys, c, t, td[cur[c]].pri)

(* sched_unlend_prio by the current thread, which gives up a lock; p is    *)
(* the best priority the waiters on its other locks still lend it.         *)
Unlend(c, p) ==
  LET t == cur[c]
      r == td[t]
      base == IF r.base >= MinInteract /\ r.base <= MaxBatch THEN r.user ELSE r.base
  IN /\ Busy(c) /\ r.borrowing /\ p >= r.pri
     /\ IF p >= base
        THEN ThreadPriority(SetTd(Sys, t, [r EXCEPT !.borrowing = FALSE]), c, t, base)
        ELSE LendPrio(Sys, c, t, p)

(* sched_nice, for one thread of the process. *)
Nice(c, t) ==
  /\ Busy(c) /\ t \in Niced /\ Lockable(t) /\ td[t].state # "inactive"
  /\ \E u \in UserPris[t] : SchedPrio(SetTd(Sys, t, Rescored(td[t], u)), c, t, u)

(* Mutant of UserRet: tdq_lowpri is not set. *)
UserRetKeepsLowpri(c) ==
  LET r == td[cur[c]] IN
  /\ Busy(c) /\ ~ r.borrowing /\ r.pri # r.user
  /\ Settle(SetTd(Sys, cur[c], [r EXCEPT !.pri = r.user, !.base = r.user]))

(* sched_userret_slowpath *)
UserRet(c) ==
  LET t == cur[c]
      r == td[t]
      out == SetTd(Sys, t, [r EXCEPT !.pri = r.user, !.base = r.user])
  IN /\ Busy(c) /\ ~ r.borrowing /\ r.pri # r.user
     /\ Settle(SetTdq(out, c, SetLowpri(tdq[c], r.user, Prio(out))))

(* The kernel's AST for a thread that must reschedule: sched_prio to the   *)
(* user priority, then a switch that is not a preemption.                  *)
Ast(c) ==
  LET t == cur[c]
      r == td[t]
      kept == r.borrowing /\ r.pri < r.user
      based == SetTd(Sys, t, [r EXCEPT !.base = r.user])
  IN /\ Busy(c) /\ r.needresched
     /\ \E n \in {IF kept \/ r.pri = r.user THEN based
                   ELSE RunningPriority(based, t, r.user)} :
          SwitchOut(n, c, FALSE)

(***************************************************************************)
(* Sleeping, waking, starting and ending                                   *)
(***************************************************************************)
Timeshare(t) == UserPris[t] \subseteq MinInteract .. MaxBatch

(* sched_sleep and the sleeping branch of sched_switch.  A CPU left with   *)
(* no load drops its lock and looks for a thread to steal.                 *)
Sleep(c) ==
  LET t == cur[c]
      r == td[t]
      boost == Timeshare(t) /\ r.pri > StaticBoost
      calm == IF boost
              THEN RunningPriority(SetTd(Sys, t, [r EXCEPT !.base = StaticBoost]),
                                   t, StaticBoost)
              ELSE Sys
      out == LoadAdd(SetTd(calm, t, [Unflag(calm.td[t]) EXCEPT !.state = "sleeping"]),
                     c, -1)
  IN /\ Busy(c)
     /\ IF out.tdq[c].load = 0
        THEN /\ Becomes(out)
             /\ pend' = [pend EXCEPT ![c] =
                          [step |-> "trysteal", thread |-> t, flags |-> {}]]
        ELSE Settle(Choose(out, c))

Stealable(d) == tdq[d].load >= StealThresh /\ tdq[d].transferable # 0

(* The end of tdq_trysteal: whatever it found, c chooses a thread. *)
TryStealDone(c) ==
  /\ pend[c].step = "trysteal"
  /\ \/ Becomes(Choose(Sys, c))
     \/ \E d \in CPU \ {c} :
          LET t == TdqSteal(tdq[d], May(Sys, c)) IN
          /\ tdq[c].load = 0 /\ Stealable(d) /\ t # NoThread
          /\ \E n \in {Move(Sys, t, c)} : Becomes(Choose(n, c))
  /\ pend' = [pend EXCEPT ![c] = NoPend]

(* tdq_idled: the idle thread steals from d and switches to what it got. *)
IdleSteal(c, d) ==
  LET t == TdqSteal(tdq[d], May(Sys, c)) IN
  /\ OnCpu(c) /\ cur[c] = NoThread /\ c # d
  /\ tdq[c].load = 0 /\ Stealable(d) /\ t # NoThread
  /\ SwitchOut(Move(Sys, t, c), c, FALSE)

(* sched_balance_pair.  No notification for the balancing CPU itself. *)
Balance(high, low) ==
  LET t == TdqSteal(tdq[high], May(Sys, low))
      moved == Move(Sys, t, low)
  IN /\ OnCpu(BalanceCpu) /\ high # low
     /\ tdq[high].transferable # 0 /\ tdq[high].load > tdq[low].load
     /\ t # NoThread
     /\ IF low = BalanceCpu THEN Settle(moved)
        ELSE \E wired \in IdleIpi : Settle(Notify(moved, low, t, wired))

(* sched_wakeup and sched_add.  CPU c may be running any thread, or none,  *)
(* under an interrupt.  A sleeping thread has the lock of its sleep queue, *)
(* so its new queue is always locked afresh: nothing is seen in between.   *)
Wakeup(c, t) ==
  /\ OnCpu(c) /\ Lockable(t) /\ td[t].state = "sleeping"
  /\ \E d \in PickCpu(td[t]), u \in UserPris[t], wired \in IdleIpi :
       LET r == [Rescored(td[t], u) EXCEPT !.slice = 0, !.state = "canrun", !.cpu = d]
       IN Settle(AddTo(SetTd(Sys, t, r), c, d, t, {}, wired))

Unborn(t) ==
  [state |-> "inactive", pri |-> MaxPri, base |-> MaxPri, user |-> MaxPri,
   borrowing |-> FALSE, cpu |-> BalanceCpu, runq |-> "none", rqindex |-> 0,
   xferable |-> FALSE, bound |-> FALSE, pinned |-> FALSE, mask |-> CPU, slice |-> 0,
   needresched |-> FALSE, sliceend |-> FALSE, owepreempt |-> FALSE]

(* sched_fork, sched_fork_thread and the child's sched_add. *)
Fork(c, t) ==
  LET p == cur[c]
      parent == td[p]
  IN /\ Busy(c) /\ td[t].state = "inactive"
     /\ \E v \in UserPris[p], u \in UserPris[t], wired \in IdleIpi :
        \E d \in parent.mask :
          LET child == [Unborn(t) EXCEPT
                          !.state = "canrun", !.pri = parent.base,
                          !.base = parent.base, !.user = u, !.cpu = d,
                          !.mask = parent.mask,
                          !.slice = TdqSlice(tdq[c]) - SliceMin]
              forked == SetTd(SetTd(Sys, p, Rescored(parent, v)), t, child)
          IN Settle(AddTo(forked, c, d, t, {}, wired))

(* sched_throw of the current thread; its struct is free for a fork. *)
Exit(c) ==
  LET t == cur[c] IN
  /\ Busy(c) /\ t \in Forks /\ ~ td[t].borrowing /\ ~ td[t].pinned
  /\ Settle(Choose(LoadAdd(SetTd(Sys, t, Unborn(t)), c, -1), c))

(* sched_exit_thread: the parent is charged and scored anew. *)
ExitThread(t) ==
  /\ Lockable(t) /\ td[t].state # "inactive"
  /\ \E u \in UserPris[t] : Settle(SetTd(Sys, t, Rescored(td[t], u)))

(***************************************************************************)
(* Affinity                                                                *)
(***************************************************************************)
(* sched_pin and sched_unpin by the current thread; they take no lock. *)
Pin(c) ==
  LET t == cur[c] IN
  /\ Busy(c) /\ t \in Pinnable /\ ~ td[t].pinned
  /\ Settle(SetTd(Sys, t, [td[t] EXCEPT !.pinned = TRUE]))

Unpin(c) ==
  LET t == cur[c] IN
  /\ Busy(c) /\ td[t].pinned /\ ~ td[t].bound
  /\ Settle(SetTd(Sys, t, [td[t] EXCEPT !.pinned = FALSE]))

(* sched_bind; a bound thread is bound anew. *)
Bind(c, d) ==
  LET t == cur[c]
      bound == [td[t] EXCEPT !.bound = TRUE, !.pinned = TRUE]
  IN /\ Busy(c) /\ (td[t].bound \/ ~ td[t].pinned)
     /\ IF d = c THEN Settle(SetTd(Sys, t, bound))
        ELSE SwitchOut(SetTd(Sys, t, [bound EXCEPT !.cpu = d]), c, FALSE)

(* sched_unbind *)
Unbind(c) ==
  LET t == cur[c] IN
  /\ Busy(c) /\ td[t].bound
  /\ Settle(SetTd(Sys, t, [td[t] EXCEPT !.bound = FALSE, !.pinned = FALSE]))

(* Mutant of Affinity: a queued thread stays where it is. *)
AffinityLeavesQueued(c, t, m) ==
  LET r == [td[t] EXCEPT !.mask = m] IN
  /\ OnCpu(c) /\ Lockable(t) /\ r.state # "inactive"
  /\ Settle(SetTd(Sys, t, [r EXCEPT !.needresched =
                             @ \/ (r.cpu \notin m /\ r.state = "running")]))

(* A new mask for t, and sched_affinity. *)
Affinity(c, t, m) ==
  LET r == [td[t] EXCEPT !.mask = m]
      out == SetTd(Sys, t, r)
      told == SetTd(Sys, t, [r EXCEPT !.needresched = TRUE])
  IN /\ OnCpu(c) /\ Lockable(t) /\ r.state # "inactive"
     /\ IF r.cpu \notin m /\ r.state = "runq" THEN Readd(out, c, t, r.pri, {})
        ELSE IF r.cpu \notin m /\ r.state = "running"
        THEN Settle(IF t = cur[c] THEN told
                    ELSE [told EXCEPT !.ipi[r.cpu] = TRUE])
        ELSE Settle(out)

(***************************************************************************)
(* sched_clock, the stathz tick of CPU c.                                  *)
(***************************************************************************)
Charged(r, t, q, u) ==
  LET used == Rescored(r, u)
      over == r.slice + 1 >= TdqSlice(q)
  IN IF t \in FifoThread THEN r
     ELSE IF over THEN [used EXCEPT !.slice = 0, !.needresched = TRUE, !.sliceend = TRUE]
     ELSE [used EXCEPT !.slice = @ + 1]

Clock(c) ==
  LET t == cur[c]
      turned == SetTdq(Sys, c, AdvanceCalendar(tdq[c]))
  IN /\ OnCpu(c)
     /\ IF t = NoThread THEN Settle(turned)
        ELSE \E u \in UserPris[t] :
               Settle(SetTd(turned, t, Charged(td[t], t, tdq[c], u)))

(***************************************************************************)
(* sched_setup: thread0 runs on the boot CPU, every other CPU idles.       *)
(***************************************************************************)
Init ==
  \E p \in UserPris[Thread0] :
    /\ td = [t \in Thread |->
              IF t = Thread0
              THEN [Unborn(t) EXCEPT !.state = "running", !.pri = p, !.base = p,
                                     !.user = p]
              ELSE Unborn(t)]
    /\ tdq = [c \in CPU |->
               IF c = BalanceCpu THEN [EmptyTdq EXCEPT !.load = 1, !.lowpri = p]
               ELSE EmptyTdq]
    /\ cur = [c \in CPU |-> IF c = BalanceCpu THEN Thread0 ELSE NoThread]
    /\ ipi = [c \in CPU |-> FALSE]
    /\ pend = [c \in CPU |-> NoPend]

Switch(c) == Relinquish(c) \/ CriticalExit(c) \/ Ast(c) \/ Sleep(c) \/ Exit(c)

Finish(c) == MigrateDone(c) \/ SetcpuDone(c) \/ TryStealDone(c)

Interrupt(c) == PreemptIpi(c) \/ Clock(c) \/ \E t \in Thread : Wakeup(c, t)

Idle(c) == IdleSwitch(c) \/ \E d \in CPU : IdleSteal(c, d)

Reprioritise(c) ==
  \/ UserRet(c)
  \/ \E p \in Pri : Unlend(c, p)
  \/ \E t \in Thread : Lend(c, t) \/ Nice(c, t)

Reassign(c) ==
  \/ Pin(c) \/ Unpin(c) \/ Unbind(c)
  \/ \E d \in BindCpus : Bind(c, d)
  \/ \E t \in Thread, m \in Masks : Affinity(c, t, m)

Next ==
  \/ \E c \in CPU : \/ Switch(c) \/ Finish(c) \/ Interrupt(c) \/ Idle(c)
                    \/ Reprioritise(c) \/ Reassign(c)
                    \/ \E t \in Forks : Fork(c, t)
  \/ \E t \in Thread : ExitThread(t)
  \/ \E high, low \in CPU : Balance(high, low)

Spec == Init /\ [][Next]_vars

(***************************************************************************)
(* The clock of a CPU ticks for ever, a pending interrupt is taken, a      *)
(* thread told to reschedule reaches its AST, the idle thread looks at its *)
(* load, and a CPU between two critical sections gets the lock it spins    *)
(* for.  Nothing else need ever happen.                                    *)
(***************************************************************************)
Fairness ==
  \A c \in CPU :
    /\ WF_vars(Clock(c)) /\ WF_vars(PreemptIpi(c)) /\ WF_vars(Ast(c))
    /\ WF_vars(IdleSwitch(c)) /\ WF_vars(Finish(c))

FairSpec == Spec /\ Fairness

(***************************************************************************)
(* Safety                                                                  *)
(***************************************************************************)
Queue(c, r, i) == tdq[c].rq[r].queues[i]

(* A thread is on one list at most, the one its struct names, and it is    *)
(* there exactly while its state says so: sched_rem, tdq_move and the      *)
(* re-insertion of a lent priority (sched_thread_priority) neither lose    *)
(* nor duplicate a thread, whichever CPU runs them.                        *)
QueuedOnce ==
  /\ \A c \in CPU, r \in RunqName, i \in Idx :
       /\ IsInjective(Queue(c, r, i))
       /\ \A k \in DOMAIN Queue(c, r, i) :
            LET t == td[Queue(c, r, i)[k]] IN
            t.state = "runq" /\ t.cpu = c /\ t.runq = r /\ t.rqindex = i
  /\ \A t \in Thread :
       td[t].state = "runq"
         => \E k \in DOMAIN Queue(td[t].cpu, td[t].runq, td[t].rqindex) :
              Queue(td[t].cpu, td[t].runq, td[t].rqindex)[k] = t

(* The threads queued on c. *)
Queued(c) == {t \in Thread : td[t].state = "runq" /\ td[t].cpu = c}

(* The current thread of c still counts in its load: sched_switch drops    *)
(* the load of a sleeping or migrating thread before it gives up the lock. *)
Counted(c) == IF cur[c] # NoThread /\ pend[c].step \notin {"migrate", "trysteal"}
              THEN 1 ELSE 0

(* tdq_load is the number of threads queued and running on the CPU, and    *)
(* tdq_transferable the number of queued threads another CPU may take.     *)
(* The balancer, tdq_trysteal and the idle loop decide on them alone.      *)
CountersExact ==
  \A c \in CPU :
    /\ tdq[c].load = Cardinality(Queued(c)) + Counted(c)
    /\ tdq[c].transferable = Cardinality({t \in Queued(c) : ~ td[t].pinned})

(* No thread runs on two CPUs, a running thread is the current thread of   *)
(* the CPU it is assigned to, and one on its way to another CPU is the     *)
(* current thread of nobody but the CPU that hands it over.                *)
RunsOnce ==
  /\ \A c, d \in CPU : cur[c] = cur[d] /\ cur[c] # NoThread => c = d
  /\ \A c \in CPU : Busy(c) => /\ td[cur[c]].state = "running"
                               /\ td[cur[c]].cpu = c
  /\ \A t \in Thread : td[t].state = "running" => \E c \in CPU : cur[c] = t

(* An IPI marked pending is on its way.  tdq_notify sends none while the   *)
(* mark stands: a mark without an interrupt would silence the CPU forever. *)
IpiBacked == \A c \in CPU : tdq[c].ipipending => ipi[c]

(* tdq_lowpri is never worse than the priority the CPU runs at, through    *)
(* every lending, return to user mode, migration and theft: sched_preempt  *)
(* and sched_pickcpu rely on it.                                           *)
LowpriBound == \A c \in CPU : tdq[c].lowpri <= CurPri(Sys, c)

(* No thread waits in a worse list than its priority calls for, and the    *)
(* timeshare and idle queues hold only threads of their ranges (the        *)
(* KASSERTs of tdq_choose).                                                *)
QueuedHighEnough ==
  \A t \in Thread : td[t].state = "runq" =>
    \/ td[t].runq = "realtime" /\ td[t].rqindex <= td[t].pri \div PPQ
    \/ td[t].runq = "timeshare" /\ td[t].pri >= MinBatch
    \/ td[t].runq = "idle" /\ td[t].pri > MaxBatch

(* The lists kern_switch_pq.c sorts stay sorted while no queued thread's   *)
(* priority gets worse, which only sched_nice does: through insertion,     *)
(* removal, theft, and the re-insertion of a thread that is lent a better  *)
(* priority (sched_thread_priority).                                       *)
ListsSorted ==
  \A c \in CPU, r \in RunqName, i \in Idx : SortedList(i) =>
    \A j, k \in DOMAIN Queue(c, r, i) :
      j < k => td[Queue(c, r, i)[j]].pri <= td[Queue(c, r, i)[k]].pri

SortedUnlessNiced == Niced = {} => ListsSorted

QueuesSound == \A c \in CPU : BitsExact(tdq[c]) /\ Calendar(tdq[c])

(***************************************************************************)
(* Action properties                                                       *)
(***************************************************************************)
(* A thread changes CPU only to one its mask allows, and never while it is *)
(* pinned, unless it binds itself (THREAD_CAN_MIGRATE, THREAD_CAN_SCHED).  *)
MoveAllowed(t) ==
  /\ td[t].state # "inactive" /\ td'[t].state # "inactive"
  /\ td'[t].cpu # td[t].cpu
  => \/ td'[t].bound
     \/ ~ td[t].pinned /\ td'[t].cpu \in td'[t].mask

(* A CPU switches to a thread only if the thread's mask allows the CPU or  *)
(* the thread is pinned to it.                                             *)
DispatchAllowed(c) ==
  cur'[c] # cur[c] /\ cur'[c] # NoThread
    => c \in td'[cur'[c]].mask \/ td'[cur'[c]].pinned

(* Threads move to, and run on, only the CPUs they may use, whatever       *)
(* happened to their masks while they waited.                              *)
AffinityKept ==
  [][(\A t \in Thread : MoveAllowed(t)) /\ (\A c \in CPU : DispatchAllowed(c))]_vars

(* A thread that joins the queue of a busy CPU from outside the queues,    *)
(* with a better priority and within a preemption threshold that is not 0, *)
(* leaves the CPU asked to preempt, also when an earlier request stands    *)
(* and no new one is sent.  A thread moved by the balancer is exempt: a    *)
(* CPU that balances to itself is asked nothing (sched_balance_pair).      *)
PreemptionOwed(c, t) ==
  /\ td[t].state # "runq" \/ td[t].cpu = c
  /\ t \in Queued(c)' \ Queued(c)
  /\ cur[c] # NoThread /\ cur'[c] = cur[c] /\ OnCpu(c)'
  /\ td'[t].pri < td'[cur[c]].pri
  /\ PreemptThresh # 0 /\ td'[t].pri <= PreemptThresh
  => ipi'[c] \/ td'[cur[c]].owepreempt

PreemptionAsked == [][\A c \in CPU, t \in Thread : PreemptionOwed(c, t)]_vars

(***************************************************************************)
(* Liveness                                                                *)
(***************************************************************************)
(* Every queued thread gets to run, whatever its priority: the comment of  *)
(* sched_clock, "Advance the insert index once for each tick to ensure     *)
(* that all threads get a chance to run", for threads of the batch class.  *)
NoStarvation ==
  \A t \in Thread : td[t].state = "runq" ~> td[t].state = "running"
=============================================================================
