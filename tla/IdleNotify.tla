----------------------------- MODULE IdleNotify -----------------------------
(***************************************************************************)
(* How an idle CPU learns of a thread that was put on its queue            *)
(* (sched_ule_pri.c, sched_idletd against tdq_notify).  The idle loop      *)
(* stores tdq_cpu_idle and then loads tdq_load, without a lock; a remote   *)
(* CPU stores tdq_load and then loads tdq_cpu_idle.  Stores wait in a      *)
(* store buffer per CPU, as on the machines the scheduler runs on, so that *)
(* either load may overtake the store before it: the two fences are what   *)
(* keeps a thread from waiting on a CPU that is halted.                    *)
(***************************************************************************)
EXTENDS Integers, SequencesExt

CONSTANTS
  Remote,       \* the CPUs that put threads on the queue, or take them off
  Self,         \* the CPU the queue belongs to
  Free,         \* the value of the queue's lock when nobody holds it
  MaxLoad,      \* bound of this model on tdq_load
  StealThresh,  \* steal_thresh
  AlwaysSteal,  \* always_steal
  IdleWakeup    \* whether cpu_idle_wakeup may wake a halted CPU without an IPI

(* What an instance must satisfy. *)
IdleAssumption ==
  /\ Self \notin Remote
  /\ Free \notin Remote \cup {Self}
  /\ MaxLoad \in Nat \ {0}
  /\ StealThresh \in Nat \ {0}
  /\ AlwaysSteal \in BOOLEAN
  /\ IdleWakeup \in BOOLEAN

Cpu == Remote \cup {Self}

VARIABLES
  mem,      \* the shared words: load, idle (tdq_cpu_idle), pending, lock
  buf,      \* buf[p]: the stores of p that memory has not seen yet
  cur,      \* pc_curthread of Self: "idle" or "thread"
  changed,  \* switchcnt # oldswitchcnt, as the idle loop would see it
  ipi,      \* an IPI_PREEMPT is on its way to Self
  pc,       \* where the idle thread is
  rpc       \* rpc[p]: where the remote CPU p is

vars == <<mem, buf, cur, changed, ipi, pc, rpc>>

Memory == [load : Nat, idle : BOOLEAN, pending : BOOLEAN, lock : Cpu \cup {Free}]

Store ==
  [word : {"load"}, value : Nat] \cup [word : {"idle", "pending"}, value : BOOLEAN]
    \cup [word : {"lock"}, value : {Free}]

TypeOK ==
  /\ mem \in Memory
  /\ buf \in [Cpu -> Seq(Store)]
  /\ cur \in {"idle", "thread"}
  /\ changed \in BOOLEAN
  /\ ipi \in BOOLEAN
  /\ pc \in {"top", "switch", "idled", "steal", "spin", "recheck", "cpu_idle",
             "halted", "back"}
  /\ rpc \in [Remote -> {"out", "add", "notify", "wake", "send", "unlock"}]

(***************************************************************************)
(* Memory                                                                  *)
(***************************************************************************)
Put(word, value) == [word |-> word, value |-> value]

(* The value of a word whose old one the stores of b come after. *)
Newest(b, word, old) ==
  LET mine == {i \in DOMAIN b : b[i].word = word} IN
  IF mine = {} THEN old ELSE b[Max(mine)].value

(* A CPU sees its own stores at once. *)
Load(p, word) == Newest(buf[p], word, mem[word])

(* The oldest store of p reaches memory. *)
Drain(p) ==
  /\ buf[p] # <<>>
  /\ mem' = [mem EXCEPT ![Head(buf[p]).word] = Head(buf[p]).value]
  /\ buf' = [buf EXCEPT ![p] = Tail(@)]
  /\ UNCHANGED <<cur, changed, ipi, pc, rpc>>

(* Mutant of Fence: a compiler barrier only. *)
NoFence(p) == TRUE

(* atomic_thread_fence_seq_cst *)
Fence(p) == buf[p] = <<>>

(* The lock can be taken: the locked instruction drains the buffer too. *)
CanLock(p) == buf[p] = <<>> /\ mem.lock = Free

(***************************************************************************)
(* A remote CPU adds a thread (sched_add, tdq_notify) or steals one.       *)
(***************************************************************************)
Goto(p, where) == rpc' = [rpc EXCEPT ![p] = where]

Lock(p) ==
  /\ rpc[p] = "out" /\ CanLock(p)
  /\ mem' = [mem EXCEPT !.lock = p]
  /\ Goto(p, "add")
  /\ UNCHANGED <<buf, cur, changed, ipi, pc>>

(* tdq_add *)
Add(p) ==
  /\ rpc[p] = "add" /\ Load(p, "load") < MaxLoad
  /\ buf' = [buf EXCEPT ![p] = Append(@, Put("load", Load(p, "load") + 1))]
  /\ Goto(p, "notify")
  /\ UNCHANGED <<mem, cur, changed, ipi, pc>>

(* tdq_idled or tdq_trysteal of p takes a thread that does not run, or     *)
(* finds too few, or none that may move.                                   *)
Rob(p) ==
  /\ rpc[p] = "add"
  /\ \/ /\ Load(p, "load") >= StealThresh
        /\ cur = "thread" => Load(p, "load") > 1
        /\ buf' = [buf EXCEPT ![p] = Append(@, Put("load", Load(p, "load") - 1))]
     \/ UNCHANGED buf
  /\ Goto(p, "unlock")
  /\ UNCHANGED <<mem, cur, changed, ipi, pc>>

(* The tests of tdq_notify before the fence.  A running thread may or may  *)
(* not be one the new thread preempts; the idle thread always is.          *)
Notify(p) ==
  /\ rpc[p] = "notify"
  /\ \/ /\ Load(p, "pending") \/ cur = "thread"
        /\ Goto(p, "unlock")
     \/ ~ Load(p, "pending") /\ Goto(p, "wake")
  /\ UNCHANGED <<mem, buf, cur, changed, ipi, pc>>

(* The fence, and the test of tdq_cpu_idle for an idle CPU.  An idle loop  *)
(* that polls tdq_load, or that cpu_idle_wakeup reaches, needs no IPI.     *)
Wake(p) ==
  /\ rpc[p] = "wake" /\ Fence(p)
  /\ \/ cur = "idle" /\ ~ Load(p, "idle") /\ Goto(p, "unlock") /\ UNCHANGED pc
     \/ /\ cur = "idle" /\ Load(p, "idle") /\ IdleWakeup /\ pc = "halted"
        /\ pc' = "back"
        /\ Goto(p, "unlock")
     \/ (cur = "thread" \/ Load(p, "idle")) /\ Goto(p, "send") /\ UNCHANGED pc
  /\ UNCHANGED <<mem, buf, cur, changed, ipi>>

Send(p) ==
  /\ rpc[p] = "send"
  /\ buf' = [buf EXCEPT ![p] = Append(@, Put("pending", TRUE))]
  /\ ipi' = TRUE
  /\ Goto(p, "unlock")
  /\ UNCHANGED <<mem, cur, changed, pc>>

Unlock(p) ==
  /\ rpc[p] = "unlock"
  /\ buf' = [buf EXCEPT ![p] = Append(@, Put("lock", Free))]
  /\ Goto(p, "out")
  /\ UNCHANGED <<mem, cur, changed, ipi, pc>>

(***************************************************************************)
(* The idle loop                                                           *)
(***************************************************************************)
Idling(where) == cur = "idle" /\ pc = where

(* One critical section of Self: it takes the lock, makes stores and frees *)
(* the lock, all through its store buffer.                                 *)
Critical(stores) ==
  /\ CanLock(Self)
  /\ mem' = [mem EXCEPT !.lock = Self]
  /\ buf' = [buf EXCEPT ![Self] = stores \o <<Put("lock", Free)>>]

Top ==
  /\ Idling("top")
  /\ pc' = IF Load(Self, "load") > 0 THEN "switch" ELSE "idled"
  /\ UNCHANGED <<mem, buf, cur, changed, ipi, rpc>>

(* mi_switch: to a thread, or back to the idle thread if there is none. *)
Switch ==
  /\ Idling("switch") /\ Critical(<<>>)
  /\ cur' = IF mem.load > 0 THEN "thread" ELSE "idle"
  /\ changed' = TRUE
  /\ pc' = "idled"
  /\ UNCHANGED <<ipi, rpc>>

(* tdq_idled is called only after a switch. *)
Idled ==
  /\ Idling("idled")
  /\ pc' = IF AlwaysSteal \/ changed THEN "steal" ELSE "spin"
  /\ changed' = FALSE
  /\ UNCHANGED <<mem, buf, cur, ipi, rpc>>

(* tdq_idled: it was given a thread, it steals one and runs it, or it      *)
(* finds nothing.                                                          *)
Steal ==
  /\ Idling("steal")
  /\ \/ /\ pc' = IF Load(Self, "load") > 0 THEN "top" ELSE "spin"
        /\ UNCHANGED <<mem, buf, cur, changed>>
     \/ /\ mem.load < MaxLoad
        /\ Critical(IF mem.load > 0 THEN <<>> ELSE <<Put("load", 1)>>)
        /\ cur' = "thread" /\ changed' = TRUE /\ pc' = "top"
  /\ UNCHANGED <<ipi, rpc>>

(* Mutant of Spin: tdq_cpu_idle is not stored. *)
SpinSilent ==
  /\ Idling("spin")
  /\ pc' = IF Load(Self, "load") > 0 \/ changed THEN "top" ELSE "recheck"
  /\ UNCHANGED <<mem, buf, cur, changed, ipi, rpc>>

(* The poll for load, and the store of tdq_cpu_idle. *)
Spin ==
  /\ Idling("spin")
  /\ IF Load(Self, "load") > 0 \/ changed
     THEN pc' = "top" /\ UNCHANGED buf
     ELSE /\ pc' = "recheck"
          /\ buf' = [buf EXCEPT ![Self] = Append(@, Put("idle", TRUE))]
  /\ UNCHANGED <<mem, cur, changed, ipi, rpc>>

(* The fence, and the load after it. *)
Recheck ==
  /\ Idling("recheck") /\ Fence(Self)
  /\ pc' = IF Load(Self, "load") > 0 THEN "back" ELSE "cpu_idle"
  /\ UNCHANGED <<mem, buf, cur, changed, ipi, rpc>>

(* cpu_idle halts if sched_runnable says no, with interrupts held off in   *)
(* between: one that arrives meanwhile ends the halt at once.              *)
CpuIdle ==
  /\ Idling("cpu_idle")
  /\ pc' = IF Load(Self, "load") > 0 THEN "back" ELSE "halted"
  /\ UNCHANGED <<mem, buf, cur, changed, ipi, rpc>>

(* Another interrupt ends the halt; it may be a tick, which shifts the     *)
(* switch counters.                                                        *)
StrayInterrupt ==
  /\ Idling("halted")
  /\ pc' = "back"
  /\ changed' \in BOOLEAN
  /\ UNCHANGED <<mem, buf, cur, ipi, rpc>>

Back ==
  /\ Idling("back")
  /\ buf' = [buf EXCEPT ![Self] = Append(@, Put("idle", FALSE))]
  /\ pc' = "top"
  /\ UNCHANGED <<mem, cur, changed, ipi, rpc>>

(***************************************************************************)
(* Interrupts and threads                                                  *)
(***************************************************************************)
Awake == IF pc = "halted" THEN "back" ELSE pc

(* Mutant of Preempt: tdq_ipipending stays set. *)
PreemptKeepsMark ==
  /\ ipi /\ Critical(<<>>)
  /\ ipi' = FALSE
  /\ cur' = IF mem.load > 0 THEN "thread" ELSE cur
  /\ changed' = (changed \/ mem.load > 0)
  /\ pc' = Awake
  /\ UNCHANGED rpc

(* sched_preempt: the idle thread gives way if anything is queued. *)
Preempt ==
  /\ ipi /\ Critical(<<Put("pending", FALSE)>>)
  /\ ipi' = FALSE
  /\ cur' = IF mem.load > 0 THEN "thread" ELSE cur
  /\ changed' = (changed \/ mem.load > 0)
  /\ pc' = Awake
  /\ UNCHANGED rpc

(* The running thread sleeps or exits; the last one leaves the idle thread *)
(* where it was interrupted.                                               *)
ThreadStops ==
  /\ cur = "thread" /\ Critical(<<Put("load", mem.load - 1)>>)
  /\ cur' = IF mem.load = 1 THEN "idle" ELSE "thread"
  /\ changed' = TRUE
  /\ UNCHANGED <<ipi, pc, rpc>>

(* A device interrupt on Self makes a thread runnable: sched_setpreempt    *)
(* has the idle thread give way at the end of the interrupt.               *)
LocalAdd ==
  /\ mem.load < MaxLoad /\ Critical(<<Put("load", mem.load + 1)>>)
  /\ cur' = "thread"
  /\ changed' = (changed \/ cur = "idle")
  /\ pc' = Awake
  /\ UNCHANGED <<ipi, rpc>>

Init ==
  /\ mem = [load |-> 0, idle |-> FALSE, pending |-> FALSE, lock |-> Free]
  /\ buf = [p \in Cpu |-> <<>>]
  /\ cur = "idle" /\ changed = TRUE /\ ipi = FALSE /\ pc = "top"
  /\ rpc = [p \in Remote |-> "out"]

IdleLoop ==
  Top \/ Switch \/ Idled \/ Steal \/ Spin \/ Recheck \/ CpuIdle \/ Back

\* A remote CPU that holds the lock goes on.
Finish(p) == Add(p) \/ Rob(p) \/ Notify(p) \/ Wake(p) \/ Send(p) \/ Unlock(p)

Remotes(p) == Lock(p) \/ Finish(p)

Next ==
  \/ IdleLoop \/ StrayInterrupt \/ Preempt \/ LocalAdd \/ ThreadStops
  \/ \E p \in Remote : Remotes(p)
  \/ \E p \in Cpu : Drain(p)

Spec == Init /\ [][Next]_vars

(***************************************************************************)
(* Stores reach memory, a CPU that holds the lock finishes what it does    *)
(* and frees it, the idle loop runs, a pending IPI is taken.  A lock that  *)
(* is free again and again is got by a CPU that spins for it.  Nobody need *)
(* ever add a thread, no other interrupt need come, no thread need stop.   *)
(***************************************************************************)
Fairness ==
  /\ \A p \in Cpu : WF_vars(Drain(p))
  /\ \A p \in Remote : WF_vars(Finish(p))
  /\ WF_vars(IdleLoop) /\ SF_vars(Switch) /\ SF_vars(Preempt)

FairSpec == Spec /\ Fairness

(***************************************************************************)
(* Properties                                                              *)
(***************************************************************************)
(* No CPU stays halted with a thread on its queue: an interrupt is on its  *)
(* way, or the CPU that added the thread has yet to decide to send one     *)
(* (the comments on the two fences, "to avoid race with tdq_notify").      *)
NoLostWakeup ==
  Idling("halted") /\ Load(Self, "load") > 0
    => ipi \/ \E p \in Remote : rpc[p] \in {"notify", "wake", "send"}

(* tdq_ipipending is set only while its interrupt is on its way or the     *)
(* handler's store that clears it is: otherwise no IPI would ever be sent  *)
(* again.                                                                  *)
MarkBacked ==
  mem.pending => ipi \/ \E i \in DOMAIN buf[Self] : buf[Self][i] = Put("pending", FALSE)

(* A CPU that idles with a thread on its queue switches to it.  The        *)
(* scheduler's fairness assumption on the idle loop rests on this.         *)
WorkRuns == cur = "idle" /\ Load(Self, "load") > 0 ~> cur = "thread"
=============================================================================
