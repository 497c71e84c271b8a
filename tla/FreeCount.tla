----------------------------- MODULE FreeCount ------------------------------
(***************************************************************************)
(* The free-page counts of the memory domains, and who sleeps for free     *)
(* pages (vm_page.c, vm_domain_allocate to vm_waitpfault; the top of       *)
(* vm_pageout_worker).  Counts change by atomic operations; whoever moves  *)
(* a count across a limit updates the sets of short domains and wakes the  *)
(* sleepers afterwards, under vm_domainset_lock.                           *)
(***************************************************************************)
EXTENDS Integers, FiniteSets, SequencesExt

CONSTANTS
  Domain,
  User,              \* threads of processes
  Pageproc,          \* threads of the page daemon's process
  Total,             \* the pages of a domain
  InterruptFreeMin,  \* the limits of vm_pageout_init_domain
  PageoutFreeMin,
  FreeReserved,
  FreeSevere,
  FreeMin,
  WakeupThresh

(* What an instance must satisfy. *)
LimitsAssumption ==
  /\ User \cap Pageproc = {}
  /\ {InterruptFreeMin, PageoutFreeMin, FreeReserved, FreeSevere, FreeMin,
      WakeupThresh, Total} \subseteq Nat
  /\ InterruptFreeMin <= PageoutFreeMin
  /\ PageoutFreeMin <= FreeReserved /\ FreeReserved <= FreeSevere
  /\ FreeSevere <= FreeMin /\ FreeMin <= WakeupThresh /\ WakeupThresh <= Total

Caller == User \cup Pageproc

VARIABLES
  free,       \* free[d]: vmd_free_count
  minset,     \* the domains in vm_min_domains (vmd_minset)
  severeset,  \* the domains in vm_severe_domains
  waiters,    \* whether vm_min_waiters, vm_severe_waiters are not zero
  needed,     \* needed[d]: vmd_pageout_pages_needed
  code,       \* code[t]: what t has yet to do
  asleep,     \* asleep[t]: what t sleeps on, or "no"
  wanted,     \* wanted[d]: vmd_pageout_wanted is not zero
  late,       \* late[d]: the worker's store of 0 there waits in its buffer
  worker      \* worker[d]: where the page daemon's worker of d is

vars == <<free, minset, severeset, waiters, needed, code, asleep, wanted, late, worker>>

(* What one sleeps on, and for which domains. *)
Channel == [on : {"min", "severe", "pageout", "tick", "no"}, domains : SUBSET Domain]

Awake == [on |-> "no", domains |-> {}]

TypeOK ==
  /\ free \in [Domain -> 0..Total]
  /\ minset \subseteq Domain /\ severeset \subseteq Domain
  /\ waiters \in [{"min", "severe"} -> BOOLEAN]
  /\ needed \in [Domain -> BOOLEAN]
  /\ asleep \in [Caller -> Channel]
  /\ wanted \in [Domain -> BOOLEAN] /\ late \in [Domain -> BOOLEAN]
  /\ worker \in [Domain -> {"top", "check", "asleep", "scan"}]

PagingMin(d) == free[d] < FreeMin
PagingSevere(d) == free[d] < FreeSevere
PagingNeeded(n) == n < WakeupThresh

Step(do, d) == [do |-> do, domains |-> d]

Does(t, do) == code[t] # <<>> /\ Head(code[t]).do = do

At(t) == CHOOSE d \in Domain : Head(code[t]).domains = {d}

Done(t) == code' = [code EXCEPT ![t] = Tail(@)]

Idle(t) == code[t] = <<>> /\ asleep[t] = Awake

(***************************************************************************)
(* Allocating and freeing                                                  *)
(***************************************************************************)
(* The class of a request; the page daemon may dig deeper. *)
LimitOf(t, class) ==
  CASE class = "interrupt" -> 0
    [] class = "system" -> InterruptFreeMin
    [] class = "normal" -> IF t \in Pageproc THEN InterruptFreeMin ELSE FreeReserved

Crossed(old, new, limit) == old >= limit /\ new < limit

(* vm_domain_allocate; a request that fails may wait for the domain        *)
(* (vm_domain_alloc_fail).                                                 *)
Allocate(t, d, class) ==
  LET old == free[d]
      new == old - 1 IN
  /\ Idle(t)
  /\ IF old < LimitOf(t, class) + 1
     THEN /\ code' = [code EXCEPT ![t] = <<Step("wait", {d})>>]
          /\ UNCHANGED free
     ELSE /\ free' = [free EXCEPT ![d] = new]
          /\ code' = [code EXCEPT ![t] =
               (IF PagingNeeded(new) /\ ~ PagingNeeded(old) /\ t \notin Pageproc
                THEN <<Step("wakeup", {d})>> ELSE <<>>)
               \o (IF Crossed(old, new, FreeMin) \/ Crossed(old, new, FreeSevere)
                   THEN <<Step("set", {d})>> ELSE <<>>)]
  /\ UNCHANGED <<minset, severeset, waiters, needed, asleep, wanted, late, worker>>

(* The count has risen to a limit. *)
Risen(old, new) ==
  \/ Crossed(new, old, FreeMin) \/ Crossed(new, old, FreeSevere)
  \/ Crossed(new, old, PageoutFreeMin)

(* vm_domain_freecnt_inc, by whoever frees a page. *)
Free(t, d) ==
  /\ Idle(t) /\ free[d] < Total
  /\ free' = [free EXCEPT ![d] = @ + 1]
  /\ code' = [code EXCEPT ![t] =
       IF Risen(free[d], free[d] + 1) THEN <<Step("clear", {d})>> ELSE <<>>]
  /\ UNCHANGED <<minset, severeset, waiters, needed, asleep, wanted, late, worker>>

(***************************************************************************)
(* The sets of short domains, under vm_domainset_lock                      *)
(***************************************************************************)
(* vm_domain_set *)
DomainSet(t) ==
  LET d == At(t) IN
  /\ Does(t, "set") /\ Done(t)
  /\ minset' = minset \cup (IF PagingMin(d) THEN {d} ELSE {})
  /\ severeset' = severeset \cup (IF PagingSevere(d) THEN {d} ELSE {})
  /\ UNCHANGED <<free, waiters, needed, asleep, wanted, late, worker>>

(* vm_domain_clear *)
DomainClear(t) ==
  LET d == At(t)
      min == d \in minset /\ ~ PagingMin(d)
      severe == d \in severeset /\ ~ PagingSevere(d)
      pageout == needed[d] /\ free[d] >= PageoutFreeMin
      woken(c) == \/ c.on = "min" /\ min /\ waiters["min"]
                  \/ c.on = "severe" /\ severe /\ waiters["severe"]
                  \/ c.on = "pageout" /\ c.domains = {d} /\ pageout
                  \/ c.on = "tick" IN
  /\ Does(t, "clear") /\ Done(t)
  /\ minset' = minset \ (IF min THEN {d} ELSE {})
  /\ severeset' = severeset \ (IF severe THEN {d} ELSE {})
  /\ needed' = [needed EXCEPT ![d] = @ /\ ~ pageout]
  /\ waiters' = [on \in {"min", "severe"} |->
       waiters[on] /\ ~ (IF on = "min" THEN min ELSE severe)]
  /\ asleep' = [s \in Caller |-> IF woken(asleep[s]) THEN Awake ELSE asleep[s]]
  /\ UNCHANGED <<free, wanted, late, worker>>

(***************************************************************************)
(* Waiting                                                                 *)
(***************************************************************************)
Sleep(t, on, domains) ==
  /\ asleep' = [asleep EXCEPT ![t] = [on |-> on, domains |-> domains]]
  /\ waiters' = IF on \in {"min", "severe"} THEN [waiters EXCEPT ![on] = TRUE] ELSE waiters

NoSleep == UNCHANGED <<asleep, waiters>>

(* vm_wait, vm_waitpfault, vm_wait_min, vm_wait_severe: somebody needs     *)
(* memory, from some of the domains.                                       *)
NeedsMemory(t) ==
  /\ Idle(t)
  /\ \/ \E ds \in (SUBSET Domain) \ {{}} :
          code' = [code EXCEPT ![t] = <<Step("wait doms", ds)>>]
     \/ t \in User /\ \E do \in {"wait min", "wait severe"} :
          code' = [code EXCEPT ![t] = <<Step(do, Domain)>>]
  /\ UNCHANGED <<free, minset, severeset, waiters, needed, asleep, wanted, late, worker>>

(* vm_wait_domain: the page daemon sleeps until its own limit is reached.  *)
WaitDomain(t) ==
  LET d == At(t) IN
  /\ Does(t, "wait")
  /\ IF t \in Pageproc
     THEN /\ Done(t)
          /\ IF free[d] < PageoutFreeMin
             THEN Sleep(t, "pageout", {d}) /\ needed' = [needed EXCEPT ![d] = TRUE]
             ELSE NoSleep /\ UNCHANGED needed
     ELSE /\ code' = [code EXCEPT ![t] = <<Step("wait doms", {d})>>]
          /\ NoSleep /\ UNCHANGED needed
  /\ UNCHANGED <<free, minset, severeset, wanted, late, worker>>

(* vm_wait_doms and vm_waitpfault: once, when every domain is short; the   *)
(* page daemon for one tick whatever the limits.                           *)
WaitDoms(t) ==
  LET ds == Head(code[t]).domains IN
  /\ Does(t, "wait doms") /\ Done(t)
  /\ IF t \in Pageproc THEN Sleep(t, "tick", ds)
     ELSE IF ds \subseteq minset THEN Sleep(t, "min", ds) ELSE NoSleep
  /\ UNCHANGED <<free, minset, severeset, needed, wanted, late, worker>>

(* Mutant of WaitGlobal: vm_severe_waiters is not counted. *)
WaitGlobalUncounted(t) ==
  /\ Does(t, "wait min") \/ Does(t, "wait severe")
  /\ LET on == IF Does(t, "wait min") THEN "min" ELSE "severe"
         short == IF on = "min" THEN minset ELSE severeset IN
     IF Domain \subseteq short
     THEN /\ asleep' = [asleep EXCEPT ![t] = [on |-> on, domains |-> Domain]]
          /\ UNCHANGED <<waiters, code>>
     ELSE NoSleep /\ Done(t)
  /\ asleep[t] = Awake
  /\ UNCHANGED <<free, minset, severeset, needed, wanted, late, worker>>

(* vm_wait_min, vm_wait_severe: as long as every domain is short. *)
WaitGlobal(t) ==
  /\ asleep[t] = Awake
  /\ Does(t, "wait min") \/ Does(t, "wait severe")
  /\ LET on == IF Does(t, "wait min") THEN "min" ELSE "severe"
         short == IF on = "min" THEN minset ELSE severeset IN
     IF Domain \subseteq short
     THEN Sleep(t, on, Domain) /\ UNCHANGED code
     ELSE NoSleep /\ Done(t)
  /\ UNCHANGED <<free, minset, severeset, needed, wanted, late, worker>>

Tick(t) ==
  /\ asleep[t].on = "tick"
  /\ asleep' = [asleep EXCEPT ![t] = Awake]
  /\ UNCHANGED <<free, minset, severeset, waiters, needed, code, wanted, late, worker>>

(***************************************************************************)
(* The page daemon's worker and its wakers                                 *)
(***************************************************************************)
(* pagedaemon_wakeup: only who finds zero there takes the lock and wakes.  *)
(* Between the worker's store and its sleep the lock is held.              *)
Wakeup(t) ==
  LET d == At(t) IN
  \/ /\ Does(t, "wakeup")
     /\ wanted' = [wanted EXCEPT ![d] = TRUE]
     /\ code' = [code EXCEPT ![t] =
          (IF wanted[d] THEN <<>> ELSE <<Step("wake it", {d})>>) \o Tail(@)]
     /\ UNCHANGED <<free, minset, severeset, waiters, needed, asleep, late, worker>>
  \/ /\ Does(t, "wake it") /\ worker[d] # "check" /\ Done(t)
     /\ wanted' = [wanted EXCEPT ![d] = TRUE]
     /\ worker' = [worker EXCEPT ![d] = IF @ = "asleep" THEN "scan" ELSE @]
     /\ UNCHANGED <<free, minset, severeset, waiters, needed, asleep, late>>

(* The lock, and the store of 0, which reaches memory later (Drain). *)
WorkerTop(d) ==
  /\ worker[d] = "top"
  /\ worker' = [worker EXCEPT ![d] = "check"]
  /\ late' = [late EXCEPT ![d] = TRUE]
  /\ UNCHANGED <<free, minset, severeset, waiters, needed, code, asleep, wanted>>

Drain(d) ==
  /\ late[d]
  /\ late' = [late EXCEPT ![d] = FALSE]
  /\ wanted' = [wanted EXCEPT ![d] = FALSE]
  /\ UNCHANGED <<free, minset, severeset, waiters, needed, code, asleep, worker>>

(* The load of the count.  To free the lock, and to sleep, are locked      *)
(* operations, by which the buffer is empty: the next step is Drain's.     *)
WorkerCheck(d) ==
  /\ worker[d] = "check"
  /\ worker' = [worker EXCEPT ![d] = IF PagingNeeded(free[d]) THEN "scan" ELSE "asleep"]
  /\ UNCHANGED <<free, minset, severeset, waiters, needed, code, asleep, wanted, late>>

(* The sleep ends after hz / VM_INACT_SCAN_RATE at the latest. *)
WorkerTimeout(d) ==
  /\ worker[d] = "asleep" /\ ~ late[d]
  /\ worker' = [worker EXCEPT ![d] = "scan"]
  /\ UNCHANGED <<free, minset, severeset, waiters, needed, code, asleep, wanted, late>>

(* wanted is set, the queues are scanned; the pages that frees are Free's. *)
WorkerScan(d) ==
  /\ worker[d] = "scan" /\ ~ late[d]
  /\ wanted' = [wanted EXCEPT ![d] = TRUE]
  /\ worker' = [worker EXCEPT ![d] = "top"]
  /\ UNCHANGED <<free, minset, severeset, waiters, needed, code, asleep, late>>

Init ==
  /\ free = [d \in Domain |-> Total]
  /\ minset = {} /\ severeset = {}
  /\ waiters = [on \in {"min", "severe"} |-> FALSE]
  /\ needed = [d \in Domain |-> FALSE]
  /\ code = [t \in Caller |-> <<>>]
  /\ asleep = [t \in Caller |-> Awake]
  /\ wanted = [d \in Domain |-> FALSE] /\ late = [d \in Domain |-> FALSE]
  /\ worker = [d \in Domain |-> "top"]

Next ==
  \/ \E t \in Caller, d \in Domain :
       Free(t, d) \/ \E class \in {"interrupt", "system", "normal"} : Allocate(t, d, class)
  \/ \E t \in Caller :
       \/ DomainSet(t) \/ DomainClear(t) \/ NeedsMemory(t) \/ WaitDomain(t)
       \/ WaitDoms(t) \/ WaitGlobal(t) \/ Tick(t) \/ Wakeup(t)
  \/ \E d \in Domain :
       WorkerTop(d) \/ Drain(d) \/ WorkerCheck(d) \/ WorkerTimeout(d) \/ WorkerScan(d)

Spec == Init /\ [][Next]_vars

(***************************************************************************)
(* Properties                                                              *)
(***************************************************************************)
Pending(do, d) ==
  \E t \in Caller : Contains(code[t], Step(do, {d}))

(* However the counts move while the lock is waited for, the sets of short *)
(* domains end up right: a domain is wrongly in or out of a set only while *)
(* somebody has yet to take the lock and look again.                       *)
SetsFollowCounts ==
  \A d \in Domain :
    /\ (d \in minset) # PagingMin(d) => Pending("set", d) \/ Pending("clear", d)
    /\ (d \in severeset) # PagingSevere(d) => Pending("set", d) \/ Pending("clear", d)

(* Who sleeps for memory sleeps for a reason: all the domains it could use *)
(* are still in the set it waits on (so that leaving the set wakes it), it *)
(* is counted, and where the count has already recovered its wakeup is on  *)
(* the way.                                                                *)
SleepersJustified ==
  \A t \in Caller :
    LET c == asleep[t] IN
    /\ c.on = "min" => waiters["min"] /\ c.domains \subseteq minset
    /\ c.on = "severe" => waiters["severe"] /\ c.domains \subseteq severeset
    /\ c.on = "pageout" =>
         \A d \in c.domains :
           needed[d] /\ (free[d] >= PageoutFreeMin => Pending("clear", d))
=============================================================================
