------------------------------ MODULE PageBusy ------------------------------
(***************************************************************************)
(* The busy lock of one page (vm_page.c): a word with a number of sharers, *)
(* a mark for one exclusive owner and a waiters bit, changed by atomic     *)
(* compare-and-set; sleepers queue on the page under the page lock.  Every *)
(* load and every compare-and-set is a step of its own.                    *)
(***************************************************************************)
EXTENDS Integers, FiniteSets

CONSTANTS
  Thread,  \* the threads that busy the page
  Nobody   \* the owner of a page lock that is free

ASSUME BusyAssumption == Nobody \notin Thread /\ IsFiniteSet(Thread)

VARIABLES
  word,   \* busy_lock: sharers, exclusive, waiters
  plock,  \* the owner of the page lock
  proc    \* proc[t]: where t is, what it wants, the word it has loaded, and
          \* whether its caller already held the page lock

vars == <<word, plock, proc>>

Word == [sharers : 0..Cardinality(Thread), exclusive : BOOLEAN, waiters : BOOLEAN]

Unbusied == [sharers |-> 0, exclusive |-> FALSE, waiters |-> FALSE]

Exclusive == [Unbusied EXCEPT !.exclusive = TRUE]

Sharers(n) == [Unbusied EXCEPT !.sharers = n]

Flagged(w) == [w EXCEPT !.waiters = TRUE]

Where == {"out", "try", "join", "block", "sleep", "mark", "asleep",
          "shared", "sunbusy", "drop", "sunlock", "sunhard",
          "owner", "locking", "xunbusy", "hard", "store", "down", "downlock",
          "downset", "flash", "unflag", "wakeup", "unlock"}

(* What a thread is after: busy the page shared or exclusively, wait until *)
(* it is free, or wake up who waits for it.                                *)
Want == {"shared", "exclusive", "free", "flash"}

TypeOK ==
  /\ word \in Word
  /\ plock \in Thread \cup {Nobody}
  /\ proc \in [Thread -> [at : Where, next : Where, want : Want, seen : Word,
                          locked : BOOLEAN]]

At(t, where) == proc[t].at = where

(* What a thread has no use for where it is now is forgotten. *)
Local(r) ==
  [r EXCEPT
     !.want = IF r.at \in {"try", "join", "block", "sleep", "mark", "asleep"}
              THEN @ ELSE "free",
     !.seen = IF r.at \in {"join", "mark", "drop", "sunhard", "sunlock", "downlock",
                           "downset", "unflag"} THEN @ ELSE Unbusied,
     !.next = IF r.at \in {"locking", "wakeup", "unlock"} THEN @ ELSE "out",
     !.locked = IF r.at \in {"locking", "xunbusy", "down", "downset"} THEN @ ELSE FALSE]

Set(t, r) == proc' = [proc EXCEPT ![t] = Local(r)]

Goto(t, where) == Set(t, [proc[t] EXCEPT !.at = where])

Lock(t) == plock = Nobody /\ plock' = t

(***************************************************************************)
(* Acquiring                                                               *)
(***************************************************************************)
Begin(t) ==
  /\ At(t, "out")
  /\ \E w \in Want : Set(t, [proc[t] EXCEPT !.at = "try", !.want = w])
  /\ UNCHANGED <<word, plock>>

(* vm_page_tryxbusy, the test of vm_page_sleep_if_busy, the load of        *)
(* vm_page_trysbusy: a page that cannot be had now is waited for.          *)
Try(t) ==
  /\ At(t, "try") /\ UNCHANGED plock
  /\ CASE proc[t].want = "exclusive" ->
            IF word = Unbusied THEN word' = Exclusive /\ Goto(t, "owner")
            ELSE Goto(t, "block") /\ UNCHANGED word
       [] proc[t].want = "free" ->
            Goto(t, IF word = Unbusied THEN "out" ELSE "block") /\ UNCHANGED word
       [] proc[t].want = "shared" ->
            /\ Set(t, [proc[t] EXCEPT !.seen = word,
                                    !.at = IF word.exclusive THEN "block" ELSE "join"])
            /\ UNCHANGED word
       [] proc[t].want = "flash" -> Goto(t, "block") /\ UNCHANGED word

(* Mutant of Join: the sharer is added without comparing. *)
JoinBlindly(t) ==
  /\ At(t, "join") /\ UNCHANGED plock
  /\ word' = [word EXCEPT !.sharers = @ + 1]
  /\ Goto(t, "shared")

(* The compare-and-set of vm_page_trysbusy, which keeps the waiters bit. *)
Join(t) ==
  /\ At(t, "join") /\ UNCHANGED plock
  /\ IF word = proc[t].seen
     THEN word' = [word EXCEPT !.sharers = @ + 1] /\ Goto(t, "shared")
     ELSE Goto(t, "try") /\ UNCHANGED word

Block(t) ==
  /\ At(t, "block") /\ Lock(t)
  /\ Goto(t, IF proc[t].want = "flash" THEN "flash" ELSE "sleep")
  /\ UNCHANGED word

(* The load of vm_page_busy_sleep and its tests; who only wants to share   *)
(* sleeps for an exclusive owner only (nonshared).                         *)
BusySleep(t) ==
  /\ At(t, "sleep") /\ UNCHANGED word
  /\ IF word = Unbusied \/ (proc[t].want = "shared" /\ ~ word.exclusive)
     THEN plock' = Nobody /\ Goto(t, "try")
     ELSE IF word.waiters
     THEN plock' = Nobody /\ Goto(t, "asleep")
     ELSE UNCHANGED plock /\ Set(t, [proc[t] EXCEPT !.seen = word, !.at = "mark"])

(* Mutant of Mark: a thread sleeps although its compare-and-set failed. *)
MarkRegardless(t) ==
  /\ At(t, "mark")
  /\ plock' = Nobody
  /\ word' = IF word = proc[t].seen THEN Flagged(word) ELSE word
  /\ Goto(t, "asleep")

(* Its compare-and-set, and msleep, which frees the page lock. *)
Mark(t) ==
  /\ At(t, "mark")
  /\ plock' = Nobody
  /\ IF word = proc[t].seen
     THEN word' = Flagged(word) /\ Goto(t, "asleep")
     ELSE UNCHANGED word /\ Goto(t, "try")

(***************************************************************************)
(* Releasing a shared page: vm_page_sunbusy                                *)
(***************************************************************************)
Sunbusy(t) ==
  /\ At(t, "shared") \/ At(t, "sunbusy")
  /\ Set(t, [proc[t] EXCEPT !.seen = word,
       !.at = IF word.sharers > 1 \/ ~ word.waiters THEN "drop" ELSE "sunlock"])
  /\ UNCHANGED <<word, plock>>

(* The compare-and-set without the lock: not the last sharer, or nobody waits. *)
Drop(t) ==
  /\ At(t, "drop") /\ UNCHANGED plock
  /\ IF word = proc[t].seen
     THEN word' = [word EXCEPT !.sharers = @ - 1] /\ Goto(t, "out")
     ELSE Goto(t, "sunbusy") /\ UNCHANGED word

Sunlock(t) ==
  /\ At(t, "sunlock") /\ Lock(t)
  /\ Goto(t, "sunhard")
  /\ UNCHANGED word

Sunhard(t) ==
  /\ At(t, "sunhard") /\ UNCHANGED plock
  /\ IF word = proc[t].seen
     THEN word' = Unbusied /\ Set(t, [proc[t] EXCEPT !.at = "wakeup", !.next = "out"])
     ELSE UNCHANGED word /\ Set(t, [proc[t] EXCEPT !.at = "unlock", !.next = "sunbusy"])

(***************************************************************************)
(* Releasing or downgrading an exclusive page; the caller may already hold *)
(* the page lock (mtx_owned).                                              *)
(***************************************************************************)
Release(t) ==
  /\ At(t, "owner")
  /\ \E next \in {"xunbusy", "down"} :
       \/ Set(t, [proc[t] EXCEPT !.at = next, !.locked = FALSE])
       \/ Set(t, [proc[t] EXCEPT !.at = "locking", !.next = next, !.locked = TRUE])
  /\ UNCHANGED <<word, plock>>

Locking(t) ==
  /\ At(t, "locking") /\ Lock(t)
  /\ Goto(t, proc[t].next)
  /\ UNCHANGED word

(* vm_page_xunbusy and vm_page_xunbusy_maybelocked: the fast path. *)
Xunbusy(t) ==
  /\ At(t, "xunbusy") /\ UNCHANGED plock
  /\ IF word = Exclusive
     THEN /\ word' = Unbusied
          /\ Set(t, [proc[t] EXCEPT !.at = IF proc[t].locked THEN "unlock" ELSE "out",
                                  !.next = "out"])
     ELSE Goto(t, IF proc[t].locked THEN "store" ELSE "hard") /\ UNCHANGED word

(* vm_page_xunbusy_hard *)
Hard(t) ==
  /\ At(t, "hard") /\ Lock(t)
  /\ Goto(t, "store")
  /\ UNCHANGED word

(* vm_page_xunbusy_locked *)
StoreUnbusied(t) ==
  /\ At(t, "store")
  /\ word' = Unbusied
  /\ Set(t, [proc[t] EXCEPT !.at = "wakeup", !.next = "out"])
  /\ UNCHANGED plock

(* vm_page_busy_downgrade: the load. *)
Down(t) ==
  /\ At(t, "down")
  /\ Set(t, [proc[t] EXCEPT !.seen = IF word.waiters THEN Flagged(Exclusive) ELSE Exclusive,
       !.at = IF word.waiters /\ ~ proc[t].locked THEN "downlock" ELSE "downset"])
  /\ UNCHANGED <<word, plock>>

Downlock(t) ==
  /\ At(t, "downlock") /\ Lock(t)
  /\ Goto(t, "downset")
  /\ UNCHANGED word

(* The compare-and-set.  When it fails, the lock is freed if the loop took *)
(* it.                                                                     *)
Downset(t) ==
  /\ At(t, "downset") /\ UNCHANGED plock
  /\ IF word = proc[t].seen
     THEN /\ word' = Sharers(1)
          /\ Set(t, [proc[t] EXCEPT !.next = "shared",
               !.at = IF proc[t].seen.waiters THEN "wakeup"
                         ELSE IF proc[t].locked THEN "unlock" ELSE "shared"])
     ELSE /\ UNCHANGED word
          /\ IF proc[t].seen.waiters /\ ~ proc[t].locked
             THEN Set(t, [proc[t] EXCEPT !.at = "unlock", !.next = "down"])
             ELSE Goto(t, "down")

(***************************************************************************)
(* vm_page_flash, wakeup                                                   *)
(***************************************************************************)
Flash(t) ==
  /\ At(t, "flash")
  /\ Set(t, [proc[t] EXCEPT !.seen = word, !.next = "out",
                          !.at = IF word.waiters THEN "unflag" ELSE "unlock"])
  /\ UNCHANGED <<word, plock>>

Unflag(t) ==
  /\ At(t, "unflag") /\ UNCHANGED plock
  /\ IF word = proc[t].seen
     THEN word' = [word EXCEPT !.waiters = FALSE] /\ Goto(t, "wakeup")
     ELSE UNCHANGED word /\ Goto(t, "flash")

(* Mutant of Wakeup: wakeup_one, to the sleeper of choice. *)
WakeupOne(t) ==
  /\ At(t, "wakeup")
  /\ LET asleep == {s \in Thread : At(s, "asleep")} IN
     \E chosen \in SUBSET asleep :
       /\ Cardinality(chosen) = IF asleep = {} THEN 0 ELSE 1
       /\ proc' = [s \in Thread |->
            IF s = t THEN Local([proc[s] EXCEPT !.at = "unlock"])
            ELSE IF s \in chosen THEN [proc[s] EXCEPT !.at = "try"] ELSE proc[s]]
  /\ UNCHANGED <<word, plock>>

(* Every sleeper runs again, and tries again. *)
Wakeup(t) ==
  /\ At(t, "wakeup")
  /\ proc' = [s \in Thread |->
       IF s = t THEN Local([proc[s] EXCEPT !.at = "unlock"])
       ELSE IF At(s, "asleep") THEN [proc[s] EXCEPT !.at = "try"] ELSE proc[s]]
  /\ UNCHANGED <<word, plock>>

Unlock(t) ==
  /\ At(t, "unlock")
  /\ plock' = Nobody
  /\ Goto(t, proc[t].next)
  /\ UNCHANGED word

Init ==
  /\ word = Unbusied /\ plock = Nobody
  /\ proc = [t \in Thread |-> [at |-> "out", next |-> "out", want |-> "free",
                               seen |-> Unbusied, locked |-> FALSE]]

Blocking(t) == Block(t) \/ Sunlock(t) \/ Locking(t) \/ Hard(t) \/ Downlock(t)

Running(t) ==
  \/ Try(t) \/ Join(t) \/ BusySleep(t) \/ Mark(t)
  \/ Sunbusy(t) \/ Drop(t) \/ Sunhard(t)
  \/ Release(t) \/ Xunbusy(t) \/ StoreUnbusied(t)
  \/ Down(t) \/ Downset(t) \/ Flash(t) \/ Unflag(t) \/ Wakeup(t) \/ Unlock(t)

Next == \E t \in Thread : Begin(t) \/ Running(t) \/ Blocking(t)

Spec == Init /\ [][Next]_vars

(***************************************************************************)
(* Threads run and give a page back; a thread that blocks on the page lock *)
(* while it is free again and again gets it (a turnstile queues them).     *)
(* Nobody need ever want the page.                                         *)
(***************************************************************************)
Fairness == \A t \in Thread : WF_vars(Running(t)) /\ SF_vars(Blocking(t))

FairSpec == Spec /\ Fairness

(***************************************************************************)
(* Properties                                                              *)
(***************************************************************************)
(* The releasers look only at the waiters bit, and one of them clears it   *)
(* only together with a wakeup: whoever sleeps is announced by the bit, or *)
(* a wakeup is under way, and a free page has no sleeper left.             *)
SleepersAnnounced ==
  \A t \in Thread : At(t, "asleep") =>
    \/ word.waiters /\ (word.exclusive \/ word.sharers > 0)
    \/ \E s \in Thread : At(s, "wakeup")

Sharing(t) ==
  \/ proc[t].at \in {"shared", "sunbusy", "drop", "sunlock", "sunhard"}
  \/ proc[t].at \in {"wakeup", "unlock"} /\ proc[t].next \in {"shared", "sunbusy"}

Owning(t) ==
  \/ proc[t].at \in {"owner", "xunbusy", "hard", "store", "locking", "down",
                      "downlock", "downset"}
  \/ proc[t].at = "unlock" /\ proc[t].next = "down"

(* The word counts exactly the threads that hold the page, across          *)
(* downgrades and failed compare-and-sets, and nobody shares a page that   *)
(* has an exclusive owner (vm_page_assert_sbusied, vm_page_assert_xbusied, *)
(* the two assertions of vm_page_sunbusy).                                 *)
HoldersCounted ==
  /\ word.sharers = Cardinality({t \in Thread : Sharing(t)})
  /\ Cardinality({t \in Thread : Owning(t)}) = IF word.exclusive THEN 1 ELSE 0
  /\ ~ (word.exclusive /\ word.sharers > 0)
  /\ \A t \in Thread : proc[t].at \in {"sleep", "mark", "sunhard", "store", "flash",
                                       "unflag", "wakeup", "unlock"} => plock = t

(* The word of a page counts who holds it and announces who sleeps for it. *)
HoldersAndSleepers == TypeOK /\ HoldersCounted /\ SleepersAnnounced

(* What each thread holds, in the terms of the lock the others rely on. *)
Held(t) == IF Owning(t) THEN "exclusive" ELSE IF Sharing(t) THEN "shared" ELSE "no"

Abstract == INSTANCE PageLock WITH holding <- [t \in Thread |-> Held(t)]

(* The protocol of loads and compare-and-sets is a lock: every change of   *)
(* the word is one step of it, and whatever the others do in between, no   *)
(* thread shares or owns a page that another owns, and a downgrade leaves  *)
(* no gap (vm_page_busy_downgrade).                                        *)
IsPageLock == Abstract!Spec

(* As long as sharers do not follow each other without a gap, for ever, no *)
(* thread sleeps for the page for ever.                                    *)
WakesUp(t) == []<>(word.sharers = 0) => (At(t, "asleep") ~> ~ At(t, "asleep"))
=============================================================================
