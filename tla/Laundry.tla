------------------------------ MODULE Laundry ------------------------------
(***************************************************************************)
(* The laundry thread of a domain and the requests of its page daemon      *)
(* (vm_pageout.c).  The daemon posts a request after a pass over the       *)
(* inactive queue: in the background when the pass met its target, for a   *)
(* shortfall when it did not.  The thread launders in runs, of which it    *)
(* keeps the rest (`target`), and sleeps when it has neither a run nor a   *)
(* request.  Both hold the laundry queue's lock where they look at the     *)
(* request.                                                                *)
(*                                                                         *)
(* How many pages a launder writes, and how many it should, are inputs.    *)
(***************************************************************************)
EXTENDS Integers

CONSTANTS
  Cycle,       \* VM_LAUNDER_RATE / VM_INACT_SCAN_RATE
  Background,  \* vmd_background_launder_target
  Rate,        \* what one round launders in the background
  Belt,        \* vm_background_launder_max, in pages
  Shortfalls,  \* values of vm_laundry_target + vmd_pageout_deficit
  Cluster      \* the largest number of pages written together

(* What an instance must satisfy. *)
LaundryAssumption ==
  /\ Cycle \in Nat \ {0} /\ Cluster \in Nat \ {0}
  /\ Background \in Nat /\ Rate \in Nat /\ Belt \in Nat
  /\ Shortfalls \subseteq Int

VARIABLES
  request,      \* vmd_laundry_request
  freed,        \* vmd_clean_pages_freed, of which only zero matters
  swap,         \* swapdev_enabled
  dirty,        \* whether the laundry queue holds a page
  at,           \* where the thread is
  target, launder, shortfall, inShortfall, cycle, nfreed,
  last,         \* last_target, -1 until it is set
  missing       \* from now on every pass misses its target

thread == <<at, target, launder, shortfall, inShortfall, cycle, nfreed, last>>
vars == <<request, freed, swap, dirty, thread, missing>>

Init ==
  /\ request = "idle" /\ freed = 0 /\ swap = FALSE /\ dirty = TRUE
  /\ at = "top"
  /\ target = 0 /\ launder = 0 /\ shortfall = 0
  /\ inShortfall = FALSE /\ cycle = 0 /\ nfreed = 0
  /\ last = -1
  /\ missing = FALSE

Smaller(a, b) == IF a < b THEN a ELSE b

-----------------------------------------------------------------------------
(* The thread *)

Launders(n) == launder' = n /\ at' = IF n > 0 THEN "launder" ELSE "lock"

\* A shortfall starts a run, of which each round takes its part.
StartShortfall ==
  /\ at = "top" /\ shortfall > 0
  /\ inShortfall' = TRUE
  /\ cycle' = Cycle - 1
  /\ target' = shortfall
  /\ Launders(shortfall \div Cycle)
  /\ UNCHANGED <<shortfall, nfreed, last>>

\* Whether vm_laundry_target is positive.
StillShort == IF missing THEN {TRUE} ELSE BOOLEAN

GoOnShortfall ==
  /\ at = "top" /\ shortfall <= 0 /\ inShortfall /\ cycle # 0
  /\ TRUE \in StillShort
  /\ Launders(target \div cycle)
  /\ cycle' = cycle - 1
  /\ UNCHANGED <<target, shortfall, inShortfall, nfreed, last>>

\* Without a shortfall, or at its end, a background run starts if there are many dirty
\* pages, goes on, or is cut off when nothing was freed during it; last_target is read
\* before it is set when nothing was freed since the thread started.
TryBackground ==
  /\ at = "top" /\ shortfall <= 0
  /\ \/ ~inShortfall /\ UNCHANGED cycle
     \/ inShortfall /\ (cycle = 0 \/ FALSE \in StillShort) /\ UNCHANGED cycle
  /\ inShortfall' = FALSE
  /\ UNCHANGED shortfall
  /\ \E many \in BOOLEAN, garbage \in BOOLEAN :
       LET kept == IF inShortfall THEN 0 ELSE target
           run == IF kept = 0 /\ many THEN Background ELSE kept
           over == IF last = -1 THEN garbage ELSE last - run >= Belt
           left == IF run > 0 /\ nfreed = 0 /\ over THEN 0 ELSE run
       IN  /\ target' = left
           /\ nfreed' = IF run > 0 THEN 0 ELSE nfreed
           /\ last' = IF run > 0 /\ nfreed > 0 THEN run ELSE last
           /\ Launders(IF run > 0 THEN Smaller(Rate, left) ELSE 0)

\* vm_pageout_launder writes up to a cluster more than it is asked for.
Launder(n) ==
  /\ at = "launder"
  /\ n \in 0..launder + Cluster - 1
  /\ target' = target - Smaller(n, target)
  /\ at' = "lock"
  /\ UNCHANGED <<launder, shortfall, inShortfall, cycle, nfreed, last>>

\* Mutant of Look: the look does not take up what was asked for.
LookLeaves ==
  /\ shortfall' = 0 /\ UNCHANGED <<target, request>>
  /\ nfreed' = Smaller(1, nfreed + freed) /\ freed' = 0
  /\ at' = "top"
  /\ UNCHANGED <<launder, inShortfall, cycle, last>>

\* The thread's look at the request, before it sleeps or after.
Look ==
  /\ IF request = "shortfall" /\ (~inShortfall \/ cycle = 0)
     THEN /\ \E s \in Shortfalls : (missing => s > 0) /\ shortfall' = s
          /\ target' = 0
     ELSE /\ shortfall' = 0
          /\ UNCHANGED target
  /\ request' = IF target' = 0 THEN "idle" ELSE request
  /\ nfreed' = Smaller(1, nfreed + freed) /\ freed' = 0
  /\ at' = "top"
  /\ UNCHANGED <<launder, inShortfall, cycle, last>>

Sleep ==
  /\ at = "lock" /\ target = 0 /\ request = "idle"
  /\ at' = "asleep"
  /\ UNCHANGED <<request, freed, target, launder, shortfall, inShortfall, cycle, nfreed, last>>

GoOn == at = "lock" /\ ~(target = 0 /\ request = "idle") /\ Look

Woken == at = "woken" /\ Look
-----------------------------------------------------------------------------
(* The page daemon, at the end of a pass that had pages to free *)

Wakeup == at' = IF at = "asleep" THEN "woken" ELSE at

Post(met) ==
  /\ IF request = "idle" /\ (dirty \/ swap)
     THEN /\ request' = IF met THEN "background" ELSE "shortfall"
          /\ Wakeup
     ELSE UNCHANGED <<request, at>>
  /\ freed' \in (IF met THEN {1} ELSE {freed, 1})
  /\ UNCHANGED <<swap, dirty, target, launder, shortfall, inShortfall, cycle, nfreed, last, missing>>

Pass == \E met \in BOOLEAN : (missing => ~met) /\ Post(met)

-----------------------------------------------------------------------------
(* Swap devices, and the pages of the laundry queue (external) *)

Swap == swap' = ~swap /\ UNCHANGED <<request, freed, dirty, thread, missing>>
Dirty == dirty' = ~dirty /\ ~missing /\ UNCHANGED <<request, freed, swap, thread, missing>>

\* From now on there are dirty pages, and every pass misses its target.
Miss ==
  /\ dirty /\ ~missing /\ missing' = TRUE
  /\ UNCHANGED <<request, freed, swap, dirty, thread>>

Decide ==
  /\ StartShortfall \/ GoOnShortfall \/ TryBackground
  /\ UNCHANGED <<request, freed, swap, dirty, missing>>
LaunderAny(N) ==
  /\ \E n \in N : Launder(n)
  /\ UNCHANGED <<request, freed, swap, dirty, missing>>
Worker ==
  \/ Decide \/ LaunderAny(0..(Belt + Cluster + Background))
  \/ (Sleep \/ GoOn \/ Woken) /\ UNCHANGED <<swap, dirty>> /\ UNCHANGED missing

Next == Worker \/ Pass \/ Swap \/ Dirty \/ Miss

Spec == Init /\ [][Next]_vars

(* The two are kernel threads that go on; launders write a page again and again. *)
Fairness ==
  /\ WF_vars(Worker) /\ WF_vars(Pass)
  /\ SF_vars(LaunderAny(1..(Belt + Cluster + Background)))

FairSpec == Spec /\ Fairness

-----------------------------------------------------------------------------
\* Types, with the assertions of the thread's loop.
TypeOK ==
  /\ request \in {"idle", "background", "shortfall"}
  /\ at \in {"top", "launder", "lock", "asleep", "woken"}
  /\ target \in Nat /\ launder \in Nat /\ cycle \in 0..Cycle
  /\ shortfall \in Int /\ inShortfall \in BOOLEAN
  /\ freed \in 0..1 /\ nfreed \in 0..1 /\ last \in Nat \cup {-1}


\* The thread sleeps only without a run and without a request: a request posted while it
\* launders, or just before it sleeps, is seen.
NoRequestSleptThrough == at = "asleep" => target = 0 /\ request = "idle"

\* When every pass misses its target, the thread comes to launder for a shortfall, also if
\* a background run, or a request for one, was under way.
ShortfallAnswered == missing ~> (at = "launder" /\ inShortfall)
=============================================================================
