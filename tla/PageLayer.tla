----------------------------- MODULE PageLayer ------------------------------
(***************************************************************************)
(* The page layer: pages on their queues, without a laundry queue (`what`  *)
(* is "queues"), or with one ("laundry"); the free-page counts and who     *)
(* sleeps on them ("free"); the writing of a cluster of pages ("clean");   *)
(* and the vote and the walk that kill a process when no page can be       *)
(* reclaimed ("oom").  They share no state, so a behaviour is one of one   *)
(* of them, and the others stay as they begin.                             *)
(***************************************************************************)
EXTENDS PageQueues

CONSTANTS
  LaundryThread,                            \* PageQueues with a laundry
  Domain, User, Pageproc, Total,            \* FreeCount
  InterruptFreeMin, PageoutFreeMin, FreeReserved, FreeSevere, FreeMin, WakeupThresh,
  LastIndex, Count, Changes,                \* PageClean
  OomDomain, Proc, Order, Size(_), OomSeq, NoProc  \* Oom

VARIABLES
  what,
  free, minset, severeset, waiters, needed, fCode, asleep, wanted, late, worker,
  cPage, vnode, pip, at, mine, vp, mp, index, lo, hi, back, todo, out, changes,
  seq, oom, vote, oAt, cur, big, state, shielded, killed, hold

counts == <<free, minset, severeset, waiters, needed, fCode, asleep, wanted, late, worker>>
cleaning == <<cPage, vnode, pip, at, mine, vp, mp, index, lo, hi, back, todo, out, changes>>
killer == <<seq, oom, vote, oAt, cur, big, state, shielded, killed, hold>>
all == <<what, vars, counts, cleaning, killer>>

Q == INSTANCE PageQueues WITH Thread <- LaundryThread, Launders <- TRUE

F == INSTANCE FreeCount WITH code <- fCode

C == INSTANCE PageClean WITH page <- cPage

O == INSTANCE Oom WITH at <- oAt, Domain <- OomDomain, Bare <- {}

ASSUME PagesAssumption == Q!QueuesAssumption

ASSUME CountsAssumption == F!LimitsAssumption

ASSUME CleaningAssumption == C!CleanAssumption

ASSUME KillerAssumption == O!OomAssumption

LayerInit ==
  /\ \/ what \in {"queues", "free", "clean", "oom"} /\ Init
     \/ what = "laundry" /\ Q!Init
  /\ F!Init /\ C!Init /\ O!Init
  /\ what # "clean" => index = 0 /\ vnode = {} /\ \A i \in C!Index : cPage[i] = C!Good

Queues == what = "queues" /\ Next /\ UNCHANGED <<what, counts, cleaning, killer>>
Laundry == what = "laundry" /\ Q!Next /\ UNCHANGED <<what, counts, cleaning, killer>>
Counts == what = "free" /\ F!Next /\ UNCHANGED <<what, vars, cleaning, killer>>
Cleaning == what = "clean" /\ C!Next /\ UNCHANGED <<what, vars, counts, killer>>
Killing == what = "oom" /\ O!Next /\ UNCHANGED <<what, vars, counts, cleaning>>

\* The laundry thread has done with its page, or a failed assertion has stopped the kernel.
Done == ((what = "clean" /\ at = "done") \/ failed) /\ UNCHANGED all

LayerNext == Queues \/ Laundry \/ Counts \/ Cleaning \/ Killing \/ Done

LayerSpec == LayerInit /\ [][LayerNext]_all

(* Lists hold the pages whose fields say so: see PageQueues. *)
ListsHoldPages ==
  IF what = "laundry" THEN Q!TypeOK /\ Q!ListsAgree ELSE TypeOK /\ ListsAgree

(* No page drops out of the page daemon's sight: see PageQueues. *)
NoPageLost == IF what = "laundry" THEN Q!NoPageStranded ELSE NoPageStranded

(* The page lock guards where a page belongs: see PageQueues. *)
MembershipGuarded ==
  [][IF what = "laundry" THEN Q!MembershipKept ELSE MembershipKept]_all

(* The sets of short domains follow the counts, and who sleeps for memory  *)
(* will be woken: see FreeCount.                                           *)
SleepersJustified == what = "free" => F!TypeOK /\ F!SetsFollowCounts /\ F!SleepersJustified

(* What is written is a sound cluster: see PageClean. *)
ClusterSound == what = "clean" => C!TypeOK /\ C!ClusterSound /\ C!ClusterAligned

(* Whatever fails on the way, nothing stays held: see PageClean. *)
CleanReleases == what = "clean" => C!CleanReleases

(* The daemons' votes are counted, and what they walk is held: see Oom. *)
VotesAndWalks == what = "oom" => O!TypeOK /\ O!WalkHolds /\ O!VotesCounted
=============================================================================
