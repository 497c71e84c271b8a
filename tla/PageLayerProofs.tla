-------------------------- MODULE PageLayerProofs ---------------------------
(***************************************************************************)
(* What the page layer keeps, for any number of pages, domains, threads    *)
(* and processes: the proofs about the queues are PageQueueProofs', those  *)
(* about the free-page counts FreeCountProofs', and those about the vote   *)
(* and the walk that kill a process, and about the writing of a cluster,   *)
(* are here.                                                               *)
(***************************************************************************)
EXTENDS PageLayer, PageQueueProofs, FiniteSetTheorems, TLAPS

(***************************************************************************)
(* The pages on their queues                                               *)
(***************************************************************************)
QP == INSTANCE PageQueueProofs WITH Thread <- LaundryThread, Launders <- TRUE

(* The PageQueues of the proofs is the layer's. *)
LEMMA SameQueues ==
  /\ Q!QueuesAssumption <=> QP!QueuesAssumption
  /\ (Q!Init <=> QP!Init) /\ (Q!Next <=> QP!Next)
  /\ Q!TypeOK <=> QP!TypeOK
  /\ Q!ListsAgree <=> QP!ListsAgree
  /\ Q!MembershipKept <=> QP!MembershipKept
<1>1. Q!QueuesAssumption <=> QP!QueuesAssumption
  BY DEF Q!QueuesAssumption, QP!QueuesAssumption, Q!IsFiniteSet, QP!IsFiniteSet,
         Q!Marker, QP!Marker, Q!Inacthead, QP!Inacthead, Q!Actor, QP!Actor
<1>2. Q!Init <=> QP!Init
  BY DEF Q!Init, QP!Init, Q!Queue, QP!Queue, Q!Inactive, QP!Inactive,
         Q!Inacthead, QP!Inacthead, Q!Actor, QP!Actor, Q!NoScan, QP!NoScan
<1>3. Q!Next <=> QP!Next
  BY DEF Q!Next, QP!Next, Q!Works, QP!Works, Q!Fail, QP!Fail, Q!lists, QP!lists,
         Q!Destroy, QP!Destroy, Q!Asserted, QP!Asserted, Q!Begin, QP!Begin, Q!Advise, QP!Advise, Q!Activate,
         QP!Activate, Q!Logical, QP!Logical, Q!Dequeue, QP!Dequeue, Q!Instr,
         QP!Instr, Q!Enqueue, QP!Enqueue, Q!DeactivateNoreuse,
         QP!DeactivateNoreuse, Q!Launder, QP!Launder, Q!Requeue, QP!Requeue,
         Q!Deactivate, QP!Deactivate, Q!Queue, QP!Queue, Q!Unwire, QP!Unwire,
         Q!Writing, QP!Writing, Q!Free, QP!Free, Q!DequeueDeferred,
         QP!DequeueDeferred, Q!Alloc, QP!Alloc, Q!Actor, QP!Actor, Q!Executes,
         QP!Executes, Q!Use, QP!Use, Q!Does, QP!Does, Q!Next1, QP!Next1,
         Q!Continue, QP!Continue, Q!UnlockPage, QP!UnlockPage, Q!UnlockQueue,
         QP!UnlockQueue, Q!Mark, QP!Mark, Q!Defer, QP!Defer, Q!DequeueNow,
         QP!DequeueNow, Q!Detach, QP!Detach, Q!Without, QP!Without, Q!Less,
         QP!Less, Q!Contains, QP!Contains, Q!RemoveAt, QP!RemoveAt, Q!Place,
         QP!Place, Q!Clear, QP!Clear, Q!Submit, QP!Submit, Q!Entries,
         QP!Entries, Q!Finish, QP!Finish, Q!Check, QP!Check, Q!Apply, QP!Apply,
         Q!Before, QP!Before, Q!InsertAt, QP!InsertAt, Q!Inacthead,
         QP!Inacthead, Q!Settle, QP!Settle, Q!Drain, QP!Drain, Q!Scans,
         QP!Scans, Q!BeginScan, QP!BeginScan, Q!Marker, QP!Marker, Q!Collect,
         QP!Collect, Q!Last, QP!Last, Q!CollectOne, QP!CollectOne, Q!Inactive,
         QP!Inactive, Q!Look, QP!Look, Q!Decide, QP!Decide, Q!DecideLaundry,
         QP!DecideLaundry, Q!Clean, QP!Clean, Q!Max, QP!Max, Q!Reinsert,
         QP!Reinsert, Q!Put, QP!Put, Q!StopScan, QP!StopScan, Q!EndScan,
         QP!EndScan, Q!NoScan, QP!NoScan
<1>4. Q!TypeOK <=> QP!TypeOK
  BY DEF Q!TypeOK, QP!TypeOK, Q!Queue, QP!Queue, Q!Flag, QP!Flag, Q!Actor, QP!Actor,
         Q!Marker, QP!Marker, Q!Inacthead, QP!Inacthead, Q!Cardinality, QP!Cardinality
<1>5. Q!ListsAgree <=> QP!ListsAgree
  BY DEF Q!ListsAgree, QP!ListsAgree, Q!Queue, QP!Queue, Q!Members, QP!Members,
         Q!ToSet, QP!ToSet, Q!Cardinality, QP!Cardinality, Q!IsInjective, QP!IsInjective
<1>6. Q!MembershipKept <=> QP!MembershipKept
  BY DEF Q!MembershipKept, QP!MembershipKept, Q!Logical, QP!Logical
<1> QED
  BY <1>1, <1>2, <1>3, <1>4, <1>5, <1>6

(* The inductive invariant, of the queues the behaviour has. *)
QueuesInv == IF what = "laundry" THEN QP!Inv /\ QP!Sized ELSE Inv /\ Sized

(* How a step of the layer concerns the queues. *)
LEMMA QueueSteps ==
  ASSUME [LayerNext]_all
  PROVE  /\ what' = what
         /\ what = "laundry" => QP!Next \/ UNCHANGED vars
         /\ what # "laundry" => Next \/ UNCHANGED vars
<1>1. CASE Queues \/ Laundry
  BY <1>1, SameQueues DEF Queues, Laundry
<1>2. CASE ~ (Queues \/ Laundry)
  BY <1>2 DEF LayerNext, Counts, Cleaning, Killing, Done, all
<1> QED
  BY <1>1, <1>2

LEMMA QueuesKept == LayerSpec => []QueuesInv
<1>1. QP!QueuesAssumption
  BY PagesAssumption, SameQueues
<1>2. ASSUME LayerInit
      PROVE  QueuesInv
  <2>1. CASE what = "laundry"
    <3>1. QP!Init
      BY <1>2, <2>1, SameQueues DEF LayerInit
    <3> QED
      BY <1>1, <2>1, <3>1, QP!InvInit, QP!SizedInit DEF QueuesInv
  <2>2. CASE what # "laundry"
    <3>1. Init
      BY <1>2, <2>2 DEF LayerInit
    <3> QED
      BY <2>2, <3>1, InvInit, SizedInit DEF QueuesInv
  <2> QED
    BY <2>1, <2>2
<1>3. ASSUME QueuesInv, [LayerNext]_all
      PROVE  QueuesInv'
  <2>1. CASE what = "laundry"
    <3>1. [QP!Next]_(QP!vars) /\ what' = what
      BY <1>3, <2>1, QueueSteps DEF vars, lists, QP!vars, QP!lists
    <3>2. QP!Inv /\ QP!Sized
      BY <1>3, <2>1 DEF QueuesInv
    <3>3. QP!Inv' /\ QP!Sized'
      BY <1>1, <3>1, <3>2, QP!InvNext, QP!SizedNext
    <3> QED
      BY <2>1, <3>1, <3>3 DEF QueuesInv
  <2>2. CASE what # "laundry"
    <3>1. [Next]_vars /\ what' = what
      BY <1>3, <2>2, QueueSteps
    <3>2. Inv /\ Sized
      BY <1>3, <2>2 DEF QueuesInv
    <3>3. Inv' /\ Sized'
      BY <3>1, <3>2, InvNext, SizedNext
    <3> QED
      BY <2>2, <3>1, <3>3 DEF QueuesInv
  <2> QED
    BY <2>1, <2>2
<1> QED
  BY <1>2, <1>3, PTL DEF LayerSpec

(* Lists, queue fields, flags and counts agree whenever the lock of the    *)
(* queue is free, with or without a laundry, for any pages, threads and    *)
(* size of a batch, in a kernel that a failed assertion of                 *)
(* vm_pqbatch_process_page stops.                                          *)
THEOREM ListsHoldTheirPages == LayerSpec => []ListsHoldPages
<1>1. ASSUME QueuesInv
      PROVE  ListsHoldPages
  <2>1. QP!QueuesAssumption
    BY PagesAssumption, SameQueues
  <2>2. CASE what = "laundry"
    <3>1. QP!Inv /\ QP!Sized
      BY <1>1, <2>2 DEF QueuesInv
    <3>2. Q!TypeOK /\ Q!ListsAgree
      BY <2>1, <3>1, SameQueues, QP!TypeOKFollows, QP!ListsAgreeFollows
    <3> QED
      BY <2>2, <3>2 DEF ListsHoldPages
  <2>3. CASE what # "laundry"
    BY <1>1, <2>3, TypeOKFollows, ListsAgreeFollows DEF QueuesInv, ListsHoldPages
  <2> QED
    BY <2>2, <2>3
<1> QED
  BY <1>1, QueuesKept, PTL

(* Where a page belongs changes only by the hand of whoever holds the page *)
(* lock or is allocating the page, which vm_page_dequeue and the scans     *)
(* rely on: in the same kernel.                                            *)
THEOREM LockGuardsMembership == LayerSpec => MembershipGuarded
<1> DEFINE Guards == IF what = "laundry" THEN Q!MembershipKept ELSE MembershipKept
<1>1. ASSUME QueuesInv, [LayerNext]_all
      PROVE  Guards
  <2>1. CASE what = "laundry"
    <3>1. [QP!Next]_(QP!vars)
      BY <1>1, <2>1, QueueSteps DEF vars, lists, QP!vars, QP!lists
    <3>2. QP!QueuesAssumption /\ QP!Inv
      BY <1>1, <2>1, PagesAssumption, SameQueues DEF QueuesInv
    <3>3. QP!MembershipKept
      BY <3>1, <3>2, QP!MovesGuarded
    <3> QED
      BY <2>1, <3>3, SameQueues
  <2>2. CASE what # "laundry"
    <3>1. [Next]_vars /\ Inv
      BY <1>1, <2>2, QueueSteps DEF QueuesInv
    <3> QED
      BY <2>2, <3>1, MovesGuarded
  <2> QED
    BY <2>1, <2>2
<1>2. QueuesInv /\ [LayerNext]_all => [Guards]_all
  BY <1>1
<1> HIDE DEF Guards
<1>3. LayerSpec => [][Guards]_all
  BY <1>2, QueuesKept, PTL DEF LayerSpec
<1> QED
  BY <1>3 DEF MembershipGuarded, Guards

(***************************************************************************)
(* The free-page counts                                                    *)
(***************************************************************************)
FP == INSTANCE FreeCountProofs WITH code <- fCode

(* The FreeCount of the proofs is the layer's. *)
LEMMA SameCounts ==
  /\ F!LimitsAssumption <=> FP!LimitsAssumption
  /\ (F!Init <=> FP!Init) /\ (F!Next <=> FP!Next)
  /\ F!TypeOK <=> FP!TypeOK
  /\ F!SleepersJustified <=> FP!SleepersJustified
  /\ F!SetsFollowCounts <=> FP!SetsFollowCounts
<1>1. F!LimitsAssumption <=> FP!LimitsAssumption
  BY DEF F!LimitsAssumption, FP!LimitsAssumption
<1>2. F!Init <=> FP!Init
  BY DEF F!Init, FP!Init, F!Caller, FP!Caller, F!Awake, FP!Awake
<1>3. F!Next <=> FP!Next
  BY DEF F!Next, FP!Next, F!Caller, FP!Caller, F!PagingMin, FP!PagingMin,
         F!PagingSevere, FP!PagingSevere, F!PagingNeeded, FP!PagingNeeded, F!Step, FP!Step,
         F!Does, FP!Does, F!At, FP!At, F!Done, FP!Done, F!Idle, FP!Idle, F!Awake, FP!Awake,
         F!LimitOf, FP!LimitOf, F!Crossed, FP!Crossed, F!Allocate, FP!Allocate,
         F!Risen, FP!Risen, F!Free, FP!Free, F!DomainSet, FP!DomainSet,
         F!DomainClear, FP!DomainClear, F!Sleep, FP!Sleep, F!NoSleep, FP!NoSleep,
         F!NeedsMemory, FP!NeedsMemory, F!WaitDomain, FP!WaitDomain,
         F!WaitDoms, FP!WaitDoms, F!WaitGlobal, FP!WaitGlobal, F!Tick, FP!Tick,
         F!Wakeup, FP!Wakeup, F!WorkerTop, FP!WorkerTop, F!Drain, FP!Drain,
         F!WorkerCheck, FP!WorkerCheck, F!WorkerTimeout, FP!WorkerTimeout,
         F!WorkerScan, FP!WorkerScan
<1>4. F!TypeOK <=> FP!TypeOK
  BY DEF F!TypeOK, FP!TypeOK, F!Caller, FP!Caller, F!Channel, FP!Channel
<1>5. /\ F!SleepersJustified <=> FP!SleepersJustified
      /\ F!SetsFollowCounts <=> FP!SetsFollowCounts
  BY DEF F!SleepersJustified, FP!SleepersJustified,
         F!SetsFollowCounts, FP!SetsFollowCounts, F!Pending, FP!Pending,
         F!Contains, FP!Contains, F!Step, FP!Step, F!Caller, FP!Caller,
         F!PagingMin, FP!PagingMin, F!PagingSevere, FP!PagingSevere
<1> QED
  BY <1>1, <1>2, <1>3, <1>4, <1>5

(* In every behaviour of the layer the counts keep their invariant. *)
LEMMA CountsKept == LayerSpec => []FP!Inv
<1>1. FP!LimitsAssumption
  BY CountsAssumption, SameCounts
<1>2. LayerInit => FP!Inv
  BY <1>1, SameCounts, FP!InitInv DEF LayerInit
<1>3. FP!Inv /\ [LayerNext]_all => FP!Inv'
  <2> SUFFICES ASSUME FP!Inv, [LayerNext]_all
               PROVE  FP!Inv'
    OBVIOUS
  <2>1. CASE Counts
    <3>1. FP!Next
      BY <2>1, SameCounts DEF Counts
    <3> QED
      BY <1>1, <3>1, FP!NextInv
  <2>2. CASE ~ Counts
    <3>1. UNCHANGED FP!vars
      BY <2>2 DEF LayerNext, Queues, Laundry, Cleaning, Killing, Done, all, counts, FP!vars
    <3> QED
      BY <3>1, FP!StutterInv
  <2> QED
    BY <2>1, <2>2
<1> QED
  BY <1>2, <1>3, PTL DEF LayerSpec

(* The sets of short domains follow the counts (vm_domain_set and          *)
(* vm_domain_clear), and who sleeps for memory sleeps for a reason and     *)
(* will be woken, for any domains, threads and limits.                     *)
THEOREM SleepersAreJustified == LayerSpec => []SleepersJustified
<1>1. FP!Inv => FP!TypeOK /\ FP!SleepersJustified
  BY DEF FP!Inv
<1>2. FP!Inv => FP!SetsFollowCounts
  BY FP!RightIsPending
<1>3. FP!Inv => SleepersJustified
  BY <1>1, <1>2, SameCounts DEF SleepersJustified
<1> QED
  BY <1>3, CountsKept, PTL

(***************************************************************************)
(* The vote and the walk of the daemons                                    *)
(***************************************************************************)
(* What a daemon's flag and the processes it holds are, by where it is. *)
Walker(d) ==
  /\ oAt[d] = "recall" => ~ oom[d]
  /\ oAt[d] \in {"vote", "next", "size", "kill"} => oom[d]
  /\ oAt[d] \in {"scan", "recall", "vote"} => big[d] = NoProc
  /\ oAt[d] = "size" => cur[d] \in Proc

(* The types, but for the ranges of the two counters, which follow. *)
KillerTyped ==
  /\ seq \in [OomDomain -> 0..OomSeq] /\ oom \in [OomDomain -> BOOLEAN]
  /\ oAt \in [O!Daemons -> {"scan", "recall", "vote", "next", "size", "kill"}]
  /\ cur \in [O!Daemons -> Proc \cup {NoProc}] /\ big \in [O!Daemons -> Proc \cup {NoProc}]
  /\ state \in [Proc -> {"normal", "exiting", "gone"}]
  /\ vote \in Int /\ hold \in [Proc -> Int]

(* The inductive invariant. *)
KillerInv ==
  KillerTyped /\ O!WalkHolds /\ O!VotesCounted /\ \A d \in O!Daemons : Walker(d)

(* The killer's finite sets are those of the library. *)
LEMMA SameSets ==
  /\ \A S : O!IsFiniteSet(S) <=> IsFiniteSet(S)
  /\ \A S : O!Cardinality(S) = Cardinality(S)
BY DEF O!IsFiniteSet, IsFiniteSet, O!Cardinality, Cardinality

(* What the layer's assumption says. *)
LEMMA Killers ==
  /\ O!Daemons = OomDomain /\ IsFiniteSet(OomDomain)
  /\ NoProc \notin Proc /\ OomSeq \in Nat
  /\ \A p \in Proc : Size(p) \in Nat
  /\ Order \in Seq(Proc)
BY KillerAssumption, SameSets DEF O!OomAssumption, O!Daemons

(* Sets of daemons are finite and no larger than that of the domains. *)
LEMMA DaemonsFinite ==
  /\ Cardinality(OomDomain) \in Nat
  /\ \A S \in SUBSET O!Daemons :
       IsFiniteSet(S) /\ Cardinality(S) \in Nat /\ Cardinality(S) <= Cardinality(OomDomain)
<1>1. Cardinality(OomDomain) \in Nat
  BY Killers, FS_CardinalityType
<1>2. ASSUME NEW S \in SUBSET O!Daemons
      PROVE  IsFiniteSet(S) /\ Cardinality(S) \in Nat /\ Cardinality(S) <= Cardinality(OomDomain)
  <2>1. S \in SUBSET OomDomain
    BY Killers
  <2>2. IsFiniteSet(S) /\ Cardinality(S) <= Cardinality(OomDomain)
    BY <2>1, Killers, FS_Subset
  <2> QED
    BY <2>2, FS_CardinalityType
<1> QED
  BY <1>1, <1>2

(* A count that is right is in its range: a domain has one vote, and a     *)
(* process two holds of each daemon at most.                               *)
LEMMA CountsInRange == KillerInv => O!TypeOK
<1> SUFFICES ASSUME KillerInv
             PROVE  O!TypeOK
  OBVIOUS
<1>1. O!Voters \in SUBSET O!Daemons
  BY DEF O!Voters
<1>2. vote \in 0..Cardinality(OomDomain)
  BY <1>1, DaemonsFinite, SameSets DEF KillerInv, O!VotesCounted
<1>3. ASSUME NEW p \in Proc
      PROVE  hold[p] \in 0..2 * Cardinality(OomDomain)
  <2>1. O!Sizing(p) \in SUBSET O!Daemons /\ O!Largest(p) \in SUBSET O!Daemons
    BY DEF O!Sizing, O!Largest
  <2>2. hold[p] = Cardinality(O!Sizing(p)) + Cardinality(O!Largest(p))
    BY SameSets DEF KillerInv, O!WalkHolds
  <2> QED
    BY <2>1, <2>2, DaemonsFinite
<1>4. hold \in [Proc -> 0..2 * Cardinality(OomDomain)]
  BY <1>3 DEF KillerInv, KillerTyped
<1> QED
  BY <1>2, <1>4, SameSets DEF KillerInv, KillerTyped, O!TypeOK

Unit(b) == IF b THEN 1 ELSE 0

(* How the size of a set of daemons changes when one daemon moves. *)
LEMMA OneMoves ==
  ASSUME NEW S \in SUBSET O!Daemons, NEW T \in SUBSET O!Daemons, NEW d \in O!Daemons,
         \A e \in O!Daemons : e # d => (e \in S <=> e \in T)
  PROVE  /\ Cardinality(T) \in Nat /\ Cardinality(S) \in Nat
         /\ Cardinality(T) = Cardinality(S) + Unit(d \in T) - Unit(d \in S)
<1>1. IsFiniteSet(S) /\ IsFiniteSet(T) /\ Cardinality(S) \in Nat /\ Cardinality(T) \in Nat
  BY DaemonsFinite
<1>2. CASE d \in S /\ d \notin T
  <2>1. T = S \ {d}
    BY <1>2
  <2> QED
    BY <1>1, <1>2, <2>1, FS_RemoveElement DEF Unit
<1>3. CASE d \notin S /\ d \in T
  <2>1. T = S \cup {d}
    BY <1>3
  <2> QED
    BY <1>1, <1>3, <2>1, FS_AddElement DEF Unit
<1>4. CASE d \in S <=> d \in T
  <2>1. T = S
    BY <1>4
  <2> QED
    BY <1>1, <1>4, <2>1 DEF Unit
<1> QED
  BY <1>2, <1>3, <1>4

(* No daemon but d moves. *)
Alone(d) ==
  \A e \in O!Daemons : e # d =>
    oAt'[e] = oAt[e] /\ cur'[e] = cur[e] /\ big'[e] = big[e] /\ oom'[e] = oom[e]

Sizes(d, p) == oAt[d] = "size" /\ cur[d] = p

Votes(d) == IF oom[d] THEN oAt[d] # "vote" ELSE oAt[d] = "recall"

(* What a daemon's step must do to the two counters, and to where it is.   *)
LEMMA PassKeeps ==
  ASSUME KillerInv, NEW d \in O!Daemons, Alone(d), KillerTyped', Walker(d)', state' = state,
         \A p \in Proc :
           hold'[p] = hold[p] + Unit(Sizes(d, p)') - Unit(Sizes(d, p))
                              + Unit(big'[d] = p) - Unit(big[d] = p),
         vote' = vote + Unit(Votes(d)') - Unit(Votes(d)),
         oAt'[d] = "size" => state[cur'[d]] # "gone",
         big'[d] # NoProc => state[big'[d]] # "gone"
  PROVE  KillerInv'
<1>1. ASSUME NEW p \in Proc
      PROVE  (hold[p] = Cardinality(O!Sizing(p)) + Cardinality(O!Largest(p)))'
  <2>1. /\ O!Sizing(p) \in SUBSET O!Daemons /\ O!Sizing(p)' \in SUBSET O!Daemons
        /\ \A e \in O!Daemons : e # d => (e \in O!Sizing(p) <=> e \in O!Sizing(p)')
        /\ (d \in O!Sizing(p) <=> Sizes(d, p)) /\ (d \in O!Sizing(p)' <=> Sizes(d, p)')
    BY DEF O!Sizing, Sizes, Alone
  <2>2. /\ O!Largest(p) \in SUBSET O!Daemons /\ O!Largest(p)' \in SUBSET O!Daemons
        /\ \A e \in O!Daemons : e # d => (e \in O!Largest(p) <=> e \in O!Largest(p)')
        /\ (d \in O!Largest(p) <=> big[d] = p) /\ (d \in O!Largest(p)' <=> big'[d] = p)
    BY DEF O!Largest, Alone
  <2>3. /\ Cardinality(O!Sizing(p)) \in Nat /\ Cardinality(O!Sizing(p)') \in Nat
        /\ Cardinality(O!Sizing(p)')
             = Cardinality(O!Sizing(p)) + Unit(Sizes(d, p)') - Unit(Sizes(d, p))
    BY <2>1, OneMoves DEF Unit
  <2>4. /\ Cardinality(O!Largest(p)) \in Nat /\ Cardinality(O!Largest(p)') \in Nat
        /\ Cardinality(O!Largest(p)')
             = Cardinality(O!Largest(p)) + Unit(big'[d] = p) - Unit(big[d] = p)
    BY <2>2, OneMoves DEF Unit
  <2>5. hold[p] = Cardinality(O!Sizing(p)) + Cardinality(O!Largest(p))
    BY SameSets DEF KillerInv, O!WalkHolds
  <2> QED
    BY <2>3, <2>4, <2>5 DEF Unit
<1>2. O!VotesCounted'
  <2>1. /\ O!Voters \in SUBSET O!Daemons /\ O!Voters' \in SUBSET O!Daemons
        /\ \A e \in O!Daemons : e # d => (e \in O!Voters <=> e \in O!Voters')
        /\ (d \in O!Voters <=> Votes(d)) /\ (d \in O!Voters' <=> Votes(d)')
    BY DEF O!Voters, Votes, Alone
  <2>2. /\ Cardinality(O!Voters) \in Nat /\ Cardinality(O!Voters') \in Nat
        /\ Cardinality(O!Voters') = Cardinality(O!Voters) + Unit(Votes(d)') - Unit(Votes(d))
    BY <2>1, OneMoves DEF Unit
  <2> QED
    BY <2>2, SameSets DEF KillerInv, KillerTyped, O!VotesCounted, Unit
<1>3. ASSUME NEW e \in O!Daemons
      PROVE  /\ Walker(e)' /\ (oAt'[e] = "size" => state'[cur'[e]] # "gone")
             /\ (big'[e] # NoProc => state'[big'[e]] # "gone")
  BY DEF KillerInv, O!WalkHolds, O!Listed, Walker, Alone
<1>4. O!WalkHolds'
  BY <1>1, <1>3, SameSets DEF O!WalkHolds, O!Listed
<1> QED
  BY <1>2, <1>3, <1>4 DEF KillerInv

(* A pass that freed something, or that freed nothing. *)
LEMMA CountPassInv ==
  ASSUME KillerInv, NEW d \in O!Daemons, O!Freed(d) \/ O!FreedNothing(d)
  PROVE  KillerInv'
<1>1. /\ oAt[d] = "scan" /\ big[d] = NoProc
      /\ oAt' = [oAt EXCEPT ![d] = oAt'[d]] /\ oAt'[d] \in {"scan", "recall", "vote"}
      /\ seq' = [seq EXCEPT ![d] = seq'[d]] /\ seq'[d] \in 0..OomSeq
      /\ oom' = [oom EXCEPT ![d] = oom'[d]] /\ oom'[d] \in BOOLEAN
      /\ UNCHANGED <<vote, cur, big, state, shielded, killed, hold>>
      /\ oAt'[d] = "recall" <=> oom[d] /\ ~ oom'[d]
      /\ oAt'[d] = "vote" <=> ~ oom[d] /\ oom'[d]
  <2>1. /\ oAt[d] = "scan" /\ big[d] = NoProc /\ d \in OomDomain
        /\ oAt \in [O!Daemons -> {"scan", "recall", "vote", "next", "size", "kill"}]
        /\ oom \in [OomDomain -> BOOLEAN] /\ seq \in [OomDomain -> 0..OomSeq]
        /\ seq[d] \in 0..OomSeq /\ OomSeq \in Nat
    BY Killers DEF KillerInv, KillerTyped, Walker, O!Freed, O!FreedNothing, O!At
  <2>2. CASE O!Freed(d)
    BY <2>1, <2>2 DEF O!Freed, O!At, O!procs
  <2>3. CASE O!FreedNothing(d)
    <3>1. CASE seq[d] + 1 < OomSeq
      <4>1. /\ oAt' = [oAt EXCEPT ![d] = IF oom[d] THEN "recall" ELSE "scan"]
            /\ seq' = [seq EXCEPT ![d] = seq[d] + 1] /\ oom' = [oom EXCEPT ![d] = FALSE]
            /\ UNCHANGED <<vote, cur, big, state, shielded, killed, hold>>
        BY <2>3, <3>1 DEF O!FreedNothing, O!At, O!procs
      <4>2. seq[d] + 1 \in 0..OomSeq
        BY <2>1, <3>1
      <4> QED
        BY <2>1, <4>1, <4>2
    <3>2. CASE ~ (seq[d] + 1 < OomSeq)
      BY <2>1, <2>3, <3>2 DEF O!FreedNothing, O!At, O!procs
    <3> QED
      BY <3>1, <3>2
  <2> QED
    BY <2>2, <2>3
<1>2. KillerTyped' /\ Alone(d)
  <2>1. KillerTyped /\ d \in OomDomain
    BY Killers DEF KillerInv
  <2>2. /\ seq' \in [OomDomain -> 0..OomSeq] /\ oom' \in [OomDomain -> BOOLEAN]
        /\ oAt' \in [O!Daemons -> {"scan", "recall", "vote", "next", "size", "kill"}]
    BY <1>1, <2>1 DEF KillerTyped
  <2>3. KillerTyped'
    BY <1>1, <2>1, <2>2 DEF KillerTyped
  <2> QED
    BY <1>1, <2>1, <2>3, Killers DEF KillerTyped, Alone
<1>3. Walker(d)'
  BY <1>1 DEF KillerInv, KillerTyped, Walker
<1>4. \A p \in Proc : ~ Sizes(d, p) /\ ~ Sizes(d, p)' /\ (big'[d] = p <=> big[d] = p)
  BY <1>1 DEF Sizes, KillerInv, KillerTyped
<1>5. Votes(d)' <=> Votes(d)
  BY <1>1 DEF Votes, KillerInv, KillerTyped
<1>6. /\ \A p \in Proc :
           hold'[p] = hold[p] + Unit(Sizes(d, p)') - Unit(Sizes(d, p))
                              + Unit(big'[d] = p) - Unit(big[d] = p)
      /\ vote' = vote + Unit(Votes(d)') - Unit(Votes(d))
  BY <1>1, <1>4, <1>5 DEF KillerInv, KillerTyped, Unit
<1> QED
  BY <1>1, <1>2, <1>3, <1>6, PassKeeps

(* A vote is recalled, or cast. *)
LEMMA VoteInv ==
  ASSUME KillerInv, NEW d \in O!Daemons, O!Recall(d) \/ O!Vote(d)
  PROVE  KillerInv'
<1>1. /\ oAt[d] \in {"recall", "vote"} /\ big[d] = NoProc /\ Walker(d) /\ KillerTyped
      /\ (oAt[d] = "recall" => vote' = vote - 1 /\ oAt'[d] = "scan")
      /\ (oAt[d] = "vote" => vote' = vote + 1 /\ oAt'[d] \in {"scan", "next"})
      /\ \E there \in {"scan", "next"} : oAt' = [oAt EXCEPT ![d] = there]
      /\ big' = [big EXCEPT ![d] = NoProc]
      /\ cur' = [cur EXCEPT ![d] = cur'[d]] /\ cur'[d] \in Proc \cup {NoProc}
      /\ UNCHANGED <<seq, oom, state, shielded, killed, hold>>
  BY DEF O!Recall, O!Vote, O!At, O!procs, KillerInv, KillerTyped, Walker
<1>2. KillerTyped' /\ Alone(d)
  BY <1>1 DEF KillerTyped, Alone
<1>3. Walker(d)' /\ big'[d] = NoProc
  BY <1>1 DEF KillerTyped, Walker
<1>4. \A p \in Proc : ~ Sizes(d, p) /\ ~ Sizes(d, p)' /\ (big'[d] = p <=> big[d] = p)
  BY <1>1, <1>3 DEF Sizes
<1>5. vote' = vote + Unit(Votes(d)') - Unit(Votes(d))
  BY <1>1 DEF Votes, KillerTyped, Walker, Unit
<1>6. \A p \in Proc :
        hold'[p] = hold[p] + Unit(Sizes(d, p)') - Unit(Sizes(d, p))
                           + Unit(big'[d] = p) - Unit(big[d] = p)
  BY <1>1, <1>4 DEF KillerTyped, Unit
<1> QED
  BY <1>1, <1>2, <1>3, <1>5, <1>6, PassKeeps

(* The walk goes on to a process, which is held, or ends. *)
LEMMA NextProcInv ==
  ASSUME KillerInv, NEW d \in O!Daemons, O!NextProc(d)
  PROVE  KillerInv'
<1>1. /\ oAt[d] = "next" /\ Walker(d) /\ KillerTyped /\ (big[d] # NoProc => state[big[d]] # "gone")
      /\ UNCHANGED <<big, state, shielded, killed, seq, oom, vote>>
  BY DEF O!NextProc, O!At, O!votes, KillerInv, O!WalkHolds, O!Listed
<1>2. CASE oAt' = [oAt EXCEPT ![d] = "kill"] /\ UNCHANGED <<cur, hold>>
  <2>1. KillerTyped' /\ Alone(d) /\ Walker(d)' /\ oAt'[d] = "kill"
    BY <1>1, <1>2 DEF KillerTyped, Alone, Walker
  <2>2. \A p \in Proc : ~ Sizes(d, p) /\ ~ Sizes(d, p)' /\ (big'[d] = p <=> big[d] = p)
    BY <1>1, <2>1 DEF Sizes
  <2>3. Votes(d)' <=> Votes(d)
    BY <1>1, <2>1 DEF Votes, Walker
  <2>4. /\ \A p \in Proc :
             hold'[p] = hold[p] + Unit(Sizes(d, p)') - Unit(Sizes(d, p))
                                + Unit(big'[d] = p) - Unit(big[d] = p)
        /\ vote' = vote + Unit(Votes(d)') - Unit(Votes(d))
    BY <1>1, <1>2, <2>2, <2>3 DEF KillerTyped, Unit
  <2> QED
    BY <1>1, <1>2, <2>1, <2>4, PassKeeps
<1>3. ASSUME NEW q \in O!Behind(cur[d]), oAt' = [oAt EXCEPT ![d] = "size"],
             cur' = [cur EXCEPT ![d] = q], hold' = [hold EXCEPT ![q] = @ + 1]
      PROVE  KillerInv'
  <2>1. q \in Proc /\ state[q] = "normal"
    <3>1. PICK i \in DOMAIN Order : O!Eligible(Order[i]) /\ q = Order[i]
      BY <1>3 DEF O!Behind
    <3>2. q \in Proc
      BY <3>1, Killers
    <3> QED
      BY <3>1, <3>2 DEF O!Eligible
  <2>2. KillerTyped' /\ Alone(d) /\ Walker(d)' /\ oAt'[d] = "size" /\ cur'[d] = q
    BY <1>1, <1>3, <2>1 DEF KillerTyped, Alone, Walker
  <2>3. \A p \in Proc :
          ~ Sizes(d, p) /\ (Sizes(d, p)' <=> p = q) /\ (big'[d] = p <=> big[d] = p)
    BY <1>1, <2>2 DEF Sizes
  <2>4. Votes(d)' <=> Votes(d)
    BY <1>1, <2>2 DEF Votes, Walker
  <2>5. /\ \A p \in Proc :
             hold'[p] = hold[p] + Unit(Sizes(d, p)') - Unit(Sizes(d, p))
                                + Unit(big'[d] = p) - Unit(big[d] = p)
        /\ vote' = vote + Unit(Votes(d)') - Unit(Votes(d))
    BY <1>1, <1>3, <2>1, <2>3, <2>4 DEF KillerTyped, Unit
  <2> QED
    BY <1>1, <2>1, <2>2, <2>5, PassKeeps
<1> QED
  BY <1>2, <1>3 DEF O!NextProc, O!At

(* Of the process sized and the largest so far one stays held. *)
LEMMA SizeProcInv ==
  ASSUME KillerInv, NEW d \in O!Daemons, O!SizeProc(d)
  PROVE  KillerInv'
<1> DEFINE p == cur[d]
           q == big[d]
           loser == IF O!Larger(p, q) THEN q ELSE p
<1>1. /\ oAt[d] = "size" /\ Walker(d) /\ KillerTyped /\ p \in Proc /\ q \in Proc \cup {NoProc}
      /\ state[p] # "gone" /\ (q # NoProc => state[q] # "gone")
      /\ oAt' = [oAt EXCEPT ![d] = "next"]
      /\ UNCHANGED <<cur, state, shielded, killed, seq, oom, vote>>
  BY DEF O!SizeProc, O!At, O!votes, KillerInv, KillerTyped, Walker, O!WalkHolds, O!Listed
<1>2. NoProc \notin Proc
  BY Killers
<1>3. PICK r \in {p, q}, x \in {p, q} :
        /\ big' = [big EXCEPT ![d] = r]
        /\ hold' = [u \in Proc |-> IF u = x THEN hold[u] - 1 ELSE hold[u]]
        /\ (r = p /\ x = q) \/ (r = q /\ x = p)
  <2>1. CASE /\ big' = [big EXCEPT ![d] = IF O!Larger(p, q) THEN p ELSE q]
             /\ hold' = [u \in Proc |-> IF u = loser THEN hold[u] - 1 ELSE hold[u]]
    <3>1. CASE O!Larger(p, q)
      BY <2>1, <3>1
    <3>2. CASE ~ O!Larger(p, q)
      BY <2>1, <3>2
    <3> QED
      BY <3>1, <3>2
  <2>2. CASE hold' = [hold EXCEPT ![p] = @ - 1] /\ UNCHANGED big
    <3>1. big' = [big EXCEPT ![d] = q]
      BY <1>1, <2>2 DEF KillerTyped
    <3>2. hold' = [u \in Proc |-> IF u = p THEN hold[u] - 1 ELSE hold[u]]
      BY <1>1, <2>2 DEF KillerTyped
    <3> QED
      BY <3>1, <3>2
  <2> QED
    BY <2>1, <2>2 DEF O!SizeProc
<1> HIDE DEF p, q, loser
<1>4. KillerTyped' /\ Alone(d)
  BY <1>1, <1>3 DEF KillerTyped, Alone
<1>5. Walker(d)' /\ big'[d] = r /\ oAt'[d] = "next" /\ (r # NoProc => state[r] # "gone")
  BY <1>1, <1>3 DEF KillerTyped, Walker
<1>6. Votes(d)' <=> Votes(d)
  BY <1>1, <1>5 DEF Votes, Walker
<1>7. ASSUME NEW u \in Proc
      PROVE  hold'[u] = hold[u] + Unit(Sizes(d, u)') - Unit(Sizes(d, u))
                                + Unit(big'[d] = u) - Unit(big[d] = u)
  <2>1. ~ Sizes(d, u)' /\ (Sizes(d, u) <=> u = p) /\ (big'[d] = u <=> u = r) /\ (big[d] = u <=> u = q)
    BY <1>1, <1>5 DEF Sizes, p, q
  <2>2. hold'[u] = (IF u = x THEN hold[u] - 1 ELSE hold[u]) /\ hold[u] \in Int
    BY <1>1, <1>3 DEF KillerTyped
  <2> QED
    BY <1>3, <2>1, <2>2 DEF Unit
<1>8. vote' = vote + Unit(Votes(d)') - Unit(Votes(d))
  BY <1>1, <1>6 DEF KillerTyped, Unit
<1> QED
  BY <1>1, <1>4, <1>5, <1>7, <1>8, PassKeeps

(* The largest is killed and released. *)
LEMMA KillInv ==
  ASSUME KillerInv, NEW d \in O!Daemons, O!Kill(d)
  PROVE  KillerInv'
<1>1. /\ oAt[d] = "kill" /\ Walker(d) /\ KillerTyped /\ oom[d] /\ d \in OomDomain
      /\ oAt' = [oAt EXCEPT ![d] = "recall"] /\ oom' = [oom EXCEPT ![d] = FALSE]
      /\ hold' = [u \in Proc |-> IF u = big[d] THEN hold[u] - 1 ELSE hold[u]]
      /\ big' = [big EXCEPT ![d] = NoProc] /\ cur' = [cur EXCEPT ![d] = NoProc]
      /\ UNCHANGED <<seq, vote, state>>
  BY Killers DEF O!Kill, O!At, KillerInv, Walker
<1>2. KillerTyped' /\ Alone(d)
  BY <1>1 DEF KillerTyped, Alone
<1>3. oAt'[d] = "recall" /\ ~ oom'[d] /\ big'[d] = NoProc
  BY <1>1 DEF KillerTyped
<1>4. Walker(d)' /\ Votes(d) /\ Votes(d)'
  BY <1>1, <1>3 DEF Walker, Votes
<1>5. ASSUME NEW u \in Proc
      PROVE  hold'[u] = hold[u] + Unit(Sizes(d, u)') - Unit(Sizes(d, u))
                                + Unit(big'[d] = u) - Unit(big[d] = u)
  <2>1. ~ Sizes(d, u)' /\ ~ Sizes(d, u) /\ ~ (big'[d] = u)
    BY <1>1, <1>3, Killers DEF Sizes
  <2>2. hold'[u] = (IF u = big[d] THEN hold[u] - 1 ELSE hold[u]) /\ hold[u] \in Int
    BY <1>1 DEF KillerTyped
  <2> QED
    BY <2>1, <2>2 DEF Unit
<1>6. vote' = vote + Unit(Votes(d)') - Unit(Votes(d))
  BY <1>1, <1>4 DEF KillerTyped, Unit
<1> QED
  BY <1>1, <1>2, <1>3, <1>4, <1>5, <1>6, PassKeeps

(* A process protects itself, exits, or, when nobody holds it, is gone. *)
LEMMA ProcInv ==
  ASSUME KillerInv, NEW p \in Proc, O!Protect(p) \/ O!Exit(p) \/ O!Gone(p)
  PROVE  KillerInv'
<1>1. /\ UNCHANGED <<seq, oom, vote, oAt, cur, big, hold>>
      /\ state' \in [Proc -> {"normal", "exiting", "gone"}]
      /\ \A u \in Proc : state'[u] = "gone" => state[u] = "gone" \/ (u = p /\ hold[p] = 0)
  BY DEF O!Protect, O!Exit, O!Gone, O!votes, KillerInv, KillerTyped
<1>2. KillerTyped' /\ \A d \in O!Daemons : Walker(d)'
  BY <1>1 DEF KillerInv, KillerTyped, Walker
<1>3. \A u : O!Sizing(u)' = O!Sizing(u) /\ O!Largest(u)' = O!Largest(u)
  BY <1>1 DEF O!Sizing, O!Largest
<1>4. O!Voters' = O!Voters
  BY <1>1 DEF O!Voters
<1>5. ASSUME hold[p] = 0, NEW d \in O!Daemons
      PROVE  ~ (oAt[d] = "size" /\ cur[d] = p) /\ big[d] # p
  <2>1. /\ hold[p] = Cardinality(O!Sizing(p)) + Cardinality(O!Largest(p))
        /\ O!Sizing(p) \in SUBSET O!Daemons /\ O!Largest(p) \in SUBSET O!Daemons
    BY SameSets DEF KillerInv, O!WalkHolds, O!Sizing, O!Largest
  <2>2. Cardinality(O!Sizing(p)) = 0 /\ Cardinality(O!Largest(p)) = 0
    BY <1>5, <2>1, DaemonsFinite
  <2>3. O!Sizing(p) = {} /\ O!Largest(p) = {}
    BY <2>1, <2>2, DaemonsFinite, FS_EmptySet
  <2> QED
    BY <2>3 DEF O!Sizing, O!Largest
<1>6. O!WalkHolds'
  BY <1>1, <1>3, <1>5, Killers DEF KillerInv, KillerTyped, O!WalkHolds, O!Listed, Walker
<1>7. O!VotesCounted'
  BY <1>1, <1>4 DEF KillerInv, O!VotesCounted
<1> QED
  BY <1>2, <1>6, <1>7 DEF KillerInv

(* At first there is no vote and no process is held. *)
LEMMA KillerInitInv ==
  ASSUME O!Init
  PROVE  KillerInv
<1>1. KillerTyped /\ \A d \in O!Daemons : Walker(d)
  BY Killers DEF O!Init, KillerTyped, Walker
<1>2. O!Voters = {} /\ \A p \in Proc : O!Sizing(p) = {} /\ O!Largest(p) = {}
  BY Killers DEF O!Init, O!Voters, O!Sizing, O!Largest
<1>3. O!Cardinality({}) = 0
  BY SameSets, FS_EmptySet
<1>4. O!VotesCounted
  BY <1>2, <1>3 DEF O!Init, O!VotesCounted
<1>5. \A p \in Proc : hold[p] = O!Cardinality(O!Sizing(p)) + O!Cardinality(O!Largest(p))
  <2>1. \A p \in Proc : O!Cardinality(O!Sizing(p)) = 0 /\ O!Cardinality(O!Largest(p)) = 0
    BY <1>2, <1>3
  <2> QED
    BY <2>1 DEF O!Init
<1>6. O!WalkHolds
  BY <1>5, Killers DEF O!Init, O!WalkHolds
<1> QED
  BY <1>1, <1>4, <1>6 DEF KillerInv

(* In every behaviour of the layer the votes and holds are counted. *)
LEMMA KillerKept == LayerSpec => []KillerInv
<1>1. LayerInit => KillerInv
  BY KillerInitInv DEF LayerInit
<1>2. KillerInv /\ [LayerNext]_all => KillerInv'
  <2> SUFFICES ASSUME KillerInv, [LayerNext]_all
               PROVE  KillerInv'
    OBVIOUS
  <2>1. CASE Killing
    BY <2>1, CountPassInv, VoteInv, NextProcInv, SizeProcInv, KillInv, ProcInv
       DEF Killing, O!Next, O!Pass
  <2>2. CASE ~ Killing
    <3>1. UNCHANGED killer
      BY <2>2 DEF LayerNext, Queues, Laundry, Counts, Cleaning, Done, all
    <3> QED
      BY <3>1 DEF killer, KillerInv, KillerTyped, O!WalkHolds, O!VotesCounted, Walker,
                  O!Listed, O!Sizing, O!Largest, O!Voters
  <2> QED
    BY <2>1, <2>2
<1> QED
  BY <1>1, <1>2, PTL DEF LayerSpec

(* vm_pageout_oom_vote counts the domains whose flag is up, but for the    *)
(* instants in which a daemon has changed one and not yet the other, and   *)
(* vm_pageout_oom holds, by p_lock, every process it stands on or would    *)
(* kill, so that it is still on the list: for any domains and processes.   *)
THEOREM VotesAndWalksHold == LayerSpec => []VotesAndWalks
<1>1. KillerInv => VotesAndWalks
  BY CountsInRange DEF KillerInv, VotesAndWalks
<1> QED
  BY <1>1, KillerKept, PTL

(***************************************************************************)
(* The writing of a cluster                                                *)
(***************************************************************************)
(* Not yet given to the pager, and gathering or with a cluster gathered.   *)
Early == at \in {"clean", "vget", "relock", "cluster"}
Gathering == at \in {"reverse", "forward", "flush"}

(* What the thread has taken of a vnode, if there is one. *)
Taken == IF "none" \in vnode THEN {} ELSE {"ref", "write", "vnode"}

(* What the thread holds, by where it is, and what vp and mp tell of it. *)
Holding ==
  /\ at = "clean" => mine = {"page", "object"} /\ ~ vp /\ ~ mp
  /\ at = "vget" => mine = {"ref", "write"} /\ vp /\ mp /\ "none" \notin vnode
  /\ at = "relock" => mine = {"ref", "write", "vnode"} /\ vp /\ mp /\ "none" \notin vnode
  /\ at = "cluster" => mine = {"page", "object"} \cup Taken /\ Taken = C!Releases
  /\ Gathering \/ at = "result" => mine = {"object"} \cup Taken /\ Taken = C!Releases
  /\ at = "unlock_all" => "object" \in mine /\ mine \ {"object"} = C!Releases
  /\ at = "unlock_mp" => mine = C!Releases
  /\ at = "done" => mine = {}

CleaningTyped ==
  /\ cPage \in [C!Index -> C!PageType]
  /\ mine \subseteq {"page", "object", "ref", "write", "vnode"}
  /\ vp \in BOOLEAN /\ mp \in BOOLEAN
  /\ lo \in C!Index /\ hi \in C!Index /\ index \in C!Index /\ back \in BOOLEAN
  /\ out \in 0..Count /\ todo \in Int /\ pip \in Nat /\ changes \in Nat
  /\ at \in {"clean", "vget", "relock", "unlock_all", "unlock_mp", "cluster", "reverse",
             "forward", "flush", "result", "done"}

(* The cluster is a run around the page asked for, and not too long. *)
Run ==
  /\ lo <= index /\ index <= hi /\ C!Gathered <= Count
  /\ Early => lo = index /\ hi = index /\ back

(* The pages of the cluster stay as they were found. *)
Found ==
  /\ at = "clean" => C!StillThere(cPage[index])
  /\ at = "cluster" => C!StillThere(cPage[index])
  /\ Gathering => /\ cPage[index].same
                  /\ \A i \in lo..hi : cPage[i].dirty /\ ~ cPage[i].busy /\ ~ cPage[i].writable

Busied == {i \in lo..hi : cPage[i].busy}

(* The pages whose result is not yet handled are busy, and counted. *)
Paging ==
  /\ Early \/ Gathering => pip = 0 /\ out = 0
  /\ at = "result" =>
       /\ lo <= todo /\ todo <= hi + 1 /\ out <= todo - lo
       /\ pip = Cardinality(Busied)
       /\ \A i \in todo..hi : cPage[i].busy
  /\ pip <= Cardinality(Busied)

Base == index - (index % Count)

(* The block of the page is all dirty, and nobody has meddled. *)
WholeBlock ==
  /\ changes = 0 /\ index # Base /\ Base + Count - 1 \in C!Index
  /\ \A i \in Base..(Base + Count - 1) : cPage[i].dirty

(* Then the scan goes back to the block's beginning, and from there only   *)
(* forwards.                                                               *)
Straight ==
  /\ changes = 0 /\ (Early \/ Gathering) =>
       \A i \in C!Index : ~ cPage[i].busy /\ ~ cPage[i].held /\ cPage[i].laundry
  /\ WholeBlock =>
       /\ at = "reverse" => Base < lo /\ lo <= index /\ hi = index /\ back
       /\ at \in {"forward", "flush"} => lo = Base

(* The inductive invariant. *)
CleaningInv == CleaningTyped /\ Holding /\ Run /\ Found /\ Paging /\ Straight

LEMMA Multiples ==
  ASSUME NEW n \in Nat \ {0}, NEW q \in Int, NEW k \in Int, q < k
  PROVE  q * n + n <= k * n
<1>1. (k - q - 1) * n >= 0
  BY SMT
<1>2. (k - q - 1) * n = k * n - q * n - n
  BY SMT
<1> QED
  BY <1>1, <1>2

LEMMA Block ==
  ASSUME NEW n \in Nat \ {0}, NEW i \in Nat
  PROVE  /\ i - (i % n) \in 0..i /\ i < i - (i % n) + n
         /\ (i - (i % n)) % n = 0
         /\ \A j \in (i - (i % n) + 1)..i : j % n # 0
<1> DEFINE f == i - (i % n)
<1>1. i % n \in 0..(n - 1) /\ i % n <= i /\ f = (i \div n) * n /\ i \div n \in Nat
  BY SMT
<1>2. f % n = 0
  BY <1>1, SMT
<1>3. ASSUME NEW j \in (f + 1)..i, j % n = 0
      PROVE  FALSE
  <2>1. j = (j \div n) * n /\ j \div n \in Int
    BY <1>1, <1>3, SMT
  <2>2. i \div n < j \div n
    <3>1. SUFFICES ASSUME j \div n <= i \div n PROVE FALSE
      BY <1>1, <2>1
    <3>2. (j \div n) * n <= (i \div n) * n
      BY <1>1, <2>1, <3>1, Multiples
    <3> QED
      BY <1>1, <1>3, <2>1, <3>2
  <2>3. f + n <= j
    BY <1>1, <2>1, <2>2, Multiples
  <2> QED
    BY <1>1, <2>3
<1> QED
  BY <1>1, <1>2, <1>3
(* What the layer's assumption says of the block of a page. *)
LEMMA OwnBlock ==
  /\ LastIndex \in Nat /\ Count \in Nat \ {0}
  /\ \A i \in C!Index : i \in Nat
  /\ CleaningTyped => /\ Base \in Int /\ Base <= index /\ index < Base + Count /\ 0 <= Base
                      /\ C!Aligned(Base)
                      /\ \A j \in (Base + 1)..index : ~ C!Aligned(j)
<1>1. LastIndex \in Nat /\ Count \in Nat \ {0} /\ \A i \in C!Index : i \in Nat
  BY CleaningAssumption DEF C!CleanAssumption, C!Index
<1>2. ASSUME CleaningTyped
      PROVE  /\ Base \in Int /\ Base <= index /\ index < Base + Count /\ 0 <= Base
             /\ C!Aligned(Base)
             /\ \A j \in (Base + 1)..index : ~ C!Aligned(j)
  <2>1. PICK n \in Nat \ {0} : n = Count
    BY <1>1
  <2>2. PICK i \in Nat : i = index
    BY <1>1, <1>2 DEF CleaningTyped
  <2>3. PICK f : f = i - (i % n)
    OBVIOUS
  <2>4. f \in 0..i /\ i < f + n /\ f % n = 0 /\ \A j \in (f + 1)..i : j % n # 0
    BY <2>3, Block, Zenon
  <2>5. f = Base
    BY <2>1, <2>2, <2>3, Zenon DEF Base
  <2>6. f \in Int /\ f <= i /\ i < f + n /\ 0 <= f
    BY <2>4
  <2>7. \A j \in (f + 1)..i : ~ (j % n = 0)
    BY <2>4, Zenon
  <2>8. C!Aligned(Base) /\ \A j \in (Base + 1)..index : ~ C!Aligned(j)
    BY <2>1, <2>2, <2>4, <2>5, <2>7, Zenon DEF C!Aligned
  <2> QED
    BY <2>1, <2>2, <2>5, <2>6, <2>8, Zenon
<1> QED
  BY <1>1, <1>2

(* Of a run of pages there are finitely many. *)
LEMMA RunFinite ==
  ASSUME NEW a \in Int, NEW b \in Int, NEW S \in SUBSET (a..b)
  PROVE  /\ IsFiniteSet(S) /\ Cardinality(S) \in Nat
         /\ IsFiniteSet(a..b) /\ Cardinality(a..b) = IF a > b THEN 0 ELSE b - a + 1
BY FS_Interval, FS_Subset, FS_CardinalityType

(* The cluster's bounds are numbers, and its busy pages can be counted. *)
Counted ==
  /\ lo \in Int /\ hi \in Int /\ index \in Int
  /\ IsFiniteSet(Busied) /\ Cardinality(Busied) \in Nat

LEMMA BusiedFinite == (CleaningTyped => Counted) /\ (CleaningTyped' => Counted')
<1>1. CleaningTyped => Counted
  <2>1. CleaningTyped => lo \in Int /\ hi \in Int /\ index \in Int
    BY OwnBlock DEF CleaningTyped
  <2>2. Busied \in SUBSET (lo..hi)
    BY DEF Busied
  <2> QED
    BY <2>1, <2>2, RunFinite DEF Counted
<1> QED
  BY <1>1, PTL

(* A cluster begins with one page. *)
LEMMA CleanInitInv ==
  ASSUME C!Init
  PROVE  CleaningInv
<1>1. cPage \in [C!Index -> C!PageType]
  <2>1. C!Good \in C!PageType /\ [C!Good EXCEPT !.dirty = FALSE] \in C!PageType
    BY DEF C!Good, C!PageType
  <2> QED
    BY <2>1 DEF C!Init
<1>2. CleaningTyped /\ Run
  <2>1. /\ index \in C!Index /\ index \in Int /\ lo = index /\ hi = index /\ back = TRUE
        /\ mine = {"page", "object"} /\ vp = FALSE /\ mp = FALSE /\ pip = 0 /\ changes = 0
        /\ out = 0 /\ todo = 0 /\ at = "clean" /\ Count \in Nat \ {0}
    BY OwnBlock DEF C!Init, C!Index
  <2>2. CleaningTyped
    <3>1. 0 \in 0..Count /\ 0 \in Int /\ 0 \in Nat
      BY <2>1
    <3>2. {"page", "object"} \subseteq {"page", "object", "ref", "write", "vnode"}
      OBVIOUS
    <3> QED
      BY <1>1, <2>1, <3>1, <3>2, Zenon DEF CleaningTyped
  <2>3. C!Gathered = 1
    BY <2>1 DEF C!Gathered
  <2> QED
    BY <2>1, <2>2, <2>3 DEF Run
<1>2a. Holding
  BY DEF C!Init, Holding, Gathering
<1>3. pip <= Cardinality(Busied)
  BY <1>2, BusiedFinite DEF C!Init, Counted
<1>4. Found
  BY DEF C!Init, C!Good, C!StillThere, Found, Gathering
<1>5. Paging /\ Straight
  BY <1>3 DEF C!Init, C!Good, Paging, Straight, Early, Gathering
<1> QED
  BY <1>2, <1>2a, <1>4, <1>5 DEF CleaningInv

(* Before the cluster is gathered. *)
LEMMA EarlyInv ==
  ASSUME CleaningInv,
         C!NoVnode \/ C!StartWrite \/ C!VGet \/ C!Relock \/ C!Unlock \/ C!UnlockMp
  PROVE  CleaningInv'
<1>1. /\ UNCHANGED <<cPage, vnode, pip, changes, index, lo, hi, back, todo, out>>
      /\ CleaningTyped
      /\ at \in {"clean", "vget", "relock", "unlock_all", "unlock_mp"}
      /\ at' \in {"vget", "relock", "cluster", "unlock_all", "unlock_mp", "done"}
      /\ Early' => Early
      /\ mine' \subseteq {"page", "object", "ref", "write", "vnode"}
      /\ vp' \in BOOLEAN /\ mp' \in BOOLEAN
      /\ at' = "cluster" => C!StillThere(cPage[index])
  <2>1. at = "clean" => C!StillThere(cPage[index])
    BY DEF CleaningInv, Found
  <2> QED
    BY <2>1 DEF C!NoVnode, C!StartWrite, C!VGet, C!Relock, C!Unlock, C!UnlockMp, C!Go, C!world,
           C!cluster, C!pointers, CleaningInv, CleaningTyped, Early
<1>2. CleaningTyped' /\ Run' /\ Found' /\ ~ Gathering' /\ ~ Gathering
  BY <1>1 DEF CleaningInv, CleaningTyped, Run, Found, C!Gathered, Gathering, Early
<1>3. Holding'
  <2>1. CASE C!NoVnode \/ C!StartWrite
    BY <1>1, <2>1 DEF CleaningInv, Holding, Taken, Gathering, C!Releases, C!NoVnode, C!StartWrite,
                      C!pointers, C!Go
  <2>2. CASE C!VGet
    BY <1>1, <2>2 DEF CleaningInv, Holding, Taken, Gathering, C!Releases, C!VGet, C!Go
  <2>3. CASE C!Relock
    BY <1>1, <2>3 DEF CleaningInv, Holding, Taken, Gathering, C!Releases, C!Relock, C!pointers, C!Go
  <2>4. CASE C!Unlock \/ C!UnlockMp
    BY <1>1, <2>4 DEF CleaningInv, Holding, Gathering, C!Releases, C!Unlock, C!UnlockMp,
                      C!pointers, C!Go
  <2> QED
    BY <2>1, <2>2, <2>3, <2>4
<1>4. Busied' = Busied
  BY <1>1 DEF Busied
<1>5. Paging'
  BY <1>1, <1>2, <1>4 DEF CleaningInv, Paging
<1>6. Straight'
  BY <1>1, <1>2 DEF CleaningInv, Straight, WholeBlock, Base, Gathering
<1> QED
  BY <1>2, <1>3, <1>5, <1>6 DEF CleaningInv

(* The page asked for is the first of the cluster. *)
LEMMA ProtectInv ==
  ASSUME CleaningInv, C!Protect
  PROVE  CleaningInv'
<1>1. /\ at = "cluster" /\ at' = "reverse" /\ CleaningTyped
      /\ mine = {"page", "object"} \cup Taken /\ Taken = C!Releases
      /\ mine' = mine \ {"page"} /\ UNCHANGED <<vp, mp>>
      /\ cPage' = [cPage EXCEPT ![index] = [@ EXCEPT !.writable = FALSE]]
      /\ UNCHANGED <<vnode, pip, changes, index, lo, hi, back, todo, out>>
      /\ lo = index /\ hi = index /\ back /\ C!StillThere(cPage[index])
      /\ index \in Nat
  BY OwnBlock DEF C!Protect, C!Go, C!Protected, C!cluster, C!pointers, CleaningInv, CleaningTyped, Holding,
         Run, Found, Early
<1>2. /\ cPage' \in [C!Index -> C!PageType]
      /\ \A i \in C!Index : /\ cPage'[i].dirty = cPage[i].dirty
                            /\ cPage'[i].busy = cPage[i].busy /\ cPage'[i].same = cPage[i].same
                            /\ cPage'[i].held = cPage[i].held
                            /\ cPage'[i].laundry = cPage[i].laundry
      /\ ~ cPage'[index].writable
  BY <1>1 DEF CleaningTyped, C!PageType
<1>3. CleaningTyped'
  BY <1>1, <1>2 DEF CleaningTyped
<1>3a. Holding'
  BY <1>1 DEF Holding, Taken, Gathering, C!Releases
<1>4. Holding' /\ Run' /\ Found'
  BY <1>1, <1>2, <1>3a DEF CleaningInv, CleaningTyped, Run, C!Gathered, Found, Early, Gathering,
                           C!StillThere
<1>5. Paging'
  BY <1>1, <1>3, BusiedFinite DEF Counted, CleaningInv, Paging, Early, Gathering
<1>6. Straight'
  <2>1. changes = 0 => \A i \in C!Index : ~ cPage[i].busy /\ ~ cPage[i].held /\ cPage[i].laundry
    BY <1>1 DEF CleaningInv, Straight, Early
  <2>2. Base' = Base /\ Base <= index /\ Base \in Int
    BY <1>1, OwnBlock DEF Base
  <2> QED
    BY <1>1, <1>2, <2>1, <2>2 DEF Straight, WholeBlock, Early, Gathering
<1> QED
  BY <1>3, <1>4, <1>5, <1>6 DEF CleaningInv

(* A page that joins the cluster is one more that nobody writes. *)
LEMMA JoinedPage ==
  ASSUME CleaningTyped, NEW i, C!Joins(i)
  PROVE  /\ i \in C!Index /\ C!Fits(cPage[i])
         /\ cPage' \in [C!Index -> C!PageType]
         /\ ~ cPage'[i].writable
         /\ \A j \in C!Index :
              /\ cPage'[j].dirty = cPage[j].dirty /\ cPage'[j].busy = cPage[j].busy
              /\ cPage'[j].same = cPage[j].same /\ cPage'[j].held = cPage[j].held
              /\ cPage'[j].laundry = cPage[j].laundry
              /\ j # i => cPage'[j] = cPage[j]
BY DEF CleaningTyped, C!Joins, C!Protected, C!PageType

(* In a block that is all dirty every page fits. *)
LEMMA BlockFits ==
  ASSUME CleaningInv, WholeBlock, Early \/ Gathering, NEW j \in Base..(Base + Count - 1)
  PROVE  j \in C!Index /\ C!Fits(cPage[j])
<1>1. /\ Base \in Int /\ 0 <= Base /\ Count \in Nat /\ LastIndex \in Nat
      /\ Base + Count - 1 \in 0..LastIndex /\ changes = 0 /\ cPage[j].dirty
  BY OwnBlock DEF CleaningInv, WholeBlock, C!Index
<1>2. j \in C!Index
  BY <1>1 DEF C!Index
<1> QED
  BY <1>1, <1>2 DEF CleaningInv, Straight, C!Fits

(* Backwards. *)
LEMMA ReverseInv ==
  ASSUME CleaningInv, C!Reverse
  PROVE  CleaningInv'
<1>1. /\ at = "reverse" /\ at' \in {"reverse", "forward"} /\ CleaningTyped /\ Counted
      /\ UNCHANGED <<vnode, pip, mine, vp, mp, index, hi, todo, out, changes>>
      /\ pip = 0 /\ out = 0 /\ Count \in Nat
      /\ mine = {"object"} \cup Taken /\ Taken = C!Releases
      /\ lo <= index /\ index <= hi /\ hi - lo + 1 <= Count
      /\ cPage[index].same
      /\ \A i \in lo..hi : cPage[i].dirty /\ ~ cPage[i].busy /\ ~ cPage[i].writable
  BY OwnBlock, BusiedFinite
     DEF C!Reverse, C!pointers, CleaningInv, CleaningTyped, Holding, Run, Found, Paging, Gathering, C!Gathered
<1>2. /\ Base' = Base /\ Base \in Int /\ Base <= index /\ index < Base + Count
      /\ C!Aligned(Base) /\ \A j \in (Base + 1)..index : ~ C!Aligned(j)
  BY <1>1, OwnBlock DEF Base
<1>3. \/ /\ back /\ lo' = lo - 1 /\ back' = back /\ C!Joins(lo - 1) /\ C!Gathered < Count
         /\ at' = IF C!Aligned(lo') THEN "forward" ELSE "reverse"
      \/ /\ lo' = lo /\ cPage' = cPage /\ back' \in BOOLEAN /\ at' = "forward"
         /\ ~ back \/ C!Gathered >= Count \/ ~ (lo - 1 \in C!Index /\ C!Fits(cPage[lo - 1]))
  BY <1>1 DEF C!Reverse, CleaningTyped
<1>4. /\ cPage' \in [C!Index -> C!PageType] /\ back' \in BOOLEAN
      /\ lo' \in C!Index /\ lo' \in Int /\ lo' <= lo /\ hi - lo' + 1 <= Count
      /\ \A i \in C!Index :
           /\ cPage'[i].dirty = cPage[i].dirty /\ cPage'[i].busy = cPage[i].busy
           /\ cPage'[i].same = cPage[i].same /\ cPage'[i].held = cPage[i].held
           /\ cPage'[i].laundry = cPage[i].laundry
      /\ \A i \in lo'..hi : cPage'[i].dirty /\ ~ cPage'[i].busy /\ ~ cPage'[i].writable
  <2>1. CASE back /\ lo' = lo - 1 /\ back' = back /\ C!Joins(lo - 1) /\ C!Gathered < Count
    <3>1. /\ lo' \in C!Index /\ C!Fits(cPage[lo']) /\ cPage' \in [C!Index -> C!PageType]
          /\ ~ cPage'[lo'].writable
          /\ \A j \in C!Index :
               /\ cPage'[j].dirty = cPage[j].dirty /\ cPage'[j].busy = cPage[j].busy
               /\ cPage'[j].same = cPage[j].same /\ cPage'[j].held = cPage[j].held
               /\ cPage'[j].laundry = cPage[j].laundry
               /\ j # lo' => cPage'[j] = cPage[j]
      BY <1>1, <2>1, JoinedPage
    <3>2. lo' \in Int /\ lo' <= lo /\ hi - lo' + 1 <= Count
      BY <1>1, <2>1 DEF Counted, C!Gathered
    <3>3. ASSUME NEW i \in lo'..hi
          PROVE  cPage'[i].dirty /\ ~ cPage'[i].busy /\ ~ cPage'[i].writable
      <4>1. CASE i = lo'
        BY <3>1, <4>1 DEF C!Fits
      <4>2. CASE i # lo'
        <5>1. i \in lo..hi
          BY <1>1, <2>1, <4>2 DEF Counted
        <5>2. i \in C!Index
          BY <1>1, <5>1, OwnBlock DEF Counted, CleaningTyped, C!Index
        <5> QED
          BY <1>1, <3>1, <4>2, <5>1, <5>2
      <4> QED
        BY <4>1, <4>2
    <3> QED
      BY <1>1, <2>1, <3>1, <3>2, <3>3
  <2>2. CASE lo' = lo /\ cPage' = cPage /\ back' \in BOOLEAN
    BY <1>1, <2>2 DEF CleaningTyped, Counted
  <2> QED
    BY <1>3, <2>1, <2>2 DEF CleaningTyped
<1>5. CleaningTyped' /\ Counted'
  <2>1. CleaningTyped'
    BY <1>1, <1>4 DEF CleaningTyped
  <2> QED
    BY <2>1, BusiedFinite
<1>6. Holding' /\ Found'
  <2>1. cPage'[index].same
    BY <1>1, <1>4 DEF CleaningTyped
  <2>2. Holding'
    BY <1>1 DEF Holding, Gathering, Taken, C!Releases
  <2> QED
    BY <1>1, <1>4, <2>1, <2>2 DEF Found, Gathering
<1>7. Run' /\ Paging'
  <2>1. ~ Early' /\ at' # "result"
    BY <1>1 DEF Early
  <2>2. lo' <= index /\ index \in Int /\ hi \in Int
    BY <1>1, <1>4 DEF Counted
  <2>3. Run'
    BY <1>1, <1>4, <2>1, <2>2 DEF Run, C!Gathered
  <2>4. pip' <= Cardinality(Busied')
    BY <1>1, <1>5 DEF Counted
  <2> QED
    BY <1>1, <2>1, <2>3, <2>4 DEF Paging
<1>8. Straight'
  <2>1. changes = 0 => \A i \in C!Index : ~ cPage'[i].busy /\ ~ cPage'[i].held /\ cPage'[i].laundry
    BY <1>1, <1>4 DEF CleaningInv, Straight, Gathering
  <2>2. ASSUME WholeBlock'
        PROVE  (at' = "reverse" => Base < lo' /\ lo' <= index /\ hi = index /\ back')
               /\ (at' = "forward" => lo' = Base)
    <3>1. WholeBlock
      <4>1. ASSUME NEW i \in Base..(Base + Count - 1)
            PROVE  cPage[i].dirty
        <5>1. i \in C!Index /\ cPage'[i].dirty
          BY <1>1, <1>2, <2>2, OwnBlock DEF WholeBlock, C!Index
        <5> QED
          BY <1>4, <5>1
      <4> QED
        BY <1>1, <1>2, <2>2, <4>1 DEF WholeBlock
    <3>2. Base < lo /\ hi = index /\ back
      BY <1>1, <3>1 DEF CleaningInv, Straight
    <3>3. lo - 1 \in C!Index /\ C!Fits(cPage[lo - 1]) /\ ~ (C!Gathered >= Count)
      <4>1. lo - 1 \in Base..(Base + Count - 1) /\ ~ (C!Gathered >= Count)
        BY <1>1, <1>2, <3>2 DEF Counted, C!Gathered
      <4> QED
        BY <1>1, <3>1, <4>1, BlockFits DEF Gathering
    <3>4. lo' = lo - 1 /\ back' /\ at' = IF C!Aligned(lo') THEN "forward" ELSE "reverse"
      BY <1>3, <3>2, <3>3
    <3>5. Base <= lo' /\ lo' <= index
      BY <1>1, <1>2, <3>2, <3>4 DEF Counted
    <3>6. C!Aligned(lo') <=> lo' = Base
      BY <1>1, <1>2, <1>4, <3>5 DEF Counted
    <3> QED
      BY <1>2, <1>4, <3>2, <3>4, <3>5, <3>6
  <2> QED
    BY <1>1, <1>2, <2>1, <2>2 DEF Straight
<1> QED
  BY <1>5, <1>6, <1>7, <1>8 DEF CleaningInv

(* Forwards, and backwards again. *)
LEMMA ForwardInv ==
  ASSUME CleaningInv, C!Forward
  PROVE  CleaningInv'
<1>1. /\ at = "forward" /\ at' \in {"reverse", "forward", "flush"} /\ CleaningTyped /\ Counted
      /\ UNCHANGED <<vnode, pip, mine, vp, mp, index, lo, back, todo, out, changes>>
      /\ pip = 0 /\ out = 0 /\ Count \in Nat
      /\ mine = {"object"} \cup Taken /\ Taken = C!Releases
      /\ lo <= index /\ index <= hi /\ hi - lo + 1 <= Count
      /\ cPage[index].same
      /\ \A i \in lo..hi : cPage[i].dirty /\ ~ cPage[i].busy /\ ~ cPage[i].writable
  BY OwnBlock, BusiedFinite
     DEF C!Forward, C!pointers, CleaningInv, CleaningTyped, Holding, Run, Found, Paging, Gathering, C!Gathered
<1>2. /\ Base' = Base /\ Base \in Int /\ Base <= index /\ index < Base + Count
  BY <1>1, OwnBlock DEF Base
<1>3. \/ /\ C!Gathered < Count /\ C!Joins(hi + 1) /\ hi' = hi + 1 /\ at' = "forward"
      \/ /\ C!Gathered >= Count \/ ~ (hi + 1 \in C!Index /\ C!Fits(cPage[hi + 1]))
         /\ at' = IF back /\ C!Gathered < Count THEN "reverse" ELSE "flush"
         /\ hi' = hi /\ cPage' = cPage
  BY <1>1 DEF C!Forward
<1>4. /\ cPage' \in [C!Index -> C!PageType]
      /\ hi' \in C!Index /\ hi' \in Int /\ hi <= hi' /\ hi' - lo + 1 <= Count
      /\ \A i \in C!Index :
           /\ cPage'[i].dirty = cPage[i].dirty /\ cPage'[i].busy = cPage[i].busy
           /\ cPage'[i].same = cPage[i].same /\ cPage'[i].held = cPage[i].held
           /\ cPage'[i].laundry = cPage[i].laundry
      /\ \A i \in lo..hi' : cPage'[i].dirty /\ ~ cPage'[i].busy /\ ~ cPage'[i].writable
  <2>1. CASE C!Gathered < Count /\ C!Joins(hi + 1) /\ hi' = hi + 1
    <3>1. /\ hi' \in C!Index /\ C!Fits(cPage[hi']) /\ cPage' \in [C!Index -> C!PageType]
          /\ ~ cPage'[hi'].writable
          /\ \A j \in C!Index :
               /\ cPage'[j].dirty = cPage[j].dirty /\ cPage'[j].busy = cPage[j].busy
               /\ cPage'[j].same = cPage[j].same /\ cPage'[j].held = cPage[j].held
               /\ cPage'[j].laundry = cPage[j].laundry
               /\ j # hi' => cPage'[j] = cPage[j]
      BY <1>1, <2>1, JoinedPage
    <3>2. hi' \in Int /\ hi <= hi' /\ hi' - lo + 1 <= Count
      BY <1>1, <2>1 DEF Counted, C!Gathered
    <3>3. ASSUME NEW i \in lo..hi'
          PROVE  cPage'[i].dirty /\ ~ cPage'[i].busy /\ ~ cPage'[i].writable
      <4>1. CASE i = hi'
        BY <3>1, <4>1 DEF C!Fits
      <4>2. CASE i # hi'
        <5>1. i \in lo..hi
          BY <1>1, <2>1, <4>2 DEF Counted
        <5>2. i \in C!Index
          BY <1>1, <5>1, OwnBlock DEF Counted, CleaningTyped, C!Index
        <5> QED
          BY <1>1, <3>1, <4>2, <5>1, <5>2
      <4> QED
        BY <4>1, <4>2
    <3> QED
      BY <1>1, <2>1, <3>1, <3>2, <3>3
  <2>2. CASE hi' = hi /\ cPage' = cPage
    BY <1>1, <2>2 DEF CleaningTyped, Counted
  <2> QED
    BY <1>3, <2>1, <2>2
<1>5. CleaningTyped' /\ Counted'
  <2>1. CleaningTyped'
    BY <1>1, <1>4 DEF CleaningTyped
  <2> QED
    BY <2>1, BusiedFinite
<1>6. Holding' /\ Found'
  <2>1. cPage'[index].same
    BY <1>1, <1>4 DEF CleaningTyped
  <2>2. Holding'
    BY <1>1 DEF Holding, Gathering, Taken, C!Releases
  <2> QED
    BY <1>1, <1>4, <2>1, <2>2 DEF Found, Gathering
<1>7. Run' /\ Paging'
  <2>1. ~ Early' /\ at' # "result"
    BY <1>1 DEF Early
  <2>2. index <= hi' /\ index \in Int /\ lo \in Int
    BY <1>1, <1>4 DEF Counted
  <2>3. Run'
    BY <1>1, <1>4, <2>1, <2>2 DEF Run, C!Gathered
  <2>4. pip' <= Cardinality(Busied')
    BY <1>1, <1>5 DEF Counted
  <2> QED
    BY <1>1, <2>1, <2>3, <2>4 DEF Paging
<1>8. Straight'
  <2>1. changes = 0 => \A i \in C!Index : ~ cPage'[i].busy /\ ~ cPage'[i].held /\ cPage'[i].laundry
    BY <1>1, <1>4 DEF CleaningInv, Straight, Gathering
  <2>2. ASSUME WholeBlock'
        PROVE  at' # "reverse" /\ lo = Base
    <3>1. WholeBlock
      <4>1. ASSUME NEW i \in Base..(Base + Count - 1)
            PROVE  cPage[i].dirty
        <5>1. i \in C!Index /\ cPage'[i].dirty
          BY <1>1, <1>2, <2>2, OwnBlock DEF WholeBlock, C!Index
        <5> QED
          BY <1>4, <5>1
      <4> QED
        BY <1>1, <1>2, <2>2, <4>1 DEF WholeBlock
    <3>2. lo = Base
      BY <1>1, <3>1 DEF CleaningInv, Straight
    <3>3. ASSUME C!Gathered < Count
          PROVE  ~ (C!Gathered >= Count) /\ hi + 1 \in C!Index /\ C!Fits(cPage[hi + 1])
      <4>1. hi + 1 \in Base..(Base + Count - 1) /\ ~ (C!Gathered >= Count)
        BY <1>1, <1>2, <3>2, <3>3 DEF Counted, C!Gathered
      <4> QED
        BY <1>1, <3>1, <4>1, BlockFits DEF Gathering
    <3> QED
      BY <1>3, <3>2, <3>3
  <2> QED
    BY <1>1, <1>2, <2>1, <2>2 DEF Straight
<1> QED
  BY <1>5, <1>6, <1>7, <1>8 DEF CleaningInv

(* The cluster's pages are busied, and counted. *)
LEMMA PutInv ==
  ASSUME CleaningInv, C!Put
  PROVE  CleaningInv'
<1>1. /\ at = "flush" /\ at' = "result" /\ CleaningTyped /\ Counted
      /\ UNCHANGED <<vnode, mine, vp, mp, index, lo, hi, back, out, changes>>
      /\ pip' = hi - lo + 1 /\ todo' = lo /\ out = 0
      /\ cPage' = [i \in C!Index |-> IF i \in lo..hi THEN [cPage[i] EXCEPT !.busy = TRUE]
                                     ELSE cPage[i]]
      /\ mine = {"object"} \cup Taken /\ Taken = C!Releases
      /\ lo <= index /\ index <= hi /\ hi - lo + 1 <= Count
  <2>1. pip = 0
    BY DEF C!Put, C!Go, CleaningInv, Paging, Gathering
  <2> QED
    BY <2>1, BusiedFinite
       DEF C!Put, C!Go, C!Gathered, C!pointers, CleaningInv, Holding, Run, Paging, Gathering, Counted
<1>2. lo..hi \subseteq C!Index
  BY <1>1, OwnBlock, SMTT(30) DEF Counted, CleaningTyped, C!Index
<1>3. cPage' \in [C!Index -> C!PageType] /\ \A i \in lo..hi : cPage'[i].busy
  BY <1>1, <1>2 DEF CleaningTyped, C!PageType
<1>4. CleaningTyped' /\ Counted'
  <2>1. hi - lo + 1 \in Nat /\ lo \in Int
    BY <1>1 DEF Counted
  <2>2. CleaningTyped'
    BY <1>1, <1>3, <2>1 DEF CleaningTyped
  <2> QED
    BY <2>2, BusiedFinite
<1>5. Holding' /\ Run' /\ Found'
  <2>1. Holding'
    BY <1>1 DEF Holding, Gathering, Taken, C!Releases
  <2>2. Run' /\ Found'
    BY <1>1 DEF Run, Found, Early, Gathering, C!Gathered
  <2> QED
    BY <2>1, <2>2
<1>6. Paging'
  <2>1. Busied' = lo..hi
    BY <1>1, <1>3 DEF Busied
  <2>2. Cardinality(Busied') = hi - lo + 1
    BY <1>1, <2>1, FS_Interval DEF Counted
  <2> QED
    BY <1>1, <1>3, <1>4, <2>2 DEF Paging, Early, Gathering, Counted
<1>7. Straight'
  BY <1>1 DEF Straight, Early, Gathering
<1> QED
  BY <1>4, <1>5, <1>6, <1>7 DEF CleaningInv

(* The pager's answer for one page, or for none when all have been heard. *)
LEMMA ResultInv ==
  ASSUME CleaningInv, C!Result
  PROVE  CleaningInv'
<1>1. /\ at = "result" /\ at' \in {"result", "unlock_all"} /\ CleaningTyped /\ Counted
      /\ UNCHANGED <<vnode, mine, vp, mp, index, lo, hi, back, changes>>
      /\ mine = {"object"} \cup Taken /\ Taken = C!Releases
      /\ lo <= index /\ index <= hi /\ hi - lo + 1 <= Count /\ Count \in Nat
      /\ lo <= todo /\ todo <= hi + 1 /\ out <= todo - lo
      /\ pip = Cardinality(Busied)
      /\ \A i \in todo..hi : cPage[i].busy
  BY OwnBlock, BusiedFinite
     DEF C!Result, C!pointers, CleaningInv, CleaningTyped, Holding, Run, Paging, C!Gathered
<1>2. Holding' /\ Run' /\ Found' /\ Straight'
  <2>1. ~ Early' /\ ~ Gathering' /\ at' \notin {"cluster", "reverse", "forward", "flush"}
    BY <1>1 DEF Early, Gathering
  <2>2. Holding'
    BY <1>1 DEF Holding, Gathering, Taken, C!Releases
  <2> QED
    BY <1>1, <2>1, <2>2 DEF Run, Found, Straight, C!Gathered
<1>3. ASSUME todo > hi, at' = "unlock_all", UNCHANGED <<cPage, pip, out, todo>>
      PROVE  CleaningInv'
  <2>1. CleaningTyped'
    BY <1>1, <1>3 DEF CleaningTyped
  <2>2. Busied' = Busied
    BY <1>1, <1>3 DEF Busied
  <2>3. pip' <= Cardinality(Busied')
    BY <1>1, <1>3, <2>2 DEF Counted
  <2>4. Paging'
    BY <1>3, <2>3 DEF Paging, Early, Gathering
  <2> QED
    BY <1>2, <2>1, <2>4 DEF CleaningInv
<1>4. ASSUME todo <= hi, at' = at, todo' = todo + 1, NEW answer \in C!Outcome,
             cPage' = [cPage EXCEPT ![todo] = C!After(@, answer)],
             pip' = IF answer = "pend" THEN pip ELSE pip - 1,
             out' = IF answer \in {"ok", "pend"} THEN out + 1 ELSE out
      PROVE  CleaningInv'
  <2>1. todo \in Int /\ todo \in todo..hi /\ todo \in lo..hi /\ todo \in C!Index /\ cPage[todo].busy
    BY <1>1, <1>4, OwnBlock DEF Counted, CleaningTyped, C!Index
  <2>2. cPage[todo] \in C!PageType
    BY <1>1, <2>1 DEF CleaningTyped
  <2>3. /\ C!After(cPage[todo], answer) \in C!PageType
        /\ C!After(cPage[todo], answer).busy <=> answer = "pend"
    BY <1>4, <2>1, <2>2 DEF C!After, C!Outcome, C!PageType
  <2>4. /\ cPage' \in [C!Index -> C!PageType]
        /\ \A i \in C!Index : cPage'[i].busy <=> IF i = todo THEN answer = "pend" ELSE cPage[i].busy
    BY <1>1, <1>4, <2>1, <2>3 DEF CleaningTyped
  <2>5. lo..hi \subseteq C!Index
    BY <1>1, OwnBlock DEF Counted, CleaningTyped, C!Index
  <2>6. pip' = Cardinality(Busied') /\ pip' \in Nat
    <3>1. CASE answer = "pend"
      <4>1. Busied' = Busied
        BY <1>1, <2>1, <2>4, <2>5, <3>1 DEF Busied
      <4> QED
        BY <1>1, <1>4, <3>1, <4>1 DEF Counted
    <3>2. CASE answer # "pend"
      <4>1. Busied' = Busied \ {todo} /\ todo \in Busied
        BY <1>1, <2>1, <2>4, <2>5, <3>2 DEF Busied
      <4>2. IsFiniteSet(Busied') /\ Cardinality(Busied') = Cardinality(Busied) - 1
        BY <1>1, <4>1, FS_RemoveElement DEF Counted
      <4> QED
        BY <1>1, <1>4, <3>2, <4>2, FS_CardinalityType DEF Counted
    <3> QED
      BY <3>1, <3>2
  <2>7. out' \in 0..Count /\ out' <= todo' - lo
    <3>1. out \in Nat /\ lo \in Int /\ hi \in Int
      BY <1>1 DEF Counted, CleaningTyped
    <3> QED
      BY <1>1, <1>4, <2>1, <3>1
  <2>8. CleaningTyped' /\ Counted'
    <3>1. CleaningTyped'
      BY <1>1, <1>4, <2>1, <2>4, <2>6, <2>7 DEF CleaningTyped
    <3> QED
      BY <3>1, BusiedFinite
  <2>9. lo' <= todo' /\ todo' <= hi' + 1 /\ \A i \in todo'..hi' : cPage'[i].busy
    <3>1. lo' <= todo' /\ todo' <= hi' + 1
      BY <1>1, <1>4, <2>1 DEF Counted
    <3>2. ASSUME NEW i \in todo'..hi'
          PROVE  cPage'[i].busy
      <4>1. i \in todo..hi /\ i # todo /\ i \in lo..hi
        BY <1>1, <1>4, <2>1 DEF Counted
      <4> QED
        BY <1>1, <2>4, <2>5, <4>1
    <3> QED
      BY <3>1, <3>2
  <2>10. Paging'
    <3>1. pip' <= Cardinality(Busied')
      BY <2>6
    <3> QED
      BY <1>1, <1>4, <2>6, <2>7, <2>9, <3>1 DEF Paging, Early, Gathering
  <2> QED
    BY <1>2, <2>8, <2>10 DEF CleaningInv
<1> QED
  BY <1>3, <1>4 DEF C!Result

(* A change by another thread: a page that the thread does not guard may   *)
(* change in any way that leaves a busy page busy.                         *)
LEMMA ChangeInv ==
  ASSUME CleaningInv, NEW i \in C!Index, C!Hold(i) \/ C!Touch(i) \/ C!Write(i)
  PROVE  CleaningInv'
<1>1. /\ UNCHANGED <<vnode, pip, at, mine, vp, mp, index, lo, hi, back, todo, out>>
      /\ changes' = changes + 1 /\ CleaningTyped /\ Counted
      /\ cPage' \in [C!Index -> C!PageType]
      /\ \A j \in C!Index : cPage[j].busy => cPage'[j].busy
      /\ "object" \in mine => \A j \in C!Index :
           /\ cPage'[j].busy <=> cPage[j].busy
           /\ cPage'[j].same <=> cPage[j].same
           /\ cPage'[j].writable <=> cPage[j].writable
           /\ cPage[j].dirty => cPage'[j].dirty
      /\ "page" \in mine /\ "object" \in mine =>
           /\ cPage'[index].held <=> cPage[index].held
           /\ cPage'[index].laundry <=> cPage[index].laundry
  <2>1. /\ cPage \in [C!Index -> C!PageType] /\ cPage[i] \in C!PageType /\ CleaningTyped /\ Counted
    BY BusiedFinite DEF CleaningInv, CleaningTyped
  <2>2. CASE C!Hold(i)
    <3>1. PICK r \in {[cPage[i] EXCEPT !.held = ~ @], [cPage[i] EXCEPT !.laundry = ~ @]} :
            /\ cPage' = [cPage EXCEPT ![i] = r]
            /\ UNCHANGED <<vnode, pip, at, mine, vp, mp, index, lo, hi, back, todo, out>>
            /\ changes' = changes + 1 /\ ~ (i = index /\ "page" \in mine)
      BY <2>2 DEF C!Hold, C!Change, C!cluster, C!pointers
    <3>2. /\ r \in C!PageType
          /\ r.busy = cPage[i].busy /\ r.same = cPage[i].same
          /\ r.writable = cPage[i].writable /\ r.dirty = cPage[i].dirty
      BY <2>1 DEF C!PageType
    <3> QED
      BY <2>1, <3>1, <3>2
  <2>3. CASE C!Touch(i)
    <3>1. [C!Good EXCEPT !.same = FALSE] \in C!PageType
      BY DEF C!Good, C!PageType
    <3> QED
      BY <2>1, <2>3, <3>1, ZenonT(60) DEF C!Touch, C!Change, C!cluster, C!pointers, C!PageType
  <2>4. CASE C!Write(i)
    <3> DEFINE r == [cPage[i] EXCEPT !.dirty = TRUE]
    <3>1. /\ cPage' = [cPage EXCEPT ![i] = r]
          /\ UNCHANGED <<vnode, pip, at, mine, vp, mp, index, lo, hi, back, todo, out>>
          /\ changes' = changes + 1
      BY <2>4 DEF C!Write, C!Change, C!cluster, C!pointers
    <3>2. /\ r \in C!PageType /\ r.dirty
          /\ r.busy = cPage[i].busy /\ r.same = cPage[i].same
          /\ r.writable = cPage[i].writable
          /\ r.held = cPage[i].held /\ r.laundry = cPage[i].laundry
      BY <2>1 DEF C!PageType
    <3> HIDE DEF r
    <3> QED
      BY <2>1, <3>1, <3>2
  <2> QED
    BY <2>2, <2>3, <2>4
<1>2. CleaningTyped' /\ Counted' /\ changes' # 0
  <2>1. changes' \in Nat /\ changes' # 0
    BY <1>1 DEF CleaningTyped
  <2>2. CleaningTyped'
    BY <1>1, <2>1 DEF CleaningTyped
  <2> QED
    BY <2>1, <2>2, BusiedFinite
<1>3. Holding' /\ Run' /\ Straight'
  <2>1. Holding'
    BY <1>1 DEF CleaningInv, Holding, Gathering, Taken, C!Releases
  <2>2. Run' /\ Straight'
    BY <1>1, <1>2 DEF CleaningInv, Run, Straight, WholeBlock, Early, Gathering, C!Gathered
  <2> QED
    BY <2>1, <2>2
<1>4. lo..hi \subseteq C!Index /\ index \in C!Index
  BY <1>1, OwnBlock DEF Counted, CleaningTyped, C!Index
<1>5. Found'
  <2>1. CASE at \in {"clean", "cluster"}
    BY <1>1, <1>4, <2>1 DEF CleaningInv, Holding, Found, Gathering, C!StillThere
  <2>2. CASE at \notin {"clean", "cluster"}
    BY <1>1, <1>4, <2>2 DEF CleaningInv, Holding, Found, Gathering
  <2> QED
    BY <2>1, <2>2
<1>6. Cardinality(Busied) <= Cardinality(Busied') /\ ("object" \in mine => Busied' = Busied)
  <2>1. Busied \in SUBSET Busied' /\ ("object" \in mine => Busied' = Busied)
    BY <1>1, <1>4 DEF Busied
  <2> QED
    BY <1>2, <2>1, FS_Subset DEF Counted
<1>7. Paging'
  <2>1. pip' <= Cardinality(Busied')
    BY <1>1, <1>2, <1>6 DEF CleaningInv, CleaningTyped, Paging, Counted
  <2>2. CASE at = "result"
    <3>1. "object" \in mine /\ \A j \in todo..hi : j \in lo..hi
      BY <1>1, <2>2 DEF CleaningInv, CleaningTyped, Holding, Paging, Counted
    <3> QED
      BY <1>1, <1>4, <1>6, <2>1, <2>2, <3>1 DEF CleaningInv, Paging, Early, Gathering
  <2>3. CASE at # "result"
    BY <1>1, <2>1, <2>3 DEF CleaningInv, Paging, Early, Gathering
  <2> QED
    BY <2>2, <2>3
<1> QED
  BY <1>2, <1>3, <1>5, <1>7 DEF CleaningInv

(* The pager has done with a page in transit. *)
LEMMA CompleteInv ==
  ASSUME CleaningInv, NEW i \in C!Index, C!Complete(i)
  PROVE  CleaningInv'
<1>1. /\ at = "done" /\ pip > 0 /\ i \in Busied /\ pip' = pip - 1
      /\ cPage' = [cPage EXCEPT ![i] = [@ EXCEPT !.busy = FALSE]]
      /\ UNCHANGED <<vnode, at, mine, vp, mp, index, lo, hi, back, todo, out, changes>>
      /\ CleaningTyped /\ Counted /\ pip <= Cardinality(Busied) /\ pip \in Nat
  BY BusiedFinite DEF C!Complete, C!cluster, C!pointers, CleaningInv, CleaningTyped, Paging, Busied
<1>2. CleaningTyped' /\ Counted'
  <2>1. cPage' \in [C!Index -> C!PageType] /\ pip' \in Nat
    <3>1. cPage \in [C!Index -> C!PageType] /\ cPage[i] \in C!PageType
      BY <1>1 DEF CleaningTyped
    <3>2. [cPage[i] EXCEPT !.busy = FALSE] \in C!PageType
      BY <3>1 DEF C!PageType
    <3> QED
      BY <1>1, <3>1, <3>2
  <2>2. CleaningTyped'
    BY <1>1, <2>1 DEF CleaningTyped
  <2> QED
    BY <2>2, BusiedFinite
<1>3. Holding' /\ Run' /\ Found' /\ Straight'
  BY <1>1 DEF CleaningInv, Holding, Run, Found, Straight, Early, Gathering, C!Gathered
<1>4. lo..hi \subseteq C!Index
  BY <1>1, OwnBlock, SMTT(30) DEF Counted, CleaningTyped, C!Index
<1>5. Busied' = Busied \ {i}
  BY <1>1, <1>4 DEF Busied, CleaningTyped
<1>6. Cardinality(Busied') = Cardinality(Busied) - 1
  BY <1>1, <1>5, FS_RemoveElement DEF Counted
<1>7. pip' <= Cardinality(Busied')
  BY <1>1, <1>6 DEF Counted
<1>8. Paging'
  BY <1>1, <1>7 DEF Paging, Early, Gathering
<1> QED
  BY <1>2, <1>3, <1>8 DEF CleaningInv

(* In every behaviour of the layer the cluster keeps its invariant. *)
LEMMA CleaningKept == LayerSpec => []CleaningInv
<1>1. LayerInit => CleaningInv
  BY CleanInitInv DEF LayerInit
<1>2. CleaningInv /\ [LayerNext]_all => CleaningInv'
  <2> SUFFICES ASSUME CleaningInv, [LayerNext]_all
               PROVE  CleaningInv'
    OBVIOUS
  <2>1. CASE Cleaning /\ ~ \E x \in {"locked", "suspended", "detached"} : C!Vnode(x)
    BY <2>1, EarlyInv, ProtectInv, ReverseInv, ForwardInv, PutInv, ResultInv, ChangeInv,
       CompleteInv DEF Cleaning, C!Next, C!Launder
  <2>2. ASSUME NEW x \in {"locked", "suspended", "detached"}, C!Vnode(x)
        PROVE  CleaningInv'
    <3>1. /\ UNCHANGED <<cPage, pip, at, mine, vp, mp, index, lo, hi, back, todo, out>>
          /\ changes' = changes + 1 /\ CleaningTyped
          /\ "none" \in vnode' <=> "none" \in vnode
      BY <2>2 DEF C!Vnode, C!cluster, C!pointers, CleaningInv
    <3>2. changes' \in Nat /\ changes' # 0
      BY <3>1 DEF CleaningTyped
    <3>3. Busied' = Busied
      BY <3>1 DEF Busied
    <3> QED
      BY <3>1, <3>2, <3>3 DEF CleaningInv, CleaningTyped, Holding, Taken, C!Releases, Run, Found, Paging, Straight,
                              WholeBlock, Early, Gathering, C!Gathered
  <2>3. CASE ~ Cleaning
    <3>1. UNCHANGED cleaning
      BY <2>3 DEF LayerNext, Queues, Laundry, Counts, Killing, Done, all
    <3>2. Busied' = Busied /\ Base' = Base
      BY <3>1 DEF cleaning, Busied, Base
    <3> QED
      BY <3>1, <3>2 DEF cleaning, CleaningInv, CleaningTyped, Holding, Taken, C!Releases, Run, Found, Paging,
                        Straight, WholeBlock, Early, Gathering, C!Gathered
  <2> QED
    BY <2>1, <2>2, <2>3
<1> QED
  BY <1>1, <1>2, PTL DEF LayerSpec

(* What vm_pageout_cluster hands to vm_pageout_flush is a run of at most   *)
(* vm_pageout_page_count pages around the page asked for, all of them      *)
(* dirty, none busy or writable, and the aligned block of the page when    *)
(* that is all dirty: for any object, cluster size and meddling.           *)
THEOREM ClusterIsSound == LayerSpec => []ClusterSound
<1>1. ASSUME CleaningInv
      PROVE  ClusterSound
  <2>1. C!TypeOK
    BY <1>1 DEF CleaningInv, CleaningTyped, C!TypeOK
  <2>2. C!ClusterSound
    BY <1>1 DEF CleaningInv, Holding, Taken, Run, Found, Gathering, C!ClusterSound
  <2>3. C!ClusterAligned
    BY <1>1 DEF CleaningInv, Straight, WholeBlock, Base, C!ClusterAligned
  <2> QED
    BY <2>1, <2>2, <2>3 DEF ClusterSound
<1> QED
  BY <1>1, CleaningKept, PTL

(* At its labels vm_pageout_clean still holds exactly what vp and mp make  *)
(* it give up, wherever it came from, and then nothing; and                *)
(* paging_in_progress counts the pages of the cluster that are still in    *)
(* transit, whatever the pager answers for each.                           *)
THEOREM CleaningReleases == LayerSpec => []CleanReleases
<1>1. ASSUME CleaningInv
      PROVE  CleanReleases
  <2>1. /\ at = "unlock_all" => "object" \in mine /\ mine \ {"object"} = C!Releases
        /\ at = "unlock_mp" => mine = C!Releases
        /\ at = "done" => mine = {}
    BY <1>1 DEF CleaningInv, Holding
  <2>2. pip <= Cardinality(Busied) /\ (at = "result" => pip = Cardinality(Busied))
    BY <1>1 DEF CleaningInv, Paging
  <2>3. Cardinality(Busied) = C!Cardinality({i \in lo..hi : cPage[i].busy})
    BY DEF Busied, Cardinality, C!Cardinality, IsFiniteSet, C!IsFiniteSet
  <2> QED
    BY <2>1, <2>2, <2>3 DEF CleanReleases, C!CleanReleases
<1> QED
  BY <1>1, CleaningKept, PTL
=============================================================================
