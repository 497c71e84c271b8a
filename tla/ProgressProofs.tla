--------------------------- MODULE ProgressProofs ---------------------------
(***************************************************************************)
(* The idle protocol, the laundry thread and the clock of the active queue *)
(* keep their invariants in the composition.                               *)
(***************************************************************************)
EXTENDS Progress, FunctionTheorems, SequenceTheorems, FiniteSetTheorems, TLAPS

(***************************************************************************)
(* The idle protocol                                                       *)
(***************************************************************************)
IP == INSTANCE IdleProofs

(* The IdleNotify of the proofs is the composition's. *)
LEMMA SameIdle ==
  /\ I!IdleAssumption <=> IP!IdleAssumption
  /\ I!Init <=> IP!Init
  /\ I!Next <=> IP!Next
  /\ I!TypeOK <=> IP!TypeOK
  /\ I!NoLostWakeup <=> IP!NoLostWakeup
  /\ I!MarkBacked <=> IP!MarkBacked
<1>1. I!IdleAssumption <=> IP!IdleAssumption
  BY DEF I!IdleAssumption, IP!IdleAssumption
<1>2. I!Init <=> IP!Init
  BY DEF I!Init, IP!Init, I!Cpu, IP!Cpu
<1>3. I!Next <=> IP!Next
  BY DEF I!Next, IP!Next, I!IdleLoop, IP!IdleLoop, I!Remotes, IP!Remotes,
         I!Finish, IP!Finish, I!Cpu, IP!Cpu, I!Put, IP!Put, I!Newest, IP!Newest,
         I!Max, IP!Max, I!Load, IP!Load, I!Drain, IP!Drain, I!Fence, IP!Fence,
         I!CanLock, IP!CanLock, I!Goto, IP!Goto, I!Lock, IP!Lock, I!Add, IP!Add,
         I!Rob, IP!Rob, I!Notify, IP!Notify, I!Wake, IP!Wake, I!Send, IP!Send,
         I!Unlock, IP!Unlock, I!Idling, IP!Idling, I!Critical, IP!Critical,
         I!Top, IP!Top, I!Switch, IP!Switch, I!Idled, IP!Idled, I!Steal, IP!Steal,
         I!Spin, IP!Spin, I!Recheck, IP!Recheck, I!CpuIdle, IP!CpuIdle,
         I!StrayInterrupt, IP!StrayInterrupt, I!Back, IP!Back, I!Awake, IP!Awake,
         I!Preempt, IP!Preempt, I!ThreadStops, IP!ThreadStops, I!LocalAdd, IP!LocalAdd
<1>4. I!TypeOK <=> IP!TypeOK
  BY DEF I!TypeOK, IP!TypeOK, I!Memory, IP!Memory, I!Store, IP!Store, I!Cpu, IP!Cpu
<1>5. I!NoLostWakeup <=> IP!NoLostWakeup
  BY DEF I!NoLostWakeup, IP!NoLostWakeup, I!Idling, IP!Idling, I!Load, IP!Load,
         I!Newest, IP!Newest, I!Max, IP!Max
<1>6. I!MarkBacked <=> IP!MarkBacked
  BY DEF I!MarkBacked, IP!MarkBacked, I!Put, IP!Put
<1> QED
  BY <1>1, <1>2, <1>3, <1>4, <1>5, <1>6

(* In every behaviour of the composition the idle protocol keeps its       *)
(* invariant.                                                              *)
LEMMA IdleKept == ProgressSpec => []IP!Inv
<1>1. IP!IdleAssumption
  BY CpusAssumption, SameIdle
<1>2. ProgressInit => IP!Inv
  BY <1>1, SameIdle, IP!InitInv DEF ProgressInit
<1>3. IP!Inv /\ [ProgressNext]_all => IP!Inv'
  <2> SUFFICES ASSUME IP!Inv, [ProgressNext]_all
               PROVE  IP!Inv'
    OBVIOUS
  <2>1. [IP!Next]_(IP!vars)
    <3>1. CASE OfIdle(I!Next)
      BY <3>1, SameIdle DEF OfIdle
    <3>2. CASE ~ OfIdle(I!Next)
      <4>1. UNCHANGED idle
        BY <3>2 DEF ProgressNext, OfBusy, OfLaundry, OfScan, all
      <4> QED
        BY <4>1 DEF idle, IP!vars
    <3> QED
      BY <3>1, <3>2
  <2> QED
    BY <1>1, <2>1, IP!NextInv
<1> QED
  BY <1>2, <1>3, PTL DEF ProgressSpec

(* No CPU stays halted with a thread on its queue, unless an interrupt is  *)
(* on its way or the CPU that added the thread has yet to decide, however  *)
(* many CPUs add and steal threads and whenever their stores reach memory  *)
(* (the two fences of sched_idletd and tdq_notify).                        *)
THEOREM NoWakeupIsLost == ProgressSpec => []NoLostWakeup
<1>1. IP!Inv => NoLostWakeup
  BY SameIdle DEF IP!Inv, NoLostWakeup
<1> QED
  BY <1>1, IdleKept, PTL

(* tdq_ipipending never stays set without an interrupt, so that no CPU     *)
(* stops sending them (tdq_notify and sched_preempt).                      *)
THEOREM MarksAreBacked == ProgressSpec => []MarkBacked
<1>1. IP!Inv => MarkBacked
  BY SameIdle DEF IP!Inv, MarkBacked
<1> QED
  BY <1>1, IdleKept, PTL

(***************************************************************************)
(* The laundry thread                                                      *)
(***************************************************************************)
LaundrySound == L!TypeOK /\ L!NoRequestSleptThrough

(* What the loop's arithmetic stays within. *)
LEMMA Quotients ==
  ASSUME NEW a \in Nat, NEW b \in Nat \ {0}
  PROVE  a \div b \in Nat
OBVIOUS

LEMMA DecideSound == LaundrySound /\ L!Decide => LaundrySound'
<1> SUFFICES ASSUME LaundrySound, L!Decide
             PROVE  LaundrySound'
  OBVIOUS
<1> USE ThreadAssumption DEF L!LaundryAssumption, LaundrySound, L!TypeOK,
        L!NoRequestSleptThrough
<1>1. UNCHANGED <<request, freed, swap, dirty, missing>>
  BY DEF L!Decide
<1>2. CASE L!StartShortfall
  <2>1. shortfall \div Cycle \in Nat
    BY <1>2, Quotients DEF L!StartShortfall
  <2> QED
    BY <1>1, <1>2, <2>1 DEF L!StartShortfall, L!Launders
<1>3. CASE L!GoOnShortfall
  <2>1. target \div cycle \in Nat
    BY <1>3, Quotients DEF L!GoOnShortfall
  <2> QED
    BY <1>1, <1>3, <2>1 DEF L!GoOnShortfall, L!Launders
<1>4. CASE L!TryBackground
  <2>1. PICK many \in BOOLEAN, garbage \in BOOLEAN :
          LET kept == IF inShortfall THEN 0 ELSE target
              run == IF kept = 0 /\ many THEN Background ELSE kept
              over == IF last = -1 THEN garbage ELSE last - run >= Belt
              left == IF run > 0 /\ nfreed = 0 /\ over THEN 0 ELSE run
          IN  /\ target' = left
              /\ nfreed' = IF run > 0 THEN 0 ELSE nfreed
              /\ last' = IF run > 0 /\ nfreed > 0 THEN run ELSE last
              /\ L!Launders(IF run > 0 THEN L!Smaller(Rate, left) ELSE 0)
    BY <1>4 DEF L!TryBackground
  <2>2. target' \in Nat /\ nfreed' \in 0..1 /\ last' \in Nat \cup {-1}
    BY <2>1
  <2>3. launder' \in Nat /\ at' \in {"launder", "lock"}
    BY <2>1 DEF L!Launders, L!Smaller
  <2>4. cycle' = cycle /\ inShortfall' = FALSE /\ shortfall' = shortfall
    BY <1>4 DEF L!TryBackground
  <2> QED
    BY <1>1, <2>2, <2>3, <2>4
<1> QED
  BY <1>2, <1>3, <1>4 DEF L!Decide

LEMMA LaunderSound ==
  ASSUME LaundrySound, NEW n \in Nat, L!Launder(n), UNCHANGED <<request, freed>>
  PROVE  LaundrySound'
BY DEF LaundrySound, L!TypeOK, L!NoRequestSleptThrough, L!Launder, L!Smaller

LEMMA LookSound == LaundrySound /\ L!Look => LaundrySound'
BY ThreadAssumption DEF L!LaundryAssumption, LaundrySound, L!TypeOK,
   L!NoRequestSleptThrough, L!Look, L!Smaller

LEMMA SleepSound == LaundrySound /\ L!Sleep => LaundrySound'
BY DEF LaundrySound, L!TypeOK, L!NoRequestSleptThrough, L!Sleep

LEMMA PassSound == LaundrySound /\ L!Pass => LaundrySound'
<1> SUFFICES ASSUME LaundrySound, NEW met \in BOOLEAN, L!Post(met)
             PROVE  LaundrySound'
  BY DEF L!Pass
<1> QED
  BY DEF LaundrySound, L!TypeOK, L!NoRequestSleptThrough, L!Post, L!Wakeup

LEMMA LaundryNextSound == LaundrySound /\ [L!Next]_(L!vars) => LaundrySound'
<1> SUFFICES ASSUME LaundrySound, [L!Next]_(L!vars)
             PROVE  LaundrySound'
  OBVIOUS
<1>1. CASE L!Decide
  BY <1>1, DecideSound
<1>2. CASE L!LaunderAny(0..(Belt + Cluster + Background))
  <2>1. Belt + Cluster + Background \in Nat
    BY ThreadAssumption DEF L!LaundryAssumption
  <2>2. PICK n \in 0..(Belt + Cluster + Background) : L!Launder(n)
    BY <1>2 DEF L!LaunderAny
  <2> QED
    BY <1>2, <2>1, <2>2, LaunderSound DEF L!LaunderAny
<1>3. CASE L!Sleep \/ L!GoOn \/ L!Woken
  BY <1>3, SleepSound, LookSound DEF L!GoOn, L!Woken
<1>4. CASE L!Pass
  BY <1>4, PassSound
<1>5. CASE L!Swap \/ L!Dirty \/ L!Miss \/ UNCHANGED L!vars
  BY <1>5 DEF L!Swap, L!Dirty, L!Miss, L!vars, L!thread, LaundrySound, L!TypeOK,
              L!NoRequestSleptThrough
<1> QED
  BY <1>1, <1>2, <1>3, <1>4, <1>5 DEF L!Next, L!Worker

(* The laundry thread sleeps only without a run and without a request, so  *)
(* that no request of the page daemon waits for the next one, and what it  *)
(* is to launder never goes below zero, whatever the targets, the rates    *)
(* and the sizes of the writes (vm_pageout_laundry_worker).                *)
THEOREM RequestsAreSeen == ProgressSpec => [](L!TypeOK /\ L!NoRequestSleptThrough)
<1>1. ProgressInit => LaundrySound
  <2> SUFFICES ASSUME L!Init
               PROVE  LaundrySound
    BY DEF ProgressInit
  <2>1. 0 \in 0..Cycle
    BY ThreadAssumption DEF L!LaundryAssumption
  <2>2. /\ request = "idle" /\ at = "top" /\ inShortfall = FALSE
        /\ freed = 0 /\ target = 0 /\ launder = 0 /\ shortfall = 0 /\ cycle = 0
        /\ nfreed = 0 /\ last = -1
    BY DEF L!Init
  <2>3. L!TypeOK
    <3>1. /\ target \in Nat /\ launder \in Nat /\ cycle \in 0..Cycle /\ shortfall \in Int
          /\ freed \in 0..1 /\ nfreed \in 0..1 /\ last \in Nat \cup {-1}
      BY <2>1, <2>2
    <3>2. inShortfall \in BOOLEAN
      BY <2>2, Zenon
    <3> QED
      BY <2>2, <3>1, <3>2 DEF L!TypeOK
  <2> QED
    BY <2>2, <2>3 DEF LaundrySound, L!NoRequestSleptThrough
<1>2. LaundrySound /\ [ProgressNext]_all => LaundrySound'
  <2> SUFFICES ASSUME LaundrySound, [ProgressNext]_all
               PROVE  LaundrySound'
    OBVIOUS
  <2>1. [L!Next]_(L!vars)
    <3>1. CASE OfLaundry(L!Next)
      BY <3>1 DEF OfLaundry
    <3>2. CASE ~ OfLaundry(L!Next)
      <4>1. UNCHANGED laundry
        BY <3>2 DEF ProgressNext, OfBusy, OfIdle, OfScan, all
      <4> QED
        BY <4>1 DEF laundry, L!vars, L!thread
    <3> QED
      BY <3>1, <3>2
  <2> QED
    BY <2>1, LaundryNextSound
<1> QED
  BY <1>1, <1>2, PTL DEF ProgressSpec, LaundrySound

(***************************************************************************)
(* The active queue's clock                                                *)
(***************************************************************************)
(* x is somewhere before y in s. *)
Precedes(s, x, y) == \E i, j \in DOMAIN s : i < j /\ s[i] = x /\ s[j] = y

(* What is in two sequences one after the other, and in which order. *)
LEMMA Joins ==
  ASSUME NEW S, NEW s \in Seq(S), NEW t \in Seq(S)
  PROVE  /\ s \o t \in Seq(S)
         /\ A!ToSet(s \o t) = A!ToSet(s) \cup A!ToSet(t)
         /\ A!IsInjective(s \o t) <=>
              /\ A!IsInjective(s) /\ A!IsInjective(t)
              /\ A!ToSet(s) \cap A!ToSet(t) = {}
         /\ \A x, y : Precedes(s \o t, x, y) <=>
              \/ Precedes(s, x, y) \/ Precedes(t, x, y)
              \/ x \in A!ToSet(s) /\ y \in A!ToSet(t)
<1> DEFINE n == Len(s)
           m == Len(t)
           c == s \o t
<1>1. n \in Nat /\ m \in Nat /\ DOMAIN s = 1..n /\ DOMAIN t = 1..m
  BY LenProperties
<1>2. /\ c \in Seq(S) /\ Len(c) = n + m
      /\ \A i \in 1..(n + m) : c[i] = IF i <= n THEN s[i] ELSE t[i - n]
  BY ConcatProperties
<1>3. DOMAIN c = 1..(n + m)
  BY <1>2, LenProperties
<1> HIDE DEF n, m, c
<1>4. \A i \in 1..n : i \in 1..(n + m) /\ c[i] = s[i]
  BY <1>1, <1>2
<1>5. ASSUME NEW i \in 1..m
      PROVE  n + i \in 1..(n + m) /\ c[n + i] = t[i] /\ n + i > n
  <2> DEFINE k == n + i
  <2>1. k \in 1..(n + m) /\ ~ (k <= n) /\ k - n = i /\ k > n
    BY <1>1
  <2> HIDE DEF k
  <2>2. c[k] = t[i]
    BY <1>2, <2>1
  <2> QED
    BY <2>1, <2>2 DEF k
<1>6. ASSUME NEW k \in 1..(n + m), k \notin 1..n
      PROVE  \E i \in 1..m : k = n + i /\ c[k] = t[i]
  <2> DEFINE i == k - n
  <2>1. i \in 1..m /\ k = n + i
    BY <1>1, <1>6
  <2> HIDE DEF i
  <2> QED
    BY <1>5, <2>1
<1>7. A!ToSet(c) = A!ToSet(s) \cup A!ToSet(t)
  <2>1. ASSUME NEW e \in A!ToSet(c)
        PROVE  e \in A!ToSet(s) \cup A!ToSet(t)
    <3>1. PICK k \in 1..(n + m) : c[k] = e
      BY <1>3, <2>1 DEF A!ToSet
    <3> QED
      BY <1>1, <1>4, <1>6, <3>1 DEF A!ToSet
  <2>2. ASSUME NEW e \in A!ToSet(s) \cup A!ToSet(t)
        PROVE  e \in A!ToSet(c)
    BY <1>1, <1>3, <1>4, <1>5, <2>2 DEF A!ToSet
  <2> QED
    BY <2>1, <2>2
<1>8. ASSUME NEW x, NEW y
      PROVE  Precedes(c, x, y) <=> \/ Precedes(s, x, y) \/ Precedes(t, x, y)
                                   \/ x \in A!ToSet(s) /\ y \in A!ToSet(t)
  <2>1. ASSUME Precedes(s, x, y)
        PROVE  Precedes(c, x, y)
    BY <1>1, <1>3, <1>4, <2>1 DEF Precedes
  <2>2. ASSUME Precedes(t, x, y)
        PROVE  Precedes(c, x, y)
    <3>1. PICK i, j \in 1..m : i < j /\ t[i] = x /\ t[j] = y
      BY <1>1, <2>2 DEF Precedes
    <3>2. n + i < n + j
      BY <1>1, <3>1
    <3> QED
      BY <1>3, <1>5, <3>1, <3>2 DEF Precedes
  <2>3. ASSUME x \in A!ToSet(s), y \in A!ToSet(t)
        PROVE  Precedes(c, x, y)
    <3>1. PICK i \in 1..n, j \in 1..m : s[i] = x /\ t[j] = y
      BY <1>1, <2>3 DEF A!ToSet
    <3>2. i < n + j
      BY <1>1, <3>1
    <3> QED
      BY <1>3, <1>4, <1>5, <3>1, <3>2 DEF Precedes
  <2>4. ASSUME Precedes(c, x, y)
        PROVE  \/ Precedes(s, x, y) \/ Precedes(t, x, y)
               \/ x \in A!ToSet(s) /\ y \in A!ToSet(t)
    <3>1. PICK i, j \in 1..(n + m) : i < j /\ c[i] = x /\ c[j] = y
      BY <1>3, <2>4 DEF Precedes
    <3>2. CASE i \in 1..n /\ j \in 1..n
      BY <1>1, <1>4, <3>1, <3>2 DEF Precedes
    <3>3. CASE i \in 1..n /\ j \notin 1..n
      BY <1>1, <1>4, <1>6, <3>1, <3>3 DEF A!ToSet
    <3>4. CASE i \notin 1..n
      <4>1. j \notin 1..n
        BY <1>1, <3>1, <3>4
      <4>2. PICK k \in 1..m : i = n + k /\ c[i] = t[k]
        BY <1>6, <3>4
      <4>3. PICK l \in 1..m : j = n + l /\ c[j] = t[l]
        BY <1>6, <4>1
      <4>4. k < l
        BY <1>1, <3>1, <4>2, <4>3
      <4> QED
        BY <1>1, <3>1, <4>2, <4>3, <4>4 DEF Precedes
    <3> QED
      BY <3>2, <3>3, <3>4
  <2> QED
    BY <2>1, <2>2, <2>3, <2>4
<1>9. \A q : (q = s \/ q = t \/ q = c) =>
        (A!IsInjective(q) <=> \A x : ~ Precedes(q, x, x))
  <2>1. ASSUME NEW q, DOMAIN q \subseteq Nat
        PROVE  A!IsInjective(q) <=> \A x : ~ Precedes(q, x, x)
    <3>1. ASSUME NEW i \in DOMAIN q, NEW j \in DOMAIN q, q[i] = q[j], i # j
          PROVE  Precedes(q, q[i], q[i])
      <4>1. i < j \/ j < i
        BY <2>1, <3>1
      <4> QED
        BY <3>1, <4>1 DEF Precedes
    <3>2. ASSUME NEW x, Precedes(q, x, x)
          PROVE  \E i, j \in DOMAIN q : q[i] = q[j] /\ i # j
      <4>1. PICK i, j \in DOMAIN q : i < j /\ q[i] = x /\ q[j] = x
        BY <3>2 DEF Precedes
      <4>2. i # j
        BY <2>1, <4>1
      <4> QED
        BY <4>1, <4>2
    <3> QED
      BY <3>1, <3>2 DEF A!IsInjective
  <2> QED
    BY <1>1, <1>3, <2>1
<1>10. A!IsInjective(c) <=> /\ A!IsInjective(s) /\ A!IsInjective(t)
                            /\ A!ToSet(s) \cap A!ToSet(t) = {}
  BY <1>8, <1>9
<1> QED
  BY <1>2, <1>7, <1>8, <1>10 DEF c

LEMMA Alone ==
  ASSUME NEW S, NEW e \in S
  PROVE  /\ <<e>> \in Seq(S) /\ A!ToSet(<<e>>) = {e} /\ A!IsInjective(<<e>>)
         /\ \A x, y : ~ Precedes(<<e>>, x, y)
BY DEF A!ToSet, A!IsInjective, Precedes

(* What precedes what is in the sequence, and is not preceded by it.       *)
LEMMA Orders ==
  ASSUME NEW S, NEW s \in Seq(S), A!IsInjective(s)
  PROVE  /\ \A x, y : Precedes(s, x, y) => x \in A!ToSet(s) /\ y \in A!ToSet(s)
         /\ \A x, y : Precedes(s, x, y) => ~ Precedes(s, y, x) /\ x # y
         /\ \A x, y, z : Precedes(s, x, y) /\ Precedes(s, y, z) => Precedes(s, x, z)
         /\ \A x, y : x \in A!ToSet(s) /\ y \in A!ToSet(s) /\ x # y =>
              Precedes(s, x, y) \/ Precedes(s, y, x)
<1>1. DOMAIN s \subseteq Int /\ \A i, j \in DOMAIN s : s[i] = s[j] => i = j
  BY LenProperties DEF A!IsInjective
<1>2. \A x, y : Precedes(s, x, y) => x \in A!ToSet(s) /\ y \in A!ToSet(s)
  BY DEF Precedes, A!ToSet
<1>3. ASSUME NEW x, NEW y, Precedes(s, x, y)
      PROVE  ~ Precedes(s, y, x) /\ x # y
  BY <1>1, <1>3 DEF Precedes
<1>4. ASSUME NEW x, NEW y, NEW z, Precedes(s, x, y), Precedes(s, y, z)
      PROVE  Precedes(s, x, z)
  <2>1. PICK i, j \in DOMAIN s : i < j /\ s[i] = x /\ s[j] = y
    BY <1>4 DEF Precedes
  <2>2. PICK k, l \in DOMAIN s : k < l /\ s[k] = y /\ s[l] = z
    BY <1>4 DEF Precedes
  <2>3. i < l
    BY <1>1, <2>1, <2>2
  <2> QED
    BY <2>1, <2>2, <2>3 DEF Precedes
<1>5. ASSUME NEW x \in A!ToSet(s), NEW y \in A!ToSet(s), x # y
      PROVE  Precedes(s, x, y) \/ Precedes(s, y, x)
  <2>1. PICK i, j \in DOMAIN s : s[i] = x /\ s[j] = y
    BY DEF A!ToSet
  <2>2. i < j \/ j < i
    BY <1>1, <1>5, <2>1
  <2> QED
    BY <2>1, <2>2 DEF Precedes
<1> QED
  BY <1>2, <1>3, <1>4, <1>5

(* A sequence around one of its elements, and what the list operations     *)
(* make of the pieces.                                                     *)
Splits(s, m, l, r) ==
  /\ s = (l \o <<m>>) \o r /\ A!Without(s, m) = l \o r
  /\ \A e : A!Behind(s, m, e) = ((l \o <<m>>) \o <<e>>) \o r
  /\ r = SubSeq(s, A!Place(s, m) + 1, Len(s))

LEMMA Around ==
  ASSUME NEW S, NEW s \in Seq(S), NEW m \in A!ToSet(s)
  PROVE  \E l, r \in Seq(S) : Splits(s, m, l, r)
<1>1. DOMAIN s = 1..Len(s) /\ Len(s) \in Nat
  BY LenProperties
<1>2. \E i \in DOMAIN s : s[i] = m
  BY DEF A!ToSet
<1>3. PICK k \in 1..Len(s) : k = A!Place(s, m) /\ s[k] = m
  BY <1>1, <1>2 DEF A!Place
<1> DEFINE l == SubSeq(s, 1, k - 1)
           r == SubSeq(s, k + 1, Len(s))
<1>4. l \in Seq(S)
  BY <1>1, <1>3, ElementOfSeq, SubSeqProperties
<1>5. r \in Seq(S)
  <2> DEFINE j == k + 1
  <2>1. j \in Int /\ \A i \in j..Len(s) : s[i] \in S
    BY <1>1, <1>3, ElementOfSeq
  <2> HIDE DEF j
  <2>2. SubSeq(s, j, Len(s)) \in Seq(S)
    BY <1>1, <2>1, SubSeqProperties
  <2> QED
    BY <2>2 DEF j
<1>6. SubSeq(s, 1, k) = l \o <<m>>
  <2>1. 1 \in 1..Len(s) /\ k \in 1..Len(s)
    BY <1>1, <1>3
  <2>2. SubSeq(s, 1, k) = SubSeq(s, 1, k - 1) \o <<s[k]>>
    BY <2>1, SubSeqRecursiveSecond
  <2> QED
    BY <1>3, <2>2
<1>7. s = SubSeq(s, 1, k) \o r
  <2>1. k \in (1 - 1)..Len(s) /\ 1 \in 1..(Len(s) + 1) /\ Len(s) \in k..Len(s)
    BY <1>1, <1>3
  <2>2. SubSeq(s, 1, k) \o SubSeq(s, k + 1, Len(s)) = SubSeq(s, 1, Len(s))
    BY <2>1, ConcatAdjacentSubSeq
  <2> QED
    BY <2>2, SubSeqFull
<1>8. A!Without(s, m) = l \o r
  BY <1>3 DEF A!Without, A!RemoveAt
<1>9. ASSUME NEW e
      PROVE  A!Behind(s, m, e) = ((l \o <<m>>) \o <<e>>) \o r
  <2>3. A!Behind(s, m, e) = A!InsertAt(s, k + 1, e)
    BY <1>3 DEF A!Behind
  <2> DEFINE j == k + 1
  <2> HIDE DEF l, r, j
  <2>4. A!InsertAt(s, j, e) = (SubSeq(s, 1, j - 1) \o <<e>>) \o SubSeq(s, j, Len(s))
    BY Zenon DEF A!InsertAt
  <2>5. j - 1 = k
    BY <1>3 DEF j
  <2>6. A!Behind(s, m, e) = (SubSeq(s, 1, k) \o <<e>>) \o SubSeq(s, j, Len(s))
    BY <2>3, <2>4, <2>5 DEF j
  <2> QED
    BY <1>6, <2>6 DEF j, r
<1>10. Splits(s, m, l, r)
  BY <1>3, <1>6, <1>7, <1>8, <1>9 DEF Splits
<1> QED
  BY <1>4, <1>5, <1>10

LEMMA WithoutIs ==
  ASSUME NEW S, NEW s \in Seq(S), NEW m \in A!ToSet(s), A!IsInjective(s)
  PROVE  /\ A!Without(s, m) \in Seq(S) /\ A!IsInjective(A!Without(s, m))
         /\ A!ToSet(A!Without(s, m)) = A!ToSet(s) \ {m}
         /\ \A x, y : x # m /\ y # m =>
              (Precedes(A!Without(s, m), x, y) <=> Precedes(s, x, y))
<1>1. PICK l \in Seq(S), r \in Seq(S) : Splits(s, m, l, r)
  BY Around
<1>2. m \in S
  BY ElementOfSeq, LenProperties DEF A!ToSet
<1> DEFINE u == <<m>>
           lu == l \o u
<1>3. /\ u \in Seq(S) /\ A!ToSet(u) = {m} /\ A!IsInjective(u)
      /\ \A x, y : ~ Precedes(u, x, y)
  BY <1>2, Alone
<1> HIDE DEF u
<1>4. /\ lu \in Seq(S) /\ A!ToSet(lu) = A!ToSet(l) \cup A!ToSet(u)
      /\ A!IsInjective(lu) <=> /\ A!IsInjective(l) /\ A!IsInjective(u)
                               /\ A!ToSet(l) \cap A!ToSet(u) = {}
      /\ \A x, y : Precedes(lu, x, y) <=>
           \/ Precedes(l, x, y) \/ Precedes(u, x, y)
           \/ x \in A!ToSet(l) /\ y \in A!ToSet(u)
  BY <1>3, Joins
<1> HIDE DEF lu
<1>5. /\ A!ToSet(lu \o r) = A!ToSet(lu) \cup A!ToSet(r)
      /\ A!IsInjective(lu \o r) <=> /\ A!IsInjective(lu) /\ A!IsInjective(r)
                                    /\ A!ToSet(lu) \cap A!ToSet(r) = {}
      /\ \A x, y : Precedes(lu \o r, x, y) <=>
           \/ Precedes(lu, x, y) \/ Precedes(r, x, y)
           \/ x \in A!ToSet(lu) /\ y \in A!ToSet(r)
  BY <1>4, Joins
<1>6. /\ l \o r \in Seq(S) /\ A!ToSet(l \o r) = A!ToSet(l) \cup A!ToSet(r)
      /\ A!IsInjective(l \o r) <=> /\ A!IsInjective(l) /\ A!IsInjective(r)
                                   /\ A!ToSet(l) \cap A!ToSet(r) = {}
      /\ \A x, y : Precedes(l \o r, x, y) <=>
           \/ Precedes(l, x, y) \/ Precedes(r, x, y)
           \/ x \in A!ToSet(l) /\ y \in A!ToSet(r)
  BY <1>1, Joins
<1>7. s = lu \o r /\ A!Without(s, m) = l \o r
  BY <1>1 DEF lu, u, Splits
<1>8. /\ A!IsInjective(l) /\ A!IsInjective(r) /\ A!ToSet(l) \cap A!ToSet(r) = {}
      /\ m \notin A!ToSet(l) /\ m \notin A!ToSet(r)
      /\ A!ToSet(s) = (A!ToSet(l) \cup {m}) \cup A!ToSet(r)
  BY <1>3, <1>4, <1>5, <1>7
<1>9. A!IsInjective(l \o r) /\ A!ToSet(l \o r) = A!ToSet(s) \ {m}
  BY <1>6, <1>8
<1>10. ASSUME NEW x, NEW y, x # m, y # m
       PROVE  Precedes(l \o r, x, y) <=> Precedes(s, x, y)
  BY <1>3, <1>4, <1>5, <1>6, <1>7, <1>10
<1> QED
  BY <1>6, <1>7, <1>9, <1>10

(* Behind m, the new element stands to all others as m does.               *)
LEMMA BehindIs ==
  ASSUME NEW S, NEW s \in Seq(S), NEW m \in A!ToSet(s), A!IsInjective(s),
         NEW e \in S, e \notin A!ToSet(s)
  PROVE  /\ A!Behind(s, m, e) \in Seq(S) /\ A!IsInjective(A!Behind(s, m, e))
         /\ A!ToSet(A!Behind(s, m, e)) = A!ToSet(s) \cup {e}
         /\ Precedes(A!Behind(s, m, e), m, e)
         /\ \A x, y : Precedes(s, x, y) => Precedes(A!Behind(s, m, e), x, y)
         /\ \A x : /\ Precedes(s, x, m) => Precedes(A!Behind(s, m, e), x, e)
                   /\ Precedes(s, m, x) => Precedes(A!Behind(s, m, e), e, x)
<1>1. PICK l \in Seq(S), r \in Seq(S) : Splits(s, m, l, r)
  BY Around
<1>2. m \in S
  BY ElementOfSeq, LenProperties DEF A!ToSet
<1> DEFINE u == <<m>>
           v == <<e>>
           lu == l \o u
           luv == lu \o v
<1>3. /\ u \in Seq(S) /\ A!ToSet(u) = {m} /\ A!IsInjective(u)
      /\ \A x, y : ~ Precedes(u, x, y)
      /\ v \in Seq(S) /\ A!ToSet(v) = {e} /\ A!IsInjective(v)
      /\ \A x, y : ~ Precedes(v, x, y)
  BY <1>2, Alone
<1> HIDE DEF u, v
<1>4. /\ lu \in Seq(S) /\ A!ToSet(lu) = A!ToSet(l) \cup A!ToSet(u)
      /\ A!IsInjective(lu) <=> /\ A!IsInjective(l) /\ A!IsInjective(u)
                               /\ A!ToSet(l) \cap A!ToSet(u) = {}
      /\ \A x, y : Precedes(lu, x, y) <=>
           \/ Precedes(l, x, y) \/ Precedes(u, x, y)
           \/ x \in A!ToSet(l) /\ y \in A!ToSet(u)
  BY <1>3, Joins
<1> HIDE DEF lu
<1>5. /\ A!ToSet(lu \o r) = A!ToSet(lu) \cup A!ToSet(r)
      /\ A!IsInjective(lu \o r) <=> /\ A!IsInjective(lu) /\ A!IsInjective(r)
                                    /\ A!ToSet(lu) \cap A!ToSet(r) = {}
      /\ \A x, y : Precedes(lu \o r, x, y) <=>
           \/ Precedes(lu, x, y) \/ Precedes(r, x, y)
           \/ x \in A!ToSet(lu) /\ y \in A!ToSet(r)
  BY <1>4, Joins
<1>6. /\ luv \in Seq(S) /\ A!ToSet(luv) = A!ToSet(lu) \cup A!ToSet(v)
      /\ A!IsInjective(luv) <=> /\ A!IsInjective(lu) /\ A!IsInjective(v)
                                /\ A!ToSet(lu) \cap A!ToSet(v) = {}
      /\ \A x, y : Precedes(luv, x, y) <=>
           \/ Precedes(lu, x, y) \/ Precedes(v, x, y)
           \/ x \in A!ToSet(lu) /\ y \in A!ToSet(v)
  BY <1>3, <1>4, Joins
<1> HIDE DEF luv
<1>7. /\ luv \o r \in Seq(S) /\ A!ToSet(luv \o r) = A!ToSet(luv) \cup A!ToSet(r)
      /\ A!IsInjective(luv \o r) <=> /\ A!IsInjective(luv) /\ A!IsInjective(r)
                                     /\ A!ToSet(luv) \cap A!ToSet(r) = {}
      /\ \A x, y : Precedes(luv \o r, x, y) <=>
           \/ Precedes(luv, x, y) \/ Precedes(r, x, y)
           \/ x \in A!ToSet(luv) /\ y \in A!ToSet(r)
  BY <1>1, <1>6, Joins
<1>8. s = lu \o r /\ A!Behind(s, m, e) = luv \o r
  BY <1>1 DEF luv, lu, u, v, Splits
<1>9. /\ A!IsInjective(lu) /\ A!IsInjective(r) /\ A!IsInjective(l)
      /\ A!ToSet(s) = A!ToSet(lu) \cup A!ToSet(r) /\ A!ToSet(lu) \cap A!ToSet(r) = {}
      /\ m \in A!ToSet(lu) /\ m \notin A!ToSet(l) /\ e \notin A!ToSet(lu) \cup A!ToSet(r)
      /\ A!ToSet(lu) \cap A!ToSet(v) = {}
  BY <1>3, <1>4, <1>5, <1>8
<1>10. /\ A!IsInjective(luv \o r) /\ A!ToSet(luv \o r) = A!ToSet(s) \cup {e}
  BY <1>3, <1>6, <1>7, <1>9
<1>11. Precedes(luv \o r, m, e)
  BY <1>3, <1>6, <1>7, <1>9
<1>12. ASSUME NEW x, NEW y, Precedes(s, x, y)
       PROVE  Precedes(luv \o r, x, y)
  BY <1>5, <1>6, <1>7, <1>8, <1>12
<1>13. ASSUME NEW x, Precedes(s, x, m)
       PROVE  Precedes(luv \o r, x, e)
  <2>1. m \notin A!ToSet(r)
    BY <1>9
  <2>2. ~ Precedes(r, x, m)
    BY <1>9, <2>1, Orders
  <2>3. Precedes(lu, x, m)
    BY <1>5, <1>8, <1>13, <2>1, <2>2
  <2>4. x \in A!ToSet(lu)
    BY <1>4, <1>9, <2>3, Orders
  <2> QED
    BY <1>3, <1>6, <1>7, <2>4
<1>14. ASSUME NEW x, Precedes(s, m, x)
       PROVE  Precedes(luv \o r, e, x)
  <2>1. ~ Precedes(l, m, x) /\ ~ Precedes(r, m, x)
    BY <1>1, <1>9, Orders
  <2>2. x \in A!ToSet(r)
    BY <1>3, <1>4, <1>5, <1>8, <1>9, <1>14, <2>1
  <2> QED
    BY <1>3, <1>6, <1>7, <2>2
<1> QED
  BY <1>7, <1>8, <1>10, <1>11, <1>12, <1>13, <1>14

(* What is on the list, and how: the hands, between them the marker of a   *)
(* scan, unless the second hand is in its batch.                           *)
Element == Page \cup {A!Hand0, A!Hand1, A!Marker}

Sorted(s, phase, batch) ==
  /\ s \in Seq(Element) /\ A!IsInjective(s)
  /\ Precedes(s, A!Hand0, A!Hand1)
  /\ A!Marker \in A!ToSet(s) <=> phase = "scan"
  /\ phase = "scan" =>
       /\ Precedes(s, A!Hand0, A!Marker)
       /\ Precedes(s, A!Marker, A!Hand1) \/ A!Contains(batch, A!Hand1)

(* The marks are told apart, and from pages. *)
LEMMA Marks ==
  /\ A!Hand0 # A!Hand1 /\ A!Hand0 # A!Marker /\ A!Hand1 # A!Marker
  /\ A!Hand0 \notin Page /\ A!Hand1 \notin Page /\ A!Marker \notin Page
  /\ A!Hand0 \in Element /\ A!Hand1 \in Element /\ A!Marker \in Element
  /\ Page \subseteq Element
<1>1. A!Hand0 # A!Hand1 /\ A!Hand0 # A!Marker /\ A!Hand1 # A!Marker
  BY DEF A!Hand0, A!Hand1, A!Marker
<1>2. A!Hand0 \notin Page /\ A!Hand1 \notin Page /\ A!Marker \notin Page
  BY ClockAssumption DEF A!ScanAssumption
<1> QED
  BY <1>1, <1>2 DEF Element

LEMMA HandsThere ==
  ASSUME NEW s, NEW phase, NEW batch, Sorted(s, phase, batch)
  PROVE  A!Hand0 \in A!ToSet(s) /\ A!Hand1 \in A!ToSet(s)
BY DEF Sorted, Precedes, A!ToSet

LEMMA Two ==
  ASSUME NEW x, NEW y
  PROVE  <<x>> \o <<y>> = <<x, y>>
<1> DEFINE S == {x, y}
           u == <<x>>
           v == <<y>>
           w == <<x, y>>
<1>1. /\ u \in Seq(S) /\ Len(u) = 1 /\ u[1] = x
      /\ v \in Seq(S) /\ Len(v) = 1 /\ v[1] = y
      /\ w \in Seq(S) /\ Len(w) = 2 /\ w[1] = x /\ w[2] = y
  OBVIOUS
<1> HIDE DEF S, u, v, w
<1>2. /\ u \o v \in Seq(S) /\ Len(u \o v) = Len(u) + Len(v)
      /\ \A i \in 1..(Len(u) + Len(v)) :
           (u \o v)[i] = IF i <= Len(u) THEN u[i] ELSE v[i - Len(u)]
  BY <1>1, ConcatProperties
<1>3. (u \o v)[1] = x /\ (u \o v)[2] = y /\ Len(u \o v) = 2
  BY <1>1, <1>2
<1>4. \A i \in 1..Len(u \o v) : (u \o v)[i] = w[i]
  BY <1>1, <1>3
<1>5. u \o v = w
  BY <1>1, <1>2, <1>3, <1>4, SeqEqual
<1> QED
  BY <1>5 DEF u, v, w

LEMMA EmptyBatch == ~ A!Contains(<<>>, A!Hand1)
<1>1. Len(<<>>) = 0 /\ 1..0 = {}
  BY EmptySeq
<1> QED
  BY <1>1 DEF A!Contains

(* A scan starts behind the first hand. *)
LEMMA StartSorts ==
  ASSUME NEW s, NEW phase, NEW batch, NEW b, Sorted(s, phase, batch), phase # "scan"
  PROVE  Sorted(A!Behind(s, A!Hand0, A!Marker), "scan", b)
<1>1. /\ s \in Seq(Element) /\ A!IsInjective(s) /\ Precedes(s, A!Hand0, A!Hand1)
      /\ A!Marker \notin A!ToSet(s)
  BY DEF Sorted
<1>2. A!Hand0 \in A!ToSet(s)
  BY HandsThere
<1> DEFINE t == A!Behind(s, A!Hand0, A!Marker)
<1>3. /\ t \in Seq(Element) /\ A!IsInjective(t)
      /\ A!ToSet(t) = A!ToSet(s) \cup {A!Marker}
      /\ Precedes(t, A!Hand0, A!Marker)
      /\ Precedes(s, A!Hand0, A!Hand1) => Precedes(t, A!Hand0, A!Hand1)
      /\ Precedes(s, A!Hand0, A!Hand1) => Precedes(t, A!Marker, A!Hand1)
  BY <1>1, <1>2, Marks, BehindIs
<1> HIDE DEF t
<1>4. Sorted(t, "scan", b)
  BY <1>1, <1>3 DEF Sorted
<1> QED
  BY <1>4 DEF t

(* The second hand is met: the hands go to the ends, and the marker behind *)
(* the first.                                                              *)
LEMMA MeetSorts ==
  ASSUME NEW s, NEW batch, Sorted(s, "scan", batch), NEW b
  PROVE  LET rest == A!Without(A!Without(A!Without(s, A!Hand0), A!Hand1), A!Marker)
         IN  /\ Sorted((<<A!Hand0, A!Marker>> \o rest) \o <<A!Hand1>>, "scan", b)
             /\ A!ToSet((<<A!Hand0, A!Marker>> \o rest) \o <<A!Hand1>>) = A!ToSet(s)
<1>1. s \in Seq(Element) /\ A!IsInjective(s) /\ A!Marker \in A!ToSet(s)
  BY DEF Sorted
<1>2. A!Hand0 \in A!ToSet(s) /\ A!Hand1 \in A!ToSet(s)
  BY HandsThere
<1> DEFINE s1 == A!Without(s, A!Hand0)
           s2 == A!Without(s1, A!Hand1)
           s3 == A!Without(s2, A!Marker)
           h == <<A!Hand0>>
           k == <<A!Marker>>
           e == <<A!Hand1>>
           hk == h \o k
           f == hk \o s3
           t == f \o e
<1>3. s1 \in Seq(Element) /\ A!IsInjective(s1) /\ A!ToSet(s1) = A!ToSet(s) \ {A!Hand0}
  BY <1>1, <1>2, WithoutIs
<1> HIDE DEF s1
<1>4. s2 \in Seq(Element) /\ A!IsInjective(s2) /\ A!ToSet(s2) = A!ToSet(s1) \ {A!Hand1}
  BY <1>2, <1>3, Marks, WithoutIs
<1> HIDE DEF s2
<1>5. s3 \in Seq(Element) /\ A!IsInjective(s3) /\ A!ToSet(s3) = A!ToSet(s2) \ {A!Marker}
  BY <1>1, <1>3, <1>4, Marks, WithoutIs
<1> HIDE DEF s3
<1>6. /\ h \in Seq(Element) /\ A!ToSet(h) = {A!Hand0} /\ A!IsInjective(h)
      /\ k \in Seq(Element) /\ A!ToSet(k) = {A!Marker} /\ A!IsInjective(k)
      /\ e \in Seq(Element) /\ A!ToSet(e) = {A!Hand1} /\ A!IsInjective(e)
  BY Marks, Alone
<1>7. <<A!Hand0, A!Marker>> = hk
  BY Two
<1> HIDE DEF h, k, e
<1>8. /\ hk \in Seq(Element) /\ A!ToSet(hk) = A!ToSet(h) \cup A!ToSet(k)
      /\ A!IsInjective(hk) <=> /\ A!IsInjective(h) /\ A!IsInjective(k)
                               /\ A!ToSet(h) \cap A!ToSet(k) = {}
      /\ A!Hand0 \in A!ToSet(h) /\ A!Marker \in A!ToSet(k) =>
           Precedes(hk, A!Hand0, A!Marker)
  BY <1>6, Joins
<1> HIDE DEF hk
<1>9. /\ f \in Seq(Element) /\ A!ToSet(f) = A!ToSet(hk) \cup A!ToSet(s3)
      /\ A!IsInjective(f) <=> /\ A!IsInjective(hk) /\ A!IsInjective(s3)
                              /\ A!ToSet(hk) \cap A!ToSet(s3) = {}
      /\ Precedes(hk, A!Hand0, A!Marker) => Precedes(f, A!Hand0, A!Marker)
  BY <1>5, <1>8, Joins
<1> HIDE DEF f
<1>10. /\ t \in Seq(Element) /\ A!ToSet(t) = A!ToSet(f) \cup A!ToSet(e)
       /\ A!IsInjective(t) <=> /\ A!IsInjective(f) /\ A!IsInjective(e)
                               /\ A!ToSet(f) \cap A!ToSet(e) = {}
       /\ Precedes(f, A!Hand0, A!Marker) => Precedes(t, A!Hand0, A!Marker)
       /\ \A x, y : x \in A!ToSet(f) /\ y \in A!ToSet(e) => Precedes(t, x, y)
  BY <1>6, <1>9, Joins
<1> HIDE DEF t
<1>11. /\ A!IsInjective(hk) /\ A!IsInjective(f) /\ A!IsInjective(t)
  BY <1>3, <1>4, <1>5, <1>6, <1>8, <1>9, <1>10, Marks
<1>12. Sorted(t, "scan", b)
  BY <1>6, <1>8, <1>9, <1>10, <1>11 DEF Sorted
<1>13. A!ToSet(t) = A!ToSet(s)
  BY <1>1, <1>2, <1>3, <1>4, <1>5, <1>6, <1>8, <1>9, <1>10
<1> QED
  BY <1>7, <1>12, <1>13 DEF t, f, e, s3, s2, s1

(* A page that leaves the list disturbs no mark. *)
LEMMA LeaveSorts ==
  ASSUME NEW s, NEW phase, NEW batch, Sorted(s, phase, batch),
         NEW p \in A!ToSet(s) \cap Page
  PROVE  /\ Sorted(A!Without(s, p), phase, batch)
         /\ A!ToSet(A!Without(s, p)) = A!ToSet(s) \ {p}
<1>1. s \in Seq(Element) /\ A!IsInjective(s)
  BY DEF Sorted
<1> DEFINE t == A!Without(s, p)
<1>2. /\ t \in Seq(Element) /\ A!IsInjective(t) /\ A!ToSet(t) = A!ToSet(s) \ {p}
      /\ \A x, y : x # p /\ y # p => (Precedes(t, x, y) <=> Precedes(s, x, y))
  BY <1>1, WithoutIs
<1> HIDE DEF t
<1>3. p # A!Hand0 /\ p # A!Hand1 /\ p # A!Marker
  BY Marks
<1>4. Sorted(t, phase, batch)
  BY <1>2, <1>3 DEF Sorted
<1> QED
  BY <1>2, <1>4 DEF t

(* A page that joins the list does so at its tail. *)
LEMMA ActivateSorts ==
  ASSUME NEW s, NEW phase, NEW batch, Sorted(s, phase, batch),
         NEW p \in Page, p \notin A!ToSet(s)
  PROVE  /\ Sorted(Append(s, p), phase, batch)
         /\ A!ToSet(Append(s, p)) = A!ToSet(s) \cup {p}
<1>1. s \in Seq(Element) /\ A!IsInjective(s) /\ p \in Element
  BY Marks DEF Sorted
<1> DEFINE u == <<p>>
           t == s \o u
<1>2. Append(s, p) = t
  BY <1>1, AppendIsConcat
<1>3. u \in Seq(Element) /\ A!ToSet(u) = {p} /\ A!IsInjective(u)
  BY <1>1, Alone
<1> HIDE DEF u
<1>4. /\ t \in Seq(Element) /\ A!ToSet(t) = A!ToSet(s) \cup A!ToSet(u)
      /\ A!IsInjective(t) <=> /\ A!IsInjective(s) /\ A!IsInjective(u)
                              /\ A!ToSet(s) \cap A!ToSet(u) = {}
      /\ \A x, y : Precedes(s, x, y) => Precedes(t, x, y)
  BY <1>1, <1>3, Joins
<1> HIDE DEF t
<1>5. A!IsInjective(t) /\ A!ToSet(t) = A!ToSet(s) \cup {p}
  BY <1>1, <1>3, <1>4
<1>6. Sorted(t, phase, batch)
  BY <1>4, <1>5, Marks DEF Sorted
<1> QED
  BY <1>2, <1>5, <1>6

(* A batch loses its first entry, which is not the second hand. *)
LEMMA TailSorts ==
  ASSUME NEW s, NEW phase, NEW batch \in Seq(Element), Sorted(s, phase, batch),
         batch # <<>>, Head(batch) # A!Hand1
  PROVE  Sorted(s, phase, Tail(batch))
<1>1. ASSUME A!Contains(batch, A!Hand1)
      PROVE  A!Contains(Tail(batch), A!Hand1)
  <2>1. PICK i \in 1..Len(batch) : batch[i] = A!Hand1
    BY <1>1 DEF A!Contains
  <2>2. Head(batch) = batch[1]
    OBVIOUS
  <2>3. i # 1
    BY <2>1, <2>2
  <2>4. /\ Len(batch) \in Nat /\ Len(Tail(batch)) = Len(batch) - 1
        /\ \A j \in 1..Len(Tail(batch)) : Tail(batch)[j] = batch[j + 1]
    BY HeadTailProperties, LenProperties
  <2> DEFINE j == i - 1
  <2>5. j \in 1..Len(Tail(batch)) /\ j + 1 = i
    BY <2>1, <2>3, <2>4
  <2> HIDE DEF j
  <2>6. Tail(batch)[j] = A!Hand1
    BY <2>1, <2>4, <2>5
  <2> QED
    BY <2>5, <2>6 DEF A!Contains
<1> QED
  BY <1>1 DEF Sorted

(* The scan ends: the first hand goes to the head, or to the marker. *)
LEMMA FinishSorts ==
  ASSUME NEW s, Sorted(s, "scan", <<>>), NEW b
  PROVE  LET off == A!Without(s, A!Hand0)
         IN  /\ Sorted(A!Without(<<A!Hand0>> \o off, A!Marker), "off", b)
             /\ A!ToSet(A!Without(<<A!Hand0>> \o off, A!Marker)) =
                  A!ToSet(s) \ {A!Marker}
             /\ Sorted(A!Without(A!Behind(off, A!Marker, A!Hand0), A!Marker), "off", b)
             /\ A!ToSet(A!Without(A!Behind(off, A!Marker, A!Hand0), A!Marker)) =
                  A!ToSet(s) \ {A!Marker}
<1>1. /\ s \in Seq(Element) /\ A!IsInjective(s) /\ A!Marker \in A!ToSet(s)
      /\ Precedes(s, A!Marker, A!Hand1)
  BY EmptyBatch DEF Sorted
<1>2. A!Hand0 \in A!ToSet(s) /\ A!Hand1 \in A!ToSet(s)
  BY HandsThere
<1> DEFINE off == A!Without(s, A!Hand0)
           h == <<A!Hand0>>
           t1 == h \o off
           t2 == A!Behind(off, A!Marker, A!Hand0)
           u1 == A!Without(t1, A!Marker)
           u2 == A!Without(t2, A!Marker)
<1>3. /\ off \in Seq(Element) /\ A!IsInjective(off)
      /\ A!ToSet(off) = A!ToSet(s) \ {A!Hand0}
      /\ A!Marker # A!Hand0 /\ A!Hand1 # A!Hand0 =>
           (Precedes(off, A!Marker, A!Hand1) <=> Precedes(s, A!Marker, A!Hand1))
  BY <1>1, <1>2, WithoutIs
<1> HIDE DEF off
<1>4. h \in Seq(Element) /\ A!ToSet(h) = {A!Hand0} /\ A!IsInjective(h)
  BY Marks, Alone
<1> HIDE DEF h
<1>5. /\ t1 \in Seq(Element) /\ A!ToSet(t1) = A!ToSet(h) \cup A!ToSet(off)
      /\ A!IsInjective(t1) <=> /\ A!IsInjective(h) /\ A!IsInjective(off)
                               /\ A!ToSet(h) \cap A!ToSet(off) = {}
      /\ A!Hand0 \in A!ToSet(h) /\ A!Hand1 \in A!ToSet(off) =>
           Precedes(t1, A!Hand0, A!Hand1)
  BY <1>3, <1>4, Joins
<1> HIDE DEF t1
<1>6. /\ A!IsInjective(t1) /\ A!ToSet(t1) = A!ToSet(s)
      /\ Precedes(t1, A!Hand0, A!Hand1)
  BY <1>2, <1>3, <1>4, <1>5, Marks
<1>7. /\ t2 \in Seq(Element) /\ A!IsInjective(t2)
      /\ A!ToSet(t2) = A!ToSet(off) \cup {A!Hand0}
      /\ Precedes(off, A!Marker, A!Hand1) => Precedes(t2, A!Hand0, A!Hand1)
  BY <1>1, <1>3, Marks, BehindIs
<1> HIDE DEF t2
<1>8. A!ToSet(t2) = A!ToSet(s) /\ Precedes(t2, A!Hand0, A!Hand1)
  BY <1>1, <1>2, <1>3, <1>7, Marks
<1>9. /\ u1 \in Seq(Element) /\ A!IsInjective(u1)
      /\ A!ToSet(u1) = A!ToSet(t1) \ {A!Marker}
      /\ A!Hand0 # A!Marker /\ A!Hand1 # A!Marker =>
           (Precedes(u1, A!Hand0, A!Hand1) <=> Precedes(t1, A!Hand0, A!Hand1))
  BY <1>1, <1>5, <1>6, WithoutIs
<1>10. /\ u2 \in Seq(Element) /\ A!IsInjective(u2)
       /\ A!ToSet(u2) = A!ToSet(t2) \ {A!Marker}
       /\ A!Hand0 # A!Marker /\ A!Hand1 # A!Marker =>
            (Precedes(u2, A!Hand0, A!Hand1) <=> Precedes(t2, A!Hand0, A!Hand1))
  BY <1>1, <1>7, <1>8, WithoutIs
<1> HIDE DEF u1, u2
<1>11. Sorted(u1, "off", b) /\ A!ToSet(u1) = A!ToSet(s) \ {A!Marker}
  BY <1>6, <1>9, Marks DEF Sorted
<1>12. Sorted(u2, "off", b) /\ A!ToSet(u2) = A!ToSet(s) \ {A!Marker}
  BY <1>8, <1>10, Marks DEF Sorted
<1> QED
  BY <1>11, <1>12 DEF u1, u2, t1, t2, h, off

ScanRecord == [at : {"off", "scan"}, batch : Seq(Element), max : Int, scanned : Int,
               subtract : BOOLEAN, random : BOOLEAN]

ScanInv ==
  /\ scan \in ScanRecord
  /\ Sorted(list, scan.at, scan.batch)
  /\ act \in [Page -> 0..ActMax]
  /\ refs \subseteq A!Active

LEMMA Smallest ==
  ASSUME NEW a \in Int, NEW b \in Int, NEW c \in Int
  PROVE  /\ A!Min({a, b, c}) \in {a, b, c}
         /\ A!Min({a, b, c}) <= a
<1>1. \E x \in {a, b, c} : \A y \in {a, b, c} : x <= y
  <2>1. CASE a <= b /\ a <= c
    BY <2>1
  <2>2. CASE b <= a /\ b <= c
    BY <2>2
  <2>3. CASE c <= a /\ c <= b
    BY <2>3
  <2> QED
    BY <2>1, <2>2, <2>3
<1> DEFINE x == A!Min({a, b, c})
<1>2. x \in {a, b, c} /\ \A y \in {a, b, c} : x <= y
  BY <1>1 DEF A!Min
<1> QED
  BY <1>2

(* A batch is what follows the marker, as far as it goes. *)
LEMMA BatchIs ==
  ASSUME ScanInv, scan.at = "scan", A!Collected # <<>>
  PROVE  \E l, r, b, q \in Seq(Element) :
           /\ Splits(list, A!Marker, l, r) /\ r = b \o q /\ b = A!Collected /\ b # <<>>
<1>1. list \in Seq(Element) /\ A!Marker \in A!ToSet(list)
  BY DEF ScanInv, Sorted
<1>2. PICK l \in Seq(Element), r \in Seq(Element) : Splits(list, A!Marker, l, r)
  BY <1>1, Around
<1>3. A!Ahead = r
  BY <1>2 DEF A!Ahead, A!Rank, Splits
<1>4. Len(r) \in Nat
  BY LenProperties
<1>5. BatchSize \in Nat
  BY ClockAssumption DEF A!ScanAssumption
<1>6. A!Left \in Int
  BY DEF ScanInv, ScanRecord, A!Left
<1> DEFINE c == IF A!Left > 0 THEN A!Left ELSE 0
           n == A!Min({Len(r), BatchSize, c})
<1>7. c \in Nat
  BY <1>6
<1> HIDE DEF c
<1>8. n \in Nat /\ n <= Len(r)
  <2>1. Len(r) \in Int /\ BatchSize \in Int /\ c \in Int
    BY <1>4, <1>5, <1>7
  <2>2. n \in {Len(r), BatchSize, c} /\ n <= Len(r)
    BY <2>1, Smallest
  <2> HIDE DEF n
  <2> QED
    BY <1>4, <1>5, <1>7, <2>2
<1>9. A!Collected = SubSeq(r, 1, n)
  BY <1>3 DEF A!Collected, c
<1> HIDE DEF n
<1> DEFINE q == SubSeq(r, n + 1, Len(r))
<1>10. r = SubSeq(r, 1, n) \o q
  <2>1. 1 \in 1..(Len(r) + 1) /\ n \in (1 - 1)..Len(r) /\ Len(r) \in n..Len(r)
    BY <1>4, <1>8
  <2>2. SubSeq(r, 1, n) \o SubSeq(r, n + 1, Len(r)) = SubSeq(r, 1, Len(r))
    BY <2>1, ConcatAdjacentSubSeq
  <2> QED
    BY <2>2, SubSeqFull
<1>11. SubSeq(r, 1, n) \in Seq(Element)
  <2>1. \A i \in 1..n : r[i] \in Element
    BY <1>4, <1>8, ElementOfSeq
  <2> QED
    BY <1>8, <2>1, SubSeqProperties
<1>12. q \in Seq(Element)
  <2> DEFINE j == n + 1
  <2>1. j \in Int /\ \A i \in j..Len(r) : r[i] \in Element
    BY <1>4, <1>8, ElementOfSeq
  <2> HIDE DEF j
  <2>2. SubSeq(r, j, Len(r)) \in Seq(Element)
    BY <1>4, <2>1, SubSeqProperties
  <2> QED
    BY <2>2 DEF j
<1> QED
  BY <1>2, <1>9, <1>10, <1>11, <1>12

(* A batch is collected, and the marker goes behind its last entry. *)
LEMMA CollectSorts ==
  ASSUME ScanInv, A!Collect
  PROVE  /\ Sorted(list', "scan", A!Collected) /\ A!Collected \in Seq(Element)
         /\ A!ToSet(list') = A!ToSet(list)
<1>1. /\ scan.at = "scan" /\ scan.batch = <<>> /\ A!Collected # <<>>
      /\ list' = A!Behind(A!Without(list, A!Marker), A!Last(A!Collected), A!Marker)
  BY DEF A!Collect
<1>2. PICK l \in Seq(Element), r \in Seq(Element), b \in Seq(Element), q \in Seq(Element) :
        /\ Splits(list, A!Marker, l, r) /\ r = b \o q /\ b = A!Collected /\ b # <<>>
  BY <1>1, BatchIs
<1>3. /\ list \in Seq(Element) /\ A!IsInjective(list) /\ A!Marker \in A!ToSet(list)
      /\ Precedes(list, A!Hand0, A!Hand1) /\ Precedes(list, A!Hand0, A!Marker)
      /\ Precedes(list, A!Marker, A!Hand1)
  BY <1>1, EmptyBatch DEF ScanInv, Sorted
<1> DEFINE z == A!Last(b)
           u == <<A!Marker>>
           lu == l \o u
           off == A!Without(list, A!Marker)
           t == A!Behind(off, z, A!Marker)
<1>4. z \in A!ToSet(b)
  <2>1. Len(b) \in 1..Len(b) /\ DOMAIN b = 1..Len(b)
    BY <1>2, EmptySeq, LenProperties
  <2> QED
    BY <2>1 DEF A!Last, A!ToSet
<1> HIDE DEF z
<1>5. u \in Seq(Element) /\ A!ToSet(u) = {A!Marker} /\ \A x, y : ~ Precedes(u, x, y)
  BY Marks, Alone
<1>6. list = lu \o r
  BY <1>2 DEF Splits
<1> HIDE DEF u
<1>7. /\ lu \in Seq(Element) /\ A!ToSet(lu) = A!ToSet(l) \cup A!ToSet(u)
      /\ A!IsInjective(lu) => A!ToSet(l) \cap A!ToSet(u) = {}
      /\ \A x, y : Precedes(lu, x, y) <=>
           \/ Precedes(l, x, y) \/ Precedes(u, x, y)
           \/ x \in A!ToSet(l) /\ y \in A!ToSet(u)
  BY <1>5, Joins
<1> HIDE DEF lu
<1>8. /\ A!ToSet(list) = A!ToSet(lu) \cup A!ToSet(r)
      /\ A!IsInjective(lu) /\ A!IsInjective(r) /\ A!ToSet(lu) \cap A!ToSet(r) = {}
      /\ \A x, y : Precedes(list, x, y) <=>
           \/ Precedes(lu, x, y) \/ Precedes(r, x, y)
           \/ x \in A!ToSet(lu) /\ y \in A!ToSet(r)
  BY <1>3, <1>6, <1>7, Joins
<1>9. /\ A!ToSet(r) = A!ToSet(b) \cup A!ToSet(q)
      /\ \A x, y : x \in A!ToSet(b) /\ y \in A!ToSet(q) => Precedes(r, x, y)
  BY <1>2, Joins
<1>10. /\ off \in Seq(Element) /\ A!IsInjective(off)
       /\ A!ToSet(off) = A!ToSet(list) \ {A!Marker}
       /\ \A x, y : x # A!Marker /\ y # A!Marker =>
            (Precedes(off, x, y) <=> Precedes(list, x, y))
  BY <1>3, WithoutIs
<1> HIDE DEF off
<1>11. /\ z \in A!ToSet(r) /\ z \in A!ToSet(list) /\ z # A!Marker
       /\ Precedes(list, A!Marker, z)
  BY <1>4, <1>5, <1>7, <1>8, <1>9
<1>12. /\ t \in Seq(Element) /\ A!IsInjective(t)
       /\ A!ToSet(t) = A!ToSet(off) \cup {A!Marker}
       /\ Precedes(off, A!Hand0, A!Hand1) => Precedes(t, A!Hand0, A!Hand1)
       /\ Precedes(off, A!Hand0, z) => Precedes(t, A!Hand0, A!Marker)
       /\ Precedes(off, z, A!Hand1) => Precedes(t, A!Marker, A!Hand1)
  BY <1>10, <1>11, Marks, BehindIs
<1> HIDE DEF t
<1>13. Precedes(list, A!Hand0, z)
  BY <1>3, <1>11, Orders
<1>14. Precedes(t, A!Hand0, A!Hand1) /\ Precedes(t, A!Hand0, A!Marker)
  BY <1>3, <1>10, <1>11, <1>12, <1>13, Marks
<1>15. A!ToSet(t) = A!ToSet(list)
  BY <1>3, <1>10, <1>12
<1>16. Precedes(t, A!Marker, A!Hand1) \/ A!Contains(b, A!Hand1)
  <2>1. A!Hand1 \in A!ToSet(r)
    <3>1. ~ Precedes(l, A!Marker, A!Hand1) /\ A!Hand1 # A!Marker
      <4>1. A!Marker \notin A!ToSet(l)
        BY <1>5, <1>7, <1>8
      <4> QED
        BY <4>1, Marks DEF Precedes, A!ToSet
    <3>2. ~ Precedes(lu, A!Marker, A!Hand1)
      BY <1>5, <1>7, <3>1
    <3> QED
      BY <1>2, <1>3, <1>8, <3>2, Orders
  <2>2. CASE A!Hand1 \in A!ToSet(b)
    <3>1. DOMAIN b = 1..Len(b)
      BY LenProperties
    <3> QED
      BY <2>2, <3>1 DEF A!ToSet, A!Contains
  <2>3. CASE A!Hand1 \notin A!ToSet(b)
    <3>1. Precedes(list, z, A!Hand1)
      BY <1>4, <1>8, <1>9, <2>1, <2>3
    <3> QED
      BY <1>10, <1>11, <1>12, <3>1, Marks
  <2> QED
    BY <2>2, <2>3
<1>17. Sorted(t, "scan", b)
  BY <1>3, <1>12, <1>14, <1>15, <1>16 DEF Sorted
<1>18. list' = t
  BY <1>1, <1>2 DEF t, off, z
<1> QED
  BY <1>2, <1>15, <1>17, <1>18

(* What an action makes of the record of the scan. *)
LEMMA Updates ==
  ASSUME NEW s \in ScanRecord, NEW b \in Seq(Element), NEW n \in Int, NEW m \in Int,
         NEW u \in BOOLEAN, NEW v \in BOOLEAN
  PROVE  /\ [s EXCEPT !.batch = b, !.scanned = n] \in ScanRecord
         /\ [s EXCEPT !.batch = b, !.max = m, !.scanned = n] \in ScanRecord
         /\ [s EXCEPT !.batch = b] \in ScanRecord
         /\ [s EXCEPT !.batch = b, !.subtract = u, !.random = v] \in ScanRecord
BY DEF ScanRecord

LEMMA NoScanIs ==
  /\ A!NoScan \in ScanRecord /\ A!NoScan.at = "off" /\ A!NoScan.batch = <<>>
  /\ \A m \in Int : [A!NoScan EXCEPT !.at = "scan", !.max = m] \in ScanRecord
<1>1. <<>> \in Seq(Element) /\ FALSE \in BOOLEAN
  BY EmptySeq
<1>2. A!NoScan \in ScanRecord
  BY <1>1 DEF A!NoScan, ScanRecord
<1>3. A!NoScan.at = "off" /\ A!NoScan.batch = <<>>
  BY DEF A!NoScan
<1>4. ASSUME NEW m \in Int
      PROVE  [A!NoScan EXCEPT !.at = "scan", !.max = m] \in ScanRecord
  BY <1>2 DEF ScanRecord
<1> QED
  BY <1>2, <1>3, <1>4

(* A referenced page gains, any other loses half, and each loses one. *)
LEMMA AgedIs ==
  ASSUME ScanInv, NEW p \in Page
  PROVE  A!Aged(p).count \in 0..ActMax /\ A!Aged(p).subtracted \in BOOLEAN
<1>1. act[p] \in 0..ActMax /\ ActMax \in Nat /\ Advance \in Nat
  BY ClockAssumption DEF ScanInv, A!ScanAssumption
<1>2. A!Min({act[p] + Advance, ActMax}) \in 0..ActMax
  <2> DEFINE a == act[p] + Advance
             x == A!Min({a, ActMax})
  <2>1. a \in Nat
    BY <1>1
  <2> HIDE DEF a
  <2>2. \E y \in {a, ActMax} : \A z \in {a, ActMax} : y <= z
    BY <1>1, <2>1
  <2>3. x \in {a, ActMax} /\ \A z \in {a, ActMax} : x <= z
    BY <2>2 DEF A!Min
  <2> HIDE DEF x
  <2>4. x \in 0..ActMax
    BY <1>1, <2>1, <2>3
  <2> QED
    BY <2>4 DEF x, a
<1>3. A!Halved(p) \in 0..ActMax
  BY <1>1 DEF A!Halved
<1> DEFINE n == IF p \in refs THEN A!Min({act[p] + Advance, ActMax}) ELSE A!Halved(p)
<1>4. n \in 0..ActMax
  BY <1>2, <1>3
<1>5. A!Aged(p) = [count |-> IF n > 0 THEN n - 1 ELSE 0, subtracted |-> n > 0]
  BY DEF A!Aged
<1> HIDE DEF n
<1>6. (IF n > 0 THEN n - 1 ELSE 0) \in 0..ActMax
  BY <1>1, <1>4
<1>7. (n > 0) \in BOOLEAN
  OBVIOUS
<1> QED
  BY <1>5, <1>6, <1>7

LEMMA LeaveKeeps ==
  ASSUME ScanInv, NEW p \in A!Active, A!Leave(p)
  PROVE  /\ Sorted(list', scan.at, scan.batch)
         /\ act' \in [Page -> 0..ActMax]
         /\ refs' \subseteq A!ToSet(list') \cap Page
<1>1. p \in A!ToSet(list) \cap Page
  BY DEF A!Active
<1>2. Sorted(A!Without(list, p), scan.at, scan.batch)
  BY <1>1, LeaveSorts DEF ScanInv
<1>3. A!ToSet(A!Without(list, p)) = A!ToSet(list) \ {p}
  BY <1>1, LeaveSorts DEF ScanInv
<1>4. 0 \in 0..ActMax
  BY ClockAssumption DEF A!ScanAssumption
<1>5. list' = A!Without(list, p) /\ refs' = refs \ {p} /\ act' = [act EXCEPT ![p] = 0]
  BY DEF A!Leave
<1>6. act' \in [Page -> 0..ActMax]
  BY <1>1, <1>4, <1>5 DEF ScanInv
<1> QED
  BY <1>2, <1>3, <1>5, <1>6 DEF ScanInv, A!Active

(* The actions of the scan, and those of others. *)
LEMMA StartKeeps ==
  ASSUME ScanInv, A!Start
  PROVE  ScanInv'
<1>1. /\ scan.at = "off" /\ list' = A!Behind(list, A!Hand0, A!Marker)
      /\ act' = act /\ refs' = refs
  BY DEF A!Start
<1>2. PICK m \in IF short THEN {Len(list) - 2} ELSE 0..Idle :
        scan' = [A!NoScan EXCEPT !.at = "scan", !.max = m]
  BY DEF A!Start
<1>3. Sorted(list, "off", scan.batch) /\ list \in Seq(Element) /\ A!IsInjective(list)
  BY <1>1 DEF ScanInv, Sorted
<1>4. m \in Int
  <2>1. Len(list) \in Nat
    BY <1>3, LenProperties
  <2>2. Len(list) - 2 \in Int /\ 0..Idle \subseteq Int
    BY <2>1
  <2> QED
    BY <1>2, <2>2
<1>5. scan' \in ScanRecord /\ scan'.at = "scan" /\ scan'.batch = <<>>
  BY <1>2, <1>4, NoScanIs DEF A!NoScan
<1>6. Sorted(list', "scan", <<>>)
  BY <1>1, <1>3, StartSorts
<1>7. A!ToSet(list') = A!ToSet(list) \cup {A!Marker}
  <2>1. A!Hand0 \in A!ToSet(list) /\ A!Marker \notin A!ToSet(list)
    BY <1>3, HandsThere DEF Sorted
  <2> QED
    BY <1>1, <1>3, <2>1, Marks, BehindIs
<1> QED
  BY <1>1, <1>5, <1>6, <1>7 DEF ScanInv, A!Active

LEMMA CollectKeeps ==
  ASSUME ScanInv, A!Collect
  PROVE  ScanInv'
<1>1. /\ scan.at = "scan" /\ act' = act /\ refs' = refs
      /\ scan' = [scan EXCEPT !.batch = A!Collected,
                              !.scanned = @ + Len(A!Collected)]
  BY DEF A!Collect
<1>2. /\ Sorted(list', "scan", A!Collected) /\ A!Collected \in Seq(Element)
      /\ A!ToSet(list') = A!ToSet(list)
  BY CollectSorts
<1> DEFINE b == A!Collected
           n == scan.scanned + Len(b)
<1> HIDE DEF b
<1>3. n \in Int
  <2>1. Len(b) \in Nat
    BY <1>2, LenProperties DEF b
  <2> QED
    BY <2>1 DEF ScanInv, ScanRecord
<1>4. scan' = [scan EXCEPT !.batch = b, !.scanned = n]
  BY <1>1 DEF b
<1> HIDE DEF n
<1>5. scan' \in ScanRecord
  BY <1>2, <1>3, <1>4, Updates DEF ScanInv, b
<1>6. scan'.at = "scan" /\ scan'.batch = b
  BY <1>1, <1>4 DEF ScanInv, ScanRecord
<1> QED
  BY <1>1, <1>2, <1>5, <1>6 DEF ScanInv, A!Active, b

LEMMA MeetKeeps ==
  ASSUME ScanInv, A!Meet
  PROVE  ScanInv'
<1> DEFINE rest == A!Without(A!Without(A!Without(list, A!Hand0), A!Hand1), A!Marker)
           t == (<<A!Hand0, A!Marker>> \o rest) \o <<A!Hand1>>
<1>1. /\ scan.at = "scan" /\ act' = act /\ refs' = refs /\ list' = t
      /\ scan' = [scan EXCEPT !.batch = <<>>, !.max = A!Left, !.scanned = 0]
  BY DEF A!Meet
<1>2. Sorted(t, "scan", <<>>)
  BY <1>1, MeetSorts DEF ScanInv
<1>3. A!ToSet(t) = A!ToSet(list)
  BY <1>1, MeetSorts DEF ScanInv
<1> HIDE DEF t
<1>4. A!Left \in Int /\ <<>> \in Seq(Element) /\ 0 \in Int
  BY EmptySeq DEF ScanInv, ScanRecord, A!Left
<1>5. scan' \in ScanRecord
  BY <1>1, <1>4, Updates DEF ScanInv
<1>6. scan'.at = "scan" /\ scan'.batch = <<>>
  BY <1>1 DEF ScanInv, ScanRecord
<1> QED
  BY <1>1, <1>2, <1>3, <1>5, <1>6 DEF ScanInv, A!Active

LEMMA VisitKeeps ==
  ASSUME ScanInv, A!Visit
  PROVE  ScanInv'
<1> DEFINE p == Head(scan.batch)
           b == Tail(scan.batch)
<1>1. scan.at = "scan" /\ scan.batch # <<>> /\ p # A!Hand1
  BY DEF A!Visit
<1>2. scan.batch \in Seq(Element) /\ scan.subtract \in BOOLEAN /\ scan.random \in BOOLEAN
  BY DEF ScanInv, ScanRecord
<1>3. b \in Seq(Element)
  BY <1>1, <1>2, HeadTailProperties
<1>4. \A s : Sorted(s, "scan", scan.batch) => Sorted(s, "scan", b)
  BY <1>1, <1>2, TailSorts
<1>5. \/ /\ p \notin A!Active /\ scan' = [scan EXCEPT !.batch = b]
         /\ UNCHANGED <<list, act, refs>>
      \/ p \in A!Active /\ scan' = [scan EXCEPT !.batch = b] /\ A!Leave(p)
      \/ /\ p \in A!Active
         /\ \/ A!Leave(p)
            \/ /\ act' = [act EXCEPT ![p] = A!Aged(p).count]
               /\ refs' = refs \ {p} /\ list' = list
         /\ \E u, v \in BOOLEAN :
              scan' = [scan EXCEPT !.batch = b, !.subtract = u, !.random = v]
  <2>1. CASE p \notin A!Active
    BY <2>1 DEF A!Visit
  <2>2. CASE p \in A!Active
    <3>1. p \in Page
      BY <2>2 DEF A!Active
    <3>2. A!Aged(p).subtracted \in BOOLEAN
      BY <3>1, AgedIs
    <3>3. CASE scan' = [scan EXCEPT !.batch = b] /\ A!Leave(p)
      BY <2>2, <3>3
    <3>4. CASE ~ (scan' = [scan EXCEPT !.batch = b] /\ A!Leave(p))
      <4>1. /\ IF A!Aged(p).count = 0 THEN A!Leave(p)
                ELSE /\ act' = [act EXCEPT ![p] = A!Aged(p).count]
                     /\ refs' = refs \ {p}
                     /\ UNCHANGED list
            /\ \E high \in BOOLEAN :
                 scan' = [scan EXCEPT !.batch = b,
                                      !.subtract = @ \/ A!Aged(p).subtracted,
                                      !.random = IF A!Aged(p).count = 0 THEN high
                                                 ELSE @]
        BY <2>2, <3>4 DEF A!Visit
      <4>2. PICK high \in BOOLEAN :
              scan' = [scan EXCEPT !.batch = b,
                                   !.subtract = @ \/ A!Aged(p).subtracted,
                                   !.random = IF A!Aged(p).count = 0 THEN high ELSE @]
        BY <4>1
      <4> DEFINE u == scan.subtract \/ A!Aged(p).subtracted
                 v == IF A!Aged(p).count = 0 THEN high ELSE scan.random
      <4>3. u \in BOOLEAN /\ v \in BOOLEAN
        BY <1>2
      <4>4. scan' = [scan EXCEPT !.batch = b, !.subtract = u, !.random = v]
        BY <4>2
      <4> HIDE DEF u, v
      <4> QED
        BY <2>2, <4>1, <4>3, <4>4
    <3> QED
      BY <3>3, <3>4
  <2> QED
    BY <2>1, <2>2
<1>6. scan' \in ScanRecord /\ scan'.at = "scan" /\ scan'.batch = b
  <2>1. CASE scan' = [scan EXCEPT !.batch = b]
    BY <1>1, <1>3, <2>1 DEF ScanInv, ScanRecord
  <2>2. ASSUME NEW u \in BOOLEAN, NEW v \in BOOLEAN,
               scan' = [scan EXCEPT !.batch = b, !.subtract = u, !.random = v]
        PROVE  scan' \in ScanRecord /\ scan'.at = "scan" /\ scan'.batch = b
    BY <1>1, <1>3, <2>2 DEF ScanInv, ScanRecord
  <2> QED
    BY <1>5, <2>1, <2>2
<1>7. /\ Sorted(list', "scan", scan.batch)
      /\ act' \in [Page -> 0..ActMax]
      /\ refs' \subseteq A!ToSet(list') \cap Page
  <2>1. CASE UNCHANGED <<list, act, refs>>
    BY <1>1, <2>1 DEF ScanInv, A!Active
  <2>2. CASE p \in A!Active /\ A!Leave(p)
    BY <1>1, <2>2, LeaveKeeps
  <2>3. CASE /\ p \in A!Active
             /\ act' = [act EXCEPT ![p] = A!Aged(p).count]
             /\ refs' = refs \ {p} /\ list' = list
    <3>1. A!Aged(p).count \in 0..ActMax
      BY <2>3, AgedIs DEF A!Active
    <3> QED
      BY <1>1, <2>3, <3>1 DEF ScanInv, A!Active
  <2> QED
    BY <1>5, <2>1, <2>2, <2>3
<1> QED
  BY <1>4, <1>6, <1>7 DEF ScanInv, A!Active

LEMMA FinishKeeps ==
  ASSUME ScanInv, A!Finish
  PROVE  ScanInv'
<1> DEFINE off == A!Without(list, A!Hand0)
           t1 == A!Without(<<A!Hand0>> \o off, A!Marker)
           t2 == A!Without(A!Behind(off, A!Marker, A!Hand0), A!Marker)
<1>1. /\ scan.at = "scan" /\ scan.batch = <<>> /\ act' = act /\ refs' = refs
      /\ scan' = A!NoScan
  BY DEF A!Finish
<1>2. list' = t1 \/ list' = t2
  BY DEF A!Finish
<1>3. Sorted(list, "scan", <<>>)
  BY <1>1 DEF ScanInv
<1>4. /\ Sorted(t1, "off", <<>>) /\ A!ToSet(t1) = A!ToSet(list) \ {A!Marker}
      /\ Sorted(t2, "off", <<>>) /\ A!ToSet(t2) = A!ToSet(list) \ {A!Marker}
  BY <1>3, FinishSorts
<1> HIDE DEF t1, t2
<1>5. Sorted(list', "off", <<>>) /\ A!ToSet(list') = A!ToSet(list) \ {A!Marker}
  BY <1>2, <1>4
<1> QED
  BY <1>1, <1>5, NoScanIs, Marks DEF ScanInv, A!Active

LEMMA ActivateKeeps ==
  ASSUME ScanInv, NEW p \in Page, A!Activate(p)
  PROVE  ScanInv'
<1>1. scan' = scan
  BY DEF A!Activate
<1>2. /\ ActMax \in Nat /\ ActInit \in Nat /\ Random \in 0..ActMax
  BY ClockAssumption DEF A!ScanAssumption
<1>3. CASE p \in A!Active
  <2>1. PICK n \in 0..Random : act' = [act EXCEPT ![p] = n]
    BY <1>3 DEF A!Activate
  <2>2. n \in 0..ActMax
    BY <1>2
  <2>3. list' = list /\ refs' = refs
    BY <1>3 DEF A!Activate
  <2> QED
    BY <1>1, <2>1, <2>2, <2>3 DEF ScanInv, A!Active
<1>4. CASE p \notin A!Active
  <2>1. PICK n \in ActInit..(ActMax - 1) : act' = [act EXCEPT ![p] = n]
    BY <1>4 DEF A!Activate
  <2>2. n \in 0..ActMax
    BY <1>2
  <2>3. list' = Append(list, p) /\ (refs' = refs \/ refs' = refs \cup {p})
    BY <1>4 DEF A!Activate
  <2>4. p \notin A!ToSet(list)
    BY <1>4 DEF A!Active
  <2>5. /\ Sorted(Append(list, p), scan.at, scan.batch)
        /\ A!ToSet(Append(list, p)) = A!ToSet(list) \cup {p}
    BY <2>4, ActivateSorts DEF ScanInv
  <2>6. act' \in [Page -> 0..ActMax]
    BY <2>1, <2>2 DEF ScanInv
  <2> QED
    BY <1>1, <2>3, <2>5, <2>6 DEF ScanInv, A!Active
<1> QED
  BY <1>3, <1>4

LEMMA ScanNextKeeps == ScanInv /\ [A!Next]_(A!vars) => ScanInv'
<1> SUFFICES ASSUME ScanInv, [A!Next]_(A!vars)
             PROVE  ScanInv'
  OBVIOUS
<1>1. CASE A!Daemon
  BY <1>1, StartKeeps, CollectKeeps, MeetKeeps, VisitKeeps, FinishKeeps DEF A!Daemon
<1>2. ASSUME NEW p \in Page, A!Activate(p)
      PROVE  ScanInv'
  BY <1>2, ActivateKeeps
<1>3. ASSUME NEW p \in Page, A!Take(p)
      PROVE  ScanInv'
  <2>1. p \in A!Active /\ A!Leave(p) /\ scan' = scan
    BY <1>3 DEF A!Take
  <2> QED
    BY <2>1, LeaveKeeps DEF ScanInv, A!Active
<1>4. ASSUME NEW p \in Page, A!Reference(p)
      PROVE  ScanInv'
  BY <1>4 DEF A!Reference, ScanInv, A!Active
<1>5. CASE A!Shortage \/ A!Calm \/ UNCHANGED A!vars
  BY <1>5 DEF A!Shortage, A!Calm, A!vars, ScanInv, A!Active
<1> QED
  BY <1>1, <1>2, <1>3, <1>4, <1>5 DEF A!Next

(* Places tell the order, and there are as many as elements. *)
LEMMA PlaceIs ==
  ASSUME NEW S, NEW s \in Seq(S), A!IsInjective(s), NEW x, NEW y, Precedes(s, x, y)
  PROVE  A!Place(s, x) < A!Place(s, y)
<1>1. PICK i \in DOMAIN s, j \in DOMAIN s : i < j /\ s[i] = x /\ s[j] = y
  BY DEF Precedes
<1>2. \A k, l \in DOMAIN s : s[k] = s[l] => k = l
  BY DEF A!IsInjective
<1>3. A!Place(s, x) = i
  BY <1>1, <1>2 DEF A!Place
<1>4. A!Place(s, y) = j
  BY <1>1, <1>2 DEF A!Place
<1> QED
  BY <1>1, <1>3, <1>4

LEMMA LengthIs ==
  ASSUME NEW S, NEW s \in Seq(S), A!IsInjective(s)
  PROVE  Len(s) = A!Cardinality(A!ToSet(s))
<1>1. Len(s) \in Nat /\ s \in [1..Len(s) -> S] /\ DOMAIN s = 1..Len(s)
  BY LenProperties
<1>2. s \in [1..Len(s) -> A!ToSet(s)]
  BY <1>1 DEF A!ToSet
<1>3. \A k, l \in 1..Len(s) : s[k] = s[l] => k = l
  BY <1>1 DEF A!IsInjective
<1>4. \A e \in A!ToSet(s) : \E k \in 1..Len(s) : s[k] = e
  BY <1>1 DEF A!ToSet
<1>5. s \in Bijection(1..Len(s), A!ToSet(s))
  BY <1>2, <1>3, <1>4, Fun_IsBij
<1>6. ExistsBijection(1..Len(s), A!ToSet(s))
  BY <1>5 DEF ExistsBijection
<1>7. Cardinality(A!ToSet(s)) = Len(s)
  BY <1>1, <1>6, FS_CountingElements
<1>8. A!Cardinality(A!ToSet(s)) = Cardinality(A!ToSet(s))
  BY DEF A!Cardinality, Cardinality
<1> QED
  BY <1>7, <1>8

LEMMA ScanSound == ScanInv => A!TypeOK /\ A!HandsOrdered
<1> SUFFICES ASSUME ScanInv
             PROVE  A!TypeOK /\ A!HandsOrdered
  OBVIOUS
<1>1. list \in Seq(Element) /\ A!IsInjective(list) /\ scan.at \in {"off", "scan"}
  BY DEF ScanInv, Sorted, ScanRecord
<1>2. A!TypeOK
  BY <1>1, LengthIs DEF ScanInv, A!TypeOK
<1>3. \A x, y : Precedes(list, x, y) => A!Rank(x) < A!Rank(y)
  BY <1>1, PlaceIs DEF A!Rank
<1>4. A!HandsOrdered
  <2>1. A!Hand0 \in A!ToSet(list) /\ A!Hand1 \in A!ToSet(list)
    BY HandsThere DEF ScanInv
  <2>2. /\ Precedes(list, A!Hand0, A!Hand1)
        /\ A!Marker \in A!ToSet(list) <=> scan.at = "scan"
        /\ scan.at = "scan" =>
             /\ Precedes(list, A!Hand0, A!Marker)
             /\ Precedes(list, A!Marker, A!Hand1) \/ A!Contains(scan.batch, A!Hand1)
    BY DEF ScanInv, Sorted
  <2> QED
    BY <1>3, <2>1, <2>2 DEF A!HandsOrdered
<1> QED
  BY <1>2, <1>4

LEMMA ScanKept == ProgressSpec => []ScanInv
<1>1. ProgressInit => ScanInv
  <2> SUFFICES ASSUME A!Init
               PROVE  ScanInv
    BY DEF ProgressInit
  <2>1. /\ list = <<A!Hand0, A!Hand1>> /\ act = [p \in Page |-> 0] /\ refs = {}
        /\ scan = A!NoScan
    BY DEF A!Init
  <2> DEFINE u == <<A!Hand0>>
             v == <<A!Hand1>>
  <2>2. /\ u \in Seq(Element) /\ A!ToSet(u) = {A!Hand0} /\ A!IsInjective(u)
        /\ v \in Seq(Element) /\ A!ToSet(v) = {A!Hand1} /\ A!IsInjective(v)
    BY Marks, Alone
  <2>3. list = u \o v
    BY <2>1, Two
  <2> HIDE DEF u, v
  <2>4. /\ u \o v \in Seq(Element) /\ A!ToSet(u \o v) = A!ToSet(u) \cup A!ToSet(v)
        /\ A!IsInjective(u \o v) <=> /\ A!IsInjective(u) /\ A!IsInjective(v)
                                     /\ A!ToSet(u) \cap A!ToSet(v) = {}
        /\ A!Hand0 \in A!ToSet(u) /\ A!Hand1 \in A!ToSet(v) =>
             Precedes(u \o v, A!Hand0, A!Hand1)
    BY <2>2, Joins
  <2>5. Sorted(list, scan.at, scan.batch)
    <3>1. scan.at # "scan"
      BY <2>1, NoScanIs
    <3>2. /\ list \in Seq(Element) /\ A!IsInjective(list)
          /\ Precedes(list, A!Hand0, A!Hand1)
          /\ A!Marker \notin A!ToSet(list)
      BY <2>2, <2>3, <2>4, Marks
    <3> QED
      BY <3>1, <3>2 DEF Sorted
  <2>6. act \in [Page -> 0..ActMax]
    BY <2>1, ClockAssumption DEF A!ScanAssumption
  <2> QED
    BY <2>1, <2>5, <2>6, NoScanIs DEF ScanInv
<1>2. ScanInv /\ [ProgressNext]_all => ScanInv'
  <2> SUFFICES ASSUME ScanInv, [ProgressNext]_all
               PROVE  ScanInv'
    OBVIOUS
  <2>1. [A!Next]_(A!vars)
    <3>1. CASE OfScan(A!Next)
      BY <3>1 DEF OfScan
    <3>2. CASE ~ OfScan(A!Next)
      <4>1. UNCHANGED active
        BY <3>2 DEF ProgressNext, OfBusy, OfIdle, OfLaundry, all
      <4> QED
        BY <4>1 DEF active, A!vars
    <3> QED
      BY <3>1, <3>2
  <2> QED
    BY <2>1, ScanNextKeeps
<1> QED
  BY <1>1, <1>2, PTL DEF ProgressSpec

(* The laundry thread never sleeps on a request, and the first hand of the *)
(* clock stays before the second, with the marker of a scan behind the     *)
(* first and, unless the second is in the batch, before it: whatever the   *)
(* batches hold, whatever others do to the list between them and however   *)
(* many pages there are (vm_pageout_scan_active).                          *)
THEOREM DaemonsAreSound == ProgressSpec => []DaemonsSound
<1>1. ScanInv /\ L!TypeOK /\ L!NoRequestSleptThrough => DaemonsSound
  BY ScanSound DEF DaemonsSound
<1> QED
  BY <1>1, ScanKept, RequestsAreSeen, PTL
=============================================================================
