--------------------------- MODULE PageBusyProofs ---------------------------
(***************************************************************************)
(* The busy word of a page counts its holders and announces its sleepers,  *)
(* and the protocol of loads and compare-and-sets is a lock, for every     *)
(* number of threads.                                                      *)
(***************************************************************************)
EXTENDS PageBusy, FiniteSetTheorems, TLAPS

(* Who sleeps waits for a holder: the bit is set on a busy word only.      *)
WaitersBusy == word.waiters => word.exclusive \/ word.sharers > 0

(* What a thread knows where it stands: what it saw of the word, and       *)
(* whether it has the page lock.                                           *)
Knows(t) ==
  LET r == proc[t] IN
  /\ r.at = "join" => ~ r.seen.exclusive
  /\ r.at = "mark" => r.seen.exclusive \/ r.seen.sharers > 0
  /\ r.at = "drop" => r.seen.sharers > 1 \/ ~ r.seen.waiters
  /\ r.at \in {"sunlock", "sunhard"} => r.seen.sharers <= 1 /\ r.seen.waiters
  /\ r.at \in {"downlock", "downset"} => r.seen \in {Exclusive, Flagged(Exclusive)}
  /\ r.at = "downlock" => r.seen.waiters
  /\ r.at = "locking" => r.locked /\ r.next \in {"xunbusy", "down"}
  /\ r.at \in {"xunbusy", "down"} /\ r.locked => plock = t
  /\ r.at = "downset" /\ (r.locked \/ r.seen.waiters) => plock = t
  /\ r.at = "unflag" => r.next = "out"
  /\ r.at = "wakeup" => r.next \in {"out", "shared"}
  /\ r.at = "unlock" => ~ r.locked /\ r.next \in {"out", "shared", "sunbusy", "down"}

(* The inductive invariant. *)
Inv == HoldersAndSleepers /\ WaitersBusy /\ \A t \in Thread : Knows(t)

(***************************************************************************)
(* Its parts, one for each thing a step can disturb.                       *)
(***************************************************************************)
ProcType == [at : Where, next : Where, want : Want, seen : Word, locked : BOOLEAN]

WordType == [sharers : Int, exclusive : BOOLEAN, waiters : BOOLEAN]

SharingThreads == {t \in Thread : Sharing(t)}

OwningThreads == {t \in Thread : Owning(t)}

Counted ==
  /\ word.sharers = Cardinality(SharingThreads)
  /\ Cardinality(OwningThreads) = IF word.exclusive THEN 1 ELSE 0
  /\ ~ (word.exclusive /\ word.sharers > 0)

Locked(t) ==
  proc[t].at \in {"sleep", "mark", "sunhard", "store", "flash", "unflag", "wakeup",
                  "unlock"} => plock = t

Announced == word.waiters /\ (word.exclusive \/ word.sharers > 0)

(* The invariant is the conjunction of them. *)
LEMMA InvParts ==
  Inv <=> /\ TypeOK /\ Counted /\ WaitersBusy /\ SleepersAnnounced
          /\ \A t \in Thread : Knows(t) /\ Locked(t)
BY DEF Inv, HoldersAndSleepers, HoldersCounted, Counted, SharingThreads, OwningThreads,
       Locked

(* A thread's record stays one when what it has no use for is forgotten,   *)
(* and what it has a use for is kept.                                      *)
LEMMA LocalParts ==
  ASSUME NEW r \in ProcType
  PROVE  /\ Local(r) \in ProcType
         /\ Local(r).at = r.at
         /\ Local(r).next = IF r.at \in {"locking", "wakeup", "unlock"} THEN r.next ELSE "out"
         /\ r.at \in {"join", "mark", "drop", "sunhard", "sunlock", "downlock",
                      "downset", "unflag"} => Local(r).seen = r.seen
         /\ r.at \in {"locking", "xunbusy", "down", "downset"} => Local(r).locked = r.locked
         /\ r.at = "unlock" => ~ Local(r).locked
<1>1. Unbusied \in Word
  <2>1. Cardinality(Thread) \in Nat
    BY BusyAssumption, FS_CardinalityType
  <2> QED
    BY <2>1 DEF Unbusied, Word
<1>2. "free" \in Want /\ "out" \in Where
  BY DEF Want, Where
<1> QED
  BY <1>1, <1>2 DEF Local, ProcType

(* Subsets of the threads are finite, and no larger than all of them. *)
LEMMA ThreadsFinite ==
  /\ Cardinality(Thread) \in Nat
  /\ \A S \in SUBSET Thread : IsFiniteSet(S) /\ Cardinality(S) \in 0..Cardinality(Thread)
<1>1. Cardinality(Thread) \in Nat
  BY BusyAssumption, FS_CardinalityType
<1>2. ASSUME NEW S \in SUBSET Thread
      PROVE  IsFiniteSet(S) /\ Cardinality(S) \in 0..Cardinality(Thread)
  <2>1. IsFiniteSet(S) /\ Cardinality(S) <= Cardinality(Thread)
    BY BusyAssumption, FS_Subset
  <2>2. Cardinality(S) \in Nat
    BY <2>1, FS_CardinalityType
  <2> QED
    BY <1>1, <2>1, <2>2
<1> QED
  BY <1>1, <1>2

(* What the word says of a thread that holds the page, and of a free word. *)
LEMMA HolderWord ==
  ASSUME Counted, TypeOK
  PROVE  /\ \A t \in Thread : Owning(t) =>
              /\ word.exclusive /\ word.sharers = 0
              /\ SharingThreads = {} /\ OwningThreads = {t}
         /\ \A t \in Thread : Sharing(t) =>
              ~ word.exclusive /\ word.sharers > 0 /\ OwningThreads = {}
         /\ ~ word.exclusive => OwningThreads = {}
         /\ word.sharers = 0 => SharingThreads = {}
<1>1. /\ IsFiniteSet(SharingThreads) /\ Cardinality(SharingThreads) \in Nat
      /\ IsFiniteSet(OwningThreads) /\ Cardinality(OwningThreads) \in Nat
  BY ThreadsFinite DEF SharingThreads, OwningThreads
<1>2. word.sharers = 0 => SharingThreads = {}
  BY <1>1, FS_EmptySet DEF Counted
<1>3. ~ word.exclusive => OwningThreads = {}
  BY <1>1, FS_EmptySet DEF Counted
<1>4. ASSUME NEW t \in Thread, Owning(t)
      PROVE  /\ word.exclusive /\ word.sharers = 0
             /\ SharingThreads = {} /\ OwningThreads = {t}
  <2>1. t \in OwningThreads
    BY <1>4 DEF OwningThreads
  <2>2. word.exclusive
    BY <2>1, <1>3
  <2>3. Cardinality(OwningThreads) = 1 /\ ~ word.sharers > 0
    BY <2>2 DEF Counted
  <2>4. OwningThreads = {t}
    BY <2>1, <2>3, <1>1, FS_Singleton
  <2>5. word.sharers = 0
    BY <2>3, <1>1 DEF Counted
  <2> QED
    BY <2>2, <2>4, <2>5, <1>2
<1>5. ASSUME NEW t \in Thread, Sharing(t)
      PROVE  ~ word.exclusive /\ word.sharers > 0 /\ OwningThreads = {}
  <2>1. SharingThreads # {}
    BY <1>5 DEF SharingThreads
  <2>2. word.sharers # 0
    BY <2>1, <1>2
  <2>3. word.sharers > 0
    BY <2>2, <1>1 DEF Counted
  <2> QED
    BY <2>3, <1>3 DEF Counted
<1> QED
  BY <1>2, <1>3, <1>4, <1>5

(***************************************************************************)
(* A step of one thread.                                                   *)
(***************************************************************************)
(* Only what t does, and only what it does to the word and the lock.       *)
Moves(t, r) ==
  /\ r \in ProcType
  /\ proc' = [proc EXCEPT ![t] = r]
  /\ plock' = plock \/ plock = Nobody \/ plock = t
  /\ plock' \in Thread \cup {Nobody}
  /\ word' \in WordType

(* The others stand where they stood and know what they knew. *)
LEMMA OthersStay ==
  ASSUME Inv, NEW t \in Thread, NEW r, Moves(t, r), NEW s \in Thread, s # t
  PROVE  /\ proc'[s] = proc[s]
         /\ (Sharing(s)' <=> Sharing(s)) /\ (Owning(s)' <=> Owning(s))
         /\ Knows(s)' /\ Locked(s)'
<1>1. proc'[s] = proc[s]
  BY DEF Moves, Inv, HoldersAndSleepers, TypeOK
<1>2. plock = s => plock' = s
  BY BusyAssumption DEF Moves
<1>3. Knows(s) /\ Locked(s)
  BY InvParts
<1> QED
  BY <1>1, <1>2, <1>3 DEF Sharing, Owning, Knows, Locked

(* How the threads that hold the page change with where t stands. *)
LEMMA HoldersStep ==
  ASSUME Inv, NEW t \in Thread, NEW r, Moves(t, r)
  PROVE  /\ SharingThreads' = IF Sharing(t)' THEN SharingThreads \cup {t}
                              ELSE SharingThreads \ {t}
         /\ OwningThreads' = IF Owning(t)' THEN OwningThreads \cup {t}
                             ELSE OwningThreads \ {t}
<1>1. \A s \in Thread : s # t => (Sharing(s)' <=> Sharing(s)) /\ (Owning(s)' <=> Owning(s))
  BY OthersStay
<1>2. SharingThreads' = IF Sharing(t)' THEN SharingThreads \cup {t}
                        ELSE SharingThreads \ {t}
  BY <1>1 DEF SharingThreads
<1>3. OwningThreads' = IF Owning(t)' THEN OwningThreads \cup {t} ELSE OwningThreads \ {t}
  BY <1>1 DEF OwningThreads
<1> QED
  BY <1>2, <1>3

(* A step that changes neither who holds the page nor what the word says   *)
(* of it keeps the count.                                                  *)
LEMMA CountKept ==
  ASSUME Inv, NEW t \in Thread, NEW r, Moves(t, r),
         (Sharing(t)' <=> Sharing(t)), (Owning(t)' <=> Owning(t)),
         word'.sharers = word.sharers, word'.exclusive = word.exclusive
  PROVE  Counted'
<1>1. SharingThreads' = SharingThreads
  BY HoldersStep DEF SharingThreads
<1>2. OwningThreads' = OwningThreads
  BY HoldersStep DEF OwningThreads
<1>3. Counted
  BY InvParts
<1> QED
  BY <1>1, <1>2, <1>3 DEF Counted

(* A sharer more, on a word without an owner. *)
LEMMA CountShared ==
  ASSUME Inv, NEW t \in Thread, NEW r, Moves(t, r),
         ~ Sharing(t), Sharing(t)', ~ Owning(t)', ~ word.exclusive,
         word'.sharers = word.sharers + 1, word'.exclusive = word.exclusive
  PROVE  Counted'
<1>1. Counted /\ TypeOK
  BY InvParts
<1>2. SharingThreads' = SharingThreads \cup {t} /\ t \notin SharingThreads
  BY HoldersStep DEF SharingThreads
<1>3. IsFiniteSet(SharingThreads)
  BY ThreadsFinite DEF SharingThreads
<1>4. Cardinality(SharingThreads') = Cardinality(SharingThreads) + 1
  BY <1>2, <1>3, FS_AddElement
<1>5. OwningThreads' = {}
  BY <1>1, HolderWord, HoldersStep
<1>6. Cardinality(OwningThreads') = 0
  BY <1>5, FS_EmptySet
<1> QED
  BY <1>1, <1>4, <1>6 DEF Counted

(* A sharer less. *)
LEMMA CountDropped ==
  ASSUME Inv, NEW t \in Thread, NEW r, Moves(t, r),
         Sharing(t), ~ Sharing(t)', ~ Owning(t)',
         word'.sharers = word.sharers - 1, word'.exclusive = word.exclusive
  PROVE  Counted'
<1>1. Counted /\ TypeOK
  BY InvParts
<1>2. SharingThreads' = SharingThreads \ {t} /\ t \in SharingThreads
  BY HoldersStep DEF SharingThreads
<1>3. IsFiniteSet(SharingThreads)
  BY ThreadsFinite DEF SharingThreads
<1>4. Cardinality(SharingThreads') = Cardinality(SharingThreads) - 1
  BY <1>2, <1>3, FS_RemoveElement
<1>5. OwningThreads' = {} /\ ~ word.exclusive
  BY <1>1, HolderWord, HoldersStep
<1>6. Cardinality(OwningThreads') = 0
  BY <1>5, FS_EmptySet
<1> QED
  BY <1>1, <1>4, <1>5, <1>6 DEF Counted

(* The first holder of a free page, as its owner. *)
LEMMA CountOwned ==
  ASSUME Inv, NEW t \in Thread, NEW r, Moves(t, r),
         word = Unbusied, word' = Exclusive, Owning(t)', ~ Sharing(t)'
  PROVE  Counted'
<1>1. Counted /\ TypeOK
  BY InvParts
<1>2. word.sharers = 0 /\ ~ word.exclusive
  BY DEF Unbusied
<1>3. SharingThreads' = {} /\ OwningThreads' = {t}
  BY <1>1, <1>2, HolderWord, HoldersStep
<1>4. Cardinality(SharingThreads') = 0 /\ Cardinality(OwningThreads') = 1
  BY <1>3, FS_EmptySet, FS_Singleton
<1>5. word'.sharers = 0 /\ word'.exclusive
  BY DEF Exclusive, Unbusied
<1> QED
  BY <1>4, <1>5 DEF Counted

(* The owner gives the page back, or goes on as its one sharer. *)
LEMMA CountReleased ==
  ASSUME Inv, NEW t \in Thread, NEW r, Moves(t, r), Owning(t), ~ Owning(t)',
         \/ word' = Unbusied /\ ~ Sharing(t)'
         \/ word' = Sharers(1) /\ Sharing(t)'
  PROVE  Counted'
<1>1. Counted /\ TypeOK
  BY InvParts
<1>2. SharingThreads = {} /\ OwningThreads = {t}
  BY <1>1, HolderWord
<1>3. OwningThreads' = {} /\ SharingThreads' = IF Sharing(t)' THEN {t} ELSE {}
  BY <1>2, HoldersStep
<1>4. /\ Cardinality(OwningThreads') = 0
      /\ Cardinality(SharingThreads') = IF Sharing(t)' THEN 1 ELSE 0
  BY <1>3, FS_EmptySet, FS_Singleton
<1>5. ~ word'.exclusive /\ word'.sharers = IF Sharing(t)' THEN 1 ELSE 0
  BY DEF Unbusied, Sharers
<1> QED
  BY <1>4, <1>5 DEF Counted

(* The last sharer gives the page back: the word is that of a free page. *)
LEMMA CountEmptied ==
  ASSUME Inv, NEW t \in Thread, NEW r, Moves(t, r),
         Sharing(t), ~ Sharing(t)', ~ Owning(t)', word.sharers <= 1, word' = Unbusied
  PROVE  Counted'
<1>1. Counted /\ TypeOK
  BY InvParts
<1>2. word.sharers > 0 /\ ~ word.exclusive
  BY <1>1, HolderWord
<1>3. word.sharers = 1
  BY <1>1, <1>2, ThreadsFinite DEF TypeOK, Word
<1>4. word'.sharers = word.sharers - 1
  BY <1>3 DEF Unbusied
<1>5. word.exclusive = FALSE
  BY <1>1, <1>2 DEF TypeOK, Word
<1>6. word'.exclusive = word.exclusive
  BY <1>5 DEF Unbusied
<1> QED
  BY <1>4, <1>6, CountDropped

(* What a step means to the lock: only t's hold changes, and a sharer does *)
(* not become the owner.                                                   *)
Lawful(t) ==
  /\ \A s \in Thread : s # t => Held(s)' = Held(s)
  /\ ~ (Sharing(t) /\ Owning(t)')

(* What remains to be shown of a step: that the holders are counted, that  *)
(* t knows what it must, and that sleepers stay announced or t wakes them. *)
LEMMA StepInv ==
  ASSUME Inv, NEW t \in Thread, NEW r, Moves(t, r), ~ At(t, "wakeup"),
         Counted', WaitersBusy', Knows(t)', Locked(t)',
         r.at = "asleep" => Announced',
         Announced => Announced' \/ r.at = "wakeup",
         ~ (Sharing(t) /\ Owning(t)')
  PROVE  Inv' /\ Lawful(t)
<1>1. TypeOK /\ Counted /\ SleepersAnnounced /\ proc'[t] = r
  BY InvParts DEF TypeOK, Moves, ProcType
<1>2. TypeOK'
  <2>1. proc' \in [Thread -> ProcType]
    BY <1>1 DEF Moves, TypeOK, ProcType
  <2>2. word' \in Word
    <3>1. SharingThreads' \in SUBSET Thread
      BY DEF SharingThreads
    <3>2. word'.sharers \in 0..Cardinality(Thread)
      BY <3>1, ThreadsFinite DEF Counted
    <3> QED
      BY <3>2 DEF Moves, Word, WordType
  <2> QED
    BY <2>1, <2>2 DEF Moves, TypeOK, ProcType
<1>3. SleepersAnnounced'
  <2> SUFFICES ASSUME NEW s \in Thread, At(s, "asleep")'
               PROVE  Announced' \/ \E u \in Thread : At(u, "wakeup")'
    BY DEF SleepersAnnounced, Announced
  <2>1. CASE s = t
    BY <2>1, <1>1 DEF At
  <2>2. CASE s # t
    <3>1. At(s, "asleep")
      BY <2>2, OthersStay DEF At
    <3>2. CASE Announced
      BY <3>2, <1>1 DEF At
    <3>3. CASE \E u \in Thread : At(u, "wakeup")
      <4>1. PICK u \in Thread : At(u, "wakeup")
        BY <3>3
      <4>2. u # t
        BY <4>1
      <4> QED
        BY <4>1, <4>2, OthersStay DEF At
    <3> QED
      BY <3>1, <3>2, <3>3, <1>1 DEF SleepersAnnounced, Announced
  <2> QED
    BY <2>1, <2>2
<1>4. \A s \in Thread : Knows(s)' /\ Locked(s)'
  BY OthersStay
<1>5. Lawful(t)
  BY OthersStay DEF Lawful, Held
<1> QED
  BY <1>2, <1>3, <1>4, <1>5
  DEF Inv, HoldersAndSleepers, HoldersCounted, Counted, SharingThreads, OwningThreads,
      Locked

(* Where t goes, and what it takes along.                                  *)
LEMMA SetParts ==
  ASSUME Inv, NEW t \in Thread, NEW q \in ProcType, Set(t, q),
         plock' = plock \/ plock' = t \/ plock' = Nobody,
         plock' = plock \/ plock = Nobody \/ plock = t,
         word' \in WordType
  PROVE  /\ Moves(t, Local(q))
         /\ proc'[t] = Local(q)
         /\ proc'[t].at = q.at
         /\ q.at \in {"locking", "wakeup", "unlock"} => proc'[t].next = q.next
         /\ q.at \in {"join", "mark", "drop", "sunhard", "sunlock", "downlock",
                      "downset", "unflag"} => proc'[t].seen = q.seen
         /\ q.at \in {"locking", "xunbusy", "down", "downset"} => proc'[t].locked = q.locked
         /\ q.at = "unlock" => ~ proc'[t].locked
<1>1. proc'[t] = Local(q) /\ plock \in Thread \cup {Nobody}
  BY DEF Set, Inv, HoldersAndSleepers, TypeOK
<1>2. Moves(t, Local(q))
  BY <1>1, LocalParts DEF Moves, Set
<1> QED
  BY <1>1, <1>2, LocalParts

(* The words the code writes, field by field. *)
LEMMA Words ==
  /\ Unbusied \in WordType /\ Unbusied.sharers = 0
  /\ ~ Unbusied.exclusive /\ ~ Unbusied.waiters
  /\ Exclusive \in WordType /\ Exclusive.sharers = 0
  /\ Exclusive.exclusive /\ ~ Exclusive.waiters
  /\ \A w \in WordType : /\ Flagged(w) \in WordType /\ Flagged(w).waiters = TRUE
                         /\ Flagged(w).sharers = w.sharers
                         /\ Flagged(w).exclusive = w.exclusive
  /\ \A n \in Int : Sharers(n) \in WordType /\ Sharers(n).sharers = n
                  /\ ~ Sharers(n).exclusive /\ ~ Sharers(n).waiters
<1>1. /\ Unbusied \in WordType /\ Unbusied.sharers = 0
      /\ ~ Unbusied.exclusive /\ ~ Unbusied.waiters
  BY DEF Unbusied, WordType
<1>2. /\ Exclusive \in WordType /\ Exclusive.sharers = 0
      /\ Exclusive.exclusive /\ ~ Exclusive.waiters
  BY <1>1 DEF Exclusive, WordType
<1>3. ASSUME NEW w \in WordType
      PROVE  /\ Flagged(w) \in WordType /\ Flagged(w).waiters = TRUE
             /\ Flagged(w).sharers = w.sharers /\ Flagged(w).exclusive = w.exclusive
  BY DEF Flagged, WordType
<1>4. ASSUME NEW n \in Int
      PROVE  /\ Sharers(n) \in WordType /\ Sharers(n).sharers = n
             /\ ~ Sharers(n).exclusive /\ ~ Sharers(n).waiters
  BY <1>1 DEF Sharers, WordType
<1> QED
  BY <1>1, <1>2, <1>3, <1>4

(* A word is one of those TypeOK allows when it counts no more sharers     *)
(* than there are threads.                                                 *)
LEMMA WordOfType ==
  /\ \A w \in Word : w \in WordType /\ w.sharers \in 0..Cardinality(Thread)
  /\ \A w \in WordType : w.sharers \in 0..Cardinality(Thread) => w \in Word
<1>1. Cardinality(Thread) \in Nat
  BY ThreadsFinite
<1>2. ASSUME NEW w \in Word
      PROVE  w \in WordType /\ w.sharers \in 0..Cardinality(Thread)
  BY <1>1 DEF Word, WordType
<1>3. ASSUME NEW w \in WordType, w.sharers \in 0..Cardinality(Thread)
      PROVE  w \in Word
  BY <1>3 DEF Word, WordType
<1> QED
  BY <1>2, <1>3

(* The word, the lock and the records have the types the steps rely on. *)
LEMMA Types ==
  ASSUME Inv
  PROVE  /\ plock \in Thread \cup {Nobody} /\ word \in Word /\ word \in WordType
         /\ word.sharers \in Nat /\ word.exclusive \in BOOLEAN /\ word.waiters \in BOOLEAN
         /\ Unbusied \in Word /\ Exclusive \in Word /\ Flagged(Exclusive) \in Word
         /\ \A t \in Thread : proc[t] \in ProcType
<1>1. word \in Word /\ plock \in Thread \cup {Nobody} /\ proc \in [Thread -> ProcType]
  BY DEF Inv, HoldersAndSleepers, TypeOK, ProcType
<1>2. Cardinality(Thread) \in Nat
  BY ThreadsFinite
<1>3. /\ word.sharers \in Nat /\ word.exclusive \in BOOLEAN /\ word.waiters \in BOOLEAN
      /\ word \in WordType
  BY <1>1, <1>2, WordOfType DEF Word
<1>4. Unbusied \in Word /\ Exclusive \in Word /\ Flagged(Exclusive) \in Word
  BY <1>2, Words, WordOfType
<1> QED
  BY <1>1, <1>3, <1>4

(* A step that leaves the word alone, and t with as much of the page.      *)
LEMMA QuietInv ==
  ASSUME Inv, NEW t \in Thread, NEW q \in ProcType, Set(t, q), word' = word,
         plock' = plock \/ plock' = t \/ plock' = Nobody,
         plock' = plock \/ plock = Nobody \/ plock = t,
         ~ At(t, "wakeup"), q.at = "asleep" => Announced,
         (Sharing(t)' <=> Sharing(t)), (Owning(t)' <=> Owning(t)), Knows(t)', Locked(t)'
  PROVE  Inv' /\ Lawful(t)
<1>1. Moves(t, Local(q)) /\ Local(q).at = q.at
  BY SetParts, Types, LocalParts
<1>2. Counted'
  BY <1>1, CountKept
<1>3. WaitersBusy' /\ Announced' = Announced
  BY DEF Inv, WaitersBusy, Announced
<1>4. ~ (Sharing(t) /\ Owning(t)')
  BY HolderWord, InvParts
<1> QED
  BY <1>1, <1>2, <1>3, <1>4, StepInv

(***************************************************************************)
(* The steps, one lemma each.                                              *)
(***************************************************************************)
(* A thread begins to want the page. *)
LEMMA BeginInv ==
  ASSUME Inv, NEW t \in Thread, Begin(t)
  PROVE  Inv' /\ Lawful(t)
<1>1. PICK w \in Want : Set(t, [proc[t] EXCEPT !.at = "try", !.want = w])
  BY DEF Begin
<1> DEFINE q == [proc[t] EXCEPT !.at = "try", !.want = w]
<1>2. q \in ProcType /\ q.at = "try"
  BY Types DEF ProcType, Where
<1>3. word' = word /\ plock' = plock /\ proc[t].at = "out"
  BY DEF Begin, At
<1> HIDE DEF q
<1>4. proc'[t].at = "try"
  BY <1>1, <1>2, <1>3, SetParts, Types DEF q
<1>5. /\ (Sharing(t)' <=> Sharing(t)) /\ (Owning(t)' <=> Owning(t))
      /\ Knows(t)' /\ Locked(t)' /\ ~ At(t, "wakeup")
  BY <1>3, <1>4 DEF Sharing, Owning, Knows, Locked, At
<1> QED
  BY <1>1, <1>2, <1>3, <1>5, QuietInv DEF q

(* A step that only goes elsewhere. *)
LEMMA GotoParts ==
  ASSUME Inv, NEW t \in Thread, NEW where \in Where, Goto(t, where),
         plock' = plock \/ plock' = t \/ plock' = Nobody,
         plock' = plock \/ plock = Nobody \/ plock = t,
         word' \in WordType
  PROVE  LET q == [proc[t] EXCEPT !.at = where]
         IN  /\ q \in ProcType /\ q.at = where /\ Set(t, q) /\ Moves(t, Local(q))
             /\ Local(q).at = where
             /\ proc'[t] = Local(q) /\ proc'[t].at = where
             /\ where \in {"locking", "wakeup", "unlock"} => proc'[t].next = proc[t].next
             /\ where \in {"join", "mark", "drop", "sunhard", "sunlock", "downlock",
                           "downset", "unflag"} => proc'[t].seen = proc[t].seen
             /\ where \in {"locking", "xunbusy", "down", "downset"}
                  => proc'[t].locked = proc[t].locked
<1> DEFINE q == [proc[t] EXCEPT !.at = where]
<1>1. /\ q \in ProcType /\ q.at = where /\ q.next = proc[t].next /\ q.seen = proc[t].seen
      /\ q.locked = proc[t].locked
  BY Types DEF ProcType
<1>2. Set(t, q)
  BY DEF Goto
<1> HIDE DEF q
<1>3. /\ Moves(t, Local(q)) /\ proc'[t] = Local(q) /\ proc'[t].at = where
      /\ Local(q).at = where
      /\ where \in {"locking", "wakeup", "unlock"} => proc'[t].next = proc[t].next
      /\ where \in {"join", "mark", "drop", "sunhard", "sunlock", "downlock",
                    "downset", "unflag"} => proc'[t].seen = proc[t].seen
      /\ where \in {"locking", "xunbusy", "down", "downset"}
           => proc'[t].locked = proc[t].locked
  BY <1>1, <1>2, SetParts, LocalParts
<1> QED
  BY <1>1, <1>2, <1>3 DEF q

(* The same of such a step that leaves the word and the hold alone. *)
LEMMA QuietGoto ==
  ASSUME Inv, NEW t \in Thread, NEW where \in Where, Goto(t, where), word' = word,
         plock' = plock \/ plock' = t \/ plock' = Nobody,
         plock' = plock \/ plock = Nobody \/ plock = t,
         ~ At(t, "wakeup"), where = "asleep" => Announced,
         (Sharing(t)' <=> Sharing(t)), (Owning(t)' <=> Owning(t)), Knows(t)', Locked(t)'
  PROVE  Inv' /\ Lawful(t)
<1>1. word' \in WordType
  BY Types
<1>2. /\ [proc[t] EXCEPT !.at = where] \in ProcType
      /\ [proc[t] EXCEPT !.at = where].at = where
      /\ Set(t, [proc[t] EXCEPT !.at = where])
  BY <1>1, GotoParts
<1> QED
  BY <1>2, QuietInv

(* Somebody tries to get the page: it becomes the owner's, is read before  *)
(* it is shared, or has to be waited for.                                  *)
LEMMA TryInv ==
  ASSUME Inv, NEW t \in Thread, Try(t)
  PROVE  Inv' /\ Lawful(t)
<1>1. proc[t].at = "try" /\ plock' = plock /\ proc[t].want \in Want
  BY Types DEF Try, At, ProcType
<1>2. ~ Sharing(t) /\ ~ Owning(t) /\ ~ At(t, "wakeup")
  BY <1>1 DEF Sharing, Owning, At
<1>3. CASE word' = Exclusive /\ word = Unbusied /\ Goto(t, "owner")
  <2>1. word' \in WordType /\ "owner" \in Where
    BY <1>3, Words DEF Where
  <2>2. /\ Moves(t, Local([proc[t] EXCEPT !.at = "owner"]))
        /\ Local([proc[t] EXCEPT !.at = "owner"]).at = "owner" /\ proc'[t].at = "owner"
    BY <1>1, <1>3, <2>1, GotoParts
  <2>3. Owning(t)' /\ ~ Sharing(t)' /\ Knows(t)' /\ Locked(t)'
    BY <2>2 DEF Owning, Sharing, Knows, Locked
  <2>4. Counted'
    BY <1>3, <2>2, <2>3, CountOwned
  <2>5. WaitersBusy' /\ ~ Announced
    BY <1>3, Words DEF WaitersBusy, Announced
  <2> QED
    BY <1>2, <2>2, <2>3, <2>4, <2>5, StepInv
<1>4. CASE \E where \in {"block", "out"} : Goto(t, where) /\ word' = word
  <2>1. PICK where \in {"block", "out"} : Goto(t, where) /\ word' = word
    BY <1>4
  <2>2. where \in Where /\ word' \in WordType
    BY <2>1, Types DEF Where
  <2>3. proc'[t].at = where
    BY <1>1, <2>1, <2>2, GotoParts
  <2>4. ~ Owning(t)' /\ ~ Sharing(t)' /\ Knows(t)' /\ Locked(t)'
    BY <2>1, <2>3 DEF Owning, Sharing, Knows, Locked
  <2> QED
    BY <1>1, <1>2, <2>1, <2>2, <2>4, QuietGoto
<1>5. CASE /\ Set(t, [proc[t] EXCEPT !.seen = word,
                                    !.at = IF word.exclusive THEN "block" ELSE "join"])
           /\ word' = word
  <2> DEFINE q == [proc[t] EXCEPT !.seen = word,
                                  !.at = IF word.exclusive THEN "block" ELSE "join"]
  <2>1. /\ q \in ProcType /\ q.seen = word
        /\ q.at = IF word.exclusive THEN "block" ELSE "join"
    BY Types DEF ProcType, Where
  <2>2. Set(t, q) /\ word' = word
    BY <1>5
  <2> HIDE DEF q
  <2>3. proc'[t].at = q.at /\ (q.at = "join" => proc'[t].seen = word)
    BY <1>1, <2>1, <2>2, SetParts, Types
  <2>4. ~ Owning(t)' /\ ~ Sharing(t)' /\ Knows(t)' /\ Locked(t)'
    BY <2>1, <2>3 DEF Owning, Sharing, Knows, Locked
  <2> QED
    BY <1>1, <1>2, <2>1, <2>4, <2>2, QuietInv
<1> QED
  BY <1>1, <1>3, <1>4, <1>5 DEF Try, Want

(* A sharer is added, if the word is still what it was. *)
LEMMA JoinInv ==
  ASSUME Inv, NEW t \in Thread, Join(t)
  PROVE  Inv' /\ Lawful(t)
<1>1. proc[t].at = "join" /\ plock' = plock
  BY DEF Join, At
<1>2. ~ Sharing(t) /\ ~ Owning(t) /\ ~ At(t, "wakeup") /\ ~ proc[t].seen.exclusive
  BY <1>1 DEF Sharing, Owning, At, Inv, Knows
<1>3. CASE word = proc[t].seen /\ word' = [word EXCEPT !.sharers = @ + 1] /\ Goto(t, "shared")
  <2>1. /\ word' \in WordType /\ word'.sharers = word.sharers + 1
        /\ word'.exclusive = word.exclusive /\ word'.waiters = word.waiters
        /\ "shared" \in Where
    BY <1>3, Types DEF WordType, Where
  <2>2. /\ Moves(t, Local([proc[t] EXCEPT !.at = "shared"]))
        /\ Local([proc[t] EXCEPT !.at = "shared"]).at = "shared" /\ proc'[t].at = "shared"
    BY <1>1, <1>3, <2>1, GotoParts
  <2>3. ~ Owning(t)' /\ Sharing(t)' /\ Knows(t)' /\ Locked(t)'
    BY <2>2 DEF Owning, Sharing, Knows, Locked
  <2>4. Counted'
    BY <1>2, <1>3, <2>1, <2>2, <2>3, CountShared
  <2>5. WaitersBusy' /\ (Announced => Announced')
    BY <2>1, Types DEF WaitersBusy, Announced
  <2> QED
    BY <1>2, <2>2, <2>3, <2>4, <2>5, StepInv
<1>4. CASE Goto(t, "try") /\ word' = word
  <2>1. "try" \in Where /\ word' \in WordType
    BY <1>4, Types DEF Where
  <2>2. proc'[t].at = "try"
    BY <1>1, <1>4, <2>1, GotoParts
  <2>3. ~ Owning(t)' /\ ~ Sharing(t)' /\ Knows(t)' /\ Locked(t)'
    BY <2>2 DEF Owning, Sharing, Knows, Locked
  <2> QED
    BY <1>1, <1>2, <1>4, <2>1, <2>3, QuietGoto
<1> QED
  BY <1>3, <1>4 DEF Join

(* The page lock is taken to look again before sleeping, or to flash. *)
LEMMA BlockInv ==
  ASSUME Inv, NEW t \in Thread, Block(t)
  PROVE  Inv' /\ Lawful(t)
<1>1. proc[t].at = "block" /\ plock = Nobody /\ plock' = t /\ word' = word
  BY DEF Block, At, Lock
<1>2. PICK where \in {"flash", "sleep"} : Goto(t, where)
  BY DEF Block
<1>3. where \in Where /\ word' \in WordType
  BY <1>1, Types DEF Where
<1>4. proc'[t].at = where
  BY <1>1, <1>2, <1>3, GotoParts
<1>5. /\ (Sharing(t)' <=> Sharing(t)) /\ (Owning(t)' <=> Owning(t))
      /\ Knows(t)' /\ Locked(t)' /\ ~ At(t, "wakeup")
  BY <1>1, <1>4 DEF Sharing, Owning, Knows, Locked, At
<1> QED
  BY <1>1, <1>2, <1>3, <1>5, QuietGoto

(* A thread is about to sleep: it tries again, sleeps on a word already    *)
(* marked, or has to mark it.                                              *)
LEMMA BusySleepInv ==
  ASSUME Inv, NEW t \in Thread, BusySleep(t)
  PROVE  Inv' /\ Lawful(t)
<1>1. proc[t].at = "sleep" /\ word' = word /\ plock = t
  <2>1. Locked(t) /\ proc[t].at = "sleep" /\ word' = word
    BY InvParts DEF BusySleep, At
  <2> QED
    BY <2>1 DEF Locked
<1>2. ~ Sharing(t) /\ ~ Owning(t) /\ ~ At(t, "wakeup")
  BY <1>1 DEF Sharing, Owning, At
<1>3. CASE \E where \in {"try", "asleep"} :
             Goto(t, where) /\ plock' = Nobody /\ (where = "asleep" => word.waiters)
  <2>1. PICK where \in {"try", "asleep"} :
               Goto(t, where) /\ plock' = Nobody /\ (where = "asleep" => word.waiters)
    BY <1>3
  <2>2. where \in Where /\ word' \in WordType
    BY <1>1, Types DEF Where
  <2>3. proc'[t].at = where
    BY <1>1, <2>1, <2>2, GotoParts
  <2>4. ~ Owning(t)' /\ ~ Sharing(t)' /\ Knows(t)' /\ Locked(t)'
    BY <2>1, <2>3 DEF Owning, Sharing, Knows, Locked
  <2>5. where = "asleep" => Announced
    BY <2>1 DEF Inv, WaitersBusy, Announced
  <2> QED
    BY <1>1, <1>2, <2>1, <2>2, <2>4, <2>5, QuietGoto
<1>4. CASE /\ Set(t, [proc[t] EXCEPT !.seen = word, !.at = "mark"])
           /\ plock' = plock /\ word # Unbusied /\ ~ word.waiters
  <2> DEFINE q == [proc[t] EXCEPT !.seen = word, !.at = "mark"]
  <2>1. q \in ProcType /\ q.seen = word /\ q.at = "mark" /\ Set(t, q)
    BY <1>4, Types DEF ProcType, Where
  <2> HIDE DEF q
  <2>2. proc'[t].at = "mark" /\ proc'[t].seen = word
    BY <1>1, <1>4, <2>1, SetParts, Types
  <2>3. word.exclusive \/ word.sharers > 0
    BY <1>4, Types DEF WordType, Unbusied
  <2>4. ~ Owning(t)' /\ ~ Sharing(t)' /\ Knows(t)' /\ Locked(t)'
    BY <1>1, <1>4, <2>2, <2>3 DEF Owning, Sharing, Knows, Locked
  <2> QED
    BY <1>1, <1>2, <1>4, <2>1, <2>4, QuietInv
<1> QED
  BY <1>1, <1>3, <1>4 DEF BusySleep

(* The bit is set and the thread sleeps, or the word changed and it tries  *)
(* again.                                                                  *)
LEMMA MarkInv ==
  ASSUME Inv, NEW t \in Thread, Mark(t)
  PROVE  Inv' /\ Lawful(t)
<1>1. proc[t].at = "mark" /\ plock' = Nobody /\ plock = t
  <2>1. Locked(t) /\ proc[t].at = "mark" /\ plock' = Nobody
    BY InvParts DEF Mark, At
  <2> QED
    BY <2>1 DEF Locked
<1>2. /\ ~ Sharing(t) /\ ~ Owning(t) /\ ~ At(t, "wakeup")
      /\ proc[t].seen.exclusive \/ proc[t].seen.sharers > 0
  BY <1>1 DEF Sharing, Owning, At, Inv, Knows
<1>3. CASE word = proc[t].seen /\ word' = Flagged(word) /\ Goto(t, "asleep")
  <2>1. /\ word' \in WordType /\ word'.sharers = word.sharers
        /\ word'.exclusive = word.exclusive /\ word'.waiters
        /\ "asleep" \in Where
    BY <1>3, Types, Words DEF Where
  <2>2. /\ Moves(t, Local([proc[t] EXCEPT !.at = "asleep"]))
        /\ Local([proc[t] EXCEPT !.at = "asleep"]).at = "asleep" /\ proc'[t].at = "asleep"
    BY <1>1, <1>3, <2>1, GotoParts
  <2>3. ~ Owning(t)' /\ ~ Sharing(t)' /\ Knows(t)' /\ Locked(t)'
    BY <2>2 DEF Owning, Sharing, Knows, Locked
  <2>4. Counted'
    BY <1>2, <2>1, <2>2, <2>3, CountKept
  <2>5. WaitersBusy' /\ Announced'
    BY <1>2, <1>3, <2>1 DEF WaitersBusy, Announced
  <2> QED
    BY <1>2, <2>2, <2>3, <2>4, <2>5, StepInv
<1>4. CASE Goto(t, "try") /\ word' = word
  <2>1. "try" \in Where /\ word' \in WordType
    BY <1>4, Types DEF Where
  <2>2. proc'[t].at = "try"
    BY <1>1, <1>4, <2>1, GotoParts
  <2>3. ~ Owning(t)' /\ ~ Sharing(t)' /\ Knows(t)' /\ Locked(t)'
    BY <2>2 DEF Owning, Sharing, Knows, Locked
  <2> QED
    BY <1>1, <1>2, <1>4, <2>1, <2>3, QuietGoto
<1> QED
  BY <1>3, <1>4 DEF Mark

(* A sharer looks whether it is the last one and whether somebody waits. *)
LEMMA SunbusyInv ==
  ASSUME Inv, NEW t \in Thread, Sunbusy(t)
  PROVE  Inv' /\ Lawful(t)
<1>1. proc[t].at \in {"shared", "sunbusy"} /\ plock' = plock /\ word' = word
  BY DEF Sunbusy, At
<1> DEFINE to == IF word.sharers > 1 \/ ~ word.waiters THEN "drop" ELSE "sunlock"
           q == [proc[t] EXCEPT !.seen = word, !.at = to]
<1>2. to \in {"drop", "sunlock"}
  OBVIOUS
<1>3. q \in ProcType /\ q.seen = word /\ q.at = to
  BY Types DEF ProcType, Where
<1>4. Set(t, q)
  BY DEF Sunbusy
<1> HIDE DEF q
<1>5. proc'[t].at = to /\ proc'[t].seen = word
  BY <1>1, <1>2, <1>3, <1>4, SetParts, Types
<1>6. /\ (Sharing(t)' <=> Sharing(t)) /\ (Owning(t)' <=> Owning(t))
      /\ Locked(t)' /\ ~ At(t, "wakeup")
  BY <1>1, <1>2, <1>5 DEF Sharing, Owning, Locked, At
<1>7. Knows(t)'
  BY <1>1, <1>5, Types DEF Knows
<1> QED
  BY <1>1, <1>2, <1>3, <1>4, <1>6, <1>7, QuietInv

(* A sharer less, if the word is still what it was: it is not the last     *)
(* one, or nobody waits.                                                   *)
LEMMA DropInv ==
  ASSUME Inv, NEW t \in Thread, Drop(t)
  PROVE  Inv' /\ Lawful(t)
<1>1. proc[t].at = "drop" /\ plock' = plock
  BY DEF Drop, At
<1>2. /\ Sharing(t) /\ ~ Owning(t) /\ ~ At(t, "wakeup")
      /\ proc[t].seen.sharers > 1 \/ ~ proc[t].seen.waiters
  BY <1>1 DEF Sharing, Owning, At, Inv, Knows
<1>3. ~ word.exclusive
  BY <1>2, HolderWord, InvParts
<1>4. CASE word = proc[t].seen /\ word' = [word EXCEPT !.sharers = @ - 1] /\ Goto(t, "out")
  <2>1. /\ word' \in WordType /\ word'.sharers = word.sharers - 1
        /\ word'.exclusive = word.exclusive /\ word'.waiters = word.waiters
        /\ "out" \in Where
    BY <1>4, Types DEF WordType, Where
  <2>2. /\ Moves(t, Local([proc[t] EXCEPT !.at = "out"]))
        /\ Local([proc[t] EXCEPT !.at = "out"]).at = "out" /\ proc'[t].at = "out"
    BY <1>1, <1>4, <2>1, GotoParts
  <2>3. ~ Owning(t)' /\ ~ Sharing(t)' /\ Knows(t)' /\ Locked(t)'
    BY <2>2 DEF Owning, Sharing, Knows, Locked
  <2>4. Counted'
    BY <1>2, <2>1, <2>2, <2>3, CountDropped
  <2>5. WaitersBusy' /\ (Announced => Announced')
    BY <1>2, <1>4, <2>1, Types DEF WaitersBusy, Announced
  <2> QED
    BY <1>2, <2>2, <2>3, <2>4, <2>5, StepInv
<1>5. CASE Goto(t, "sunbusy") /\ word' = word
  <2>1. "sunbusy" \in Where /\ word' \in WordType
    BY <1>5, Types DEF Where
  <2>2. proc'[t].at = "sunbusy"
    BY <1>1, <1>5, <2>1, GotoParts
  <2>3. ~ Owning(t)' /\ Sharing(t)' /\ Knows(t)' /\ Locked(t)'
    BY <2>2 DEF Owning, Sharing, Knows, Locked
  <2> QED
    BY <1>1, <1>2, <1>5, <2>1, <2>3, QuietGoto
<1> QED
  BY <1>4, <1>5 DEF Drop

(* The last sharer of a page that is waited for takes the lock. *)
LEMMA SunlockInv ==
  ASSUME Inv, NEW t \in Thread, Sunlock(t)
  PROVE  Inv' /\ Lawful(t)
<1>1. /\ proc[t].at = "sunlock" /\ plock = Nobody /\ plock' = t /\ word' = word
      /\ Goto(t, "sunhard")
  BY DEF Sunlock, At, Lock
<1>2. "sunhard" \in Where /\ word' \in WordType
  BY <1>1, Types DEF Where
<1>3. proc'[t].at = "sunhard" /\ proc'[t].seen = proc[t].seen
  BY <1>1, <1>2, GotoParts
<1>4. /\ (Sharing(t)' <=> Sharing(t)) /\ (Owning(t)' <=> Owning(t))
      /\ Knows(t)' /\ Locked(t)' /\ ~ At(t, "wakeup")
  BY <1>1, <1>3 DEF Sharing, Owning, Knows, Locked, At, Inv
<1> QED
  BY <1>1, <1>2, <1>4, QuietGoto

(* The last sharer frees the page and will wake who waits, or looks again. *)
LEMMA SunhardInv ==
  ASSUME Inv, NEW t \in Thread, Sunhard(t)
  PROVE  Inv' /\ Lawful(t)
<1>1. proc[t].at = "sunhard" /\ plock' = plock /\ plock = t
  <2>1. Locked(t) /\ proc[t].at = "sunhard" /\ plock' = plock
    BY InvParts DEF Sunhard, At
  <2> QED
    BY <2>1 DEF Locked
<1>2. Sharing(t) /\ ~ Owning(t) /\ ~ At(t, "wakeup") /\ proc[t].seen.sharers <= 1
  BY <1>1 DEF Sharing, Owning, At, Inv, Knows
<1>3. CASE /\ word = proc[t].seen /\ word' = Unbusied
           /\ Set(t, [proc[t] EXCEPT !.at = "wakeup", !.next = "out"])
  <2> DEFINE q == [proc[t] EXCEPT !.at = "wakeup", !.next = "out"]
  <2>1. q \in ProcType /\ q.at = "wakeup" /\ q.next = "out" /\ Set(t, q)
    BY <1>3, Types DEF ProcType, Where
  <2>2. word' \in WordType /\ ~ word'.waiters
    BY <1>3, Words
  <2> HIDE DEF q
  <2>3. /\ Moves(t, Local(q)) /\ Local(q).at = "wakeup"
        /\ proc'[t].at = "wakeup" /\ proc'[t].next = "out"
    BY <1>1, <2>1, <2>2, SetParts, LocalParts
  <2>4. ~ Owning(t)' /\ ~ Sharing(t)' /\ Knows(t)' /\ Locked(t)'
    BY <1>1, <2>3 DEF Owning, Sharing, Knows, Locked
  <2>5. Counted'
    BY <1>2, <1>3, <2>3, <2>4, CountEmptied
  <2> QED
    BY <1>2, <2>2, <2>3, <2>4, <2>5, StepInv DEF WaitersBusy
<1>4. CASE word' = word /\ Set(t, [proc[t] EXCEPT !.at = "unlock", !.next = "sunbusy"])
  <2> DEFINE q == [proc[t] EXCEPT !.at = "unlock", !.next = "sunbusy"]
  <2>1. q \in ProcType /\ q.at = "unlock" /\ q.next = "sunbusy" /\ Set(t, q)
    BY <1>4, Types DEF ProcType, Where
  <2> HIDE DEF q
  <2>2. proc'[t].at = "unlock" /\ proc'[t].next = "sunbusy" /\ ~ proc'[t].locked
    BY <1>1, <1>4, <2>1, SetParts, Types
  <2>3. ~ Owning(t)' /\ Sharing(t)' /\ Knows(t)' /\ Locked(t)'
    BY <1>1, <2>2 DEF Owning, Sharing, Knows, Locked
  <2> QED
    BY <1>1, <1>2, <1>4, <2>1, <2>3, QuietInv
<1> QED
  BY <1>3, <1>4 DEF Sunhard

(* The owner is about to release or downgrade, with the page lock or       *)
(* without.                                                                *)
LEMMA ReleaseInv ==
  ASSUME Inv, NEW t \in Thread, Release(t)
  PROVE  Inv' /\ Lawful(t)
<1>1. proc[t].at = "owner" /\ plock' = plock /\ word' = word
  BY DEF Release, At
<1>2. PICK next \in {"xunbusy", "down"} :
        \/ Set(t, [proc[t] EXCEPT !.at = next, !.locked = FALSE])
        \/ Set(t, [proc[t] EXCEPT !.at = "locking", !.next = next, !.locked = TRUE])
  BY DEF Release
<1>3. CASE Set(t, [proc[t] EXCEPT !.at = next, !.locked = FALSE])
  <2> DEFINE q == [proc[t] EXCEPT !.at = next, !.locked = FALSE]
  <2>1. q \in ProcType /\ q.at = next /\ ~ q.locked /\ Set(t, q)
    BY <1>3, Types DEF ProcType, Where
  <2> HIDE DEF q
  <2>2. proc'[t].at = next /\ ~ proc'[t].locked
    BY <1>1, <2>1, SetParts, Types
  <2>3. /\ (Sharing(t)' <=> Sharing(t)) /\ (Owning(t)' <=> Owning(t))
        /\ Knows(t)' /\ Locked(t)' /\ ~ At(t, "wakeup")
    BY <1>1, <2>2 DEF Sharing, Owning, Knows, Locked, At
  <2> QED
    BY <1>1, <2>1, <2>3, QuietInv
<1>4. CASE Set(t, [proc[t] EXCEPT !.at = "locking", !.next = next, !.locked = TRUE])
  <2> DEFINE q == [proc[t] EXCEPT !.at = "locking", !.next = next, !.locked = TRUE]
  <2>1. q \in ProcType /\ q.at = "locking" /\ q.next = next /\ q.locked /\ Set(t, q)
    BY <1>4, Types DEF ProcType, Where
  <2> HIDE DEF q
  <2>2. proc'[t].at = "locking" /\ proc'[t].locked /\ proc'[t].next = next
    BY <1>1, <2>1, SetParts, Types
  <2>3. /\ (Sharing(t)' <=> Sharing(t)) /\ (Owning(t)' <=> Owning(t))
        /\ Knows(t)' /\ Locked(t)' /\ ~ At(t, "wakeup")
    BY <1>1, <2>2 DEF Sharing, Owning, Knows, Locked, At
  <2> QED
    BY <1>1, <2>1, <2>3, QuietInv
<1> QED
  BY <1>2, <1>3, <1>4

(* The caller of the release holds the page lock already. *)
LEMMA LockingInv ==
  ASSUME Inv, NEW t \in Thread, Locking(t)
  PROVE  Inv' /\ Lawful(t)
<1>1. /\ proc[t].at = "locking" /\ plock = Nobody /\ plock' = t /\ word' = word
      /\ Goto(t, proc[t].next)
  BY DEF Locking, At, Lock
<1>2. proc[t].next \in {"xunbusy", "down"}
  BY <1>1 DEF Inv, Knows
<1>3. proc[t].next \in Where /\ word' \in WordType
  BY <1>1, <1>2, Types DEF Where
<1>4. proc'[t].at = proc[t].next
  BY <1>1, <1>3, GotoParts
<1>5. /\ (Sharing(t)' <=> Sharing(t)) /\ (Owning(t)' <=> Owning(t))
      /\ Knows(t)' /\ Locked(t)' /\ ~ At(t, "wakeup")
  BY <1>1, <1>2, <1>4 DEF Sharing, Owning, Knows, Locked, At
<1> QED
  BY <1>1, <1>2, <1>3, <1>5, QuietGoto

(* The slow path of the release takes the lock. *)
LEMMA HardInv ==
  ASSUME Inv, NEW t \in Thread, Hard(t)
  PROVE  Inv' /\ Lawful(t)
<1>1. /\ proc[t].at = "hard" /\ plock = Nobody /\ plock' = t /\ word' = word
      /\ Goto(t, "store")
  BY DEF Hard, At, Lock
<1>2. "store" \in Where /\ word' \in WordType
  BY <1>1, Types DEF Where
<1>3. proc'[t].at = "store"
  BY <1>1, <1>2, GotoParts
<1>4. /\ (Sharing(t)' <=> Sharing(t)) /\ (Owning(t)' <=> Owning(t))
      /\ Knows(t)' /\ Locked(t)' /\ ~ At(t, "wakeup")
  BY <1>1, <1>3 DEF Sharing, Owning, Knows, Locked, At, Inv
<1> QED
  BY <1>1, <1>2, <1>4, QuietGoto

(* The downgrade takes the lock before it wakes who waits. *)
LEMMA DownlockInv ==
  ASSUME Inv, NEW t \in Thread, Downlock(t)
  PROVE  Inv' /\ Lawful(t)
<1>1. /\ proc[t].at = "downlock" /\ plock = Nobody /\ plock' = t /\ word' = word
      /\ Goto(t, "downset")
  BY DEF Downlock, At, Lock
<1>2. "downset" \in Where /\ word' \in WordType
  BY <1>1, Types DEF Where
<1>3. proc'[t].at = "downset" /\ proc'[t].seen = proc[t].seen
  BY <1>1, <1>2, GotoParts
<1>4. /\ (Sharing(t)' <=> Sharing(t)) /\ (Owning(t)' <=> Owning(t))
      /\ Knows(t)' /\ Locked(t)' /\ ~ At(t, "wakeup")
  BY <1>1, <1>3 DEF Sharing, Owning, Knows, Locked, At, Inv
<1> QED
  BY <1>1, <1>2, <1>4, QuietGoto

(* The owner releases a page nobody waits for, or goes on to the slow path. *)
LEMMA XunbusyInv ==
  ASSUME Inv, NEW t \in Thread, Xunbusy(t)
  PROVE  Inv' /\ Lawful(t)
<1>1. proc[t].at = "xunbusy" /\ plock' = plock /\ (proc[t].locked => plock = t)
  BY DEF Xunbusy, At, Inv, Knows
<1>2. Owning(t) /\ ~ Sharing(t) /\ ~ At(t, "wakeup")
  BY <1>1 DEF Sharing, Owning, At
<1>3. CASE /\ word = Exclusive /\ word' = Unbusied
           /\ Set(t, [proc[t] EXCEPT !.at = IF proc[t].locked THEN "unlock" ELSE "out",
                                    !.next = "out"])
  <2> DEFINE q == [proc[t] EXCEPT !.at = IF proc[t].locked THEN "unlock" ELSE "out",
                                  !.next = "out"]
  <2>1. /\ q \in ProcType /\ q.next = "out" /\ Set(t, q)
        /\ q.at = IF proc[t].locked THEN "unlock" ELSE "out"
    BY <1>3, Types DEF ProcType, Where
  <2>2. word' \in WordType /\ ~ word'.waiters /\ ~ word.waiters
    BY <1>3, Words
  <2> HIDE DEF q
  <2>3. /\ Moves(t, Local(q)) /\ Local(q).at = q.at
        /\ proc'[t].at = q.at /\ q.at \in {"unlock", "out"}
        /\ q.at = "unlock" => proc'[t].next = "out" /\ ~ proc'[t].locked
    BY <1>1, <2>1, <2>2, SetParts, LocalParts
  <2>4. ~ Owning(t)' /\ ~ Sharing(t)' /\ Knows(t)' /\ Locked(t)'
    BY <1>1, <2>1, <2>3 DEF Owning, Sharing, Knows, Locked
  <2>5. Counted'
    BY <1>2, <1>3, <2>3, <2>4, CountReleased
  <2>6. WaitersBusy' /\ ~ Announced
    BY <2>2 DEF WaitersBusy, Announced
  <2> QED
    BY <1>2, <2>1, <2>3, <2>4, <2>5, <2>6, StepInv
<1>4. CASE Goto(t, IF proc[t].locked THEN "store" ELSE "hard") /\ word' = word
  <2>1. PICK where \in {"store", "hard"} :
               Goto(t, where) /\ (where = "store" => proc[t].locked)
    BY <1>4
  <2>2. where \in Where /\ word' \in WordType
    BY <1>4, Types DEF Where
  <2>3. proc'[t].at = where
    BY <1>1, <2>1, <2>2, GotoParts
  <2>4. Owning(t)' /\ ~ Sharing(t)' /\ Knows(t)' /\ Locked(t)'
    BY <1>1, <2>1, <2>3 DEF Owning, Sharing, Knows, Locked
  <2> QED
    BY <1>1, <1>2, <1>4, <2>1, <2>2, <2>4, QuietGoto
<1> QED
  BY <1>3, <1>4 DEF Xunbusy

(* The slow path frees the page, whatever the word, and will wake.         *)
LEMMA StoreUnbusiedInv ==
  ASSUME Inv, NEW t \in Thread, StoreUnbusied(t)
  PROVE  Inv' /\ Lawful(t)
<1>1. /\ proc[t].at = "store" /\ plock' = plock /\ plock = t /\ word' = Unbusied
      /\ Set(t, [proc[t] EXCEPT !.at = "wakeup", !.next = "out"])
  <2>1. Locked(t) /\ proc[t].at = "store"
    BY InvParts DEF StoreUnbusied, At
  <2> QED
    BY <2>1 DEF Locked, StoreUnbusied
<1>2. Owning(t) /\ ~ Sharing(t) /\ ~ At(t, "wakeup")
  BY <1>1 DEF Sharing, Owning, At
<1> DEFINE q == [proc[t] EXCEPT !.at = "wakeup", !.next = "out"]
<1>3. q \in ProcType /\ q.at = "wakeup" /\ q.next = "out" /\ Set(t, q)
  BY <1>1, Types DEF ProcType, Where
<1>4. word' \in WordType /\ ~ word'.waiters
  BY <1>1, Words
<1> HIDE DEF q
<1>5. /\ Moves(t, Local(q)) /\ Local(q).at = "wakeup"
      /\ proc'[t].at = "wakeup" /\ proc'[t].next = "out"
  BY <1>1, <1>3, <1>4, SetParts, LocalParts
<1>6. ~ Owning(t)' /\ ~ Sharing(t)' /\ Knows(t)' /\ Locked(t)'
  BY <1>1, <1>5 DEF Owning, Sharing, Knows, Locked
<1>7. Counted'
  BY <1>1, <1>2, <1>5, <1>6, CountReleased
<1>8. WaitersBusy'
  BY <1>4 DEF WaitersBusy
<1> QED
  BY <1>2, <1>5, <1>6, <1>7, <1>8, StepInv

(* The owner looks whether somebody waits before it downgrades.            *)
LEMMA DownInv ==
  ASSUME Inv, NEW t \in Thread, Down(t)
  PROVE  Inv' /\ Lawful(t)
<1>1. /\ proc[t].at = "down" /\ plock' = plock /\ word' = word
      /\ proc[t].locked => plock = t
  BY DEF Down, At, Inv, Knows
<1> DEFINE saw == IF word.waiters THEN Flagged(Exclusive) ELSE Exclusive
           to == IF word.waiters /\ ~ proc[t].locked THEN "downlock" ELSE "downset"
           q == [proc[t] EXCEPT !.seen = saw, !.at = to]
<1>2. /\ saw \in {Exclusive, Flagged(Exclusive)} /\ saw \in Word
      /\ saw.waiters <=> word.waiters
  BY Types, Words
<1>3. to \in {"downlock", "downset"} /\ to \in Where
  BY DEF Where
<1>4. Set(t, q)
  BY DEF Down
<1> HIDE DEF saw
<1>5. q \in ProcType /\ q.seen = saw /\ q.at = to /\ q.locked = proc[t].locked
  BY <1>2, <1>3, Types DEF ProcType
<1> HIDE DEF q
<1>6. /\ proc'[t].at = to /\ proc'[t].seen = saw
      /\ to = "downset" => proc'[t].locked = proc[t].locked
  BY <1>1, <1>3, <1>4, <1>5, SetParts, Types
<1>7. /\ (Sharing(t)' <=> Sharing(t)) /\ (Owning(t)' <=> Owning(t))
      /\ Locked(t)' /\ ~ At(t, "wakeup")
  BY <1>1, <1>3, <1>6 DEF Sharing, Owning, Locked, At
<1>8. Knows(t)'
  BY <1>1, <1>2, <1>6 DEF Knows
<1> QED
  BY <1>1, <1>3, <1>4, <1>5, <1>7, <1>8, QuietInv

(* The owner goes on as a sharer and will wake who waits, or looks again,  *)
(* without the lock if the loop took it.                                   *)
LEMMA DownsetInv ==
  ASSUME Inv, NEW t \in Thread, Downset(t)
  PROVE  Inv' /\ Lawful(t)
<1>1. /\ proc[t].at = "downset" /\ plock' = plock
      /\ proc[t].locked \/ proc[t].seen.waiters => plock = t
  BY DEF Downset, At, Inv, Knows
<1>2. Owning(t) /\ ~ Sharing(t) /\ ~ At(t, "wakeup")
  BY <1>1 DEF Sharing, Owning, At
<1> DEFINE to == IF proc[t].seen.waiters THEN "wakeup"
                 ELSE IF proc[t].locked THEN "unlock" ELSE "shared"
<1>3. CASE /\ word = proc[t].seen /\ word' = Sharers(1)
           /\ Set(t, [proc[t] EXCEPT !.next = "shared", !.at = to])
  <2> DEFINE q == [proc[t] EXCEPT !.next = "shared", !.at = to]
  <2>1. q \in ProcType /\ q.next = "shared" /\ Set(t, q) /\ q.at = to
    BY <1>3, Types DEF ProcType, Where
  <2>2. word' \in WordType /\ ~ word'.waiters
    BY <1>3, Words
  <2> HIDE DEF q
  <2>3. /\ Moves(t, Local(q)) /\ Local(q).at = to
        /\ proc'[t].at = to /\ (to \in {"unlock", "wakeup"} => proc'[t].next = "shared")
        /\ to = "unlock" => ~ proc'[t].locked
    BY <1>1, <2>1, <2>2, SetParts, LocalParts
  <2>4. ~ Owning(t)' /\ Sharing(t)' /\ Knows(t)' /\ Locked(t)'
    BY <1>1, <2>3 DEF Owning, Sharing, Knows, Locked
  <2>5. Counted'
    BY <1>2, <1>3, <2>3, <2>4, CountReleased
  <2>6. WaitersBusy' /\ (Announced => to = "wakeup") /\ to # "asleep"
    BY <1>3, <2>2 DEF WaitersBusy, Announced
  <2> QED
    BY <1>2, <2>3, <2>4, <2>5, <2>6, StepInv
<1>4. CASE word' = word /\ Set(t, [proc[t] EXCEPT !.at = "unlock", !.next = "down"])
           /\ proc[t].seen.waiters
  <2> DEFINE q == [proc[t] EXCEPT !.at = "unlock", !.next = "down"]
  <2>1. q \in ProcType /\ q.at = "unlock" /\ q.next = "down" /\ Set(t, q)
    BY <1>4, Types DEF ProcType, Where
  <2> HIDE DEF q
  <2>2. proc'[t].at = "unlock" /\ proc'[t].next = "down" /\ ~ proc'[t].locked
    BY <1>1, <1>4, <2>1, SetParts, Types
  <2>3. Owning(t)' /\ ~ Sharing(t)' /\ Knows(t)' /\ Locked(t)'
    BY <1>1, <1>4, <2>2 DEF Owning, Sharing, Knows, Locked
  <2> QED
    BY <1>1, <1>2, <1>4, <2>1, <2>3, QuietInv
<1>5. CASE Goto(t, "down") /\ word' = word
  <2>1. "down" \in Where /\ word' \in WordType
    BY <1>5, Types DEF Where
  <2>2. proc'[t].at = "down" /\ proc'[t].locked = proc[t].locked
    BY <1>1, <1>5, <2>1, GotoParts
  <2>3. Owning(t)' /\ ~ Sharing(t)' /\ Knows(t)' /\ Locked(t)'
    BY <1>1, <2>2 DEF Owning, Sharing, Knows, Locked
  <2> QED
    BY <1>1, <1>2, <1>5, <2>1, <2>3, QuietGoto
<1> QED
  BY <1>3, <1>4, <1>5 DEF Downset

(* Somebody with the lock looks whether anybody waits.                     *)
LEMMA FlashInv ==
  ASSUME Inv, NEW t \in Thread, Flash(t)
  PROVE  Inv' /\ Lawful(t)
<1>1. proc[t].at = "flash" /\ plock' = plock /\ plock = t /\ word' = word
  <2>1. Locked(t) /\ proc[t].at = "flash"
    BY InvParts DEF Flash, At
  <2> QED
    BY <2>1 DEF Locked, Flash
<1> DEFINE to == IF word.waiters THEN "unflag" ELSE "unlock"
           q == [proc[t] EXCEPT !.seen = word, !.next = "out", !.at = to]
<1>2. to \in {"unflag", "unlock"}
  OBVIOUS
<1>3. q \in ProcType /\ q.seen = word /\ q.at = to /\ q.next = "out"
  BY Types DEF ProcType, Where
<1>4. Set(t, q)
  BY DEF Flash
<1> HIDE DEF q
<1>5. /\ proc'[t].at = to /\ (to = "unlock" => proc'[t].next = "out" /\ ~ proc'[t].locked)
      /\ to = "unflag" => proc'[t].next = "out"
  BY <1>1, <1>2, <1>3, <1>4, SetParts, Types, LocalParts
<1>6. /\ (Sharing(t)' <=> Sharing(t)) /\ (Owning(t)' <=> Owning(t))
      /\ Knows(t)' /\ Locked(t)' /\ ~ At(t, "wakeup")
  BY <1>1, <1>2, <1>5 DEF Sharing, Owning, Knows, Locked, At
<1> QED
  BY <1>1, <1>2, <1>3, <1>4, <1>6, QuietInv

(* The bit is cleared with a wakeup to follow, or looked at again.         *)
LEMMA UnflagInv ==
  ASSUME Inv, NEW t \in Thread, Unflag(t)
  PROVE  Inv' /\ Lawful(t)
<1>1. proc[t].at = "unflag" /\ plock' = plock /\ plock = t
  <2>1. Locked(t) /\ proc[t].at = "unflag"
    BY InvParts DEF Unflag, At
  <2> QED
    BY <2>1 DEF Locked, Unflag
<1>2. ~ Sharing(t) /\ ~ Owning(t) /\ ~ At(t, "wakeup")
  BY <1>1 DEF Sharing, Owning, At
<1>3. CASE word = proc[t].seen /\ word' = [word EXCEPT !.waiters = FALSE] /\ Goto(t, "wakeup")
  <2>1. /\ word' \in WordType /\ word'.sharers = word.sharers
        /\ word'.exclusive = word.exclusive /\ ~ word'.waiters
        /\ "wakeup" \in Where
    BY <1>3, Types DEF WordType, Where
  <2>2. /\ Moves(t, Local([proc[t] EXCEPT !.at = "wakeup"]))
        /\ Local([proc[t] EXCEPT !.at = "wakeup"]).at = "wakeup"
        /\ proc'[t].at = "wakeup" /\ proc'[t].next = proc[t].next
    BY <1>1, <1>3, <2>1, GotoParts
  <2>3. proc[t].next = "out"
    BY <1>1 DEF Inv, Knows
  <2>4. ~ Owning(t)' /\ ~ Sharing(t)' /\ Knows(t)' /\ Locked(t)'
    BY <1>1, <2>2, <2>3 DEF Owning, Sharing, Knows, Locked
  <2>5. Counted'
    BY <1>2, <2>1, <2>2, <2>4, CountKept
  <2> QED
    BY <1>2, <2>1, <2>2, <2>4, <2>5, StepInv DEF WaitersBusy
<1>4. CASE Goto(t, "flash") /\ word' = word
  <2>1. "flash" \in Where /\ word' \in WordType
    BY <1>4, Types DEF Where
  <2>2. proc'[t].at = "flash"
    BY <1>1, <1>4, <2>1, GotoParts
  <2>3. ~ Owning(t)' /\ ~ Sharing(t)' /\ Knows(t)' /\ Locked(t)'
    BY <1>1, <2>2 DEF Owning, Sharing, Knows, Locked
  <2> QED
    BY <1>1, <1>2, <1>4, <2>1, <2>3, QuietGoto
<1> QED
  BY <1>3, <1>4 DEF Unflag

(* The lock is freed, and the thread goes on.                              *)
LEMMA UnlockInv ==
  ASSUME Inv, NEW t \in Thread, Unlock(t)
  PROVE  Inv' /\ Lawful(t)
<1>1. /\ proc[t].at = "unlock" /\ plock' = Nobody /\ plock = t /\ word' = word
      /\ Goto(t, proc[t].next)
  <2>1. Locked(t) /\ proc[t].at = "unlock"
    BY InvParts DEF Unlock, At
  <2> QED
    BY <2>1 DEF Locked, Unlock
<1>2. proc[t].next \in {"out", "shared", "sunbusy", "down"}
  BY <1>1 DEF Inv, Knows
<1>3. proc[t].next \in Where /\ word' \in WordType
  BY <1>1, <1>2, Types DEF Where
<1>4. proc'[t].at = proc[t].next
  BY <1>1, <1>3, GotoParts
<1>5. proc[t].next = "down" => ~ proc'[t].locked
  BY <1>1, <1>2, <1>3, GotoParts DEF Inv, Knows
<1>6. /\ (Sharing(t)' <=> Sharing(t)) /\ (Owning(t)' <=> Owning(t))
      /\ Knows(t)' /\ Locked(t)' /\ ~ At(t, "wakeup")
  BY <1>1, <1>2, <1>4, <1>5 DEF Sharing, Owning, Knows, Locked, At
<1> QED
  BY <1>1, <1>2, <1>3, <1>6, QuietGoto

(* Every sleeper tries again.                                              *)
LEMMA WakeupInv ==
  ASSUME Inv, NEW t \in Thread, Wakeup(t)
  PROVE  Inv' /\ Lawful(t)
<1>1. /\ proc[t].at = "wakeup" /\ plock' = plock /\ plock = t /\ word' = word
      /\ proc[t].next \in {"out", "shared"}
  <2>1. Locked(t) /\ Knows(t) /\ proc[t].at = "wakeup"
    BY InvParts DEF Wakeup, At
  <2> QED
    BY <2>1 DEF Locked, Knows, Wakeup
<1> DEFINE q == [proc[t] EXCEPT !.at = "unlock"]
<1>2. q \in ProcType /\ q.at = "unlock" /\ q.next = proc[t].next
  BY Types DEF ProcType, Where
<1>3. proc' = [s \in Thread |->
         IF s = t THEN Local(q)
         ELSE IF At(s, "asleep") THEN [proc[s] EXCEPT !.at = "try"] ELSE proc[s]]
  BY DEF Wakeup
<1> HIDE DEF q
<1>4. /\ proc'[t] = Local(q) /\ Local(q) \in ProcType
      /\ proc'[t].at = "unlock" /\ proc'[t].next = proc[t].next /\ ~ proc'[t].locked
  BY <1>2, <1>3, LocalParts
<1>5. ASSUME NEW s \in Thread, s # t
      PROVE  /\ proc'[s] \in ProcType /\ proc'[s].at # "asleep"
             /\ \/ proc'[s] = proc[s]
                \/ proc[s].at = "asleep" /\ proc'[s].at = "try"
  <2>1. CASE proc[s].at = "asleep"
    <3>1. proc'[s] = [proc[s] EXCEPT !.at = "try"]
      BY <1>3, <1>5, <2>1 DEF At
    <3>2. proc[s] \in ProcType
      BY Types
    <3> QED
      BY <2>1, <3>1, <3>2 DEF ProcType, Where
  <2>2. CASE proc[s].at # "asleep"
    <3>1. proc'[s] = proc[s]
      BY <1>3, <1>5, <2>2 DEF At
    <3> QED
      BY <2>2, <3>1, Types
  <2> QED
    BY <2>1, <2>2
<1>6. \A s \in Thread : (Sharing(s)' <=> Sharing(s)) /\ (Owning(s)' <=> Owning(s))
  <2>1. (Sharing(t)' <=> Sharing(t)) /\ (Owning(t)' <=> Owning(t))
    BY <1>1, <1>4 DEF Sharing, Owning
  <2>2. ASSUME NEW s \in Thread, s # t
        PROVE  (Sharing(s)' <=> Sharing(s)) /\ (Owning(s)' <=> Owning(s))
    BY <1>5, <2>2 DEF Sharing, Owning
  <2> QED
    BY <2>1, <2>2
<1>7. \A s \in Thread : Knows(s)' /\ Locked(s)'
  <2>1. Knows(t)' /\ Locked(t)'
    BY <1>1, <1>4 DEF Knows, Locked
  <2>2. ASSUME NEW s \in Thread, s # t
        PROVE  Knows(s)' /\ Locked(s)'
    <3>1. Knows(s) /\ Locked(s)
      BY InvParts
    <3> QED
      BY <1>1, <1>5, <2>2, <3>1 DEF Knows, Locked
  <2> QED
    BY <2>1, <2>2
<1>8. Counted'
  <2>1. SharingThreads' = SharingThreads /\ OwningThreads' = OwningThreads
    BY <1>6 DEF SharingThreads, OwningThreads
  <2>2. Counted
    BY InvParts
  <2> QED
    BY <1>1, <2>1, <2>2 DEF Counted
<1>9. TypeOK'
  <2>1. proc' \in [Thread -> ProcType]
    <3>1. \A s \in Thread : proc'[s] \in ProcType
      BY <1>4, <1>5
    <3> QED
      BY <1>3, <3>1
  <2> QED
    BY <1>1, <2>1, Types DEF TypeOK, ProcType
<1>10. SleepersAnnounced'
  BY <1>4, <1>5 DEF SleepersAnnounced, At
<1>11. WaitersBusy'
  BY <1>1 DEF Inv, WaitersBusy
<1>12. Lawful(t)
  <2>1. ~ (Sharing(t) /\ Owning(t))
    BY InvParts, HolderWord
  <2> QED
    BY <1>6, <2>1 DEF Lawful, Held
<1> QED
  BY <1>7, <1>8, <1>9, <1>10, <1>11, <1>12
  DEF Inv, HoldersAndSleepers, HoldersCounted, Counted, SharingThreads, OwningThreads,
      Locked

(***************************************************************************)
(* The theorems.                                                           *)
(***************************************************************************)
(* Whichever thread takes whichever step. *)
LEMMA NextInv ==
  ASSUME Inv, Next
  PROVE  Inv' /\ \E t \in Thread : Lawful(t)
<1>1. PICK t \in Thread : Begin(t) \/ Running(t) \/ Blocking(t)
  BY DEF Next
<1> QED
  BY <1>1, BeginInv, TryInv, JoinInv, BlockInv, BusySleepInv, MarkInv, SunbusyInv,
     DropInv, SunlockInv, SunhardInv, ReleaseInv, LockingInv, XunbusyInv, HardInv,
     StoreUnbusiedInv, DownInv, DownlockInv, DownsetInv, FlashInv, UnflagInv,
     WakeupInv, UnlockInv
  DEF Running, Blocking

(* At first the page is free and nobody wants it. *)
LEMMA InitInv == Init => Inv
<1> SUFFICES ASSUME Init
             PROVE  Inv
  OBVIOUS
<1>1. /\ word = Unbusied /\ plock = Nobody
      /\ \A t \in Thread : proc[t] = [at |-> "out", next |-> "out", want |-> "free",
                                     seen |-> Unbusied, locked |-> FALSE]
      /\ Cardinality(Thread) \in Nat
  BY ThreadsFinite DEF Init
<1>2. /\ SharingThreads = {} /\ OwningThreads = {}
      /\ \A t \in Thread : Knows(t) /\ Locked(t) /\ ~ At(t, "asleep")
  BY <1>1 DEF SharingThreads, OwningThreads, Sharing, Owning, Knows, Locked, At
<1>3. Counted
  BY <1>1, <1>2, FS_EmptySet, Words DEF Counted
<1>4. Unbusied \in Word
  BY <1>1, Words, WordOfType
<1>5. TypeOK
  BY <1>4 DEF Init, TypeOK, Where, Want
<1>6. SleepersAnnounced /\ WaitersBusy
  BY <1>1, <1>2, Words DEF SleepersAnnounced, WaitersBusy
<1> QED
  BY <1>2, <1>3, <1>5, <1>6, InvParts

(* The invariant holds in every state of the protocol. *)
LEMMA Invariance == Spec => []Inv
<1>1. Inv /\ UNCHANGED vars => Inv'
  BY DEF Inv, vars, HoldersAndSleepers, HoldersCounted, SleepersAnnounced, TypeOK,
         WaitersBusy, Knows, Sharing, Owning, At
<1> QED
  BY <1>1, InitInv, NextInv, PTL DEF Spec

(* The word of a page counts exactly the threads that hold it, and whoever *)
(* sleeps for the page is announced by the waiters bit or about to be      *)
(* woken, for any number of threads in any interleaving of the loads and   *)
(* compare-and-sets of vm_page.c.                                          *)
THEOREM HoldersAndSleepersHold == Spec => []HoldersAndSleepers
<1>1. Inv => HoldersAndSleepers
  BY DEF Inv
<1> QED
  BY <1>1, Invariance, PTL

(* A page that somebody owns is held by nobody else.                       *)
Excluded == \A t, s \in Thread : s # t /\ Held(t) = "exclusive" => Held(s) = "no"

(* It is what the counts of the word amount to.                            *)
LEMMA InvExcludes == Inv => Excluded
<1> SUFFICES ASSUME Inv, NEW t \in Thread, NEW s \in Thread, s # t, Held(t) = "exclusive"
             PROVE  Held(s) = "no"
  BY DEF Excluded
<1>1. Owning(t)
  BY DEF Held
<1>2. SharingThreads = {} /\ OwningThreads = {t}
  BY <1>1, HolderWord, InvParts
<1> QED
  BY <1>2 DEF SharingThreads, OwningThreads, Held

(* A step changes no thread's hold of the page, or is one of the lock's.   *)
LEMMA StepImplements ==
  ASSUME Inv, Inv', NEW t \in Thread, Lawful(t)
  PROVE  [Abstract!Next]_([s \in Thread |-> Held(s)])
<1> DEFINE holding == [s \in Thread |-> Held(s)]
<1>1. Excluded'
  BY InvExcludes, PTL
<1>2. holding' = [holding EXCEPT ![t] = Held(t)']
  BY DEF Lawful
<1>3. /\ Held(t) \in {"no", "shared", "exclusive"}
      /\ Held(t)' \in {"no", "shared", "exclusive"}
      /\ ~ (Held(t) = "shared" /\ Held(t)' = "exclusive")
  BY DEF Lawful, Held
<1>4. CASE Held(t)' = Held(t)
  <2>1. holding' = holding
    BY <1>2, <1>4
  <2> QED
    BY <2>1
<1>5. CASE Held(t) = "no" /\ Held(t)' = "shared"
  <2>1. \A s \in Thread : holding[s] # "exclusive"
    BY <1>1, <1>5 DEF Excluded, Lawful
  <2>2. Abstract!Share(t)
    BY <1>2, <1>5, <2>1 DEF Abstract!Share, Abstract!Holds
  <2> QED
    BY <2>2 DEF Abstract!Next
<1>6. CASE Held(t) = "no" /\ Held(t)' = "exclusive"
  <2>1. \A s \in Thread : holding[s] = "no"
    BY <1>1, <1>6 DEF Excluded, Lawful
  <2>2. Abstract!Own(t)
    BY <1>2, <1>6, <2>1 DEF Abstract!Own, Abstract!Holds
  <2> QED
    BY <2>2 DEF Abstract!Next
<1>7. CASE Held(t) = "exclusive" /\ Held(t)' = "shared"
  <2>1. Abstract!Downgrade(t)
    BY <1>2, <1>7 DEF Abstract!Downgrade, Abstract!Holds
  <2> QED
    BY <2>1 DEF Abstract!Next
<1>8. CASE Held(t) \in {"shared", "exclusive"} /\ Held(t)' = "no"
  <2>1. Abstract!GiveBack(t)
    BY <1>2, <1>8 DEF Abstract!GiveBack, Abstract!Holds
  <2> QED
    BY <2>1 DEF Abstract!Next
<1> QED
  BY <1>3, <1>4, <1>5, <1>6, <1>7, <1>8

(* The protocol on the word implements the lock that PageLock describes:   *)
(* shared by any number or owned by one, with a downgrade that leaves no   *)
(* gap, for any number of threads.                                         *)
THEOREM ImplementsPageLock == Spec => IsPageLock
<1>1. Init => Abstract!Init
  BY DEF Init, Abstract!Init, Held, Sharing, Owning
<1>2. Inv /\ Inv' /\ [Next]_vars => [Abstract!Next]_([t \in Thread |-> Held(t)])
  <2>1. CASE Inv /\ Inv' /\ Next
    BY <2>1, NextInv, StepImplements
  <2>2. CASE UNCHANGED vars
    <3>1. proc' = proc
      BY <2>2 DEF vars
    <3> QED
      BY <3>1 DEF Held, Sharing, Owning
  <2> QED
    BY <2>1, <2>2
<1> QED
  BY <1>1, <1>2, Invariance, PTL DEF Spec, IsPageLock, Abstract!Spec
=============================================================================
