----------------------------- MODULE IdleProofs -----------------------------
(***************************************************************************)
(* No CPU stays halted with a thread on its queue, and a pending mark has  *)
(* its interrupt on the way, for any number of remote CPUs and stores that *)
(* wait in their buffers.                                                  *)
(***************************************************************************)
EXTENDS IdleNotify, WellFoundedInduction, TLAPS

(***************************************************************************)
(* The inductive invariant                                                 *)
(***************************************************************************)
In(b, w) == \E s \in Range(b) : s.word = w

(* Who does not hold the lock has no stores to what it guards.             *)
Guarded(p) == mem.lock # p => \A s \in Range(buf[p]) : s.word = "idle"

(* The lock is freed last, and the load is stored once in between.         *)
Ordered(b) ==
  \A i, j \in DOMAIN b :
    /\ b[i].word = "lock" /\ i < j => b[j].word = "idle"
    /\ b[i].word = "load" /\ b[j].word = "load" => i = j

(* What a remote CPU has stored, where it stands.                          *)
Stored(p) ==
  /\ ~ In(buf[p], "idle")
  /\ \A s \in Range(buf[p]) : s.word = "pending" => s.value = TRUE
  /\ rpc[p] # "out" => mem.lock = p /\ ~ In(buf[p], "lock")
  /\ rpc[p] \in {"add", "send"} => buf[p] = <<>>
  /\ rpc[p] \in {"notify", "wake"} => ~ In(buf[p], "pending")

(* It has sent the interrupt it marked, and it has told Self of the thread *)
(* it added unless Self knew of one.                                       *)
Told(p) ==
  /\ In(buf[p], "pending") => ipi
  /\ rpc[p] \in {"unlock", "out"} /\ In(buf[p], "load") /\ Load(p, "load") > 0
       => ipi \/ cur = "thread" \/ mem.load > 0

(* Self has said that it idles before it looks at the load for the last    *)
(* time, and everybody has seen it once it has looked.                     *)
Announced ==
  /\ \A s \in Range(buf[Self]) : s.word = "pending" => s.value = FALSE
  /\ pc \in {"recheck", "cpu_idle", "halted"} => Load(Self, "idle") = TRUE
  /\ pc \in {"cpu_idle", "halted"} => ~ In(buf[Self], "idle")
  /\ cur = "thread" => pc # "halted"

(* A thread that runs is counted.                                          *)
Counted ==
  cur = "thread" =>
    /\ \A p \in Cpu : \A s \in Range(buf[p]) : s.word = "load" => s.value > 0
    /\ mem.load > 0 \/ \E p \in Cpu : In(buf[p], "load")

Inv ==
  /\ TypeOK
  /\ \A p \in Cpu : Guarded(p) /\ Ordered(buf[p])
  /\ \A p \in Remote : Stored(p) /\ Told(p)
  /\ Announced /\ Counted /\ MarkBacked /\ NoLostWakeup

(***************************************************************************)
(* Store buffers                                                           *)
(***************************************************************************)
(* The stores of a buffer, after one is made and after one reaches memory. *)
LEMMA RangeParts ==
  ASSUME NEW b \in Seq(Store)
  PROVE  /\ Range(b) \subseteq Store
         /\ \A w : In(b, w) <=> \E i \in DOMAIN b : b[i].word = w
         /\ b = <<>> <=> Range(b) = {}
<1>1. DOMAIN b = 1 .. Len(b) /\ Len(b) \in Nat /\ \A i \in DOMAIN b : b[i] \in Store
  OBVIOUS
<1>2. \A s : s \in Range(b) <=> \E i \in DOMAIN b : b[i] = s
  BY DEF Range
<1>3. b # <<>> => 1 \in DOMAIN b
  OBVIOUS
<1>4. b # <<>> => b[1] \in Range(b)
  BY <1>2, <1>3
<1>5. \A w : In(b, w) <=> \E i \in DOMAIN b : b[i].word = w
  BY <1>2 DEF In
<1>6. Range(b) \subseteq Store
  BY <1>1, <1>2
<1>7. b = <<>> => Range(b) = {}
  BY <1>1, <1>2
<1> QED
  BY <1>4, <1>5, <1>6, <1>7

LEMMA RangeAppended ==
  ASSUME NEW b \in Seq(Store), NEW s \in Store
  PROVE  Append(b, s) \in Seq(Store) /\ Range(Append(b, s)) = Range(b) \cup {s}
<1> DEFINE a == Append(b, s)
<1>1. a \in Seq(Store) /\ DOMAIN a = 1 .. Len(b) + 1 /\ a[Len(b) + 1] = s
      /\ \A i \in 1 .. Len(b) : a[i] = b[i]
  OBVIOUS
<1>2. DOMAIN b = 1 .. Len(b) /\ Len(b) \in Nat
  OBVIOUS
<1> HIDE DEF a
<1>3. \A x : x \in Range(a) <=> x \in Range(b) \/ x = s
  BY <1>1, <1>2 DEF Range
<1> QED
  BY <1>1, <1>3 DEF a

LEMMA RangeDrained ==
  ASSUME NEW b \in Seq(Store), b # <<>>
  PROVE  /\ Head(b) \in Store /\ Tail(b) \in Seq(Store)
         /\ Range(b) = Range(Tail(b)) \cup {Head(b)}
<1> DEFINE t == Tail(b)
<1>1. t \in Seq(Store) /\ DOMAIN t = 1 .. Len(b) - 1 /\ Head(b) = b[1]
      /\ Head(b) \in Store /\ \A i \in 1 .. Len(b) - 1 : t[i] = b[i + 1]
  OBVIOUS
<1>2. DOMAIN b = 1 .. Len(b) /\ Len(b) \in Nat /\ Len(b) # 0
  OBVIOUS
<1> HIDE DEF t
<1>3. ASSUME NEW i \in DOMAIN b
      PROVE  b[i] \in Range(t) \cup {Head(b)}
  <2>1. i = 1 \/ (i - 1 \in DOMAIN t /\ t[i - 1] = b[i])
    BY <1>1, <1>2
  <2> QED
    BY <1>1, <2>1 DEF Range
<1>4. ASSUME NEW i \in DOMAIN t
      PROVE  t[i] \in Range(b)
  <2>1. i + 1 \in DOMAIN b /\ b[i + 1] = t[i]
    BY <1>1, <1>2
  <2> QED
    BY <2>1 DEF Range
<1>5. Head(b) \in Range(b)
  BY <1>1, <1>2 DEF Range
<1>6. \A x : x \in Range(b) <=> x \in Range(t) \/ x = Head(b)
  BY <1>3, <1>4, <1>5 DEF Range
<1> QED
  BY <1>1, <1>6 DEF t

(* The order of the stores, after one is made and after one reaches        *)
(* memory.                                                                 *)
LEMMA OrderedAppended ==
  ASSUME NEW b \in Seq(Store), NEW s \in Store, Ordered(b),
         In(b, "lock") => s.word = "idle", In(b, "load") => s.word # "load"
  PROVE  Ordered(Append(b, s))
<1> DEFINE a == Append(b, s)
<1>1. a \in Seq(Store) /\ DOMAIN a = 1 .. Len(b) + 1 /\ a[Len(b) + 1] = s
      /\ \A i \in 1 .. Len(b) : a[i] = b[i]
  OBVIOUS
<1>2. DOMAIN b = 1 .. Len(b) /\ Len(b) \in Nat
  OBVIOUS
<1>3. \A w : In(b, w) <=> \E i \in DOMAIN b : b[i].word = w
  BY RangeParts
<1> HIDE DEF a
<1> SUFFICES ASSUME NEW i \in DOMAIN a, NEW j \in DOMAIN a
             PROVE  /\ a[i].word = "lock" /\ i < j => a[j].word = "idle"
                    /\ a[i].word = "load" /\ a[j].word = "load" => i = j
  BY DEF Ordered, a
<1>4. CASE i \in DOMAIN b /\ j \in DOMAIN b
  BY <1>1, <1>2, <1>4 DEF Ordered
<1>5. CASE i \in DOMAIN b /\ j = Len(b) + 1
  BY <1>1, <1>2, <1>3, <1>5
<1>6. CASE i = Len(b) + 1 /\ j \in DOMAIN b
  BY <1>1, <1>2, <1>3, <1>6
<1>7. CASE i = Len(b) + 1 /\ j = Len(b) + 1
  BY <1>2, <1>7
<1> QED
  BY <1>1, <1>2, <1>4, <1>5, <1>6, <1>7

LEMMA OrderedDrained ==
  ASSUME NEW b \in Seq(Store), b # <<>>, Ordered(b)
  PROVE  /\ Ordered(Tail(b))
         /\ Head(b).word = "lock" => \A s \in Range(Tail(b)) : s.word = "idle"
         /\ Head(b).word = "load" => ~ In(Tail(b), "load")
<1> DEFINE t == Tail(b)
<1>1. t \in Seq(Store) /\ DOMAIN t = 1 .. Len(b) - 1 /\ Head(b) = b[1]
      /\ \A i \in 1 .. Len(b) - 1 : t[i] = b[i + 1]
  OBVIOUS
<1>2. DOMAIN b = 1 .. Len(b) /\ Len(b) \in Nat /\ Len(b) # 0
  OBVIOUS
<1>3. \A w : In(t, w) <=> \E i \in DOMAIN t : t[i].word = w
  BY <1>1, RangeParts
<1> HIDE DEF t
<1>4. \A i \in DOMAIN t : i + 1 \in DOMAIN b /\ t[i] = b[i + 1] /\ 1 < i + 1
  BY <1>1, <1>2
<1>5. Ordered(t)
  <2> SUFFICES ASSUME NEW i \in DOMAIN t, NEW j \in DOMAIN t
               PROVE  /\ t[i].word = "lock" /\ i < j => t[j].word = "idle"
                      /\ t[i].word = "load" /\ t[j].word = "load" => i = j
    BY DEF Ordered
  <2>1. i \in Nat /\ j \in Nat
    BY <1>1, <1>2
  <2>2. i < j => i + 1 < j + 1
    BY <2>1
  <2>3. i + 1 = j + 1 => i = j
    BY <2>1
  <2> QED
    BY <1>4, <2>2, <2>3 DEF Ordered
<1>6. 1 \in DOMAIN b
  BY <1>2
<1>7. Head(b).word = "lock" => \A s \in Range(t) : s.word = "idle"
  BY <1>1, <1>4, <1>6 DEF Ordered, Range
<1>8. Head(b).word = "load" => ~ In(t, "load")
  <2>1. ASSUME NEW i \in DOMAIN t
        PROVE  i + 1 # 1
    BY <1>1, <1>2
  <2> QED
    BY <1>1, <1>3, <1>4, <1>6, <2>1 DEF Ordered
<1> QED
  BY <1>5, <1>7, <1>8 DEF t

(* A set of positions in a sequence has a largest one.                     *)
LEMMA LargestExists ==
  ASSUME NEW n \in Nat, NEW S \in SUBSET (1 .. n), S # {}
  PROVE  Max(S) \in S /\ \A i \in S : i <= Max(S)
<1> DEFINE T == {n - i : i \in S}
           R == {ss \in Nat \X Nat : ss[1] < ss[2]}
<1>1. \A i \in S : i \in Int /\ i <= n
  OBVIOUS
<1>2. T \subseteq Nat
  BY <1>1
<1>3. T # {}
  OBVIOUS
<1>4. IsWellFoundedOn(R, Nat)
  BY NatLessThanWellFounded DEF OpToRel
<1>5. PICK x \in T : \A y \in T : ~ (<<y, x>> \in R)
  <2> HIDE DEF T, R
  <2> QED
    BY <1>2, <1>3, <1>4, WFMin
<1>6. \A y \in T : ~ (y < x)
  <2> SUFFICES ASSUME NEW y \in T
               PROVE  ~ (y < x)
    OBVIOUS
  <2>1. y \in Nat /\ x \in Nat
    BY <1>2
  <2> QED
    BY <1>5, <2>1
<1>7. PICK m \in S : x = n - m
  OBVIOUS
<1>8. \A i \in S : m >= i
  <2> SUFFICES ASSUME NEW i \in S
               PROVE  m >= i
    OBVIOUS
  <2>1. n - i \in T
    OBVIOUS
  <2>2. ~ (n - i < n - m)
    BY <1>6, <1>7, <2>1
  <2> QED
    BY <1>1, <2>2
<1> QED
  BY <1>1, <1>8 DEF Max

(* The newest store of a word is one of the buffer's, the last of its      *)
(* word; without any, the word keeps its value.                            *)
LEMMA NewestKnown ==
  ASSUME NEW b \in Seq(Store), NEW w, NEW old
  PROVE  /\ ~ In(b, w) => Newest(b, w, old) = old
         /\ In(b, w) => \E i \in DOMAIN b :
              /\ b[i].word = w /\ Newest(b, w, old) = b[i].value
              /\ \A j \in DOMAIN b : b[j].word = w => j <= i
<1> DEFINE mine == {i \in DOMAIN b : b[i].word = w}
<1>1. ~ In(b, w) <=> mine = {}
  BY RangeParts
<1>2. ASSUME mine # {}
      PROVE  Max(mine) \in mine /\ \A i \in mine : i <= Max(mine)
  <2>1. Len(b) \in Nat /\ mine \in SUBSET (1 .. Len(b))
    OBVIOUS
  <2> HIDE DEF mine
  <2> QED
    BY <1>2, <2>1, LargestExists
<1> QED
  BY <1>1, <1>2 DEF Newest

(* The newest store of a word, in other words.                             *)
LEMMA NewestIs ==
  ASSUME NEW b \in Seq(Store), NEW w, NEW old, NEW i \in DOMAIN b, b[i].word = w,
         \A j \in DOMAIN b : b[j].word = w => j <= i
  PROVE  Newest(b, w, old) = b[i].value
<1>1. In(b, w)
  BY RangeParts
<1>2. PICK k \in DOMAIN b : /\ b[k].word = w /\ Newest(b, w, old) = b[k].value
                            /\ \A j \in DOMAIN b : b[j].word = w => j <= k
  BY <1>1, NewestKnown
<1>3. k = i
  <2>1. i <= k /\ k <= i
    BY <1>2
  <2>2. i \in Nat /\ k \in Nat
    OBVIOUS
  <2> QED
    BY <2>1, <2>2
<1> QED
  BY <1>2, <1>3

(* A CPU that makes a store sees it, and what it had stored before.        *)
LEMMA NewestAppended ==
  ASSUME NEW b \in Seq(Store), NEW s \in Store, NEW w, NEW old
  PROVE  /\ Append(b, s) \in Seq(Store)
         /\ In(Append(b, s), w) <=> In(b, w) \/ s.word = w
         /\ Newest(Append(b, s), w, old) =
              IF s.word = w THEN s.value ELSE Newest(b, w, old)
<1> DEFINE a == Append(b, s)
<1>1. a \in Seq(Store) /\ DOMAIN a = 1 .. Len(b) + 1 /\ a[Len(b) + 1] = s
      /\ \A i \in 1 .. Len(b) : a[i] = b[i]
  OBVIOUS
<1>2. DOMAIN b = 1 .. Len(b) /\ Len(b) \in Nat
  OBVIOUS
<1> HIDE DEF a
<1>3. In(a, w) <=> In(b, w) \/ s.word = w
  BY RangeAppended DEF In, a
<1>4. CASE s.word = w
  <2>1. \A j \in DOMAIN a : j <= Len(b) + 1
    BY <1>1, <1>2
  <2>2. Len(b) + 1 \in DOMAIN a
    BY <1>1, <1>2
  <2>3. Newest(a, w, old) = a[Len(b) + 1].value
    BY <1>1, <1>4, <2>1, <2>2, NewestIs
  <2> QED
    BY <1>1, <1>3, <1>4, <2>3 DEF a
<1>5. CASE s.word # w /\ In(b, w)
  <2>1. PICK i \in DOMAIN b : /\ b[i].word = w /\ Newest(b, w, old) = b[i].value
                              /\ \A j \in DOMAIN b : b[j].word = w => j <= i
    <3>1. In(b, w)
      BY <1>5
    <3> QED
      BY <3>1, NewestKnown
  <2>2. i \in DOMAIN a /\ a[i] = b[i]
    BY <1>1, <1>2
  <2>3. \A j \in DOMAIN a : a[j].word = w => j <= i
    BY <1>1, <1>2, <1>5, <2>1
  <2>4. Newest(a, w, old) = a[i].value
    <3>1. a \in Seq(Store)
      BY <1>1
    <3>2. a[i].word = w
      BY <2>1, <2>2
    <3> QED
      BY <2>2, <2>3, <3>1, <3>2, NewestIs, ZenonT(60)
  <2> QED
    BY <1>1, <1>3, <1>5, <2>1, <2>2, <2>4 DEF a
<1>6. CASE s.word # w /\ ~ In(b, w)
  <2>1. ~ In(b, w) /\ ~ In(a, w)
    BY <1>3, <1>6
  <2>2. Newest(b, w, old) = old /\ Newest(a, w, old) = old
    BY <1>1, <2>1, NewestKnown
  <2> QED
    BY <1>1, <1>3, <1>6, <2>2 DEF a

<1> QED
  BY <1>4, <1>5, <1>6

(* A store that reaches memory changes nothing for the CPU that made it.   *)
LEMMA NewestDrained ==
  ASSUME NEW b \in Seq(Store), b # <<>>, NEW w, NEW old
  PROVE  /\ Head(b) \in Store /\ Tail(b) \in Seq(Store)
         /\ In(b, w) <=> In(Tail(b), w) \/ Head(b).word = w
         /\ Newest(Tail(b), w, IF Head(b).word = w THEN Head(b).value ELSE old)
              = Newest(b, w, old)
<1> DEFINE t == Tail(b)
           o == IF Head(b).word = w THEN Head(b).value ELSE old
<1>1. t \in Seq(Store) /\ DOMAIN t = 1 .. Len(b) - 1 /\ Head(b) = b[1]
      /\ Head(b) \in Store /\ \A i \in 1 .. Len(b) - 1 : t[i] = b[i + 1]
  OBVIOUS
<1>2. DOMAIN b = 1 .. Len(b) /\ Len(b) \in Nat /\ Len(b) # 0
  OBVIOUS
<1> HIDE DEF t, o
<1>3. In(b, w) <=> In(t, w) \/ Head(b).word = w
  BY RangeDrained DEF In, t
<1>4. CASE In(t, w)
  <2>1. PICK i \in DOMAIN t : /\ t[i].word = w /\ Newest(t, w, o) = t[i].value
                              /\ \A j \in DOMAIN t : t[j].word = w => j <= i
    BY <1>1, <1>4, NewestKnown
  <2>2. i + 1 \in DOMAIN b /\ b[i + 1] = t[i]
    BY <1>1, <1>2
  <2>3. ASSUME NEW j \in DOMAIN b, b[j].word = w
        PROVE  j <= i + 1
    <3>1. CASE j = 1
      BY <1>1, <1>2, <3>1
    <3>2. CASE j # 1
      <4>1. j - 1 \in DOMAIN t /\ t[j - 1] = b[j]
        BY <1>1, <1>2, <3>2
      <4>2. j - 1 <= i
        BY <2>1, <2>3, <4>1
      <4> QED
        BY <1>1, <1>2, <4>2
    <3> QED
      BY <3>1, <3>2
  <2>4. Newest(b, w, old) = b[i + 1].value
    BY <2>1, <2>2, <2>3, NewestIs
  <2> QED
    BY <1>1, <1>3, <2>1, <2>2, <2>4 DEF t, o
<1>5. CASE ~ In(t, w) /\ Head(b).word = w
  <2>1. ASSUME NEW j \in DOMAIN b, b[j].word = w
        PROVE  j <= 1
    <3>1. CASE j = 1
      BY <3>1
    <3>2. CASE j # 1
      <4>1. j - 1 \in DOMAIN t /\ t[j - 1] = b[j]
        BY <1>1, <1>2, <3>2
      <4> QED
        BY <1>1, <1>5, <2>1, <4>1, RangeParts

    <3> QED
      BY <3>1, <3>2
  <2>2. 1 \in DOMAIN b
    BY <1>2
  <2>3. Newest(b, w, old) = b[1].value
    <3>1. b[1].word = w
      BY <1>1, <1>5
    <3> QED
      BY <2>1, <2>2, <3>1, NewestIs

  <2>4. Newest(t, w, o) = o
    BY <1>1, <1>5, NewestKnown
  <2> QED
    BY <1>1, <1>3, <1>5, <2>3, <2>4 DEF t, o
<1>6. CASE ~ In(t, w) /\ Head(b).word # w
  <2>1. ~ In(b, w)
    BY <1>3, <1>6
  <2>2. Newest(t, w, o) = o /\ Newest(b, w, old) = old
    BY <1>1, <1>6, <2>1, NewestKnown
  <2> QED
    BY <1>1, <1>3, <1>6, <2>2 DEF t, o
<1> QED
  BY <1>4, <1>5, <1>6

(***************************************************************************)
(* What the three kinds of steps do to the buffers                         *)
(***************************************************************************)
Word == {"load", "idle", "pending", "lock"}

(* A store of each word is one.                                            *)
LEMMA PutStores ==
  /\ \A n \in Nat : Put("load", n) \in Store
  /\ \A v \in BOOLEAN : Put("idle", v) \in Store /\ Put("pending", v) \in Store
  /\ Put("lock", Free) \in Store
  /\ \A w, v : Put(w, v).word = w /\ Put(w, v).value = v
BY DEF Put, Store

(* What a store and a load may hold.                                       *)
LEMMA StoreParts ==
  ASSUME NEW s \in Store
  PROVE  /\ s.word \in Word
         /\ s.word = "load" => s.value \in Nat
         /\ s.word \in {"idle", "pending"} => s.value \in BOOLEAN
         /\ s.word = "lock" => s.value = Free
BY DEF Store, Word

LEMMA LoadParts ==
  ASSUME TypeOK, NEW p \in Cpu
  PROVE  /\ Load(p, "load") \in Nat
         /\ Load(p, "idle") \in BOOLEAN /\ Load(p, "pending") \in BOOLEAN
         /\ \A w \in Word : ~ In(buf[p], w) => Load(p, w) = mem[w]
<1>1. buf[p] \in Seq(Store) /\ mem \in Memory
  BY DEF TypeOK
<1>2. \A w \in Word :
        \/ ~ In(buf[p], w) /\ Load(p, w) = mem[w]
        \/ \E s \in Store : s.word = w /\ Load(p, w) = s.value
  <2> SUFFICES ASSUME NEW w \in Word
               PROVE  \/ ~ In(buf[p], w) /\ Load(p, w) = mem[w]
                      \/ \E s \in Store : s.word = w /\ Load(p, w) = s.value
    OBVIOUS
  <2>1. CASE ~ In(buf[p], w)
    BY <1>1, <2>1, NewestKnown DEF Load
  <2>2. CASE In(buf[p], w)
    <3>1. PICK i \in DOMAIN buf[p] :
            /\ buf[p][i].word = w /\ Newest(buf[p], w, mem[w]) = buf[p][i].value
            /\ \A j \in DOMAIN buf[p] : buf[p][j].word = w => j <= i
      BY <1>1, <2>2, NewestKnown, SMTT(30)

    <3>2. buf[p][i] \in Store
      BY <1>1
    <3> QED
      BY <3>1, <3>2 DEF Load
  <2> QED
    BY <2>1, <2>2
<1>3. \A w \in Word : ~ In(buf[p], w) => Load(p, w) = mem[w]
  BY <1>1, NewestKnown DEF Load
<1>4. mem.load \in Nat /\ mem.idle \in BOOLEAN /\ mem.pending \in BOOLEAN
  BY <1>1 DEF Memory
<1> QED
  BY <1>2, <1>3, <1>4, StoreParts DEF Word

(* MarkBacked, in terms of the set of stores.                              *)
Marked == mem.pending => ipi \/ Put("pending", FALSE) \in Range(buf[Self])

LEMMA MarkOwned == MarkBacked <=> Marked
<1>1. (\E i \in DOMAIN buf[Self] : buf[Self][i] = Put("pending", FALSE))
        <=> Put("pending", FALSE) \in Range(buf[Self])
  BY DEF Range
<1> QED
  BY <1>1 DEF MarkBacked, Marked

(* Nothing but a step of its own changes what a CPU has stored.            *)
LEMMA StepStores ==
  ASSUME TypeOK, NEW q \in Cpu, NEW s \in Store, mem' = mem,
         buf' = [buf EXCEPT ![q] = Append(@, s)]
  PROVE  /\ buf' \in [Cpu -> Seq(Store)]
         /\ \A p \in Cpu \ {q} : buf'[p] = buf[p] /\ \A w \in Word : Load(p, w)' = Load(p, w)
         /\ Range(buf'[q]) = Range(buf[q]) \cup {s}
         /\ \A w \in Word : In(buf'[q], w) <=> In(buf[q], w) \/ s.word = w
         /\ \A w \in Word : Load(q, w)' = IF s.word = w THEN s.value ELSE Load(q, w)
<1>1. buf \in [Cpu -> Seq(Store)] /\ buf[q] \in Seq(Store)
  BY DEF TypeOK
<1>2. buf'[q] = Append(buf[q], s) /\ \A p \in Cpu \ {q} : buf'[p] = buf[p]
  BY <1>1
<1>3. Append(buf[q], s) \in Seq(Store) /\ Range(Append(buf[q], s)) = Range(buf[q]) \cup {s}
  BY <1>1, RangeAppended
<1>4. buf' \in [Cpu -> Seq(Store)]
  BY <1>1, <1>3
<1>5. \A p \in Cpu \ {q} : \A w \in Word : Load(p, w)' = Load(p, w)
  BY <1>2 DEF Load
<1>6. \A w \in Word :
        Newest(buf'[q], w, mem[w]) = IF s.word = w THEN s.value ELSE Newest(buf[q], w, mem[w])
  BY <1>1, <1>2, NewestAppended
<1>7. \A w \in Word : Load(q, w)' = IF s.word = w THEN s.value ELSE Load(q, w)
  BY <1>6 DEF Load
<1>8. \A w \in Word : In(buf'[q], w) <=> In(buf[q], w) \/ s.word = w
  BY <1>2, <1>3 DEF In
<1> QED
  BY <1>2, <1>3, <1>4, <1>5, <1>7, <1>8

LEMMA StepDrains ==
  ASSUME TypeOK, NEW q \in Cpu, Drain(q), NEW h, h = Head(buf[q])
  PROVE  /\ h \in Store
         /\ buf' \in [Cpu -> Seq(Store)] /\ mem' \in Memory
         /\ \A w \in Word : mem'[w] = IF w = h.word THEN h.value ELSE mem[w]
         /\ \A p \in Cpu \ {q} : buf'[p] = buf[p]
         /\ \A p \in Cpu \ {q} : \A w \in Word :
              Load(p, w)' = IF In(buf[p], w) THEN Load(p, w) ELSE mem'[w]
         /\ Range(buf[q]) = Range(buf'[q]) \cup {h}
         /\ \A w \in Word : In(buf[q], w) <=> In(buf'[q], w) \/ h.word = w
         /\ \A w \in Word : Load(q, w)' = Load(q, w)
<1>1. buf \in [Cpu -> Seq(Store)] /\ buf[q] \in Seq(Store) /\ buf[q] # <<>> /\ mem \in Memory
  BY DEF TypeOK, Drain
<1>2. /\ buf'[q] = Tail(buf[q]) /\ \A p \in Cpu \ {q} : buf'[p] = buf[p]
      /\ mem' = [mem EXCEPT ![h.word] = h.value]
  BY <1>1 DEF Drain
<1>3. h \in Store /\ Tail(buf[q]) \in Seq(Store)
      /\ Range(buf[q]) = Range(Tail(buf[q])) \cup {h}
  BY <1>1, RangeDrained
<1>4. buf' \in [Cpu -> Seq(Store)]
  <2>1. buf' = [buf EXCEPT ![q] = Tail(@)]
    BY DEF Drain
  <2> QED
    BY <1>1, <1>3, <2>1
<1>5. h.word \in Word /\ DOMAIN mem = Word
  BY <1>1, <1>3, StoreParts DEF Memory, Word
<1>6. \A w \in Word : mem'[w] = IF w = h.word THEN h.value ELSE mem[w]
  BY <1>2, <1>5
<1>7. mem' \in Memory
  BY <1>1, <1>2, <1>3, StoreParts DEF Memory, Word
<1>8. \A w \in Word : Newest(buf'[q], w, mem'[w]) = Newest(buf[q], w, mem[w])
  BY <1>1, <1>2, <1>6, NewestDrained
<1>9. \A w \in Word : Load(q, w)' = Load(q, w)
  BY <1>8 DEF Load
<1>10. \A w \in Word : In(buf[q], w) <=> In(buf'[q], w) \/ h.word = w
  BY <1>2, <1>3 DEF In
<1>11. ASSUME NEW p \in Cpu \ {q}, NEW w \in Word
       PROVE  Load(p, w)' = IF In(buf[p], w) THEN Load(p, w) ELSE mem'[w]
  <2>1. buf[p] \in Seq(Store) /\ buf'[p] = buf[p]
    BY <1>1, <1>2
  <2>2. ~ In(buf[p], w) => Newest(buf[p], w, mem'[w]) = mem'[w]
    BY <2>1, NewestKnown
  <2>3. In(buf[p], w) => Newest(buf[p], w, mem'[w]) = Newest(buf[p], w, mem[w])
    BY <2>1 DEF Newest, In, Range
  <2> QED
    BY <2>1, <2>2, <2>3 DEF Load
<1> QED
  BY <1>2, <1>3, <1>4, <1>6, <1>7, <1>9, <1>10, <1>11

(***************************************************************************)
(* The steps of Self                                                       *)
(***************************************************************************)
(* A step of the idle thread that makes no store.                          *)
LEMMA SelfWalks ==
  ASSUME Inv, UNCHANGED <<mem, buf, cur, ipi, rpc>>, changed' \in BOOLEAN,
         pc' \in {"top", "switch", "idled", "steal", "spin", "recheck", "cpu_idle",
                  "halted", "back"},
         Announced', NoLostWakeup'
  PROVE  Inv'
<1>1. TypeOK'
  BY DEF Inv, TypeOK
<1>2. \A p \in Cpu : Guarded(p)' /\ Ordered(buf[p])'
  BY DEF Inv, Guarded, Ordered, Range
<1>3. \A p \in Remote : Stored(p)' /\ Told(p)'
  BY DEF Inv, Stored, Told, In, Range, Load
<1>4. Counted' /\ MarkBacked'
  BY DEF Inv, Counted, MarkBacked, In, Range
<1> QED
  BY <1>1, <1>2, <1>3, <1>4 DEF Inv

LEMMA TopInv == Inv /\ Top => Inv'
BY SelfWalks DEF Inv, TypeOK, Top, Idling, Announced, NoLostWakeup

LEMMA IdledInv == Inv /\ Idled => Inv'
BY SelfWalks DEF Inv, TypeOK, Idled, Idling, Announced, NoLostWakeup

LEMMA RecheckInv == Inv /\ Recheck => Inv'
<1> SUFFICES ASSUME Inv, Recheck
             PROVE  Inv'
  OBVIOUS
<1>1. ~ In(buf'[Self], "idle")
  BY DEF Recheck, Fence, In, Range
<1>2. Announced'
  BY <1>1 DEF Inv, Announced, Recheck, Idling, Load, Range
<1> QED
  BY <1>2, SelfWalks DEF Inv, TypeOK, Recheck, Idling, NoLostWakeup

LEMMA CpuIdleInv == Inv /\ CpuIdle => Inv'
<1> SUFFICES ASSUME Inv, CpuIdle
             PROVE  Inv'
  OBVIOUS
<1>1. Announced'
  BY DEF Inv, Announced, CpuIdle, Idling, Load, Range, In
<1>2. NoLostWakeup'
  BY DEF CpuIdle, Idling, NoLostWakeup, Load
<1> QED
  BY <1>1, <1>2, SelfWalks DEF Inv, TypeOK, CpuIdle, Idling

LEMMA StrayInterruptInv == Inv /\ StrayInterrupt => Inv'
BY SelfWalks DEF Inv, TypeOK, StrayInterrupt, Idling, Announced, NoLostWakeup

(* A step of the idle thread that stores tdq_cpu_idle.                     *)
LEMMA SelfStores ==
  ASSUME Inv, IdleAssumption, NEW v \in BOOLEAN, UNCHANGED <<mem, cur, changed, ipi, rpc>>,
         buf' = [buf EXCEPT ![Self] = Append(@, Put("idle", v))],
         pc' \in {"top", "recheck"}, pc' = "recheck" => v = TRUE
  PROVE  Inv'
<1> DEFINE s == Put("idle", v)
<1>1. Self \in Cpu /\ s \in Store /\ s.word = "idle" /\ s.value = v
  BY PutStores DEF Cpu
<1>2. TypeOK /\ \A p \in Remote : p \in Cpu \ {Self}
  BY DEF Inv, IdleAssumption, Cpu
<1> HIDE DEF s
<1>3. buf' = [buf EXCEPT ![Self] = Append(@, s)]
  BY DEF s
<1>4. /\ buf' \in [Cpu -> Seq(Store)]
      /\ \A p \in Cpu \ {Self} : buf'[p] = buf[p] /\ \A w \in Word : Load(p, w)' = Load(p, w)
      /\ Range(buf'[Self]) = Range(buf[Self]) \cup {s}
      /\ \A w \in Word : In(buf'[Self], w) <=> In(buf[Self], w) \/ s.word = w
      /\ \A w \in Word : Load(Self, w)' = IF s.word = w THEN s.value ELSE Load(Self, w)
  BY <1>1, <1>2, <1>3, StepStores
<1>5. TypeOK'
  BY <1>4 DEF Inv, TypeOK
<1>6. Ordered(buf[Self])'
  <2>1. buf[Self] \in Seq(Store) /\ Ordered(buf[Self])
    BY <1>1 DEF Inv, TypeOK
  <2>2. Ordered(Append(buf[Self], s))
    BY <1>1, <2>1, OrderedAppended
  <2>3. buf'[Self] = Append(buf[Self], s)
    BY <1>1, <1>3 DEF Inv, TypeOK
  <2> QED
    BY <2>2, <2>3
<1>7. \A p \in Cpu : Guarded(p)'
  BY <1>1, <1>4 DEF Inv, Guarded
<1>8. \A p \in Cpu : Ordered(buf[p])'
  BY <1>4, <1>6 DEF Inv
<1>9. \A p \in Remote : Stored(p)' /\ Told(p)'
  <2> SUFFICES ASSUME NEW p \in Remote
               PROVE  Stored(p)' /\ Told(p)'
    OBVIOUS
  <2>1. buf'[p] = buf[p] /\ Load(p, "load")' = Load(p, "load") /\ Stored(p) /\ Told(p)
    BY <1>2, <1>4 DEF Inv, Word
  <2> QED
    BY <2>1 DEF Stored, Told
<1>10. Announced'
  BY <1>1, <1>4 DEF Inv, Announced, Word
<1>11. Counted'
  BY <1>1, <1>4 DEF Inv, Counted, Word
<1>12. MarkBacked'
  <2>1. Marked
    BY MarkOwned DEF Inv
  <2>2. Marked'
    BY <1>4, <2>1 DEF Marked
  <2>3. MarkBacked' <=> Marked'
    BY MarkOwned, PTL
  <2> QED
    BY <2>2, <2>3
<1>13. NoLostWakeup'
  BY DEF NoLostWakeup, Idling
<1> QED
  BY <1>5, <1>7, <1>8, <1>9, <1>10, <1>11, <1>12, <1>13 DEF Inv

LEMMA SpinInv == IdleAssumption /\ Inv /\ Spin => Inv'
<1> SUFFICES ASSUME IdleAssumption, Inv, Spin
             PROVE  Inv'
  OBVIOUS
<1>1. CASE Load(Self, "load") > 0 \/ changed
  BY <1>1, SelfWalks DEF Inv, TypeOK, Spin, Idling, Announced, NoLostWakeup
<1>2. CASE ~ (Load(Self, "load") > 0 \/ changed)
  BY <1>2, SelfStores DEF Spin
<1> QED
  BY <1>1, <1>2

LEMMA BackInv == IdleAssumption /\ Inv /\ Back => Inv'
BY SelfStores DEF Back

(* A critical section of Self.                                             *)
LEMMA CriticalInv ==
  ASSUME Inv, IdleAssumption, NEW stores, Critical(stores), rpc' = rpc,
         stores = <<>> \/ \E s \in Store : stores = <<s>>,
         \A s \in Range(stores) :
           /\ s.word \in {"load", "pending"}
           /\ s.word = "pending" => s.value = FALSE
           /\ s.word = "load" /\ cur' = "thread" => s.value > 0,
         cur' \in {"idle", "thread"}, changed' \in BOOLEAN, ipi' \in BOOLEAN,
         pc' \in {"top", "switch", "idled", "steal", "spin", "recheck", "cpu_idle", "back"},
         pc' \in {"recheck", "cpu_idle"} => pc' = pc,
         cur' = "thread" => mem.load > 0 \/ In(stores, "load"),
         ipi => ipi' \/ Put("pending", FALSE) \in Range(stores)
  PROVE  Inv'
<1> DEFINE free == Put("lock", Free)
           b == stores \o <<free>>
<1>1. Self \in Cpu /\ Free \notin Cpu /\ free \in Store /\ free.word = "lock"
  BY PutStores DEF Cpu, IdleAssumption
<1>2. /\ TypeOK /\ buf \in [Cpu -> Seq(Store)] /\ mem \in Memory
      /\ \A p \in Remote : p \in Cpu \ {Self}
  BY DEF Inv, TypeOK, IdleAssumption, Cpu
<1>3. buf[Self] = <<>> /\ mem.lock = Free
  BY DEF Critical, CanLock
<1>4. b \in Seq(Store) /\ Range(b) = Range(stores) \cup {free} /\ Ordered(b)
  <2> HIDE DEF free
  <2>1. CASE stores = <<>>
    <3>1. b = <<free>> /\ b \in Seq(Store)
      BY <1>1, <2>1
    <3> QED
      BY <2>1, <3>1 DEF Range, Ordered
  <2>2. ASSUME NEW s \in Store, stores = <<s>>
        PROVE  b \in Seq(Store) /\ Range(b) = Range(stores) \cup {free} /\ Ordered(b)
    <3>1. b \in Seq(Store) /\ DOMAIN b = {1, 2} /\ b[1] = s /\ b[2] = free
      <4>1. b = <<s>> \o <<free>>
        BY <2>2
      <4>2. <<s>> \in Seq(Store) /\ <<free>> \in Seq(Store)
            /\ Len(<<s>>) = 1 /\ Len(<<free>>) = 1 /\ <<s>>[1] = s /\ <<free>>[1] = free
        BY <1>1
      <4> QED
        BY <4>1, <4>2

    <3>2. s \in Range(stores)
      BY <2>2 DEF Range
    <3>3. s.word # "lock" /\ (s.word = "load" => free.word # "load")
      BY <1>1, <3>2
    <3>4. Range(stores) = {s}
      BY <2>2 DEF Range
    <3> HIDE DEF b
    <3>5. Ordered(b)
      BY <1>1, <3>1, <3>3 DEF Ordered
    <3>6. Range(b) = {s, free}
      BY <3>1 DEF Range
    <3> QED
      BY <3>1, <3>4, <3>5, <3>6
  <2> QED
    BY <2>1, <2>2
<1>5. buf' = [buf EXCEPT ![Self] = b] /\ mem' = [mem EXCEPT !.lock = Self]
  BY DEF Critical
<1> HIDE DEF b, free
<1>6. /\ buf' \in [Cpu -> Seq(Store)] /\ buf'[Self] = b
      /\ \A p \in Cpu \ {Self} : buf'[p] = buf[p]
  BY <1>1, <1>2, <1>4, <1>5
<1>7. /\ mem' \in Memory /\ mem'.lock = Self
      /\ mem'.load = mem.load /\ mem'.idle = mem.idle /\ mem'.pending = mem.pending
  BY <1>1, <1>2, <1>5 DEF Memory
<1>8. \A p \in Remote : Range(buf[p]) = {} /\ rpc[p] = "out"
  <2> SUFFICES ASSUME NEW p \in Remote
               PROVE  Range(buf[p]) = {} /\ rpc[p] = "out"
    OBVIOUS
  <2>1. p \in Cpu /\ Guarded(p) /\ Stored(p)
    BY <1>2 DEF Inv
  <2> QED
    BY <1>1, <1>3, <2>1 DEF Guarded, Stored, In
<1>9. TypeOK'
  BY <1>6, <1>7 DEF Inv, TypeOK
<1>10. \A p \in Cpu : Guarded(p)' /\ Ordered(buf[p])'
  <2>1. \A p \in Cpu : p = Self \/ p \in Remote
    BY DEF Cpu
  <2> QED
    BY <1>4, <1>6, <1>7, <1>8, <2>1 DEF Inv, Guarded
<1>11. \A p \in Remote : Stored(p)' /\ Told(p)'
  <2> SUFFICES ASSUME NEW p \in Remote
               PROVE  Stored(p)' /\ Told(p)'
    OBVIOUS
  <2>1. Range(buf'[p]) = {} /\ rpc'[p] = "out"
    BY <1>2, <1>6, <1>8
  <2> QED
    BY <2>1 DEF Stored, Told, In
<1>12. \A w \in Word : In(b, w) <=> In(stores, w) \/ w = "lock"
  BY <1>1, <1>4 DEF In
<1>13. pc' \in {"recheck", "cpu_idle"} => Load(Self, "idle")' = TRUE
  <2>1. ~ In(buf[Self], "idle") /\ ~ In(buf'[Self], "idle")
    BY <1>3, <1>6, <1>12 DEF In, Word, Range
  <2>2. Load(Self, "idle") = mem.idle
    BY <1>1, <1>2, <2>1, LoadParts DEF Word
  <2>3. Load(Self, "idle")' = mem'.idle
    <3>1. buf'[Self] \in Seq(Store)
      BY <1>4, <1>6
    <3> QED
      BY <2>1, <3>1, NewestKnown DEF Load
  <2> QED
    BY <1>7, <2>2, <2>3 DEF Inv, Announced
<1>14. Announced'
  <2>1. \A s \in Range(buf'[Self]) : s.word = "pending" => s.value = FALSE
    BY <1>1, <1>4, <1>6
  <2>2. ~ In(b, "idle")
    BY <1>12 DEF In, Word
  <2> QED
    BY <1>6, <1>13, <2>1, <2>2 DEF Announced
<1>15. Counted'
  <2> SUFFICES ASSUME cur' = "thread"
               PROVE  /\ \A p \in Cpu : \A s \in Range(buf'[p]) : s.word = "load" => s.value > 0
                      /\ mem'.load > 0 \/ \E p \in Cpu : In(buf'[p], "load")
    BY DEF Counted
  <2>1. \A s \in Range(buf'[Self]) : s.word = "load" => s.value > 0
    BY <1>1, <1>4, <1>6
  <2>2. \A p \in Remote : Range(buf'[p]) = {}
    BY <1>2, <1>6, <1>8
  <2>3. mem'.load > 0 \/ In(buf'[Self], "load")
    BY <1>6, <1>7, <1>12 DEF Word
  <2> QED
    BY <1>1, <2>1, <2>2, <2>3 DEF Cpu
<1>16. MarkBacked'
  <2>1. mem.pending => ipi
    BY <1>3 DEF Inv, MarkBacked
  <2>2. Marked'
    BY <1>4, <1>6, <1>7, <2>1 DEF Marked
  <2>3. MarkBacked' <=> Marked'
    BY MarkOwned, PTL

  <2> QED
    BY <2>2, <2>3
<1>17. NoLostWakeup'
  BY DEF NoLostWakeup, Idling
<1> QED
  BY <1>9, <1>10, <1>11, <1>14, <1>15, <1>16, <1>17 DEF Inv

(* The values that the stores of a critical section take.                  *)
LEMMA ShortRange ==
  /\ Range(<<>>) = {}
  /\ \A s : Range(<<s>>) = {s} /\ \A w : In(<<s>>, w) <=> s.word = w
<1>1. Range(<<>>) = {}
  BY DEF Range
<1>2. \A s : Range(<<s>>) = {s}
  BY DEF Range
<1> QED
  BY <1>1, <1>2 DEF In

LEMMA SwitchInv == IdleAssumption /\ Inv /\ Switch => Inv'
<1> SUFFICES ASSUME IdleAssumption, Inv, Switch
             PROVE  Inv'
  OBVIOUS
<1>1. Critical(<<>>) /\ rpc' = rpc /\ ipi' = ipi /\ changed' = TRUE /\ pc' = "idled"
      /\ cur' = (IF mem.load > 0 THEN "thread" ELSE "idle") /\ ipi \in BOOLEAN
  BY DEF Switch, Inv, TypeOK
<1> QED
  BY <1>1, CriticalInv, ShortRange

LEMMA StealInv == IdleAssumption /\ Inv /\ Steal => Inv'
<1> SUFFICES ASSUME IdleAssumption, Inv, Steal
             PROVE  Inv'
  OBVIOUS
<1>1. CASE UNCHANGED <<mem, buf, cur, changed>>
           /\ pc' = IF Load(Self, "load") > 0 THEN "top" ELSE "spin"
  BY <1>1, SelfWalks DEF Inv, TypeOK, Steal, Announced, NoLostWakeup, Idling
<1>2. CASE Critical(IF mem.load > 0 THEN <<>> ELSE <<Put("load", 1)>>)
           /\ cur' = "thread" /\ changed' = TRUE /\ pc' = "top"
  <2> DEFINE stores == IF mem.load > 0 THEN <<>> ELSE <<Put("load", 1)>>
  <2>1. Put("load", 1) \in Store /\ Put("load", 1).word = "load" /\ Put("load", 1).value = 1
    BY PutStores
  <2>2. stores = <<>> \/ \E s \in Store : stores = <<s>>
    BY <2>1
  <2>3. \A s \in Range(stores) : s.word = "load" /\ s.value > 0
    BY <2>1, ShortRange
  <2>4. mem.load > 0 \/ In(stores, "load")
    BY <2>1, ShortRange
  <2>5. rpc' = rpc /\ ipi' = ipi /\ ipi \in BOOLEAN
    BY DEF Steal, Inv, TypeOK
  <2> HIDE DEF stores
  <2>6. Critical(stores)
    BY <1>2 DEF stores
  <2> QED
    BY <1>2, <2>2, <2>3, <2>4, <2>5, <2>6, CriticalInv
<1> QED
  BY <1>1, <1>2 DEF Steal

LEMMA PreemptInv == IdleAssumption /\ Inv /\ Preempt => Inv'
<1> SUFFICES ASSUME IdleAssumption, Inv, Preempt
             PROVE  Inv'
  OBVIOUS
<1> DEFINE s == Put("pending", FALSE)
<1>1. s \in Store /\ s.word = "pending" /\ s.value = FALSE
  BY PutStores
<1>2. Critical(<<s>>) /\ rpc' = rpc /\ ipi' = FALSE
      /\ cur' = (IF mem.load > 0 THEN "thread" ELSE cur)
      /\ changed' = (changed \/ mem.load > 0) /\ pc' = Awake
  BY DEF Preempt
<1>3. cur' \in {"idle", "thread"} /\ changed' \in BOOLEAN
  BY <1>2 DEF Inv, TypeOK
<1>4. /\ pc' \in {"top", "switch", "idled", "steal", "spin", "recheck", "cpu_idle", "back"}
      /\ pc' \in {"recheck", "cpu_idle"} => pc' = pc
  BY <1>2 DEF Inv, TypeOK, Awake
<1>5. cur' = "thread" => mem.load > 0
  <2>1. CASE cur = "thread"
    <3>1. \A p \in Cpu : ~ In(buf[p], "load")
      <4>1. \A p \in Cpu : Guarded(p) /\ mem.lock # p
        BY <1>2 DEF Inv, Critical, CanLock, IdleAssumption, Cpu
      <4> QED
        BY <4>1 DEF Guarded, In
    <3> QED
      BY <2>1, <3>1 DEF Inv, Counted
  <2>2. CASE cur # "thread"
    BY <1>2, <2>2
  <2> QED
    BY <2>1, <2>2
<1>6. Range(<<s>>) = {s}
  BY ShortRange
<1> HIDE DEF s
<1>7. Put("pending", FALSE) \in Range(<<s>>)
  BY <1>6 DEF s
<1> QED
  BY <1>1, <1>2, <1>3, <1>4, <1>5, <1>6, <1>7, CriticalInv

(* Who may take the lock finds no store that it guards, and the load that  *)
(* memory has is the one everybody sees.                                   *)
LEMMA LockFree ==
  ASSUME Inv, IdleAssumption, mem.lock = Free
  PROVE  \A p \in Cpu : \A w \in Word \ {"idle"} : ~ In(buf[p], w)
<1>1. \A p \in Cpu : Guarded(p) /\ mem.lock # p
  BY DEF Inv, IdleAssumption, Cpu
<1> QED
  BY <1>1 DEF Guarded, In

LEMMA ThreadStopsInv == IdleAssumption /\ Inv /\ ThreadStops => Inv'
<1> SUFFICES ASSUME IdleAssumption, Inv, ThreadStops
             PROVE  Inv'
  OBVIOUS
<1> DEFINE s == Put("load", mem.load - 1)
<1>1. /\ Critical(<<s>>) /\ cur = "thread" /\ rpc' = rpc /\ ipi' = ipi /\ pc' = pc
      /\ cur' = (IF mem.load = 1 THEN "idle" ELSE "thread") /\ changed' = TRUE
  BY DEF ThreadStops
<1>2. mem.load > 0 /\ mem.load \in Nat
  <2>1. \A p \in Cpu : ~ In(buf[p], "load")
    BY <1>1, LockFree DEF Critical, CanLock, Word
  <2> QED
    BY <1>1, <2>1 DEF Inv, Counted, TypeOK, Memory
<1>3. /\ s \in Store /\ s.word = "load" /\ s.value = mem.load - 1
      /\ cur' = "thread" => s.value > 0
  <2>1. mem.load - 1 \in Nat /\ (cur' = "thread" => mem.load - 1 > 0)
    BY <1>1, <1>2
  <2> QED
    BY <2>1, PutStores
<1>4. Range(<<s>>) = {s}
  BY ShortRange
<1>5. /\ pc' \in {"top", "switch", "idled", "steal", "spin", "recheck", "cpu_idle", "back"}
      /\ ipi \in BOOLEAN /\ cur' \in {"idle", "thread"}
  BY <1>1 DEF Inv, TypeOK, Announced
<1> HIDE DEF s
<1> QED
  BY <1>1, <1>2, <1>3, <1>4, <1>5, CriticalInv

LEMMA LocalAddInv == IdleAssumption /\ Inv /\ LocalAdd => Inv'
<1> SUFFICES ASSUME IdleAssumption, Inv, LocalAdd
             PROVE  Inv'
  OBVIOUS
<1> DEFINE s == Put("load", mem.load + 1)
<1>1. /\ Critical(<<s>>) /\ rpc' = rpc /\ ipi' = ipi /\ pc' = Awake
      /\ cur' = "thread" /\ changed' = (changed \/ cur = "idle")
  BY DEF LocalAdd
<1>2. s \in Store /\ s.word = "load" /\ s.value > 0
  <2>1. mem.load + 1 \in Nat /\ mem.load + 1 > 0
    BY DEF Inv, TypeOK, Memory
  <2> QED
    BY <2>1, PutStores
<1>3. Range(<<s>>) = {s} /\ In(<<s>>, "load")
  BY <1>2, ShortRange
<1>4. /\ pc' \in {"top", "switch", "idled", "steal", "spin", "recheck", "cpu_idle", "back"}
      /\ pc' \in {"recheck", "cpu_idle"} => pc' = pc
  BY <1>1 DEF Inv, TypeOK, Awake
<1>5. ipi \in BOOLEAN /\ changed' \in BOOLEAN
  BY <1>1 DEF Inv, TypeOK
<1> HIDE DEF s
<1> QED
  BY <1>1, <1>2, <1>3, <1>4, <1>5, CriticalInv

(***************************************************************************)
(* The steps of a remote CPU                                               *)
(***************************************************************************)
At == {"out", "add", "notify", "wake", "send", "unlock"}

\* It has the thread's load in sight and may still send an interrupt.
Telling == {"notify", "wake", "send"}

(* While one has the lock, no other has stored anything.                   *)
LEMMA LockHeld ==
  ASSUME Inv, IdleAssumption, NEW q \in Remote, mem.lock = q
  PROVE  /\ \A p \in Remote \ {q} : Range(buf[p]) = {} /\ rpc[p] = "out"
         /\ \A w \in Word \ {"idle"} : ~ In(buf[Self], w)
         /\ Load(Self, "load") = mem.load
<1>1. \A p \in Remote \ {q} : Range(buf[p]) = {} /\ rpc[p] = "out"
  <2> SUFFICES ASSUME NEW p \in Remote \ {q}
               PROVE  Range(buf[p]) = {} /\ rpc[p] = "out"
    OBVIOUS
  <2>1. p \in Cpu /\ Guarded(p) /\ Stored(p) /\ mem.lock # p
    BY DEF Inv, Cpu
  <2> QED
    BY <2>1 DEF Guarded, Stored, In
<1>2. \A w \in Word \ {"idle"} : ~ In(buf[Self], w)
  <2>1. Self \in Cpu /\ mem.lock # Self /\ Guarded(Self)
    BY DEF Inv, Cpu, IdleAssumption
  <2> QED
    BY <2>1 DEF Guarded, In
<1>3. Load(Self, "load") = mem.load
  <2>1. TypeOK /\ Self \in Cpu /\ "load" \in Word \ {"idle"}
    BY DEF Inv, Cpu, Word
  <2> QED
    BY <1>2, <2>1, LoadParts
<1> QED
  BY <1>1, <1>2, <1>3

(* A remote CPU that has the lock looks at something.                      *)
LEMMA RemoteWalks ==
  ASSUME Inv, IdleAssumption, NEW q \in Remote, NEW to \in At, rpc[q] # "out", to # "out",
         UNCHANGED <<mem, buf, cur, changed, ipi>>, rpc' = [rpc EXCEPT ![q] = to],
         pc' = pc \/ (pc = "halted" /\ pc' = "back"),
         to \in {"add", "send"} => buf[q] = <<>>,
         to \in Telling => ~ In(buf[q], "pending"),
         to = "unlock" /\ In(buf[q], "load") /\ Load(q, "load") > 0
           => ipi \/ cur = "thread" \/ mem.load > 0,
         to \notin Telling => ipi \/ cur = "thread" \/ pc' # "halted" \/ rpc[q] \notin Telling
  PROVE  Inv'
<1>1. mem.lock = q /\ ~ In(buf[q], "lock") /\ ~ In(buf[q], "idle")
  BY DEF Inv, Stored
<1>2. TypeOK'
  BY DEF Inv, TypeOK, At
<1>3. \A p \in Cpu : Guarded(p)' /\ Ordered(buf[p])'
  BY DEF Inv, Guarded, Ordered
<1>4. \A p \in Remote \ {q} : Stored(p)' /\ Told(p)'
  <2> SUFFICES ASSUME NEW p \in Remote \ {q}
               PROVE  Stored(p)' /\ Told(p)'
    OBVIOUS
  <2>1. rpc'[p] = rpc[p] /\ Load(p, "load")' = Load(p, "load")
    BY DEF Inv, TypeOK, Load
  <2> QED
    BY <2>1 DEF Inv, Stored, Told
<1>5. rpc'[q] = to
  BY DEF Inv, TypeOK
<1>6. Stored(q)'
  BY <1>1, <1>5 DEF Inv, Stored, Telling
<1>7. Told(q)'
  <2>1. Load(q, "load")' = Load(q, "load")
    BY DEF Load
  <2> QED
    BY <1>5, <2>1 DEF Inv, Told
<1>8. Announced' /\ Counted' /\ MarkBacked'
  <2>1. Load(Self, "idle")' = Load(Self, "idle")
    BY DEF Load
  <2> QED
    BY <2>1 DEF Inv, Announced, Counted, MarkBacked
<1>9. NoLostWakeup'
  <2> SUFFICES ASSUME cur = "idle", pc' = "halted", Load(Self, "load") > 0, ~ ipi
               PROVE  \E p \in Remote : rpc'[p] \in Telling
    BY DEF NoLostWakeup, Idling, Load, Telling
  <2>1. PICK p \in Remote : rpc[p] \in Telling
    BY DEF Inv, NoLostWakeup, Idling, Telling
  <2>2. p = q
    BY <1>1, <2>1, LockHeld DEF Telling
  <2> QED
    BY <1>5, <2>1, <2>2
<1> QED
  BY <1>2, <1>3, <1>4, <1>6, <1>7, <1>8, <1>9 DEF Inv

(* A remote CPU that has the lock stores something.                        *)
LEMMA RemoteStores ==
  ASSUME Inv, IdleAssumption, NEW q \in Remote, NEW to \in At, rpc[q] # "out",
         NEW s \in Store, s.word \in {"load", "pending", "lock"},
         UNCHANGED <<mem, cur, changed, pc>>, ipi' \in BOOLEAN, ipi => ipi',
         rpc' = [rpc EXCEPT ![q] = to], buf' = [buf EXCEPT ![q] = Append(@, s)],
         s.word = "load" => /\ to \in {"notify", "unlock"} /\ ~ In(buf[q], "load")
                            /\ ~ In(buf[q], "pending") /\ (cur = "thread" => s.value > 0)
                            /\ (to = "unlock" /\ s.value > 0 => mem.load > 0),
         s.word = "pending" => ipi' /\ s.value = TRUE /\ to = "unlock",
         s.word = "lock" <=> to = "out",
         rpc[q] \in Telling => ipi' \/ to \in Telling,
         rpc[q] = "unlock" \/ s.word # "lock"
  PROVE  Inv'
<1>1. mem.lock = q /\ ~ In(buf[q], "lock") /\ ~ In(buf[q], "idle")
  BY DEF Inv, Stored
<1>2. TypeOK /\ q \in Cpu /\ Self \in Cpu \ {q} /\ q # Free /\ ipi' \in BOOLEAN
  BY DEF Inv, TypeOK, IdleAssumption, Cpu
<1>3. /\ buf' \in [Cpu -> Seq(Store)]
      /\ \A p \in Cpu \ {q} : buf'[p] = buf[p] /\ \A w \in Word : Load(p, w)' = Load(p, w)
      /\ Range(buf'[q]) = Range(buf[q]) \cup {s}
      /\ \A w \in Word : In(buf'[q], w) <=> In(buf[q], w) \/ s.word = w
      /\ \A w \in Word : Load(q, w)' = IF s.word = w THEN s.value ELSE Load(q, w)
  BY <1>2, StepStores
<1>4. TypeOK'
  BY <1>2, <1>3 DEF TypeOK, At
<1>5. \A p \in Cpu : Guarded(p)'
  BY <1>1, <1>3 DEF Inv, Guarded
<1>6. Ordered(buf[q])'
  <2>1. buf[q] \in Seq(Store) /\ Ordered(buf[q])
    BY <1>2 DEF Inv, TypeOK
  <2>2. buf'[q] = Append(buf[q], s)
    BY <1>2 DEF TypeOK
  <2>3. Ordered(Append(buf[q], s))
    BY <1>1, <2>1, OrderedAppended
  <2> QED
    BY <2>2, <2>3
<1>7. \A p \in Cpu : Ordered(buf[p])'
  BY <1>3, <1>6 DEF Inv
<1>8. rpc'[q] = to /\ \A p \in Remote \ {q} : rpc'[p] = rpc[p]
  BY <1>2 DEF TypeOK
<1>9. \A p \in Remote \ {q} : Stored(p)' /\ Told(p)'
  <2> SUFFICES ASSUME NEW p \in Remote \ {q}
               PROVE  Stored(p)' /\ Told(p)'
    OBVIOUS
  <2>1. Range(buf[p]) = {} /\ rpc[p] = "out"
    BY <1>1, LockHeld
  <2>2. p \in Cpu \ {q}
    BY DEF Cpu
  <2>3. Range(buf'[p]) = {} /\ rpc'[p] = "out"
    BY <1>3, <1>8, <2>1, <2>2
  <2> QED
    BY <2>3 DEF Stored, Told, In
<1>10. Stored(q)'
  <2>1. ~ In(buf'[q], "idle")
    BY <1>1, <1>3 DEF Word
  <2>2. \A x \in Range(buf'[q]) : x.word = "pending" => x.value = TRUE
    BY <1>3 DEF Inv, Stored
  <2>3. to # "out" => ~ In(buf'[q], "lock")
    BY <1>1, <1>3 DEF Word
  <2>4. to \notin {"add", "send"}
    BY DEF At, Telling
  <2>5. to \in {"notify", "wake"} => ~ In(buf'[q], "pending")
    BY <1>3 DEF Word
  <2> QED
    BY <1>1, <1>8, <2>1, <2>2, <2>3, <2>4, <2>5 DEF Stored
<1>11. Told(q)'
  <2>1. In(buf'[q], "pending") => ipi'
    BY <1>3 DEF Inv, Told, Word
  <2>2. ASSUME to \in {"unlock", "out"}, In(buf'[q], "load"), Load(q, "load")' > 0, ~ ipi'
        PROVE  cur = "thread" \/ mem.load > 0
    <3>1. CASE s.word = "load"
      BY <1>3, <2>2, <3>1 DEF Word
    <3>2. CASE s.word = "lock"
      <4>1. rpc[q] = "unlock" /\ In(buf[q], "load") /\ Load(q, "load") > 0
        BY <1>3, <2>2, <3>2 DEF Word
      <4> QED
        BY <2>2, <4>1 DEF Inv, Told
    <3> QED
      BY <2>2, <3>1, <3>2
  <2> QED
    BY <1>8, <2>1, <2>2 DEF Told
<1>12. Announced'
  BY <1>2, <1>3 DEF Inv, Announced, Word
<1>13. Counted'
  <2> SUFFICES ASSUME cur = "thread"
               PROVE  /\ \A p \in Cpu : \A x \in Range(buf'[p]) :
                           x.word = "load" => x.value > 0
                      /\ mem.load > 0 \/ \E p \in Cpu : In(buf'[p], "load")
    BY DEF Counted
  <2>1. \A p \in Cpu : \A x \in Range(buf'[p]) : x.word = "load" => x.value > 0
    BY <1>3 DEF Inv, Counted
  <2>2. \A p \in Cpu : In(buf[p], "load") => In(buf'[p], "load")
    BY <1>3 DEF Word
  <2> QED
    BY <2>1, <2>2 DEF Inv, Counted
<1>14. MarkBacked'
  BY <1>2, <1>3 DEF Inv, MarkBacked
<1>15. NoLostWakeup'
  <2> SUFFICES ASSUME cur = "idle", pc = "halted", Load(Self, "load") > 0, ~ ipi'
               PROVE  \E p \in Remote : rpc'[p] \in Telling
    BY <1>2, <1>3 DEF NoLostWakeup, Idling, Telling, Word
  <2>1. PICK p \in Remote : rpc[p] \in Telling
    BY <1>2 DEF Inv, NoLostWakeup, Idling, Telling
  <2>2. p = q
    BY <1>1, <2>1, LockHeld DEF Telling
  <2> QED
    BY <1>8, <2>1, <2>2
<1> QED
  BY <1>4, <1>5, <1>7, <1>9, <1>10, <1>11, <1>12, <1>13, <1>14, <1>15 DEF Inv

LEMMA LockInv == ASSUME IdleAssumption, Inv, NEW q \in Remote, Lock(q) PROVE Inv'
<1>1. /\ rpc[q] = "out" /\ buf[q] = <<>> /\ mem.lock = Free /\ buf' = buf
      /\ mem' = [mem EXCEPT !.lock = q] /\ rpc' = [rpc EXCEPT ![q] = "add"]
      /\ UNCHANGED <<cur, changed, ipi, pc>>
  BY DEF Lock, CanLock, Goto
<1>2. TypeOK /\ q \in Cpu /\ Self \in Cpu \ {q} /\ q # Free
  BY DEF Inv, IdleAssumption, Cpu
<1>3. /\ mem'.lock = q /\ mem'.load = mem.load /\ mem'.idle = mem.idle
      /\ mem'.pending = mem.pending
  BY <1>1 DEF Inv, TypeOK, Memory
<1>4. TypeOK'
  BY <1>1, <1>2 DEF TypeOK, Memory
<1>5. rpc'[q] = "add" /\ \A p \in Remote \ {q} : rpc'[p] = rpc[p]
  BY <1>1, <1>2 DEF TypeOK
<1>6. \A p \in Cpu : Load(p, "load")' = Load(p, "load") /\ Load(p, "idle")' = Load(p, "idle")
  BY <1>1, <1>3 DEF Load
<1>7. \A p \in Cpu : p # Free
  BY DEF IdleAssumption, Cpu
<1>8. \A p \in Cpu : Guarded(p)' /\ Ordered(buf[p])'
  BY <1>1, <1>7 DEF Inv, Guarded
<1>9. \A p \in Remote \ {q} : Stored(p)' /\ Told(p)'
  <2> SUFFICES ASSUME NEW p \in Remote \ {q}
               PROVE  Stored(p)' /\ Told(p)'
    OBVIOUS
  <2>1. rpc'[p] = rpc[p] /\ Load(p, "load")' = Load(p, "load") /\ buf'[p] = buf[p]
    BY <1>1, <1>5, <1>6 DEF Cpu
  <2>2. rpc[p] = "out"
    BY <1>1, <1>7 DEF Inv, Stored, Cpu
  <2> QED
    BY <1>1, <1>3, <2>1, <2>2 DEF Inv, Stored, Told
<1>10. Stored(q)' /\ Told(q)'
  <2>1. Range(buf'[q]) = {} /\ buf'[q] = <<>>
    BY <1>1, ShortRange
  <2> QED
    BY <1>3, <1>5, <2>1 DEF Stored, Told, In
<1>11. Announced'
  BY <1>1, <1>2, <1>6 DEF Inv, Announced
<1>12. Counted' /\ MarkBacked'
  BY <1>1, <1>3 DEF Inv, Counted, MarkBacked
<1>13. NoLostWakeup'
  <2>1. \A p \in Remote : rpc[p] \in Telling => rpc'[p] = rpc[p]
    BY <1>1, <1>5 DEF Telling
  <2> QED
    BY <1>1, <1>2, <1>6, <2>1 DEF Inv, NoLostWakeup, Idling, Telling
<1> QED
  BY <1>4, <1>8, <1>9, <1>10, <1>11, <1>12, <1>13 DEF Inv

LEMMA AddInv == ASSUME IdleAssumption, Inv, NEW q \in Remote, Add(q) PROVE Inv'
<1> DEFINE s == Put("load", Load(q, "load") + 1)
<1>1. /\ rpc[q] = "add" /\ buf' = [buf EXCEPT ![q] = Append(@, s)]
      /\ rpc' = [rpc EXCEPT ![q] = "notify"] /\ UNCHANGED <<mem, cur, changed, ipi, pc>>
  BY DEF Add, Goto
<1>2. s \in Store /\ s.word = "load" /\ s.value > 0
  <2>1. Load(q, "load") \in Nat
    BY LoadParts DEF Inv, Cpu
  <2>2. Load(q, "load") + 1 \in Nat /\ Load(q, "load") + 1 > 0
    BY <2>1
  <2> QED
    BY <2>2, PutStores
<1>3. \A w : ~ In(buf[q], w)
  BY <1>1, ShortRange DEF Inv, Stored, In
<1>4. ipi \in BOOLEAN /\ "notify" \in At
  BY DEF Inv, TypeOK, At
<1> HIDE DEF s
<1> QED
  BY <1>1, <1>2, <1>3, <1>4, RemoteStores DEF Telling

LEMMA RobInv == ASSUME IdleAssumption, Inv, NEW q \in Remote, Rob(q) PROVE Inv'
<1>1. /\ rpc[q] = "add" /\ rpc' = [rpc EXCEPT ![q] = "unlock"]
      /\ UNCHANGED <<mem, cur, changed, ipi, pc>>
  BY DEF Rob, Goto
<1>2. \A w : ~ In(buf[q], w)
  BY <1>1, ShortRange DEF Inv, Stored, In
<1>3. ipi \in BOOLEAN /\ "unlock" \in At
  BY DEF Inv, TypeOK, At
<1>4. CASE UNCHANGED buf
  BY <1>1, <1>2, <1>3, <1>4, RemoteWalks DEF Telling
<1>5. CASE /\ Load(q, "load") >= StealThresh /\ (cur = "thread" => Load(q, "load") > 1)
           /\ buf' = [buf EXCEPT ![q] = Append(@, Put("load", Load(q, "load") - 1))]
  <2> DEFINE s == Put("load", Load(q, "load") - 1)
  <2>1. Load(q, "load") \in Nat /\ Load(q, "load") = mem.load
    BY <1>2, LoadParts DEF Inv, Cpu, Word
  <2>2. mem.load > 0 /\ Load(q, "load") - 1 \in Nat
        /\ (cur = "thread" => Load(q, "load") - 1 > 0)
    BY <1>5, <2>1 DEF IdleAssumption
  <2>3. s \in Store /\ s.word = "load" /\ (cur = "thread" => s.value > 0)
    BY <2>2, PutStores
  <2>4. buf' = [buf EXCEPT ![q] = Append(@, s)]
    BY <1>5
  <2> HIDE DEF s
  <2> QED
    BY <1>1, <1>2, <1>3, <2>2, <2>3, <2>4, RemoteStores DEF Telling
<1> QED
  BY <1>4, <1>5 DEF Rob

LEMMA NotifyInv == ASSUME IdleAssumption, Inv, NEW q \in Remote, Notify(q) PROVE Inv'
<1>1. rpc[q] = "notify" /\ UNCHANGED <<mem, buf, cur, changed, ipi, pc>>
  BY DEF Notify
<1>2. ~ In(buf[q], "pending") /\ mem.lock = q
  BY <1>1 DEF Inv, Stored
<1>3. "unlock" \in At /\ "wake" \in At
  BY DEF At
<1>4. CASE (Load(q, "pending") \/ cur = "thread") /\ Goto(q, "unlock")
  <2>1. Load(q, "pending") = mem.pending
    BY <1>2, LoadParts DEF Inv, Cpu, Word
  <2>2. mem.pending => ipi
    <3>1. ~ In(buf[Self], "pending")
      BY <1>2, LockHeld DEF Word
    <3>2. Put("pending", FALSE) \notin Range(buf[Self])
      BY <3>1, PutStores DEF In
    <3> QED
      BY <3>2, MarkOwned DEF Inv, Marked
  <2>3. ipi \/ cur = "thread"
    BY <1>4, <2>1, <2>2
  <2> QED
    BY <1>1, <1>2, <1>3, <1>4, <2>3, RemoteWalks DEF Goto, Telling
<1>5. CASE Goto(q, "wake")
  BY <1>1, <1>2, <1>3, <1>5, RemoteWalks DEF Goto, Telling
<1> QED
  BY <1>4, <1>5 DEF Notify

LEMMA WakeInv == ASSUME IdleAssumption, Inv, NEW q \in Remote, Wake(q) PROVE Inv'
<1>1. rpc[q] = "wake" /\ buf[q] = <<>> /\ UNCHANGED <<mem, buf, cur, changed, ipi>>
  BY DEF Wake, Fence
<1>2. (\A w : ~ In(buf[q], w)) /\ mem.lock = q
  BY <1>1, ShortRange DEF Inv, Stored, In
<1>3. "unlock" \in At /\ "send" \in At
  BY DEF At
<1>4. CASE cur = "idle" /\ ~ Load(q, "idle") /\ Goto(q, "unlock") /\ UNCHANGED pc
  <2>1. pc # "halted"
    <3>1. Load(q, "idle") = mem.idle
      BY <1>2, LoadParts DEF Inv, Cpu, Word
    <3>2. pc = "halted" => Load(Self, "idle") = mem.idle
      BY LoadParts DEF Inv, Announced, Cpu, Word
    <3> QED
      BY <1>4, <3>1, <3>2 DEF Inv, Announced
  <2> QED
    BY <1>1, <1>2, <1>3, <1>4, <2>1, RemoteWalks DEF Goto, Telling
<1>5. CASE pc = "halted" /\ pc' = "back" /\ Goto(q, "unlock")
  BY <1>1, <1>2, <1>3, <1>5, RemoteWalks DEF Goto, Telling
<1>6. CASE Goto(q, "send") /\ UNCHANGED pc
  BY <1>1, <1>2, <1>3, <1>6, RemoteWalks DEF Goto, Telling
<1> QED
  BY <1>4, <1>5, <1>6 DEF Wake

LEMMA SendInv == ASSUME IdleAssumption, Inv, NEW q \in Remote, Send(q) PROVE Inv'
<1> DEFINE s == Put("pending", TRUE)
<1>1. /\ rpc[q] = "send" /\ buf' = [buf EXCEPT ![q] = Append(@, s)] /\ ipi' = TRUE
      /\ rpc' = [rpc EXCEPT ![q] = "unlock"] /\ UNCHANGED <<mem, cur, changed, pc>>
  BY DEF Send, Goto
<1>2. s \in Store /\ s.word = "pending" /\ s.value = TRUE /\ "unlock" \in At
  BY PutStores DEF At
<1> HIDE DEF s
<1> QED
  BY <1>1, <1>2, RemoteStores DEF Telling

LEMMA UnlockInv == ASSUME IdleAssumption, Inv, NEW q \in Remote, Unlock(q) PROVE Inv'
<1> DEFINE s == Put("lock", Free)
<1>1. /\ rpc[q] = "unlock" /\ buf' = [buf EXCEPT ![q] = Append(@, s)]
      /\ rpc' = [rpc EXCEPT ![q] = "out"] /\ UNCHANGED <<mem, cur, changed, ipi, pc>>
  BY DEF Unlock, Goto
<1>2. s \in Store /\ s.word = "lock" /\ "out" \in At
  BY PutStores DEF At
<1>3. ipi \in BOOLEAN
  BY DEF Inv, TypeOK
<1> HIDE DEF s
<1> QED
  BY <1>1, <1>2, <1>3, RemoteStores DEF Telling

(***************************************************************************)
(* A store reaches memory                                                  *)
(***************************************************************************)
LEMMA DrainInv == ASSUME IdleAssumption, Inv, NEW q \in Cpu, Drain(q) PROVE Inv'
<1> DEFINE h == Head(buf[q])
<1>1. UNCHANGED <<cur, changed, ipi, pc, rpc>> /\ buf[q] # <<>> /\ TypeOK
  BY DEF Drain, Inv
<1>2. /\ h \in Store
      /\ buf' \in [Cpu -> Seq(Store)] /\ mem' \in Memory
      /\ \A w \in Word : mem'[w] = IF w = h.word THEN h.value ELSE mem[w]
      /\ \A p \in Cpu \ {q} : buf'[p] = buf[p]
      /\ \A p \in Cpu \ {q} : \A w \in Word :
           Load(p, w)' = IF In(buf[p], w) THEN Load(p, w) ELSE mem'[w]
      /\ Range(buf[q]) = Range(buf'[q]) \cup {h}
      /\ \A w \in Word : In(buf[q], w) <=> In(buf'[q], w) \/ h.word = w
      /\ \A w \in Word : Load(q, w)' = Load(q, w)
  BY <1>1, StepDrains
<1>3. /\ Ordered(buf[q])'
      /\ h.word = "lock" => \A s \in Range(buf'[q]) : s.word = "idle"
      /\ h.word = "load" => ~ In(buf'[q], "load")
  <2>1. buf[q] \in Seq(Store) /\ Ordered(buf[q]) /\ buf'[q] = Tail(buf[q])
    BY <1>1 DEF Inv, TypeOK, Drain
  <2> QED
    BY <1>1, <2>1, OrderedDrained
<1>4. h \in Range(buf[q]) /\ h.word \in Word
  BY <1>2, StoreParts
<1> HIDE DEF h
<1>5. TypeOK'
  BY <1>1, <1>2 DEF TypeOK
<1>6. h.word # "idle" => mem.lock = q
  BY <1>4 DEF Inv, Guarded
<1>7. h.word = "lock" => h.value = Free
  BY <1>2, StoreParts
<1>8. \A p \in Cpu : Guarded(p)'
  <2> SUFFICES ASSUME NEW p \in Cpu, mem'.lock # p
               PROVE  \A s \in Range(buf'[p]) : s.word = "idle"
    BY DEF Guarded
  <2>1. CASE mem.lock # p
    BY <1>2, <2>1 DEF Inv, Guarded
  <2>2. CASE mem.lock = p
    BY <1>2, <1>3, <1>6, <2>2 DEF Word
  <2> QED
    BY <2>1, <2>2
<1>9. \A p \in Cpu : Ordered(buf[p])'
  BY <1>2, <1>3 DEF Inv
<1>10. \A p \in Remote : Stored(p)'
  <2> SUFFICES ASSUME NEW p \in Remote
               PROVE  Stored(p)'
    OBVIOUS
  <2>1. p \in Cpu /\ Stored(p)
    BY DEF Inv, Cpu
  <2>2. Range(buf'[p]) \subseteq Range(buf[p]) /\ \A w \in Word : In(buf'[p], w) => In(buf[p], w)
    BY <1>2, <2>1
  <2>3. rpc[p] # "out" => mem'.lock = p
    <3>1. CASE h.word = "lock"
      BY <1>2, <1>4, <1>6, <2>1, <3>1 DEF Stored, In
    <3>2. CASE h.word # "lock"
      BY <1>2, <2>1, <3>2 DEF Stored, Word
    <3> QED
      BY <3>1, <3>2
  <2>4. rpc[p] \in {"add", "send"} => buf'[p] = <<>>
    BY <1>1, <1>2, <2>1 DEF Stored
  <2> QED
    BY <1>1, <2>1, <2>2, <2>3, <2>4 DEF Stored, Word
<1>11. \A p \in Remote : Told(p)'
  <2> SUFFICES ASSUME NEW p \in Remote
               PROVE  Told(p)'
    OBVIOUS
  <2>1. p \in Cpu /\ Told(p)
    BY DEF Inv, Cpu
  <2>2. \A w \in Word : In(buf'[p], w) => In(buf[p], w)
    BY <1>2, <2>1
  <2>3. ASSUME In(buf'[p], "load")
        PROVE  Load(p, "load")' = Load(p, "load") /\ mem'.load = mem.load
    <3>1. CASE p = q
      BY <1>2, <1>3, <2>3, <3>1 DEF Word
    <3>2. CASE p # q
      <4>1. mem.lock = p
        BY <1>2, <2>1, <2>3, <3>2 DEF Inv, Guarded, In
      <4>2. h.word = "idle"
        BY <1>6, <3>2, <4>1
      <4> QED
        BY <1>2, <2>1, <2>3, <3>2, <4>2 DEF Word
    <3> QED
      BY <3>1, <3>2
  <2> QED
    BY <1>1, <2>1, <2>2, <2>3 DEF Told, Word
<1>12. Self \in Cpu
  BY DEF Cpu
<1>13. q # Self => h.word # "idle"
  BY <1>4 DEF Inv, Stored, In, Cpu
<1>14. Announced'
  <2>1. Range(buf'[Self]) \subseteq Range(buf[Self])
        /\ (In(buf'[Self], "idle") => In(buf[Self], "idle"))
    BY <1>2, <1>12 DEF Word
  <2>2. Load(Self, "idle") = TRUE => Load(Self, "idle")' = TRUE
    <3>1. CASE q = Self
      BY <1>2, <3>1 DEF Word
    <3>2. CASE q # Self
      <4>1. mem'.idle = mem.idle
        BY <1>2, <1>13, <3>2 DEF Word
      <4>2. ~ In(buf[Self], "idle") => Load(Self, "idle") = mem.idle
        BY <1>1, <1>12, LoadParts DEF Word
      <4> QED
        BY <1>2, <1>12, <3>2, <4>1, <4>2 DEF Word
    <3> QED
      BY <3>1, <3>2
  <2> QED
    BY <1>1, <2>1, <2>2 DEF Inv, Announced
<1>15. Counted'
  <2> SUFFICES ASSUME cur = "thread"
               PROVE  /\ \A p \in Cpu : \A s \in Range(buf'[p]) : s.word = "load" => s.value > 0
                      /\ mem'.load > 0 \/ \E p \in Cpu : In(buf'[p], "load")
    BY <1>1 DEF Counted
  <2>1. /\ \A p \in Cpu : \A s \in Range(buf[p]) : s.word = "load" => s.value > 0
        /\ mem.load > 0 \/ \E p \in Cpu : In(buf[p], "load")
    BY DEF Inv, Counted
  <2>2. \A p \in Cpu : \A s \in Range(buf'[p]) : s.word = "load" => s.value > 0
    BY <1>2, <2>1
  <2>3. CASE h.word = "load"
    <3>1. mem'.load = h.value /\ h.value > 0
      BY <1>2, <1>4, <2>1, <2>3
    <3> QED
      BY <2>2, <3>1
  <2>4. CASE h.word # "load"
    <3>1. mem'.load = mem.load /\ \A p \in Cpu : In(buf[p], "load") => In(buf'[p], "load")
      BY <1>2, <2>4 DEF Word
    <3> QED
      BY <2>1, <2>2, <3>1
  <2> QED
    BY <2>3, <2>4
<1>16. MarkBacked'
  <2>1. Marked /\ (MarkBacked' <=> Marked')
    <3>1. Marked
      BY MarkOwned DEF Inv
    <3>2. MarkBacked' <=> Marked'
      BY MarkOwned, PTL
    <3> QED
      BY <3>1, <3>2
  <2>2. CASE h.word = "pending" /\ q = Self
    <3>1. mem'.pending = FALSE
      BY <1>2, <1>4, <2>2 DEF Inv, Announced
    <3> QED
      BY <2>1, <3>1 DEF Marked
  <2>3. CASE h.word = "pending" /\ q # Self
    <3>1. ipi
      BY <1>4, <2>3 DEF Inv, Told, In, Cpu
    <3> QED
      BY <1>1, <2>1, <3>1 DEF Marked
  <2>4. CASE h.word # "pending"
    <3>1. mem'.pending = mem.pending
      BY <1>2, <2>4 DEF Word
    <3>2. Put("pending", FALSE) \in Range(buf[Self]) => Put("pending", FALSE) \in Range(buf'[Self])
      <4>1. Put("pending", FALSE).word = "pending"
        BY DEF Put
      <4>2. Put("pending", FALSE) # h
        BY <2>4, <4>1
      <4> QED
        BY <1>2, <1>12, <4>2
    <3> QED
      BY <1>1, <2>1, <3>1, <3>2 DEF Marked
  <2> QED
    BY <2>2, <2>3, <2>4
<1>17. NoLostWakeup'
  <2> SUFFICES ASSUME cur = "idle", pc = "halted", Load(Self, "load")' > 0, ~ ipi,
                      \A p \in Remote : rpc[p] \notin Telling
               PROVE  FALSE
    BY <1>1 DEF NoLostWakeup, Idling, Telling
  <2>1. ~ (Load(Self, "load") > 0)
    BY DEF Inv, NoLostWakeup, Idling, Telling
  <2>2. q # Self /\ ~ In(buf[Self], "load") /\ Load(Self, "load")' = mem'.load
    BY <1>2, <1>12, <2>1 DEF Word
  <2>3. Load(Self, "load") = mem.load
    BY <1>1, <1>12, <2>2, LoadParts DEF Word
  <2>4. h.word = "load"
    BY <1>2, <2>1, <2>2, <2>3 DEF Word
  <2>5. q \in Remote /\ In(buf[q], "load")
    BY <1>4, <2>2, <2>4 DEF Cpu, In
  <2>6. Load(q, "load") = h.value
    <3>1. ~ In(buf'[q], "load") /\ Load(q, "load")' = Load(q, "load") /\ mem'.load = h.value
      BY <1>2, <1>3, <2>4 DEF Word
    <3>2. buf'[q] \in Seq(Store)
      BY <1>2
    <3>3. Load(q, "load")' = mem'.load
      BY <3>1, <3>2, NewestKnown DEF Load
    <3> QED
      BY <3>1, <3>3
  <2>7. Load(q, "load") > 0
    BY <1>2, <2>2, <2>4, <2>6 DEF Word
  <2>8. rpc[q] \in {"unlock", "out"}
    <3>1. rpc[q] # "add"
      BY <1>1, <2>5 DEF Inv, Stored
    <3> QED
      BY <2>5, <3>1 DEF Inv, TypeOK, Telling
  <2>9. mem.load > 0
    BY <2>5, <2>7, <2>8 DEF Inv, Told
  <2> QED
    BY <2>1, <2>3, <2>9
<1> QED
  BY <1>5, <1>8, <1>9, <1>10, <1>11, <1>14, <1>15, <1>16, <1>17 DEF Inv

(***************************************************************************)
(* The theorem                                                             *)
(***************************************************************************)
LEMMA InitInv == IdleAssumption /\ Init => Inv
<1> SUFFICES ASSUME IdleAssumption, Init
             PROVE  Inv
  OBVIOUS
<1>1. \A p \in Cpu : buf[p] = <<>> /\ Range(buf[p]) = {}
  BY ShortRange DEF Init
<1>2. TypeOK
  <2>1. mem \in Memory
    BY DEF Init, Memory
  <2>2. buf \in [Cpu -> Seq(Store)]
    <3>1. <<>> \in Seq(Store)
      OBVIOUS
    <3> QED
      BY <3>1 DEF Init
  <2>3. cur = "idle" /\ changed = TRUE /\ ipi = FALSE /\ pc = "top"
    BY DEF Init
  <2>4. rpc \in [Remote -> {"out", "add", "notify", "wake", "send", "unlock"}]
    BY DEF Init
  <2> QED
    BY <2>1, <2>2, <2>3, <2>4 DEF TypeOK

<1>3. \A p \in Cpu : Guarded(p) /\ Ordered(buf[p])
  BY <1>1 DEF Guarded, Ordered
<1>4. \A p \in Remote : Stored(p) /\ Told(p)
  BY <1>1 DEF Init, Stored, Told, In, Cpu
<1>5. Announced /\ Counted /\ MarkBacked
  BY <1>1 DEF Init, Announced, Counted, MarkBacked, Cpu
<1>6. NoLostWakeup
  BY DEF Init, NoLostWakeup, Idling
<1> QED
  BY <1>2, <1>3, <1>4, <1>5, <1>6 DEF Inv

LEMMA NextInv == IdleAssumption /\ Inv /\ [Next]_vars => Inv'
<1> SUFFICES ASSUME IdleAssumption, Inv, [Next]_vars
             PROVE  Inv'
  OBVIOUS
<1>1. CASE IdleLoop
  BY <1>1, TopInv, SwitchInv, IdledInv, StealInv, SpinInv, RecheckInv, CpuIdleInv, BackInv
     DEF IdleLoop
<1>2. CASE StrayInterrupt \/ Preempt \/ LocalAdd \/ ThreadStops
  BY <1>2, StrayInterruptInv, PreemptInv, LocalAddInv, ThreadStopsInv
<1>3. ASSUME NEW p \in Remote, Remotes(p)
      PROVE  Inv'
  BY <1>3, LockInv, AddInv, RobInv, NotifyInv, WakeInv, SendInv, UnlockInv
     DEF Remotes, Finish
<1>4. ASSUME NEW p \in Cpu, Drain(p)
      PROVE  Inv'
  BY <1>4, DrainInv
<1>5. CASE UNCHANGED vars
  BY <1>5, SelfWalks DEF vars, Inv, TypeOK, Announced, NoLostWakeup, Idling, Load
<1> QED
  BY <1>1, <1>2, <1>3, <1>4, <1>5 DEF Next

(* A CPU that halted with a thread on its queue has an interrupt on its    *)
(* way or somebody who will send one, and a pending mark has its           *)
(* interrupt: in every execution, for any number of CPUs and any order in  *)
(* which their stores reach memory (sched_idletd and tdq_notify).          *)
THEOREM WakeupsKept ==
  ASSUME IdleAssumption
  PROVE  Spec => [](TypeOK /\ NoLostWakeup /\ MarkBacked)
<1>1. Init => Inv
  BY InitInv
<1>2. Inv /\ [Next]_vars => Inv'
  BY NextInv
<1>3. Inv => TypeOK /\ NoLostWakeup /\ MarkBacked
  BY DEF Inv
<1> QED
  BY <1>1, <1>2, <1>3, PTL DEF Spec
=============================================================================
