-------------------------- MODULE PageQueueProofs --------------------------
(***************************************************************************)
(* What the paging queues keep, for any pages, threads and sizes of a      *)
(* batch, as long as the assertion of vm_pqbatch_process_page has not      *)
(* failed: a page is on the list its field and flag name, on no other, and *)
(* once; the counts count; and the page lock guards where a page belongs.  *)
(***************************************************************************)
EXTENDS PageQueues, SequenceTheorems, FiniteSetTheorems, TLAPS

(***************************************************************************)
(* The inductive invariant                                                 *)
(***************************************************************************)
(* Instructions under a queue lock; those that give it back at their end.  *)
Batched == {"process", "apply", "clear", "settle", "put", "collect"}
Locking == {"clear unlock", "finish", "unlock queue"}

(* Instructions on a page that its lock guards. *)
Guarded == {"assign", "requeue", "head", "submit", "deferred", "free", "finish", "reinsert"}

OnPage == Guarded \cup {"process", "apply", "clear", "settle", "put", "clear unlock",
                        "dequeue", "unlock", "use", "look", "clean", "paged"}
OnQueue == Batched \cup Locking \cup {"assign", "submit", "reinsert", "stuck", "rest", "end scan"}
OfScan == {"put", "collect", "look", "reinsert", "stuck", "rest", "end scan"}

InstrType ==
  {i \in [do : OnPage \cup OnQueue, page : Page \cup {"none"}, queue : Queue \cup {"none"}] :
     /\ i.do \in OnPage => i.page \in Page
     /\ i.do \in OnQueue => i.queue \in Queue
     /\ i.do = "head" => i.queue = Inactive
     /\ i.do = "paged" => i.queue = "none"
     /\ i.do = "put" => i.queue = Inactive}

Stored ==
  /\ queue \in [Page -> Queue \cup {"none"}]
  /\ flags \in [Page -> SUBSET Flag]
  /\ list \in [Queue -> Seq(Page \cup {Marker, Inacthead})]
  /\ cnt \in [Queue -> Nat]
  /\ batch \in [Actor -> [Queue -> Seq(Page)]]
  /\ plock \in [Page -> Actor \cup {Nobody}]
  /\ qlock \in [Queue -> Actor \cup {Nobody}]
  /\ page \in [Page -> {"free", "taking", "used", "wired", "dead"}]
  /\ scan \in [on : BOOLEAN, queue : Queue, batch : Seq(Page), stuck : Seq(Page), left : Nat]

Typed == Stored /\ code \in [Actor -> Seq(InstrType)]

(* An instruction that is always the next one. *)
First == {"apply", "clear", "settle", "collect", "clear unlock", "dequeue", "deferred"}

(* What an actor may have to do some time after x: what is left of a batch *)
(* under its lock, then the rest of an operation, then to give the page    *)
(* back.                                                                   *)
Follows(x, y) ==
  /\ y.do \notin First
  /\ x.do \notin Batched => y.do \notin Batched \cup Locking
  /\ x.do = "unlock" => y.do \in {"clean", "paged"}
  /\ x.do \notin {"use", "end scan", "look", "clean", "paged"}
  /\ y.do = "assign" => x.do \in {"dequeue", "clear unlock"} /\ x.page = y.page
  /\ x.do = "assign" => y.do # "free" /\ (y.do \in {"submit", "head"} => y.queue = x.queue)
  /\ x.do = "deferred" /\ y.do = "free" => y.page = x.page
  /\ x.do = "free" => y.do = "unlock"

Shape(s) == \A i, j \in DOMAIN s : i < j => Follows(s[i], s[j])

Todo(a) == ToSet(code[a])

Heading(a, dos, p) == code[a] # <<>> /\ Next1(a).do \in dos /\ Next1(a).page = p

(* a is allocating p; a has yet to say where p belongs. *)
Takes(a, p) == \E x \in Todo(a) : x.do = "use" /\ x.page = p
Assigns(a, p) == \E x \in Todo(a) : x.do = "assign" /\ x.page = p

(* Who holds which lock, by what he has to do. *)
Holds(a, x) ==
  /\ x.do \in Batched \cup Locking => qlock[x.queue] = a
  /\ x.do \in Guarded \cup {"unlock"} => plock[x.page] = a
  /\ x.do \in {"dequeue", "clear unlock"} => plock[x.page] = a \/ Takes(a, x.page)

(* What is done to a page is done to one in use; it is freed without a     *)
(* queue.                                                                  *)
Serves(a, x) ==
  /\ x.do \in Guarded \cup {"paged"} => page[x.page] \in {"used", "wired", "dead"}
  /\ x.do = "paged" => a = Daemon
  /\ x.do = "use" => page[x.page] = "taking"
  /\ x.do = "free" => Heading(a, {"deferred"}, x.page) \/ Logical(x.page) = "none"

(* Where the page of an instruction belongs. *)
Placed(a, x) ==
  /\ x.do = "assign" =>
       \/ Heading(a, {"dequeue", "clear unlock"}, x.page)
       \/ queue[x.page] = "none" /\ flags[x.page] = {}
  /\ x.do \in {"submit", "finish", "head"} =>
       queue[x.page] \in {x.queue, "none"} \/ Assigns(a, x.page)
  /\ x.do \in {"clear", "clear unlock"} => queue[x.page] = "none"
  /\ x.do = "clear" => "dequeue" \in flags[x.page]
  /\ x.do = "settle" => queue[x.page] = x.queue /\ "enqueued" \in flags[x.page]

Sound(a, x) == Holds(a, x) /\ Serves(a, x) /\ Placed(a, x)

(* A page that is free, or being allocated, belongs to no queue. *)
Unused == \A p \in Page : page[p] \in {"free", "taking"} => Logical(p) = "none"

(* Only inactive pages go to the head. *)
Headed == \A p \in Page : "head" \in flags[p] => queue[p] \in {Inactive, "none"}

(* One actor allocates a page; none frees one that is written; one         *)
(* completes the dequeue of a page, and from the queue it was batched for. *)
Match(a, x, b, y) ==
  x.page = y.page =>
    /\ x.do = "use" /\ y.do = "use" => a = b
    /\ ~ (x.do = "paged" /\ y.do = "free")
    /\ x.do = "clear" /\ y.do \in {"clear", "clear unlock"} => a = b
    /\ x.do = "clear" /\ y.do \in {"submit", "finish"} =>
         x.queue = y.queue \/ Assigns(b, y.page)

Filed(p, q) == queue[p] = q /\ "enqueued" \in flags[p]

Listed ==
  \A q \in Queue :
    /\ IsInjective(list[q])
    /\ \A p \in Page : p \in ToSet(list[q]) <=> Filed(p, q)
    /\ Inacthead \in ToSet(list[q]) <=> q = Inactive
    /\ Marker \in ToSet(list[q]) <=> scan.on /\ q = scan.queue
    /\ cnt[q] = Cardinality({p \in Page : Filed(p, q)})

Scanned ==
  /\ \A x \in Todo(Daemon) :
       /\ x.do \in OfScan => scan.on
       /\ x.do \in {"collect", "end scan"} => x.queue = scan.queue
       /\ x.do \in {"put", "reinsert", "stuck", "rest"} => scan.queue = Inactive
  /\ scan.queue # "active"

Actors ==
  \A a \in Actor :
    /\ Shape(code[a])
    /\ \A x \in Todo(a) : Sound(a, x)
    /\ \A x \in Todo(a), b \in Actor : \A y \in Todo(b) : Match(a, x, b, y)

Inv == Typed /\ Unused /\ Headed /\ Listed /\ Scanned /\ Actors

(***************************************************************************)
(* Sequences                                                               *)
(***************************************************************************)
LEMMA ElementsOf ==
  ASSUME NEW S, NEW s \in Seq(S)
  PROVE  /\ DOMAIN s = 1..Len(s) /\ Len(s) \in Nat /\ ToSet(s) \subseteq S
         /\ \A i \in 1..Len(s) : s[i] \in ToSet(s)
         /\ \A e : e \in ToSet(s) <=> \E i \in 1..Len(s) : s[i] = e
<1>1. DOMAIN s = 1..Len(s) /\ Len(s) \in Nat
  BY LenProperties
<1>2. \A i \in 1..Len(s) : s[i] \in S
  BY ElementOfSeq
<1> QED
  BY <1>1, <1>2 DEF ToSet

LEMMA Concat ==
  ASSUME NEW S, NEW s \in Seq(S), NEW t \in Seq(S)
  PROVE  /\ s \o t \in Seq(S) /\ ToSet(s \o t) = ToSet(s) \cup ToSet(t)
         /\ IsInjective(s \o t) <=>
              (IsInjective(s) /\ IsInjective(t) /\ ToSet(s) \cap ToSet(t) = {})
<1> DEFINE n == Len(s)
           m == Len(t)
           c == s \o t
<1>1. n \in Nat /\ m \in Nat /\ DOMAIN s = 1..n /\ DOMAIN t = 1..m
  BY LenProperties
<1>2. c \in Seq(S) /\ Len(c) = n + m /\ \A i \in 1..(n + m) : c[i] = IF i <= n THEN s[i] ELSE t[i - n]
  BY ConcatProperties
<1>3. DOMAIN c = 1..(n + m)
  BY <1>2, LenProperties
<1> HIDE DEF n, m, c
<1>4. \A i \in 1..n : i \in 1..(n + m) /\ c[i] = s[i]
  BY <1>1, <1>2
<1>5. ASSUME NEW i \in 1..m
      PROVE  n + i \in 1..(n + m) /\ c[n + i] = t[i] /\ n + i > n
  <2> DEFINE k == n + i
  <2>1. k \in 1..(n + m) /\ ~ (k <= n) /\ k - n = i /\ k > n
    BY <1>1
  <2> HIDE DEF k
  <2>2. c[k] = t[i]
    BY <1>2, <2>1
  <2> QED
    BY <2>1, <2>2 DEF k
<1>6. ASSUME NEW k \in 1..(n + m), ~ (k \in 1..n)
      PROVE  \E i \in 1..m : k = n + i /\ c[k] = t[i]
  <2> DEFINE i == k - n
  <2>1. i \in 1..m /\ k = n + i
    BY <1>1, <1>6
  <2> HIDE DEF i
  <2> QED
    BY <1>5, <2>1
<1>7. ToSet(c) = ToSet(s) \cup ToSet(t)
  <2>1. Range(c) = Range(s) \cup Range(t)
    BY RangeConcatenation DEF c
  <2> QED
    BY <2>1 DEF Range, ToSet
<1>8. ASSUME IsInjective(c)
      PROVE  IsInjective(s) /\ IsInjective(t) /\ ToSet(s) \cap ToSet(t) = {}
  <2>1. IsInjective(s)
    BY <1>1, <1>3, <1>4, <1>8 DEF IsInjective
  <2>2. ASSUME NEW i \in 1..m, NEW j \in 1..m, t[i] = t[j]
        PROVE  i = j
    <3>1. n + i = n + j
      BY <1>3, <1>5, <1>8, <2>2 DEF IsInjective
    <3> QED
      BY <1>1, <3>1
  <2>3. ASSUME NEW i \in 1..n, NEW j \in 1..m, s[i] = t[j]
        PROVE  FALSE
    <3>1. i = n + j
      BY <1>3, <1>4, <1>5, <1>8, <2>3 DEF IsInjective
    <3> QED
      BY <1>1, <1>5, <3>1
  <2> QED
    BY <1>1, <2>1, <2>2, <2>3 DEF IsInjective, ToSet
<1>9. ASSUME IsInjective(s), IsInjective(t), ToSet(s) \cap ToSet(t) = {}
      PROVE  IsInjective(c)
  <2>0. \A i \in 1..n, j \in 1..m : s[i] # t[j]
    BY <1>1, <1>9 DEF ToSet
  <2>1. ASSUME NEW i \in 1..(n + m), NEW j \in 1..(n + m), c[i] = c[j]
        PROVE  i = j
    <3>1. CASE i \in 1..n /\ j \in 1..n
      BY <1>1, <1>4, <1>9, <2>1, <3>1 DEF IsInjective
    <3>2. CASE ~ (i \in 1..n) /\ ~ (j \in 1..n)
      BY <1>1, <1>6, <1>9, <2>1, <3>2 DEF IsInjective
    <3>3. CASE i \in 1..n /\ ~ (j \in 1..n)
      BY <1>4, <1>6, <2>0, <2>1, <3>3
    <3>4. CASE ~ (i \in 1..n) /\ j \in 1..n
      BY <1>4, <1>6, <2>0, <2>1, <3>4
    <3> QED
      BY <3>1, <3>2, <3>3, <3>4
  <2> QED
    BY <1>3, <2>1 DEF IsInjective
<1>10. IsInjective(c) <=> (IsInjective(s) /\ IsInjective(t) /\ ToSet(s) \cap ToSet(t) = {})
  BY <1>8, <1>9
<1> QED
  BY <1>2, <1>7, <1>10 DEF c

LEMMA Single ==
  ASSUME NEW S, NEW e \in S
  PROVE  <<e>> \in Seq(S) /\ ToSet(<<e>>) = {e} /\ IsInjective(<<e>>)
BY DEF ToSet, IsInjective

LEMMA Added ==
  ASSUME NEW S, NEW s \in Seq(S), NEW e \in S
  PROVE  /\ Append(s, e) \in Seq(S) /\ ToSet(Append(s, e)) = ToSet(s) \cup {e}
         /\ IsInjective(Append(s, e)) <=> (IsInjective(s) /\ e \notin ToSet(s))
<1>1. Append(s, e) = s \o <<e>>
  BY AppendIsConcat
<1>2. <<e>> \in Seq(S) /\ ToSet(<<e>>) = {e} /\ IsInjective(<<e>>)
  BY Single
<1> DEFINE u == <<e>>
<1> HIDE DEF u
<1>3. u \in Seq(S) /\ ToSet(u) = {e} /\ IsInjective(u) /\ Append(s, e) = s \o u
  BY <1>1, <1>2 DEF u
<1>4. /\ s \o u \in Seq(S) /\ ToSet(s \o u) = ToSet(s) \cup ToSet(u)
      /\ IsInjective(s \o u) <=> (IsInjective(s) /\ IsInjective(u) /\ ToSet(s) \cap ToSet(u) = {})
  BY <1>3, Concat
<1> QED
  BY <1>3, <1>4

(* A sequence, cut before and after one of its elements. *)
LEMMA Cut ==
  ASSUME NEW S, NEW s \in Seq(S), NEW k \in 1..Len(s)
  PROVE  /\ SubSeq(s, 1, k - 1) \in Seq(S) /\ SubSeq(s, k, Len(s)) \in Seq(S)
         /\ SubSeq(s, k + 1, Len(s)) \in Seq(S) /\ s[k] \in S
         /\ s = SubSeq(s, 1, k - 1) \o SubSeq(s, k, Len(s))
         /\ SubSeq(s, k, Len(s)) = <<s[k]>> \o SubSeq(s, k + 1, Len(s))
<1>1. Len(s) \in Nat /\ (\A i \in 1..Len(s) : s[i] \in S) /\ Len(s) \in 1..Len(s)
  BY LenProperties, ElementOfSeq
<1>2. SubSeq(s, 1, k - 1) \in Seq(S)
  BY <1>1, SubSeqProperties
<1>3. SubSeq(s, k, Len(s)) \in Seq(S)
  BY <1>1, SubSeqProperties
<1>4. SubSeq(s, k + 1, Len(s)) \in Seq(S)
  <2> DEFINE j == k + 1
  <2>1. j \in Int /\ \A i \in j..Len(s) : s[i] \in S
    BY <1>1
  <2> HIDE DEF j
  <2>2. SubSeq(s, j, Len(s)) \in Seq(S)
    BY <1>1, <2>1, SubSeqProperties
  <2> QED
    BY <2>2 DEF j
<1>5. s = SubSeq(s, 1, k - 1) \o SubSeq(s, k, Len(s))
  <2> DEFINE j == k - 1
  <2>1. j \in 0..Len(s) /\ j \in (1 - 1)..Len(s) /\ j + 1 = k /\ Len(s) \in j..Len(s)
        /\ 1 \in 1..(Len(s) + 1)
    BY <1>1
  <2> HIDE DEF j
  <2>2. SubSeq(s, 1, j) \o SubSeq(s, j + 1, Len(s)) = SubSeq(s, 1, Len(s))
    BY <2>1, ConcatAdjacentSubSeq
  <2>3. SubSeq(s, 1, Len(s)) = s
    BY SubSeqFull
  <2> QED
    BY <2>1, <2>2, <2>3 DEF j
<1>6. SubSeq(s, k, Len(s)) = <<s[k]>> \o SubSeq(s, k + 1, Len(s))
  <2>1. Len(s) \in k..Len(s)
    BY <1>1
  <2> QED
    BY <2>1, SubSeqRecursiveFirst
<1> QED
  BY <1>1, <1>2, <1>3, <1>4, <1>5, <1>6

LEMMA Inserted ==
  ASSUME NEW S, NEW s \in Seq(S), NEW k \in 1..Len(s), NEW e \in S
  PROVE  /\ InsertAt(s, k, e) \in Seq(S) /\ ToSet(InsertAt(s, k, e)) = ToSet(s) \cup {e}
         /\ IsInjective(InsertAt(s, k, e)) <=> (IsInjective(s) /\ e \notin ToSet(s))
<1> DEFINE l == SubSeq(s, 1, k - 1)
           r == SubSeq(s, k, Len(s))
           u == <<e>>
           lu == l \o u
<1>1. l \in Seq(S) /\ r \in Seq(S) /\ s = l \o r
  BY Cut
<1>2. InsertAt(s, k, e) = lu \o r
  BY DEF InsertAt
<1>3. u \in Seq(S) /\ ToSet(u) = {e} /\ IsInjective(u)
  BY Single
<1> HIDE DEF l, r, u
<1>4. /\ lu \in Seq(S) /\ ToSet(lu) = ToSet(l) \cup ToSet(u)
      /\ IsInjective(lu) <=> (IsInjective(l) /\ IsInjective(u) /\ ToSet(l) \cap ToSet(u) = {})
  BY <1>1, <1>3, Concat
<1>6. /\ ToSet(s) = ToSet(l) \cup ToSet(r)
      /\ IsInjective(s) <=> (IsInjective(l) /\ IsInjective(r) /\ ToSet(l) \cap ToSet(r) = {})
  <2>1. /\ ToSet(l \o r) = ToSet(l) \cup ToSet(r)
        /\ IsInjective(l \o r) <=> (IsInjective(l) /\ IsInjective(r) /\ ToSet(l) \cap ToSet(r) = {})
    BY <1>1, Concat
  <2> QED
    BY <1>1, <2>1
<1> HIDE DEF lu
<1>5. /\ lu \o r \in Seq(S)
      /\ ToSet(lu \o r) = ToSet(lu) \cup ToSet(r)
      /\ IsInjective(lu \o r) <=>
           (IsInjective(lu) /\ IsInjective(r) /\ ToSet(lu) \cap ToSet(r) = {})
  BY <1>1, <1>4, Concat
<1> QED
  BY <1>2, <1>3, <1>4, <1>5, <1>6

LEMMA Removed ==
  ASSUME NEW S, NEW s \in Seq(S), NEW k \in 1..Len(s), IsInjective(s)
  PROVE  /\ RemoveAt(s, k) \in Seq(S) /\ ToSet(RemoveAt(s, k)) = ToSet(s) \ {s[k]}
         /\ IsInjective(RemoveAt(s, k))
<1> DEFINE l == SubSeq(s, 1, k - 1)
           m == SubSeq(s, k, Len(s))
           r == SubSeq(s, k + 1, Len(s))
           e == s[k]
           u == <<e>>
<1>1. l \in Seq(S) /\ m \in Seq(S) /\ r \in Seq(S) /\ e \in S /\ s = l \o m /\ m = u \o r
  BY Cut
<1>2. RemoveAt(s, k) = l \o r
  BY DEF RemoveAt
<1>3. u \in Seq(S) /\ ToSet(u) = {e}
  BY <1>1, Single
<1> HIDE DEF l, m, r, e, u
<1>4. /\ ToSet(u \o r) = {e} \cup ToSet(r)
      /\ IsInjective(u \o r) => IsInjective(r) /\ e \notin ToSet(r)
  BY <1>1, <1>3, Concat
<1>5. /\ ToSet(l \o m) = ToSet(l) \cup ToSet(m)
      /\ IsInjective(l \o m) => IsInjective(l) /\ IsInjective(m) /\ ToSet(l) \cap ToSet(m) = {}
  <2>1. l \in Seq(S) /\ m \in Seq(S)
    BY <1>1
  <2> QED
    BY <2>1, Concat
<1>6. /\ l \o r \in Seq(S) /\ ToSet(l \o r) = ToSet(l) \cup ToSet(r)
      /\ IsInjective(l \o r) <=> (IsInjective(l) /\ IsInjective(r) /\ ToSet(l) \cap ToSet(r) = {})
  BY <1>1, Concat
<1>7. /\ ToSet(m) = {e} \cup ToSet(r) /\ e \notin ToSet(r)
      /\ ToSet(s) = ToSet(l) \cup ToSet(m) /\ ToSet(l) \cap ToSet(m) = {}
      /\ IsInjective(l) /\ IsInjective(r)
  BY <1>1, <1>4, <1>5
<1>8. ToSet(l) \cup ToSet(r) = ToSet(s) \ {e} /\ ToSet(l) \cap ToSet(r) = {}
  BY <1>7
<1> QED
  BY <1>2, <1>6, <1>7, <1>8 DEF e

LEMMA PlaceIn ==
  ASSUME NEW S, NEW s \in Seq(S), NEW m \in ToSet(s)
  PROVE  Place(s, m) \in 1..Len(s) /\ s[Place(s, m)] = m /\ Contains(s, m)
<1>1. DOMAIN s = 1..Len(s)
  BY LenProperties
<1>2. \E i \in DOMAIN s : s[i] = m
  BY DEF ToSet
<1> QED
  BY <1>1, <1>2 DEF Place, Contains

(* TAILQ_REMOVE *)
LEMMA LessIs ==
  ASSUME NEW S, NEW s \in Seq(S), NEW m, IsInjective(s)
  PROVE  /\ Less(s, m) \in Seq(S) /\ ToSet(Less(s, m)) = ToSet(s) \ {m}
         /\ IsInjective(Less(s, m))
<1>1. CASE m \in ToSet(s)
  BY <1>1, PlaceIn, Removed DEF Less
<1>2. CASE m \notin ToSet(s)
  <2>1. DOMAIN s = 1..Len(s)
    BY LenProperties
  <2>2. ~ Contains(s, m)
    BY <1>2, <2>1 DEF Contains, ToSet
  <2> QED
    BY <1>2, <2>2 DEF Less
<1> QED
  BY <1>1, <1>2

(* TAILQ_INSERT_BEFORE *)
LEMMA BeforeIs ==
  ASSUME NEW S, NEW s \in Seq(S), NEW m \in ToSet(s), NEW e \in S
  PROVE  /\ Before(s, m, e) \in Seq(S) /\ ToSet(Before(s, m, e)) = ToSet(s) \cup {e}
         /\ IsInjective(Before(s, m, e)) <=> (IsInjective(s) /\ e \notin ToSet(s))
BY PlaceIn, Inserted DEF Before

(* Two elements change places. *)
Swaps(s, i, j, t) == t = [s EXCEPT ![i] = s[j], ![j] = s[i]]

LEMMA Swapped ==
  ASSUME NEW S, NEW s \in Seq(S), NEW i \in 1..Len(s), NEW j \in 1..Len(s), i # j,
         IsInjective(s), NEW t, Swaps(s, i, j, t)
  PROVE  t \in Seq(S) /\ ToSet(t) = ToSet(s) /\ IsInjective(t)
<1>0. t = [s EXCEPT ![i] = s[j], ![j] = s[i]]
  BY DEF Swaps
<1>1. DOMAIN s = 1..Len(s) /\ s[i] \in S /\ s[j] \in S /\ \A n \in 1..Len(s) : s[n] \in S
  BY LenProperties, ElementOfSeq
<1>2. [s EXCEPT ![i] = s[j]] \in Seq(S) /\ Len([s EXCEPT ![i] = s[j]]) = Len(s)
  BY <1>1, ExceptSeq
<1>3. t \in Seq(S) /\ DOMAIN t = 1..Len(s)
  <2>1. t \in Seq(S)
    BY <1>0, <1>1, <1>2, ExceptSeq
  <2> QED
    BY <1>0, <1>1, <2>1
<1>4. t[i] = s[j] /\ t[j] = s[i] /\ \A n \in 1..Len(s) : n # i /\ n # j => t[n] = s[n]
  BY <1>0, <1>1
<1>5. ToSet(t) = ToSet(s)
  BY <1>1, <1>3, <1>4 DEF ToSet
<1>6. IsInjective(t)
  BY <1>1, <1>3, <1>4 DEF IsInjective
<1> QED
  BY <1>3, <1>5, <1>6

(* The entries of a batch, as instructions. *)
LEMMA HeadAndTail ==
  ASSUME NEW S, NEW s \in Seq(S), s # <<>>
  PROVE  /\ Head(s) \in S /\ Tail(s) \in Seq(S) /\ s = <<Head(s)>> \o Tail(s)
         /\ ToSet(s) = {Head(s)} \cup ToSet(Tail(s))
         /\ Head(s) \in ToSet(s)
<1> DEFINE u == <<Head(s)>>
<1>1. Head(s) \in S /\ Tail(s) \in Seq(S) /\ Len(s) \in Nat /\ Len(s) >= 1
  BY HeadTailProperties, LenProperties, EmptySeq
<1>2. s = SubSeq(s, 1, Len(s)) /\ Tail(s) = SubSeq(s, 2, Len(s)) /\ s[1] = Head(s)
  BY SubSeqFull, TailIsSubSeq, <1>1
<1>3. SubSeq(s, 1, Len(s)) = <<s[1]>> \o SubSeq(s, 1 + 1, Len(s))
  <2>1. 1 \in 1..Len(s) /\ Len(s) \in 1..Len(s)
    BY <1>1
  <2> QED
    BY <2>1, SubSeqRecursiveFirst
<1>4. s = u \o Tail(s)
  BY <1>2, <1>3
<1>5. u \in Seq(S) /\ ToSet(u) = {Head(s)}
  BY <1>1, Single
<1> HIDE DEF u
<1>6. ToSet(u \o Tail(s)) = ToSet(u) \cup ToSet(Tail(s))
  BY <1>1, <1>5, Concat
<1> QED
  BY <1>1, <1>4, <1>5, <1>6 DEF u

LEMMA HeadOf ==
  ASSUME NEW S, NEW s \in Seq(S), NEW t \in Seq(S), s # <<>>
  PROVE  s \o t # <<>> /\ Head(s \o t) = Head(s)
<1>1. Len(s) \in Nat /\ Len(t) \in Nat /\ Len(s) >= 1
  BY EmptySeq, LenProperties
<1>2. s \o t \in Seq(S) /\ Len(s \o t) = Len(s) + Len(t) /\ (s \o t)[1] = s[1]
  BY <1>1, ConcatProperties
<1>3. s \o t # <<>>
  BY <1>1, <1>2, EmptySeq
<1>4. ASSUME NEW u \in Seq(S), u # <<>>
      PROVE  Head(u) = u[1]
  BY <1>4
<1> QED
  BY <1>2, <1>3, <1>4

(***************************************************************************)
(* What an actor has to do                                                 *)
(***************************************************************************)
LEMMA Shapes ==
  ASSUME NEW s \in Seq(InstrType), NEW t \in Seq(InstrType)
  PROVE  Shape(s \o t) <=>
           (Shape(s) /\ Shape(t) /\ \A x \in ToSet(s), y \in ToSet(t) : Follows(x, y))
<1> DEFINE n == Len(s)
           m == Len(t)
           c == s \o t
<1>1. n \in Nat /\ m \in Nat /\ DOMAIN s = 1..n /\ DOMAIN t = 1..m
  BY LenProperties
<1>2. c \in Seq(InstrType) /\ Len(c) = n + m
      /\ \A i \in 1..(n + m) : c[i] = IF i <= n THEN s[i] ELSE t[i - n]
  BY ConcatProperties
<1>3. DOMAIN c = 1..(n + m)
  BY <1>2, LenProperties
<1> HIDE DEF n, m, c
<1>4. \A i \in 1..n : i \in 1..(n + m) /\ c[i] = s[i]
  BY <1>1, <1>2
<1>5. ASSUME NEW i \in 1..m
      PROVE  n + i \in 1..(n + m) /\ c[n + i] = t[i] /\ n + i > n
  <2> DEFINE k == n + i
  <2>1. k \in 1..(n + m) /\ ~ (k <= n) /\ k - n = i /\ k > n
    BY <1>1
  <2> HIDE DEF k
  <2>2. c[k] = t[i]
    BY <1>2, <2>1
  <2> QED
    BY <2>1, <2>2 DEF k
<1>6. ASSUME NEW k \in 1..(n + m), ~ (k \in 1..n)
      PROVE  \E i \in 1..m : k = n + i /\ c[k] = t[i]
  <2> DEFINE i == k - n
  <2>1. i \in 1..m /\ k = n + i
    BY <1>1, <1>6
  <2> HIDE DEF i
  <2> QED
    BY <1>5, <2>1
<1>7. ASSUME Shape(c)
      PROVE  Shape(s) /\ Shape(t) /\ \A x \in ToSet(s), y \in ToSet(t) : Follows(x, y)
  <2>0. \A i, j \in 1..(n + m) : i < j => Follows(c[i], c[j])
    BY <1>3, <1>7 DEF Shape
  <2>1. Shape(s)
    BY <1>1, <1>4, <2>0 DEF Shape
  <2>2. ASSUME NEW i \in 1..m, NEW j \in 1..m, i < j
        PROVE  Follows(t[i], t[j])
    <3>1. n + i < n + j
      BY <1>1, <2>2
    <3> QED
      BY <1>5, <2>0, <3>1
  <2>3. ASSUME NEW i \in 1..n, NEW j \in 1..m
        PROVE  Follows(s[i], t[j])
    <3>1. i < n + j
      BY <1>1
    <3> QED
      BY <1>4, <1>5, <2>0, <3>1
  <2> QED
    BY <1>1, <2>1, <2>2, <2>3 DEF Shape, ToSet
<1>8. ASSUME Shape(s), Shape(t), \A x \in ToSet(s), y \in ToSet(t) : Follows(x, y)
      PROVE  Shape(c)
  <2>0. /\ \A i, j \in 1..n : i < j => Follows(s[i], s[j])
        /\ \A i, j \in 1..m : i < j => Follows(t[i], t[j])
        /\ \A i \in 1..n, j \in 1..m : Follows(s[i], t[j])
    BY <1>1, <1>8 DEF Shape, ToSet
  <2>1. ASSUME NEW i \in 1..(n + m), NEW j \in 1..(n + m), i < j
        PROVE  Follows(c[i], c[j])
    <3>1. CASE i \in 1..n /\ j \in 1..n
      BY <1>4, <2>0, <2>1, <3>1
    <3>2. CASE ~ (i \in 1..n)
      <4>1. ~ (j \in 1..n)
        BY <1>1, <2>1, <3>2
      <4>2. PICK k \in 1..m : i = n + k /\ c[i] = t[k]
        BY <1>6, <3>2
      <4>3. PICK l \in 1..m : j = n + l /\ c[j] = t[l]
        BY <1>6, <4>1
      <4>4. k < l
        BY <1>1, <2>1, <4>2, <4>3
      <4> QED
        BY <2>0, <4>2, <4>3, <4>4
    <3>3. CASE i \in 1..n /\ ~ (j \in 1..n)
      BY <1>4, <1>6, <2>0, <3>3
    <3> QED
      BY <3>1, <3>2, <3>3
  <2> QED
    BY <1>3, <2>1 DEF Shape
<1> QED
  BY <1>7, <1>8 DEF c

(* What an actor does after its next instruction. *)
Rest(a) == IF code[a] = <<>> THEN <<>> ELSE Tail(code[a])

LEMMA Rests ==
  ASSUME Inv, NEW a \in Actor
  PROVE  /\ Rest(a) \in Seq(InstrType) /\ Shape(Rest(a)) /\ ToSet(Rest(a)) \subseteq Todo(a)
         /\ code[a] # <<>> =>
              /\ Next1(a) \in InstrType /\ Next1(a) \in Todo(a)
              /\ Todo(a) = {Next1(a)} \cup ToSet(Rest(a))
              /\ \A y \in ToSet(Rest(a)) : Follows(Next1(a), y)
         /\ code[a] = <<>> => Todo(a) = {} /\ ToSet(Rest(a)) = {}
<1>1. code[a] \in Seq(InstrType) /\ Shape(code[a])
  BY DEF Inv, Typed, Actors
<1>2. CASE code[a] = <<>>
  <2>1. Todo(a) = {}
    BY <1>2 DEF Todo, ToSet
  <2>2. Rest(a) = <<>> /\ ToSet(<<>>) = {} /\ Shape(<<>>) /\ <<>> \in Seq(InstrType)
    BY <1>2 DEF Rest, ToSet, Shape
  <2> QED
    BY <1>2, <2>1, <2>2
<1>3. CASE code[a] # <<>>
  <2> DEFINE u == <<Head(code[a])>>
             t == Tail(code[a])
  <2>1. /\ Head(code[a]) \in InstrType /\ t \in Seq(InstrType) /\ code[a] = u \o t
        /\ ToSet(code[a]) = {Head(code[a])} \cup ToSet(t)
        /\ Head(code[a]) \in ToSet(code[a])
    BY <1>1, <1>3, HeadAndTail
  <2>2. u \in Seq(InstrType) /\ ToSet(u) = {Head(code[a])}
    BY <2>1, Single
  <2> HIDE DEF u, t
  <2>3. Shape(u \o t) <=>
          (Shape(u) /\ Shape(t) /\ \A x \in ToSet(u), y \in ToSet(t) : Follows(x, y))
    BY <2>1, <2>2, Shapes
  <2>4. Shape(t) /\ \A y \in ToSet(t) : Follows(Head(code[a]), y)
    BY <1>1, <2>1, <2>2, <2>3
  <2> QED
    BY <1>3, <2>1, <2>4 DEF Rest, t, Todo, Next1
<1> QED
  BY <1>2, <1>3

(* a goes on with more. *)
GoesOn(a, more) == code' = [code EXCEPT ![a] = more \o Rest(a)]

LEMMA Going ==
  ASSUME Inv, NEW a \in Actor, NEW more \in Seq(InstrType), GoesOn(a, more), Shape(more),
         \A x \in ToSet(more), y \in ToSet(Rest(a)) : Follows(x, y)
  PROVE  /\ code' \in [Actor -> Seq(InstrType)]
         /\ Shape(code[a])'
         /\ Todo(a)' = ToSet(more) \cup ToSet(Rest(a))
         /\ \A b \in Actor \ {a} : code'[b] = code[b] /\ Todo(b)' = Todo(b)
         /\ more # <<>> => code'[a] # <<>> /\ Next1(a)' = Head(more)
<1> DEFINE r == Rest(a)
           c == more \o r
<1>1. r \in Seq(InstrType) /\ Shape(r)
  BY Rests
<1>2. code' = [code EXCEPT ![a] = c] /\ code \in [Actor -> Seq(InstrType)]
  BY DEF GoesOn, Inv, Typed, Stored
<1>3. \A x \in ToSet(more), y \in ToSet(r) : Follows(x, y)
  OBVIOUS
<1> HIDE DEF r
<1>4. c \in Seq(InstrType) /\ ToSet(c) = ToSet(more) \cup ToSet(r)
  BY <1>1, Concat
<1>5. Shape(c)
  BY <1>1, <1>3, Shapes
<1>6. more # <<>> => c # <<>> /\ Head(c) = Head(more)
  BY <1>1, HeadOf
<1> HIDE DEF c
<1>7. code' \in [Actor -> Seq(InstrType)] /\ code'[a] = c /\ \A b \in Actor \ {a} : code'[b] = code[b]
  BY <1>2, <1>4
<1> QED
  BY <1>4, <1>5, <1>6, <1>7 DEF Todo, Next1, r

LEMMA Continues ==
  ASSUME Inv, NEW a \in Actor, NEW more, code[a] # <<>>, Continue(a, more)
  PROVE  GoesOn(a, more)
BY DEF Continue, GoesOn, Rest, Inv, Typed, Stored

(***************************************************************************)
(* What a step of one actor leaves to the others                           *)
(***************************************************************************)
(* How a step of a may change the state of a page, ... *)
Turns(a, p) ==
  \/ page'[p] = page[p]
  \/ page[p] \in {"used", "wired", "dead"} /\ page'[p] \in {"used", "wired", "dead"}
  \/ page[p] = "free" /\ page'[p] = "taking"
  \/ Heading(a, {"use"}, p) /\ page'[p] = "used"
  \/ /\ Heading(a, {"free"}, p) /\ page'[p] = "free"
     /\ queue'[p] = queue[p] /\ flags'[p] = flags[p]

(* ... and where it belongs. *)
Asks(a, p) ==
  /\ plock[p] \in {a, Nobody} /\ queue'[p] = queue[p] /\ flags[p] \subseteq flags'[p]
  /\ plock[p] = Nobody => ("dequeue" \in flags'[p] => "dequeue" \in flags[p])
  /\ "head" \in flags'[p] => "head" \in flags[p] \/ queue[p] \in {Inactive, "none"}

Assigned(a, p) ==
  /\ Heading(a, {"assign"}, p) /\ plock[p] = a /\ page[p] \in {"used", "wired", "dead"}
  /\ queue[p] = "none" /\ flags[p] = {}
  /\ queue'[p] = Next1(a).queue /\ flags'[p] = flags[p]

Detached(a, p) ==
  /\ queue'[p] = "none" /\ flags'[p] = flags[p]
  /\ queue[p] \in Queue /\ qlock[queue[p]] \in {a, Nobody}
  /\ "dequeue" \in flags[p] \/ plock[p] = a \/ page[p] = "taking"

Cleared(a, p) ==
  /\ queue[p] = "none" /\ queue'[p] = "none" /\ flags'[p] = {}
  /\ \A b \in Actor \ {a} : \A x \in Todo(b) : ~ (x.do = "clear" /\ x.page = p)

Filing(a, p) ==
  /\ queue[p] \in Queue /\ qlock[queue[p]] = a
  /\ queue'[p] = queue[p] /\ ("dequeue" \in flags'[p] <=> "dequeue" \in flags[p])
  /\ "head" \in flags'[p] => "head" \in flags[p]

Dropped(a, p) ==
  /\ plock[p] = Nobody /\ plock'[p] = a /\ "enqueued" \notin flags[p]
  /\ queue'[p] = "none" /\ flags'[p] = flags[p]

Writes(a, p) ==
  \/ queue'[p] = queue[p] /\ flags'[p] = flags[p]
  \/ Asks(a, p) \/ Assigned(a, p) \/ Detached(a, p) \/ Cleared(a, p) \/ Filing(a, p)
  \/ Dropped(a, p)

Moves(a) ==
  /\ \A q \in Queue : qlock'[q] = qlock[q] \/ qlock[q] \in {a, Nobody}
  /\ \A p \in Page : /\ plock'[p] = plock[p] \/ plock[p] \in {a, Nobody}
                     /\ Turns(a, p) /\ Writes(a, p)

(* What a has to do after its next instruction can still be done. *)
Prepares(a) ==
  code[a] # <<>> =>
    LET h == Next1(a) IN
    /\ h.do \in Batched => \A q \in Queue : qlock[q] = a => qlock'[q] = a
    /\ h.do # "unlock" => \A p \in Page : plock[p] = a => plock'[p] = a
    /\ \A p \in Page :
         /\ h.do \in {"dequeue", "clear unlock"} /\ h.page = p =>
              Heading(a, {"clear unlock"}, p)' \/ (queue'[p] = "none" /\ flags'[p] = {})
         /\ h.do = "deferred" /\ h.page = p => Logical(p)' = "none"

LEMMA InstrFacts ==
  ASSUME NEW x \in InstrType
  PROVE  /\ x.do \in OnPage => x.page \in Page
         /\ x.do \in OnQueue => x.queue \in Queue
         /\ x.page \in Page \cup {"none"} /\ x.queue \in Queue \cup {"none"}
         /\ x.do \in {"head", "put"} => x.queue = Inactive
BY DEF InstrType

LEMMA Basics ==
  ASSUME Inv, NEW a \in Actor, NEW x \in Todo(a)
  PROVE  x \in InstrType /\ Sound(a, x)
         /\ \A b \in Actor : \A y \in Todo(b) : Match(a, x, b, y)
<1>1. code[a] \in Seq(InstrType)
  BY DEF Inv, Typed, Stored
<1>2. ToSet(code[a]) \subseteq InstrType
  BY <1>1, ElementsOf
<1> QED
  BY <1>2 DEF Inv, Actors, Todo

(* A page that belongs nowhere is put somewhere by an assignment only. *)
LEMMA NoneStays ==
  ASSUME NEW a, NEW p, Writes(a, p), Logical(p) = "none", ~ Assigned(a, p),
         flags[p] \in SUBSET Flag, queue[p] \in Queue \cup {"none"}
  PROVE  Logical(p)' = "none"
BY DEF Writes, Logical, Asks, Detached, Cleared, Filing, Dropped

LEMMA OthersKeep ==
  ASSUME Inv, NEW a \in Actor, Moves(a), NEW b \in Actor \ {a}, code'[b] = code[b],
         NEW x \in Todo(b)
  PROVE  Sound(b, x)'
<1>1. x \in InstrType /\ Sound(b, x)
  BY Basics
<1>2. /\ \A p : Takes(b, p)' = Takes(b, p) /\ Assigns(b, p)' = Assigns(b, p)
      /\ \A dos, p : Heading(b, dos, p)' = Heading(b, dos, p)
  BY DEF Takes, Assigns, Heading, Todo, Next1
<1>3. a \in Actor /\ b \in Actor /\ a # b /\ b # Nobody
  BY QueuesAssumption
<1>4. Holds(b, x)'
  <2>1. /\ \A q \in Queue : qlock[q] = b => qlock'[q] = b
        /\ \A p \in Page : plock[p] = b => plock'[p] = b
    BY <1>3 DEF Moves
  <2>2. x.do \in Batched \cup Locking => x.do \in OnQueue
    BY DEF Batched, Locking, OnQueue
  <2>3. x.do \in Guarded \cup {"unlock", "dequeue", "clear unlock"} => x.do \in OnPage
    BY DEF OnPage
  <2>4. Holds(b, x)
    BY <1>1 DEF Sound
  <2> QED
    BY <1>1, <1>2, <2>1, <2>2, <2>3, <2>4, InstrFacts DEF Holds
<1>5. ASSUME Heading(a, {"use", "free"}, x.page)
      PROVE  /\ Heading(a, {"use"}, x.page) => page[x.page] = "taking"
             /\ Heading(a, {"free"}, x.page) => plock[x.page] = a /\ page[x.page] \in {"used", "wired", "dead"}
             /\ x.do \notin Guarded \cup {"use"}
             /\ x.do = "paged" => ~ Heading(a, {"free"}, x.page)
  <2> DEFINE h == Next1(a)
  <2>1. code[a] # <<>> /\ h.do \in {"use", "free"} /\ h.page = x.page
    BY <1>5 DEF Heading
  <2>2. h \in Todo(a)
    BY <2>1, Rests
  <2>3. Sound(a, h) /\ Match(b, x, a, h)
    BY <1>1, <1>3, <2>2, Basics
  <2> HIDE DEF h
  <2>4. /\ h.do = "use" => page[x.page] = "taking"
        /\ h.do = "free" => plock[x.page] = a /\ page[x.page] \in {"used", "wired", "dead"}
    BY <2>1, <2>3 DEF Sound, Serves, Holds, Guarded
  <2>5. /\ x.do \in Guarded => plock[x.page] = b /\ page[x.page] \in {"used", "wired", "dead"}
        /\ x.do = "use" => page[x.page] = "taking" /\ h.do # "use"
        /\ x.do = "paged" => h.do # "free"
    BY <1>1, <1>3, <2>1, <2>3 DEF Sound, Serves, Holds, Match
  <2> QED
    BY <1>3, <2>1, <2>4, <2>5 DEF Heading, h
<1>6. Serves(b, x)'
  <2>1. Serves(b, x)
    BY <1>1 DEF Sound
  <2>2. x.do \in Guarded \cup {"use", "paged"} => x.page \in Page
    BY <1>1, InstrFacts DEF OnPage
  <2>3. x.do \in Guarded \cup {"use", "paged"} => Turns(a, x.page) /\ Writes(a, x.page)
    BY <2>2 DEF Moves
  <2>4. x.do \in Guarded => page'[x.page] \in {"used", "wired", "dead"}
    BY <1>5, <2>1, <2>3 DEF Serves, Turns, Heading
  <2>5. x.do = "paged" => page'[x.page] \in {"used", "wired", "dead"}
    BY <1>5, <2>1, <2>3 DEF Serves, Turns, Heading
  <2>6. x.do = "use" => page'[x.page] = "taking"
    BY <1>5, <2>1, <2>3 DEF Serves, Turns, Heading
  <2>7. x.do = "free" => Heading(b, {"deferred"}, x.page)' \/ Logical(x.page)' = "none"
    <3>1. x.do = "free" => x.do \in Guarded /\ plock[x.page] = b
      BY <1>1 DEF Guarded, Sound, Holds
    <3>2. CASE x.do = "free" /\ Logical(x.page) = "none"
      <4>1. ~ Assigned(a, x.page)
        BY <1>3, <3>1, <3>2 DEF Assigned
      <4>2. flags[x.page] \in SUBSET Flag /\ queue[x.page] \in Queue \cup {"none"}
        BY <2>2, <3>1, <3>2 DEF Inv, Typed, Stored
      <4> QED
        BY <2>3, <3>1, <3>2, <4>1, <4>2, NoneStays
    <3> QED
      BY <1>2, <2>1, <3>2 DEF Serves
  <2>8. x.do = "paged" => b = Daemon
    BY <2>1 DEF Serves
  <2> QED
    BY <2>4, <2>5, <2>6, <2>7, <2>8 DEF Serves
<1>7. Placed(b, x)'
  <2> DEFINE p == x.page
  <2>1. Placed(b, x) /\ Holds(b, x)
    BY <1>1 DEF Sound
  <2>2. x.do \in {"assign", "submit", "finish", "head", "clear", "clear unlock", "settle"} =>
          p \in Page /\ x.queue \in Queue \cup {"none"}
    BY <1>1, InstrFacts DEF OnPage, Guarded
  <2>3. x.do \in {"assign", "submit", "finish", "head", "clear", "clear unlock", "settle"} =>
          Writes(a, p) /\ flags[p] \in SUBSET Flag /\ queue[p] \in Queue \cup {"none"}
    BY <2>2 DEF Moves, Inv, Typed, Stored
  <2>4. "none" \notin Queue
    BY DEF Queue
  <2>5. x.do = "assign" =>
          \/ Heading(b, {"dequeue", "clear unlock"}, p)'
          \/ queue'[p] = "none" /\ flags'[p] = {}
    <3>1. CASE x.do = "assign" /\ queue[p] = "none" /\ flags[p] = {}
      <4>1. plock[p] = b
        BY <2>1, <3>1 DEF Holds, Guarded
      <4>2. ~ Asks(a, p) /\ ~ Assigned(a, p) /\ ~ Detached(a, p) /\ ~ Filing(a, p) /\ ~ Dropped(a, p)
        BY <1>3, <2>4, <3>1, <4>1 DEF Asks, Assigned, Detached, Filing, Dropped
      <4> QED
        BY <2>3, <3>1, <4>2 DEF Writes, Cleared
    <3> QED
      BY <1>2, <2>1, <3>1 DEF Placed
  <2>6. x.do \in {"submit", "finish", "head"} => queue'[p] \in {x.queue, "none"} \/ Assigns(b, p)'
    <3>1. CASE x.do \in {"submit", "finish", "head"} /\ queue[p] \in {x.queue, "none"}
      <4>1. plock[p] = b
        BY <2>1, <3>1 DEF Holds, Guarded
      <4>2. ~ Assigned(a, p)
        BY <1>3, <4>1 DEF Assigned
      <4>3. queue'[p] \in {queue[p], "none"}
        BY <2>3, <3>1, <4>2 DEF Writes, Asks, Detached, Cleared, Filing, Dropped
      <4> QED
        BY <3>1, <4>3
    <3> QED
      BY <1>2, <2>1, <3>1 DEF Placed
  <2>7. x.do \in {"clear", "clear unlock"} => queue'[p] = "none"
    <3>1. CASE x.do \in {"clear", "clear unlock"}
      <4>1. queue[p] = "none"
        BY <2>1, <3>1 DEF Placed
      <4>2. ~ Assigned(a, p)
        <5>1. CASE x.do = "clear"
          BY <2>1, <5>1 DEF Placed, Assigned
        <5>2. CASE x.do = "clear unlock" /\ plock[p] = b
          BY <1>3, <5>2 DEF Assigned
        <5>3. CASE Takes(b, p)
          <6>1. PICK y \in Todo(b) : y.do = "use" /\ y.page = p
            BY <5>3 DEF Takes
          <6>2. page[p] = "taking"
            BY <1>3, <6>1, Basics DEF Sound, Serves
          <6> QED
            BY <6>2 DEF Assigned
        <5> QED
          BY <2>1, <3>1, <5>1, <5>2, <5>3 DEF Holds
      <4>3. queue'[p] \in {queue[p], "none"}
        BY <2>3, <3>1, <4>2 DEF Writes, Asks, Detached, Cleared, Filing, Dropped
      <4> QED
        BY <4>1, <4>3
    <3> QED
      BY <3>1
  <2>8. x.do = "clear" => "dequeue" \in flags'[p]
    <3>1. CASE x.do = "clear"
      <4>1. "dequeue" \in flags[p]
        BY <2>1, <3>1 DEF Placed
      <4>2. ~ Cleared(a, p)
        BY <1>3, <3>1 DEF Cleared
      <4> QED
        BY <2>3, <3>1, <4>1, <4>2 DEF Writes, Asks, Assigned, Detached, Filing, Dropped
    <3> QED
      BY <3>1
  <2>9. x.do = "settle" => queue'[p] = x.queue /\ "enqueued" \in flags'[p]
    <3>1. CASE x.do = "settle"
      <4>1. queue[p] = x.queue /\ "enqueued" \in flags[p] /\ x.queue \in Queue /\ qlock[x.queue] = b
        BY <1>1, <2>1, <3>1, InstrFacts DEF Placed, Holds, Batched, OnQueue
      <4>2. ~ Assigned(a, p) /\ ~ Detached(a, p) /\ ~ Cleared(a, p) /\ ~ Filing(a, p) /\ ~ Dropped(a, p)
        BY <1>3, <2>4, <4>1 DEF Assigned, Detached, Cleared, Filing, Dropped
      <4> QED
        BY <2>3, <3>1, <4>1, <4>2 DEF Writes, Asks
    <3> QED
      BY <3>1
  <2> QED
    BY <2>5, <2>6, <2>7, <2>8, <2>9 DEF Placed
<1> QED
  BY <1>4, <1>6, <1>7 DEF Sound

LEMMA TailKeeps ==
  ASSUME Inv, NEW a \in Actor, Moves(a), Prepares(a), ToSet(Rest(a)) \subseteq Todo(a)',
         NEW x \in ToSet(Rest(a))
  PROVE  Sound(a, x)'
<1> DEFINE h == Next1(a)
           p == x.page
<1>1. /\ code[a] # <<>> /\ h \in InstrType /\ h \in Todo(a) /\ x \in Todo(a) /\ Follows(h, x)
      /\ Todo(a) = {h} \cup ToSet(Rest(a))
  BY Rests
<1>2. x \in InstrType /\ Sound(a, x) /\ Sound(a, h)
  BY <1>1, Basics
<1>3. /\ h.do \in Batched => \A q \in Queue : qlock[q] = a => qlock'[q] = a
      /\ h.do # "unlock" => \A o \in Page : plock[o] = a => plock'[o] = a
      /\ p \in Page /\ h.do \in {"dequeue", "clear unlock"} /\ h.page = p =>
           Heading(a, {"clear unlock"}, p)' \/ (queue'[p] = "none" /\ flags'[p] = {})
      /\ p \in Page /\ h.do = "deferred" /\ h.page = p => Logical(p)' = "none"
  BY <1>1 DEF Prepares
<1>4. \A dos, o : Heading(a, dos, o) <=> h.do \in dos /\ h.page = o
  BY <1>1 DEF Heading
<1>5. x.do \in OnPage => p \in Page /\ Turns(a, p) /\ Writes(a, p) /\ flags[p] \in SUBSET Flag
                          /\ queue[p] \in Queue \cup {"none"}
  BY <1>2, InstrFacts DEF Moves, Inv, Typed, Stored
<1> HIDE DEF h
<1>6. Holds(a, x)'
  <2>1. Holds(a, x)
    BY <1>2 DEF Sound
  <2>2. x.do \in Batched \cup Locking => x.queue \in Queue /\ h.do \in Batched
    BY <1>1, <1>2, InstrFacts DEF OnQueue, Locking, Follows
  <2>3. x.do \in Guarded \cup {"unlock"} => p \in Page /\ h.do # "unlock"
    BY <1>1, <1>5 DEF Follows, OnPage, Guarded
  <2>4. x.do \notin {"dequeue", "clear unlock"}
    BY <1>1 DEF Follows, First
  <2> QED
    BY <1>3, <2>1, <2>2, <2>3, <2>4 DEF Holds
<1>7. Serves(a, x)'
  <2>1. Serves(a, x)
    BY <1>2 DEF Sound
  <2>2. h.do # "use" /\ (h.do = "free" => x.do = "unlock")
    BY <1>1 DEF Follows
  <2>3. x.do \in Guarded \cup {"paged"} => page'[p] \in {"used", "wired", "dead"}
    BY <1>4, <1>5, <2>1, <2>2 DEF Serves, Turns, OnPage, Guarded
  <2>4. x.do = "use" => page'[p] = "taking"
    BY <1>4, <1>5, <2>1, <2>2 DEF Serves, Turns, OnPage
  <2>5. x.do = "free" => Heading(a, {"deferred"}, p)' \/ Logical(p)' = "none"
    <3>1. CASE x.do = "free" /\ Logical(p) = "none"
      <4>1. ~ Assigned(a, p)
        BY <1>1, <3>1 DEF Assigned, Follows, Heading, h
      <4> QED
        BY <1>5, <3>1, <4>1, NoneStays DEF OnPage, Guarded
    <3>2. CASE x.do = "free" /\ h.do = "deferred"
      <4>1. h.page = p /\ p \in Page
        BY <1>1, <1>5, <3>2 DEF Follows, OnPage, Guarded
      <4> QED
        BY <1>3, <3>2, <4>1
    <3> QED
      BY <1>4, <2>1, <3>1, <3>2 DEF Serves
  <2>6. x.do = "paged" => a = Daemon
    BY <2>1 DEF Serves
  <2> QED
    BY <2>3, <2>4, <2>5, <2>6 DEF Serves
<1>8. Placed(a, x)'
  <2>1. Placed(a, x) /\ Placed(a, h)
    BY <1>2 DEF Sound
  <2>2. x.do = "assign" => \/ Heading(a, {"dequeue", "clear unlock"}, p)'
                           \/ queue'[p] = "none" /\ flags'[p] = {}
    <3>1. CASE x.do = "assign"
      <4>1. h.do \in {"dequeue", "clear unlock"} /\ h.page = p /\ p \in Page
        BY <1>1, <1>5, <3>1 DEF Follows, OnPage, Guarded
      <4>2. Heading(a, {"clear unlock"}, p)' => Heading(a, {"dequeue", "clear unlock"}, p)'
        BY DEF Heading
      <4> QED
        BY <1>3, <4>1, <4>2
    <3> QED
      BY <3>1
  <2>3. x.do \in {"submit", "finish", "head"} => queue'[p] \in {x.queue, "none"} \/ Assigns(a, p)'
    <3>1. CASE x.do \in {"submit", "finish", "head"} /\ Assigned(a, p)
      <4>1. x.do \in {"submit", "head"} /\ h.do = "assign"
        <5>1. h.do = "assign"
          BY <3>1 DEF Assigned, Heading, h
        <5> QED
          BY <1>1, <3>1, <5>1 DEF Follows, Batched, Locking
      <4>2. queue'[p] = h.queue /\ x.queue = h.queue
        BY <1>1, <3>1, <4>1 DEF Assigned, Follows, h
      <4> QED
        BY <4>2
    <3>2. CASE x.do \in {"submit", "finish", "head"} /\ ~ Assigned(a, p) /\ queue[p] \in {x.queue, "none"}
      <4>1. queue'[p] \in {queue[p], "none"}
        BY <1>5, <3>2 DEF Writes, Asks, Detached, Cleared, Filing, Dropped, OnPage, Guarded
      <4> QED
        BY <3>2, <4>1
    <3>3. CASE x.do \in {"submit", "finish", "head"} /\ ~ Assigned(a, p) /\ Assigns(a, p)
      <4>1. PICK y \in Todo(a) : y.do = "assign" /\ y.page = p
        BY <3>3 DEF Assigns
      <4>2. CASE y \in ToSet(Rest(a))
        BY <4>1, <4>2 DEF Assigns
      <4>3. CASE y = h
        <5>1. h.do = "assign" /\ h.page = p
          BY <4>1, <4>3
        <5>2. queue[p] = "none" /\ flags[p] = {} /\ p \in Page
          BY <1>1, <1>5, <2>1, <3>3, <5>1 DEF Placed, OnPage, Guarded, Heading, h
        <5>3. Writes(a, p)
          BY <1>5, <3>3 DEF OnPage, Guarded
        <5>4. queue'[p] = "none"
          BY <3>3, <5>2, <5>3 DEF Writes, Asks, Detached, Cleared, Filing, Dropped
        <5> QED
          BY <5>4
      <4> QED
        BY <1>1, <4>2, <4>3
    <3> QED
      BY <2>1, <3>1, <3>2, <3>3 DEF Placed
  <2>4. x.do \notin {"clear", "clear unlock", "settle"}
    BY <1>1 DEF Follows, First
  <2> QED
    BY <2>2, <2>3, <2>4 DEF Placed
<1> QED
  BY <1>6, <1>7, <1>8 DEF Sound

LEMMA HeadedKept ==
  ASSUME Inv, NEW a \in Actor, Moves(a)
  PROVE  Headed'
<1> SUFFICES ASSUME NEW p \in Page, "head" \in flags'[p]
             PROVE  queue'[p] \in {Inactive, "none"}
  BY DEF Headed
<1>1. Writes(a, p) /\ ("head" \in flags[p] => queue[p] \in {Inactive, "none"})
  BY DEF Moves, Inv, Headed
<1> QED
  BY <1>1 DEF Writes, Asks, Assigned, Detached, Cleared, Filing, Dropped

LEMMA UnusedKept ==
  ASSUME Inv, NEW a \in Actor, Moves(a)
  PROVE  Unused'
<1> SUFFICES ASSUME NEW p \in Page, page'[p] \in {"free", "taking"}
             PROVE  Logical(p)' = "none"
  BY DEF Unused
<1>1. Turns(a, p) /\ Writes(a, p) /\ flags[p] \in SUBSET Flag /\ queue[p] \in Queue \cup {"none"}
  BY DEF Moves, Inv, Typed, Stored
<1>2. Unused
  BY DEF Inv
<1>3. CASE page[p] \in {"free", "taking"}
  <2>1. Logical(p) = "none" /\ ~ Assigned(a, p)
    BY <1>2, <1>3 DEF Unused, Assigned
  <2> QED
    BY <1>1, <2>1, NoneStays
<1>4. CASE page[p] \notin {"free", "taking"}
  <2>1. Heading(a, {"free"}, p) /\ queue'[p] = queue[p] /\ flags'[p] = flags[p]
    BY <1>1, <1>4 DEF Turns
  <2>2. Next1(a) \in Todo(a) /\ Next1(a).do = "free" /\ Next1(a).page = p
    BY <2>1, Rests DEF Heading
  <2>3. Logical(p) = "none"
    BY <2>1, <2>2, Basics DEF Sound, Serves, Heading
  <2> QED
    BY <2>1, <2>3 DEF Logical
<1> QED
  BY <1>3, <1>4

(* A step keeps what the actors rely on, when that holds of what it adds.  *)
LEMMA Steps ==
  ASSUME Inv, NEW a \in Actor, NEW more \in Seq(InstrType), GoesOn(a, more), Shape(more),
         \A x \in ToSet(more), y \in ToSet(Rest(a)) : Follows(x, y),
         Moves(a), Prepares(a),
         \A x \in ToSet(more) : Sound(a, x)',
         \A x \in ToSet(more), b \in Actor : \A y \in Todo(b)' :
           Match(a, x, b, y)' /\ Match(b, y, a, x)'
  PROVE  Actors' /\ Unused' /\ code' \in [Actor -> Seq(InstrType)]
<1>1. /\ code' \in [Actor -> Seq(InstrType)]
      /\ Shape(code[a])'
      /\ Todo(a)' = ToSet(more) \cup ToSet(Rest(a))
      /\ \A b \in Actor \ {a} : code'[b] = code[b] /\ Todo(b)' = Todo(b)
  BY Going
<1>2. ToSet(Rest(a)) \subseteq Todo(a) /\ ToSet(Rest(a)) \subseteq Todo(a)'
  BY <1>1, Rests
<1>3. \A x \in Todo(a)' : Sound(a, x)'
  BY <1>1, <1>2, TailKeeps
<1>4. \A b \in Actor \ {a} : Shape(code[b])' /\ \A x \in Todo(b)' : Sound(b, x)'
  <2> TAKE b \in Actor \ {a}
  <2>1. code'[b] = code[b] /\ Todo(b)' = Todo(b)
    BY <1>1
  <2>2. \A x \in Todo(b) : Sound(b, x)'
    BY <2>1, OthersKeep
  <2>3. Shape(code[b])
    BY DEF Inv, Actors
  <2> QED
    BY <2>1, <2>2, <2>3
(* What was to be done before, and still is. *)
<1>5. \A b \in Actor : \A x \in Todo(b)' : x \in Todo(b) \/ (b = a /\ x \in ToSet(more))
  BY <1>1, <1>2
<1>6. ASSUME NEW b \in Actor, NEW c \in Actor, NEW x \in Todo(b)', NEW y \in Todo(c)',
             x \in Todo(b), y \in Todo(c)
      PROVE  Match(b, x, c, y)'
  <2>1. Match(b, x, c, y)
    BY <1>6, Basics
  <2>2. ASSUME x.page = y.page, x.do = "clear", y.do \in {"submit", "finish"}, x.queue # y.queue
        PROVE  Assigns(c, y.page)'
    <3>1. PICK z \in Todo(c) : z.do = "assign" /\ z.page = y.page
      BY <2>1, <2>2 DEF Match, Assigns
    <3>2. "dequeue" \in flags[y.page]
      BY <1>6, <2>2, Basics DEF Sound, Placed
    <3>3. z \in Todo(c)'
      <4>1. CASE c # a
        BY <1>1, <4>1
      <4>2. CASE c = a /\ z \in ToSet(Rest(a))
        BY <1>2, <4>2
      <4>3. CASE c = a /\ z \notin ToSet(Rest(a))
        <5>1. code[a] # <<>> /\ z = Next1(a)
          BY <4>3, Rests
        <5>2. Placed(a, z)
          BY <4>3, Basics DEF Sound
        <5>3. FALSE
          BY <3>1, <3>2, <5>1, <5>2 DEF Placed, Heading
        <5> QED
          BY <5>3
      <4> QED
        BY <4>1, <4>2, <4>3
    <3> QED
      BY <3>1, <3>3 DEF Assigns
  <2> QED
    BY <2>1, <2>2 DEF Match
<1>7. \A b \in Actor : \A x \in Todo(b)', c \in Actor : \A y \in Todo(c)' : Match(b, x, c, y)'
  BY <1>5, <1>6
<1>8. Actors'
  BY <1>1, <1>3, <1>4, <1>7 DEF Actors
<1> QED
  BY <1>1, <1>8, UnusedKept

LEMMA NextIs ==
  ASSUME Inv, NEW a \in Actor, code[a] # <<>>, NEW h, h = Next1(a)
  PROVE  /\ h \in InstrType /\ h \in Todo(a) /\ Sound(a, h)
         /\ \A b \in Actor : \A y \in Todo(b) : Match(a, h, b, y) /\ Match(b, y, a, h)
         /\ h.do \in OnPage => h.page \in Page
         /\ h.do \in OnQueue => h.queue \in Queue
         /\ \A dos, p : Heading(a, dos, p) <=> (h.do \in dos /\ h.page = p)
<1>1. h \in InstrType /\ h \in Todo(a)
  BY Rests
<1>2. \A dos, p : Heading(a, dos, p) <=> (h.do \in dos /\ h.page = p)
  BY DEF Heading
<1> QED
  BY <1>1, <1>2, Basics, InstrFacts

(* What a scan needs of what the daemon has yet to do. *)
Scanning(x) ==
  /\ x.do \in OfScan => scan.on
  /\ x.do \in {"collect", "end scan"} => x.queue = scan.queue
  /\ x.do \in {"put", "reinsert", "stuck", "rest"} => scan.queue = Inactive

LEMMA ScannedKept ==
  ASSUME Inv, NEW a \in Actor, NEW more, Todo(a)' = ToSet(more) \cup ToSet(Rest(a)),
         \A b \in Actor \ {a} : Todo(b)' = Todo(b),
         a = Daemon => \A x \in ToSet(more) : Scanning(x),
         scan'.on = scan.on, scan'.queue = scan.queue
  PROVE  Scanned'
<1>1. Daemon \in Actor
  BY DEF Actor
<1>2. scan.queue # "active" /\ \A x \in Todo(Daemon) : Scanning(x)
  BY DEF Inv, Scanned, Scanning
<1>3. ToSet(Rest(a)) \subseteq Todo(a)
  BY Rests
<1>4. \A x \in Todo(Daemon)' : Scanning(x)
  BY <1>1, <1>2, <1>3
<1> QED
  BY <1>2, <1>4 DEF Scanned, Scanning

(* One step of an actor, but for the lists. *)
LEMMA Stepped ==
  ASSUME Inv, NEW a \in Actor, NEW more \in Seq(InstrType), GoesOn(a, more), Shape(more),
         \A x \in ToSet(more), y \in ToSet(Rest(a)) : Follows(x, y),
         Moves(a), Prepares(a), Stored', Listed',
         \A x \in ToSet(more) : Sound(a, x)',
         \A x \in ToSet(more), b \in Actor : \A y \in Todo(b)' :
           Match(a, x, b, y)' /\ Match(b, y, a, x)',
         a = Daemon => \A x \in ToSet(more) : Scanning(x),
         scan'.on = scan.on, scan'.queue = scan.queue
  PROVE  Inv'
<1>1. Actors' /\ Unused' /\ code' \in [Actor -> Seq(InstrType)]
  BY Steps
<1>2. Todo(a)' = ToSet(more) \cup ToSet(Rest(a)) /\ \A b \in Actor \ {a} : Todo(b)' = Todo(b)
  BY Going
<1>3. Scanned' /\ Headed'
  BY <1>2, ScannedKept, HeadedKept
<1> QED
  BY <1>1, <1>3 DEF Inv, Typed

(* The step adds nothing. *)
LEMMA Drops ==
  ASSUME Inv, NEW a \in Actor, code[a] # <<>>, Continue(a, <<>>),
         Moves(a), Prepares(a), Stored', Listed', scan'.on = scan.on, scan'.queue = scan.queue
  PROVE  Inv'
<1> DEFINE more == <<>>
<1>1. more \in Seq(InstrType) /\ Shape(more) /\ ToSet(more) = {}
  BY DEF Shape, ToSet
<1>2. GoesOn(a, more)
  BY Continues
<1> HIDE DEF more
<1> QED
  BY <1>1, <1>2, Stepped

(***************************************************************************)
(* The lists                                                               *)
(***************************************************************************)
LEMMA ListedSame ==
  ASSUME Inv, list' = list, cnt' = cnt, scan'.on = scan.on, scan'.queue = scan.queue,
         \A p \in Page, q \in Queue : Filed(p, q)' <=> Filed(p, q)
  PROVE  Listed'
<1> SUFFICES ASSUME NEW q \in Queue
             PROVE  /\ IsInjective(list[q])'
                    /\ \A p \in Page : (p \in ToSet(list[q]))' <=> Filed(p, q)'
                    /\ (Inacthead \in ToSet(list[q]))' <=> q = Inactive
                    /\ (Marker \in ToSet(list[q]))' <=> (scan.on /\ q = scan.queue)'
                    /\ (cnt[q] = Cardinality({p \in Page : Filed(p, q)}))'
  BY DEF Listed
<1>1. /\ IsInjective(list[q])
      /\ \A p \in Page : p \in ToSet(list[q]) <=> Filed(p, q)
      /\ Inacthead \in ToSet(list[q]) <=> q = Inactive
      /\ Marker \in ToSet(list[q]) <=> scan.on /\ q = scan.queue
      /\ cnt[q] = Cardinality({p \in Page : Filed(p, q)})
  BY DEF Inv, Listed
<1>2. {p \in Page : Filed(p, q)}' = {p \in Page : Filed(p, q)}
  OBVIOUS
<1> QED
  BY <1>1, <1>2

(* The list of q becomes l. *)
LEMMA ListedChange ==
  ASSUME Inv, NEW q \in Queue, NEW l \in Seq(Page \cup {Marker, Inacthead}),
         list' = [list EXCEPT ![q] = l], scan'.on = scan.on, scan'.queue = scan.queue,
         IsInjective(l), Inacthead \in ToSet(l) <=> Inacthead \in ToSet(list[q]),
         Marker \in ToSet(l) <=> Marker \in ToSet(list[q]),
         \A p \in Page : p \in ToSet(l) <=> Filed(p, q)',
         \A p \in Page, r \in Queue \ {q} : Filed(p, r)' <=> Filed(p, r),
         \A r \in Queue \ {q} : cnt'[r] = cnt[r],
         cnt'[q] = Cardinality({p \in Page : Filed(p, q)'})
  PROVE  Listed'
<1>0. list'[q] = l /\ \A r \in Queue \ {q} : list'[r] = list[r]
  BY DEF Inv, Typed, Stored
<1> SUFFICES ASSUME NEW r \in Queue
             PROVE  /\ IsInjective(list[r])'
                    /\ \A p \in Page : (p \in ToSet(list[r]))' <=> Filed(p, r)'
                    /\ (Inacthead \in ToSet(list[r]))' <=> r = Inactive
                    /\ (Marker \in ToSet(list[r]))' <=> (scan.on /\ r = scan.queue)'
                    /\ (cnt[r] = Cardinality({p \in Page : Filed(p, r)}))'
  BY DEF Listed
<1>1. /\ IsInjective(list[r])
      /\ \A p \in Page : p \in ToSet(list[r]) <=> Filed(p, r)
      /\ Inacthead \in ToSet(list[r]) <=> r = Inactive
      /\ Marker \in ToSet(list[r]) <=> scan.on /\ r = scan.queue
      /\ cnt[r] = Cardinality({p \in Page : Filed(p, r)})
  BY DEF Inv, Listed
<1>2. CASE r = q
  BY <1>0, <1>1, <1>2
<1>3. CASE r # q
  <2>1. {p \in Page : Filed(p, r)}' = {p \in Page : Filed(p, r)}
    BY <1>3
  <2> QED
    BY <1>0, <1>1, <1>3, <2>1
<1> QED
  BY <1>2, <1>3

(* A page that is on a list leaves it. *)
LEMMA Leaves ==
  ASSUME Inv, NEW p \in Page, NEW q \in Queue, Filed(p, q),
         list' = Without(q, p), cnt' = [cnt EXCEPT ![q] = @ - 1],
         scan'.on = scan.on, scan'.queue = scan.queue,
         \A o \in Page, r \in Queue : Filed(o, r)' <=> (Filed(o, r) /\ o # p)
  PROVE  /\ Listed' /\ cnt' \in [Queue -> Nat]
         /\ list' \in [Queue -> Seq(Page \cup {Marker, Inacthead})]
<1> DEFINE l == Less(list[q], p)
           S == {o \in Page : Filed(o, q)}
<1>1. /\ list[q] \in Seq(Page \cup {Marker, Inacthead}) /\ IsInjective(list[q])
      /\ \A o \in Page : o \in ToSet(list[q]) <=> Filed(o, q)
      /\ cnt[q] = Cardinality(S)
  BY DEF Inv, Listed, Typed, Stored
<1>2. list' = [list EXCEPT ![q] = l]
  BY DEF Without
<1>3. l \in Seq(Page \cup {Marker, Inacthead}) /\ IsInjective(l) /\ ToSet(l) = ToSet(list[q]) \ {p}
  BY <1>1, LessIs
<1>4. Marker # p /\ Inacthead # p
  BY QueuesAssumption
<1>5. \A o \in Page : o \in ToSet(l) <=> Filed(o, q)'
  BY <1>1, <1>3
<1>6. \A o \in Page, r \in Queue \ {q} : Filed(o, r)' <=> Filed(o, r)
  BY DEF Filed
<1>7. {o \in Page : Filed(o, q)'} = S \ {p} /\ p \in S
  OBVIOUS
<1>8. IsFiniteSet(S)
  BY QueuesAssumption, FS_Subset
<1> HIDE DEF S, l
<1>9. /\ Cardinality(S \ {p}) = Cardinality(S) - 1
      /\ Cardinality(S \ {p}) \in Nat
  BY <1>7, <1>8, FS_RemoveElement, FS_CardinalityType
<1>10. /\ cnt'[q] = Cardinality({o \in Page : Filed(o, q)'}) /\ cnt' \in [Queue -> Nat]
       /\ \A r \in Queue \ {q} : cnt'[r] = cnt[r]
  <2>1. cnt \in [Queue -> Nat]
    BY DEF Inv, Typed, Stored
  <2>2. cnt[q] - 1 \in Nat
    BY <1>1, <1>9
  <2>3. cnt' \in [Queue -> Nat] /\ cnt'[q] = cnt[q] - 1 /\ \A r \in Queue \ {q} : cnt'[r] = cnt[r]
    BY <2>1, <2>2
  <2> QED
    BY <1>1, <1>7, <1>9, <2>3
<1>11. list' \in [Queue -> Seq(Page \cup {Marker, Inacthead})]
  BY <1>2, <1>3 DEF Inv, Typed, Stored
<1>12. Listed'
  BY <1>2, <1>3, <1>4, <1>5, <1>6, <1>10, ListedChange
<1> QED
  BY <1>10, <1>11, <1>12

(* A page is put on a list; it may be on it already, elsewhere. *)
LEMMA Joins ==
  ASSUME Inv, NEW p \in Page, NEW q \in Queue, NEW l \in Seq(Page \cup {Marker, Inacthead}),
         queue[p] = q, list' = [list EXCEPT ![q] = l],
         IsInjective(l), ToSet(l) = ToSet(list[q]) \cup {p},
         cnt' = [cnt EXCEPT ![q] = IF "enqueued" \in flags[p] THEN @ ELSE @ + 1],
         scan'.on = scan.on, scan'.queue = scan.queue,
         \A o \in Page, r \in Queue : Filed(o, r)' <=> (Filed(o, r) \/ (o = p /\ r = q))
  PROVE  /\ Listed' /\ cnt' \in [Queue -> Nat]
         /\ list' \in [Queue -> Seq(Page \cup {Marker, Inacthead})]
<1> DEFINE S == {o \in Page : Filed(o, q)}
           T == {o \in Page : Filed(o, q)'}
<1>1. /\ \A o \in Page : o \in ToSet(list[q]) <=> Filed(o, q)
      /\ cnt[q] = Cardinality(S) /\ cnt \in [Queue -> Nat]
  BY DEF Inv, Listed, Typed, Stored
<1>2. Marker # p /\ Inacthead # p
  BY QueuesAssumption
<1>3. \A o \in Page : o \in ToSet(l) <=> Filed(o, q)'
  BY <1>1
<1>4. T = S \cup {p} /\ (p \in S <=> "enqueued" \in flags[p])
  BY DEF Filed
<1>5. IsFiniteSet(S)
  BY QueuesAssumption, FS_Subset
<1>6. \A o \in Page, r \in Queue \ {q} : Filed(o, r)' <=> Filed(o, r)
  OBVIOUS
<1> HIDE DEF S, T
<1>7. Cardinality(T) = IF p \in S THEN Cardinality(S) ELSE Cardinality(S) + 1
  BY <1>4, <1>5, FS_AddElement
<1>8. cnt' \in [Queue -> Nat] /\ cnt'[q] = Cardinality(T) /\ \A r \in Queue \ {q} : cnt'[r] = cnt[r]
  <2>1. CASE p \in S
    BY <1>1, <1>4, <1>7, <2>1
  <2>2. CASE p \notin S
    <3>1. cnt' = [cnt EXCEPT ![q] = @ + 1]
      BY <1>4, <2>2
    <3> QED
      BY <1>1, <1>7, <2>2, <3>1
  <2> QED
    BY <2>1, <2>2
<1>9. list' \in [Queue -> Seq(Page \cup {Marker, Inacthead})]
  BY DEF Inv, Typed, Stored
<1>10. Listed'
  BY <1>2, <1>3, <1>6, <1>8, ListedChange DEF T
<1> QED
  BY <1>8, <1>9, <1>10

(***************************************************************************)
(* The actions                                                             *)
(***************************************************************************)
LEMMA UseKeeps ==
  ASSUME Inv, NEW a \in Actor, Use(a)
  PROVE  Inv'
<1> SUFFICES ASSUME NEW p, p = Next1(a).page
             PROVE  Inv'
  OBVIOUS
<1>1. /\ code[a] # <<>> /\ Next1(a).do \in {"use", "free"} /\ Continue(a, <<>>)
      /\ page' = [page EXCEPT ![p] = IF Next1(a).do = "use" THEN "used" ELSE "free"]
      /\ UNCHANGED <<queue, flags, list, cnt, batch, plock, qlock, scan>>
  BY DEF Use, Does
<1>2. p \in Page /\ \A dos, o : Heading(a, dos, o) <=> (Next1(a).do \in dos /\ o = p)
  BY <1>1, NextIs DEF OnPage, Guarded
<1>3. Moves(a)
  BY <1>1, <1>2 DEF Moves, Turns, Writes, Inv, Typed, Stored
<1>4. Prepares(a)
  BY <1>1 DEF Prepares, Batched
<1>5. Stored'
  BY <1>1, <1>2 DEF Inv, Typed, Stored
<1>6. Listed'
  BY <1>1, ListedSame DEF Filed
<1> QED
  BY <1>1, <1>3, <1>4, <1>5, <1>6, Drops

LEMMA UnlockPageKeeps ==
  ASSUME Inv, NEW a \in Actor, UnlockPage(a)
  PROVE  Inv'
<1> SUFFICES ASSUME NEW p, p = Next1(a).page
             PROVE  Inv'
  OBVIOUS
<1>1. /\ code[a] # <<>> /\ Next1(a).do = "unlock" /\ Continue(a, <<>>)
      /\ plock' = [plock EXCEPT ![p] = Nobody]
      /\ UNCHANGED <<queue, flags, list, cnt, batch, page, qlock, scan>>
  BY DEF UnlockPage, Does
<1>2. p \in Page /\ plock[p] = a
  BY <1>1, NextIs DEF OnPage, Sound, Holds
<1>3. Moves(a)
  BY <1>1, <1>2 DEF Moves, Turns, Writes, Inv, Typed, Stored
<1>4. Prepares(a)
  BY <1>1 DEF Prepares, Batched
<1>5. Stored'
  BY <1>1, <1>2 DEF Inv, Typed, Stored
<1>6. Listed'
  BY <1>1, ListedSame DEF Filed
<1> QED
  BY <1>1, <1>3, <1>4, <1>5, <1>6, Drops

LEMMA UnlockQueueKeeps ==
  ASSUME Inv, NEW a \in Actor, UnlockQueue(a)
  PROVE  Inv'
<1> SUFFICES ASSUME NEW q, q = Next1(a).queue
             PROVE  Inv'
  OBVIOUS
<1>1. /\ code[a] # <<>> /\ Next1(a).do = "unlock queue" /\ Continue(a, <<>>)
      /\ qlock' = [qlock EXCEPT ![q] = Nobody]
      /\ UNCHANGED <<queue, flags, list, cnt, batch, page, plock, scan>>
  BY DEF UnlockQueue, Does
<1>2. q \in Queue /\ qlock[q] = a
  BY <1>1, NextIs DEF OnQueue, Sound, Holds, Locking
<1>3. Moves(a)
  BY <1>1, <1>2 DEF Moves, Turns, Writes, Inv, Typed, Stored
<1>4. Prepares(a)
  BY <1>1 DEF Prepares, Batched
<1>5. Stored'
  BY <1>1, <1>2 DEF Inv, Typed, Stored
<1>6. Listed'
  BY <1>1, ListedSame DEF Filed
<1> QED
  BY <1>1, <1>3, <1>4, <1>5, <1>6, Drops

LEMMA MarkKeeps ==
  ASSUME Inv, NEW a \in Actor, Mark(a)
  PROVE  Inv'
<1> SUFFICES ASSUME NEW h, h = Next1(a), NEW p, p = h.page
             PROVE  Inv'
  OBVIOUS
<1>1. /\ code[a] # <<>> /\ Continue(a, <<>>)
      /\ \/ h.do = "assign" /\ queue' = [queue EXCEPT ![p] = h.queue] /\ UNCHANGED flags
         \/ /\ h.do \in {"requeue", "head"} /\ UNCHANGED queue
            /\ flags' = [flags EXCEPT ![p] = @ \cup {h.do}]
      /\ UNCHANGED <<list, cnt, batch, plock, qlock, page, scan>>
  BY DEF Mark
<1>2. /\ p \in Page /\ Sound(a, h)
      /\ \A dos, o : Heading(a, dos, o) <=> (h.do \in dos /\ o = p)
      /\ h.do = "assign" => h.queue \in Queue
  BY <1>1, NextIs DEF OnPage, Guarded, OnQueue
<1>3. plock[p] = a /\ page[p] \in {"used", "wired", "dead"}
  BY <1>1, <1>2 DEF Sound, Holds, Serves, Guarded
<1>4. h.do = "assign" => queue[p] = "none" /\ flags[p] = {}
  <2>1. h.do = "assign" => ~ Heading(a, {"dequeue", "clear unlock"}, p)
    BY DEF Heading
  <2> QED
    BY <1>2, <2>1 DEF Sound, Placed
<1>5. Writes(a, p) /\ \A o \in Page \ {p} : queue'[o] = queue[o] /\ flags'[o] = flags[o]
  <2>1. h.do = "head" => queue[p] \in {Inactive, "none"}
    <3>1. h.do = "head" => ~ Assigns(a, p)
      <4>1. \A y \in ToSet(Rest(a)) : Follows(h, y)
        BY <1>1, Rests
      <4>2. Todo(a) = {h} \cup ToSet(Rest(a))
        BY <1>1, Rests
      <4> QED
        BY <4>1, <4>2 DEF Assigns, Follows
    <3>2. h.do = "head" => h.queue = Inactive
      BY <1>1, NextIs, InstrFacts
    <3> QED
      BY <1>2, <3>1, <3>2 DEF Sound, Placed
  <2>2. CASE h.do = "assign"
    BY <1>1, <1>2, <1>3, <1>4, <2>2 DEF Writes, Assigned, Inv, Typed, Stored
  <2>3. CASE h.do \in {"requeue", "head"}
    <3>1. Asks(a, p)
      BY <1>1, <1>2, <1>3, <2>1, <2>3 DEF Asks, Inv, Typed, Stored
    <3> QED
      BY <1>1, <1>2, <2>3, <3>1 DEF Writes, Inv, Typed, Stored
  <2> QED
    BY <1>1, <2>2, <2>3
<1>6. Moves(a)
  BY <1>1, <1>5 DEF Moves, Turns, Writes
<1>7. Prepares(a)
  BY <1>1 DEF Prepares, Batched
<1>8. Stored'
  <2>1. queue' \in [Page -> Queue \cup {"none"}] /\ flags' \in [Page -> SUBSET Flag]
    <3>1. queue \in [Page -> Queue \cup {"none"}] /\ flags \in [Page -> SUBSET Flag]
      BY DEF Inv, Typed, Stored
    <3>2. CASE h.do = "assign" /\ queue' = [queue EXCEPT ![p] = h.queue] /\ UNCHANGED flags
      BY <1>2, <3>1, <3>2
    <3>3. CASE h.do \in {"requeue", "head"} /\ UNCHANGED queue
               /\ flags' = [flags EXCEPT ![p] = @ \cup {h.do}]
      <4>1. h.do \in Flag
        BY <3>3 DEF Flag
      <4> QED
        BY <1>2, <3>1, <3>3, <4>1
    <3> QED
      BY <1>1, <3>2, <3>3
  <2> QED
    BY <1>1, <2>1 DEF Inv, Typed, Stored
<1>9. \A o \in Page, q \in Queue : Filed(o, q)' <=> Filed(o, q)
  <2>1. flags \in [Page -> SUBSET Flag]
    BY DEF Inv, Typed, Stored
  <2>2. CASE h.do = "assign"
    BY <1>1, <1>2, <1>4, <1>5, <2>2 DEF Filed
  <2>3. CASE h.do \in {"requeue", "head"}
    BY <1>1, <1>2, <2>1, <2>3 DEF Filed
  <2> QED
    BY <1>1, <2>2, <2>3
<1>10. Listed'
  BY <1>1, <1>9, ListedSame
<1> QED
  BY <1>1, <1>6, <1>7, <1>8, <1>10, Drops

LEMMA SettleKeeps ==
  ASSUME Inv, NEW a \in Actor, Settle(a)
  PROVE  Inv'
<1> SUFFICES ASSUME NEW h, h = Next1(a), NEW p, p = h.page
             PROVE  Inv'
  OBVIOUS
<1>1. /\ code[a] # <<>> /\ Continue(a, <<>>) /\ h.do = "settle"
      /\ flags' = [flags EXCEPT ![p] = @ \ {"requeue", "head"}]
      /\ UNCHANGED <<queue, list, cnt, batch, plock, qlock, page, scan>>
  BY DEF Settle, Does
<1>2. p \in Page /\ Sound(a, h) /\ h.queue \in Queue
  BY <1>1, NextIs DEF OnPage, Batched, OnQueue
<1>3. queue[p] = h.queue /\ qlock[h.queue] = a
  BY <1>1, <1>2 DEF Sound, Holds, Placed, Batched
<1>4. Writes(a, p) /\ \A o \in Page \ {p} : queue'[o] = queue[o] /\ flags'[o] = flags[o]
  BY <1>1, <1>2, <1>3 DEF Writes, Filing, Inv, Typed, Stored
<1>5. Moves(a)
  BY <1>1, <1>4 DEF Moves, Turns, Writes
<1>6. Prepares(a)
  BY <1>1 DEF Prepares, Batched
<1>7. Stored'
  BY <1>1, <1>2 DEF Inv, Typed, Stored, Flag
<1>8. Listed'
  BY <1>1, ListedSame DEF Filed, Inv, Typed, Stored
<1> QED
  BY <1>1, <1>5, <1>6, <1>7, <1>8, Drops

LEMMA ClearKeeps ==
  ASSUME Inv, NEW a \in Actor, Clear(a)
  PROVE  Inv'
<1> SUFFICES ASSUME NEW h, h = Next1(a), NEW p, p = h.page
             PROVE  Inv'
  OBVIOUS
<1>1. /\ code[a] # <<>> /\ Continue(a, <<>>) /\ h.do \in {"clear", "clear unlock"}
      /\ flags' = [flags EXCEPT ![p] = {}]
      /\ qlock' = [qlock EXCEPT ![h.queue] = IF h.do = "clear" THEN @ ELSE Nobody]
      /\ UNCHANGED <<queue, list, cnt, batch, plock, page, scan>>
  BY DEF Clear, Does
<1>2. /\ p \in Page /\ Sound(a, h) /\ h.queue \in Queue
      /\ \A b \in Actor : \A y \in Todo(b) : Match(b, y, a, h)
      /\ \A dos, o : Heading(a, dos, o) <=> (h.do \in dos /\ o = p)
  BY <1>1, NextIs DEF OnPage, Batched, Locking, OnQueue
<1>3. queue[p] = "none" /\ qlock[h.queue] = a
  BY <1>1, <1>2 DEF Sound, Holds, Placed, Batched, Locking
<1>4. \A b \in Actor \ {a} : \A y \in Todo(b) : ~ (y.do = "clear" /\ y.page = p)
  BY <1>1, <1>2 DEF Match
<1>5. /\ queue'[p] = "none" /\ flags'[p] = {}
      /\ Writes(a, p) /\ \A o \in Page \ {p} : queue'[o] = queue[o] /\ flags'[o] = flags[o]
  BY <1>1, <1>2, <1>3, <1>4 DEF Writes, Cleared, Inv, Typed, Stored
<1>6. Moves(a)
  BY <1>1, <1>2, <1>3, <1>5, ZenonT(60) DEF Moves, Turns, Writes, Inv, Typed, Stored
<1>7. Prepares(a)
  BY <1>1, <1>2, <1>5 DEF Prepares, Batched, Inv, Typed, Stored
<1>8. Stored'
  BY <1>1, <1>2 DEF Inv, Typed, Stored, Flag
<1>9. \A o \in Page, q \in Queue : Filed(o, q)' <=> Filed(o, q)
  <2>1. "none" \notin Queue
    BY DEF Queue
  <2> QED
    BY <1>3, <1>5, <2>1 DEF Filed
<1>10. Listed'
  BY <1>1, <1>9, ListedSame
<1> QED
  BY <1>1, <1>6, <1>7, <1>8, <1>10, Drops

(* Instructions that no other actor need know of. *)
Quiet == {"process", "apply", "settle", "put", "collect", "unlock queue", "assign", "requeue",
          "head", "deferred", "reinsert", "dequeue", "unlock", "look", "clean", "stuck", "rest",
          "end scan"}

LEMMA QuietMatches ==
  ASSUME NEW a, NEW b, NEW x, NEW y, x.do \in Quiet
  PROVE  Match(a, x, b, y)' /\ Match(b, y, a, x)'
BY DEF Quiet, Match

(* The first half of a dequeue, of the page h names, from the queue it is on. *)
LEMMA DetachIs ==
  ASSUME Inv, NEW a \in Actor, NEW p \in Page, NEW q \in Queue, queue[p] = q,
         qlock[q] \in {a, Nobody}, "dequeue" \in flags[p] \/ plock[p] = a \/ page[p] = "taking",
         Detach(p, q), UNCHANGED <<flags, scan>>
  PROVE  /\ Detached(a, p) /\ \A o \in Page \ {p} : queue'[o] = queue[o]
         /\ Listed' /\ cnt' \in [Queue -> Nat]
         /\ list' \in [Queue -> Seq(Page \cup {Marker, Inacthead})]
         /\ queue' \in [Page -> Queue \cup {"none"}]
<1>1. queue' = [queue EXCEPT ![p] = "none"] /\ flags' = flags /\ scan' = scan
  BY DEF Detach
<1>2. queue \in [Page -> Queue \cup {"none"}] /\ "none" \notin Queue
  BY DEF Inv, Typed, Stored, Queue
<1>3. queue'[p] = "none" /\ \A o \in Page \ {p} : queue'[o] = queue[o]
  BY <1>1, <1>2
<1>4. \A o \in Page, r \in Queue : Filed(o, r)' <=> (Filed(o, r) /\ o # p)
  BY <1>1, <1>2, <1>3 DEF Filed
<1>5. CASE "enqueued" \in flags[p]
  <2>1. list' = Without(q, p) /\ cnt' = [cnt EXCEPT ![q] = @ - 1] /\ Filed(p, q)
    BY <1>5 DEF Detach, Filed
  <2> QED
    BY <1>1, <1>2, <1>3, <1>4, <2>1, Leaves DEF Detached
<1>6. CASE "enqueued" \notin flags[p]
  <2>1. list' = list /\ cnt' = cnt
    BY <1>6 DEF Detach
  <2>2. \A o \in Page, r \in Queue : Filed(o, r)' <=> Filed(o, r)
    BY <1>4, <1>6 DEF Filed
  <2>3. Listed'
    BY <1>1, <2>1, <2>2, ListedSame
  <2> QED
    BY <1>1, <1>2, <1>3, <2>1, <2>3 DEF Detached, Inv, Typed, Stored
<1> QED
  BY <1>5, <1>6

(* More to do, all at once and of one kind or two. *)
LEMMA One ==
  ASSUME NEW x \in InstrType
  PROVE  <<x>> \in Seq(InstrType) /\ ToSet(<<x>>) = {x} /\ Shape(<<x>>) /\ Head(<<x>>) = x /\ <<x>> # <<>>
<1>1. Shape(<<x>>)
  BY DEF Shape
<1> QED
  BY <1>1, Single

LEMMA DequeueNowKeeps ==
  ASSUME Inv, NEW a \in Actor, DequeueNow(a)
  PROVE  Inv'
<1> SUFFICES ASSUME NEW h, h = Next1(a), NEW p, p = h.page, NEW q, q = queue[p]
             PROVE  Inv'
  OBVIOUS
<1>1. /\ code[a] # <<>> /\ h.do = "dequeue"
      /\ \/ /\ q = "none" /\ flags[p] = {} /\ Continue(a, <<>>)
            /\ UNCHANGED <<queue, list, cnt, qlock>>
         \/ /\ q # "none" /\ qlock[q] = Nobody /\ qlock' = [qlock EXCEPT ![q] = a]
            /\ Detach(p, q) /\ Continue(a, <<Instr("clear unlock", p, q)>>)
      /\ UNCHANGED <<flags, batch, plock, page, scan>>
  BY DEF DequeueNow, Does
<1>2. /\ p \in Page /\ Sound(a, h)
      /\ \A b \in Actor : \A y \in Todo(b) : Match(b, y, a, h)
      /\ \A dos, o : Heading(a, dos, o) <=> (h.do \in dos /\ o = p)
  BY <1>1, NextIs DEF OnPage
<1>3. CASE q = "none"
  <2>1. /\ flags[p] = {} /\ Continue(a, <<>>)
        /\ UNCHANGED <<queue, flags, list, cnt, batch, plock, qlock, page, scan>>
    BY <1>1, <1>3
  <2>2. Moves(a)
    BY <2>1 DEF Moves, Turns, Writes
  <2>3. Prepares(a)
    BY <1>1, <1>3, <2>1 DEF Prepares, Batched
  <2>4. Stored'
    BY <2>1 DEF Inv, Typed, Stored
  <2>5. Listed'
    BY <2>1, ListedSame DEF Filed
  <2> QED
    BY <1>1, <2>1, <2>2, <2>3, <2>4, <2>5, Drops
<1>4. CASE q # "none"
  <2> DEFINE x == Instr("clear unlock", p, q)
             more == <<x>>
  <2>1. /\ qlock[q] = Nobody /\ qlock' = [qlock EXCEPT ![q] = a]
        /\ Detach(p, q) /\ Continue(a, more)
        /\ UNCHANGED <<flags, batch, plock, page, scan>>
    BY <1>1, <1>4
  <2>2. q \in Queue
    BY <1>2, <1>4 DEF Inv, Typed, Stored
  <2>3. x \in InstrType /\ x.do = "clear unlock" /\ x.page = p /\ x.queue = q
    BY <1>2, <2>2 DEF Instr, InstrType, OnPage, OnQueue, Locking
  <2>4. more \in Seq(InstrType) /\ ToSet(more) = {x} /\ Shape(more) /\ Head(more) = x /\ more # <<>>
    BY <2>3, One
  <2> HIDE DEF x, more
  <2>5. GoesOn(a, more)
    BY <1>1, <2>1, Continues
  <2>6. \A y \in ToSet(Rest(a)) : Follows(h, y) /\ Follows(x, y)
    <3>1. \A y \in ToSet(Rest(a)) : Follows(h, y)
      BY <1>1, Rests
    <3> QED
      BY <1>1, <2>3, <3>1 DEF Follows, Batched
  <2>7. plock[p] = a \/ page[p] = "taking"
    <3>1. plock[p] = a \/ Takes(a, p)
      BY <1>1, <1>2 DEF Sound, Holds
    <3>2. Takes(a, p) => page[p] = "taking"
      BY Basics DEF Takes, Sound, Serves
    <3> QED
      BY <3>1, <3>2
  <2>8. /\ Detached(a, p) /\ \A o \in Page \ {p} : queue'[o] = queue[o]
        /\ Listed' /\ cnt' \in [Queue -> Nat]
        /\ list' \in [Queue -> Seq(Page \cup {Marker, Inacthead})]
        /\ queue' \in [Page -> Queue \cup {"none"}]
    BY <1>2, <2>1, <2>2, <2>7, DetachIs
  <2>9. qlock' \in [Queue -> Actor \cup {Nobody}] /\ qlock'[q] = a
        /\ \A r \in Queue \ {q} : qlock'[r] = qlock[r]
    BY <2>1, <2>2 DEF Inv, Typed, Stored
  <2>10. Moves(a)
    BY <2>1, <2>8, <2>9 DEF Moves, Turns, Writes
  <2>11. /\ Todo(a)' = ToSet(more) \cup ToSet(Rest(a)) /\ \A b \in Actor \ {a} : Todo(b)' = Todo(b)
         /\ code'[a] # <<>> /\ Next1(a)' = x
    BY <2>4, <2>5, <2>6, Going
  <2>12. Prepares(a)
    BY <1>1, <1>2, <2>1, <2>3, <2>11 DEF Prepares, Batched, Heading
  <2>13. Stored'
    BY <2>1, <2>8, <2>9 DEF Inv, Typed, Stored
  <2>14. Sound(a, x)'
    <3>1. plock'[p] = a \/ Takes(a, p)'
      <4>1. CASE Takes(a, p)
        <5>1. PICK y \in Todo(a) : y.do = "use" /\ y.page = p
          BY <4>1 DEF Takes
        <5>2. y \in ToSet(Rest(a))
          BY <1>1, <5>1, Rests
        <5> QED
          BY <2>11, <5>1, <5>2 DEF Takes
      <4> QED
        BY <1>1, <1>2, <2>1, <4>1 DEF Sound, Holds
    <3>2. queue'[p] = "none"
      BY <2>8 DEF Detached
    <3> QED
      BY <2>3, <2>9, <3>1, <3>2 DEF Sound, Holds, Serves, Placed, Batched, Locking, Guarded
  <2>15. ASSUME NEW b \in Actor, NEW y \in Todo(b)'
         PROVE  Match(a, x, b, y)' /\ Match(b, y, a, x)'
    <3>1. y.do = "clear" /\ y.page = p => b = a
      <4>1. CASE b # a
        <5>1. y \in Todo(b)
          BY <2>11, <4>1
        <5>2. y.do = "clear" => queue[y.page] = "none"
          BY <5>1, Basics DEF Sound, Placed
        <5> QED
          BY <1>4, <5>2
      <4> QED
        BY <4>1
    <3> QED
      BY <2>3, <3>1 DEF Match
  <2> QED
    BY <2>1, <2>3, <2>4, <2>5, <2>6, <2>8, <2>10, <2>12, <2>13, <2>14, <2>15, Stepped
       DEF Scanning, OfScan
<1> QED
  BY <1>3, <1>4

LEMMA Two ==
  ASSUME NEW x \in InstrType, NEW y \in InstrType, Follows(x, y)
  PROVE  /\ <<x, y>> \in Seq(InstrType) /\ ToSet(<<x, y>>) = {x, y} /\ Shape(<<x, y>>)
         /\ Head(<<x, y>>) = x /\ <<x, y>> # <<>>
<1>1. Shape(<<x, y>>)
  BY DEF Shape
<1>2. ToSet(<<x, y>>) = {x, y}
  BY DEF ToSet
<1> QED
  BY <1>1, <1>2

(* The pages of a batch, and then z. *)
Ends(z) == z \in InstrType /\ z.do \notin First /\ z.do # "assign"
Entry(do, q, x) == x \in InstrType /\ x.do = do /\ x.queue = q

Plan(more, do, q, z) ==
  /\ more \in Seq(InstrType) /\ Shape(more) /\ z \in ToSet(more)
  /\ \A x \in ToSet(more) : x = z \/ Entry(do, q, x)

Several(do, q) == q \in Queue /\ (do = "process" \/ (do = "put" /\ q = Inactive))

LEMMA ManyThen ==
  ASSUME NEW do, NEW s \in Seq(Page), NEW q, Several(do, q), NEW z, Ends(z)
  PROVE  /\ Plan(Append(Entries(do, s, q), z), do, q, z)
         /\ Append(Entries(do, s, q), z) = Entries(do, s, q) \o <<z>>
<1>m. PICK more : more = Append(Entries(do, s, q), z)
  OBVIOUS
<1>0. z \in InstrType /\ z.do \notin First /\ z.do # "assign"
  BY DEF Ends
<1>11. q \in Queue /\ do \in {"process", "put"} /\ (do = "put" => q = Inactive)
  BY DEF Several
<1> DEFINE e == Entries(do, s, q)
<1>1. Len(s) \in Nat /\ DOMAIN s = 1..Len(s) /\ \A i \in 1..Len(s) : s[i] \in Page
  BY LenProperties, ElementOfSeq
<1>2. /\ e = [i \in 1..Len(s) |-> Instr(do, s[i], q)]
      /\ \A i \in 1..Len(s) : /\ Instr(do, s[i], q) \in InstrType
                             /\ Instr(do, s[i], q).do = do /\ Instr(do, s[i], q).queue = q
  BY <1>1, <1>11 DEF Entries, Instr, InstrType, OnPage, OnQueue, Batched
<1> HIDE DEF e
<1>3. /\ e \in Seq(InstrType) /\ DOMAIN e = 1..Len(s)
      /\ \A i \in 1..Len(s) : e[i].do = do /\ e[i].queue = q /\ e[i] \in InstrType
  BY <1>1, <1>2
<1>4. \A x \in ToSet(e) : x.do = do /\ x.queue = q /\ x \in InstrType
  BY <1>3 DEF ToSet
<1>5. Shape(e)
  BY <1>3, <1>11 DEF Shape, Follows, First, Batched, Locking
<1>6. <<z>> \in Seq(InstrType) /\ ToSet(<<z>>) = {z} /\ Shape(<<z>>)
  BY <1>0, One
<1> DEFINE u == <<z>>
<1> HIDE DEF u
<1>7. u \in Seq(InstrType) /\ ToSet(u) = {z} /\ Shape(u) /\ more = e \o u
  BY <1>m, <1>0, <1>3, <1>6, AppendIsConcat DEF u, e
<1>8. e \o u \in Seq(InstrType) /\ ToSet(e \o u) = ToSet(e) \cup ToSet(u)
  BY <1>3, <1>7, Concat
<1>9. \A x \in ToSet(e), y \in ToSet(u) : Follows(x, y)
  BY <1>0, <1>4, <1>7, <1>11 DEF Follows, Batched
<1>10. Shape(e \o u)
  BY <1>3, <1>5, <1>7, <1>9, Shapes
<1>12. Plan(more, do, q, z)
  BY <1>4, <1>7, <1>8, <1>10 DEF Entry, Plan
<1> QED
  BY <1>m, <1>7, <1>12 DEF e, u

LEMMA Processing ==
  ASSUME NEW s \in Seq(Page), NEW q \in Queue, NEW z, Ends(z),
         NEW more, more = Append(Entries("process", s, q), z)
  PROVE  /\ more \in Seq(InstrType) /\ Shape(more) /\ z \in ToSet(more)
         /\ \A x \in ToSet(more) : x = z \/ Entry("process", q, x)
<1>1. Several("process", q)
  BY DEF Several
<1>2. Plan(Append(Entries("process", s, q), z), "process", q, z)
  BY <1>1, ManyThen, Zenon
<1> QED
  BY <1>2, Zenon DEF Plan

LEMMA Putting ==
  ASSUME NEW s \in Seq(Page), NEW z, Ends(z),
         NEW more, more = Entries("put", s, Inactive) \o <<z>>
  PROVE  /\ more \in Seq(InstrType) /\ Shape(more) /\ z \in ToSet(more)
         /\ \A x \in ToSet(more) : x = z \/ Entry("put", Inactive, x)
<1>1. Several("put", Inactive)
  BY DEF Several, Queue, Inactive
<1>2. /\ Plan(Append(Entries("put", s, Inactive), z), "put", Inactive, z)
      /\ Append(Entries("put", s, Inactive), z) = more
  BY <1>1, ManyThen, Zenon
<1> QED
  BY <1>2, Zenon DEF Plan

LEMMA DeferKeeps ==
  ASSUME Inv, NEW a \in Actor, Defer(a)
  PROVE  Inv'
<1> SUFFICES ASSUME NEW h, h = Next1(a), NEW p, p = h.page, NEW q, q = queue[p]
             PROVE  Inv'
  OBVIOUS
<1>1. /\ code[a] # <<>> /\ h.do = "deferred"
      /\ IF q = "none" THEN Continue(a, <<>>) /\ UNCHANGED flags
         ELSE /\ flags' = [flags EXCEPT ![p] = @ \cup {"dequeue"}]
              /\ Continue(a, <<Instr("submit", p, q)>>)
      /\ UNCHANGED <<queue, list, cnt, batch, plock, qlock, page, scan>>
  BY DEF Defer, Does
<1>2. p \in Page /\ Sound(a, h)
  BY <1>1, NextIs DEF OnPage, Guarded
<1>3. plock[p] = a /\ page[p] \in {"used", "wired", "dead"}
  BY <1>1, <1>2 DEF Sound, Holds, Serves, Guarded
<1>4. CASE q = "none"
  <2>1. /\ Continue(a, <<>>)
        /\ UNCHANGED <<queue, flags, list, cnt, batch, plock, qlock, page, scan>>
    BY <1>1, <1>4
  <2>2. Moves(a)
    BY <2>1 DEF Moves, Turns, Writes
  <2>3. Prepares(a)
    BY <1>1, <1>4, <2>1 DEF Prepares, Batched, Logical
  <2>4. Stored'
    BY <2>1 DEF Inv, Typed, Stored
  <2>5. Listed'
    BY <2>1, ListedSame DEF Filed
  <2> QED
    BY <1>1, <2>1, <2>2, <2>3, <2>4, <2>5, Drops
<1>5. CASE q # "none"
  <2> DEFINE x == Instr("submit", p, q)
             more == <<x>>
  <2>1. /\ flags' = [flags EXCEPT ![p] = @ \cup {"dequeue"}] /\ Continue(a, more)
        /\ UNCHANGED <<queue, list, cnt, batch, plock, qlock, page, scan>>
    BY <1>1, <1>5
  <2>2. q \in Queue
    BY <1>2, <1>5 DEF Inv, Typed, Stored
  <2>3. x \in InstrType /\ x.do = "submit" /\ x.page = p /\ x.queue = q
    BY <1>2, <2>2 DEF Instr, InstrType, OnPage, OnQueue, Guarded
  <2>4. more \in Seq(InstrType) /\ ToSet(more) = {x} /\ Shape(more) /\ Head(more) = x /\ more # <<>>
    BY <2>3, One
  <2> HIDE DEF x, more
  <2>5. GoesOn(a, more)
    BY <1>1, <2>1, Continues
  <2>6. \A y \in ToSet(Rest(a)) : Follows(h, y) /\ Follows(x, y)
    <3>1. \A y \in ToSet(Rest(a)) : Follows(h, y)
      BY <1>1, Rests
    <3> QED
      BY <1>1, <2>3, <3>1 DEF Follows, Batched
  <2>7. "dequeue" \in flags'[p] /\ flags[p] \subseteq flags'[p]
        /\ ("head" \in flags'[p] => "head" \in flags[p])
        /\ \A o \in Page \ {p} : flags'[o] = flags[o]
    BY <1>2, <2>1 DEF Inv, Typed, Stored
  <2>8. Moves(a)
    BY <1>3, <2>1, <2>7, QueuesAssumption DEF Moves, Turns, Writes, Asks
  <2>9. Prepares(a)
    BY <1>1, <2>1, <2>7 DEF Prepares, Batched, Logical
  <2>10. flags' \in [Page -> SUBSET Flag]
    <3>1. flags \in [Page -> SUBSET Flag] /\ "dequeue" \in Flag
      BY DEF Inv, Typed, Stored, Flag
    <3> QED
      BY <1>2, <2>1, <3>1
  <2>11. Stored'
    BY <2>1, <2>10 DEF Inv, Typed, Stored
  <2>12. Listed'
    <3>1. \A o \in Page, r \in Queue : Filed(o, r)' <=> Filed(o, r)
      BY <1>2, <2>1 DEF Filed, Inv, Typed, Stored
    <3> QED
      BY <2>1, <3>1, ListedSame
  <2>13. Sound(a, x)'
    BY <1>3, <2>1, <2>3 DEF Sound, Holds, Serves, Placed, Batched, Locking, Guarded
  <2>14. /\ Todo(a)' = ToSet(more) \cup ToSet(Rest(a))
         /\ \A b \in Actor \ {a} : Todo(b)' = Todo(b)
    BY <2>4, <2>5, <2>6, Going
  <2>15. ASSUME NEW b \in Actor, NEW y \in Todo(b)'
         PROVE  Match(a, x, b, y)' /\ Match(b, y, a, x)'
    <3>1. ~ (y.do = "clear" /\ y.page = p)
      <4>1. CASE b # a
        <5>1. y \in Todo(b)
          BY <2>14, <4>1
        <5>2. y.do = "clear" => queue[y.page] = "none"
          BY <5>1, Basics DEF Sound, Placed
        <5> QED
          BY <1>5, <5>2
      <4>2. CASE b = a
        BY <2>3, <2>4, <2>6, <2>14, <4>2 DEF Follows, First
      <4> QED
        BY <4>1, <4>2
    <3> QED
      BY <2>3, <3>1 DEF Match
  <2> QED
    BY <2>1, <2>3, <2>4, <2>5, <2>6, <2>8, <2>9, <2>11, <2>12, <2>13, <2>15, Stepped
       DEF Scanning, OfScan
<1> QED
  BY <1>4, <1>5

LEMMA CheckKeeps ==
  ASSUME Inv, NEW a \in Actor, Check(a)
  PROVE  Inv'
<1> SUFFICES ASSUME NEW h, h = Next1(a), NEW p, p = h.page, NEW q, q = h.queue
             PROVE  Inv'
  OBVIOUS
<1>1. /\ code[a] # <<>> /\ h.do = "process"
      /\ Continue(a, IF queue[p] = q THEN <<Instr("apply", p, q)>> ELSE <<>>)
      /\ UNCHANGED <<queue, flags, list, cnt, batch, plock, qlock, page, scan>>
  BY DEF Check, Does
<1>2. p \in Page /\ q \in Queue /\ Sound(a, h)
  BY <1>1, NextIs DEF OnPage, Batched, OnQueue
<1>3. Moves(a) /\ Stored'
  BY <1>1 DEF Moves, Turns, Writes, Inv, Typed, Stored
<1>4. Prepares(a)
  BY <1>1 DEF Prepares, Batched
<1>5. Listed'
  BY <1>1, ListedSame DEF Filed
<1>6. CASE queue[p] # q
  <2>1. Continue(a, <<>>)
    BY <1>1, <1>6
  <2> QED
    BY <1>1, <1>3, <1>4, <1>5, <2>1, Drops
<1>7. CASE queue[p] = q
  <2> DEFINE x == Instr("apply", p, q)
             more == <<x>>
  <2>1. Continue(a, more)
    BY <1>1, <1>7
  <2>2. x \in InstrType /\ x.do = "apply" /\ x.page = p /\ x.queue = q
    BY <1>2 DEF Instr, InstrType, OnPage, OnQueue, Batched
  <2>3. more \in Seq(InstrType) /\ ToSet(more) = {x} /\ Shape(more)
    BY <2>2, One
  <2> HIDE DEF x, more
  <2>4. GoesOn(a, more)
    BY <1>1, <2>1, Continues
  <2>5. \A y \in ToSet(Rest(a)) : Follows(x, y)
    <3>1. \A y \in ToSet(Rest(a)) : Follows(h, y)
      BY <1>1, Rests
    <3> QED
      BY <1>1, <2>2, <3>1 DEF Follows, Batched
  <2>6. Sound(a, x)'
    BY <1>1, <1>2, <2>2 DEF Sound, Holds, Serves, Placed, Batched, Locking, Guarded
  <2>7. \A b \in Actor : \A y \in Todo(b)' : Match(a, x, b, y)' /\ Match(b, y, a, x)'
    BY <2>2 DEF Match
  <2> QED
    BY <1>1, <1>3, <1>4, <1>5, <2>2, <2>3, <2>4, <2>5, <2>6, <2>7, Stepped DEF Scanning, OfScan
<1> QED
  BY <1>6, <1>7

LEMMA SubmitKeeps ==
  ASSUME Inv, NEW a \in Actor, Submit(a)
  PROVE  Inv'
<1>a. PICK h : h = Next1(a)
  OBVIOUS
<1>b. PICK p, q : p = h.page /\ q = h.queue
  OBVIOUS
<1>c. PICK s : s = batch[a][q]
  OBVIOUS
<1>1. /\ code[a] # <<>> /\ h.do = "submit"
      /\ \/ /\ Len(s) < BatchSize /\ UNCHANGED qlock /\ Continue(a, <<>>)
            /\ batch' = [batch EXCEPT ![a][q] = Append(s, p)]
         \/ /\ qlock[q] = Nobody /\ qlock' = [qlock EXCEPT ![q] = a]
            /\ batch' = [batch EXCEPT ![a][q] = <<>>]
            /\ Continue(a, Append(Entries("process", s, q), Instr("finish", p, q)))
      /\ UNCHANGED <<queue, flags, list, cnt, plock, page, scan>>
  BY <1>a, <1>b, <1>c DEF Submit, Does
<1>2. /\ p \in Page /\ q \in Queue /\ Sound(a, h)
      /\ \A b \in Actor : \A y \in Todo(b) : Match(b, y, a, h)
  BY <1>a, <1>b, <1>1, NextIs DEF OnPage, Guarded, OnQueue
<1>3. plock[p] = a /\ page[p] \in {"used", "wired", "dead"}
  BY <1>b, <1>1, <1>2 DEF Sound, Holds, Serves, Guarded
<1>4. batch \in [Actor -> [Queue -> Seq(Page)]] /\ s \in Seq(Page)
  BY <1>c, <1>2 DEF Inv, Typed, Stored
<1>5. Listed'
  BY <1>1, ListedSame DEF Filed
<1>6. \A y \in ToSet(Rest(a)) : Follows(h, y)
  BY <1>a, <1>1, Rests
<1>7. ~ Assigns(a, p)
  <2>1. Todo(a) = {h} \cup ToSet(Rest(a))
    BY <1>a, <1>1, Rests
  <2> QED
    BY <1>1, <1>6, <2>1 DEF Assigns, Follows
<1>8. CASE /\ Continue(a, <<>>) /\ UNCHANGED qlock
           /\ batch' = [batch EXCEPT ![a][q] = Append(s, p)]
  <2>1. Append(s, p) \in Seq(Page)
    BY <1>2, <1>4, Added
  <2>2. Moves(a) /\ Prepares(a)
    BY <1>a, <1>1, <1>8 DEF Moves, Turns, Writes, Prepares, Batched
  <2>3. batch' \in [Actor -> [Queue -> Seq(Page)]]
    BY <1>2, <1>4, <1>8, <2>1
  <2>4. Stored'
    BY <1>1, <1>8, <2>3 DEF Inv, Typed, Stored
  <2> QED
    BY <1>1, <1>5, <1>8, <2>2, <2>4, Drops
<1>9. CASE /\ qlock[q] = Nobody /\ qlock' = [qlock EXCEPT ![q] = a]
           /\ batch' = [batch EXCEPT ![a][q] = <<>>]
           /\ Continue(a, Append(Entries("process", s, q), Instr("finish", p, q)))
  <2>a. PICK z : z = Instr("finish", p, q)
    OBVIOUS
  <2>b. PICK more : more = Append(Entries("process", s, q), z)
    OBVIOUS
  <2>1. z \in InstrType /\ z.do = "finish" /\ z.page = p /\ z.queue = q
    BY <1>2, <2>a DEF Instr, InstrType, OnPage, OnQueue, Guarded, Locking
  <2>2. /\ more \in Seq(InstrType) /\ Shape(more) /\ z \in ToSet(more)
        /\ \A x \in ToSet(more) : x = z \/ (x.do = "process" /\ x.queue = q /\ x \in InstrType)
    <3>1. Ends(z)
      BY <2>1 DEF Ends, First
    <3>2. /\ more \in Seq(InstrType) /\ Shape(more) /\ z \in ToSet(more)
          /\ \A x \in ToSet(more) : x = z \/ Entry("process", q, x)
      BY <1>2, <1>4, <2>b, <3>1, Processing
    <3> QED
      BY <3>2 DEF Entry
  <2>4. GoesOn(a, more)
    BY <1>1, <1>9, <2>a, <2>b, Continues
  <2>5. \A x \in ToSet(more), y \in ToSet(Rest(a)) : Follows(x, y)
    BY <1>1, <1>6, <2>1, <2>2 DEF Follows, Batched
  <2>6. qlock' \in [Queue -> Actor \cup {Nobody}] /\ qlock'[q] = a
        /\ \A r \in Queue \ {q} : qlock'[r] = qlock[r]
    BY <1>2, <1>9 DEF Inv, Typed, Stored
  <2>7. Moves(a) /\ Prepares(a)
    BY <1>a, <1>1, <1>9, <2>6 DEF Moves, Turns, Writes, Prepares, Batched
  <2>8. batch' \in [Actor -> [Queue -> Seq(Page)]]
    <3>1. <<>> \in Seq(Page)
      BY EmptySeq
    <3> QED
      BY <1>2, <1>4, <1>9, <3>1
  <2>9. Stored'
    BY <1>1, <2>6, <2>8 DEF Inv, Typed, Stored
  <2>10. queue[p] \in {q, "none"}
    BY <1>b, <1>1, <1>2, <1>7 DEF Sound, Placed
  <2>11. \A x \in ToSet(more) : Sound(a, x)'
    <3> TAKE x \in ToSet(more)
    <3>1. CASE x = z
      BY <1>1, <1>3, <2>1, <2>6, <2>10, <3>1
         DEF Sound, Holds, Serves, Placed, Batched, Locking, Guarded
    <3>2. CASE x.do = "process" /\ x.queue = q
      BY <2>6, <3>2 DEF Sound, Holds, Serves, Placed, Batched, Locking, Guarded
    <3> QED
      BY <2>2, <3>1, <3>2
  <2>12. /\ Todo(a)' = ToSet(more) \cup ToSet(Rest(a))
         /\ \A b \in Actor \ {a} : Todo(b)' = Todo(b)
    BY <2>2, <2>4, <2>5, Going
  <2>13. ASSUME NEW x \in ToSet(more), NEW b \in Actor, NEW y \in Todo(b)'
         PROVE  Match(a, x, b, y)' /\ Match(b, y, a, x)'
    <3>1. y.do = "clear" /\ y.page = p => y.queue = q
      <4>1. CASE b # a
        <5>1. y \in Todo(b)
          BY <2>12, <4>1
        <5> QED
          BY <1>b, <1>1, <1>2, <1>7, <5>1 DEF Match
      <4>2. CASE b = a
        BY <1>6, <2>1, <2>2, <2>12, <4>2 DEF Follows, First
      <4> QED
        BY <4>1, <4>2
    <3> QED
      BY <2>1, <2>2, <3>1 DEF Match
  <2>14. \A x \in ToSet(more) : Scanning(x)
    BY <2>1, <2>2 DEF Scanning, OfScan
  <2> QED
    BY <1>1, <1>5, <2>2, <2>4, <2>5, <2>7, <2>9, <2>11, <2>13, <2>14, Stepped
<1> QED
  BY <1>1, <1>8, <1>9

LEMMA DrainKeeps ==
  ASSUME Inv, NEW a \in Actor, NEW q \in Queue, Drain(a, q)
  PROVE  Inv'
<1>a. PICK s : s = batch[a][q]
  OBVIOUS
<1>b. PICK z : z = Instr("unlock queue", "none", q)
  OBVIOUS
<1>c. PICK more : more = Append(Entries("process", s, q), z)
  OBVIOUS
<1>1. /\ code[a] = <<>> /\ qlock[q] = Nobody
      /\ qlock' = [qlock EXCEPT ![q] = a]
      /\ batch' = [batch EXCEPT ![a][q] = <<>>]
      /\ code' = [code EXCEPT ![a] = Append(Entries("process", s, q), z)]
      /\ UNCHANGED <<queue, flags, list, cnt, plock, page, scan>>
  BY <1>a, <1>b DEF Drain
<1>2. batch \in [Actor -> [Queue -> Seq(Page)]] /\ s \in Seq(Page)
  <2>1. batch \in [Actor -> [Queue -> Seq(Page)]]
    BY DEF Inv, Typed, Stored
  <2> QED
    BY <1>a, <2>1
<1>3. z \in InstrType /\ z.do = "unlock queue" /\ z.queue = q
  BY <1>b DEF Instr, InstrType, OnPage, OnQueue, Guarded, Locking
<1>4. /\ more \in Seq(InstrType) /\ Shape(more) /\ z \in ToSet(more)
      /\ \A x \in ToSet(more) : x = z \/ (x.do = "process" /\ x.queue = q /\ x \in InstrType)
  <2>1. Ends(z)
    BY <1>3 DEF Ends, First
  <2>2. /\ more \in Seq(InstrType) /\ Shape(more) /\ z \in ToSet(more)
        /\ \A x \in ToSet(more) : x = z \/ Entry("process", q, x)
    BY <1>2, <1>c, <2>1, Processing
  <2> QED
    BY <2>2 DEF Entry
<1>6. GoesOn(a, more)
  <2>1. code' = [code EXCEPT ![a] = more] /\ Rest(a) = <<>>
    BY <1>1, <1>c DEF Rest
  <2>2. more \o <<>> = more
    BY <1>4, ConcatEmptySeq
  <2> QED
    BY <2>1, <2>2 DEF GoesOn
<1>7. ToSet(Rest(a)) = {}
  BY <1>1, Rests
<1>8. qlock' \in [Queue -> Actor \cup {Nobody}] /\ qlock'[q] = a
      /\ \A r \in Queue \ {q} : qlock'[r] = qlock[r]
  BY <1>1 DEF Inv, Typed, Stored
<1>9. Moves(a) /\ Prepares(a)
  BY <1>1, <1>8 DEF Moves, Turns, Writes, Prepares
<1>10. batch' \in [Actor -> [Queue -> Seq(Page)]]
  <2>1. <<>> \in Seq(Page)
    BY EmptySeq
  <2> QED
    BY <1>1, <1>2, <2>1
<1>11. Stored' /\ Listed'
  <2>1. Stored'
    BY <1>1, <1>8, <1>10 DEF Inv, Typed, Stored
  <2>2. Listed'
    BY <1>1, ListedSame DEF Filed
  <2> QED
    BY <2>1, <2>2
<1>12. \A x \in ToSet(more) : Sound(a, x)'
  BY <1>3, <1>4, <1>8 DEF Sound, Holds, Serves, Placed, Batched, Locking, Guarded
<1>13. \A x \in ToSet(more), b \in Actor : \A y \in Todo(b)' : Match(a, x, b, y)' /\ Match(b, y, a, x)'
  BY <1>3, <1>4 DEF Match
<1>14. \A x \in ToSet(more) : Scanning(x)
  BY <1>3, <1>4 DEF Scanning, OfScan
<1> QED
  BY <1>1, <1>4, <1>6, <1>7, <1>9, <1>11, <1>12, <1>13, <1>14, Stepped

LEMMA FinishKeeps ==
  ASSUME Inv, NEW a \in Actor, Finish(a)
  PROVE  Inv'
<1> SUFFICES ASSUME NEW h, h = Next1(a), NEW p, p = h.page, NEW q, q = h.queue,
                    NEW z, z = Instr("unlock queue", p, q), NEW x, x = Instr("apply", p, q)
             PROVE  Inv'
  OBVIOUS
<1>1. /\ code[a] # <<>> /\ h.do = "finish"
      /\ IF queue[p] = q THEN UNCHANGED flags /\ Continue(a, <<x, z>>)
         ELSE flags' = [flags EXCEPT ![p] = {}] /\ Continue(a, <<z>>)
      /\ UNCHANGED <<queue, list, cnt, batch, plock, qlock, page, scan>>
  BY DEF Finish, Does
<1>2. /\ p \in Page /\ q \in Queue /\ Sound(a, h)
      /\ \A b \in Actor : \A y \in Todo(b) : Match(b, y, a, h)
  BY <1>1, NextIs DEF OnPage, Guarded, OnQueue, Locking
<1>3. plock[p] = a /\ qlock[q] = a
  BY <1>1, <1>2 DEF Sound, Holds, Guarded, Locking
<1>4. \A y \in ToSet(Rest(a)) : Follows(h, y)
  BY <1>1, Rests
<1>5. ~ Assigns(a, p)
  <2>1. Todo(a) = {h} \cup ToSet(Rest(a))
    BY <1>1, Rests
  <2> QED
    BY <1>1, <1>4, <2>1 DEF Assigns, Follows
<1>6. /\ z \in InstrType /\ z.do = "unlock queue" /\ z.queue = q
      /\ x \in InstrType /\ x.do = "apply" /\ x.queue = q
  BY <1>2 DEF Instr, InstrType, OnPage, OnQueue, Guarded, Locking, Batched
<1>7. \A y \in ToSet(Rest(a)) : Follows(x, y) /\ Follows(z, y)
  BY <1>1, <1>4, <1>6 DEF Follows, Batched
<1>8. Sound(a, z)' /\ Sound(a, x)'
  BY <1>1, <1>3, <1>6 DEF Sound, Holds, Serves, Placed, Batched, Locking, Guarded
<1>9. \A b \in Actor : \A y \in Todo(b)' : /\ Match(a, x, b, y)' /\ Match(b, y, a, x)'
                                        /\ Match(a, z, b, y)' /\ Match(b, y, a, z)'
  BY <1>6 DEF Match
<1>10. Scanning(x) /\ Scanning(z)
  BY <1>6 DEF Scanning, OfScan
<1>11. CASE queue[p] = q
  <2> SUFFICES ASSUME NEW more, more = <<x, z>>
               PROVE  Inv'
    OBVIOUS
  <2>1. UNCHANGED <<queue, flags, list, cnt, batch, plock, qlock, page, scan>>
    BY <1>1, <1>11
  <2>2. GoesOn(a, more)
    BY <1>1, <1>11, Continues
  <2>3. Follows(x, z)
    BY <1>6 DEF Follows, First, Batched
  <2>4. more \in Seq(InstrType) /\ ToSet(more) = {x, z} /\ Shape(more)
    BY <1>6, <2>3, Two
  <2>5. Moves(a) /\ Prepares(a) /\ Stored'
    BY <1>1, <2>1 DEF Moves, Turns, Writes, Prepares, Batched, Inv, Typed, Stored
  <2>6. Listed'
    BY <2>1, ListedSame DEF Filed
  <2>7. /\ \A y \in ToSet(more), w \in ToSet(Rest(a)) : Follows(y, w)
        /\ \A y \in ToSet(more) : Sound(a, y)'
        /\ \A y \in ToSet(more), b \in Actor : \A w \in Todo(b)' :
             Match(a, y, b, w)' /\ Match(b, w, a, y)'
        /\ \A y \in ToSet(more) : Scanning(y)
    <3>1. ASSUME NEW y \in ToSet(more)
          PROVE  y = x \/ y = z
      BY <2>4
    <3>2. \A y \in ToSet(more), w \in ToSet(Rest(a)) : Follows(y, w)
      BY <1>7, <3>1
    <3>3. \A y \in ToSet(more) : Sound(a, y)'
      BY <1>8, <3>1
    <3>4. \A y \in ToSet(more), b \in Actor : \A w \in Todo(b)' :
             Match(a, y, b, w)' /\ Match(b, w, a, y)'
      BY <1>6, <3>1 DEF Match
    <3>5. \A y \in ToSet(more) : Scanning(y)
      BY <1>10, <3>1
    <3> QED
      BY <3>2, <3>3, <3>4, <3>5
  <2> QED
    BY <2>1, <2>2, <2>4, <2>5, <2>6, <2>7, Stepped
<1>12. CASE queue[p] # q
  <2> SUFFICES ASSUME NEW more, more = <<z>>
               PROVE  Inv'
    OBVIOUS
  <2>1. /\ flags' = [flags EXCEPT ![p] = {}]
        /\ UNCHANGED <<queue, list, cnt, batch, plock, qlock, page, scan>>
    BY <1>1, <1>12
  <2>2. GoesOn(a, more)
    BY <1>1, <1>12, Continues
  <2>3. more \in Seq(InstrType) /\ ToSet(more) = {z} /\ Shape(more)
    BY <1>6, One
  <2>4. queue[p] = "none"
    BY <1>1, <1>2, <1>5, <1>12 DEF Sound, Placed
  <2>5. \A b \in Actor \ {a} : \A y \in Todo(b) : ~ (y.do = "clear" /\ y.page = p)
    <3> SUFFICES ASSUME NEW b \in Actor \ {a}, NEW y \in Todo(b), y.do = "clear", y.page = p
                 PROVE  FALSE
      OBVIOUS
    <3>1. y.queue = q
      BY <1>1, <1>2, <1>5 DEF Match
    <3>2. qlock[y.queue] = b
      BY Basics DEF Sound, Holds, Batched
    <3> QED
      BY <1>3, <3>1, <3>2
  <2>6. flags' \in [Page -> SUBSET Flag] /\ flags'[p] = {} /\ \A o \in Page \ {p} : flags'[o] = flags[o]
    BY <1>2, <2>1 DEF Inv, Typed, Stored
  <2>7. Moves(a) /\ Prepares(a)
    BY <1>1, <2>1, <2>4, <2>5, <2>6 DEF Moves, Turns, Writes, Cleared, Prepares, Batched
  <2>8. Stored'
    BY <2>1, <2>6 DEF Inv, Typed, Stored
  <2>9. \A o \in Page, r \in Queue : Filed(o, r)' <=> Filed(o, r)
    <3>1. "none" \notin Queue
      BY DEF Queue
    <3> QED
      BY <2>1, <2>4, <2>6, <3>1, ZenonT(60) DEF Filed
  <2>10. Listed'
    BY <2>1, <2>9, ListedSame
  <2> QED
    BY <1>7, <1>8, <1>9, <1>10, <2>1, <2>2, <2>3, <2>7, <2>8, <2>10, Stepped
<1> QED
  BY <1>11, <1>12

(***************************************************************************)
(* An operation on a page whose lock is taken                              *)
(***************************************************************************)
(* What may be done to page p when its field says q. *)
Doing(more, p, q) ==
  /\ more \in Seq(InstrType) /\ more # <<>> /\ Shape(more)
  /\ \A x \in ToSet(more) :
       /\ x.page = p
       /\ x.do \in {"dequeue", "assign", "requeue", "head", "submit", "deferred", "free",
                    "reinsert", "unlock", "clean", "paged"}
       /\ x.do = "assign" => Head(more).do = "dequeue" /\ Head(more).page = p
       /\ x.do \in {"submit", "head"} =>
            x.queue = q \/ \E z \in ToSet(more) : z.do = "assign" /\ z.page = p
       /\ x.do = "free" => (Head(more).do = "deferred" /\ Head(more).page = p) \/ q = "none"
       /\ x.do = "paged" => \A z \in ToSet(more) : z.do # "free"

LEMMA TakenUp ==
  ASSUME Inv, NEW a \in Actor, NEW p \in Page, plock[p] = Nobody,
         plock' = [plock EXCEPT ![p] = a], qlock' = qlock,
         code[a] # <<>> => Next1(a).do \in {"look", "clean", "paged"},
         NEW more, GoesOn(a, more), Doing(more, p, queue'[p]),
         queue'[p] \in {queue[p], "none"},
         page'[p] \in {"used", "wired", "dead"} \/ \A x \in ToSet(more) : x.do = "unlock",
         \A x \in ToSet(more) : x.do = "free" =>
           \A y \in Todo(Daemon) : ~ (a # Daemon /\ y.do = "paged" /\ y.page = p),
         \A x \in ToSet(more) : x.do = "reinsert" => scan.on /\ scan.queue = Inactive,
         a # Daemon => \A x \in ToSet(more) : x.do \notin {"reinsert", "paged"},
         \A o \in Page : Turns(a, o) /\ Writes(a, o),
         Stored', Listed', scan'.on = scan.on, scan'.queue = scan.queue
  PROVE  Inv'
<1>a. PICK q : q = queue'[p]
  OBVIOUS
<1>b. PICK h : h = Head(more)
  OBVIOUS
<1>1. more \in Seq(InstrType) /\ more # <<>> /\ Shape(more)
  BY DEF Doing
<1>2. ASSUME NEW x \in ToSet(more)
      PROVE  /\ x \in InstrType /\ x.page = p
             /\ x.do \in {"dequeue", "assign", "requeue", "head", "submit", "deferred", "free",
                          "reinsert", "unlock", "clean", "paged"}
             /\ x.do = "assign" => h.do = "dequeue" /\ h.page = p
             /\ x.do \in {"submit", "head"} =>
                  x.queue = q \/ \E z \in ToSet(more) : z.do = "assign" /\ z.page = p
             /\ x.do = "free" => (h.do = "deferred" /\ h.page = p) \/ q = "none"
             /\ x.do = "paged" => \A z \in ToSet(more) : z.do # "free"
  <2>1. x \in InstrType
    BY <1>1, ElementsOf
  <2> QED
    BY <1>a, <1>b, <2>1, Zenon DEF Doing
<1>3. ToSet(Rest(a)) = {}
  <2>1. CASE code[a] = <<>>
    BY <2>1, Rests
  <2>2. CASE code[a] # <<>>
    <3>1. \A y \in ToSet(Rest(a)) : Follows(Next1(a), y)
      BY <2>2, Rests
    <3> QED
      BY <2>2, <3>1 DEF Follows
  <2> QED
    BY <2>1, <2>2
<1>4. /\ Todo(a)' = ToSet(more) /\ \A b \in Actor \ {a} : Todo(b)' = Todo(b)
      /\ code'[a] # <<>> /\ Next1(a)' = h
  BY <1>b, <1>1, <1>3, Going, ZenonT(60)
<1>5. plock'[p] = a /\ \A o \in Page \ {p} : plock'[o] = plock[o]
  BY DEF Inv, Typed, Stored
<1>6. a # Nobody
  BY QueuesAssumption
<1>7. Moves(a)
  BY <1>5 DEF Moves
<1>8. Prepares(a)
  BY <1>5, <1>6 DEF Prepares, Batched
<1>9. ASSUME NEW x \in ToSet(more)
      PROVE  Sound(a, x)'
  <2>1. Holds(a, x)'
    BY <1>2, <1>5 DEF Holds, Batched, Locking, Guarded
  <2>2. Serves(a, x)'
    <3>1. x.do # "unlock" => page'[p] \in {"used", "wired", "dead"}
      OBVIOUS
    <3>2. x.do = "free" => Heading(a, {"deferred"}, p)' \/ Logical(p)' = "none"
      BY <1>a, <1>2, <1>4 DEF Heading, Logical
    <3>3. x.do = "paged" => a = Daemon
      OBVIOUS
    <3> QED
      BY <1>2, <3>1, <3>2, <3>3 DEF Serves, Guarded
  <2>3. Placed(a, x)'
    <3>1. x.do = "assign" => Heading(a, {"dequeue", "clear unlock"}, p)'
      BY <1>2, <1>4 DEF Heading
    <3>2. x.do \in {"submit", "head"} => queue'[p] = x.queue \/ Assigns(a, p)'
      BY <1>a, <1>2, <1>4 DEF Assigns
    <3> QED
      BY <1>2, <3>1, <3>2 DEF Placed
  <2> QED
    BY <2>1, <2>2, <2>3 DEF Sound
<1>10. ASSUME NEW b \in Actor \ {a}, NEW y \in Todo(b)
       PROVE  /\ y.do \in Guarded => y.page # p
              /\ y.do = "paged" => b = Daemon
              /\ y.do = "clear" => queue[y.page] = "none"
  <2>1. Sound(b, y) /\ b # Nobody
    BY Basics, QueuesAssumption
  <2> QED
    BY <2>1 DEF Sound, Holds, Serves, Placed
<1>11. ASSUME NEW x \in ToSet(more), NEW b \in Actor, NEW y \in Todo(b)'
       PROVE  Match(a, x, b, y)' /\ Match(b, y, a, x)'
  <2>1. /\ x.page = p
        /\ x.do \in {"dequeue", "assign", "requeue", "head", "submit", "deferred", "free",
                     "reinsert", "unlock", "clean", "paged"}
        /\ x.do = "paged" => \A z \in ToSet(more) : z.do # "free"
    BY <1>2
  <2>2. ASSUME x.do = "paged", y.page = p
        PROVE  y.do # "free"
    <3>1. CASE b = a
      BY <1>4, <2>1, <2>2, <3>1
    <3>2. CASE b # a
      BY <1>4, <1>10, <2>2, <3>2 DEF Guarded
    <3> QED
      BY <3>1, <3>2
  <2>3. ASSUME x.do = "free", y.page = p
        PROVE  y.do # "paged"
    <3>1. CASE b = a
      BY <1>2, <1>4, <2>3, <3>1
    <3>2. CASE b # a
      BY <1>4, <1>10, <2>3, <3>2
    <3> QED
      BY <3>1, <3>2
  <2>4. ASSUME x.do = "submit", y.page = p, y.do = "clear"
        PROVE  Assigns(a, p)'
    <3>1. b # a
      BY <1>2, <1>4, <2>4
    <3>2. queue[p] = "none"
      BY <1>4, <1>10, <2>4, <3>1
    <3>3. q = "none"
      BY <1>a, <3>2
    <3>4. x.queue \in Queue /\ "none" \notin Queue
      BY <1>2, <2>4, InstrFacts DEF OnQueue, Queue
    <3> QED
      BY <1>2, <1>4, <2>4, <3>3, <3>4 DEF Assigns
  <2>5. Match(a, x, b, y)'
    BY <2>1, <2>2, <2>3 DEF Match
  <2>6. Match(b, y, a, x)'
    BY <2>1, <2>2, <2>3, <2>4 DEF Match
  <2> QED
    BY <2>5, <2>6
<1>12. a = Daemon => \A x \in ToSet(more) : Scanning(x)
  BY <1>2 DEF Scanning, OfScan
<1> QED
  BY <1>1, <1>3, <1>7, <1>8, <1>9, <1>11, <1>12, Stepped

(* More to do, and then u. *)
LEMMA Chain ==
  ASSUME NEW s \in Seq(InstrType), NEW u \in InstrType, Shape(s), \A x \in ToSet(s) : Follows(x, u),
         NEW more, more = Append(s, u)
  PROVE  /\ more \in Seq(InstrType) /\ more # <<>> /\ ToSet(more) = ToSet(s) \cup {u} /\ Shape(more)
         /\ Head(more) = IF s = <<>> THEN u ELSE Head(s)
<1> DEFINE v == <<u>>
<1>1. v \in Seq(InstrType) /\ ToSet(v) = {u} /\ Shape(v) /\ v # <<>> /\ Head(v) = u
  BY One
<1>2. Append(s, u) = s \o v
  BY AppendIsConcat
<1> HIDE DEF v
<1>3. s \o v \in Seq(InstrType) /\ ToSet(s \o v) = ToSet(s) \cup ToSet(v)
  BY <1>1, Concat
<1>4. Shape(s \o v)
  BY <1>1, Shapes
<1>5. s \o v # <<>> /\ Head(s \o v) = IF s = <<>> THEN u ELSE Head(s)
  <2>1. CASE s # <<>>
    BY <1>1, <2>1, HeadOf
  <2>2. CASE s = <<>>
    <3>1. s \o v = v
      BY <1>1, <2>2, ConcatEmptySeq
    <3> QED
      BY <1>1, <2>2, <3>1
  <2> QED
    BY <2>1, <2>2
<1> QED
  BY <1>1, <1>2, <1>3, <1>4, <1>5

LEMMA Three ==
  ASSUME NEW x \in InstrType, NEW y \in InstrType, NEW z \in InstrType,
         Follows(x, y), Follows(x, z), Follows(y, z)
  PROVE  /\ <<x, y, z>> \in Seq(InstrType) /\ ToSet(<<x, y, z>>) = {x, y, z} /\ Shape(<<x, y, z>>)
         /\ Head(<<x, y, z>>) = x /\ <<x, y, z>> # <<>>
<1>1. Shape(<<x, y, z>>)
  BY DEF Shape
<1>2. ToSet(<<x, y, z>>) = {x, y, z}
  BY DEF ToSet
<1> QED
  BY <1>1, <1>2

LEMMA Four ==
  ASSUME NEW w \in InstrType, NEW x \in InstrType, NEW y \in InstrType, NEW z \in InstrType,
         Follows(w, x), Follows(w, y), Follows(w, z), Follows(x, y), Follows(x, z), Follows(y, z)
  PROVE  /\ <<w, x, y, z>> \in Seq(InstrType) /\ ToSet(<<w, x, y, z>>) = {w, x, y, z}
         /\ Shape(<<w, x, y, z>>)
         /\ Head(<<w, x, y, z>>) = w /\ <<w, x, y, z>> # <<>>
<1>1. Shape(<<w, x, y, z>>)
  BY DEF Shape
<1>2. ToSet(<<w, x, y, z>>) = {w, x, y, z}
  BY DEF ToSet
<1> QED
  BY <1>1, <1>2

(* An operation on p, before the page is unlocked. *)
Op(s, p, q) ==
  /\ s \in Seq(InstrType) /\ Shape(s)
  /\ \A x \in ToSet(s) :
       /\ x.page = p
       /\ x.do \in {"dequeue", "assign", "requeue", "head", "submit", "deferred"}
       /\ x.do = "assign" => Head(s).do = "dequeue" /\ Head(s).page = p
       /\ x.do \in {"submit", "head"} =>
            x.queue = q \/ \E z \in ToSet(s) : z.do = "assign" /\ z.page = p

LEMMA OpDoing ==
  ASSUME NEW p \in Page, NEW q, NEW s, Op(s, p, q)
  PROVE  /\ Doing(Append(s, Instr("unlock", p, "none")), p, q)
         /\ \A x \in ToSet(Append(s, Instr("unlock", p, "none"))) :
              x.do \notin {"free", "reinsert", "clean", "paged"}
<1>a. PICK u : u = Instr("unlock", p, "none")
  OBVIOUS
<1>b. PICK more : more = Append(s, u)
  OBVIOUS
<1>1. u \in InstrType /\ u.do = "unlock" /\ u.page = p
  BY <1>a DEF Instr, InstrType, OnPage, OnQueue, Batched, Locking
<1>2. s \in Seq(InstrType) /\ Shape(s) /\ \A x \in ToSet(s) : x.do \in
        {"dequeue", "assign", "requeue", "head", "submit", "deferred"}
  BY DEF Op
<1>3. \A x \in ToSet(s) : Follows(x, u)
  BY <1>1, <1>2 DEF Follows, First, Batched, Locking
<1>4. /\ more \in Seq(InstrType) /\ more # <<>> /\ ToSet(more) = ToSet(s) \cup {u} /\ Shape(more)
      /\ Head(more) = IF s = <<>> THEN u ELSE Head(s)
  BY <1>b, <1>1, <1>2, <1>3, Chain
<1>5. ToSet(s) # {} => Head(more) = Head(s)
  BY <1>4 DEF ToSet
<1>6. ASSUME NEW x \in ToSet(more)
      PROVE  /\ x.page = p
             /\ x.do \in {"dequeue", "assign", "requeue", "head", "submit", "deferred", "free",
                          "reinsert", "unlock", "clean", "paged"}
             /\ x.do = "assign" => Head(more).do = "dequeue" /\ Head(more).page = p
             /\ x.do \in {"submit", "head"} =>
                  x.queue = q \/ \E z \in ToSet(more) : z.do = "assign" /\ z.page = p
             /\ x.do = "free" => (Head(more).do = "deferred" /\ Head(more).page = p) \/ q = "none"
             /\ x.do = "paged" => \A z \in ToSet(more) : z.do # "free"
  <2>1. CASE x = u
    BY <1>1, <2>1
  <2>2. CASE x \in ToSet(s)
    <3>1. Head(more) = Head(s)
      BY <1>5, <2>2
    <3> QED
      BY <1>2, <1>4, <2>2, <3>1 DEF Op
  <2> QED
    BY <1>4, <2>1, <2>2
<1>7. \A x \in ToSet(more) : x.do \notin {"free", "reinsert", "clean", "paged"}
  BY <1>1, <1>2, <1>4
<1>8. Doing(more, p, q)
  BY <1>4, <1>6 DEF Doing
<1> QED
  BY <1>a, <1>b, <1>7, <1>8, Zenon

LEMMA NoOp ==
  ASSUME NEW p, NEW q
  PROVE  Op(<<>>, p, q)
<1>1. ToSet(<<>>) = {} /\ <<>> \in Seq(InstrType) /\ Shape(<<>>)
  BY DEF ToSet, Shape
<1> QED
  BY <1>1 DEF Op

LEMMA RequeueOp ==
  ASSUME Inv, NEW p \in Page, queue[p] # "none"
  PROVE  Op(Requeue(p), p, queue[p])
<1>a. PICK q : q = queue[p]
  OBVIOUS
<1>b. PICK x, y : x = Instr("requeue", p, q) /\ y = Instr("submit", p, q)
  OBVIOUS
<1>1. q \in Queue
  BY <1>a DEF Inv, Typed, Stored
<1>2. /\ x \in InstrType /\ x.do = "requeue" /\ x.page = p
      /\ y \in InstrType /\ y.do = "submit" /\ y.page = p /\ y.queue = q
  BY <1>b, <1>1 DEF Instr, InstrType, OnPage, OnQueue, Guarded
<1>3. Follows(x, y)
  BY <1>2 DEF Follows, First, Batched, Locking
<1>4. Requeue(p) = <<x, y>>
  BY <1>a, <1>b DEF Requeue
<1>c. PICK s : s = <<x, y>>
  OBVIOUS
<1>5. s \in Seq(InstrType) /\ ToSet(s) = {x, y} /\ Shape(s)
  BY <1>c, <1>2, <1>3, Two
<1>6. Op(s, p, q)
  BY <1>2, <1>5 DEF Op
<1> QED
  BY <1>a, <1>c, <1>4, <1>6

LEMMA DequeueOp ==
  ASSUME NEW p \in Page, NEW q
  PROVE  Op(Dequeue(p), p, q) /\ Op(DequeueDeferred(p), p, q)
<1>1. ASSUME NEW x \in InstrType, x.do \in {"dequeue", "deferred"}, x.page = p
      PROVE  Op(<<x>>, p, q)
  <2>1. <<x>> \in Seq(InstrType) /\ ToSet(<<x>>) = {x} /\ Shape(<<x>>)
    BY One
  <2> QED
    BY <1>1, <2>1 DEF Op
<1>b. PICK x, y : x = Instr("dequeue", p, "none") /\ y = Instr("deferred", p, "none")
  OBVIOUS
<1>2. /\ x \in InstrType /\ x.do = "dequeue" /\ x.page = p
      /\ y \in InstrType /\ y.do = "deferred" /\ y.page = p
  BY <1>b DEF Instr, InstrType, OnPage, OnQueue, Guarded, Batched, Locking
<1>3. Dequeue(p) = <<x>> /\ DequeueDeferred(p) = <<y>>
  BY <1>b DEF Dequeue, DequeueDeferred
<1> QED
  BY <1>1, <1>2, <1>3

(* Short sequences, put together. *)
LEMMA Joined ==
  ASSUME NEW s \in Seq(InstrType), NEW t \in Seq(InstrType), NEW u \in Seq(InstrType),
         Len(u) = Len(s) + Len(t),
         \A i \in 1..Len(u) : u[i] = IF i <= Len(s) THEN s[i] ELSE t[i - Len(s)]
  PROVE  s \o t = u
<1> DEFINE c == s \o t
<1>1. /\ c \in Seq(InstrType) /\ Len(c) = Len(s) + Len(t)
      /\ \A i \in 1..(Len(s) + Len(t)) : c[i] = IF i <= Len(s) THEN s[i] ELSE t[i - Len(s)]
  BY ConcatProperties
<1> HIDE DEF c
<1>2. \A i \in 1..Len(c) : c[i] = u[i]
  BY <1>1
<1>3. c = u
  BY <1>1, <1>2, SeqEqual
<1> QED
  BY <1>3 DEF c

LEMMA OneAndOne ==
  ASSUME NEW w \in InstrType, NEW x \in InstrType
  PROVE  <<w>> \o <<x>> = <<w, x>>
<1>1. PICK e, k, g : e = <<w>> /\ k = <<x>> /\ g = <<w, x>>
  OBVIOUS
<1>2. e \in Seq(InstrType) /\ Len(e) = 1 /\ e[1] = w
  BY <1>1
<1>3. k \in Seq(InstrType) /\ Len(k) = 1 /\ k[1] = x
  BY <1>1
<1>4. g \in Seq(InstrType) /\ Len(g) = 2 /\ g[1] = w /\ g[2] = x
  BY <1>1
<1>5. Len(g) = Len(e) + Len(k)
  BY <1>2, <1>3, <1>4
<1>6. \A i \in 1..Len(g) : g[i] = IF i <= Len(e) THEN e[i] ELSE k[i - Len(e)]
  BY <1>2, <1>3, <1>4
<1>7. e \o k = g
  BY <1>2, <1>3, <1>4, <1>5, <1>6, Joined, Zenon
<1> QED
  BY <1>1, <1>7, Zenon

LEMMA OneAndThree ==
  ASSUME NEW w \in InstrType, NEW x \in InstrType, NEW y \in InstrType, NEW z \in InstrType
  PROVE  <<w>> \o <<x, y, z>> = <<w, x, y, z>>
<1>1. PICK e, k, g : e = <<w>> /\ k = <<x, y, z>> /\ g = <<w, x, y, z>>
  OBVIOUS
<1>2. e \in Seq(InstrType) /\ Len(e) = 1 /\ e[1] = w
  BY <1>1
<1>3. k \in Seq(InstrType) /\ Len(k) = 3 /\ k[1] = x /\ k[2] = y /\ k[3] = z
  BY <1>1
<1>4. g \in Seq(InstrType) /\ Len(g) = 4 /\ g[1] = w /\ g[2] = x /\ g[3] = y /\ g[4] = z
  BY <1>1
<1>5. Len(g) = Len(e) + Len(k)
  BY <1>2, <1>3, <1>4
<1>6. \A i \in 1..Len(g) : g[i] = IF i <= Len(e) THEN e[i] ELSE k[i - Len(e)]
  BY <1>2, <1>3, <1>4
<1>7. e \o k = g
  BY <1>2, <1>3, <1>4, <1>5, <1>6, Joined, Zenon
<1> QED
  BY <1>1, <1>7, Zenon

LEMMA TwoAndTwo ==
  ASSUME NEW w \in InstrType, NEW x \in InstrType, NEW y \in InstrType, NEW z \in InstrType
  PROVE  <<w, x>> \o <<y, z>> = <<w, x, y, z>>
<1>1. PICK e, k, g : e = <<w, x>> /\ k = <<y, z>> /\ g = <<w, x, y, z>>
  OBVIOUS
<1>2. e \in Seq(InstrType) /\ Len(e) = 2 /\ e[1] = w /\ e[2] = x
  BY <1>1
<1>3. k \in Seq(InstrType) /\ Len(k) = 2 /\ k[1] = y /\ k[2] = z
  BY <1>1
<1>4. g \in Seq(InstrType) /\ Len(g) = 4 /\ g[1] = w /\ g[2] = x /\ g[3] = y /\ g[4] = z
  BY <1>1
<1>5. Len(g) = Len(e) + Len(k)
  BY <1>2, <1>3, <1>4
<1>6. \A i \in 1..Len(g) : g[i] = IF i <= Len(e) THEN e[i] ELSE k[i - Len(e)]
  BY <1>2, <1>3, <1>4
<1>7. e \o k = g
  BY <1>2, <1>3, <1>4, <1>5, <1>6, Joined, Zenon
<1> QED
  BY <1>1, <1>7, Zenon

(* A page is freed, once it belongs nowhere. *)
LEMMA FreeDoing ==
  ASSUME NEW p \in Page, NEW q
  PROVE  /\ Doing(Append(Free(p), Instr("unlock", p, "none")), p, q)
         /\ \A x \in ToSet(Append(Free(p), Instr("unlock", p, "none"))) :
              x.do \notin {"reinsert", "clean", "paged"}
         /\ q = "none" => Doing(Append(<<Instr("free", p, "none")>>, Instr("unlock", p, "none")), p, q)
         /\ \A x \in ToSet(Append(<<Instr("free", p, "none")>>, Instr("unlock", p, "none"))) :
              x.do \notin {"reinsert", "clean", "paged"}
<1>b. PICK x, y, u : /\ x = Instr("deferred", p, "none") /\ y = Instr("free", p, "none")
                     /\ u = Instr("unlock", p, "none")
  OBVIOUS
<1>1. /\ x \in InstrType /\ x.do = "deferred" /\ x.page = p
      /\ y \in InstrType /\ y.do = "free" /\ y.page = p
      /\ u \in InstrType /\ u.do = "unlock" /\ u.page = p
  BY <1>b DEF Instr, InstrType, OnPage, OnQueue, Guarded, Batched, Locking
<1>2. Follows(x, y) /\ Follows(x, u) /\ Follows(y, u)
  BY <1>1 DEF Follows, First, Batched, Locking
<1>3. Free(p) = <<x, y>>
  <2>1. Free(p) = <<x>> \o <<y>>
    BY <1>b DEF Free, DequeueDeferred
  <2> QED
    BY <1>1, <2>1, OneAndOne
<1>c. PICK s, t : s = <<x, y>> /\ t = <<y>>
  OBVIOUS
<1>4. s \in Seq(InstrType) /\ ToSet(s) = {x, y} /\ Shape(s) /\ Head(s) = x /\ s # <<>>
  BY <1>c, <1>1, <1>2, Two
<1>5. t \in Seq(InstrType) /\ ToSet(t) = {y} /\ Shape(t) /\ Head(t) = y /\ t # <<>>
  BY <1>c, <1>1, One
<1>d. PICK m, n : m = Append(s, u) /\ n = Append(t, u)
  OBVIOUS
<1>6. /\ m \in Seq(InstrType) /\ m # <<>> /\ ToSet(m) = {x, y, u} /\ Shape(m) /\ Head(m) = x
      /\ n \in Seq(InstrType) /\ n # <<>> /\ ToSet(n) = {y, u} /\ Shape(n)
  <2>1. \A z \in {x, y} : Follows(z, u)
    BY <1>2
  <2>2. /\ m \in Seq(InstrType) /\ m # <<>> /\ ToSet(m) = ToSet(s) \cup {u} /\ Shape(m)
        /\ Head(m) = Head(s)
    BY <1>d, <1>1, <1>4, <2>1, Chain
  <2>3. n \in Seq(InstrType) /\ n # <<>> /\ ToSet(n) = ToSet(t) \cup {u} /\ Shape(n)
    BY <1>d, <1>1, <1>5, <2>1, Chain
  <2> QED
    BY <1>4, <1>5, <2>2, <2>3
<1>7. Doing(m, p, q) /\ \A z \in ToSet(m) : z.do \notin {"reinsert", "clean", "paged"}
  BY <1>1, <1>6 DEF Doing
<1>8. /\ q = "none" => Doing(n, p, q)
      /\ \A z \in ToSet(n) : z.do \notin {"reinsert", "clean", "paged"}
  BY <1>1, <1>6 DEF Doing
<1>9. m = Append(Free(p), Instr("unlock", p, "none"))
      /\ n = Append(<<Instr("free", p, "none")>>, Instr("unlock", p, "none"))
  BY <1>b, <1>c, <1>d, <1>3, Zenon
<1> QED
  BY <1>7, <1>8, <1>9, Zenon

(* A page is taken off its queue and put on another. *)
LEMMA MoveOp ==
  ASSUME NEW p \in Page, NEW q, NEW r \in Queue
  PROVE  /\ Op(Dequeue(p) \o Enqueue(p, r), p, q)
         /\ r = Inactive =>
              Op((Dequeue(p) \o <<Instr("assign", p, "inactive")>>)
                   \o <<Instr("head", p, "inactive"), Instr("submit", p, "inactive")>>, p, q)
<1>1. ASSUME NEW w \in InstrType, NEW x \in InstrType, NEW y \in InstrType, NEW z \in InstrType,
             w.do = "dequeue", x.do = "assign", y.do \in {"requeue", "head"}, z.do = "submit",
             x.queue = r, y.queue = r, z.queue = r,
             w.page = p, x.page = p, y.page = p, z.page = p
      PROVE  Op(<<w, x, y, z>>, p, q)
  <2>1. /\ Follows(w, x) /\ Follows(w, y) /\ Follows(w, z)
        /\ Follows(x, y) /\ Follows(x, z) /\ Follows(y, z)
    BY <1>1 DEF Follows, First, Batched, Locking
  <2>c. PICK s : s = <<w, x, y, z>>
    OBVIOUS
  <2>2. s \in Seq(InstrType) /\ ToSet(s) = {w, x, y, z} /\ Shape(s) /\ Head(s) = w
    BY <2>1, <2>c, Four
  <2>3. Op(s, p, q)
    BY <1>1, <2>2 DEF Op
  <2> QED
    BY <2>c, <2>3
<1>b. PICK w, x, y, z, v : /\ w = Instr("dequeue", p, "none") /\ x = Instr("assign", p, r)
                           /\ y = Instr("requeue", p, r) /\ z = Instr("submit", p, r)
                           /\ v = Instr("head", p, r)
  OBVIOUS
<1>2. /\ w \in InstrType /\ x \in InstrType /\ y \in InstrType /\ z \in InstrType
      /\ w.do = "dequeue" /\ x.do = "assign" /\ y.do = "requeue" /\ z.do = "submit"
      /\ x.queue = r /\ y.queue = r /\ z.queue = r
      /\ w.page = p /\ x.page = p /\ y.page = p /\ z.page = p
      /\ v.do = "head" /\ v.page = p /\ v.queue = r /\ (r = Inactive => v \in InstrType)
  BY <1>b DEF Instr, InstrType, OnPage, OnQueue, Guarded, Batched, Locking
<1>3. Dequeue(p) \o Enqueue(p, r) = <<w, x, y, z>>
  <2>1. Dequeue(p) \o Enqueue(p, r) = <<w>> \o <<x, y, z>>
    BY <1>b DEF Dequeue, Enqueue
  <2>2. w \in InstrType /\ x \in InstrType /\ y \in InstrType /\ z \in InstrType
    BY <1>2
  <2>3. <<w>> \o <<x, y, z>> = <<w, x, y, z>>
    BY <2>2, OneAndThree, Zenon
  <2> QED
    BY <2>1, <2>3, Zenon
<1>4. r = Inactive =>
        (Dequeue(p) \o <<Instr("assign", p, "inactive")>>)
          \o <<Instr("head", p, "inactive"), Instr("submit", p, "inactive")>> = <<w, x, v, z>>
  <2>1. r = Inactive =>
          (Dequeue(p) \o <<Instr("assign", p, "inactive")>>)
            \o <<Instr("head", p, "inactive"), Instr("submit", p, "inactive")>>
          = (<<w>> \o <<x>>) \o <<v, z>>
    BY <1>b DEF Dequeue, Inactive
  <2>2. w \in InstrType /\ x \in InstrType /\ z \in InstrType /\ (r = Inactive => v \in InstrType)
    BY <1>2
  <2>3. <<w>> \o <<x>> = <<w, x>>
    BY <2>2, OneAndOne
  <2>4. r = Inactive => <<w, x>> \o <<v, z>> = <<w, x, v, z>>
    BY <2>2, TwoAndTwo, Zenon
  <2> QED
    BY <2>1, <2>3, <2>4
<1>5. Op(<<w, x, y, z>>, p, q)
  BY <1>1, <1>2
<1>6. r = Inactive => Op(<<w, x, v, z>>, p, q)
  BY <1>1, <1>2
<1> QED
  BY <1>3, <1>4, <1>5, <1>6

(* What the operations come to. *)
LEMMA Ops ==
  ASSUME Inv, NEW p \in Page
  PROVE  /\ Op(Activate(p), p, queue[p]) /\ Op(Deactivate(p), p, queue[p])
         /\ Op(DeactivateNoreuse(p), p, queue[p])
         /\ Launders => Op(Launder(p), p, queue[p])
         /\ \A q \in Queue \cup {"none"} : Op(Unwire(p, q), p, queue[p])
         /\ Op(DequeueDeferred(p), p, queue[p])
         /\ Op(<<>>, p, queue[p]) /\ (Logical(p) # "none" => Op(Requeue(p), p, queue[p]))
<1>1. /\ "active" \in Queue /\ "inactive" \in Queue /\ "none" \notin Queue
      /\ Launders => "laundry" \in Queue
  BY DEF Queue
<1>2. Logical(p) # "none" => Logical(p) = queue[p] /\ queue[p] # "none"
  BY DEF Logical
<1>3. /\ Op(<<>>, p, queue[p]) /\ (Logical(p) # "none" => Op(Requeue(p), p, queue[p]))
      /\ Op(DequeueDeferred(p), p, queue[p])
      /\ Op(Dequeue(p), p, queue[p]) /\ \A r \in Queue : Op(Dequeue(p) \o Enqueue(p, r), p, queue[p])
  BY <1>2, NoOp, RequeueOp, DequeueOp, MoveOp
<1>4. Op(Activate(p), p, queue[p]) /\ Op(Deactivate(p), p, queue[p])
  BY <1>1, <1>3 DEF Activate, Deactivate, Inactive
<1>5. Launders => Op(Launder(p), p, queue[p])
  BY <1>1, <1>3 DEF Launder
<1>6. \A q \in Queue \cup {"none"} : Op(Unwire(p, q), p, queue[p])
  <2> TAKE q \in Queue \cup {"none"}
  <2>1. Dequeue(p) \o <<>> = Dequeue(p)
    BY DEF Dequeue
  <2> QED
    BY <1>1, <1>3, <2>1 DEF Unwire
<1>7. Op(DeactivateNoreuse(p), p, queue[p])
  <2>1. CASE page[p] # "wired" /\ Logical(p) = "inactive"
    <3>b. PICK x, y : x = Instr("head", p, "inactive") /\ y = Instr("submit", p, "inactive")
      OBVIOUS
    <3>1. /\ x \in InstrType /\ x.do = "head" /\ x.page = p /\ x.queue = Inactive
          /\ y \in InstrType /\ y.do = "submit" /\ y.page = p /\ y.queue = Inactive
      BY <1>1, <3>b DEF Instr, InstrType, OnPage, OnQueue, Guarded, Inactive
    <3>2. Follows(x, y)
      BY <3>1 DEF Follows, First, Batched, Locking
    <3>3. DeactivateNoreuse(p) = <<x, y>>
      BY <2>1, <3>b DEF DeactivateNoreuse, Inactive
    <3>c. PICK s : s = <<x, y>>
      OBVIOUS
    <3>4. s \in Seq(InstrType) /\ ToSet(s) = {x, y} /\ Shape(s)
      BY <3>c, <3>1, <3>2, Two
    <3>5. Op(s, p, Inactive)
      BY <3>1, <3>4 DEF Op
    <3> QED
      BY <1>1, <1>2, <2>1, <3>c, <3>3, <3>5 DEF Inactive
  <2>2. CASE page[p] # "wired" /\ Logical(p) # "inactive"
    BY <1>1, <2>2, MoveOp DEF DeactivateNoreuse, Inactive
  <2>3. CASE page[p] = "wired"
    BY <1>3, <2>3 DEF DeactivateNoreuse
  <2> QED
    BY <2>1, <2>2, <2>3
<1> QED
  BY <1>3, <1>4, <1>5, <1>6, <1>7

(* A step that changes where no page belongs. *)
LEMMA StaysPut ==
  ASSUME Inv, NEW a \in Actor, UNCHANGED <<queue, flags, list, cnt>>,
         scan'.on = scan.on, scan'.queue = scan.queue
  PROVE  Listed' /\ \A o \in Page : Writes(a, o) /\ queue'[o] \in {queue[o], "none"}
<1>1. Listed'
  BY ListedSame DEF Filed
<1> QED
  BY <1>1 DEF Writes

LEMMA BeginKeeps ==
  ASSUME Inv, NEW t \in Thread, NEW p \in Page, Begin(t, p)
  PROVE  Inv'
<1>a. PICK u : u = Instr("unlock", p, "none")
  OBVIOUS
<1>0. t \in Actor /\ t # Daemon
  BY QueuesAssumption DEF Actor
<1>1. /\ code[t] = <<>> /\ plock[p] = Nobody /\ page[p] \in {"used", "wired", "dead"}
      /\ plock' = [plock EXCEPT ![p] = t] /\ qlock' = qlock /\ scan' = scan
      /\ UNCHANGED <<queue, flags, list, cnt, batch>>
  BY DEF Begin
<1>2. PICK more :
        /\ code' = [code EXCEPT ![t] = more]
        /\ Doing(more, p, queue[p])
        /\ \A x \in ToSet(more) : x.do \notin {"reinsert", "clean", "paged"}
        /\ (\E x \in ToSet(more) : x.do = "free") => ~ Writing(p)
        /\ \/ page' = page
           \/ page' = [page EXCEPT ![p] = "wired"]
           \/ page' = [page EXCEPT ![p] = "used"]
  <2>1. CASE /\ UNCHANGED page
             /\ \E op \in Advise(p) \cup {Deactivate(p)} : code' = [code EXCEPT ![t] = Append(op, u)]
    <3>1. PICK op \in Advise(p) \cup {Deactivate(p)} : code' = [code EXCEPT ![t] = Append(op, u)]
      BY <2>1
    <3>2. op \in {Activate(p), DeactivateNoreuse(p), Deactivate(p)} \/ (Launders /\ op = Launder(p))
      BY <3>1 DEF Advise
    <3>3. Op(op, p, queue[p])
      BY <3>2, Ops
    <3> QED
      BY <1>a, <2>1, <3>1, <3>3, OpDoing, ZenonT(60)
  <2>2. CASE /\ page' = [page EXCEPT ![p] = "wired"] /\ code' = [code EXCEPT ![t] = <<u>>]
    <3>1. <<u>> = Append(<<>>, u) /\ Op(<<>>, p, queue[p])
      BY Ops
    <3> QED
      BY <1>a, <2>2, <3>1, OpDoing
  <2>3. CASE /\ page' = [page EXCEPT ![p] = "used"]
             /\ \E q \in Queue \cup {"none"} : code' = [code EXCEPT ![t] = Append(Unwire(p, q), u)]
    <3>1. PICK q \in Queue \cup {"none"} : code' = [code EXCEPT ![t] = Append(Unwire(p, q), u)]
      BY <2>3
    <3>2. PICK op : op = Unwire(p, q)
      OBVIOUS
    <3>3. Op(op, p, queue[p])
      BY <3>2, Ops
    <3> QED
      BY <1>a, <2>3, <3>1, <3>2, <3>3, OpDoing, ZenonT(60)
  <2>4. CASE /\ ~ Writing(p) /\ UNCHANGED page /\ code' = [code EXCEPT ![t] = Append(Free(p), u)]
    BY <1>a, <2>4, FreeDoing
  <2>5. CASE /\ UNCHANGED page
             /\ \E op \in {Activate(p), DeactivateNoreuse(p)} : code' = [code EXCEPT ![t] = Append(op, u)]
    BY <2>1, <2>5 DEF Advise
  <2> QED
    BY <1>a, <2>1, <2>2, <2>3, <2>4, <2>5 DEF Begin
<1>3. more \in Seq(InstrType)
  BY <1>2 DEF Doing
<1>4. GoesOn(t, more)
  <2>1. Rest(t) = <<>> /\ more \o <<>> = more
    BY <1>1, <1>3, ConcatEmptySeq DEF Rest
  <2> QED
    BY <1>2, <2>1 DEF GoesOn
<1>5. page' \in [Page -> {"free", "taking", "used", "wired", "dead"}] /\ page'[p] \in {"used", "wired", "dead"}
      /\ \A o \in Page : Turns(t, o)
  <2>1. page \in [Page -> {"free", "taking", "used", "wired", "dead"}]
    BY DEF Inv, Typed, Stored
  <2> QED
    BY <1>1, <1>2, <2>1 DEF Turns
<1>6. Stored'
  BY <1>0, <1>1, <1>5 DEF Inv, Typed, Stored
<1>7. Listed' /\ \A o \in Page : Writes(t, o) /\ queue'[o] \in {queue[o], "none"}
  BY <1>0, <1>1, StaysPut
<1>8. \A x \in ToSet(more) : x.do = "free" => \A y \in Todo(Daemon) : ~ (y.do = "paged" /\ y.page = p)
  <2> SUFFICES ASSUME ~ Writing(p), NEW y \in Todo(Daemon), y.do = "paged", y.page = p
               PROVE  FALSE
    BY <1>2
  <2>1. Daemon \in Actor
    BY DEF Actor
  <2>2. y \in InstrType
    BY <2>1, Basics
  <2>3. y = Instr("paged", p, "none")
    BY <2>2 DEF InstrType, Instr
  <2>4. \E i \in DOMAIN code[Daemon] : code[Daemon][i] = y
    BY DEF Todo, ToSet
  <2> QED
    BY <2>3, <2>4 DEF Writing
<1>9. Doing(more, p, queue'[p])
  BY <1>1, <1>2
<1> QED
  BY <1>0, <1>1, <1>2, <1>4, <1>5, <1>6, <1>7, <1>8, <1>9, TakenUp, ZenonT(60)

LEMMA AllocKeeps ==
  ASSUME Inv, NEW t \in Thread, NEW p \in Page, Alloc(t, p)
  PROVE  Inv'
<1>a. PICK x, y : x = Instr("dequeue", p, "none") /\ y = Instr("use", p, "none")
  OBVIOUS
<1>b. PICK more : more = <<x, y>>
  OBVIOUS
<1>0. t \in Actor /\ t # Daemon
  BY QueuesAssumption DEF Actor
<1>1. /\ x \in InstrType /\ x.do = "dequeue" /\ x.page = p
      /\ y \in InstrType /\ y.do = "use" /\ y.page = p
  BY <1>a DEF Instr, InstrType, OnPage, OnQueue, Guarded, Batched, Locking
<1>2. more \in Seq(InstrType) /\ more # <<>> /\ ToSet(more) = {x, y} /\ Shape(more)
  <2>1. Follows(x, y)
    BY <1>1 DEF Follows, First, Batched, Locking
  <2> QED
    BY <1>b, <1>1, <2>1, Two
<1>3. /\ code[t] = <<>> /\ page[p] = "free" /\ page' = [page EXCEPT ![p] = "taking"]
      /\ code' = [code EXCEPT ![t] = more]
      /\ UNCHANGED <<queue, flags, list, cnt, batch, plock, qlock, scan>>
  <2>1. more = Append(Dequeue(p), y)
    <3>1. Append(<<x>>, y) = <<x, y>>
      <4>1. <<x>> \in Seq(InstrType) /\ <<x>> \o <<y>> = <<x, y>>
        BY <1>1, One, OneAndOne
      <4> QED
        BY <1>1, <4>1, AppendIsConcat
    <3> QED
      BY <1>a, <1>b, <3>1 DEF Dequeue
  <2> QED
    BY <1>a, <2>1 DEF Alloc
<1>4. GoesOn(t, more)
  <2>1. Rest(t) = <<>> /\ more \o <<>> = more
    BY <1>2, <1>3, ConcatEmptySeq DEF Rest
  <2> QED
    BY <1>3, <2>1 DEF GoesOn
<1>5. ToSet(Rest(t)) = {}
  BY <1>0, <1>3, Rests
<1>6. /\ Todo(t)' = {x, y} /\ \A b \in Actor \ {t} : Todo(b)' = Todo(b)
  BY <1>0, <1>2, <1>4, <1>5, Going
<1>7. page'[p] = "taking" /\ page' \in [Page -> {"free", "taking", "used", "wired", "dead"}]
      /\ \A o \in Page \ {p} : page'[o] = page[o]
  BY <1>3 DEF Inv, Typed, Stored
<1>8. Listed' /\ \A o \in Page : Writes(t, o)
  BY <1>0, <1>3, StaysPut
<1>9. Moves(t) /\ Prepares(t) /\ Stored'
  BY <1>3, <1>7, <1>8 DEF Moves, Turns, Prepares, Inv, Typed, Stored
<1>10. \A z \in ToSet(more) : Sound(t, z)'
  <2>1. Takes(t, p)'
    BY <1>1, <1>6 DEF Takes
  <2> QED
    BY <1>1, <1>2, <1>7, <2>1 DEF Sound, Holds, Serves, Placed, Batched, Locking, Guarded
<1>11. ASSUME NEW z \in ToSet(more), NEW b \in Actor, NEW w \in Todo(b)'
       PROVE  Match(t, z, b, w)' /\ Match(b, w, t, z)'
  <2>1. z.do \in {"dequeue", "use"} /\ z.page = p
    BY <1>1, <1>2
  <2>2. w.do = "use" /\ w.page = p => b = t
    <3>1. ASSUME b # t
          PROVE  ~ (w.do = "use" /\ w.page = p)
      <4>1. w \in Todo(b)
        BY <1>6, <3>1
      <4>2. w.do = "use" => page[w.page] = "taking"
        BY <4>1, Basics DEF Sound, Serves
      <4> QED
        BY <1>3, <4>2
    <3> QED
      BY <3>1
  <2> QED
    BY <2>1, <2>2 DEF Match
<1> QED
  BY <1>0, <1>2, <1>3, <1>4, <1>5, <1>8, <1>9, <1>10, <1>11, Stepped

(* vm_pqbatch_process_page, when its assertion holds. *)
LEMMA ApplyKeeps ==
  ASSUME Inv, NEW a \in Actor, Apply(a)
  PROVE  Inv'
<1>a. PICK h : h = Next1(a)
  OBVIOUS
<1>b. PICK p, q : p = h.page /\ q = h.queue
  OBVIOUS
<1>c. PICK x, z : x = Instr("clear", p, q) /\ z = Instr("settle", p, q)
  OBVIOUS
<1>1. /\ code[a] # <<>> /\ h.do = "apply"
      /\ \/ Continue(a, <<>>) /\ UNCHANGED <<queue, flags, list, cnt>>
         \/ /\ queue[p] = q /\ "dequeue" \in flags[p]
            /\ Detach(p, q) /\ Continue(a, <<x>>) /\ UNCHANGED flags
         \/ /\ queue[p] = q
            /\ list' = [Without(q, p) EXCEPT ![q] =
                 IF "head" \in flags[p] THEN Before(@, Inacthead, p) ELSE Append(@, p)]
            /\ cnt' = [cnt EXCEPT ![q] = IF "enqueued" \in flags[p] THEN @ ELSE @ + 1]
            /\ flags' = [flags EXCEPT ![p] = @ \cup {"enqueued"}]
            /\ Continue(a, <<z>>) /\ UNCHANGED queue
      /\ UNCHANGED <<batch, plock, qlock, page, scan>>
  BY <1>a, <1>b, <1>c DEF Apply, Asserted, Does
<1>2. p \in Page /\ q \in Queue /\ Sound(a, h)
  BY <1>a, <1>b, <1>1, NextIs DEF OnPage, Batched, OnQueue
<1>3. qlock[q] = a
  BY <1>b, <1>1, <1>2 DEF Sound, Holds, Batched
<1>4. /\ x \in InstrType /\ x.do = "clear" /\ x.page = p /\ x.queue = q
      /\ z \in InstrType /\ z.do = "settle" /\ z.page = p /\ z.queue = q
  BY <1>2, <1>c DEF Instr, InstrType, OnPage, OnQueue, Batched
<1>5. /\ \A y \in ToSet(Rest(a)) : Follows(h, y)
      /\ Todo(a) = {h} \cup ToSet(Rest(a))
  BY <1>a, <1>1, Rests
<1>6. \A y \in ToSet(Rest(a)) : Follows(x, y) /\ Follows(z, y)
  BY <1>1, <1>4, <1>5 DEF Follows, Batched
<1>7. Prepares(a)
  BY <1>a, <1>1 DEF Prepares, Batched
<1>8. CASE Continue(a, <<>>) /\ UNCHANGED <<queue, flags, list, cnt>>
  <2>1. Listed' /\ \A o \in Page : Writes(a, o)
    BY <1>1, <1>8, StaysPut
  <2>2. Moves(a) /\ Stored'
    BY <1>1, <1>8, <2>1 DEF Moves, Turns, Inv, Typed, Stored
  <2> QED
    BY <1>1, <1>7, <1>8, <2>1, <2>2, Drops
<1>9. CASE /\ queue[p] = q /\ "dequeue" \in flags[p]
           /\ Detach(p, q) /\ Continue(a, <<x>>) /\ UNCHANGED flags
  <2>a. PICK more : more = <<x>>
    OBVIOUS
  <2>1. more \in Seq(InstrType) /\ ToSet(more) = {x} /\ Shape(more)
    BY <1>4, <2>a, One
  <2>2. GoesOn(a, more)
    BY <1>1, <1>9, <2>a, Continues
  <2>3. /\ Detached(a, p) /\ \A o \in Page \ {p} : queue'[o] = queue[o]
        /\ Listed' /\ cnt' \in [Queue -> Nat]
        /\ list' \in [Queue -> Seq(Page \cup {Marker, Inacthead})]
        /\ queue' \in [Page -> Queue \cup {"none"}]
    BY <1>1, <1>2, <1>3, <1>9, DetachIs
  <2>4. Moves(a)
    BY <1>1, <1>9, <2>3 DEF Moves, Turns, Writes
  <2>5. Stored'
    BY <1>1, <1>9, <2>3 DEF Inv, Typed, Stored
  <2>6. queue'[p] = "none" /\ "dequeue" \in flags'[p]
    BY <1>9, <2>3 DEF Detached
  <2>7. Sound(a, x)'
    BY <1>1, <1>3, <1>4, <2>6 DEF Sound, Holds, Serves, Placed, Batched, Locking, Guarded
  <2>8. /\ Todo(a)' = {x} \cup ToSet(Rest(a)) /\ \A b \in Actor \ {a} : Todo(b)' = Todo(b)
    BY <1>6, <2>1, <2>2, Going
  <2>9. ASSUME NEW b \in Actor, NEW y \in Todo(b)'
        PROVE  Match(a, x, b, y)' /\ Match(b, y, a, x)'
    <3>0. "none" \notin Queue
      BY DEF Queue
    <3>1. (y = x /\ b = a) \/ y \in Todo(b)
      BY <1>5, <2>8
    <3>2. ASSUME y \in Todo(b), y.page = p
          PROVE  y.do \notin {"clear", "clear unlock"}
      <4>1. y.do \in {"clear", "clear unlock"} => queue[p] = "none"
        BY <3>2, Basics DEF Sound, Placed
      <4> QED
        BY <1>2, <1>9, <3>0, <4>1
    <3>3. ASSUME y \in Todo(b), y.page = p, y.do \in {"submit", "finish"}
          PROVE  y.queue = q \/ Assigns(b, p)'
      <4>1. queue[p] \in {y.queue, "none"} \/ Assigns(b, p)
        BY <3>3, Basics DEF Sound, Placed
      <4>2. CASE Assigns(b, p)
        <5>1. PICK w \in Todo(b) : w.do = "assign" /\ w.page = p
          BY <4>2 DEF Assigns
        <5>2. w \in Todo(b)'
          BY <1>1, <1>5, <2>8, <5>1
        <5> QED
          BY <5>1, <5>2 DEF Assigns
      <4> QED
        BY <1>2, <1>9, <3>0, <4>1, <4>2
    <3>4. Match(a, x, b, y)'
      BY <1>4, <3>1, <3>2, <3>3 DEF Match
    <3>5. Match(b, y, a, x)'
      BY <1>4, <3>1, <3>2 DEF Match
    <3> QED
      BY <3>4, <3>5
  <2>10. Scanning(x)
    BY <1>4 DEF Scanning, OfScan
  <2>11. /\ \A y \in ToSet(more), w \in ToSet(Rest(a)) : Follows(y, w)
         /\ \A y \in ToSet(more) : Sound(a, y)'
         /\ \A y \in ToSet(more), b \in Actor : \A w \in Todo(b)' :
              Match(a, y, b, w)' /\ Match(b, w, a, y)'
         /\ \A y \in ToSet(more) : Scanning(y)
    BY <1>6, <2>1, <2>7, <2>9, <2>10
  <2>12. scan'.on = scan.on /\ scan'.queue = scan.queue
    BY <1>1
  <2> QED
    BY <1>7, <2>1, <2>2, <2>3, <2>4, <2>5, <2>11, <2>12, Stepped
<1>10. CASE /\ queue[p] = q
            /\ list' = [Without(q, p) EXCEPT ![q] =
                 IF "head" \in flags[p] THEN Before(@, Inacthead, p) ELSE Append(@, p)]
            /\ cnt' = [cnt EXCEPT ![q] = IF "enqueued" \in flags[p] THEN @ ELSE @ + 1]
            /\ flags' = [flags EXCEPT ![p] = @ \cup {"enqueued"}]
            /\ Continue(a, <<z>>) /\ UNCHANGED queue
  <2>a. PICK more : more = <<z>>
    OBVIOUS
  <2>b. PICK s : s = Less(list[q], p)
    OBVIOUS
  <2>c. PICK l : l = IF "head" \in flags[p] THEN Before(s, Inacthead, p) ELSE Append(s, p)
    OBVIOUS
  <2>d. PICK S : S = Page \cup {Marker, Inacthead}
    OBVIOUS
  <2>1. more \in Seq(InstrType) /\ ToSet(more) = {z} /\ Shape(more)
    BY <1>4, <2>a, One
  <2>2. GoesOn(a, more)
    BY <1>1, <1>10, <2>a, Continues
  <2>3. /\ list \in [Queue -> Seq(S)] /\ list[q] \in Seq(S) /\ IsInjective(list[q])
        /\ Inacthead \in ToSet(list[q]) <=> q = Inactive
    <3>1. list \in [Queue -> Seq(S)]
      BY <2>d DEF Inv, Typed, Stored
    <3> QED
      BY <1>2, <3>1 DEF Inv, Listed
  <2>4. "head" \in flags[p] => q = Inactive
    <3>1. "none" \notin Queue
      BY DEF Queue
    <3> QED
      BY <1>2, <1>10, <3>1 DEF Inv, Headed
  <2>5. p \in S /\ p # Inacthead
    BY <1>2, <2>d, QueuesAssumption
  <2>6. s \in Seq(S) /\ ToSet(s) = ToSet(list[q]) \ {p} /\ IsInjective(s)
    BY <2>3, <2>b, LessIs
  <2>7. l \in Seq(S) /\ ToSet(l) = ToSet(list[q]) \cup {p} /\ IsInjective(l)
    <3>1. CASE "head" \in flags[p]
      <4>1. Inacthead \in ToSet(s)
        BY <2>3, <2>4, <2>5, <2>6, <3>1
      <4>2. /\ Before(s, Inacthead, p) \in Seq(S) /\ ToSet(Before(s, Inacthead, p)) = ToSet(s) \cup {p}
            /\ IsInjective(Before(s, Inacthead, p))
        BY <2>5, <2>6, <4>1, BeforeIs
      <4> QED
        BY <2>c, <2>6, <3>1, <4>2
    <3>2. CASE "head" \notin flags[p]
      <4>1. Append(s, p) \in Seq(S) /\ ToSet(Append(s, p)) = ToSet(s) \cup {p} /\ IsInjective(Append(s, p))
        BY <2>5, <2>6, Added
      <4> QED
        BY <2>c, <2>6, <3>2, <4>1
    <3> QED
      BY <3>1, <3>2
  <2>8. list' = [list EXCEPT ![q] = l]
    <3>1. Without(q, p) = [list EXCEPT ![q] = s]
      BY <2>b DEF Without
    <3> QED
      BY <1>2, <1>10, <2>c, <2>3, <3>1
  <2>9. /\ flags' \in [Page -> SUBSET Flag] /\ flags'[p] = flags[p] \cup {"enqueued"}
        /\ \A o \in Page \ {p} : flags'[o] = flags[o]
    <3>1. flags \in [Page -> SUBSET Flag] /\ "enqueued" \in Flag
      BY DEF Inv, Typed, Stored, Flag
    <3> QED
      BY <1>2, <1>10, <3>1
  <2>10. \A o \in Page, r \in Queue : Filed(o, r)' <=> (Filed(o, r) \/ (o = p /\ r = q))
    BY <1>10, <2>9 DEF Filed
  <2>11. Listed' /\ cnt' \in [Queue -> Nat] /\ list' \in [Queue -> Seq(Page \cup {Marker, Inacthead})]
    <3>1. /\ queue[p] = q /\ scan'.on = scan.on /\ scan'.queue = scan.queue
          /\ cnt' = [cnt EXCEPT ![q] = IF "enqueued" \in flags[p] THEN @ ELSE @ + 1]
      BY <1>1, <1>10
    <3>2. l \in Seq(Page \cup {Marker, Inacthead})
      BY <2>d, <2>7
    <3>3. IsInjective(l) /\ ToSet(l) = ToSet(list[q]) \cup {p}
      BY <2>7
    <3> QED
      BY <1>2, <2>8, <2>10, <3>1, <3>2, <3>3, Joins
  <2>12. Filing(a, p)
    BY <1>2, <1>3, <1>10, <2>9 DEF Filing
  <2>13. Moves(a)
    BY <1>1, <1>10, <2>9, <2>12 DEF Moves, Turns, Writes
  <2>14. Stored'
    BY <1>1, <1>10, <2>9, <2>11 DEF Inv, Typed, Stored
  <2>15. Sound(a, z)'
    BY <1>1, <1>3, <1>4, <1>10, <2>9 DEF Sound, Holds, Serves, Placed, Batched, Locking, Guarded
  <2>16. \A b \in Actor : \A y \in Todo(b)' : Match(a, z, b, y)' /\ Match(b, y, a, z)'
    BY <1>4 DEF Match
  <2>17. Scanning(z)
    BY <1>4 DEF Scanning, OfScan
  <2> QED
    BY <1>1, <1>6, <1>7, <2>1, <2>2, <2>11, <2>13, <2>14, <2>15, <2>16, <2>17, Stepped
<1> QED
  BY <1>1, <1>8, <1>9, <1>10


(***************************************************************************)
(* The steps of a scan                                                     *)
(***************************************************************************)
LEMMA DaemonActs ==
  /\ Daemon \in Actor /\ Daemon # Nobody /\ Daemon \notin Thread
  /\ Inactive \in Queue /\ "active" \in Queue /\ "none" \notin Queue
  /\ \A p \in Page : p # "none" /\ p # Marker /\ p # Inacthead
  /\ Marker # Inacthead
BY QueuesAssumption DEF Actor, Queue, Inactive, Marker, Inacthead

(* Only the marker comes or goes. *)
LEMMA ListedMarker ==
  ASSUME Inv, NEW q \in Queue, NEW l \in Seq(Page \cup {Marker, Inacthead}),
         list' = [list EXCEPT ![q] = l], UNCHANGED <<queue, flags, cnt>>, IsInjective(l),
         \A e \in Page \cup {Inacthead} : e \in ToSet(l) <=> e \in ToSet(list[q]),
         Marker \in ToSet(l) <=> scan'.on /\ q = scan'.queue,
         \A r \in Queue \ {q} : ~ (scan.on /\ r = scan.queue) /\ ~ (scan'.on /\ r = scan'.queue)
  PROVE  Listed'
<1>1. list'[q] = l /\ \A r \in Queue \ {q} : list'[r] = list[r]
  BY DEF Inv, Typed, Stored
<1>2. \A p \in Page, r \in Queue : Filed(p, r)' <=> Filed(p, r)
  BY DEF Filed
<1>3. ASSUME NEW r \in Queue
      PROVE  /\ IsInjective(list[r])'
             /\ \A p \in Page : (p \in ToSet(list[r]) <=> Filed(p, r))'
             /\ (Inacthead \in ToSet(list[r]) <=> r = Inactive)'
             /\ (Marker \in ToSet(list[r]) <=> scan.on /\ r = scan.queue)'
  <2>1. /\ IsInjective(list[r])
        /\ \A p \in Page : p \in ToSet(list[r]) <=> Filed(p, r)
        /\ Inacthead \in ToSet(list[r]) <=> r = Inactive
        /\ Marker \in ToSet(list[r]) <=> scan.on /\ r = scan.queue
    BY DEF Inv, Listed
  <2>2. CASE r = q
    BY <1>1, <1>2, <2>1, <2>2
  <2>3. CASE r # q
    BY <1>1, <1>2, <2>1, <2>3
  <2> QED
    BY <2>2, <2>3
<1>4. ASSUME NEW r \in Queue
      PROVE  cnt'[r] = Cardinality({p \in Page : Filed(p, r)})'
  <2>1. cnt[r] = Cardinality({p \in Page : Filed(p, r)})
    BY DEF Inv, Listed
  <2>2. {p \in Page : Filed(p, r)}' = {p \in Page : Filed(p, r)}
    BY <1>2
  <2> QED
    BY <2>1, <2>2
<1> QED
  BY <1>3, <1>4 DEF Listed

(* vm_pageout_init_scan *)
LEMMA BeginScanKeeps ==
  ASSUME Inv, NEW q \in Queue \ {"active"}, BeginScan(q)
  PROVE  Inv'
<1>a. PICK S : S = Page \cup {Marker, Inacthead}
  OBVIOUS
<1>b. PICK s : s = list[q]
  OBVIOUS
<1>c. PICK l : l = <<Marker>> \o s
  OBVIOUS
<1>1. /\ ~ scan.on /\ code[Daemon] = <<>>
      /\ list' = [list EXCEPT ![q] = l]
      /\ scan' = [on |-> TRUE, queue |-> q, batch |-> <<>>, stuck |-> <<>>, left |-> cnt[q]]
      /\ UNCHANGED <<queue, flags, cnt, batch, plock, qlock, page, code>>
  <2>1. [list EXCEPT ![q] = <<Marker>> \o @] = [list EXCEPT ![q] = l]
    BY <1>b, <1>c
  <2> QED
    BY <2>1 DEF BeginScan
<1>2. list \in [Queue -> Seq(S)] /\ cnt \in [Queue -> Nat] /\ s \in Seq(S)
  <2>1. list \in [Queue -> Seq(S)] /\ cnt \in [Queue -> Nat]
    BY <1>a DEF Inv, Typed, Stored
  <2> QED
    BY <1>b, <2>1
<1>3. Marker \in S /\ IsInjective(s) /\ Marker \notin ToSet(s)
  BY <1>a, <1>b, <1>1 DEF Inv, Listed
<1>4. l \in Seq(S) /\ ToSet(l) = {Marker} \cup ToSet(s) /\ IsInjective(l)
  <2>a. PICK m : m = <<Marker>>
    OBVIOUS
  <2>1. m \in Seq(S) /\ ToSet(m) = {Marker} /\ IsInjective(m)
    BY <1>3, <2>a, Single
  <2>2. /\ m \o s \in Seq(S) /\ ToSet(m \o s) = ToSet(m) \cup ToSet(s)
        /\ IsInjective(m \o s) <=>
             (IsInjective(m) /\ IsInjective(s) /\ ToSet(m) \cap ToSet(s) = {})
    BY <1>2, <2>1, Concat
  <2> QED
    BY <1>c, <1>3, <2>a, <2>1, <2>2
<1>5. scan'.on /\ scan'.queue = q
  BY <1>1
<1>6. Listed'
  <2>1. l \in Seq(Page \cup {Marker, Inacthead})
    BY <1>a, <1>4
  <2>2. \A e \in Page \cup {Inacthead} : e \in ToSet(l) <=> e \in ToSet(list[q])
    BY <1>b, <1>4, DaemonActs
  <2> QED
    BY <1>1, <1>4, <1>5, <2>1, <2>2, ListedMarker
<1>7. Stored'
  <2>1. <<>> \in Seq(Page)
    BY EmptySeq
  <2>2. scan' \in [on : BOOLEAN, queue : Queue, batch : Seq(Page), stuck : Seq(Page), left : Nat]
    BY <1>1, <1>2, <2>1
  <2>3. list' \in [Queue -> Seq(Page \cup {Marker, Inacthead})]
    BY <1>a, <1>1, <1>2, <1>4
  <2> QED
    BY <1>1, <2>2, <2>3 DEF Inv, Typed, Stored
<1>8. Typed' /\ Unused' /\ Headed' /\ Actors'
  <2>1. Typed'
    BY <1>1, <1>7 DEF Inv, Typed
  <2>2. Unused' /\ Headed'
    BY <1>1 DEF Inv, Unused, Headed, Logical
  <2>3. Actors'
    <3>1. Actors
      BY DEF Inv
    <3>2. \A a : Todo(a)' = Todo(a)
      BY <1>1 DEF Todo
    <3>3. \A a, x : Sound(a, x)' <=> Sound(a, x)
      BY <1>1 DEF Sound, Holds, Serves, Placed, Takes, Assigns, Heading, Next1, Todo, Logical
    <3>4. \A a, x, b, y : Match(a, x, b, y)' <=> Match(a, x, b, y)
      BY <1>1 DEF Match, Assigns, Todo
    <3> QED
      BY <1>1, <3>1, <3>2, <3>3, <3>4 DEF Actors
  <2> QED
    BY <2>1, <2>2, <2>3
<1>9. Scanned'
  <2>1. Todo(Daemon)' = {}
    BY <1>1 DEF Todo, ToSet
  <2> QED
    BY <1>5, <2>1 DEF Scanned
<1> QED
  BY <1>6, <1>8, <1>9 DEF Inv


(* vm_pageout_end_scan *)
LEMMA EndScanKeeps ==
  ASSUME Inv, EndScan
  PROVE  Inv'
<1>a. PICK h : h = Next1(Daemon)
  OBVIOUS
<1>b. PICK q : q = scan.queue
  OBVIOUS
<1>c. PICK l : l = Less(list[q], Marker)
  OBVIOUS
<1>d. PICK S : S = Page \cup {Marker, Inacthead}
  OBVIOUS
<1>e. PICK more : more = <<>>
  OBVIOUS
<1>1. /\ code[Daemon] # <<>> /\ h.do = "end scan" /\ Continue(Daemon, more)
      /\ list' = [list EXCEPT ![q] = l] /\ scan' = NoScan
      /\ UNCHANGED <<queue, flags, cnt, batch, plock, qlock, page>>
  <2>1. Without(q, Marker) = [list EXCEPT ![q] = l]
    BY <1>c DEF Without
  <2> QED
    BY <1>a, <1>b, <1>e, <2>1 DEF EndScan, Does
<1>2. q \in Queue /\ scan.on
  <2>1. h \in Todo(Daemon)
    BY <1>a, <1>1, NextIs, DaemonActs
  <2> QED
    BY <1>b, <1>1, <2>1 DEF Inv, Scanned, OfScan, Typed, Stored
<1>3. list \in [Queue -> Seq(S)] /\ list[q] \in Seq(S) /\ IsInjective(list[q])
  <2>1. list \in [Queue -> Seq(S)]
    BY <1>d DEF Inv, Typed, Stored
  <2> QED
    BY <1>2, <2>1 DEF Inv, Listed
<1>4. l \in Seq(S) /\ ToSet(l) = ToSet(list[q]) \ {Marker} /\ IsInjective(l)
  BY <1>c, <1>3, LessIs
<1>5. ~ scan'.on /\ scan'.queue = Inactive
  BY <1>1 DEF NoScan
<1>6. Listed'
  <2>1. l \in Seq(Page \cup {Marker, Inacthead})
    BY <1>d, <1>4
  <2>2. \A e \in Page \cup {Inacthead} : e \in ToSet(l) <=> e \in ToSet(list[q])
    BY <1>4, DaemonActs
  <2>3. Marker \in ToSet(l) <=> scan'.on /\ q = scan'.queue
    BY <1>4, <1>5
  <2>4. \A r \in Queue \ {q} : ~ (scan.on /\ r = scan.queue) /\ ~ (scan'.on /\ r = scan'.queue)
    BY <1>b, <1>5
  <2> QED
    BY <1>1, <1>2, <1>4, <2>1, <2>2, <2>3, <2>4, ListedMarker
<1>7. Stored'
  <2>1. <<>> \in Seq(Page)
    BY EmptySeq
  <2>2. scan' \in [on : BOOLEAN, queue : Queue, batch : Seq(Page), stuck : Seq(Page), left : Nat]
    BY <1>1, <2>1, DaemonActs DEF NoScan
  <2>3. list' \in [Queue -> Seq(Page \cup {Marker, Inacthead})]
    BY <1>d, <1>1, <1>3, <1>4
  <2> QED
    BY <1>1, <2>2, <2>3 DEF Inv, Typed, Stored
<1>8. more \in Seq(InstrType) /\ Shape(more) /\ ToSet(more) = {}
  BY <1>e DEF Shape, ToSet
<1>9. GoesOn(Daemon, more)
  BY <1>1, Continues, DaemonActs
<1>10. ToSet(Rest(Daemon)) = {}
  <2>1. \A y \in ToSet(Rest(Daemon)) : Follows(h, y)
    BY <1>a, <1>1, Rests, DaemonActs
  <2> QED
    BY <1>1, <2>1 DEF Follows
<1>11. Moves(Daemon) /\ Prepares(Daemon)
  BY <1>a, <1>1 DEF Moves, Turns, Writes, Prepares, Batched
<1>12. Actors' /\ Unused' /\ code' \in [Actor -> Seq(InstrType)]
  BY <1>8, <1>9, <1>10, <1>11, Steps, DaemonActs
<1>13. Headed'
  BY <1>11, HeadedKept, DaemonActs
<1>14. Scanned'
  <2>1. Todo(Daemon)' = {}
    BY <1>8, <1>9, <1>10, Going, DaemonActs
  <2> QED
    BY <1>5, <2>1 DEF Scanned, Inactive
<1> QED
  BY <1>6, <1>7, <1>12, <1>13, <1>14 DEF Inv, Typed

(* The daemon takes up something new. *)
LEMMA TakesUp ==
  ASSUME Inv, code[Daemon] = <<>>, NEW more \in Seq(InstrType), Shape(more),
         code' = [code EXCEPT ![Daemon] = more],
         UNCHANGED <<queue, flags, list, cnt, batch, plock, page>>,
         \A q \in Queue : qlock'[q] = qlock[q] \/ qlock[q] = Nobody,
         qlock' \in [Queue -> Actor \cup {Nobody}],
         scan' \in [on : BOOLEAN, queue : Queue, batch : Seq(Page), stuck : Seq(Page), left : Nat],
         scan'.on = scan.on, scan'.queue = scan.queue,
         \A x \in ToSet(more) :
           /\ x.do \in {"collect", "unlock queue", "look", "stuck", "rest", "end scan"}
           /\ x.do \in {"collect", "unlock queue"} => qlock'[x.queue] = Daemon
           /\ Scanning(x)
  PROVE  Inv'
<1>1. GoesOn(Daemon, more)
  <2>1. Rest(Daemon) = <<>> /\ more \o <<>> = more
    BY ConcatEmptySeq DEF Rest
  <2> QED
    BY <2>1 DEF GoesOn
<1>2. ToSet(Rest(Daemon)) = {}
  BY Rests, DaemonActs
<1>3. Moves(Daemon) /\ Prepares(Daemon)
  BY DEF Moves, Turns, Writes, Prepares
<1>4. Stored' /\ Listed'
  <2>1. Stored'
    BY DEF Inv, Typed, Stored
  <2>2. Listed'
    BY ListedSame DEF Filed
  <2> QED
    BY <2>1, <2>2
<1>5. \A x \in ToSet(more) : Sound(Daemon, x)'
  BY DEF Sound, Holds, Serves, Placed, Batched, Locking, Guarded
<1>6. \A x \in ToSet(more), b \in Actor : \A y \in Todo(b)' :
        Match(Daemon, x, b, y)' /\ Match(b, y, Daemon, x)'
  BY DEF Match
<1>7. \A x \in ToSet(more) : Scanning(x)
  OBVIOUS
<1> QED
  BY <1>1, <1>2, <1>3, <1>4, <1>5, <1>6, <1>7, Stepped, DaemonActs

(* vm_pageout_collect_batch takes the queue lock. *)
LEMMA CollectKeeps ==
  ASSUME Inv, Collect
  PROVE  Inv'
<1>b. PICK q : q = scan.queue
  OBVIOUS
<1>c. PICK x, y : x = Instr("collect", "none", q) /\ y = Instr("unlock queue", "none", q)
  OBVIOUS
<1>d. PICK more : more = <<x, y>>
  OBVIOUS
<1>1. /\ scan.on /\ code[Daemon] = <<>> /\ qlock[q] = Nobody
      /\ qlock' = [qlock EXCEPT ![q] = Daemon]
      /\ code' = [code EXCEPT ![Daemon] = more]
      /\ UNCHANGED <<queue, flags, list, cnt, batch, plock, page, scan>>
  BY <1>b, <1>c, <1>d DEF Collect
<1>2. /\ qlock \in [Queue -> Actor \cup {Nobody}] /\ q \in Queue
      /\ scan \in [on : BOOLEAN, queue : Queue, batch : Seq(Page), stuck : Seq(Page), left : Nat]
  BY <1>b DEF Inv, Typed, Stored
<1>3. /\ x \in InstrType /\ x.do = "collect" /\ x.queue = q
      /\ y \in InstrType /\ y.do = "unlock queue" /\ y.queue = q
  BY <1>2, <1>c DEF Instr, InstrType, OnPage, OnQueue, Guarded, Batched, Locking
<1>4. Follows(x, y)
  BY <1>3 DEF Follows, First, Batched
<1>5. more \in Seq(InstrType) /\ ToSet(more) = {x, y} /\ Shape(more)
  BY <1>d, <1>3, <1>4, Two
<1>6. /\ \A r \in Queue : qlock'[r] = qlock[r] \/ qlock[r] = Nobody
      /\ qlock' \in [Queue -> Actor \cup {Nobody}] /\ qlock'[q] = Daemon
  BY <1>1, <1>2, DaemonActs
<1>7. \A z \in ToSet(more) :
        /\ z.do \in {"collect", "unlock queue", "look", "stuck", "rest", "end scan"}
        /\ z.do \in {"collect", "unlock queue"} => qlock'[z.queue] = Daemon
        /\ Scanning(z)
  BY <1>b, <1>1, <1>3, <1>5, <1>6 DEF Scanning, OfScan
<1>8. /\ scan' \in [on : BOOLEAN, queue : Queue, batch : Seq(Page), stuck : Seq(Page), left : Nat]
      /\ scan'.on = scan.on /\ scan'.queue = scan.queue
  BY <1>1, <1>2
<1> QED
  BY <1>1, <1>5, <1>6, <1>7, <1>8, TakesUp

(* The daemon looks at the next page of its batch. *)
LEMMA LookKeeps ==
  ASSUME Inv, Look
  PROVE  Inv'
<1>a. PICK b : b = scan.batch
  OBVIOUS
<1>b. PICK x : x = Instr("look", Head(b), "none")
  OBVIOUS
<1>d. PICK more : more = <<x>>
  OBVIOUS
<1>1. /\ scan.on /\ code[Daemon] = <<>> /\ b # <<>>
      /\ code' = [code EXCEPT ![Daemon] = more]
      /\ scan' = [scan EXCEPT !.batch = Tail(b)]
      /\ UNCHANGED <<queue, flags, list, cnt, batch, plock, qlock, page>>
  BY <1>a, <1>b, <1>d DEF Look
<1>2. scan \in [on : BOOLEAN, queue : Queue, batch : Seq(Page), stuck : Seq(Page), left : Nat]
  BY DEF Inv, Typed, Stored
<1>3. b \in Seq(Page)
  BY <1>a, <1>2
<1>4. Head(b) \in Page /\ Tail(b) \in Seq(Page)
  BY <1>1, <1>3, HeadTailProperties
<1>5. x \in InstrType /\ x.do = "look"
  BY <1>4, <1>b DEF Instr, InstrType, OnPage, OnQueue, Guarded, Batched, Locking
<1>6. more \in Seq(InstrType) /\ ToSet(more) = {x} /\ Shape(more)
  BY <1>5, <1>d, One
<1>7. \A z \in ToSet(more) :
        /\ z.do \in {"collect", "unlock queue", "look", "stuck", "rest", "end scan"}
        /\ z.do \in {"collect", "unlock queue"} => qlock'[z.queue] = Daemon
        /\ Scanning(z)
  BY <1>1, <1>5, <1>6 DEF Scanning, OfScan
<1>8. /\ scan' \in [on : BOOLEAN, queue : Queue, batch : Seq(Page), stuck : Seq(Page), left : Nat]
      /\ scan'.on = scan.on /\ scan'.queue = scan.queue
  BY <1>1, <1>2, <1>4
<1>9. /\ \A q \in Queue : qlock'[q] = qlock[q] \/ qlock[q] = Nobody
      /\ qlock' \in [Queue -> Actor \cup {Nobody}]
  BY <1>1 DEF Inv, Typed, Stored
<1> QED
  BY <1>1, <1>6, <1>7, <1>8, <1>9, TakesUp

(* The end of a scan: what is stuck or left over goes back first. *)
LEMMA StopScanKeeps ==
  ASSUME Inv, StopScan
  PROVE  Inv'
<1>b. PICK q : q = scan.queue
  OBVIOUS
<1>c. PICK x, y, z : /\ x = Instr("stuck", "none", Inactive) /\ y = Instr("rest", "none", Inactive)
                     /\ z = Instr("end scan", "none", q)
  OBVIOUS
<1>d. PICK more : more = (IF q = Inactive THEN <<x, y>> ELSE <<>>) \o <<z>>
  OBVIOUS
<1>1. /\ scan.on /\ code[Daemon] = <<>>
      /\ code' = [code EXCEPT ![Daemon] = more]
      /\ UNCHANGED <<queue, flags, list, cnt, batch, plock, qlock, page, scan>>
  BY <1>b, <1>c, <1>d DEF StopScan
<1>2. /\ qlock \in [Queue -> Actor \cup {Nobody}] /\ q \in Queue
      /\ scan \in [on : BOOLEAN, queue : Queue, batch : Seq(Page), stuck : Seq(Page), left : Nat]
  BY <1>b DEF Inv, Typed, Stored
<1>3. /\ x \in InstrType /\ x.do = "stuck" /\ y \in InstrType /\ y.do = "rest"
      /\ z \in InstrType /\ z.do = "end scan" /\ z.queue = q
  BY <1>2, <1>c, DaemonActs DEF Instr, InstrType, OnPage, OnQueue, Guarded, Batched, Locking
<1>4. Follows(x, y) /\ Follows(x, z) /\ Follows(y, z)
  BY <1>3 DEF Follows, First, Batched, Locking
<1>5. /\ more \in Seq(InstrType) /\ Shape(more)
      /\ \A w \in ToSet(more) : w = z \/ (q = Inactive /\ w \in {x, y})
  <2>a. PICK s, t : s = <<x, y>> /\ t = <<z>>
    OBVIOUS
  <2>1. /\ s \in Seq(InstrType) /\ ToSet(s) = {x, y} /\ Shape(s)
        /\ t \in Seq(InstrType) /\ ToSet(t) = {z} /\ Shape(t)
    BY <2>a, <1>3, <1>4, One, Two
  <2>2. CASE q = Inactive
    <3>1. more = s \o t
      BY <1>d, <2>a, <2>2
    <3>2. s \o t \in Seq(InstrType) /\ ToSet(s \o t) = ToSet(s) \cup ToSet(t)
      BY <2>1, Concat
    <3>3. Shape(s \o t)
      <4>1. \A v \in ToSet(s), w \in ToSet(t) : Follows(v, w)
        BY <1>4, <2>1
      <4> QED
        BY <2>1, <4>1, Shapes
    <3> QED
      BY <2>1, <2>2, <3>1, <3>2, <3>3
  <2>3. CASE q # Inactive
    <3>1. more = t
      <4>1. <<>> \o t = t
        BY <2>1, ConcatEmptySeq
      <4> QED
        BY <1>d, <2>a, <2>3, <4>1
    <3> QED
      BY <2>1, <3>1
  <2> QED
    BY <2>2, <2>3
<1>7. \A w \in ToSet(more) :
        /\ w.do \in {"collect", "unlock queue", "look", "stuck", "rest", "end scan"}
        /\ w.do \in {"collect", "unlock queue"} => qlock'[w.queue] = Daemon
        /\ Scanning(w)
  BY <1>b, <1>1, <1>3, <1>5 DEF Scanning, OfScan
<1>8. /\ scan' \in [on : BOOLEAN, queue : Queue, batch : Seq(Page), stuck : Seq(Page), left : Nat]
      /\ scan'.on = scan.on /\ scan'.queue = scan.queue
  BY <1>1, <1>2
<1>9. /\ \A r \in Queue : qlock'[r] = qlock[r] \/ qlock[r] = Nobody
      /\ qlock' \in [Queue -> Actor \cup {Nobody}]
  BY <1>1, <1>2
<1> QED
  BY <1>1, <1>5, <1>7, <1>8, <1>9, TakesUp


(* A page joins the daemon's batch. *)
LEMMA CollectOneKeeps ==
  ASSUME Inv, CollectOne
  PROVE  Inv'
<1>a. PICK h : h = Next1(Daemon)
  OBVIOUS
<1>b. PICK q : q = h.queue
  OBVIOUS
<1>c. PICK S : S = Page \cup {Marker, Inacthead}
  OBVIOUS
<1>d. PICK s : s = list[q]
  OBVIOUS
<1>e. PICK i : i = Place(s, Marker)
  OBVIOUS
<1>f. PICK m : m = s[i + 1]
  OBVIOUS
<1>1. /\ code[Daemon] # <<>> /\ h.do = "collect"
      /\ UNCHANGED <<queue, batch, plock, qlock, page>>
      /\ \/ Continue(Daemon, <<>>) /\ UNCHANGED <<flags, list, cnt, scan>>
         \/ /\ i < Len(s) /\ scan.left > 0 /\ code' = code
            /\ list' = IF q = Inactive /\ m \in Page THEN Without(q, m)
                       ELSE [list EXCEPT ![q][i] = m, ![q][i + 1] = Marker]
            /\ flags' = IF q = Inactive /\ m \in Page THEN [flags EXCEPT ![m] = @ \ {"enqueued"}]
                        ELSE flags
            /\ cnt' = IF q = Inactive /\ m \in Page THEN [cnt EXCEPT ![q] = @ - 1] ELSE cnt
            /\ scan' = [scan EXCEPT !.batch = IF m \in Page THEN Append(@, m) ELSE @,
                                    !.left = @ - 1]
  BY <1>a, <1>b, <1>d, <1>e, <1>f DEF CollectOne, Does
<1>2. /\ q \in Queue /\ Sound(Daemon, h) /\ h \in Todo(Daemon) /\ h \in InstrType
  BY <1>a, <1>b, <1>1, NextIs, DaemonActs DEF OnQueue, Batched
<1>3. qlock[q] = Daemon /\ scan.on /\ scan.queue = q
  BY <1>b, <1>1, <1>2 DEF Sound, Holds, Batched, Inv, Scanned, OfScan
<1>4. Prepares(Daemon)
  BY <1>a, <1>1 DEF Prepares, Batched
<1>5. CASE Continue(Daemon, <<>>) /\ UNCHANGED <<flags, list, cnt, scan>>
  <2>1. Listed' /\ \A o \in Page : Writes(Daemon, o)
    BY <1>1, <1>5, StaysPut, DaemonActs
  <2>2. Moves(Daemon) /\ Stored'
    BY <1>1, <1>5, <2>1 DEF Moves, Turns, Inv, Typed, Stored
  <2> QED
    BY <1>1, <1>4, <1>5, <2>1, <2>2, Drops, DaemonActs
<1>6. CASE /\ i < Len(s) /\ scan.left > 0 /\ code' = code
           /\ list' = IF q = Inactive /\ m \in Page THEN Without(q, m)
                      ELSE [list EXCEPT ![q][i] = m, ![q][i + 1] = Marker]
           /\ flags' = IF q = Inactive /\ m \in Page THEN [flags EXCEPT ![m] = @ \ {"enqueued"}]
                       ELSE flags
           /\ cnt' = IF q = Inactive /\ m \in Page THEN [cnt EXCEPT ![q] = @ - 1] ELSE cnt
           /\ scan' = [scan EXCEPT !.batch = IF m \in Page THEN Append(@, m) ELSE @,
                                   !.left = @ - 1]
  <2>a. PICK more : more = <<h>>
    OBVIOUS
  <2>1. /\ list \in [Queue -> Seq(S)] /\ cnt \in [Queue -> Nat] /\ flags \in [Page -> SUBSET Flag]
        /\ scan \in [on : BOOLEAN, queue : Queue, batch : Seq(Page), stuck : Seq(Page), left : Nat]
        /\ code \in [Actor -> Seq(InstrType)]
    BY <1>c DEF Inv, Typed, Stored
  <2>2. /\ s \in Seq(S) /\ IsInjective(s) /\ Marker \in ToSet(s)
        /\ \A p \in Page : p \in ToSet(s) <=> Filed(p, q)
    <3>1. s \in Seq(S)
      BY <1>2, <1>d, <2>1
    <3> QED
      BY <1>2, <1>3, <1>d, <3>1 DEF Inv, Listed
  <2>3. i \in 1..Len(s) /\ s[i] = Marker /\ Len(s) \in Nat
    BY <1>e, <2>2, PlaceIn, LenProperties
  <2>4. i + 1 \in 1..Len(s) /\ i # i + 1 /\ m \in ToSet(s) /\ m \in S
    <3>1. i + 1 \in 1..Len(s) /\ i # i + 1
      BY <1>6, <2>3
    <3> QED
      BY <1>f, <2>2, <3>1, ElementsOf
  <2>5. more \in Seq(InstrType) /\ ToSet(more) = {h} /\ Shape(more)
    BY <1>2, <2>a, One
  <2>6. GoesOn(Daemon, more)
    <3>1. code[Daemon] \in Seq(InstrType)
      BY <2>1, DaemonActs
    <3>2. code[Daemon] = <<Head(code[Daemon])>> \o Tail(code[Daemon])
      BY <1>1, <3>1, HeadAndTail
    <3>3. code[Daemon] = more \o Rest(Daemon)
      BY <1>1, <1>a, <2>a, <3>2 DEF Rest, Next1
    <3>4. code' = [code EXCEPT ![Daemon] = code[Daemon]]
      BY <1>6, <2>1
    <3> QED
      BY <3>3, <3>4 DEF GoesOn
  <2>7. \A y \in ToSet(Rest(Daemon)) : Follows(h, y)
    BY <1>a, <1>1, Rests, DaemonActs
  <2>8. /\ Listed' /\ cnt' \in [Queue -> Nat]
        /\ list' \in [Queue -> Seq(Page \cup {Marker, Inacthead})]
        /\ flags' \in [Page -> SUBSET Flag] /\ \A o \in Page : Writes(Daemon, o)
    <3>0. scan'.on = scan.on /\ scan'.queue = scan.queue
      BY <1>6, <2>1
    <3>1. CASE q = Inactive /\ m \in Page
      <4>1. Filed(m, q)
        BY <2>2, <2>4, <3>1
      <4>2. /\ list' = Without(q, m) /\ cnt' = [cnt EXCEPT ![q] = @ - 1]
            /\ flags' = [flags EXCEPT ![m] = @ \ {"enqueued"}]
        BY <1>6, <3>1
      <4>3. /\ flags' \in [Page -> SUBSET Flag] /\ flags'[m] = flags[m] \ {"enqueued"}
            /\ \A o \in Page \ {m} : flags'[o] = flags[o]
        BY <2>1, <3>1, <4>2
      <4>4. \A o \in Page, r \in Queue : Filed(o, r)' <=> (Filed(o, r) /\ o # m)
        BY <1>1, <4>3 DEF Filed
      <4>5. /\ Listed' /\ cnt' \in [Queue -> Nat]
            /\ list' \in [Queue -> Seq(Page \cup {Marker, Inacthead})]
        BY <1>2, <3>0, <3>1, <4>1, <4>2, <4>4, Leaves
      <4>6. Filing(Daemon, m)
        BY <1>1, <1>2, <1>3, <4>1, <4>3 DEF Filing, Filed
      <4>7. \A o \in Page : Writes(Daemon, o)
        BY <1>1, <4>3, <4>6 DEF Writes
      <4> QED
        BY <4>3, <4>5, <4>7
    <3>2. CASE ~ (q = Inactive /\ m \in Page)
      <4>a. PICK l : l = [s EXCEPT ![i] = s[i + 1], ![i + 1] = s[i]]
        OBVIOUS
      <4>1. /\ list' = [list EXCEPT ![q][i] = m, ![q][i + 1] = Marker]
            /\ flags' = flags /\ cnt' = cnt
        BY <1>6, <3>2
      <4>2. l \in Seq(S) /\ ToSet(l) = ToSet(s) /\ IsInjective(l)
        <5>a. PICK j : j = i + 1
          OBVIOUS
        <5>1. j \in 1..Len(s) /\ i # j /\ Swaps(s, i, j, l)
          BY <2>4, <4>a, <5>a DEF Swaps
        <5> QED
          BY <2>2, <2>3, <5>1, Swapped
      <4>3. list' = [list EXCEPT ![q] = l]
        BY <1>2, <1>d, <1>f, <2>1, <2>3, <4>1, <4>a
      <4>4. \A o \in Page, r \in Queue : Filed(o, r)' <=> Filed(o, r)
        BY <1>1, <4>1 DEF Filed
      <4>5. cnt'[q] = Cardinality({p \in Page : Filed(p, q)'})
        <5>1. cnt[q] = Cardinality({p \in Page : Filed(p, q)})
          BY <1>2 DEF Inv, Listed
        <5>2. {p \in Page : Filed(p, q)'} = {p \in Page : Filed(p, q)}
          BY <1>2, <4>4
        <5> QED
          BY <4>1, <5>1, <5>2
      <4>6. Listed'
        <5>1. l \in Seq(Page \cup {Marker, Inacthead}) /\ ToSet(l) = ToSet(list[q])
          BY <1>c, <1>d, <4>2
        <5>2. \A p \in Page : p \in ToSet(l) <=> Filed(p, q)'
          BY <1>2, <2>2, <4>2, <4>4
        <5>3. \A r \in Queue \ {q} : cnt'[r] = cnt[r]
          BY <4>1
        <5> QED
          BY <1>2, <3>0, <4>2, <4>3, <4>4, <4>5, <5>1, <5>2, <5>3, ListedChange
      <4>7. list' \in [Queue -> Seq(Page \cup {Marker, Inacthead})]
        BY <1>c, <2>1, <4>2, <4>3
      <4> QED
        BY <1>1, <2>1, <4>1, <4>6, <4>7 DEF Writes
    <3> QED
      BY <3>1, <3>2
  <2>9. /\ scan' \in [on : BOOLEAN, queue : Queue, batch : Seq(Page), stuck : Seq(Page), left : Nat]
        /\ scan'.on = scan.on /\ scan'.queue = scan.queue
    <3>1. scan.batch \in Seq(Page) /\ scan.left \in Nat
      BY <2>1
    <3>2. scan.left - 1 \in Nat
      BY <1>6, <3>1
    <3>3. (IF m \in Page THEN Append(scan.batch, m) ELSE scan.batch) \in Seq(Page)
      <4>1. m \in Page => Append(scan.batch, m) \in Seq(Page)
        BY <3>1, AppendProperties
      <4> QED
        BY <3>1, <4>1
    <3> QED
      BY <1>6, <2>1, <3>2, <3>3
  <2>10. Moves(Daemon)
    BY <1>1, <2>8 DEF Moves, Turns
  <2>11. Stored'
    BY <1>1, <2>8, <2>9 DEF Inv, Typed, Stored
  <2>12. Sound(Daemon, h)'
    BY <1>1, <1>3, <1>b DEF Sound, Holds, Serves, Placed, Batched, Locking, Guarded
  <2>13. \A b \in Actor : \A y \in Todo(b)' : Match(Daemon, h, b, y)' /\ Match(b, y, Daemon, h)'
    BY <1>1 DEF Match
  <2>14. Scanning(h)
    BY <1>1, <1>3, <1>b DEF Scanning, OfScan
  <2>15. /\ \A y \in ToSet(more), w \in ToSet(Rest(Daemon)) : Follows(y, w)
         /\ \A y \in ToSet(more) : Sound(Daemon, y)'
         /\ \A y \in ToSet(more), b \in Actor : \A w \in Todo(b)' :
              Match(Daemon, y, b, w)' /\ Match(b, w, Daemon, y)'
         /\ \A y \in ToSet(more) : Scanning(y)
    BY <2>5, <2>7, <2>12, <2>13, <2>14
  <2> QED
    BY <1>4, <2>5, <2>6, <2>8, <2>9, <2>10, <2>11, <2>15, Stepped, DaemonActs
<1> QED
  BY <1>1, <1>5, <1>6


(***************************************************************************)
(* What is decided on a page                                               *)
(***************************************************************************)
LEMMA LittleDoing ==
  ASSUME NEW p \in Page, NEW q, NEW u, u = Instr("unlock", p, "none"),
         NEW more, more \in {Append(<<>>, u), Append(<<Instr("reinsert", p, Inactive)>>, u),
                             <<u, Instr("clean", p, "none")>>, <<u, Instr("paged", p, "none")>>}
  PROVE  /\ Doing(more, p, q) /\ \A x \in ToSet(more) : x.do \in {"reinsert", "unlock", "clean", "paged"}
         /\ more = Append(<<>>, u) => \A x \in ToSet(more) : x.do = "unlock"
         /\ more = <<u, Instr("clean", p, "none")>> => \A x \in ToSet(more) : x.do # "reinsert"
         /\ more = <<u, Instr("paged", p, "none")>> => \A x \in ToSet(more) : x.do # "reinsert"
<1>a. PICK r, c, g : /\ r = Instr("reinsert", p, Inactive) /\ c = Instr("clean", p, "none")
                     /\ g = Instr("paged", p, "none")
  OBVIOUS
<1>1. /\ u \in InstrType /\ u.do = "unlock" /\ u.page = p
      /\ r \in InstrType /\ r.do = "reinsert" /\ r.page = p
      /\ c \in InstrType /\ c.do = "clean" /\ c.page = p
      /\ g \in InstrType /\ g.do = "paged" /\ g.page = p
  BY <1>a, DaemonActs DEF Instr, InstrType, OnPage, OnQueue, Guarded, Batched, Locking
<1>2. Follows(r, u) /\ Follows(u, c) /\ Follows(u, g)
  BY <1>1 DEF Follows, First, Batched, Locking
<1>3. Append(<<r>>, u) = <<r, u>> /\ Append(<<>>, u) = <<u>>
  <2>1. <<r>> \in Seq(InstrType) /\ <<r>> \o <<u>> = <<r, u>>
    BY <1>1, One, OneAndOne
  <2>2. Append(<<r>>, u) = <<r>> \o <<u>>
    BY <1>1, <2>1, AppendIsConcat
  <2>3. Append(<<>>, u) = <<u>>
    OBVIOUS
  <2> QED
    BY <2>1, <2>2, <2>3
<1>4. CASE more = <<u>>
  <2>1. more \in Seq(InstrType) /\ ToSet(more) = {u} /\ Shape(more) /\ Head(more) = u /\ more # <<>>
    BY <1>1, <1>4, One
  <2>2. Doing(more, p, q) /\ \A x \in ToSet(more) : x.do = "unlock"
    BY <1>1, <2>1 DEF Doing
  <2> QED
    BY <2>2
<1>5. CASE more = <<r, u>>
  <2>1. more \in Seq(InstrType) /\ ToSet(more) = {r, u} /\ Shape(more) /\ Head(more) = r /\ more # <<>>
    BY <1>1, <1>2, <1>5, Two
  <2>2. Doing(more, p, q) /\ \A x \in ToSet(more) : x.do \in {"reinsert", "unlock"}
    BY <1>1, <2>1 DEF Doing
  <2>3. more # <<u>> /\ more # <<u, c>> /\ more # <<u, g>>
    <3>1. r # u
      BY <1>1
    <3> QED
      BY <1>5, <3>1
  <2> QED
    BY <1>3, <1>a, <2>2, <2>3
<1>6. ASSUME NEW d \in {c, g}, more = <<u, d>>
      PROVE  /\ Doing(more, p, q)
             /\ \A x \in ToSet(more) : x.do \in {"unlock", "clean", "paged"}
             /\ more # Append(<<>>, u)
  <2>1. more \in Seq(InstrType) /\ ToSet(more) = {u, d} /\ Shape(more) /\ Head(more) = u /\ more # <<>>
    BY <1>1, <1>2, <1>6, Two
  <2>2. Doing(more, p, q) /\ \A x \in ToSet(more) : x.do \in {"unlock", "clean", "paged"}
    BY <1>1, <1>6, <2>1 DEF Doing
  <2>3. more # <<u>>
    BY <1>6
  <2> QED
    BY <1>3, <2>2, <2>3
<1> QED
  BY <1>a, <1>3, <1>4, <1>5, <1>6

(* The daemon decides on p, and changes nothing yet. *)
LEMMA Decided ==
  ASSUME Inv, NEW p \in Page, plock[p] = Nobody, plock' = [plock EXCEPT ![p] = Daemon],
         code[Daemon] # <<>>, Next1(Daemon).do \in {"look", "clean", "paged"},
         NEW more, Continue(Daemon, more), Doing(more, p, queue[p]),
         page[p] \in {"used", "wired", "dead"} \/ \A x \in ToSet(more) : x.do = "unlock",
         \A x \in ToSet(more) : x.do = "reinsert" => scan.on /\ scan.queue = Inactive,
         UNCHANGED <<queue, flags, list, cnt, batch, qlock, page>>,
         scan' \in [on : BOOLEAN, queue : Queue, batch : Seq(Page), stuck : Seq(Page), left : Nat],
         scan'.on = scan.on, scan'.queue = scan.queue
  PROVE  Inv'
<1>1. GoesOn(Daemon, more)
  BY Continues, DaemonActs
<1>2. Listed' /\ \A o \in Page : Writes(Daemon, o)
  BY StaysPut, DaemonActs
<1>3. Stored'
  BY DaemonActs DEF Inv, Typed, Stored
<1>4. \A o \in Page : Turns(Daemon, o) /\ Writes(Daemon, o)
  BY <1>2 DEF Turns
<1>5. Doing(more, p, queue'[p]) /\ queue'[p] \in {queue[p], "none"}
  OBVIOUS
<1>6. page'[p] \in {"used", "wired", "dead"} \/ \A x \in ToSet(more) : x.do = "unlock"
  OBVIOUS
<1> QED
  BY <1>1, <1>2, <1>3, <1>4, <1>5, <1>6, TakenUp, DaemonActs

(* A page that belongs somewhere is in use. *)
LEMMA InUse ==
  ASSUME Inv, NEW p \in Page, Logical(p) # "none"
  PROVE  page[p] \in {"used", "wired", "dead"}
BY DEF Inv, Unused, Typed, Stored

(* The decision of vm_pageout_launder. *)
LEMMA DecideLaundryKeeps ==
  ASSUME Inv, DecideLaundry
  PROVE  Inv'
<1>a. PICK h : h = Next1(Daemon)
  OBVIOUS
<1>b. PICK p : p = h.page
  OBVIOUS
<1>c. PICK u : u = Instr("unlock", p, "none")
  OBVIOUS
<1>1. /\ code[Daemon] # <<>> /\ h.do = "look" /\ plock[p] = Nobody
      /\ plock' = [plock EXCEPT ![p] = Daemon]
      /\ UNCHANGED <<queue, flags, list, cnt, batch, qlock, page, scan>>
  BY <1>a, <1>b DEF DecideLaundry, Does
<1>2. p \in Page
  BY <1>a, <1>b, <1>1, NextIs, DaemonActs DEF OnPage
<1>3. PICK more :
        /\ Continue(Daemon, more) /\ Doing(more, p, queue[p])
        /\ page[p] \in {"used", "wired", "dead"} \/ \A x \in ToSet(more) : x.do = "unlock"
        /\ \A x \in ToSet(more) : x.do # "reinsert"
  <2>1. CASE Continue(Daemon, Append(<<>>, u))
    <3>a. PICK more : more = Append(<<>>, u)
      OBVIOUS
    <3>1. Doing(more, p, queue[p]) /\ \A x \in ToSet(more) : x.do = "unlock"
      BY <1>2, <1>c, <3>a, LittleDoing
    <3> QED
      BY <2>1, <3>a, <3>1
  <2>2. ASSUME NEW op, Continue(Daemon, Append(op, u)), Op(op, p, queue[p]), Logical(p) # "none"
        PROVE  \E more :
                 /\ Continue(Daemon, more) /\ Doing(more, p, queue[p])
                 /\ page[p] \in {"used", "wired", "dead"} \/ \A x \in ToSet(more) : x.do = "unlock"
                 /\ \A x \in ToSet(more) : x.do # "reinsert"
    BY <1>2, <1>c, <2>2, OpDoing, InUse
  <2>3. CASE Logical(p) = "laundry" /\ Continue(Daemon, Append(Free(p), u))
    BY <1>2, <1>c, <2>3, FreeDoing, InUse
  <2>4. CASE Logical(p) = "laundry" /\ Continue(Daemon, <<u, Instr("clean", p, "none")>>)
    <3>a. PICK more : more = <<u, Instr("clean", p, "none")>>
      OBVIOUS
    <3>1. Doing(more, p, queue[p]) /\ \A x \in ToSet(more) : x.do # "reinsert"
      BY <1>2, <1>c, <3>a, LittleDoing
    <3> QED
      BY <1>2, <2>4, <3>a, <3>1, InUse
  <2>5. \/ Continue(Daemon, Append(<<>>, u))
        \/ /\ Logical(p) = "laundry"
           /\ \/ \E op \in {Requeue(p), DequeueDeferred(p), Activate(p)} : Continue(Daemon, Append(op, u))
              \/ Continue(Daemon, Append(Free(p), u))
              \/ Continue(Daemon, <<u, Instr("clean", p, "none")>>)
    BY <1>a, <1>b, <1>c DEF DecideLaundry
  <2>6. ASSUME Logical(p) = "laundry"
        PROVE  Op(Requeue(p), p, queue[p]) /\ Op(DequeueDeferred(p), p, queue[p])
               /\ Op(Activate(p), p, queue[p])
    BY <1>2, <2>6, Ops
  <2> QED
    BY <2>1, <2>2, <2>3, <2>4, <2>5, <2>6
<1>4. scan' \in [on : BOOLEAN, queue : Queue, batch : Seq(Page), stuck : Seq(Page), left : Nat]
  BY <1>1 DEF Inv, Typed, Stored
<1> QED
  BY <1>a, <1>1, <1>2, <1>3, <1>4, Decided


(* The decision of vm_pageout_scan_inactive. *)
LEMMA DecideKeeps ==
  ASSUME Inv, Decide
  PROVE  Inv'
<1>a. PICK h : h = Next1(Daemon)
  OBVIOUS
<1>b. PICK p : p = h.page
  OBVIOUS
<1>c. PICK u : u = Instr("unlock", p, "none")
  OBVIOUS
<1>d. PICK r : r = Append(<<Instr("reinsert", p, Inactive)>>, u)
  OBVIOUS
<1>e. PICK f : f = Append(<<Instr("free", p, "none")>>, u)
  OBVIOUS
<1>1. /\ code[Daemon] # <<>> /\ h.do = "look" /\ plock[p] = Nobody /\ scan.queue = Inactive
      /\ plock' = [plock EXCEPT ![p] = Daemon]
      /\ UNCHANGED <<list, cnt, batch, qlock, page, scan>>
  BY <1>a, <1>b DEF Decide, Does
<1>2. p \in Page /\ scan.on
  <2>1. p \in Page /\ h \in Todo(Daemon)
    BY <1>a, <1>b, <1>1, NextIs, DaemonActs DEF OnPage
  <2> QED
    BY <1>1, <2>1 DEF Inv, Scanned, OfScan
<1>3. scan' \in [on : BOOLEAN, queue : Queue, batch : Seq(Page), stuck : Seq(Page), left : Nat]
  BY <1>1 DEF Inv, Typed, Stored
<1>4. \/ UNCHANGED <<queue, flags>> /\ Continue(Daemon, Append(<<>>, u))
      \/ /\ Logical(p) = Inactive /\ UNCHANGED <<queue, flags>>
         /\ \/ Continue(Daemon, r)
            \/ \E op \in {DequeueDeferred(p), Activate(p)} : Continue(Daemon, Append(op, u))
            \/ Launders /\ Continue(Daemon, Append(Launder(p), u))
      \/ /\ Logical(p) = Inactive /\ UNCHANGED queue /\ Continue(Daemon, r)
         /\ flags' = [flags EXCEPT ![p] = @ \cup {"requeue"}]
      \/ /\ Logical(p) = Inactive /\ flags[p] \cap {"enqueued", "requeue", "head"} = {}
         /\ UNCHANGED flags /\ Continue(Daemon, f) /\ queue' = [queue EXCEPT ![p] = "none"]
  BY <1>a, <1>b, <1>c, <1>d, <1>e, Zenon DEF Decide
<1>5. Doing(r, p, queue[p])
  BY <1>2, <1>c, <1>d, LittleDoing, ZenonT(60)
<1>6. Logical(p) = Inactive => page[p] \in {"used", "wired", "dead"}
  BY <1>2, InUse, DaemonActs
<1>7. ASSUME NEW more, Continue(Daemon, more), Doing(more, p, queue[p]), UNCHANGED <<queue, flags>>,
             page[p] \in {"used", "wired", "dead"} \/ \A x \in ToSet(more) : x.do = "unlock"
      PROVE  Inv'
  <2>1. \A x \in ToSet(more) : x.do = "reinsert" => scan.on /\ scan.queue = Inactive
    BY <1>1, <1>2
  <2> QED
    BY <1>a, <1>1, <1>2, <1>3, <1>7, <2>1, Decided
<1>8. CASE UNCHANGED <<queue, flags>> /\ Continue(Daemon, Append(<<>>, u))
  <2>a. PICK more : more = Append(<<>>, u)
    OBVIOUS
  <2>1. Doing(more, p, queue[p]) /\ \A x \in ToSet(more) : x.do = "unlock"
    BY <1>2, <1>c, <2>a, LittleDoing, ZenonT(60)
  <2> QED
    BY <1>7, <1>8, <2>a, <2>1
<1>9. CASE /\ Logical(p) = Inactive /\ UNCHANGED <<queue, flags>>
           /\ \/ Continue(Daemon, r)
              \/ \E op \in {DequeueDeferred(p), Activate(p)} : Continue(Daemon, Append(op, u))
              \/ Launders /\ Continue(Daemon, Append(Launder(p), u))
  <2>1. ASSUME NEW op, Continue(Daemon, Append(op, u)), Op(op, p, queue[p])
        PROVE  Inv'
    <3>1. Doing(Append(op, u), p, queue[p])
      BY <1>2, <1>c, <2>1, OpDoing
    <3> QED
      BY <1>6, <1>7, <1>9, <2>1, <3>1
  <2>2. /\ Op(DequeueDeferred(p), p, queue[p]) /\ Op(Activate(p), p, queue[p])
        /\ Launders => Op(Launder(p), p, queue[p])
    BY <1>2, Ops
  <2>3. CASE Continue(Daemon, r)
    BY <1>5, <1>6, <1>7, <1>9, <2>3
  <2>4. CASE \E op \in {DequeueDeferred(p), Activate(p)} : Continue(Daemon, Append(op, u))
    BY <2>1, <2>2, <2>4
  <2>5. CASE Launders /\ Continue(Daemon, Append(Launder(p), u))
    BY <2>1, <2>2, <2>5
  <2> QED
    BY <1>9, <2>3, <2>4, <2>5
<1>10. CASE /\ Logical(p) = Inactive /\ UNCHANGED queue /\ Continue(Daemon, r)
            /\ flags' = [flags EXCEPT ![p] = @ \cup {"requeue"}]
  <2>1. /\ flags' \in [Page -> SUBSET Flag] /\ flags'[p] = flags[p] \cup {"requeue"}
        /\ \A o \in Page \ {p} : flags'[o] = flags[o]
    <3>1. flags \in [Page -> SUBSET Flag] /\ "requeue" \in Flag
      BY DEF Inv, Typed, Stored, Flag
    <3> QED
      BY <1>2, <1>10, <3>1
  <2>2. GoesOn(Daemon, r)
    BY <1>1, <1>10, Continues, DaemonActs
  <2>3. Asks(Daemon, p)
    BY <1>1, <1>10, <2>1 DEF Asks
  <2>4. \A o \in Page : Turns(Daemon, o) /\ Writes(Daemon, o)
    BY <1>1, <1>10, <2>1, <2>3 DEF Turns, Writes
  <2>5. Listed'
    <3>1. \A o \in Page, q \in Queue : Filed(o, q)' <=> Filed(o, q)
      BY <1>10, <2>1 DEF Filed
    <3> QED
      BY <1>1, <3>1, ListedSame
  <2>6. Stored'
    BY <1>1, <1>10, <2>1, DaemonActs DEF Inv, Typed, Stored
  <2>7. Doing(r, p, queue'[p]) /\ queue'[p] \in {queue[p], "none"} /\ page'[p] \in {"used", "wired", "dead"}
    BY <1>1, <1>5, <1>6, <1>10
  <2>8. \A x \in ToSet(r) : x.do = "reinsert" => scan.on /\ scan.queue = Inactive
    BY <1>1, <1>2
  <2> QED
    BY <1>a, <1>1, <1>2, <2>2, <2>4, <2>5, <2>6, <2>7, <2>8, TakenUp, DaemonActs
<1>11. CASE /\ Logical(p) = Inactive /\ flags[p] \cap {"enqueued", "requeue", "head"} = {}
            /\ UNCHANGED flags /\ Continue(Daemon, f) /\ queue' = [queue EXCEPT ![p] = "none"]
  <2>1. /\ queue' \in [Page -> Queue \cup {"none"}] /\ queue'[p] = "none"
        /\ \A o \in Page \ {p} : queue'[o] = queue[o]
    BY <1>2, <1>11 DEF Inv, Typed, Stored
  <2>2. GoesOn(Daemon, f)
    BY <1>1, <1>11, Continues, DaemonActs
  <2>3. plock'[p] = Daemon
    BY <1>1, <1>2 DEF Inv, Typed, Stored
  <2>4. Dropped(Daemon, p)
    BY <1>1, <1>11, <2>1, <2>3 DEF Dropped
  <2>5. \A o \in Page : Turns(Daemon, o) /\ Writes(Daemon, o)
    BY <1>1, <1>11, <2>1, <2>4 DEF Turns, Writes
  <2>6. Listed'
    <3>1. \A o \in Page, q \in Queue : Filed(o, q)' <=> Filed(o, q)
      BY <1>11, <2>1 DEF Filed
    <3> QED
      BY <1>1, <3>1, ListedSame
  <2>7. Stored'
    BY <1>1, <1>11, <2>1, DaemonActs DEF Inv, Typed, Stored
  <2>8. /\ Doing(f, p, queue'[p]) /\ queue'[p] \in {queue[p], "none"} /\ page'[p] \in {"used", "wired", "dead"}
        /\ \A x \in ToSet(f) : x.do \notin {"reinsert", "clean", "paged"}
    BY <1>1, <1>2, <1>6, <1>11, <1>c, <1>e, <2>1, FreeDoing
  <2> QED
    BY <1>a, <1>1, <1>2, <2>2, <2>5, <2>6, <2>7, <2>8, TakenUp, DaemonActs
<1> QED
  BY <1>4, <1>8, <1>9, <1>10, <1>11

(* vm_pageout_clean, and the end of vm_pageout_flush. *)
LEMMA CleanKeeps ==
  ASSUME Inv, Clean
  PROVE  Inv'
<1>a. PICK h : h = Next1(Daemon)
  OBVIOUS
<1>b. PICK p : p = h.page
  OBVIOUS
<1>c. PICK u : u = Instr("unlock", p, "none")
  OBVIOUS
<1>d. PICK w : w = <<u, Instr("paged", p, "none")>>
  OBVIOUS
<1>1. /\ code[Daemon] # <<>> /\ h.do \in {"clean", "paged"} /\ plock[p] = Nobody
      /\ plock' = [plock EXCEPT ![p] = Daemon]
      /\ UNCHANGED <<queue, flags, list, cnt, batch, qlock, page>>
  BY <1>a, <1>b DEF Clean, Does
<1>2. p \in Page /\ Sound(Daemon, h)
  BY <1>a, <1>b, <1>1, NextIs, DaemonActs DEF OnPage
<1>3. h.do = "paged" \/ Logical(p) = "laundry" => page[p] \in {"used", "wired", "dead"}
  BY <1>b, <1>2, InUse DEF Sound, Serves
<1>4. \/ UNCHANGED scan /\ Continue(Daemon, <<>> \o <<u>>)
      \/ Logical(p) = "laundry" /\ UNCHANGED scan /\ Continue(Daemon, w)
      \/ /\ h.do = "paged"
         /\ \E op \in {<<>>, DeactivateNoreuse(p), Activate(p)} : Continue(Daemon, op \o <<u>>)
         /\ scan' = scan \/ scan' = [scan EXCEPT !.left = Max({0, @ - 1})]
  BY <1>a, <1>b, <1>c, <1>d, Zenon DEF Clean, Does
<1>5. /\ scan' \in [on : BOOLEAN, queue : Queue, batch : Seq(Page), stuck : Seq(Page), left : Nat]
      /\ scan'.on = scan.on /\ scan'.queue = scan.queue
  <2>1. /\ scan \in [on : BOOLEAN, queue : Queue, batch : Seq(Page), stuck : Seq(Page), left : Nat]
        /\ scan.left \in Nat
    BY DEF Inv, Typed, Stored
  <2>2. \A n \in Nat : Max({0, n - 1}) \in Nat
    <3> TAKE n \in Nat
    <3>1. PICK m \in {0, n - 1} : \A y \in {0, n - 1} : m >= y
      OBVIOUS
    <3>2. Max({0, n - 1}) \in {0, n - 1} /\ Max({0, n - 1}) >= 0
      BY <3>1 DEF Max
    <3> QED
      BY <3>2
  <2>3. Max({0, scan.left - 1}) \in Nat
    BY <2>1, <2>2
  <2> QED
    BY <1>4, <2>1, <2>3
<1>6. ASSUME NEW more, Continue(Daemon, more), Doing(more, p, queue[p]),
             page[p] \in {"used", "wired", "dead"} \/ \A x \in ToSet(more) : x.do = "unlock",
             \A x \in ToSet(more) : x.do # "reinsert"
      PROVE  Inv'
  BY <1>a, <1>1, <1>2, <1>5, <1>6, Decided
<1>7. ASSUME NEW op, Op(op, p, queue[p]), Continue(Daemon, op \o <<u>>), page[p] \in {"used", "wired", "dead"}
      PROVE  Inv'
  <2>1. op \in Seq(InstrType) /\ u \in InstrType
    BY <1>2, <1>7, <1>c DEF Op, Instr, InstrType, OnPage, OnQueue, Batched, Locking, Guarded
  <2>2. Append(op, u) = op \o <<u>>
    BY <2>1, AppendIsConcat
  <2>3. Doing(Append(op, u), p, queue[p]) /\ \A x \in ToSet(Append(op, u)) : x.do # "reinsert"
    BY <1>2, <1>7, <1>c, OpDoing
  <2> QED
    BY <1>6, <1>7, <2>2, <2>3
<1>8. CASE UNCHANGED scan /\ Continue(Daemon, <<>> \o <<u>>)
  <2>a. PICK more : more = Append(<<>>, u)
    OBVIOUS
  <2>1. Doing(more, p, queue[p]) /\ \A x \in ToSet(more) : x.do = "unlock"
    BY <1>2, <1>c, <2>a, LittleDoing
  <2>2. more = <<>> \o <<u>>
    <3>1. u \in InstrType
      BY <1>2, <1>c DEF Instr, InstrType, OnPage, OnQueue, Batched, Locking, Guarded
    <3>2. <<>> \in Seq(InstrType)
      BY EmptySeq
    <3> QED
      BY <2>a, <3>1, <3>2, AppendIsConcat
  <2> QED
    BY <1>6, <1>8, <2>1, <2>2
<1>9. CASE Logical(p) = "laundry" /\ UNCHANGED scan /\ Continue(Daemon, w)
  <2>1. Doing(w, p, queue[p]) /\ \A x \in ToSet(w) : x.do # "reinsert"
    BY <1>2, <1>c, <1>d, LittleDoing
  <2> QED
    BY <1>3, <1>6, <1>9, <2>1
<1>10. CASE /\ h.do = "paged"
            /\ \E op \in {<<>>, DeactivateNoreuse(p), Activate(p)} : Continue(Daemon, op \o <<u>>)
  <2>1. \A op \in {<<>>, DeactivateNoreuse(p), Activate(p)} : Op(op, p, queue[p])
    BY <1>2, Ops
  <2> QED
    BY <1>3, <1>7, <1>10, <2>1
<1> QED
  BY <1>4, <1>8, <1>9, <1>10


(* vm_pageout_reinsert_inactive_page *)
LEMMA PutKeeps ==
  ASSUME Inv, Put
  PROVE  Inv'
<1>a. PICK h : h = Next1(Daemon)
  OBVIOUS
<1>b. PICK p : p = h.page
  OBVIOUS
<1>c. PICK s : s = list[Inactive]
  OBVIOUS
<1>d. PICK S : S = Page \cup {Marker, Inacthead}
  OBVIOUS
<1>e. PICK l : l = IF "head" \in flags[p] THEN Before(s, Inacthead, p)
                   ELSE IF "requeue" \in flags[p] THEN Append(s, p)
                   ELSE Before(s, Marker, p)
  OBVIOUS
<1>1. /\ code[Daemon] # <<>> /\ h.do = "put" /\ Continue(Daemon, <<>>)
      /\ UNCHANGED <<queue, batch, plock, qlock, page, scan>>
      /\ \/ UNCHANGED <<flags, list, cnt>>
         \/ /\ queue[p] = Inactive /\ "enqueued" \notin flags[p]
            /\ list' = [list EXCEPT ![Inactive] = l]
            /\ cnt' = [cnt EXCEPT ![Inactive] = @ + 1]
            /\ flags' = [flags EXCEPT ![p] = (@ \ {"requeue", "head"}) \cup {"enqueued"}]
  BY <1>a, <1>b, <1>c, <1>e DEF Put, Does
<1>2. p \in Page /\ h.queue = Inactive /\ Sound(Daemon, h) /\ h \in Todo(Daemon)
  <2>1. h.do \in OnPage /\ h.do \in {"head", "put"}
    BY <1>1 DEF OnPage
  <2>2. h \in InstrType /\ Sound(Daemon, h) /\ h \in Todo(Daemon)
    BY <1>a, <1>1, NextIs, DaemonActs
  <2> QED
    BY <1>b, <2>1, <2>2, InstrFacts
<1>3. qlock[Inactive] = Daemon /\ scan.on /\ scan.queue = Inactive
  BY <1>1, <1>2 DEF Sound, Holds, Batched, Inv, Scanned, OfScan
<1>4. Prepares(Daemon)
  BY <1>a, <1>1 DEF Prepares
<1>5. CASE UNCHANGED <<flags, list, cnt>>
  <2>1. Listed' /\ \A o \in Page : Writes(Daemon, o)
    BY <1>1, <1>5, StaysPut, DaemonActs
  <2>2. Moves(Daemon) /\ Stored'
    BY <1>1, <1>5, <2>1 DEF Moves, Turns, Inv, Typed, Stored
  <2> QED
    BY <1>1, <1>4, <1>5, <2>1, <2>2, Drops, DaemonActs
<1>6. CASE /\ queue[p] = Inactive /\ "enqueued" \notin flags[p]
           /\ list' = [list EXCEPT ![Inactive] = l]
           /\ cnt' = [cnt EXCEPT ![Inactive] = @ + 1]
           /\ flags' = [flags EXCEPT ![p] = (@ \ {"requeue", "head"}) \cup {"enqueued"}]
  <2>1. /\ list \in [Queue -> Seq(S)] /\ flags \in [Page -> SUBSET Flag]
        /\ s \in Seq(S) /\ IsInjective(s) /\ p \notin ToSet(s)
        /\ Marker \in ToSet(s) /\ Inacthead \in ToSet(s) /\ p \in S
    <3>1. list \in [Queue -> Seq(S)] /\ flags \in [Page -> SUBSET Flag]
      BY <1>d DEF Inv, Typed, Stored
    <3>2. /\ IsInjective(list[Inactive])
          /\ p \in ToSet(list[Inactive]) <=> Filed(p, Inactive)
          /\ Inacthead \in ToSet(list[Inactive])
          /\ Marker \in ToSet(list[Inactive]) <=> scan.on /\ Inactive = scan.queue
      BY <1>2, DaemonActs DEF Inv, Listed
    <3>3. ~ Filed(p, Inactive)
      BY <1>6 DEF Filed
    <3> QED
      <4>1. list[Inactive] \in Seq(S)
        BY <3>1, DaemonActs
      <4>2. Marker \in ToSet(list[Inactive])
        BY <1>3, <3>2
      <4>3. p \in S
        BY <1>2, <1>d
      <4> QED
        BY <1>c, <3>1, <3>2, <3>3, <4>1, <4>2, <4>3
  <2>2. \A m \in {Marker, Inacthead} :
          /\ Before(s, m, p) \in Seq(S) /\ ToSet(Before(s, m, p)) = ToSet(s) \cup {p}
          /\ IsInjective(Before(s, m, p))
    BY <2>1, BeforeIs
  <2>3. Append(s, p) \in Seq(S) /\ ToSet(Append(s, p)) = ToSet(s) \cup {p} /\ IsInjective(Append(s, p))
    BY <2>1, Added
  <2>4. l \in Seq(S) /\ ToSet(l) = ToSet(s) \cup {p} /\ IsInjective(l)
    BY <1>e, <2>2, <2>3
  <2>5. /\ flags' \in [Page -> SUBSET Flag]
        /\ flags'[p] = (flags[p] \ {"requeue", "head"}) \cup {"enqueued"}
        /\ \A o \in Page \ {p} : flags'[o] = flags[o]
    <3>1. "enqueued" \in Flag
      BY DEF Flag
    <3> QED
      BY <1>2, <1>6, <2>1, <3>1
  <2>6. \A o \in Page, r \in Queue : Filed(o, r)' <=> (Filed(o, r) \/ (o = p /\ r = Inactive))
    BY <1>1, <1>6, <2>5 DEF Filed
  <2>7. Listed' /\ cnt' \in [Queue -> Nat] /\ list' \in [Queue -> Seq(Page \cup {Marker, Inacthead})]
    <3>1. l \in Seq(Page \cup {Marker, Inacthead}) /\ ToSet(l) = ToSet(list[Inactive]) \cup {p}
      BY <1>c, <1>d, <2>4
    <3>2. cnt' = [cnt EXCEPT ![Inactive] = IF "enqueued" \in flags[p] THEN @ ELSE @ + 1]
      BY <1>6
    <3> QED
      <4>1. /\ queue[p] = Inactive /\ list' = [list EXCEPT ![Inactive] = l]
            /\ scan'.on = scan.on /\ scan'.queue = scan.queue /\ IsInjective(l)
            /\ Inactive \in Queue
        BY <1>1, <1>6, <2>4, DaemonActs
      <4> QED
        BY <1>2, <2>6, <3>1, <3>2, <4>1, Joins
  <2>8. Filing(Daemon, p)
    BY <1>1, <1>3, <1>6, <2>5, DaemonActs DEF Filing
  <2>9. Moves(Daemon)
    BY <1>1, <2>5, <2>8 DEF Moves, Turns, Writes
  <2>10. Stored'
    BY <1>1, <2>5, <2>7 DEF Inv, Typed, Stored
  <2> QED
    BY <1>1, <1>4, <2>7, <2>9, <2>10, Drops, DaemonActs
<1> QED
  BY <1>1, <1>5, <1>6

(* vm_pageout_reinsert_inactive *)
LEMMA ReinsertKeeps ==
  ASSUME Inv, Reinsert
  PROVE  Inv'
<1>a. PICK h : h = Next1(Daemon)
  OBVIOUS
<1>b. PICK p : p = h.page
  OBVIOUS
<1>c. PICK z : z = Instr("unlock queue", "none", Inactive)
  OBVIOUS
<1>1. /\ code[Daemon] # <<>> /\ h.do \in {"reinsert", "stuck", "rest"}
      /\ UNCHANGED <<queue, flags, list, cnt, batch, plock, page>>
  BY <1>a DEF Reinsert, Does
<1>2. h \in Todo(Daemon) /\ (h.do = "reinsert" => p \in Page)
  BY <1>a, <1>b, <1>1, NextIs, DaemonActs DEF OnPage, Guarded
<1>3. scan.on /\ scan.queue = Inactive
  BY <1>1, <1>2 DEF Inv, Scanned, OfScan
<1>4. /\ scan \in [on : BOOLEAN, queue : Queue, batch : Seq(Page), stuck : Seq(Page), left : Nat]
      /\ scan.batch \in Seq(Page) /\ scan.stuck \in Seq(Page) /\ <<>> \in Seq(Page)
  BY EmptySeq DEF Inv, Typed, Stored
<1>5. Listed' /\ \A o \in Page : Writes(Daemon, o)
  <2>1. scan'.on = scan.on /\ scan'.queue = scan.queue
    BY <1>4 DEF Reinsert
  <2> QED
    BY <1>1, <2>1, StaysPut, DaemonActs
<1>6. CASE /\ h.do = "reinsert" /\ Continue(Daemon, <<>>)
           /\ scan' = [scan EXCEPT !.stuck = Append(@, p)] /\ qlock' = qlock
  <2>1. Append(scan.stuck, p) \in Seq(Page)
    BY <1>2, <1>4, <1>6, AppendProperties
  <2>2. /\ scan' \in [on : BOOLEAN, queue : Queue, batch : Seq(Page), stuck : Seq(Page), left : Nat]
        /\ scan'.on = scan.on /\ scan'.queue = scan.queue
    BY <1>4, <1>6, <2>1
  <2>3. Stored'
    BY <1>1, <1>6, <2>2 DEF Inv, Typed, Stored
  <2>4. Moves(Daemon) /\ Prepares(Daemon)
    BY <1>a, <1>1, <1>5, <1>6 DEF Moves, Turns, Prepares, Batched
  <2> QED
    BY <1>1, <1>5, <1>6, <2>2, <2>3, <2>4, Drops, DaemonActs
<1>7. ASSUME NEW s \in Seq(Page), Continue(Daemon, Entries("put", s, Inactive) \o <<z>>),
             qlock[Inactive] = Nobody, qlock' = [qlock EXCEPT ![Inactive] = Daemon],
             scan' = [scan EXCEPT !.stuck = <<>>] \/ scan' = [scan EXCEPT !.batch = <<>>]
      PROVE  Inv'
  <2>a. PICK more : more = Entries("put", s, Inactive) \o <<z>>
    OBVIOUS
  <2>1. z \in InstrType /\ z.do = "unlock queue" /\ z.queue = Inactive
    BY <1>c, DaemonActs DEF Instr, InstrType, OnPage, OnQueue, Guarded, Locking, Batched
  <2>2. /\ more \in Seq(InstrType) /\ Shape(more)
        /\ \A x \in ToSet(more) : x.do \in {"put", "unlock queue"} /\ x.queue = Inactive
    <3>1. Ends(z)
      BY <2>1 DEF Ends, First
    <3>2. /\ more \in Seq(InstrType) /\ Shape(more) /\ z \in ToSet(more)
          /\ \A x \in ToSet(more) : x = z \/ Entry("put", Inactive, x)
      BY <1>7, <2>a, <3>1, Putting
    <3> QED
      BY <2>1, <3>2 DEF Entry
  <2>3. GoesOn(Daemon, more)
    BY <1>1, <1>7, <2>a, Continues, DaemonActs
  <2>4. \A x \in ToSet(more), y \in ToSet(Rest(Daemon)) : Follows(x, y)
    <3>1. \A y \in ToSet(Rest(Daemon)) : Follows(h, y)
      BY <1>a, <1>1, Rests, DaemonActs
    <3>2. \A y \in ToSet(Rest(Daemon)) : y.do \notin First /\ y.do \notin Batched \cup Locking /\ y.do # "assign"
      BY <1>1, <3>1 DEF Follows, Batched
    <3> QED
      BY <2>2, <3>2 DEF Follows
  <2>5. /\ qlock' \in [Queue -> Actor \cup {Nobody}] /\ qlock'[Inactive] = Daemon
        /\ \A r \in Queue \ {Inactive} : qlock'[r] = qlock[r]
    BY <1>7, DaemonActs DEF Inv, Typed, Stored
  <2>6. /\ scan' \in [on : BOOLEAN, queue : Queue, batch : Seq(Page), stuck : Seq(Page), left : Nat]
        /\ scan'.on = scan.on /\ scan'.queue = scan.queue
    BY <1>4, <1>7
  <2>7. Moves(Daemon) /\ Prepares(Daemon)
    BY <1>a, <1>1, <1>5, <1>7, <2>5 DEF Moves, Turns, Prepares, Batched
  <2>8. Stored'
    BY <1>1, <2>5, <2>6 DEF Inv, Typed, Stored
  <2>9. \A x \in ToSet(more) : Sound(Daemon, x)'
    BY <2>2, <2>5 DEF Sound, Holds, Serves, Placed, Batched, Locking, Guarded
  <2>10. \A x \in ToSet(more), b \in Actor : \A y \in Todo(b)' :
           Match(Daemon, x, b, y)' /\ Match(b, y, Daemon, x)'
    BY <2>2 DEF Match
  <2>11. \A x \in ToSet(more) : Scanning(x)
    BY <1>3, <2>2 DEF Scanning, OfScan
  <2> QED
    BY <1>5, <2>2, <2>3, <2>4, <2>6, <2>7, <2>8, <2>9, <2>10, <2>11, Stepped, DaemonActs
<1>8. CASE /\ h.do = "reinsert" /\ qlock[Inactive] = Nobody
           /\ qlock' = [qlock EXCEPT ![Inactive] = Daemon]
           /\ Continue(Daemon, Entries("put", <<p>> \o scan.stuck, Inactive) \o <<z>>)
           /\ scan' = [scan EXCEPT !.stuck = <<>>]
  <2>1. <<p>> \o scan.stuck \in Seq(Page)
    <3>1. <<p>> \in Seq(Page)
      BY <1>2, <1>8
    <3> QED
      BY <1>4, <3>1, ConcatProperties
  <2> QED
    BY <1>7, <1>8, <2>1
<1>9. CASE /\ \E s \in {scan.stuck, scan.batch} : Continue(Daemon, Entries("put", s, Inactive) \o <<z>>)
           /\ qlock[Inactive] = Nobody /\ qlock' = [qlock EXCEPT ![Inactive] = Daemon]
           /\ scan' = [scan EXCEPT !.stuck = <<>>] \/ scan' = [scan EXCEPT !.batch = <<>>]
  BY <1>4, <1>7, <1>9
<1> QED
  BY <1>a, <1>b, <1>c, <1>6, <1>8, <1>9, Zenon DEF Reinsert, Does


(***************************************************************************)
(* The invariant                                                           *)
(***************************************************************************)
LEMMA InvInit ==
  ASSUME Init
  PROVE  Inv
<1>1. /\ queue = [p \in Page |-> "none"] /\ flags = [p \in Page |-> {}]
      /\ list = [q \in Queue |-> IF q = Inactive THEN <<Inacthead>> ELSE <<>>]
      /\ cnt = [q \in Queue |-> 0]
      /\ batch = [a \in Actor |-> [q \in Queue |-> <<>>]]
      /\ plock = [p \in Page |-> Nobody] /\ qlock = [q \in Queue |-> Nobody]
      /\ page = [p \in Page |-> "free"] /\ code = [a \in Actor |-> <<>>] /\ scan = NoScan
  BY DEF Init
<1>2. \A a \in Actor : code[a] = <<>> /\ Todo(a) = {} /\ Shape(code[a]) /\ code[a] \in Seq(InstrType)
  <2>1. <<>> \in Seq(InstrType) /\ ToSet(<<>>) = {} /\ Shape(<<>>)
    BY EmptySeq DEF ToSet, Shape
  <2> QED
    BY <1>1, <2>1 DEF Todo
<1>3. \A q \in Queue :
        /\ list[q] \in Seq(Page \cup {Marker, Inacthead}) /\ IsInjective(list[q])
        /\ ToSet(list[q]) = IF q = Inactive THEN {Inacthead} ELSE {}
  <2> TAKE q \in Queue
  <2>a. PICK S : S = Page \cup {Marker, Inacthead}
    OBVIOUS
  <2>1. CASE q = Inactive
    <3>a. PICK s : s = <<Inacthead>>
      OBVIOUS
    <3>1. s \in Seq(S) /\ ToSet(s) = {Inacthead} /\ IsInjective(s)
      BY <2>a, <3>a, Single
    <3>2. list[q] = s
      BY <1>1, <2>1, <3>a
    <3> QED
      BY <2>a, <2>1, <3>1, <3>2
  <2>2. CASE q # Inactive
    <3>1. <<>> \in Seq(S) /\ ToSet(<<>>) = {} /\ IsInjective(<<>>)
      BY EmptySeq DEF ToSet, IsInjective
    <3>2. list[q] = <<>>
      BY <1>1, <2>2
    <3> QED
      BY <2>a, <2>2, <3>1, <3>2
  <2> QED
    BY <2>1, <2>2
<1>4. \A p \in Page, q \in Queue : ~ Filed(p, q)
  BY <1>1 DEF Filed
<1>5. Listed
  <2> SUFFICES ASSUME NEW q \in Queue
               PROVE  /\ IsInjective(list[q])
                      /\ \A p \in Page : p \in ToSet(list[q]) <=> Filed(p, q)
                      /\ Inacthead \in ToSet(list[q]) <=> q = Inactive
                      /\ Marker \in ToSet(list[q]) <=> scan.on /\ q = scan.queue
                      /\ cnt[q] = Cardinality({p \in Page : Filed(p, q)})
    BY DEF Listed
  <2>1. {p \in Page : Filed(p, q)} = {}
    BY <1>4
  <2>2. cnt[q] = Cardinality({p \in Page : Filed(p, q)})
    BY <1>1, <2>1, FS_EmptySet
  <2>3. ~ scan.on
    BY <1>1 DEF NoScan
  <2>4. /\ Marker \notin ToSet(list[q])
        /\ \A p \in Page : p \notin ToSet(list[q])
        /\ Inacthead \in ToSet(list[q]) <=> q = Inactive
    BY <1>3, DaemonActs
  <2> QED
    BY <1>3, <1>4, <2>2, <2>3, <2>4
<1>6. Stored
  <2>1. list \in [Queue -> Seq(Page \cup {Marker, Inacthead})]
    BY <1>1, <1>3
  <2>2. batch \in [Actor -> [Queue -> Seq(Page)]]
    <3>1. <<>> \in Seq(Page)
      BY EmptySeq
    <3> QED
      BY <1>1, <3>1
  <2>3. scan \in [on : BOOLEAN, queue : Queue, batch : Seq(Page), stuck : Seq(Page), left : Nat]
    <3>1. <<>> \in Seq(Page)
      BY EmptySeq
    <3> QED
      BY <1>1, <3>1, DaemonActs DEF NoScan
  <2> QED
    BY <1>1, <2>1, <2>2, <2>3 DEF Stored
<1>7. Typed
  BY <1>1, <1>2, <1>6 DEF Typed
<1>8. Unused /\ Headed
  BY <1>1 DEF Unused, Headed, Logical
<1>9. Scanned
  BY <1>1, <1>2, DaemonActs DEF Scanned, NoScan, Inactive
<1>10. Actors
  BY <1>2 DEF Actors
<1> QED
  BY <1>5, <1>7, <1>8, <1>9, <1>10 DEF Inv

(* A step works on the queues, or leaves them. *)
LEMMA StepKinds ==
  ASSUME [Next]_vars
  PROVE  \/ \E t \in Thread, p \in Page : Begin(t, p) \/ Alloc(t, p)
         \/ \E p \in Page : Destroy(p)
         \/ \E a \in Actor : Executes(a)
         \/ \E t \in Thread, q \in Queue : Drain(t, q)
         \/ Scans
         \/ UNCHANGED lists
<1>1. CASE Works
  BY <1>1, Zenon DEF Works
<1>2. CASE \E a \in Actor : Fail(a)
  BY <1>2 DEF Fail
<1>3. CASE UNCHANGED vars
  BY <1>3 DEF vars
<1> QED
  BY <1>1, <1>2, <1>3, Zenon DEF Next

LEMMA InvStutters ==
  ASSUME Inv, UNCHANGED lists
  PROVE  Inv'
<1>1. UNCHANGED <<queue, flags, list, cnt, batch, plock, qlock, page, code, scan>>
  BY DEF lists
<1>2. Typed' /\ Unused' /\ Headed' /\ Scanned'
  BY <1>1 DEF Inv, Typed, Stored, Unused, Headed, Logical, Scanned, Todo
<1>3. Listed'
  BY <1>1, ListedSame DEF Filed
<1>4. Actors'
  <2>1. Actors
    BY DEF Inv
  <2>2. \A a : Todo(a)' = Todo(a)
    BY <1>1 DEF Todo
  <2>3. \A a, x : Sound(a, x)' <=> Sound(a, x)
    BY <1>1 DEF Sound, Holds, Serves, Placed, Takes, Assigns, Heading, Next1, Todo, Logical
  <2>4. \A a, x, b, y : Match(a, x, b, y)' <=> Match(a, x, b, y)
    BY <1>1 DEF Match, Assigns, Todo
  <2> QED
    BY <1>1, <2>1, <2>2, <2>3, <2>4 DEF Actors
<1> QED
  BY <1>2, <1>3, <1>4 DEF Inv

LEMMA DestroyKeeps ==
  ASSUME Inv, NEW p \in Page, Destroy(p)
  PROVE  Inv'
<1>1. /\ page[p] = "used" /\ page' = [page EXCEPT ![p] = "dead"]
      /\ UNCHANGED <<queue, flags, list, cnt, batch, plock, qlock, code, scan>>
  BY DEF Destroy
<1>2. /\ page' \in [Page -> {"free", "taking", "used", "wired", "dead"}] /\ page'[p] = "dead"
      /\ \A o \in Page \ {p} : page'[o] = page[o]
  BY <1>1 DEF Inv, Typed, Stored
<1>3. Typed'
  BY <1>1, <1>2 DEF Inv, Typed, Stored
<1>4. Unused'
  BY <1>1, <1>2 DEF Inv, Unused, Logical
<1>5. Headed' /\ Scanned'
  BY <1>1 DEF Inv, Headed, Scanned, Todo
<1>6. Listed'
  BY <1>1, ListedSame DEF Filed
<1>7. Actors'
  <2>1. Actors
    BY DEF Inv
  <2>2. \A a : Todo(a)' = Todo(a)
    BY <1>1 DEF Todo
  <2>3. ASSUME NEW a \in Actor, NEW x \in Todo(a), Sound(a, x)
        PROVE  Sound(a, x)'
    <3>1. x \in InstrType
      BY <2>3, Basics
    <3>2. Holds(a, x)' /\ Placed(a, x)'
      BY <1>1, <2>3 DEF Sound, Holds, Placed, Takes, Assigns, Heading, Next1, Todo
    <3>3. x.page \in Page => page'[x.page] = page[x.page] \/ x.page = p
      BY <1>2
    <3>4. x.do \in Guarded \cup {"paged", "use"} => x.page \in Page
      BY <3>1 DEF InstrType, OnPage
    <3>5. Serves(a, x)'
      BY <1>1, <1>2, <2>3, <3>3, <3>4 DEF Sound, Serves, Heading, Next1, Logical
    <3> QED
      BY <3>2, <3>5 DEF Sound
  <2>4. \A a, x, b, y : Match(a, x, b, y)' <=> Match(a, x, b, y)
    BY <1>1 DEF Match, Assigns, Todo
  <2> QED
    BY <1>1, <2>1, <2>2, <2>3, <2>4 DEF Actors
<1> QED
  BY <1>3, <1>4, <1>5, <1>6, <1>7 DEF Inv

LEMMA InvNext ==
  ASSUME Inv, [Next]_vars
  PROVE  Inv'
<1>1. CASE \E t \in Thread, p \in Page : Begin(t, p) \/ Alloc(t, p)
  BY <1>1, BeginKeeps, AllocKeeps
<1>2. CASE \E a \in Actor : Executes(a)
  <2> SUFFICES ASSUME NEW a \in Actor, Executes(a)
               PROVE  Inv'
    BY <1>2
  <2> QED
    BY UseKeeps, UnlockPageKeeps, UnlockQueueKeeps, MarkKeeps, DeferKeeps, DequeueNowKeeps,
       ClearKeeps, SubmitKeeps, FinishKeeps, CheckKeeps, ApplyKeeps, SettleKeeps, Zenon DEF Executes
<1>3. CASE \E t \in Thread, q \in Queue : Drain(t, q)
  BY <1>3, DrainKeeps DEF Actor
<1>4. CASE Scans
  BY <1>4, BeginScanKeeps, CollectKeeps, CollectOneKeeps, LookKeeps, DecideKeeps, DecideLaundryKeeps,
     CleanKeeps, ReinsertKeeps, PutKeeps, StopScanKeeps, EndScanKeeps, Zenon DEF Scans
<1>5. CASE \E p \in Page : Destroy(p)
  BY <1>5, DestroyKeeps
<1>6. CASE UNCHANGED lists
  BY <1>6, InvStutters
<1> QED
  BY <1>1, <1>2, <1>3, <1>4, <1>5, <1>6, StepKinds

(* A batch holds no more than VM_BATCHQUEUE_SIZE pages. *)
Sized == \A a \in Actor, q \in Queue : Len(batch[a][q]) <= BatchSize

LEMMA SizedInit ==
  ASSUME Init
  PROVE  Sized
BY QueuesAssumption DEF Init, Sized

LEMMA SizedNext ==
  ASSUME Inv, Sized, [Next]_vars
  PROVE  Sized'
<1>1. batch \in [Actor -> [Queue -> Seq(Page)]] /\ BatchSize \in Nat
  BY QueuesAssumption DEF Inv, Typed, Stored
<1>2. CASE batch' = batch
  BY <1>2 DEF Sized
<1>3. ASSUME NEW a, NEW q, batch' = [batch EXCEPT ![a][q] = <<>>]
      PROVE  Sized'
  <2> SUFFICES ASSUME NEW b \in Actor, NEW r \in Queue
               PROVE  Len(batch'[b][r]) <= BatchSize
    BY DEF Sized
  <2>1. batch'[b][r] \in {batch[b][r], <<>>}
    BY <1>1, <1>3
  <2> QED
    BY <1>1, <2>1 DEF Sized
<1>4. ASSUME NEW a \in Actor, Submit(a)
      PROVE  Sized'
  <2>a. PICK p, q : p = Next1(a).page /\ q = Next1(a).queue
    OBVIOUS
  <2>1. \/ Len(batch[a][q]) < BatchSize /\ batch' = [batch EXCEPT ![a][q] = Append(@, p)]
        \/ batch' = [batch EXCEPT ![a][q] = <<>>]
    BY <1>4, <2>a DEF Submit
  <2>2. CASE Len(batch[a][q]) < BatchSize /\ batch' = [batch EXCEPT ![a][q] = Append(@, p)]
    <3> SUFFICES ASSUME NEW b \in Actor, NEW r \in Queue
                 PROVE  Len(batch'[b][r]) <= BatchSize
      BY DEF Sized
    <3>1. CASE b = a /\ r = q
      <4>1. batch[a][q] \in Seq(Page) /\ batch'[b][r] = Append(batch[a][q], p)
        BY <1>1, <2>2, <3>1
      <4>2. Len(Append(batch[a][q], p)) = Len(batch[a][q]) + 1 /\ Len(batch[a][q]) \in Nat
        BY <4>1, LenProperties
      <4> QED
        BY <1>1, <2>2, <4>1, <4>2
    <3>2. CASE ~ (b = a /\ r = q)
      BY <1>1, <2>2, <3>2 DEF Sized
    <3> QED
      BY <3>1, <3>2
  <2> QED
    BY <1>3, <2>1, <2>2
<1>5. CASE \E t \in Thread, q \in Queue : Drain(t, q)
  BY <1>3, <1>5 DEF Drain
<1>6. CASE \/ \E t \in Thread, p \in Page : Begin(t, p) \/ Alloc(t, p)
           \/ \E p \in Page : Destroy(p)
  BY <1>2, <1>6 DEF Begin, Alloc, Destroy
<1>7. CASE \E a \in Actor : Executes(a)
  <2> SUFFICES ASSUME NEW a \in Actor, Executes(a), ~ Submit(a)
               PROVE  batch' = batch
    BY <1>2, <1>4, <1>7
  <2> QED
    BY Zenon DEF Executes, Use, UnlockPage, UnlockQueue, Mark, Defer, DequeueNow, Clear, Finish,
       Check, Apply, Settle
<1>8. CASE Scans
  BY <1>2, <1>8, Zenon DEF Scans, BeginScan, Collect, CollectOne, Look, Decide, DecideLaundry, Clean,
     Reinsert, Put, StopScan, EndScan
<1>9. CASE UNCHANGED lists
  BY <1>2, <1>9 DEF lists
<1> QED
  BY <1>5, <1>6, <1>7, <1>8, <1>9, StepKinds


(* What the lists hold while nobody holds their lock, and while somebody   *)
(* does.                                                                   *)
LEMMA ListsAgreeFollows ==
  ASSUME Inv
  PROVE  ListsAgree
<1> SUFFICES ASSUME NEW q \in Queue
             PROVE  /\ Members(q) = {p \in Page : queue[p] = q /\ "enqueued" \in flags[p]}
                    /\ cnt[q] = Cardinality(Members(q)) /\ IsInjective(list[q])
  BY DEF ListsAgree
<1>1. /\ IsInjective(list[q]) /\ cnt[q] = Cardinality({p \in Page : Filed(p, q)})
      /\ \A p \in Page : p \in ToSet(list[q]) <=> Filed(p, q)
  BY DEF Inv, Listed
<1>2. Members(q) = {p \in Page : Filed(p, q)}
  BY <1>1 DEF Members
<1>3. {p \in Page : Filed(p, q)} = {p \in Page : queue[p] = q /\ "enqueued" \in flags[p]}
  BY DEF Filed
<1> QED
  BY <1>1, <1>2, <1>3

LEMMA TypeOKFollows ==
  ASSUME Inv, Sized
  PROVE  TypeOK
<1>1. Stored
  BY DEF Inv, Typed
<1>2. cnt \in [Queue -> 0..Cardinality(Page)]
  <2> SUFFICES ASSUME NEW q \in Queue
               PROVE  cnt[q] \in 0..Cardinality(Page)
    BY <1>1 DEF Stored
  <2>a. PICK S : S = {p \in Page : Filed(p, q)}
    OBVIOUS
  <2>1. cnt[q] = Cardinality(S) /\ S \subseteq Page
    BY <2>a DEF Inv, Listed
  <2>2. Cardinality(S) \in Nat /\ Cardinality(Page) \in Nat /\ Cardinality(S) <= Cardinality(Page)
    BY <2>1, QueuesAssumption, FS_Subset, FS_CardinalityType
  <2> QED
    BY <2>1, <2>2
<1>3. \A q \in Queue : list[q] \in Seq(Page \cup {Marker, Inacthead})
  BY <1>1 DEF Stored
<1>4. \A a \in Actor, q \in Queue : batch[a][q] \in Seq(Page) /\ Len(batch[a][q]) <= BatchSize
  BY <1>1 DEF Stored, Sized
<1> QED
  BY <1>1, <1>2, <1>3, <1>4 DEF Stored, TypeOK

(* A step that leaves field and "dequeue" flag alone moves no page. *)
LEMMA StaysThere ==
  ASSUME NEW p, queue'[p] = queue[p], "dequeue" \in flags'[p] <=> "dequeue" \in flags[p]
  PROVE  Logical(p)' = Logical(p)
BY DEF Logical

(* Only the instructions of an operation on a locked page, a dequeue that  *)
(* was asked for and the daemon's decision change where a page belongs.    *)
LEMMA MovesGuarded ==
  ASSUME Inv, [Next]_vars
  PROVE  MembershipKept
<1> SUFFICES ASSUME NEW o \in Page, Logical(o)' # Logical(o)
             PROVE  plock[o] # Nobody \/ plock'[o] # Nobody \/ page[o] \in {"free", "taking"}
  BY DEF MembershipKept
<1>0. Nobody \notin Actor
  BY QueuesAssumption
<1>1. queue' # queue \/ flags' # flags
  BY DEF Logical
<1>2. queue \in [Page -> Queue \cup {"none"}] /\ flags \in [Page -> SUBSET Flag]
  BY DEF Inv, Typed, Stored
<1>3. ASSUME NEW a \in Actor, NEW h, h = Next1(a), code[a] # <<>>, h.do \in Guarded, h.page = o
      PROVE  plock[o] # Nobody
  <2>1. Sound(a, h)
    BY <1>3, NextIs
  <2> QED
    BY <1>0, <1>3, <2>1 DEF Sound, Holds
<1>4. ASSUME NEW a \in Actor, Executes(a)
      PROVE  plock[o] # Nobody \/ page[o] \in {"free", "taking"}
  <2>a. PICK h : h = Next1(a)
    OBVIOUS
  <2>b. PICK p : p = h.page
    OBVIOUS
  <2>1. CASE Mark(a)
    <3>1. /\ code[a] # <<>> /\ h.do \in Guarded
          /\ \/ queue' = [queue EXCEPT ![p] = h.queue] /\ UNCHANGED flags
             \/ flags' = [flags EXCEPT ![p] = @ \cup {h.do}] /\ UNCHANGED queue
      BY <2>a, <2>b, <2>1 DEF Mark, Guarded
    <3>2. o = p
      BY <1>2, <3>1 DEF Logical
    <3> QED
      BY <1>3, <2>a, <2>b, <3>1, <3>2
  <2>2. CASE Defer(a)
    <3>1. /\ code[a] # <<>> /\ h.do \in Guarded /\ UNCHANGED queue
          /\ UNCHANGED flags \/ flags' = [flags EXCEPT ![p] = @ \cup {"dequeue"}]
      BY <2>a, <2>b, <2>2 DEF Defer, Does, Guarded
    <3>2. o = p
      BY <1>2, <3>1 DEF Logical
    <3> QED
      BY <1>3, <2>a, <2>b, <3>1, <3>2
  <2>3. CASE DequeueNow(a)
    <3>1. /\ code[a] # <<>> /\ h.do = "dequeue" /\ UNCHANGED flags
          /\ UNCHANGED queue \/ queue' = [queue EXCEPT ![p] = "none"]
      BY <2>a, <2>b, <2>3 DEF DequeueNow, Does, Detach
    <3>2. o = p
      BY <1>2, <3>1 DEF Logical
    <3>3. Sound(a, h)
      BY <2>a, <3>1, NextIs
    <3>4. plock[p] = a \/ Takes(a, p)
      BY <2>b, <3>1, <3>3 DEF Sound, Holds
    <3>5. ASSUME Takes(a, p)
          PROVE  page[p] = "taking"
      <4>1. PICK x \in Todo(a) : x.do = "use" /\ x.page = p
        BY <3>5 DEF Takes
      <4> QED
        BY <4>1, Basics DEF Sound, Serves
    <3> QED
      BY <1>0, <3>2, <3>4, <3>5
  <2>4. CASE Clear(a)
    <3>1. /\ code[a] # <<>> /\ h.do \in {"clear", "clear unlock"} /\ UNCHANGED queue
          /\ flags' = [flags EXCEPT ![p] = {}]
      BY <2>a, <2>b, <2>4 DEF Clear, Does
    <3>2. Sound(a, h)
      BY <2>a, <3>1, NextIs
    <3>3. queue[p] = "none"
      BY <2>b, <3>1, <3>2 DEF Sound, Placed
    <3>4. \A y \in Page \ {p} : flags'[y] = flags[y]
      BY <1>2, <3>1
    <3> QED
      BY <3>1, <3>3, <3>4 DEF Logical
  <2>5. CASE Finish(a)
    <3>1. /\ code[a] # <<>> /\ h.do \in Guarded /\ UNCHANGED queue
          /\ UNCHANGED flags \/ flags' = [flags EXCEPT ![p] = {}]
      BY <2>a, <2>b, <2>5 DEF Finish, Does, Guarded
    <3>2. o = p
      BY <1>2, <3>1 DEF Logical
    <3> QED
      BY <1>3, <2>a, <2>b, <3>1, <3>2
  <2>6. CASE Apply(a)
    <3>1. \/ UNCHANGED <<queue, flags>>
          \/ "dequeue" \in flags[p] /\ UNCHANGED flags /\ queue' = [queue EXCEPT ![p] = "none"]
          \/ UNCHANGED queue /\ flags' = [flags EXCEPT ![p] = @ \cup {"enqueued"}]
      BY <2>a, <2>b, <2>6, Zenon DEF Apply, Detach
    <3> QED
      BY <1>2, <3>1 DEF Logical
  <2>7. CASE Settle(a)
    <3>1. UNCHANGED queue /\ flags' = [flags EXCEPT ![p] = @ \ {"requeue", "head"}]
      BY <2>a, <2>b, <2>7 DEF Settle
    <3> QED
      BY <1>2, <3>1 DEF Logical
  <2>8. CASE Use(a) \/ UnlockPage(a) \/ UnlockQueue(a) \/ Submit(a) \/ Check(a)
    BY <1>1, <2>8 DEF Use, UnlockPage, UnlockQueue, Submit, Check
  <2> QED
    BY <1>4, <2>1, <2>2, <2>3, <2>4, <2>5, <2>6, <2>7, <2>8, Zenon DEF Executes
<1>5. ASSUME Scans
      PROVE  plock'[o] # Nobody
  <2>a. PICK h : h = Next1(Daemon)
    OBVIOUS
  <2>b. PICK p : p = h.page
    OBVIOUS
  <2>1. CASE Decide
    <3>1. /\ plock' = [plock EXCEPT ![p] = Daemon]
          /\ \/ UNCHANGED <<queue, flags>>
             \/ UNCHANGED queue /\ flags' = [flags EXCEPT ![p] = @ \cup {"requeue"}]
             \/ UNCHANGED flags /\ queue' = [queue EXCEPT ![p] = "none"]
      BY <2>a, <2>b, <2>1, Zenon DEF Decide
    <3>2. o = p
      BY <1>2, <3>1 DEF Logical
    <3>3. plock \in [Page -> Actor \cup {Nobody}]
      BY DEF Inv, Typed, Stored
    <3> QED
      BY <3>1, <3>2, <3>3, DaemonActs
  <2>2. CASE CollectOne
    <3>1. UNCHANGED queue /\ \/ flags' = flags
                             \/ \E m : flags' = [flags EXCEPT ![m] = @ \ {"enqueued"}]
      BY <2>2, Zenon DEF CollectOne
    <3> QED
      BY <1>2, <3>1 DEF Logical
  <2>3. CASE Put
    <3>1. /\ UNCHANGED queue
          /\ \/ flags' = flags
             \/ flags' = [flags EXCEPT ![p] = (@ \ {"requeue", "head"}) \cup {"enqueued"}]
      BY <2>a, <2>b, <2>3 DEF Put
    <3> QED
      BY <1>2, <3>1 DEF Logical
  <2>4. CASE \/ \E q \in Queue \ {"active"} : BeginScan(q)
             \/ Collect \/ Look \/ DecideLaundry \/ Clean \/ Reinsert \/ StopScan \/ EndScan
    BY <1>1, <2>4, Zenon DEF BeginScan, Collect, Look, DecideLaundry, Clean, Reinsert, StopScan, EndScan
  <2> QED
    BY <1>5, <2>1, <2>2, <2>3, <2>4, Zenon DEF Scans
<1>6. CASE \/ \E t \in Thread, p \in Page : Begin(t, p) \/ Alloc(t, p)
           \/ \E p \in Page : Destroy(p)
           \/ \E t \in Thread, q \in Queue : Drain(t, q)
  BY <1>1, <1>6, Zenon DEF Begin, Alloc, Destroy, Drain
<1>7. CASE UNCHANGED lists
  BY <1>1, <1>7 DEF lists
<1> QED
  BY <1>4, <1>5, <1>6, <1>7, StepKinds


(* Lists, fields, flags and counts agree whenever a queue's lock is free:  *)
(* up to a failed assertion of vm_pqbatch_process_page nothing breaks them.*)
THEOREM PagesFiled == Spec => [](TypeOK /\ ListsAgree)
<1>1. Init => Inv /\ Sized
  BY InvInit, SizedInit
<1>2. Inv /\ Sized /\ [Next]_vars => Inv' /\ Sized'
  BY InvNext, SizedNext
<1>3. Inv /\ Sized => TypeOK /\ ListsAgree
  BY TypeOKFollows, ListsAgreeFollows
<1> QED
  BY <1>1, <1>2, <1>3, PTL DEF Spec

(* Where a page belongs changes by the hand of whoever holds its lock or   *)
(* is allocating it.                                                       *)
THEOREM MembershipIsKept == Spec => [][MembershipKept]_vars
<1>1. Init => Inv
  BY InvInit
<1>2. Inv /\ [Next]_vars => Inv'
  BY InvNext
<1>3. Inv /\ [Next]_vars => [MembershipKept]_vars
  BY MovesGuarded
<1> QED
  BY <1>1, <1>2, <1>3, PTL DEF Spec
=============================================================================
