-------------------------- MODULE FreeCountProofs ---------------------------
(***************************************************************************)
(* The sets of short domains follow the free-page counts, and whoever      *)
(* sleeps for memory will be woken, for any number of domains and threads  *)
(* and any limits in the order the code gives them.                        *)
(***************************************************************************)
EXTENDS FreeCount, SequenceTheorems, TLAPS

(* What a thread may have left to do. *)
For(do) == {Step(do, {d}) : d \in Domain}

Wakeups == For("wakeup") \cup For("wake it")

Settings == For("set")

WaitsFor == {Step("wait doms", ds) : ds \in SUBSET Domain}

WaitsForAll == {Step("wait min", Domain), Step("wait severe", Domain)}

Tasks == Wakeups \cup Settings \cup For("clear") \cup For("wait") \cup WaitsFor \cup WaitsForAll

Codes == {<<>>} \cup {<<s>> : s \in Tasks} \cup {<<w, s>> : w \in Wakeups, s \in Settings}

(* A domain is wrongly in a set only while somebody has yet to clear it,   *)
(* and wrongly out of one only while somebody has yet to set it: what      *)
(* SetsFollowCounts says, and which of the two calls will put it right.    *)
MinRight(d) ==
  IF d \in minset THEN PagingMin(d) \/ Pending("clear", d)
  ELSE ~ PagingMin(d) \/ Pending("set", d)

SevereRight(d) ==
  IF d \in severeset THEN PagingSevere(d) \/ Pending("clear", d)
  ELSE ~ PagingSevere(d) \/ Pending("set", d)

RightCallPending == \A d \in Domain : MinRight(d) /\ SevereRight(d)

(* Who sleeps for pageout pages sleeps for those of one domain. *)
OneDomain ==
  \A t \in Caller : asleep[t].on = "pageout" => \E d \in Domain : asleep[t].domains = {d}

(* The inductive invariant. *)
Inv ==
  /\ TypeOK /\ code \in [Caller -> Codes]
  /\ RightCallPending /\ SleepersJustified /\ OneDomain

(***************************************************************************)
(* What there is left to do.                                               *)
(***************************************************************************)
(* A task is known by what it does and for which domains. *)
LEMMA StepFields ==
  ASSUME NEW a, NEW x
  PROVE  /\ Step(a, x).do = a /\ Step(a, x).domains = x
         /\ \A b, y : Step(a, x) = Step(b, y) => a = b /\ x = y
<1>1. \A b, y : Step(b, y).do = b /\ Step(b, y).domains = y
  BY DEF Step
<1> QED
  BY <1>1

(* One task, or a wakeup and the setting that follows it. *)
LEMMA CodesOf ==
  /\ <<>> \in Codes /\ \A e : ~ Contains(<<>>, e)
  /\ \A s \in Tasks : <<s>> \in Codes /\ \A e : Contains(<<s>>, e) <=> e = s
  /\ \A w \in Wakeups, s \in Settings :
       <<w, s>> \in Codes /\ \A e : Contains(<<w, s>>, e) <=> e = w \/ e = s
  /\ Wakeups \subseteq Tasks /\ Settings \subseteq Tasks
<1>1. Wakeups \subseteq Tasks /\ Settings \subseteq Tasks
  BY DEF Tasks
<1>2. \A e : ~ Contains(<<>>, e)
  BY DEF Contains
<1>3. ASSUME NEW s, NEW e
      PROVE  Contains(<<s>>, e) <=> e = s
  BY DEF Contains
<1>4. ASSUME NEW w, NEW s, NEW e
      PROVE  Contains(<<w, s>>, e) <=> e = w \/ e = s
  BY DEF Contains
<1> QED
  BY <1>1, <1>2, <1>3, <1>4 DEF Codes

(* What the code puts together of them. *)
LEMMA Concatenations ==
  ASSUME NEW w, NEW s
  PROVE  /\ <<>> \o <<>> = <<>> /\ <<w>> \o <<>> = <<w>>
         /\ <<>> \o <<s>> = <<s>> /\ <<w>> \o <<s>> = <<w, s>>
<1>1. <<>> \in Seq({w, s}) /\ <<w>> \in Seq({w, s}) /\ <<s>> \in Seq({w, s})
  OBVIOUS
<1>2. <<>> \o <<>> = <<>> /\ <<w>> \o <<>> = <<w>> /\ <<>> \o <<s>> = <<s>>
  BY <1>1, ConcatEmptySeq
<1>3. <<w>> \o <<s>> = <<w, s>>
  <2> DEFINE ws == <<w>> \o <<s>>
  <2>1. Len(<<w>>) = 1 /\ Len(<<s>>) = 1 /\ <<w>>[1] = w /\ <<s>>[1] = s
    OBVIOUS
  <2>2. /\ ws \in Seq({w, s}) /\ Len(ws) = 1 + 1
        /\ \A i \in 1..(1 + 1) : ws[i] = IF i <= 1 THEN <<w>>[i] ELSE <<s>>[i - 1]
    BY <1>1, <2>1, ConcatProperties
  <2>3. ws[1] = w /\ ws[2] = s /\ Len(ws) = 2
    BY <2>1, <2>2
  <2> HIDE DEF ws
  <2>4. ws = <<w, s>>
    BY <2>2, <2>3
  <2> QED
    BY <2>4 DEF ws
<1> QED
  BY <1>2, <1>3

(* The first task, and what is left when it is done. *)

LEMMA CodeParts ==
  ASSUME NEW c \in Codes, c # <<>>
  PROVE  /\ Head(c) \in Tasks /\ Tail(c) \in Codes
         /\ \A e : Contains(c, e) <=> e = Head(c) \/ Contains(Tail(c), e)
         /\ Head(c) \notin Wakeups => Tail(c) = <<>>
         /\ Tail(c) = <<>> \/ \E s \in Settings : Tail(c) = <<s>>
<1>1. CASE \E s \in Tasks : c = <<s>>
  <2>1. PICK s \in Tasks : c = <<s>>
    BY <1>1
  <2>2. Head(c) = s /\ Tail(c) = <<>>
    BY <2>1
  <2> QED
    BY <2>1, <2>2, CodesOf
<1>2. CASE \E w \in Wakeups, s \in Settings : c = <<w, s>>
  <2>1. PICK w \in Wakeups, s \in Settings : c = <<w, s>>
    BY <1>2
  <2>2. Head(c) = w /\ Tail(c) = <<s>>
    BY <2>1
  <2> QED
    BY <2>1, <2>2, CodesOf
<1> QED
  BY <1>1, <1>2 DEF Codes

(* Whoever sets or clears, or wakes the worker, does it for one domain. *)
LEMMA AtDomain ==
  ASSUME NEW t \in Caller, code \in [Caller -> Codes],
         NEW do \in {"wakeup", "wake it", "set", "clear", "wait"}, Does(t, do)
  PROVE  At(t) \in Domain /\ Head(code[t]) = Step(do, {At(t)})
<1>1. code[t] \in Codes /\ code[t] # <<>> /\ Head(code[t]).do = do
  BY DEF Does
<1>2. Head(code[t]) \in Tasks
  BY <1>1, CodeParts
<1>3. Head(code[t]) \in For(do)
  <2>1. ASSUME NEW b, NEW s \in For(b)
        PROVE  s.do = b
    <3>1. PICK d \in Domain : s = Step(b, {d})
      BY DEF For
    <3> QED
      BY <3>1, StepFields
  <2>2. ASSUME NEW s \in WaitsFor
        PROVE  s.do = "wait doms"
    <3>1. PICK ds \in SUBSET Domain : s = Step("wait doms", ds)
      BY DEF WaitsFor
    <3> QED
      BY <3>1, StepFields
  <2>3. ASSUME NEW s \in WaitsForAll
        PROVE  s.do \in {"wait min", "wait severe"}
    <3>1. s = Step("wait min", Domain) \/ s = Step("wait severe", Domain)
      BY DEF WaitsForAll
    <3>2. Step("wait min", Domain).do = "wait min" /\ Step("wait severe", Domain).do = "wait severe"
      BY StepFields
    <3> QED
      BY <3>1, <3>2
  <2> DEFINE h == Head(code[t])
  <2> HIDE DEF h
  <2>4. h \notin WaitsFor /\ h \notin WaitsForAll
    BY <1>1, <2>2, <2>3 DEF h
  <2>5. \E b \in {"wakeup", "wake it", "set", "clear", "wait"} : h \in For(b)
    BY <1>2, <2>4 DEF Tasks, Wakeups, Settings, h
  <2> QED
    BY <1>1, <2>1, <2>5 DEF h
<1>4. PICK d \in Domain : Head(code[t]) = Step(do, {d})
  BY <1>3 DEF For
<1>5. Head(code[t]).domains = {d}
  BY <1>4, StepFields
<1>6. At(t) = d
  BY <1>5 DEF At
<1> QED
  BY <1>4, <1>6

(***************************************************************************)
(* What is pending, before and after a step of one thread.                 *)
(***************************************************************************)
(* What is pending stays so, if t still has to do what it had to do. *)
LEMMA PendingKept ==
  ASSUME NEW t \in Caller, NEW c \in Codes, code \in [Caller -> Codes],
         code' = [code EXCEPT ![t] = c], NEW do, NEW d, Pending(do, d),
         Contains(code[t], Step(do, {d})) => Contains(c, Step(do, {d}))
  PROVE  Pending(do, d)'
<1>1. PICK s \in Caller : Contains(code[s], Step(do, {d}))
  BY DEF Pending
<1>2. code'[t] = c /\ (s # t => code'[s] = code[s])
  BY DEF Codes
<1>3. Contains(code'[s], Step(do, {d}))
  BY <1>1, <1>2
<1> QED
  BY <1>3 DEF Pending

(* What t has now to do is pending. *)
LEMMA PendingNow ==
  ASSUME NEW t \in Caller, NEW c \in Codes, code \in [Caller -> Codes],
         code' = [code EXCEPT ![t] = c], NEW do, NEW d, Contains(c, Step(do, {d}))
  PROVE  Pending(do, d)'
BY DEF Pending

(* A thread that has done its first task leaves what others have to do,    *)
(* and what it has yet to do itself.                                       *)
LEMMA DoneTask ==
  ASSUME NEW t \in Caller, code \in [Caller -> Codes],
         NEW do \in {"wakeup", "wake it", "set", "clear", "wait"}, Does(t, do), Done(t)
  PROVE  /\ code' \in [Caller -> Codes]
         /\ \A b \in {"set", "clear"} : \A d \in Domain :
              Pending(b, d) /\ ~ (b = do /\ d = At(t)) => Pending(b, d)'
<1>1. code[t] \in Codes /\ code[t] # <<>> /\ code' = [code EXCEPT ![t] = Tail(code[t])]
  BY DEF Does, Done
<1>2. Tail(code[t]) \in Codes
  BY <1>1, CodeParts
<1>3. Head(code[t]) = Step(do, {At(t)})
  BY AtDomain
<1>4. ASSUME NEW b \in {"set", "clear"}, NEW d \in Domain, Pending(b, d), ~ (b = do /\ d = At(t))
      PROVE  Pending(b, d)'
  <2>1. Step(b, {d}) # Step(do, {At(t)})
    <3>1. b # do \/ {d} # {At(t)}
      BY <1>4
    <3>2. Step(b, {d}).do = b /\ Step(b, {d}).domains = {d}
      BY StepFields
    <3>3. Step(do, {At(t)}).do = do /\ Step(do, {At(t)}).domains = {At(t)}
      BY StepFields
    <3> QED
      BY <3>1, <3>2, <3>3

  <2>2. Contains(code[t], Step(b, {d})) =>
 Contains(Tail(code[t]), Step(b, {d}))
    BY <1>1, <1>3, <2>1, CodeParts
  <2> QED
    BY <1>1, <1>2, <1>4, <2>2, PendingKept
<1> QED
  BY <1>1, <1>2, <1>4

(* Nobody has less to set or to clear than before. *)

CallsKept ==
  \A d \in Domain :
    /\ Pending("set", d) => Pending("set", d)'
    /\ Pending("clear", d) => Pending("clear", d)'

(* A thread that had nothing to do takes nothing from what is pending. *)
LEMMA IdleKeepsCalls ==
  ASSUME NEW t \in Caller, NEW c \in Codes, code \in [Caller -> Codes],
         code' = [code EXCEPT ![t] = c], code[t] = <<>>
  PROVE  CallsKept
<1>1. \A do, d : ~ Contains(code[t], Step(do, {d}))
  BY CodesOf
<1>2. \A do, d : Pending(do, d) => Pending(do, d)'
  BY <1>1, PendingKept
<1> QED
  BY <1>2 DEF CallsKept

(* Nor does one that has done something else. *)
LEMMA DoneKeepsCalls ==
  ASSUME NEW t \in Caller, code \in [Caller -> Codes], code[t] # <<>>,
         NEW c \in Codes, code' = [code EXCEPT ![t] = c],
         Head(code[t]).do \notin {"set", "clear"},
         \A e : Contains(Tail(code[t]), e) => Contains(c, e)
  PROVE  CallsKept
<1>1. code[t] \in Codes
  OBVIOUS
<1>2. \A e : Contains(code[t], e) <=> e = Head(code[t]) \/ Contains(Tail(code[t]), e)
  BY <1>1, CodeParts
<1>3. \A d \in Domain, do \in {"set", "clear"} : Head(code[t]) # Step(do, {d})
  BY StepFields
<1>4. \A d \in Domain, do \in {"set", "clear"} :
        Contains(code[t], Step(do, {d})) => Contains(c, Step(do, {d}))
  BY <1>2, <1>3
<1> QED
  BY <1>4, PendingKept DEF CallsKept

(***************************************************************************)
(* What a step can disturb.                                                *)
(***************************************************************************)
(* The counts and the sets as they are, and every call still pending.      *)
LEMMA RightCallKept ==
  ASSUME Inv, CallsKept, free' = free, minset' = minset, severeset' = severeset
  PROVE  RightCallPending'
BY DEF Inv, RightCallPending, MinRight, SevereRight, CallsKept, PagingMin, PagingSevere

(* What SleepersJustified and OneDomain say of one thread. *)
Justified(t) ==
  LET c == asleep[t] IN
  /\ c.on = "min" => waiters["min"] /\ c.domains \subseteq minset
  /\ c.on = "severe" => waiters["severe"] /\ c.domains \subseteq severeset
  /\ c.on = "pageout" =>
       \E d \in Domain :
         /\ c.domains = {d} /\ needed[d]
         /\ free[d] >= PageoutFreeMin => Pending("clear", d)

(* They are about one thread at a time. *)
LEMMA EachJustified ==
  SleepersJustified /\ OneDomain <=> \A t \in Caller : Justified(t)
BY DEF SleepersJustified, OneDomain, Justified

(* What justifies a sleeper stays, where the sets only grow, the sleepers  *)
(* stay counted and nobody takes a call to clear away.                     *)
LEMMA JustifiedKept ==
  ASSUME NEW t \in Caller, Justified(t), asleep'[t] = asleep[t], free' = free,
         \A d \in Domain : Pending("clear", d) => Pending("clear", d)',
         minset \subseteq minset', severeset \subseteq severeset',
         \A on \in {"min", "severe"} : waiters[on] => waiters'[on],
         \A d \in Domain : needed[d] => needed'[d]
  PROVE  Justified(t)'
BY DEF Justified

(* What is so when nobody falls asleep for memory. *)
LEMMA SleepersKept ==
  ASSUME Inv, free' = free,
         \A d \in Domain : Pending("clear", d) => Pending("clear", d)',
         minset \subseteq minset', severeset \subseteq severeset',
         waiters' = waiters, needed' = needed,
         \A t \in Caller : asleep'[t] = asleep[t] \/ asleep'[t].on \in {"tick", "no"}
  PROVE  SleepersJustified' /\ OneDomain'
<1> SUFFICES ASSUME NEW t \in Caller
             PROVE  Justified(t)'
  BY DEF SleepersJustified, OneDomain, Justified
<1>1. CASE asleep'[t] = asleep[t]
  <2>1. Justified(t)
    BY EachJustified DEF Inv
  <2> QED
    BY <1>1, <2>1, JustifiedKept
<1>2. CASE asleep'[t].on \in {"tick", "no"}
  BY <1>2 DEF Justified
<1> QED
  BY <1>1, <1>2

(* The limits are numbers, and a request leaves a page to take.            *)
LEMMA Limits ==
  ASSUME LimitsAssumption
  PROVE  /\ InterruptFreeMin \in Nat /\ PageoutFreeMin \in Nat /\ FreeReserved \in Nat
         /\ FreeSevere \in Nat /\ FreeMin \in Nat /\ WakeupThresh \in Nat /\ Total \in Nat
         /\ \A t : \A class \in {"interrupt", "system", "normal"} : LimitOf(t, class) \in Nat
<1>1. /\ InterruptFreeMin \in Nat /\ PageoutFreeMin \in Nat /\ FreeReserved \in Nat
      /\ FreeSevere \in Nat /\ FreeMin \in Nat /\ WakeupThresh \in Nat /\ Total \in Nat
  BY DEF LimitsAssumption
<1> QED
  BY <1>1 DEF LimitOf

(* A step that only changes what a thread has to do. *)
LEMMA OnlyCode ==
  ASSUME Inv, NEW t \in Caller, NEW c \in Codes, code' = [code EXCEPT ![t] = c], CallsKept,
         UNCHANGED <<free, minset, severeset, waiters, needed, asleep, wanted, late, worker>>
  PROVE  Inv'
<1>1. RightCallPending' /\ SleepersJustified' /\ OneDomain'
  BY RightCallKept, SleepersKept DEF CallsKept
<1>2. TypeOK' /\ code' \in [Caller -> Codes]
  BY DEF Inv, TypeOK
<1> QED
  BY <1>1, <1>2 DEF Inv

(***************************************************************************)
(* The steps, one lemma each.                                              *)
(***************************************************************************)
(* A page is allocated: a count that falls below a limit is followed by    *)
(* the call that sets the domain.                                          *)
LEMMA AllocateInv ==
  ASSUME LimitsAssumption, Inv, NEW t \in Caller, NEW d \in Domain,
         NEW class \in {"interrupt", "system", "normal"}, Allocate(t, d, class)

  PROVE  Inv'
<1> DEFINE old == free[d]
           new == old - 1
           short == Crossed(old, new, FreeMin) \/ Crossed(old, new, FreeSevere)
           c == (IF PagingNeeded(new) /\ ~ PagingNeeded(old) /\ t \notin Pageproc
                 THEN <<Step("wakeup", {d})>> ELSE <<>>)
                \o (IF short THEN <<Step("set", {d})>> ELSE <<>>)
<1>1. /\ code[t] = <<>> /\ free \in [Domain -> 0..Total] /\ code \in [Caller -> Codes]
      /\ UNCHANGED <<minset, severeset, waiters, needed, asleep, wanted, late, worker>>
  BY DEF Allocate, Idle, Inv, TypeOK
<1>2. CASE old < LimitOf(t, class) + 1
  <2>1. code' = [code EXCEPT ![t] = <<Step("wait", {d})>>] /\ free' = free
    BY <1>2 DEF Allocate
  <2>2. <<Step("wait", {d})>> \in Codes
    BY CodesOf DEF Tasks, For
  <2> QED
    BY <1>1, <2>1, <2>2, IdleKeepsCalls, OnlyCode
<1>3. CASE ~ (old < LimitOf(t, class) + 1)
  <2>1. free' = [free EXCEPT ![d] = new] /\ code' = [code EXCEPT ![t] = c]
    BY <1>3 DEF Allocate
  <2>2. c \in Codes /\ (short => Contains(c, Step("set", {d})))
    <3>1. Step("wakeup", {d}) \in Wakeups /\ Step("set", {d}) \in Settings
      BY DEF Wakeups, Settings, For
    <3>2. /\ Step("wakeup", {d}) \in Tasks /\ Step("set", {d}) \in Tasks
          /\ <<>> \in Codes
          /\ <<Step("wakeup", {d})>> \in Codes /\ <<Step("set", {d})>> \in Codes
          /\ <<Step("wakeup", {d}), Step("set", {d})>> \in Codes
          /\ Contains(<<Step("set", {d})>>, Step("set", {d}))
          /\ Contains(<<Step("wakeup", {d}), Step("set", {d})>>, Step("set", {d}))
      BY <3>1, CodesOf
    <3>3. \/ ~ short /\ c \in {<<>>, <<Step("wakeup", {d})>>}
          \/ short /\ c \in {<<Step("set", {d})>>, <<Step("wakeup", {d}), Step("set", {d})>>}
      <4>1. CASE PagingNeeded(new) /\ ~ PagingNeeded(old) /\ t \notin Pageproc
        BY <4>1, Concatenations
      <4>2. CASE ~ (PagingNeeded(new) /\ ~ PagingNeeded(old) /\ t \notin Pageproc)
        BY <4>2, Concatenations
      <4> QED
        BY <4>1, <4>2
    <3> QED
      BY <3>2, <3>3
  <2>3. CallsKept
    BY <1>1, <2>1, <2>2, IdleKeepsCalls
  <2>4. new \in 0..Total /\ old \in 0..Total
    BY <1>1, <1>3, Limits
  <2>5. TypeOK' /\ code' \in [Caller -> Codes]
    BY <1>1, <2>1, <2>2, <2>4 DEF Inv, TypeOK
  <2>6. short => Pending("set", d)'
    BY <1>1, <2>1, <2>2, PendingNow
  <2>7. RightCallPending'
    <3> SUFFICES ASSUME NEW e \in Domain
                 PROVE  MinRight(e)' /\ SevereRight(e)'
      BY DEF RightCallPending
    <3>1. MinRight(e) /\ SevereRight(e)
      BY DEF Inv, RightCallPending
    <3>2. CASE e # d \/ ~ short
      <4>1. PagingMin(e)' = PagingMin(e) /\ PagingSevere(e)' = PagingSevere(e)
        BY <1>1, <2>1, <2>4, <3>2, Limits DEF PagingMin, PagingSevere, Crossed
      <4> QED
        BY <1>1, <2>3, <3>1, <4>1 DEF MinRight, SevereRight, CallsKept
    <3>3. CASE e = d /\ short
      <4>1. (PagingMin(e) => PagingMin(e)') /\ (PagingSevere(e) => PagingSevere(e)')
        BY <1>1, <2>1, <2>4, <3>3, Limits DEF PagingMin, PagingSevere
      <4> QED
        BY <1>1, <2>3, <2>6, <3>1, <3>3, <4>1 DEF MinRight, SevereRight, CallsKept
    <3> QED
      BY <3>2, <3>3
  <2>8. SleepersJustified' /\ OneDomain'
    <3>1. \A e \in Domain : free'[e] >= PageoutFreeMin => free[e] >= PageoutFreeMin
      BY <1>1, <2>1, <2>4, Limits
    <3> QED
      BY <1>1, <2>3, <3>1 DEF Inv, SleepersJustified, OneDomain, CallsKept
  <2> QED
    BY <2>5, <2>7, <2>8 DEF Inv
<1> QED
  BY <1>2, <1>3

(* A page is freed: a count that rises to a limit is followed by the call  *)
(* that clears the domain.                                                 *)
LEMMA FreeInv ==
  ASSUME LimitsAssumption, Inv, NEW t \in Caller, NEW d \in Domain, Free(t, d)
  PROVE  Inv'
<1> DEFINE risen == Risen(free[d], free[d] + 1)
           c == IF risen THEN <<Step("clear", {d})>> ELSE <<>>
<1>1. /\ code[t] = <<>> /\ free \in [Domain -> 0..Total] /\ code \in [Caller -> Codes]
      /\ free[d] < Total
      /\ free' = [free EXCEPT ![d] = free[d] + 1] /\ code' = [code EXCEPT ![t] = c]
      /\ UNCHANGED <<minset, severeset, waiters, needed, asleep, wanted, late, worker>>
  BY DEF Free, Idle, Inv, TypeOK
<1>2. c \in Codes /\ (risen => Contains(c, Step("clear", {d})))
  <2>1. Step("clear", {d}) \in Tasks
    BY DEF Tasks, For
  <2> QED
    BY <2>1, CodesOf
<1> HIDE DEF c
<1>3. CallsKept
  BY <1>1, <1>2, IdleKeepsCalls
<1>4. free[d] \in 0..Total /\ free[d] + 1 \in 0..Total
  BY <1>1, Limits
<1>5. TypeOK' /\ code' \in [Caller -> Codes]
  BY <1>1, <1>2, <1>4 DEF Inv, TypeOK
<1>6. risen => Pending("clear", d)'
  BY <1>1, <1>2, PendingNow
<1>7. RightCallPending'
  <2> SUFFICES ASSUME NEW e \in Domain
               PROVE  MinRight(e)' /\ SevereRight(e)'
    BY DEF RightCallPending
  <2>1. MinRight(e) /\ SevereRight(e)
    BY DEF Inv, RightCallPending
  <2>2. CASE e # d \/ ~ risen
    <3>1. PagingMin(e)' = PagingMin(e) /\ PagingSevere(e)' = PagingSevere(e)
      BY <1>1, <1>4, <2>2, Limits DEF PagingMin, PagingSevere, Crossed, Risen
    <3> QED
      BY <1>1, <1>3, <2>1, <3>1 DEF MinRight, SevereRight, CallsKept
  <2>3. CASE e = d /\ risen
    <3>1. (PagingMin(e)' => PagingMin(e)) /\ (PagingSevere(e)' => PagingSevere(e))
      BY <1>1, <1>4, <2>3, Limits DEF PagingMin, PagingSevere
    <3> QED
      BY <1>1, <1>3, <1>6, <2>1, <2>3, <3>1 DEF MinRight, SevereRight, CallsKept
  <2> QED
    BY <2>2, <2>3
<1>8. SleepersJustified' /\ OneDomain'
  <2>1. ASSUME NEW e \in Domain, free'[e] >= PageoutFreeMin
        PROVE  free[e] >= PageoutFreeMin \/ Pending("clear", e)'
    <3>1. CASE e # d
      BY <1>1, <2>1, <3>1
    <3>2. CASE e = d
      <4>1. free[d] >= PageoutFreeMin \/ risen
        BY <1>1, <1>4, <2>1, <3>2, Limits DEF Risen, Crossed
      <4> QED
        BY <1>6, <3>2, <4>1
    <3> QED
      BY <3>1, <3>2
  <2> QED
    BY <1>1, <1>3, <2>1 DEF Inv, SleepersJustified, OneDomain, CallsKept
<1> QED
  BY <1>5, <1>7, <1>8 DEF Inv

(* vm_domain_set: the domain is now in every set it belongs in. *)
LEMMA DomainSetInv ==
  ASSUME Inv, NEW t \in Caller, DomainSet(t)
  PROVE  Inv'
<1> DEFINE d == At(t)
<1>1. /\ Does(t, "set") /\ Done(t) /\ code \in [Caller -> Codes]
      /\ minset' = minset \cup (IF PagingMin(d) THEN {d} ELSE {})
      /\ severeset' = severeset \cup (IF PagingSevere(d) THEN {d} ELSE {})
      /\ UNCHANGED <<free, waiters, needed, asleep, wanted, late, worker>>
  BY DEF DomainSet, Inv
<1>2. d \in Domain /\ code' \in [Caller -> Codes]
  BY <1>1, AtDomain, DoneTask
<1>3. /\ \A e \in Domain : Pending("clear", e) => Pending("clear", e)'
      /\ \A e \in Domain : e # d /\ Pending("set", e) => Pending("set", e)'
  BY <1>1, DoneTask
<1> HIDE DEF d
<1>4. TypeOK'
  BY <1>1, <1>2 DEF Inv, TypeOK
<1>5. RightCallPending'
  BY <1>1, <1>2, <1>3 DEF Inv, RightCallPending, MinRight, SevereRight, PagingMin, PagingSevere
<1>6. SleepersJustified' /\ OneDomain'
  BY <1>1, <1>3, SleepersKept
<1> QED
  BY <1>2, <1>4, <1>5, <1>6 DEF Inv

(* vm_domain_clear: who sleeps for a set that the domain leaves is woken.  *)
LEMMA DomainClearInv ==
  ASSUME Inv, NEW t \in Caller, DomainClear(t)
  PROVE  Inv'
<1> DEFINE d == At(t)
           min == d \in minset /\ ~ PagingMin(d)
           severe == d \in severeset /\ ~ PagingSevere(d)
           pageout == needed[d] /\ free[d] >= PageoutFreeMin
           woken(c) == \/ c.on = "min" /\ min /\ waiters["min"]
                       \/ c.on = "severe" /\ severe /\ waiters["severe"]
                       \/ c.on = "pageout" /\ c.domains = {d} /\ pageout
                       \/ c.on = "tick"
<1>1. /\ Does(t, "clear") /\ Done(t) /\ code \in [Caller -> Codes] /\ TypeOK
      /\ minset' = minset \ (IF min THEN {d} ELSE {})
      /\ severeset' = severeset \ (IF severe THEN {d} ELSE {})
      /\ needed' = [needed EXCEPT ![d] = needed[d] /\ ~ pageout]
      /\ waiters' = [on \in {"min", "severe"} |->
                       waiters[on] /\ ~ (IF on = "min" THEN min ELSE severe)]
      /\ asleep' = [s \in Caller |-> IF woken(asleep[s]) THEN Awake ELSE asleep[s]]
      /\ UNCHANGED <<free, wanted, late, worker>>
  BY DEF DomainClear, Inv
<1>2. d \in Domain /\ code' \in [Caller -> Codes]
  BY <1>1, AtDomain, DoneTask
<1>3. /\ \A e \in Domain : Pending("set", e) => Pending("set", e)'
      /\ \A e \in Domain : e # d /\ Pending("clear", e) => Pending("clear", e)'
  BY <1>1, DoneTask
<1> HIDE DEF d
<1>4. TypeOK'
  <2>1. Awake \in Channel
    BY DEF Awake, Channel
  <2>2. asleep' \in [Caller -> Channel]
    BY <1>1, <2>1 DEF TypeOK
  <2>3. needed' \in [Domain -> BOOLEAN] /\ waiters' \in [{"min", "severe"} -> BOOLEAN]
    BY <1>1, <1>2 DEF TypeOK
  <2> QED
    BY <1>1, <2>2, <2>3 DEF TypeOK
<1>5. RightCallPending'
  BY <1>1, <1>2, <1>3 DEF Inv, RightCallPending, MinRight, SevereRight, PagingMin, PagingSevere
<1>6. ASSUME NEW s \in Caller
      PROVE  Justified(s)'
  <2>1. Justified(s)
    BY EachJustified DEF Inv
  <2>2. CASE woken(asleep[s])
    BY <1>1, <2>2 DEF Justified, Awake
  <2>3. CASE ~ woken(asleep[s])
    <3>1. asleep'[s] = asleep[s]
      BY <1>1, <2>3
    <3>2. /\ asleep[s].on = "min" => waiters["min"] /\ ~ min
          /\ asleep[s].on = "severe" => waiters["severe"] /\ ~ severe
      BY <2>1, <2>3 DEF Justified
    <3>3. asleep[s].on = "min" => waiters'["min"] /\ minset' = minset
      BY <1>1, <3>2
    <3>4. asleep[s].on = "severe" => waiters'["severe"] /\ severeset' = severeset
      BY <1>1, <3>2
    <3>5. ASSUME asleep[s].on = "pageout"
          PROVE  \E e \in Domain :
                   /\ asleep'[s].domains = {e} /\ needed'[e]
                   /\ free'[e] >= PageoutFreeMin => Pending("clear", e)'
      <4>1. PICK e \in Domain :
              /\ asleep[s].domains = {e} /\ needed[e]
              /\ free[e] >= PageoutFreeMin => Pending("clear", e)
        BY <2>1, <3>5 DEF Justified
      <4>2. CASE e = d
        <5>1. ~ pageout
          BY <2>3, <3>5, <4>1, <4>2
        <5> QED
          BY <1>1, <1>2, <3>1, <4>1, <4>2, <5>1 DEF TypeOK
      <4>3. CASE e # d
        BY <1>1, <1>2, <1>3, <3>1, <4>1, <4>3 DEF TypeOK
      <4> QED
        BY <4>2, <4>3
    <3> QED
      BY <2>1, <3>1, <3>3, <3>4, <3>5 DEF Justified
  <2> QED
    BY <2>2, <2>3
<1>7. SleepersJustified' /\ OneDomain'
  BY <1>6 DEF SleepersJustified, OneDomain, Justified
<1> QED
  BY <1>2, <1>4, <1>5, <1>7 DEF Inv

(* Somebody starts to wait. *)
LEMMA NeedsMemoryInv ==
  ASSUME Inv, NEW t \in Caller, NeedsMemory(t)
  PROVE  Inv'
<1>1. PICK s \in WaitsFor \cup WaitsForAll : code' = [code EXCEPT ![t] = <<s>>]
  BY DEF NeedsMemory, WaitsFor, WaitsForAll
<1>2. <<s>> \in Codes
  BY CodesOf DEF Tasks
<1>3. code[t] = <<>> /\ code \in [Caller -> Codes]
  BY DEF NeedsMemory, Idle, Inv
<1> QED
  BY <1>1, <1>2, <1>3, IdleKeepsCalls, OnlyCode DEF NeedsMemory

(* A thread that has waited, and has nothing to set or to clear after. *)
LEMMA WaitTask ==
  ASSUME NEW t \in Caller, code \in [Caller -> Codes], code[t] # <<>>,
         Head(code[t]).do \in {"wait", "wait doms", "wait min", "wait severe"},
         NEW c \in Codes, code' = [code EXCEPT ![t] = c]
  PROVE  Tail(code[t]) = <<>> /\ CallsKept /\ code' \in [Caller -> Codes]
<1>1. code[t] \in Codes
  OBVIOUS
<1>2. ASSUME NEW s \in Wakeups
      PROVE  s.do \in {"wakeup", "wake it"}
  <2>1. PICK b \in {"wakeup", "wake it"}, d \in Domain : s = Step(b, {d})
    BY DEF Wakeups, For
  <2> QED
    BY <2>1, StepFields
<1>3. Tail(code[t]) = <<>>
  BY <1>1, <1>2, CodeParts
<1>4. \A e : ~ Contains(Tail(code[t]), e)
  <2> DEFINE r == Tail(code[t])
  <2>1. r = <<>>
    BY <1>3
  <2> HIDE DEF r
  <2>2. \A e : ~ Contains(r, e)
    BY <2>1, CodesOf
  <2> QED
    BY <2>2 DEF r
<1>5. Head(code[t]).do \notin {"set", "clear"}
  OBVIOUS
<1>6. CallsKept
  BY <1>4, <1>5, DoneKeepsCalls
<1>7. code' \in [Caller -> Codes]
  OBVIOUS
<1> QED
  BY <1>3, <1>6, <1>7

(* The counts as they were, and one thread asleep for a reason. *)
LEMMA Slept ==
  ASSUME Inv, NEW t \in Caller, code' \in [Caller -> Codes], CallsKept,
         NEW on \in {"min", "severe", "pageout", "tick"}, NEW ds \in SUBSET Domain,
         Sleep(t, on, ds), UNCHANGED <<free, minset, severeset, wanted, late, worker>>,
         needed' \in [Domain -> BOOLEAN], \A d \in Domain : needed[d] => needed'[d],
         on = "min" => ds \subseteq minset, on = "severe" => ds \subseteq severeset,
         on = "pageout" =>
           \E d \in Domain : ds = {d} /\ needed'[d] /\ ~ (free[d] >= PageoutFreeMin)
  PROVE  Inv'
<1> DEFINE c == [on |-> on, domains |-> ds]
<1>1. /\ TypeOK /\ asleep' = [asleep EXCEPT ![t] = c]
      /\ waiters' = IF on \in {"min", "severe"} THEN [waiters EXCEPT ![on] = TRUE] ELSE waiters
  BY DEF Sleep, Inv
<1>2. c \in Channel /\ c.on = on /\ c.domains = ds
  BY DEF Channel
<1> HIDE DEF c
<1>3. /\ waiters' \in [{"min", "severe"} -> BOOLEAN]
      /\ \A b \in {"min", "severe"} : waiters[b] => waiters'[b]
      /\ on \in {"min", "severe"} => waiters'[on]
  BY <1>1 DEF TypeOK
<1>4. asleep' \in [Caller -> Channel] /\ asleep'[t] = c
  BY <1>1, <1>2 DEF TypeOK
<1>5. TypeOK'
  BY <1>1, <1>3, <1>4 DEF TypeOK
<1>6. RightCallPending'
  BY RightCallKept
<1>7. ASSUME NEW s \in Caller
      PROVE  Justified(s)'
  <2>1. CASE s = t
    BY <1>2, <1>3, <1>4, <2>1 DEF Justified
  <2>2. CASE s # t
    <3>1. Justified(s) /\ asleep'[s] = asleep[s]
      BY <1>1, <2>2, EachJustified DEF Inv, TypeOK
    <3> QED
      BY <1>3, <3>1, JustifiedKept DEF CallsKept
  <2> QED
    BY <2>1, <2>2
<1>8. SleepersJustified' /\ OneDomain'
  BY <1>7 DEF SleepersJustified, OneDomain, Justified
<1> QED
  BY <1>5, <1>6, <1>8 DEF Inv

(* vm_wait_domain *)
LEMMA WaitDomainInv ==
  ASSUME LimitsAssumption, Inv, NEW t \in Caller, WaitDomain(t)
  PROVE  Inv'
<1> DEFINE d == At(t)
<1>1. /\ Does(t, "wait") /\ code \in [Caller -> Codes] /\ TypeOK /\ code[t] # <<>>
      /\ Head(code[t]).do = "wait"
      /\ UNCHANGED <<free, minset, severeset, wanted, late, worker>>
  BY DEF WaitDomain, Inv, Does
<1>2. d \in Domain
  BY <1>1, AtDomain
<1>3. CASE t \in Pageproc
  <2>1. code' = [code EXCEPT ![t] = Tail(code[t])]
    BY <1>3 DEF WaitDomain, Done
  <2>2. Tail(code[t]) \in Codes
    BY <1>1, CodeParts
  <2>3. CallsKept /\ Tail(code[t]) = <<>> /\ code' \in [Caller -> Codes]
    BY <1>1, <2>1, <2>2, WaitTask
  <2>4. CASE free[d] < PageoutFreeMin
    <3>1. Sleep(t, "pageout", {d}) /\ needed' = [needed EXCEPT ![d] = TRUE]
      BY <1>3, <2>4 DEF WaitDomain
    <3>2. /\ needed' \in [Domain -> BOOLEAN] /\ needed'[d]
          /\ \A e \in Domain : needed[e] => needed'[e]
      BY <1>1, <1>2, <3>1 DEF TypeOK
    <3>3. ~ (free[d] >= PageoutFreeMin) /\ {d} \in SUBSET Domain
      BY <1>1, <1>2, <2>4, Limits DEF TypeOK
    <3> HIDE DEF d
    <3> QED
      BY <1>1, <1>2, <2>3, <3>1, <3>2, <3>3, Slept
  <2>5. CASE ~ (free[d] < PageoutFreeMin)
    <3>1. UNCHANGED <<asleep, waiters, needed>>
      BY <1>3, <2>5 DEF WaitDomain, NoSleep
    <3> QED
      BY <1>1, <2>1, <2>2, <2>3, <3>1, OnlyCode
  <2> QED
    BY <2>4, <2>5
<1>4. CASE t \notin Pageproc
  <2>1. /\ code' = [code EXCEPT ![t] = <<Step("wait doms", {d})>>]
        /\ UNCHANGED <<asleep, waiters, needed>>
    BY <1>4 DEF WaitDomain, NoSleep
  <2>2. <<Step("wait doms", {d})>> \in Codes
    <3> HIDE DEF d
    <3>1. {d} \in SUBSET Domain
      BY <1>2
    <3>2. Step("wait doms", {d}) \in WaitsFor
      BY <3>1 DEF WaitsFor
    <3> QED
      BY <3>2, CodesOf DEF Tasks
  <2> DEFINE c == <<Step("wait doms", {d})>>
  <2> HIDE DEF c
  <2>3. CallsKept
    BY <1>1, <2>1, <2>2, WaitTask
  <2> QED
    BY <1>1, <2>1, <2>2, <2>3, OnlyCode
<1> QED
  BY <1>3, <1>4

(* What a thread waits for is a set of domains. *)
LEMMA HeadDomains ==
  ASSUME NEW t \in Caller, code \in [Caller -> Codes], code[t] # <<>>
  PROVE  Head(code[t]).domains \in SUBSET Domain
<1> DEFINE s == Head(code[t])
<1> SUFFICES s.domains \in SUBSET Domain
  OBVIOUS
<1>1. s \in Tasks
  BY CodeParts
<1> HIDE DEF s
<1>2. ASSUME NEW b, s \in For(b)
      PROVE  s.domains \in SUBSET Domain
  <2>1. PICK d \in Domain : s = Step(b, {d})
    BY <1>2 DEF For
  <2>2. Step(b, {d}).domains = {d}
    BY StepFields
  <2> QED
    BY <2>1, <2>2
<1>3. CASE s \in WaitsFor
  <2>1. PICK ds \in SUBSET Domain : s = Step("wait doms", ds)
    BY <1>3 DEF WaitsFor
  <2>2. Step("wait doms", ds).domains = ds
    BY StepFields
  <2> QED
    BY <2>1, <2>2
<1>4. CASE s \in WaitsForAll
  <2>1. s = Step("wait min", Domain) \/ s = Step("wait severe", Domain)
    BY <1>4 DEF WaitsForAll
  <2>2. Step("wait min", Domain).domains = Domain /\ Step("wait severe", Domain).domains = Domain
    BY StepFields
  <2> QED
    BY <2>1, <2>2
<1>5. CASE s \in Wakeups \cup Settings \cup For("clear") \cup For("wait")
  BY <1>2, <1>5 DEF Wakeups, Settings
<1> QED
  BY <1>1, <1>3, <1>4, <1>5 DEF Tasks



(* vm_wait_doms, vm_waitpfault *)
LEMMA WaitDomsInv ==
  ASSUME Inv, NEW t \in Caller, WaitDoms(t)
  PROVE  Inv'
<1> DEFINE ds == Head(code[t]).domains
<1>1. /\ code \in [Caller -> Codes] /\ TypeOK /\ code[t] # <<>>
      /\ Head(code[t]).do = "wait doms" /\ code' = [code EXCEPT ![t] = Tail(code[t])]
      /\ UNCHANGED <<free, minset, severeset, needed, wanted, late, worker>>
  BY DEF WaitDoms, Inv, Does, Done
<1>2. ds \in SUBSET Domain /\ Tail(code[t]) \in Codes
  BY <1>1, HeadDomains, CodeParts
<1>3. CallsKept /\ code' \in [Caller -> Codes]
  BY <1>1, <1>2, WaitTask
<1>4. needed' \in [Domain -> BOOLEAN] /\ \A d \in Domain : needed[d] => needed'[d]
  BY <1>1 DEF TypeOK
<1> HIDE DEF ds
<1>5. \/ Sleep(t, "tick", ds)
      \/ Sleep(t, "min", ds) /\ ds \subseteq minset
      \/ NoSleep
  BY DEF WaitDoms, ds
<1>6. CASE Sleep(t, "tick", ds)
  BY <1>1, <1>2, <1>3, <1>4, <1>6, Slept
<1>7. CASE Sleep(t, "min", ds) /\ ds \subseteq minset
  BY <1>1, <1>2, <1>3, <1>4, <1>7, Slept
<1>8. CASE NoSleep
  BY <1>1, <1>2, <1>3, <1>8, OnlyCode DEF NoSleep
<1> QED
  BY <1>5, <1>6, <1>7, <1>8

(* vm_wait_min, vm_wait_severe *)
LEMMA WaitGlobalInv ==
  ASSUME Inv, NEW t \in Caller, WaitGlobal(t)
  PROVE  Inv'
<1>1. /\ code \in [Caller -> Codes] /\ TypeOK /\ code[t] # <<>>
      /\ Head(code[t]).do \in {"wait min", "wait severe"}
      /\ UNCHANGED <<free, minset, severeset, needed, wanted, late, worker>>
  BY DEF WaitGlobal, Inv, Does
<1>2. PICK on \in {"min", "severe"} :
        \/ /\ Sleep(t, on, Domain) /\ code' = code
           /\ on = "min" => Domain \subseteq minset
           /\ on = "severe" => Domain \subseteq severeset
        \/ NoSleep /\ code' = [code EXCEPT ![t] = Tail(code[t])]
  BY DEF WaitGlobal, Done
<1>3. CASE /\ Sleep(t, on, Domain) /\ code' = code
           /\ on = "min" => Domain \subseteq minset
           /\ on = "severe" => Domain \subseteq severeset
  <2>1. CallsKept /\ code' \in [Caller -> Codes]
    BY <1>1, <1>3 DEF CallsKept, Pending
  <2>2. needed' \in [Domain -> BOOLEAN] /\ \A d \in Domain : needed[d] => needed'[d]
    BY <1>1 DEF TypeOK
  <2> QED
    BY <1>1, <1>3, <2>1, <2>2, Slept

<1>4. CASE NoSleep /\ code' = [code EXCEPT ![t] = Tail(code[t])]
  <2>1. Tail(code[t]) \in Codes
    BY <1>1, CodeParts
  <2> QED
    BY <1>1, <1>4, <2>1, WaitTask, OnlyCode DEF NoSleep
<1> QED
  BY <1>2, <1>3, <1>4

(* A tick has passed. *)
LEMMA TickInv ==
  ASSUME Inv, NEW t \in Caller, Tick(t)
  PROVE  Inv'
<1>1. /\ asleep' = [asleep EXCEPT ![t] = Awake] /\ TypeOK /\ code \in [Caller -> Codes]
      /\ UNCHANGED <<free, minset, severeset, waiters, needed, code, wanted, late, worker>>
  BY DEF Tick, Inv
<1>2. CallsKept
  BY <1>1 DEF CallsKept, Pending
<1>3. Awake \in Channel /\ Awake.on = "no"
  BY DEF Awake, Channel
<1>4. TypeOK' /\ code' \in [Caller -> Codes]
  BY <1>1, <1>3 DEF TypeOK
<1>5. \A s \in Caller : asleep'[s] = asleep[s] \/ asleep'[s].on \in {"tick", "no"}
  BY <1>1, <1>3 DEF TypeOK
<1>6. SleepersJustified' /\ OneDomain'
  BY <1>1, <1>2, <1>5, SleepersKept DEF CallsKept
<1> QED
  BY <1>1, <1>2, <1>4, <1>6, RightCallKept DEF Inv

(* A step that changes no count, no set and no sleeper. *)
LEMMA WorkersOnly ==
  ASSUME Inv, CallsKept, code' \in [Caller -> Codes],
         UNCHANGED <<free, minset, severeset, waiters, needed, asleep>>,
         wanted' \in [Domain -> BOOLEAN], late' \in [Domain -> BOOLEAN],
         worker' \in [Domain -> {"top", "check", "asleep", "scan"}]
  PROVE  Inv'
<1>1. TypeOK'
  BY DEF Inv, TypeOK
<1>2. SleepersJustified' /\ OneDomain'
  BY SleepersKept DEF CallsKept
<1> QED
  BY <1>1, <1>2, RightCallKept DEF Inv

(* pagedaemon_wakeup *)
LEMMA WakeupInv ==
  ASSUME Inv, NEW t \in Caller, Wakeup(t)
  PROVE  Inv'
<1> DEFINE d == At(t)
           it == Step("wake it", {d})
           rest == Tail(code[t])
<1>1. /\ code \in [Caller -> Codes] /\ wanted \in [Domain -> BOOLEAN]
      /\ late \in [Domain -> BOOLEAN]
      /\ worker \in [Domain -> {"top", "check", "asleep", "scan"}]
      /\ UNCHANGED <<free, minset, severeset, waiters, needed, asleep, late>>
  BY DEF Wakeup, Inv, TypeOK
<1>2. CASE /\ Does(t, "wakeup") /\ wanted' = [wanted EXCEPT ![d] = TRUE]
           /\ code' = [code EXCEPT ![t] =
                         (IF wanted[d] THEN <<>> ELSE <<it>>) \o rest]
           /\ UNCHANGED worker
  <2> DEFINE c == (IF wanted[d] THEN <<>> ELSE <<it>>) \o rest
  <2>1. d \in Domain
    BY <1>1, <1>2, AtDomain
  <2>2. it \in Wakeups
    BY <2>1 DEF Wakeups, For
  <2>3. code[t] \in Codes /\ code[t] # <<>> /\ Head(code[t]).do = "wakeup"
    BY <1>1, <1>2 DEF Does
  <2>4. rest \in Codes /\ (rest = <<>> \/ \E s \in Settings : rest = <<s>>)
    BY <2>3, CodeParts
  <2> HIDE DEF rest, it
  <2>5. c \in Codes /\ \A e : Contains(rest, e) => Contains(c, e)
    <3>1. CASE wanted[d] /\ rest = <<>>
      BY <2>4, <3>1, Concatenations
    <3>2. CASE ~ wanted[d] /\ rest = <<>>
      <4>1. c = <<it>>
        BY <3>2, Concatenations
      <4> QED
        BY <2>2, <3>2, <4>1, CodesOf
    <3>3. CASE \E s \in Settings : rest = <<s>>
      <4>1. PICK s \in Settings : rest = <<s>>
        BY <3>3
      <4>2. CASE wanted[d]
        BY <2>4, <4>1, <4>2, Concatenations
      <4>3. CASE ~ wanted[d]
        <5>1. c = <<it, s>>
          BY <4>1, <4>3, Concatenations
        <5> HIDE DEF c
        <5>2. s \in Tasks
          BY CodesOf
        <5> QED
          BY <2>2, <4>1, <5>1, <5>2, CodesOf
      <4> QED
        BY <4>2, <4>3
    <3> QED
      BY <2>4, <3>1, <3>2, <3>3
  <2>6. code' = [code EXCEPT ![t] = c]
    BY <1>2
  <2> HIDE DEF c
  <2>7. CallsKept
    <3>1. Head(code[t]).do \notin {"set", "clear"}
      BY <2>3
    <3> QED
      BY <1>1, <2>3, <2>5, <2>6, <3>1, DoneKeepsCalls DEF rest
  <2>8. code' \in [Caller -> Codes] /\ wanted' \in [Domain -> BOOLEAN]
    BY <1>1, <1>2, <2>5, <2>6
  <2> QED
    BY <1>1, <1>2, <2>7, <2>8, WorkersOnly
<1>3. CASE /\ Does(t, "wake it") /\ Done(t) /\ wanted' = [wanted EXCEPT ![d] = TRUE]
           /\ worker' = [worker EXCEPT ![d] = IF @ = "asleep" THEN "scan" ELSE @]
  <2>1. code' \in [Caller -> Codes] /\ CallsKept
    BY <1>1, <1>3, DoneTask DEF CallsKept
  <2>2. /\ wanted' \in [Domain -> BOOLEAN]
        /\ worker' \in [Domain -> {"top", "check", "asleep", "scan"}]
    BY <1>1, <1>3
  <2> QED
    BY <1>1, <2>1, <2>2, WorkersOnly
<1> QED
  BY <1>2, <1>3 DEF Wakeup

(* The worker's own steps change no count and take no call away. *)
LEMMA WorkerInv ==
  ASSUME Inv, NEW d \in Domain,
         \/ WorkerTop(d) \/ Drain(d) \/ WorkerCheck(d) \/ WorkerTimeout(d) \/ WorkerScan(d)
  PROVE  Inv'
<1>1. UNCHANGED <<free, minset, severeset, waiters, needed, code, asleep>>
  BY DEF WorkerTop, Drain, WorkerCheck, WorkerTimeout, WorkerScan
<1>2. code' \in [Caller -> Codes] /\ CallsKept
  BY <1>1 DEF Inv, CallsKept, Pending
<1>3. /\ wanted' \in [Domain -> BOOLEAN] /\ late' \in [Domain -> BOOLEAN]
      /\ worker' \in [Domain -> {"top", "check", "asleep", "scan"}]
  BY DEF Inv, TypeOK, WorkerTop, Drain, WorkerCheck, WorkerTimeout, WorkerScan
<1> QED
  BY <1>1, <1>2, <1>3, WorkersOnly

(***************************************************************************)
(* Together                                                                *)
(***************************************************************************)
(* At first no page is taken and nobody waits. *)
LEMMA InitInv ==
  ASSUME LimitsAssumption, Init
  PROVE  Inv
<1>1. Awake \in Channel /\ Awake.on = "no"
  BY DEF Awake, Channel
<1>2. TypeOK
  BY <1>1, Limits DEF Init, TypeOK
<1>3. code \in [Caller -> Codes]
  BY CodesOf DEF Init
<1>4. \A d \in Domain : ~ PagingMin(d) /\ ~ PagingSevere(d)
  <2>1. FreeSevere <= FreeMin /\ FreeMin <= Total
    BY Limits DEF LimitsAssumption
  <2> QED
    BY <2>1, Limits DEF Init, PagingMin, PagingSevere
<1>5. RightCallPending
  BY <1>4 DEF Init, RightCallPending, MinRight, SevereRight
<1>6. SleepersJustified /\ OneDomain
  BY <1>1 DEF Init, SleepersJustified, OneDomain
<1> QED
  BY <1>2, <1>3, <1>5, <1>6 DEF Inv

(* Every step keeps the invariant. *)
LEMMA NextInv ==
  ASSUME LimitsAssumption, Inv, Next
  PROVE  Inv'
<1>1. ASSUME NEW t \in Caller, NEW d \in Domain, Free(t, d)
      PROVE  Inv'
  BY <1>1, FreeInv
<1>2. ASSUME NEW t \in Caller, NEW d \in Domain,
             NEW class \in {"interrupt", "system", "normal"}, Allocate(t, d, class)
      PROVE  Inv'
  BY <1>2, AllocateInv
<1>3. ASSUME NEW t \in Caller,
             \/ DomainSet(t) \/ DomainClear(t) \/ NeedsMemory(t) \/ WaitDomain(t)
             \/ WaitDoms(t) \/ WaitGlobal(t) \/ Tick(t) \/ Wakeup(t)
      PROVE  Inv'
  BY <1>3, DomainSetInv, DomainClearInv, NeedsMemoryInv, WaitDomainInv, WaitDomsInv,
     WaitGlobalInv, TickInv, WakeupInv
<1>4. ASSUME NEW d \in Domain,
             WorkerTop(d) \/ Drain(d) \/ WorkerCheck(d) \/ WorkerTimeout(d) \/ WorkerScan(d)
      PROVE  Inv'
  BY <1>4, WorkerInv
<1> QED
  BY <1>1, <1>2, <1>3, <1>4 DEF Next

(* Nor does a step of others change it. *)
LEMMA StutterInv ==
  ASSUME Inv, UNCHANGED vars
  PROVE  Inv'
BY DEF Inv, TypeOK, RightCallPending, MinRight, SevereRight, PagingMin, PagingSevere, Pending,
       SleepersJustified, OneDomain, vars

LEMMA Invariance ==
  ASSUME LimitsAssumption
  PROVE  Spec => []Inv
<1>1. Init => Inv
  BY InitInv
<1>2. Inv /\ [Next]_vars => Inv'
  BY NextInv, StutterInv
<1> QED
  BY <1>1, <1>2, PTL DEF Spec

(* The right call pending is a call pending. *)
LEMMA RightIsPending ==
  ASSUME Inv
  PROVE  SetsFollowCounts
BY DEF Inv, RightCallPending, MinRight, SevereRight, SetsFollowCounts, PagingMin, PagingSevere

(* Whoever sleeps for memory sleeps for a reason and will be woken, and    *)
(* the sets of short domains are wrong only while a call that looks again  *)
(* is pending (vm_domain_set, vm_domain_clear, vm_wait_doms,               *)
(* vm_wait_count's sleepers), with any limits in the code's order.         *)
THEOREM SleepersAreJustified ==
  ASSUME LimitsAssumption
  PROVE  Spec => [](SleepersJustified /\ SetsFollowCounts)
<1>1. Inv => SleepersJustified /\ SetsFollowCounts
  BY RightIsPending DEF Inv
<1> QED
  BY <1>1, Invariance, PTL
=============================================================================
