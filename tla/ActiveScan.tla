----------------------------- MODULE ActiveScan -----------------------------
(***************************************************************************)
(* The page daemon's scan of the active queue (vm_pageout.c): a CLOCK with *)
(* two hands, which are markers on the list.  A scan collects pages in     *)
(* batches behind a marker of its own, ages each, and moves those whose    *)
(* count is spent to another queue.  Between the batches others use the    *)
(* queue.                                                                  *)
(***************************************************************************)
EXTENDS Integers, FiniteSets, SequencesExt

CONSTANTS
  Page,
  Watched,    \* pages that may be left alone: pages are alike, so one is enough
  BatchSize,  \* VM_BATCHQUEUE_SIZE
  Advance,    \* ACT_ADVANCE, with the smallest reference
  ActMax,     \* ACT_MAX
  ActInit,    \* ACT_INIT
  Random,     \* the largest count activation chooses
  Idle        \* min_scan: what a scan without a shortage looks at, at most

VARIABLES
  list,    \* pq_pl of PQ_ACTIVE, with the markers
  act,     \* act_count
  refs,    \* referenced pages: PGA_REFERENCED, or a bit of the pmap
  scan,    \* the scan: at, batch, max, scanned, subtract, random
  short,   \* whether there is a page shortage
  calm     \* the page that is left alone from now on, if any

vars == <<list, act, refs, scan, short, calm>>

Hand0 == "clock[0]"
Hand1 == "clock[1]"
Marker == "marker"

(* What an instance must satisfy. *)
ScanAssumption ==
  /\ {Hand0, Hand1, Marker} \cap Page = {}
  /\ {BatchSize, Advance, ActMax, ActInit, Idle} \subseteq Nat
  /\ Random \in 0..ActMax

Active == ToSet(list) \cap Page
Place(s, m) == CHOOSE i \in DOMAIN s : s[i] = m
Rank(m) == Place(list, m)
Behind(s, m, x) == InsertAt(s, Place(s, m) + 1, x)
Without(s, m) == RemoveAt(s, Place(s, m))

\* What happens to a page while it is elsewhere is not followed.
Leave(p) ==
  /\ list' = Without(list, p)
  /\ act' = [act EXCEPT ![p] = 0]
  /\ refs' = refs \ {p}

NoScan == [at |-> "off", batch |-> <<>>, max |-> 0, scanned |-> 0,
           subtract |-> FALSE, random |-> FALSE]

Init ==
  /\ list = <<Hand0, Hand1>>
  /\ act = [p \in Page |-> 0]
  /\ refs = {}
  /\ scan = NoScan
  /\ short = FALSE /\ calm = {}

-----------------------------------------------------------------------------
(* The scan *)

\* Mutant of Start: a shortage does not lengthen the scan.
StartIdly ==
  /\ scan.at = "off"
  /\ \E max \in 0..Idle : scan' = [NoScan EXCEPT !.at = "scan", !.max = max]
  /\ list' = Behind(list, Hand0, Marker)
  /\ UNCHANGED <<act, refs, short, calm>>

\* A shortage scans as many entries as there are pages; without one, the ticks since the
\* last scan say how many.
Start ==
  /\ scan.at = "off"
  /\ \E max \in IF short THEN {Len(list) - 2} ELSE 0..Idle :
       scan' = [NoScan EXCEPT !.at = "scan", !.max = max]
  /\ list' = Behind(list, Hand0, Marker)
  /\ UNCHANGED <<act, refs, short, calm>>

\* What follows the marker, hands included.
Ahead == SubSeq(list, Rank(Marker) + 1, Len(list))
Left == scan.max - scan.scanned
Collected ==
  LET n == Min({Len(Ahead), BatchSize, IF Left > 0 THEN Left ELSE 0})
  IN  SubSeq(Ahead, 1, n)

Collect ==
  /\ scan.at = "scan" /\ scan.batch = <<>> /\ Collected # <<>>
  /\ scan' = [scan EXCEPT !.batch = Collected, !.scanned = @ + Len(Collected)]
  /\ list' = Behind(Without(list, Marker), Last(Collected), Marker)
  /\ UNCHANGED <<act, refs, short, calm>>

\* Mutant of Meet: the hands stay where they are.
MeetNot ==
  /\ scan.at = "scan" /\ scan.batch # <<>> /\ Head(scan.batch) = Hand1
  /\ scan' = [scan EXCEPT !.batch = Tail(@)]
  /\ UNCHANGED <<list, act, refs, short, calm>>

\* The second hand is met: both go back to the ends and the scan goes on behind the first.
\* The rest of the batch is dropped, and counts as scanned.
Meet ==
  /\ scan.at = "scan" /\ scan.batch # <<>> /\ Head(scan.batch) = Hand1
  /\ LET rest == Without(Without(Without(list, Hand0), Hand1), Marker)
     IN  list' = <<Hand0, Marker>> \o rest \o <<Hand1>>
  /\ scan' = [scan EXCEPT !.batch = <<>>, !.max = Left, !.scanned = 0]
  /\ UNCHANGED <<act, refs, short, calm>>

Halved(p) == act[p] \div 2

\* The count of a page after its look: the decrement follows the else without its braces,
\* and applies to a referenced page as well.
Aged(p) ==
  LET n == IF p \in refs THEN Min({act[p] + Advance, ActMax}) ELSE Halved(p)
  IN  [count |-> IF n > 0 THEN n - 1 ELSE 0, subtracted |-> n > 0]

\* Each page of the batch: one that has left the queue is passed over, one that somebody
\* has wired leaves it, one whose count is spent is deactivated, or laundered in a shortage.
Visit ==
  LET p == Head(scan.batch)
      a == Aged(p)
  IN
  /\ scan.at = "scan" /\ scan.batch # <<>> /\ p # Hand1
  /\ IF p \notin Active
     THEN /\ scan' = [scan EXCEPT !.batch = Tail(@)]
          /\ UNCHANGED <<list, act, refs>>
     ELSE \/ /\ scan' = [scan EXCEPT !.batch = Tail(@)]
             /\ Leave(p)
          \/ /\ IF a.count = 0 THEN Leave(p)
                ELSE /\ act' = [act EXCEPT ![p] = a.count]
                     /\ refs' = refs \ {p}
                     /\ UNCHANGED list
             /\ \E high \in BOOLEAN :
                  scan' = [scan EXCEPT !.batch = Tail(@),
                                       !.subtract = @ \/ a.subtracted,
                                       !.random = IF a.count = 0 THEN high ELSE @]
  /\ UNCHANGED <<short, calm>>

\* The first hand goes to the head of the list when any page's count was decremented, or
\* the last random number was high, and otherwise to where the scan ends.
Finish ==
  /\ scan.at = "scan" /\ scan.batch = <<>> /\ Collected = <<>>
  /\ LET off == Without(list, Hand0)
     IN  list' = Without(IF scan.subtract \/ scan.random THEN <<Hand0>> \o off
                        ELSE Behind(off, Marker, Hand0), Marker)
  /\ scan' = NoScan
  /\ UNCHANGED <<act, refs, short, calm>>

-----------------------------------------------------------------------------
(* Others *)

\* vm_page_activate puts a page on the queue with a count of ACT_INIT or more, which is
\* below ACT_MAX after a look, referenced or not; for a page that is there with less, it
\* chooses a count, which may be zero.
Activate(p) ==
  /\ p \notin calm
  /\ IF p \in Active
     THEN /\ act[p] < ActInit
          /\ \E n \in 0..Random : act' = [act EXCEPT ![p] = n]
          /\ UNCHANGED <<list, refs>>
     ELSE /\ \E n \in ActInit..(ActMax - 1) : act' = [act EXCEPT ![p] = n]
          /\ refs' \in {refs, refs \cup {p}}
          /\ list' = Append(list, p)
  /\ UNCHANGED <<scan, short, calm>>

\* Off the queue: deactivated, laundered or freed by somebody else.
Take(p) ==
  /\ p \notin calm
  /\ p \in Active
  /\ Leave(p)
  /\ UNCHANGED <<scan, short, calm>>

Reference(p) ==
  /\ p \notin calm
  /\ p \in Active \ refs /\ refs' = refs \cup {p}
  /\ UNCHANGED <<list, act, scan, short, calm>>

Shortage ==
  /\ calm = {}
  /\ short' = ~short
  /\ UNCHANGED <<list, act, refs, scan, calm>>

\* From now on nobody uses a page.
Calm ==
  /\ calm = {} /\ \E p \in Watched : calm' = {p}
  /\ UNCHANGED <<list, act, refs, scan, short>>

Daemon == Start \/ Collect \/ Meet \/ Visit \/ Finish

Next ==
  \/ Daemon
  \/ \E p \in Page : Activate(p) \/ Take(p) \/ Reference(p)
  \/ Shortage \/ Calm

Spec == Init /\ [][Next]_vars

IdleLook == Start /\ scan'.max >= (IF short THEN 0 ELSE Idle)

(* The daemon goes on, and its idle scans do not always look at nothing. *)
Fairness == WF_vars(Daemon) /\ SF_vars(IdleLook)

FairSpec == Spec /\ Fairness

-----------------------------------------------------------------------------
TypeOK ==
  /\ act \in [Page -> 0..ActMax]
  /\ refs \subseteq Active
  /\ scan.at \in {"off", "scan"}
  /\ Len(list) = Cardinality(ToSet(list))

\* "Scans begin at the first hand, which precedes the second hand in the queue": so it is
\* whatever the batches hold when the hands move and whatever others do to the list, and
\* a scan, which collects nothing between the hands and its marker, loses no page of it.
HandsOrdered ==
  /\ {Hand0, Hand1} \subseteq ToSet(list) /\ Rank(Hand0) < Rank(Hand1)
  /\ (Marker \in ToSet(list)) <=> (scan.at = "scan")
  /\ scan.at = "scan" =>
       /\ Rank(Hand0) < Rank(Marker)
       /\ Rank(Marker) < Rank(Hand1) \/ Contains(scan.batch, Hand1)

\* In a shortage a page that is left alone leaves the active queue, though scans return
\* to the head of the list as long as they find a count to decrement, and others are used.
ShortageReclaims ==
  \A p \in Watched : (p \in calm /\ short /\ p \in Active) ~> (p \notin Active)

\* "If we're just idle polling attempt to visit every active page within 'update_period'
\* seconds": then a page that is left alone ages, and leaves.
IdleReclaims ==
  \A p \in Watched : (p \in calm /\ p \in Active) ~> (p \notin Active)
=============================================================================
