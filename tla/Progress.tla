------------------------------ MODULE Progress ------------------------------
(***************************************************************************)
(* The parts of the two kernels in which somebody sleeps or waits until    *)
(* another acts, and that have to make progress: the busy lock of a page   *)
(* (`what` is "busy"), an idle CPU and the CPUs that add threads to its    *)
(* queue and steal them ("idle"), the laundry thread ("laundry") and the   *)
(* scan of the active queue ("scan").  They share no state, so a behaviour *)
(* is one of one of them, and the others stay as they begin.               *)
(***************************************************************************)
EXTENDS PageBusy, Sequences

CONSTANTS
  Remote, Self, Free, MaxLoad, StealThresh, AlwaysSteal, IdleWakeup,  \* IdleNotify
  Cycle, Background, Rate, Belt, Shortfalls, Cluster,                 \* Laundry
  Page, Watched, BatchSize, Advance, ActMax, ActInit, Random, Idle    \* ActiveScan

VARIABLES
  what,
  mem, buf, cur, changed, ipi, pc, rpc,
  request, freed, swap, dirty, at, target, launder, shortfall, inShortfall, cycle,
  nfreed, last, missing,
  list, act, refs, scan, short, calm

busy == <<word, plock, proc>>
idle == <<mem, buf, cur, changed, ipi, pc, rpc>>
laundry == <<request, freed, swap, dirty, at, target, launder, shortfall, inShortfall,
             cycle, nfreed, last, missing>>
active == <<list, act, refs, scan, short, calm>>
all == <<what, busy, idle, laundry, active>>

I == INSTANCE IdleNotify

L == INSTANCE Laundry

A == INSTANCE ActiveScan

ASSUME CpusAssumption == I!IdleAssumption

ASSUME ThreadAssumption == L!LaundryAssumption

ASSUME ClockAssumption == A!ScanAssumption

ProgressInit ==
  /\ what \in {"busy", "idle", "laundry", "scan"}
  /\ Init /\ I!Init /\ L!Init /\ A!Init

\* An action of one part leaves the others alone.
OfBusy(Step) == what = "busy" /\ Step /\ UNCHANGED <<what, idle, laundry, active>>
OfIdle(Step) == what = "idle" /\ Step /\ UNCHANGED <<what, busy, laundry, active>>
OfLaundry(Step) == what = "laundry" /\ Step /\ UNCHANGED <<what, busy, idle, active>>
OfScan(Step) == what = "scan" /\ Step /\ UNCHANGED <<what, busy, idle, laundry>>

ProgressNext ==
  OfBusy(Next) \/ OfIdle(I!Next) \/ OfLaundry(L!Next) \/ OfScan(A!Next)

ProgressSpec == ProgressInit /\ [][ProgressNext]_all

(* No CPU stays halted with a thread on its queue: see IdleNotify. *)
NoLostWakeup == I!TypeOK /\ I!NoLostWakeup

(* A pending mark has its interrupt on the way: see IdleNotify. *)
MarkBacked == I!MarkBacked

(* An idle CPU that is given a thread switches to it: see IdleNotify. *)
WorkRuns == I!WorkRuns

(* The laundry thread never sleeps on a request (Laundry), and the hands   *)
(* of the active queue's clock keep their order (ActiveScan).              *)
DaemonsSound ==
  L!TypeOK /\ L!NoRequestSleptThrough /\ A!TypeOK /\ A!HandsOrdered

(* A request for a shortfall is followed by laundering: see Laundry. *)
ShortfallAnswered == L!ShortfallAnswered

(* With a shortage, an idle page leaves the active queue: see ActiveScan. *)
ShortageReclaims == A!ShortageReclaims
=============================================================================
