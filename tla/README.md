# A verification project for CodingProjects

The repository collects several programs: two FreeBSD kernel schedulers, a
FreeBSD virtual-memory pageout daemon, an encrypting FUSE file system with its
protection tool and key system calls, a small shell, an LZW compressor, and two
toy programs. This directory holds TLA+ models of them, TLC configurations that
check the models on small instances, and TLAPS proofs of theorems for every
instance.

Contents: [inventory](#inventory) and [plan](#plan); how the project is laid
out and [what each run checks](#runs); then a section for each part:
[the scheduler](#the-scheduler), [the idle protocol](#the-idle-protocol),
[the memory](#the-memory) (allocator, busy lock, queues, counts, daemons),
[the files](#the-files) (system calls, encrypting layer, compressor); at the end
[what the checks found](#what-the-checks-found), [the proofs](#proofs) and
[what is not modelled](#not-modelled).

## Inventory

| Component | Source | State | Operations | What makes it correct | Module |
|---|---|---|---|---|---|
| Run queue | `ThreadScheduler/kern_switch_FIFO.c`, `kern_switch_pq.c` | 64 lists of threads and a bit map of those not empty | `runq_add(_pri)`, `runq_remove(_idx)`, `runq_choose(_from)`, `runq_findbit(_from)`, `runq_steal(_from)` | bit map exact; sorted lists sorted; no thread lost or doubled | `Runq` |
| Per-CPU thread queue | `sched_ule_pri.c`, `sched_ule_splatter.c` (`struct tdq`) | three run queues, calendar indexes, `tdq_load`, `tdq_transferable`, `tdq_lowpri`, `tdq_ipipending` | `tdq_runq_add/rem`, `tdq_load_add/rem`, `tdq_choose`, `tdq_setlowpri`, `tdq_slice`, `tdq_steal` | the removal index never passes the insert index; counters agree with the lists | `Tdq` |
| ULE scheduler | the same files | the thread queues of all CPUs, `struct thread`/`td_sched`, who runs where, preemption IPIs | switch, add, rem, wakeup, sleep, fork, exit, priority lending, affinity, binding, balancing, stealing, clock | a thread is in one place; preemption is asked for; nobody starves; affinity is respected | `Ule` |
| Idle protocol | `sched_idletd`, `tdq_notify` | `tdq_load`, `tdq_cpu_idle`, `tdq_ipipending`, without a common lock | idle loop, `tdq_notify`, `sched_preempt`, `sched_runnable` | no CPU halts while a thread waits on it | `IdleNotify` |
| Interactivity arithmetic | `sched_ule_pri.c` | run and sleep times, tick windows | `sched_interact_score/update/fork`, `sched_pctcpu_update`, `sched_priority` | scores in range, history bounded, no division by zero | none |
| Busy lock of a page | `PageoutScheduler/vm_page.c` | `busy_lock`, the page lock, sleepers | `vm_page_trysbusy`, `tryxbusy`, `sunbusy`, `xunbusy`, `busy_downgrade`, `busy_sleep`, `flash` | it is a lock; sleepers wake | `PageBusy`, `PageLock` |
| Page queues | `vm_page.c` | per-domain lists, per-page `queue` and `aflags`, per-CPU batches | activate, deactivate, launder, requeue, dequeue, wire, unwire, advise, free, alloc | lists and fields agree; no page is lost to the daemon | `PageQueues` |
| Free-page counts | `vm_page.c` | free counts, sets of short domains, sleepers | `vm_domain_allocate`, `vm_domain_freecnt_inc`, `vm_domain_set/clear`, `vm_wait*`, `pagedaemon_wakeup` | sets follow the counts; sleepers are woken | `FreeCount` |
| Physical allocator | `vm_phys.c` | buddy free lists | allocate, free, split, coalesce, extract | blocks aligned, disjoint, exactly the free memory | `Buddy` |
| Pageout daemon | `vm_pageout.c` | markers, hands, laundry requests, OOM votes | scans of three queues, cluster writing, laundry thread, OOM vote and walk, worker loop | every page is met; a cluster is sound; requests are answered; OOM by vote | `PageQueues`, `ActiveScan`, `PageClean`, `Laundry`, `Oom`, `FreeCount` |
| File-system calls | `EncryptedDataStorage/vfs_syscalls.c` | vnode locks and references, writer counts, suspension | mknod, mkfifo, symlink, mkdir, undelete, unlink, rmdir, link, rename, truncate, attribute changes, fsync, fallocate, sync, open, access, stat, readlink | nothing stays held; a suspended file system does not change; nobody waits in a circle | `VfsWrite` |
| Encrypting layer, protection tool | `cryptoFS.c`, `protectfile.c` | a file, its sticky bit, an AES-CTR key stream | `xmp_read`, `xmp_write`, `xmp_truncate`; encrypt or decrypt in place | what is written is read back; the bit tells what the content is | `CryptoFS` |
| LZW compressor | `LZW/*.c` | trie, word table, bit buffer | compress, decompress | decompress reads what compress wrote | `Lzw` |
| Shell | `SimpleShell/myshell.c`, `lex.l` | child processes, pipes, redirections | `execute`, `executePipes`, signal handler | each member of a pipeline is waited for; children never go on as shells | none |
| Key system calls | end of `vfs_syscalls.c`, `test_read.c` | table of keys per user | `sys_setkey`, `getkey` | a user's key is stored under that user | none |
| System-call tables | `sysproto.h`, `syscalls.master` | none | none | generated | none |
| Dijkstra example | `IdeaProjects/.../main.kt` | graph, distances | shortest path | the distances are minimal | none |
| qrng | `QuantumComputing/qrng.py` | none | three lines | none | none |

**Interactions.** The scheduler calls the run queue for every list; the thread
queue is the scheduler's state per CPU. CPUs talk through the thread queues
(each behind a spin lock) and through preemption interrupts (IPIs). Allocation
takes from the free counts, and whoever crosses a limit wakes the page daemon;
the daemon scans the page queues, frees to the physical allocator, posts
requests to the laundry thread, and votes for a kill when a pass frees nothing;
all of them communicate through locks, batches and counters. The encrypting layer and
the protection tool share only a file's sticky bit and the key; the system calls
hold the key. The shell, the compressor, the Dijkstra program and qrng stand
alone.

**Hard behaviours.** CPUs that act on each other's queues between two lock
acquisitions; counters read without a lock; an interrupt suppressed because one
is pending; a calendar taken modulo 64; a lock made of compare-and-sets;
page-queue operations that are batched and applied late; scans and walks that
drop their lock; requests that arrive while one is under way; a file-system call
that is refused, sleeps and starts again; a stop halfway through an in-place
transformation; a coder and a decoder that must count the same way. Each is a
row of `hazards` in `PROJECT.json`, with its line and the properties that watch
over it.

## Plan

Done: 1. the scheduler (`Runq`, `Tdq`, `Ule`) with the first theorems; 2. the
idle protocol (`IdleNotify`), which discharges what `Ule` assumes of the idle
loop, and the physical allocator (`Buddy`); 3. the page layer (`PageBusy`
refining `PageLock`, `PageQueues`, `FreeCount`) and the daemons (`PageClean`,
`Laundry`, `ActiveScan`, `Oom`); 4. the files (`VfsWrite`, `CryptoFS`, `Lzw`).

5. the theorems of the section [Proofs](#proofs).

Left, in this order:

1. Theorems: for the page layer `NoPageLost` of `PageQueues`; for the allocator that
   blocks stay aligned and disjoint.
2. The lock order of pairs of thread queues (`tdq_lock_pair`, `tdq_trysteal`,
   the blocked-lock hand-over). `Ule` takes two locks in one step.
3. The shell: processes, pipes and signals.
4. Interactivity arithmetic with its widths.

No specification declares a `RECURSIVE` operator: lists are searched with
quantifiers and `CHOOSE`, and folded with the community modules.

## Layout and runs

A module models one component and is independent of the instance; an `MC` module
gives its constants values. Several small components that share no state are
checked in one run: `Progress` (`PageBusy`, `IdleNotify`, `Laundry`, `ActiveScan`),
`PageLayer` (`PageQueues`, `FreeCount`, `PageClean`, `Oom`) and `Files` (`VfsWrite`,
`CryptoFS`, `Lzw`) put them side by side for any instance. A variable selects
which of them a behaviour is of (`what`; `contig` in `MCBuddy`, for two instances
of one component); the others stay as they begin.
Such a run is a disjoint union of state spaces: it says of every part what a run
of its own would. `MCProgress`, `MCPages` and `MCFiles` add the instance (`MCQueues` and
`MCCrypto` are instances of one part, for claims that do not hold), and
`MCProgress` the fairness.

Proofs are in modules of their own, named after what they are about:
`UleProofs` (with `Runq` and `Tdq`), `IdleProofs`, `PageBusyProofs`, `PageQueueProofs` and
`FreeCountProofs` about one component each; `ProgressProofs` and `PageLayerProofs` carry results over to the
compositions and prove what concerns a part that has no module of its own (`Laundry`,
`ActiveScan`, `Oom`, `PageClean`); `FilesProofs` is about the system calls and the enciphering layer.

### Runs

| Run | Instance | What it shows |
|---|---|---|
| `ule_priorities` | `MCUle1`: 1 CPU, 3 threads, 4 lists of 2 priorities, sorted lists; two threads change between interactive and batch priorities, and nothing is niced (`ule_masks` does that) | `TypeOK`; `QueuesSound`: the bit map names the lists that hold a thread and the removal index follows the insert index; `QueuedHighEnough`: no thread waits in a list worse than its priority; `LowpriBound`: `tdq_lowpri` is never worse than what the CPU runs; `SortedUnlessNiced`: the lists the PQ variant sorts stay sorted under insertion, removal and lending |
| `ule_two_cpus` | `MCUle2`: 2 CPUs, 3 threads, one list per run queue | `QueuedOnce`, `RunsOnce`: nothing is lost or duplicated; `CountersExact`; `IpiBacked`; `PreemptionAsked` |
| `ule_masks` | `MCUle2` with 2 CPUs, 2 threads, every mask, pins, bindings and a nice value | `AffinityKept`: a thread is dispatched and moved only where it may be |
| `ule_no_starvation` | `MCUleLive`: 1 CPU, 3 batch threads with three nice values | `NoStarvation` under `FairSpec` |
| `progress` | `MCProgress`: a page with 3 threads, an idle CPU with 2 others, the laundry thread, the active queue with 2 pages | who sleeps or waits is served: `HoldersAndSleepers`, `IsPageLock`, `SleepersWake` (`PageBusy`); `NoLostWakeup`, `MarkBacked`, `WorkRuns` (`IdleNotify`); `ShortfallAnswered` (`Laundry`); `ShortageReclaims` (`ActiveScan`); `DaemonsSound` (both) |
| `buddy` | `MCBuddy`: 3 orders; 2 pools over 6 pages from an odd one and a page on a second list, or 1 pool over three segments with contiguous requests | `ListsAgree`, `RequestsFilled`, `MemoryKept`, `BuddiesJoined`, `FreeFound` |
| `page_layer` | `MCPages`: 1 page with 2 threads, or 1 thread and a laundry; 1 domain of 5 pages; an object of 5 pages; 2 domains and 2 processes | `ListsHoldPages`, `NoPageLost`, `MembershipGuarded` (`PageQueues`); `SleepersJustified` (`FreeCount`); `ClusterSound`, `CleanReleases` (`PageClean`); `VotesAndWalks` (`Oom`) |
| `files` | `MCFiles`: 2 threads, 2 directories, 1 file; a file of 5 bytes in blocks of 4, one failure of the tool; inputs of up to 11 of 2 symbols | `CallsReturnClean`, `NamesCurrent`, `SuspendedIsFlushed`, `NobodyStuck` (`VfsWrite`); `PadsOwn`, `BitTells` (`CryptoFS`); `WordsReturn` (`Lzw`) |
| `ule_splatter_starvation` | `MCUleLive` with the splatter scheduler | `NoStarvation` is violated |
| `queue_of_torn_check` | `MCQueues`: 1 page, 2 threads, no laundry | `RightQueue` is violated |
| `tool_slips` | `MCCrypto`: runs of the tool alone over 5 bytes in blocks of 4, one of its reads or writes not whole | `RunsProtect` is violated |
| `idle_scan_reclaims` | `MCScan`: the active queue of `progress` without a shortage | `IdleReclaims` is violated |

Every counter that could grow is bounded by a constant named below, so all state
spaces are finite and searched completely. Deadlock is checked in every run.

## The scheduler

### Modules

| Module | What it is |
|---|---|
| `Runq` | the run queue of `kern_switch_*.c` as pure operators on `[queues, bits]` |
| `Tdq` | one CPU's `struct tdq` as pure operators, and the predicates `BitsExact`, `Calendar` |
| `Ule` | the state machine: all CPUs, threads, IPIs, and every operation of the scheduler |
| `MCUle1`, `MCUle2`, `MCUleLive` | small instances for TLC (`MCUle2` with two configurations) |
| `UleProofs` | lemmas about `Runq` and `Tdq`: what each operation returns, keeps and does to the threads on a list; the two invariants of `Ule` and its theorems |

`Discipline` selects which run-queue file is linked ("FIFO" or "PQ"), `Policy`
which scheduler file ("PRI" or "SPLATTER").

### State and steps

`tdq[c]` is `tdq_cpu[c]`, `td[t]` merges `struct thread` and `struct td_sched`,
`cur[c]` is `pc_curthread` (`NoThread` when the idle thread runs), `ipi[c]` an
`IPI_PREEMPT` on its way. A function of the scheduler that runs under a lock is
an operator from a record of the first four variables (`Sys`) to the next one;
an action applies the functions its handler calls, in their order, and stores
the result (`Settle`, `Becomes`).

An action is one critical section of one CPU. Where the code gives its lock up
half way, the rest is another action and `pend[c]` holds what CPU `c` still has
to do:

| `pend[c].step` | left by | finished by |
|---|---|---|
| `migrate` | `sched_switch` of a running thread that belongs elsewhere | `MigrateDone` (`sched_switch_migrate` with both locks) |
| `setcpu` | `sched_setcpu` inside `sched_add` of a thread that was on another queue | `SetcpuDone` |
| `trysteal` | `sched_switch` of a sleeping thread that leaves its CPU empty | `TryStealDone` (`tdq_trysteal`) |

Meanwhile the CPU has interrupts disabled (no `Clock`, `PreemptIpi`, `Wakeup` on
it) and the subject's lock is `blocked_lock`, so `Lockable(t)` is false for
everybody else. Other CPUs go on: that is where the interleavings are.

Correspondence, beyond what the names say: `Enqueue`/`Dequeue` are
`tdq_runq_add/rem`; `Choose` is `choosethread`, `sched_choose` and the switch;
`AddTo` the end of `sched_add` (`sched_setpreempt` on the own CPU,
`tdq_notify` on another); `Readd` the queued case of `sched_thread_priority`;
`Charged`/`AdvanceCalendar` the two halves of `sched_clock`; `IdleSteal`
`tdq_idled`; `Balance` one pair of `sched_balance`. `Exit` is `sched_throw`;
`ExitThread` is `sched_exit_thread`.

### Abstractions

- `sched_priority` and what it reads (`ts_runtime`, `ts_slptime`, nice) are
  replaced by a choice from `UserPris[t]`. The properties must hold whatever
  it computes.
- `sched_pickcpu` may return any CPU of the thread's mask: its search compares
  loads it reads without locks, so no property should depend on the outcome.
- The balancer may run at any time on the boot CPU, between any two CPUs the
  code's own test allows, instead of at its random intervals. A tick and the
  balancing it may start are separate steps; nothing holds a lock in between.
- `tdq_sysload` equals `tdq_load` (no thread has `TDF_NOLOAD`).
- `tdq_switchcnt`/`tdq_oldswitchcnt` only steer the idle loop's spinning and
  are left out, as are statistics, tracing and locks that are never contended.
- `static_boost` has its default meaning (a sleeping timeshare thread is raised
  to `StaticBoost`).
- `RunqRem` resets `ts_runq` and `td_rqindex`. The code leaves stale values and
  never reads them before the next insertion; resetting them merges states that
  differ only there.
- `(slot - 1) % NQS`: the code subtracts in an `unsigned char`; the results
  agree because 64 divides 256.
- The splatter scheduler's draw `random() % 64` decides nothing in the model
  because every draw is below every bound it is compared with
  (`SplatterAssumption`).
- External code, modelled from how the scheduler is used: the AST that acts on
  `TDF_NEEDRESCHED`, `sched_pin`/`sched_unpin`, turnstile propagation (it lends
  the current thread's priority to a lock's owner, only if it is better), thread
  allocation. `td_lend_user_pri` is not modelled.

### Bounds and fairness

**Bounds.** Priorities are scaled down, keeping each class non-empty with a
member on either side of each threshold. One CPU with three threads has
lists with two waiting threads, which is what sorting, draining and overtaking
need. Four calendar lists let the insert index turn all the way round. Two CPUs
with three threads let one CPU run a thread, hold one and lose one to the
other while a third is in transit; there the calendar has a single list, since
the one-CPU runs examine it. The run of the masks has two threads, so that
a mask can change while the thread is in each of its states. Nothing else is
bounded: no counter grows without limit (slices are reset when they expire), so
the state spaces are finite and searched completely.

**Fairness.** `FairSpec` assumes that the clock of a CPU ticks (`Clock`), that a
pending interrupt is taken (`PreemptIpi`), that a thread told to reschedule
reaches its AST (`Ast`), that the idle thread looks at its load (`IdleSwitch`),
and that a CPU gets the lock it spins for (`Finish`). The first two are
hardware, the third the return to user mode, the fourth the loop of
`sched_idletd`, the last the spin locks. Nothing is assumed about threads: none
need sleep, yield, fork or exit. The weak form is enough because none of these
actions is disabled again before it is taken, except by being overtaken by one
that does its work.

### Not modelled in `Ule`

Lock ordering (two locks are taken in one step), the arithmetic of
`sched_priority`, `sched_interact_*` and `sched_pctcpu_update`, the CPU
topology's search order, `runq_choose_fuzz` (unused by ULE), sysctl handlers and
statistics. The fences between the idle loop and `tdq_notify` are the subject of
the next section: an idle CPU in `Ule` sees its load at once.

## The idle protocol

`IdleNotify` looks at one thread queue at the level of single loads and stores.
`mem` holds the queue's words (`tdq_load`, `tdq_cpu_idle`, `tdq_ipipending`, the
lock); `buf[p]` is the store buffer of CPU `p`, whose oldest store reaches memory
at any later time (`Drain`), so that a load may overtake the stores before it. A
fence waits for the buffer to be empty, and so does taking a lock; giving a lock
up is a store like any other.

| Actor | Steps | Code |
|---|---|---|
| a remote CPU | `Lock`, `Add`, `Notify`, `Wake`, `Send`, `Unlock`; or `Lock`, `Rob`, `Unlock` | `sched_add`, `tdq_add`, `tdq_notify`; `tdq_idled` of another CPU |
| the idle thread | `Top`, `Switch`, `Idled`, `Steal`, `Spin`, `Recheck`, `CpuIdle`, `Back` | the loop of `sched_idletd`, in order |
| interrupts | `Preempt`, `StrayInterrupt`, `LocalAdd` | `sched_preempt`, any other interrupt, `sched_add` from a handler on the idle CPU |
| the running thread | `ThreadStops` | the part of `sched_switch` that changes the load |

Abstractions: which threads are queued is forgotten, only `tdq_load` is kept;
whether a new thread preempts a running one is a choice, but the idle thread
always gives way; `switchcnt # oldswitchcnt` is one bit, set by a switch and
cleared by the loop or by a tick. A critical section of the idle CPU is one step
that leaves its stores in the buffer. `cpu_idle` and `cpu_idle_wakeup` are
external: the first checks `sched_runnable` with interrupts held off and then
halts, the second may end the halt.

`NoLostWakeup` says that no CPU stays halted over a thread unless an IPI is coming or
is about to be sent; `MarkBacked` that `tdq_ipipending` never outlives its
interrupt, also while the store that clears it is still in a buffer; `WorkRuns`,
under the fairness below, that a thread given to an idle CPU makes it switch. The
code is the same in both schedulers; the map points at the splatter copy, which
nothing else stands for.

**Bounds.** An idle CPU, two remote CPUs, a load of up to 3, `steal_thresh` 2.
Without the fence in the idle loop and in `tdq_notify`, TLC finds the lost wakeup
at once. Two remote CPUs are needed so that one can take away what the other has
just announced; a third adds nothing, since they exclude one another by the
lock. A load of 3 leaves a thread for the queue after one runs and one is
stolen. `MaxLoad` is the only bound; an adder at the bound holds the lock and
can only take a thread instead.

**Fairness.** Buffers drain (`WF` of `Drain`), a remote CPU that holds the lock
finishes its critical section, the idle loop runs (`WF`), a pending IPI is taken.
`Switch` and `Preempt` spin for the queue's lock, which other CPUs may take again
and again: they have strong fairness, that is, the spin lock does not pass over a
waiter for ever. Nothing is assumed about threads, about other interrupts, or
about remote CPUs that hold no lock. `WorkRuns` is what `Ule` takes for granted
in the fairness of `IdleSwitch`.

## The memory

Locks and batches of the page layer are modelled step by step, where the code
relies on them; the page daemon's passes are modelled at the granularity at which
others act in between.

### The physical allocator: `Buddy`

`Buddy` models `vm_phys.c`. Every entry point runs under the lock of the free
queues, so an action is one whole call; what is hard is what a long run of
different calls leaves behind.

`order` and `pool` are the fields of `struct vm_page`, `lists[flind][pool][order]`
the free lists (`vm_phys_free_queues`; `lcnt` is the length), and `runs` what the
callers hold, which is not in the code: it says which pages may be freed.

| Action | Code |
|---|---|
| `AllocPages` | `vm_phys_alloc_pages`, `vm_phys_alloc_freelist_pages` with the split of the rest |
| `AllocNpages` | `vm_phys_alloc_npages` with `vm_phys_enq_range` for the excess |
| `AllocContig` | `vm_phys_alloc_contig`, `vm_phys_alloc_seg_contig` |
| `FreeRun`, `FreePage` | `vm_phys_free_contig`, `vm_phys_free_pages` of one page |
| `UnfreePage` | `vm_phys_unfree_page` |
| `Init` | `vm_page_startup` frees every segment |

The loop of `vm_phys_free_pages` is written by its result: the block that is
freed merges with the buddies of every order below `top`, the first order whose
buddy is not free. Pages are page numbers,
physical addresses shifted right by 12, whose parity `vm_freelist_add` looks at;
the counters `vm_freelist_odd` and `vm_freelist_even` are statistics and left
out.

The run `buddy` checks two memories. One (`contig` is FALSE) has two pools, in a
segment of 6 pages that begins at an odd one and one of one page on a second free
list; the other has one pool, three segments, two of them sharing a free list,
and contiguous requests.

- `ListsAgree`: the lists hold exactly the heads of free blocks, a free block is in
  one pool throughout, odd pages stay behind even ones (`ListsExact`,
  `PoolsUniform`, `OddLast`);
- `RequestsFilled`: `vm_phys_alloc_npages` gives as many pages as it could;
- `MemoryKept`: nothing is given twice and nothing is lost;
- `BuddiesJoined`: a free aligned range lies in one block;
- `FreeFound`: extraction finds a page exactly if it is free.

**Bounds.** Three orders let a block merge twice and be the middle of a split;
segments that begin at odd pages, end below a block boundary, or have one page
put the buddy of a block outside; requests of 5 pages exceed the largest block,
so that `vm_phys_alloc_contig` puts blocks together; the second range, the
alignment and the boundary make it refuse blocks. Two pools let blocks change
pool and be split there. Nothing else is bounded: a memory of a few pages has
finitely many states.

Not modelled: how the segment table is built, NUMA domains (one domain), the
tree of fictitious pages, `vm_phys_scan_contig` (it only picks a candidate for
`vm_page.c`), `vm_phys_early_*` and reports.

### The busy lock of a page: `PageBusy`, `PageLock`

`word` is `busy_lock` (sharers, exclusive mark, waiters bit), `plock` the owner of
the page lock, `proc[t]` where thread `t` is, with the word it has loaded. Every
load and every compare-and-set is a step of its own, so that a thread acts on a
word others have changed since.

| Actions | Code |
|---|---|
| `Begin`, `Try`, `Join` | `vm_page_tryxbusy`, `vm_page_trysbusy`, the test of `vm_page_sleep_if_busy` |
| `Block`, `BusySleep`, `Mark` | `vm_page_busy_sleep`, up to `msleep` |
| `Sunbusy`, `Drop`, `Sunlock`, `Sunhard` | `vm_page_sunbusy` |
| `Release`, `Locking`, `Xunbusy`, `Hard`, `StoreUnbusied` | `vm_page_xunbusy`, `_maybelocked`, `_hard`, `_locked` |
| `Down`, `Downlock`, `Downset` | `vm_page_busy_downgrade` |
| `Flash`, `Unflag`, `Wakeup`, `Unlock` | `vm_page_flash`, `wakeup` |

`PageLock` is what the rest of the kernel relies on: threads share the page, or
one owns it, and an owner becomes a sharer without a gap. `PageBusy` implements it
(`IsPageLock`, with `holding` read off where each thread is): every change of the word
is one step of the abstract lock, everything else a stutter. `HoldersAndSleepers`
says that the word counts exactly the holders and that whoever sleeps is
announced by the waiters bit or about to be woken. `SleepersWake` says that no
thread sleeps for ever.

**Bounds.** Three threads: one holds the page, one joins or sleeps, one flashes
or competes. One branch is not reached: the compare-and-set of `vm_page_flash`
that fails needs a fourth thread (holder, joiner, sleeper and flasher).

**Fairness.** Threads run (`WF` of `Running`) and a thread that blocks on the
page lock gets it although others take it again and again (`SF` of `Blocking`:
the mutex's turnstile queues them). Nobody need want the page. `SleepersWake`
assumes that sharers do not follow each other without a gap for ever: the code
lets a new sharer in while an exclusive requester sleeps.

### Page queues: `PageQueues`

A page's `queue` field and flags change under its page lock; the lists change
later, under a queue lock, from per-CPU batches (`batch[a][q]`). What a thread has
begun is a sequence of instructions in `code[a]`, one step each. That is how one
definition describes an operation (`Activate`, `Deactivate`, `DeactivateNoreuse`,
`Launder`, `Unwire`, `Advise`, `Free` are the functions of those names) and its
steps interleave with those of the others.

| Actions | Code |
|---|---|
| `Begin`, `Alloc`, `Use`, `UnlockPage`, `UnlockQueue` | a thread uses, wires, unwires, frees or allocates a page |
| `Destroy` | the page's object is destroyed (`OBJ_DEAD`); its pages are left to the thread that did it |
| `Mark`, `Defer`, `DequeueNow`, `Clear` | `vm_page_enqueue`, `vm_page_requeue`, `vm_page_dequeue_deferred`, `vm_page_dequeue` with `_dequeue_complete` |
| `Submit`, `Finish`, `Drain`, `Check`, `Apply`, `Settle` | `vm_pqbatch_submit_page`, `vm_page_drain_pqbatch`, `vm_pqbatch_process(_page)` |
| `Fail` | the assertion of `vm_pqbatch_process_page` (`vm_page.c:3134`) does not hold |
| `BeginScan`, `Collect`, `CollectOne` | `vm_pageout_init_scan`, `vm_pageout_collect_batch`: its lock, and each turn of its loop |
| `Look`, `StopScan`, `EndScan` | `vm_pageout_next`, the end of a scan |
| `Decide`, `Reinsert`, `Put` | the loop of `vm_pageout_scan_inactive`, `vm_pageout_reinsert_inactive` and, page by page under the queue lock, `vm_pageout_reinsert_inactive_page` |
| `DecideLaundry`, `Clean` | the loop of `vm_pageout_launder`, the page's side of `vm_pageout_clean` and `_flush` |

- `ListsHoldPages`: while nobody holds a queue's lock, its list holds exactly the
  pages whose field and flag say so, once each, and `pq_cnt` counts them;
- `NoPageLost`: a page that belongs to a queue is on its list, or somebody has yet
  to put it there; a request is pending only while somebody has yet to look at it.
  A page of a dead object is excepted from the first: `vm_pageout_scan_inactive`
  takes a dirty one off the list and leaves it nowhere, "as they are being paged out
  and freed by the thread that destroyed the object" (`vm_pageout.c:1601-1606`);
- `MembershipGuarded`: where a page belongs changes only by the hand of whoever
  holds its lock, or is allocating it.

A page may change between the two loads of `vm_pqbatch_process` (`Check` reads the
queue field) and `vm_pqbatch_process_page` (`Apply` the flags), since nothing in the
code excludes it. When `Apply` then meets a page that is queued elsewhere, the
assertion at `vm_page.c:3134` fails (`Fail`, `failed`), and the behaviour ends: a kernel
with assertions stops. One without them (`MYKERNEL` has no `INVARIANTS`) puts the page
on a list it does not belong to and goes on; of what it does from there nothing is
claimed, and its lists are wrong then. That the assertion can fail is what the run
`queue_of_torn_check` shows, see [below](#what-the-checks-found); the properties of
`page_layer` hold in every state up to there, the failing one included.

**Bounds.** One page and batches of one: batches fill up, entries go stale, and a
page is requested again while an earlier request for it lies in another CPU's
batch. There are two threads beside the daemon without a laundry, and one thread
with it. A full batch of stuck pages needs two pages and is not reached; the
daemon's two scans do not overlap; `PQ_UNSWAPPABLE` is not modelled.

### Free-page counts: `FreeCount`

`free[d]` is moved by compare-and-set; whoever crosses a limit then takes
`vm_domainset_lock` and updates the sets of short domains (`DomainSet`,
`DomainClear`), against counts that have moved on. `Allocate` and `Free` are
`vm_domain_allocate` and `vm_domain_freecnt_inc`; `WaitDomain`, `WaitDoms`, `WaitGlobal` are
`vm_wait_domain`, `vm_wait_doms` with `vm_waitpfault`, and `vm_wait_min` with
`vm_wait_severe`; `Wakeup` is `pagedaemon_wakeup`; the `Worker...` actions are the
top of `vm_pageout_worker`, whose store of 0 to `vmd_pageout_wanted` waits in a store
buffer (`late`).

`SleepersJustified`: a domain is wrongly in or out of a set only while somebody
has yet to look again, and who sleeps for memory sleeps on domains that are still
in the set it waits on, is counted, and is woken when the count recovers.

No property claims that the worker sees every shortage at once: its delayed store
of 0 can overwrite a waker's 1, and it then finds the shortage at its next
timeout. The comment at `vm_pageout.c:1975-1981` says no more than that either.

**Bounds.** One domain of 5 pages, two users, one thread of the page daemon's
process; the limits are 1, 2, 2, 3, 4 and 5, so that every interval between
neighbouring limits that the code tells apart has a count.

### Writing a page: `PageClean`

The laundry thread writes a page, of a vnode's object or of one without a vnode:
`NoVnode`, `StartWrite`, `VGet`, `Relock`, `Unlock` (`unlock_all`), `UnlockMp`
(`unlock_mp`) are `vm_pageout_clean`, `Protect`, `Reverse`, `Forward`
`vm_pageout_cluster`, `Put`, `Result` `vm_pageout_flush`. In between, other threads
hold, clean, free and touch pages, suspend the file system, lock the vnode or detach
the object (`Hold`, `Touch`, `Write`, `Vnode`), and the pager completes writes in
transit (`Complete`).

`ClusterSound`: what is written is a run of at most `vm_pageout_page_count` pages
around the page asked for, dirty, not busy, and none writable any more; and the
cluster is the aligned block of the page whenever all of that block is dirty.
`CleanReleases`: what is given up at the end is what `vp` and `mp` say (`Releases`:
`vput`, `vm_object_deallocate`, `vn_finished_write`), whatever is held: so on each of the
six ways that lead there the two variables have to agree with `mine`, and the thread
then holds nothing; and the object counts as paging exactly the pages in transit.

**Bounds.** Five indexes and clusters of three put the page at either end of its
block and of the object; one change by others at any moment until the thread is
done, after which only the pager goes on.

### The laundry thread: `Laundry`

The page daemon posts a request after a pass (`Post`); the thread launders in runs
(`StartShortfall`, `GoOnShortfall`, `TryBackground`, `Launder`) and looks at the
request at the end of each round (`Look`, `Sleep`). How many pages a launder writes
and how many it should are inputs. `last_target` is read before it is set when
nothing was freed since the thread started (`vm_pageout.c:1094-1101`): the outcome
of that comparison is a free choice.

`DaemonsSound` contains that the thread sleeps only without a run and without a
request. `ShortfallAnswered`: when every pass misses its target, the thread comes
to launder for the shortfall, also if a background run was under way.

The latter assumes that launders write a page again and again (`SF` of
`LaunderAny(1..)`), beside the two threads going on (`WF` of `Worker` and `Pass`). If the pages
at the head of the laundry can never be written, a background run does not get
on, and while it lasts its request blocks every request for a shortfall
(`vm_pageout.c:1656-1667`). A request that is posted during a shortfall run is
dropped when that run ends early (1120-1137).

**Bounds.** Two rounds per shortfall run, background runs of 3, one page a round,
a belt of 2, clusters of 2.

### The active queue's clock: `ActiveScan`

The list of the active queue with the markers that are the two hands of a clock.
`Start`, `Collect`, `Meet`, `Visit`, `Finish` are `vm_pageout_scan_active`: a scan
collects pages behind its marker in batches, ages each, and in the middle of a
batch may meet the second hand, which moves both. `Activate`, `Take`, `Reference`
are other threads, between any two steps. What happens to a page off the queue is
not followed.

`DaemonsSound` contains that the hands keep their order and that the marker is on
the list exactly during a scan, between the hands. `ShortageReclaims`: in a
shortage, a page that nobody uses leaves the queue. Without a shortage that is
false: run `idle_scan_reclaims`.

The code follows README.Captain where that departs from FreeBSD, with two
peculiarities: the decrement of the count follows an `else` without braces and
applies to referenced pages as well, and `vm_page_activate` draws a count from 0 to 31
under a comment that says "Ensure that act_count is at least ACT_INIT"
(`vm_page.c:3424-3431`). The model has both.

**Fairness.** The daemon goes on (`WF`); its idle scans do not always look at
nothing (`SF` of `IdleLook`; the number of pages follows the ticks since the last
scan).

**Bounds.** Two pages, batches of 2 entries, counts up to 5, so that a page
survives several looks; idle scans of at most one entry.

### Out of memory: `Oom`

`Freed`, `FreedNothing`, `Recall`, `Vote` are `vm_pageout_mightbe_oom`, split where
a flag and the counter of votes are not changed together; `NextProc`, `SizeProc`,
`Kill` are the walk of `vm_pageout_oom`, which drops the list's lock while it sizes a
process. Processes protect themselves, exit and go (external).

`VotesAndWalks`: the counter holds a vote for each domain whose flag is up, but for
the instants between the two; and the process a daemon stands on, or would kill,
is held once for each daemon and role and still on the list.

Two walks can be under way at once. A vote is recalled at the next pass that
freed nothing as well (`vm_pageout.c:1717-1731`), since the count of passes
starts again after a vote; votes of several domains coincide only if their
passes do. A domain without memory is counted by `vm_ndomains` and has no daemon to vote
(constant `Bare`, empty in the run).

**Bounds.** Two domains, two processes of different sizes, two passes to a vote.

## The files

### System calls: `VfsWrite`

The calls of `vfs_syscalls.c` that change a file system, while the file system may
be suspended: `hand[t]` is what a call holds (references and locks of vnodes, a
count as a writer; buffers, files, range locks, credentials under `other`). A
suspension (external) refuses new writers, waits for those it counted, flushes
every vnode under its lock and holds the file system until it is resumed. A
call that has looked up a name asks with `V_NOWAIT`; refused, it gives everything
back, sleeps (`XSleep`) and starts again. Others wait before they lock (`Wait`).

| Actions | Code |
|---|---|
| `LookupParent`, `LookupLeaf` | `namei` (external), by the flags each call passes |
| `Mknod`, `Mkfifo`, `Symlink`, `Mkdir`, `Undelete` | `kern_mknodat`, `kern_mkfifoat`, `kern_symlinkat`, `kern_mkdirat`, `sys_undelete` |
| `Unlink`, `Rmdir`, `Link`, `Rename` | `kern_unlinkat`, `kern_rmdirat`, `kern_linkat_vp`, `kern_renameat` |
| `Setattr`, `Truncate`, `Fsync`, `Fallocate`, `Sync` | `setfflags`, `setfmode`, `setfown`, `setutimes`; `kern_truncate`; `kern_fsync`; `kern_posix_fallocate`; `sys_sync` |
| `Access`, `Stat`, `Readlink`, `Open`, `Fhopen` | the calls that keep a file locked while they look at it or open it |

- `CallsReturnClean`: refused, interrupted, restarted or failed at any step, a call
  returns with nothing in its hand;
- `NamesCurrent`: when a directory changes, the name is as the lookup found it;
- `SuspendedIsFlushed`: a suspended file system is as it was flushed;
- `NobodyStuck`: no group of threads, with or without the suspension, waits within
  itself.

**Bounds.** Two threads, a root with one subdirectory and one file. In the part
`calls` one thread makes every call and the other makes names, renames and
changes attributes, all with one name; in `names` there is a second name, so that
link and rename succeed and race with each other and with rmdir.

Simplifications: shared locks of readers are exclusive here (which can only make
waiting worse); one suspension at a time; a file that was opened belongs to the
process's table and is not followed. Creation by `open` is inside `vn_open_cred`
(external).

### Protected files: `CryptoFS`

`file` is the bytes on disk, each the set of key-stream positions it carries;
`sticky` the bit. `Pread`, `Decipher`, `Encipher`, `Pwrite`, `Truncate` are the
layer's `xmp_read`, `xmp_write`, `xmp_truncate`: read looks at the bit after the bytes, write
before it opens the file. A request may begin anywhere; its first byte gets the first
pad of its block. `Run`, `Open`, `ReadChunk`, `ReadFails`, `WriteFirst`, `WriteSecond`,
`Complete` are `protectfile.c`, which clears the bit first and sets it last; `Stop` ends
a run at any point (crash, kill, a file that cannot be opened after the bit is gone, a
bit that cannot be set), after which the tool can be run again.

The tool does not stop when one of its reads or writes fails or comes short; each
such call is counted (`slips`, at most `Slips`). A short or failed write leaves the
file position (`tool.pos`) behind the total. When the second read of a block fails
the count loses one, and the position gets one ahead; when the first fails, -1 is
taken for a huge count (it is unsigned), so that the loop goes on, writes again what
it has in hand and gets one ahead as well (`ReadFails`). What `malloc` left in a buffer
that was never filled counts as bytes without pads.

- `PadsOwn`: a byte never carries the pad of another position, whatever calls and
  runs do to each other and wherever a run stops;
- `BitTells`: as long as calls and runs keep apart and none stops early (`clean`), the
  bit says whether the file is enciphered, and a call that begins at a block returns
  plain bytes.

Both are promised as long as `steady` holds: no read or write of the tool failed or
came short, no request enciphered from within a block, and no call made the file longer
during a run. The first breaks the README of the program: see `tool_slips`
[below](#what-the-checks-found), where requests inside a block are as well. The third is
a matter of the tool's total, which counts an incomplete block that then grows. The preconditions are there
because the code has no lock and no journal: a run that stops leaves a file in two
parts under a cleared bit. Not modelled: the last partial block is transformed in a
buffer of 16 bytes, the key (a constant here; the tool's argument, in cryptoFS.c also),
and callbacks that only pass a call through.

**Bounds.** Blocks of 4, halves of 2, a file of 5 bytes: a whole block and a part of
one, halves that are read and written in part, holes and truncation included. In
`files`, `Slips = 1` and the constraint `Followed` ends a behaviour of the layer in the
first state that is not `steady`: the properties promise nothing of the states behind
it, since `steady` does not come back. So the run shows that `steady` is lost no later
than the harm is done; `tool_slips`, which goes on, shows the harm of a failed call.

### The compressor: `Lzw`

One step per symbol and per code. `trie` maps words to codes, `table` codes to words,
`bits` is the stream; codes have the width of the next code's number, which
compressor and decompressor each count. `Flush` writes the stale byte behind the
last one, as `flush_code` does, and the code of the pending word is never written.
The children of a new trie node and the hash chains of the table are not
initialised: `Stray` ends the program when one is followed. A new entry of the table
is made in place, by a byte written behind the memory of the word it extends
(`main.c:219`, `main.c:235`): `Overrun` ends the behaviour when that byte was another
word's or the allocator's, and `Decode`, `DecodeStrange` are the case that it was spare.

`WordsReturn`: the decompressor reads each code with the width it was written
with; the codes written are the symbols taken, but for the pending word; and until
a code is not in the table the words read are those written and the table agrees
with the trie. It does not say that files survive a round trip: they do not, since
the last word is missing, the decompressor's output never reaches the length it
waits for, and `prev_code_num` is not updated after a code that was not in the
table.

**Bounds.** Two symbols, inputs of up to 11 (all of them), bytes of 2 bits: the
decompressor reads codes of two, three and four bits, so the width changes at two powers
of two, on a table that is one entry behind; and the flush has whole and partial
bytes. Not modelled: buffers that fill before the end, words longer than the
decompressor's first 4096 bytes (`realloc` of a word of the table), the file header,
the reset at 2^64 - 1 codes, and the vendored cipher.

## What the checks found

Four statements of the repository that the code does not keep, each a run that
finds the violation:

- *Splatter starvation.* `tdq_runq_add` of `sched_ule_splatter.c` draws a number
  below 64 and compares it with `PRI_MIN_BATCH` (152), so every thread enters
  the realtime queue, in the list of its priority. The calendar that is to
  ensure "that all threads get a chance to run" then governs nothing.
- *The torn check of a batch.* `vm_pqbatch_process` tests a page's queue and then
  loads its flags. The page daemon frees a stale entry's page without the queue
  lock, and the page can be allocated and queued elsewhere between the two loads:
  the flags then belong to another queue, against the assertion of
  `vm_pqbatch_process_page` (`vm_page.c:3134`).
- *Failures of the tool.* `protectfile` prints a message when a write comes short and
  does not look at its second read's result (`protectfile.c:147`, `180`, `188`). It goes
  on from another position, finishes, and sets the bit over a file whose bytes have no
  pads or those of others, against "Upon completion, the sticky bit is set accordingly
  and the file is properly encrypted or decrypted" (`README.Captain:37`).
- *Idle scans.* A scan that decremented a count puts the first hand back at the
  head of the active queue. Idle scans look at a few pages only, so they keep
  meeting the same ones, against "attempt to visit every active page"
  (`vm_pageout.c:1190`).

Seen while modelling, and shown by no run:

- `runq_add` of `kern_switch_pq.c` compares the *index* of a list (0..63) with
  priority bounds (47, 80, 119; lines 388 and after), so with the kernel's constants
  only lists 48..63 are sorted, and the header's "each run queue always has "highest"
  priority at the head" fails for the interactive lists. `SortedUnlessNiced` speaks of
  the lists that are sorted.
- A CPU that balances a thread to itself is not asked to preempt
  (`sched_ule_pri.c:937-944`): `PreemptionAsked` exempts threads that come from
  another queue.
- A running thread whose priority gets worse (return to user mode, end of a
  loan, nice) does not request a reschedule, even if a better thread waits.
- `sched_nice` changes the priority of a queued thread for the worse without
  moving it: `SortedUnlessNiced` excepts it, and a thread that is reniced
  for ever while it is queued can be put at the end of its list again and again,
  so `NoStarvation` is checked without it as well.
- With an unlucky schedule the assertion of `vm_page_dequeue_deferred`
  (`vm_page.c:3287`) meets a page in the same window as the torn check.
- Votes for a kill, shortfall requests, and the clock's `else`: see `Oom`, `Laundry`
  and `ActiveScan` above.
- `xmp_read` and `xmp_write` divide the offset by 16 and drop the remainder
  (`cryptoFS.c:353`), so a read that begins inside a block takes the pads of the block's
  first bytes and does not give back what was written: `steady` excludes it from
  `PadsOwn` and `BitTells`. A kernel that asks for whole pages does not notice.
- LZW's missing last word, and its writes behind the words of its table: see `Lzw`.

## Proofs

What TLAPS proves, each for every value of the constants. Where the third column
names a property, TLC checks it in a run as well.

| Module | Theorem | What it says |
|---|---|---|
| `UleProofs` | `TypeCorrect`, `QueuesAreSound` | `TypeOK`; `QueuesSound`: bit maps and calendar indexes are right |
| | `ThreadsQueuedOnce` | `QueuedOnce`: no operation loses or duplicates a queued thread |
| | `ThreadsRunOnce` | `RunsOnce`: a running thread is the current thread of exactly one CPU |
| | `MarksAreBacked` | `IpiBacked`: `tdq_ipipending` stands only with its interrupt |
| | `LowpriIsBound` | `LowpriBound`: `tdq_lowpri` is never worse than what the CPU runs |
| | `FiledHighEnough` | `QueuedHighEnough`: nobody waits in a list worse than his priority |
| | `CountersAreExact` | `CountersExact`: `tdq_load` and `tdq_transferable` are counts of threads |
| | `Invariance`, `Safety` | the two inductive invariants they follow from |
| | `ListsStaySorted` | `SortedUnlessNiced`: what `kern_switch_pq.c` sorts stays sorted |
| | `AffinityIsKept` | `AffinityKept`: a thread is moved and dispatched only where it may be |
| | `PreemptionIsAsked` | `PreemptionAsked`: a better thread that joins a queue has the CPU asked to give way |
| `IdleProofs`, `ProgressProofs` | `WakeupsKept`, `NoWakeupIsLost`, `MarksAreBacked` | `NoLostWakeup`, `MarkBacked` of the idle protocol, alone and in `Progress` |
| `ProgressProofs` | `RequestsAreSeen`, `DaemonsAreSound` | the laundry thread sleeps over no request; with that, `DaemonsSound`: the clock's hands and its marker keep their order |
| `PageBusyProofs` | `HoldersAndSleepersHold` | `HoldersAndSleepers`: the word counts its holders and announces its sleepers |
| | `ImplementsPageLock` | `IsPageLock`: `PageBusy` refines `PageLock`, safety |
| `FreeCountProofs`, `PageLayerProofs` | `SleepersAreJustified` | `SleepersJustified`, with `SetsFollowCounts`: alone and in `PageLayer` |
| `PageQueueProofs`, `PageLayerProofs` | `PagesFiled`, `ListsHoldTheirPages` | `ListsHoldPages`: lists, fields, flags and counts of the paging queues agree |
| | `MembershipIsKept`, `LockGuardsMembership` | `MembershipGuarded`: the page lock guards where a page belongs |
| `PageLayerProofs` | `VotesAndWalksHold` | `VotesAndWalks` of the vote and the walk that kill a process |
| | `ClusterIsSound` | `ClusterSound`, with `ClusterAligned`: what is handed to the pager |
| | `CleaningReleases` | `CleanReleases`: `vp` and `mp` tell what is held, nothing stays held, and `pip` counts pages in transit |
| `FilesProofs` | `ReturnsClean` | `CallsReturnClean`: a call returns with nothing in its hand |
| | `FoundNamesAreCurrent` | `NamesCurrent`: a changed name is as the lookup found it |
| | `SuspendedStaysFlushed` | `SuspendedIsFlushed` |
| | `LocksAndFlushesExclude` | vnode locks exclude one another; no writer is left during a flush |
| | `PadsStay` | `PadsOwn`: no byte carries another's pad while `steady` |
| | `BitIsRight` | `BitTells`: the bit tells of the whole file while `clean` and `steady` |

### Assumptions

They are named, in the modules that declare the constants, and TLC evaluates all
of them in the runs. `RunqAssumption`: there is a list, `NoThread` is no thread.
`TdqAssumption`: the priority classes are ordered, every priority has a list.
`UleAssumption`: parameters are well typed, there are finitely many threads (the
counters are cardinalities). `BusyAssumption`: finitely many threads, `Nobody` none
of them. `QueuesAssumption` (`PagesAssumption` for the instance with a laundry): finitely
many pages, no marker among them, the daemon is none of the threads.
`LimitsAssumption` (`CountsAssumption` in `PageLayer`): the limits are in the order
`vm_pageout_init_domain` gives them, and no user is a thread of the page daemon. `OomAssumption` (`KillerAssumption`): finitely many domains, sizes are
numbers. `IdleAssumption` (`CpusAssumption`): the idle CPU is none of the remote
ones, bounds are positive. `LaundryAssumption` (`ThreadAssumption`): rates and
counts are numbers. `FilesAssumption`: directories and files are different things,
`.` is no entry. `SizesAssumption` (`LayerAssumption`): a block
has two halves.
`CleanAssumption` (`CleaningAssumption`): an object has a page, and a
cluster has one. None restricts a size, and no proof uses a bound of a run; the
bounds that the models themselves contain (`MaxLoad`) are arbitrary.

No theorem has a hypothesis beside these. Those about the paging queues speak of
behaviours that end when the assertion of `vm_pqbatch_process_page` fails: they say that
this is the only way in which the lists can go wrong.

### The scheduler

*Types and queues.* The first invariant is `Inv == TypeOK /\ QueuesSound`. Neither
part is inductive alone: the scans take the head of the list a status bit
names, so what they return is a thread only if the bits are exact; and exact
bits are kept only by insertions into lists that exist, which is `TypeOK`.
`Calendar` belongs to it because a removal may advance the removal index only
while the two indexes differ, and by one.

*Safety.* None of the other invariants is inductive either. A dequeue decrements
`tdq_transferable` rightly only if the thread is on the queue that its record
names, and once; a CPU that takes a thread from another must know that it runs
nowhere; and a hand-over that is under way is right only if nobody else can
reach its thread. `Safe == Sound(Sys, pend)` says all of it together:

- `Kept`: types; each list holds, once each, the threads whose records name it
  (`Listed`); marks have their interrupts (`Backed`); nobody is filed too low
  (`High`); `tdq_transferable` counts the queued threads that are not pinned
  (`Transferable`); unless threads are niced, the lists to be sorted are (`Ordered`);
- `Settled` for each CPU: the current thread is in the state that `pend`
  calls for, and on this CPU unless it is leaving (`Stands`), `tdq_lowpri` bounds its priority
  (`LowAt`), and `tdq_load` exceeds the queue's threads by one, or by none while a
  hand-over has already dropped it (`Extra`);
- `Apart`, `Known`: no two CPUs have hold of one thread, and every running thread
  is the current thread of some CPU.

Inside a critical section this does not hold. After the outgoing thread is put
away the CPU has none (`Vacant`) until `choosethread`; a thread that binds itself
runs on a CPU its record no longer names (`Nearly`). A change to one thread that no
CPU runs or has in transit (`Loose`) leaves all CPUs as they are (`Shift`). Each function of the scheduler has a lemma that takes one of these states to
another, each action one that composes them (`...Safe`), and `NextSafe` splits on the
disjuncts of `Next`. They rest on the lemmas about lists at the head of the module:
insertion and removal add or take exactly one thread (`OneMore`), wherever the
discipline puts it, so that `IsInjective` and the range are kept.
`SortedUnlessNiced` needs two things more. `SortedInsert` looks for the first worse
thread only, so it is right because the list was in order (`ListInsertInOrder`); and no
thread may change its priority for the worse where it is queued. The lemmas about
`sched_thread_priority` ask for that (`Licensed`): a loan is always better than what the
borrower has, a thread that gives one back is running, and `sched_nice` is left.

*Action properties.* `AffinityKept` needs an invariant about what is decided now and
used later: a CPU dispatches what is in its queue, and finishes a hand-over, without
another look at the mask. `Homed` says that a thread that is queued, or on its way to
a queue, is on a CPU it may use, and that a bound thread is pinned; a thread that
runs need not be, since its mask may change under it. `sched_affinity` keeps `Homed`
because it takes a queued thread out and adds it again, and because it must lock the
thread, which is impossible while it is in transit. For both properties the
functions of the scheduler are described by what they do not do: no thread changes
CPU, and only one joins a queue (`Stays`), nobody switches (`Plain`), nothing that
counts changes (`Quiet`, `Calm`). `StepObeys` then needs to know of a step only whom it moved
first (`Start`), whom it let join a queue, and that the CPU of that thread was asked
(`Asks`). `tdq_notify` sends nothing when a mark stands: that the mark has its
interrupt (`Backed`, from `Safe`) is why the CPU is asked all the same. The threshold
counts only if it is not 0: `sched_shouldpreempt` takes 0 for "never"
(`sched_ule_pri.c:438`), so `PreemptionAsked` promises nothing then.

### The idle protocol

`NoLostWakeup` needs to know what is in the store buffers. `Inv` of `IdleProofs` says
what each CPU has stored but not published where it stands (`Stored`, `Ordered`,
`Guarded`: who does not hold the lock has no stores to what it guards), that a
remote CPU past `tdq_notify` has sent an interrupt or knows that none is needed
(`Told`), and that the idle CPU has announced itself, visibly to everybody, before
it looks at its load for the last time (`Announced`). The two fences are where
`Told` and `Announced` come from.

### The busy lock

`Inv` of `PageBusyProofs` adds to `HoldersAndSleepers` that the waiters bit is set on a
busy word only (`WaitersBusy`), and what each thread knows from the word it has
loaded, where it stands (`Knows`): what it saw, not what is there now. A
compare-and-set turns the one into the other. `ImplementsPageLock` then needs
only that holders exclude one another: each step is matched to one step of the
abstract lock or to a stutter, with `holding` read off where each thread is.

### The page queues

`ListsHoldPages` looks at single moments; in between, an operation on a page is spread
over the instructions that several actors have yet to execute, and the queue may
change under each of them. `Inv` of `PageQueueProofs` therefore speaks of what is left
of each actor's code (`Actors`):

- `Shape`: what may come after what (`Follows`): the rest of a batch under its queue lock,
  then the rest of an operation, then the page is given back;
- `Sound`, for each instruction: who has it holds the locks that it relies on (`Holds`: the
  queue lock for an entry of a batch, the page lock for a change of the field, neither
  while a page is being allocated), the page is in the state that allows it (`Serves`),
  and it is where the instruction takes it to be (`Placed`). A `submit` or `finish` names a
  queue that the page may have left meanwhile, but not another one;
- `Match`, for two instructions of any two actors on one page: nobody else allocates it,
  nobody frees it while it is written, and the two halves of `vm_page_dequeue_complete`
  are not crossed by those of another dequeue.

`Listed` is `ListsHoldPages` for every moment, with the markers' places. `Unused`
says that a free page belongs to no queue, although it may still be on a list with
its dequeue pending, which is why `vm_page_alloc` has to dequeue it; `Headed` that
only inactive pages are asked to the head, where `vmd_inacthead` is. The proofs of
the actions share one frame: what an actor's step may do to a page that others have
instructions about (`Moves`, `Prepares`, and the cases `Asks`, `Assigned`,
`Detached`, `Cleared`, `Filing`, `Dropped` of `Writes`) leaves the instructions of
the others sound (`OthersKeep`) and those that are left to the actor himself
(`TailKeeps`); each action then shows that it is one of these cases, and what it
does to the lists (`Leaves`, `Joins`). `Doing` is what makes a new operation's
instructions fit in. `MembershipGuarded` follows step by step: who stores to a
page's field has its lock by `Holds`, and `Clear`, which has not, wipes the flags of
a page whose field is empty already (`Placed`), so that the page belongs to no queue
before and after.

### The free-page counts, votes and laundry

`SetsFollowCounts` alone is not inductive: who finds a domain wrongly in or out of a
set must be about to make the call that puts it right, not the opposite one
(`RightCallPending`), and code that is pending has one of a few shapes (`Codes`). The
vote needs each daemon's flag where it stands (`Walker`) beside the two counters.
The proofs were about `FreeCount`, `PageQueues` and `IdleNotify` alone; `SameCounts`, `SameQueues`
and `SameIdle` show that the instances in the compositions have the same actions.

### The active queue's clock

`HandsOrdered` speaks of ranks; its proof speaks of who precedes whom in a list without
duplicates (`Precedes`), since that survives what moves every rank. `Joins` says
it of two lists one after the other, and a list is cut in three around the element
that an operation looks for (`Around`): so `WithoutIs` and `BehindIs` tell what a removal
and an insertion keep. `Sorted` is `HandsOrdered` in these terms, with the
list's shape, and is inductive with the types (`ScanInv`). When a batch is collected
behind the marker, either it holds the second hand or its last entry, behind which
the marker goes, is before that hand (`CollectSorts`). In the first case the marker is
behind the hand until the batch comes to it, when both hands move and the rest of
the batch is dropped (`MeetSorts`).

### Writing a cluster

`ClusterSound` looks at one moment, when the cluster is complete. `CleaningInv` says what
is true from the moment the page is found again under the object's lock: every page
gathered so far is dirty, not busy and not writable (`Found`), which others cannot
change while the object's lock is held (`Holding`), although they take the page locks in
between. That the cluster is the aligned block needs the order of the scans
(`Straight`): if the block is all dirty, the scan goes back to the block's beginning
without a pause, since no index in between is a multiple of the cluster's size
(`Block`), and from there only forwards, because it is full before it leaves the
block. `CleanReleases` needs to know at each point what `mine` is beside `vp`, `mp` and
whether there is a vnode (`Holding`, `Taken`), and `Paging`: while the answers come in, `pip` is the number of
busy pages in the cluster, and all those not yet heard of are busy; afterwards others
may busy pages of the cluster too, so the count is only bounded by them.

### System calls

`Inv` of `FilesProofs` gives each program point of a call the exact number of references
it owes on each vnode (`Owed`), the locks it has (`Locked`) and the rest of its hand
(`Kept`), by the kind of call. That is what an early return has to give back, and the
proofs of the actions are that it does. `Current` says that a name is as it was
found only while the directory and what it names are both locked: an attempt
that was refused has given both up and looks again. `SuspendedIsFlushed` follows
because whoever changes a file system is counted (`hand[t].writer`), and nobody
is counted during a flush (`Still`).

### The enciphering layer

`LayerInv` has three parts. Types (`LayerTyped`) bound every request. While all is
`steady`, the tool goes by whole blocks until it is past the file's end, with the file
position where its total says (`Chunked`), so a chunk gets the pads of its own place,
and neither it nor a request that is to be written carries others (`Pads`,
`Requested`); a call may write between the tool's read and its write, and is
overwritten, but with bytes of the same place. While calls and runs keep apart and none
stops as well (`clean`), the file is transformed up to the point the tool has reached,
half a chunk included, and not beyond (`Edge`, `Whole`). A step that is not steady
has to keep the types only, in which the total may be any integer: a read that
fails takes one off it. `Slipped` says that whatever was not whole is not steady,
and `ChunkWritten` is the one lemma about both halves of a chunk.

### Only model-checked

- `NoPageLost`, which needs to know which batch or scan will come by a page that
  has been asked for; everything about `Buddy`;
- `NobodyStuck` (a statement about every set of waiting threads), and
  `WordsReturn`, which relates two sequences of unbounded length built symbol by
  symbol: induction over data, which the prover does not do;
- liveness (`NoStarvation`, `WorkRuns`, `SleepersWake`, `ShortfallAnswered`,
  `ShortageReclaims`), which rests on fairness and `ENABLED`, out of its reach.

## Not modelled

- *Shell.* The program is one loop around fork, exec, pipes and `wait`; its hazards
  are listed in `PROJECT.json`: a child whose redirection fails returns into the
  shell's loop (`myshell.c:77`), and a pipeline reaps with one `wait` per command,
  whichever child that is (`myshell.c:236`). Next in the plan.
- *Interactivity arithmetic.* Sequential arithmetic on tick counters of unbounded
  range; `Ule` takes its result from a set, and its properties hold whatever it is.
- *Key system calls.* `sys_setkey` and `getkey` replace their arguments by fresh,
  uninitialised memory and write through a table of null pointers: no call comes
  back with a defined state, and README.Captain says they were not finished.
- *Objects and contiguous allocation of `vm_page.c`.* The per-object trees are
  sequential under the object's lock; `vm_page_reclaim_contig` is not modelled.
- *Of the pageout daemon*: the PID controller's arithmetic (external), the
  low-memory handlers, swapping out of processes, statistics.
- *Of the system calls*: mount and statfs calls, reading directories, seeking,
  and the compatibility copies of old calls.
- *Dijkstra, qrng, the system-call tables*: without state between runs, or
  generated.
