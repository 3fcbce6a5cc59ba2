# A TLA+ model of the weighted round robin scheduler and the core it plugs into

The repository adds a scheduling class, weighted round robin (WRR), to the
Linux 3.4 kernel of the Android goldfish emulator. The kernel files it changes
are `basic/kernel/sched/{core.c,rt.c,wrr.c,sched.h}` and
`basic/kernel/linux/sched.h`; the rest are user-space tests and benchmarks.
This directory models the scheduler those files make, checks it with TLC on
small instances, and proves its central invariants with TLAPS for any number of
tasks, any slice lengths and any inputs. Completions, the load average, real-time
bandwidth, the balancing of real-time tasks, and wakeups and migration on several
CPUs, which the core and the real-time class implement too, have modules of their
own.

The build is the one `goldfish_armv7_defconfig` describes: one CPU, a preemptible
kernel, a tickless idle loop, cgroups with `CONFIG_RT_GROUP_SCHED`. `Sched` models
that build. `RtPushPull`, `Migration` and the parts of `RtBandwidth`,
`GroupBandwidth` and `LoadAvg` that concern several CPUs, hotplug or CFS quotas model
code of the same files that other configurations compile (`CONFIG_SMP`,
`CONFIG_HOTPLUG_CPU`, `CONFIG_CFS_BANDWIDTH`).

## 1. Inventory

| Component | State | Operations | Interacts with |
|---|---|---|---|
| Weighted round robin class (`wrr.c`) | `rq->wrr.queue`, `wrr_nr_running`, `p->wrr.time_slice` | enqueue, dequeue, requeue, yield, pick, tick, fork, switched_to, prio_changed | called by the core through `sched_class`; reads the task's cgroup path to choose a slice |
| Core: run queue and context switch (`core.c`) | `rq->curr`, `nr_running`, `nr_uninterruptible`, `TIF_NEED_RESCHED`, `p->state`, `p->on_rq` | `__schedule`, `preempt_schedule`, `try_to_wake_up`, `try_to_wake_up_local`, `sched_fork`, `wake_up_new_task`, `sched_yield`, exit, `scheduler_tick` | every class; workqueues name a worker to wake from inside `__schedule` |
| Policies and priorities (`core.c`) | `policy`, `rt_priority`, `static_prio`, `normal_prio`, `prio`, `sched_class`, `sched_reset_on_fork` | `sched_setscheduler`, `sched_setparam`, `set_user_nice`, `rt_mutex_setprio` | dequeues the task from one class and enqueues it in another |
| Cpu cgroups (`core.c`) | `p->sched_task_group` | can_attach, attach (`sched_move_task`), exit, create, shares and quotas | real-time bandwidth, WRR slices |
| Real-time class (`rt.c`) | priority array, `rt_nr_boosted`, `rt_throttled`, `rt_time` | enqueue, dequeue, pick, tick, preemption checks, throttling, period timer | core, cgroups |
| Real-time bandwidth (`rt.c`, `core.c`) | runtime and period of each group | group and global settings, admission along the hierarchy, refill | cgroup files, sysctl |
| Real-time balancing (`rt.c`, SMP) | pushable tasks, overload mask, borrowed runtime | push, pull, borrow, offline | other CPUs |
| Completions and wait queues (`core.c`) | `x->done`, wait list | `complete`, `complete_all`, `wait_for_completion*`, `__wake_up` | sleeping and waking |
| Load average (`core.c`) | `calc_load_tasks`, idle deltas, `avenrun` | fold at tick and idle entry, global update | `nr_running`, `nr_uninterruptible` |
| SMP wakeup, migration, hotplug (`core.c`, SMP) | wake lists, allowed masks, active CPUs | remote wakeup, migration, CPU offline | stopper threads |
| Scheduling domains (`core.c`, SMP) | domain trees | built at boot and on hotplug | load balancing |
| Time and statistics (`core.c`) | cputime, schedstat | accounting at ticks and switches | none that decides anything |
| Fair class | `cfs.h_nr_running` | its methods | `fair.c` is not in the repository |
| Test and benchmark programs | - | fork, `sched_setscheduler`, measure | system calls |

What is hard here: system calls that look at a task without its run queue lock
and act on it later (`sched_setparam`, cgroup attach, the files of a group); a kernel
that can be preempted between `set_current_state` and `schedule()`; a task that
changes class while it is queued, running, asleep, boosted or being forked; counters
that must stay paired through all of it because `pick_next_task` takes a
shortcut by them; an unsigned slice at zero. On several CPUs: two run queue locks of
which one is dropped to take both; masks and priorities of other CPUs that are read
without a lock; a task woken while the CPU it left still uses its stack; a list of
woken tasks whose interrupt is sent only for the first; runtime that is lent between
CPUs while CPUs go away; counts that are folded early, late or by nobody while CPUs
stop their ticks. `PROJECT.json` lists these hazards line by line with the properties
that would catch each one.

## 2. Modules

| Module | What it models |
|---|---|
| `Lists` | the kernel's linked lists as sequences without repetitions |
| `Runqueue` | `struct rq` as a value: the WRR list in order, the counters, and the enqueue, dequeue and requeue methods of the classes as pure operators |
| `Sched` | the whole core of one CPU: tasks, the current task, `need_resched`, throttling, and the system calls in progress; one action per handler |
| `RoundRobin` | abstract: what a round robin class promises |
| `SchedRoundRobin` | the refinement mapping from `Sched` to `RoundRobin` |
| `Completion` | one `struct completion` and the tasks that wait on it, with timers and signals |
| `LoadAvg` | the global load average over CPUs that stop their ticks and go offline |
| `RtBandwidth` | real-time runtime of one group on several CPUs: consuming, throttling, borrowing, the period timer, hotplug |
| `GroupBandwidth` | the settings of the group tree and the global limits |
| `RtPushPull` | the real-time run queues of several CPUs and the pushing and pulling between them |
| `Migration` | where a task is on several CPUs: wakeups, switches, affinity, cpusets, the stopper, hotplug |
| `MCSched`, `MCCompletion`, `MCLoadAvg`, `MCRtBandwidth`, `MCGroupBandwidth`, `MCRtPushPull`, `MCMigration` | constants for TLC |
| `DataProofs` | lemmas about lists, sums, finite sets and trees that the other proofs share |
| `SchedProofs` | the inductive invariant of `Sched`, its theorems, and the refinement of `RoundRobin` |
| `CompletionProofs`, `LoadAvgProofs`, `RtBandwidthProofs`, `GroupBandwidthProofs`, `RtPushPullProofs`, `MigrationProofs` | the inductive invariant of the module and its theorems |

How they fit together: `Runqueue` uses `Lists`, `Sched` uses `Runqueue`, and
`SchedRoundRobin` connects `Sched` with `RoundRobin`. The other modules each enlarge
one thing that `Sched` shows only from outside. `Sched` has a throttling flag that a
timer clears; `RtBandwidth` says when it is set and cleared. `Sched` moves tasks
between groups with and without runtime; `GroupBandwidth` says which runtimes groups
can have. `Sched` keeps `nr_uninterruptible` (`LoadAgrees`); `LoadAvg` takes it from
there. `Sched` has one run queue under one lock; `RtPushPull` and `Migration` have
several.

### Sched: state

`task[p]` is the part of `struct task_struct` the scheduler reads: `state`,
`on_rq`, `policy`, the three priorities and the nice value (`static_prio`),
`sched_class`, the WRR `time_slice`, the cgroup, the reset flag. Two fields are
not in the structure: `alloc` says whether it is in use ("new": forked, not yet
woken), and `pi` is the priority of the top waiter on the rt_mutexes the task
owns, which `rtmutex.c` keeps in a list of its own. `rq` is `struct rq`; `curr`
is `rq->curr`. On one CPU only the current task can have `TIF_NEED_RESCHED`, so
one flag, `need_resched`, is enough. `call[p]` records how far a task has come in
a system call that can be preempted between two steps, with the values it read
before.

### Sched: actions

Each handler that runs under `rq->lock` with interrupts off is one action, all of
it: a policy change dequeues, changes and enqueues the task and decides about
preemption in one step. These handlers are split where the code drops the lock or
can be preempted:

* sleeping: `SetCurrentState`, then `ScheduleSleep` (or `ScheduleRunnable` when a
  wakeup or a signal came first); `Preempt` can come between them and leaves the
  task queued, as `PREEMPT_ACTIVE` makes `__schedule` do;
* fork: `SchedFork`, then `WakeUpNewTask`;
* exit: `ExitCgroup`, then `ExitSchedule`;
* `sched_setparam`: `SetparamRead` without the lock, then `SetparamReturn`,
  `SetparamRecheck` or `SetparamApply` under it;
* moving to another cgroup: `CanAttach`, then `AttachMove`.

A preemption decision is an operator that returns the set of values
`need_resched` may take; the fair class, whose code is not in the repository, may
decide either way.

The real-time class appears through the tasks it holds and their priorities:
which of several tasks of the highest priority runs is left open, which covers
FIFO order, round robin and group entities. Throttling is a flag of the root
group, set when `update_curr_rt` finds the budget used up (`RtRuntimeExceeded`)
and cleared by the period timer. `update_curr_rt` runs at the start of every
real-time handler, before the handler changes anything, so a separate action
gives the same states. A group without real-time runtime is never throttled
(`sched_rt_runtime_exceeded`), hence one flag.

Slices count ticks modulo `UINT_MAX + 1`; the model keeps the wrap of the
unsigned decrement and takes a small `UINT_MAX`.

### Completions

`Completion` keeps `x->done`, the wait list and, of each task, its state, its
pending signal and the arguments it waits with. Whatever a function does while it
holds `x->wait.lock` is one action: `complete`, `complete_all`,
`try_wait_for_completion`, and the pieces of `do_wait_for_common` between two points
where it gives up the lock. `WaitTakes`, `WaitInterrupted` and `WaitSleeps` are its
three ways up to the first sleep; `LoopTakes`, `LoopTimedOut`, `LoopInterrupted` and
`LoopSleeps` its four ways on after a wakeup. What wakes a waiter is not in the
repository and is modelled from how this code uses it: `TimerFires` stands for
`schedule_timeout`, `SendSignal` for `signal_wake_up`. `__wake_up_common` wakes the
first waiter for which `try_to_wake_up` succeeds, which need not be the first in the
list. Time is what is left of the timeout, all of it or none. `owed` counts events as
the callers see them, from the values the functions return.

### RoundRobin

A ring of members, and the one who is served. A member joins at the end, leaves, goes
to the end when its turn is over; whoever is served is the front of the ring or
nobody. `SchedRoundRobin` maps the ring to `rq.queue` and the member served to the
current task if it is of the WRR class. `Handover` is there for one step of the code:
inside `__schedule` a worker that goes to sleep is dequeued and another is woken
before the next task is picked.

### LoadAvg

Every CPU folds the change of its active count into `calc_load_tasks` once per
`LOAD_FREQ` (`calc_load_account_active`); a CPU that stops its tick folds it into one
of two idle deltas (`calc_load_enter_idle`); `WINDOW` ticks after the window opened
the timekeeper folds the idle delta and computes the averages (`calc_global_load`),
then flips the index (`flip_idx`, a step of its own because a CPU can look between
the new update time and the new index). Time is relative to `calc_load_update`: the
code compares times only. A CPU's own tick may be late by `MaxLate`; when all CPUs
idle several ticks pass at once (`Jumps`), so whole windows can be missed and
`calc_load_n` catches up. The averages are computed in fixed point; `FIXED_1`, 1.0, is any
even number instead of `1 << FSHIFT`.
`sample`, `raced` and `slept` are history variables for the properties.

### RtBandwidth and GroupBandwidth

`RtBandwidth` has the `rt_rq` of one group on each CPU: runtime, time used, throttled,
`rt_nr_running` and `rt_nr_boosted`, and whether the group's entity is queued. A task
joins or leaves (`enqueue_task_rt`, `dequeue_task_rt`) with `dequeue_rt_stack` taking the
entity off first, and `__enqueue_rt_entity` decides by what is in the group then whether
it goes back (`Requeue`, `queues`). A change of priority dequeues and enqueues, so a boost
and its end are a leave and a join in one hold of the lock; the model lets others in
between. A CPU that dies gives its tasks away one by one, each to a CPU of its own
(`migrate_tasks`). What time a task has used is charged in `update_curr_rt`, which runs
before a handler changes anything and is an action of its own. A step is what happens under `rt_runtime_lock`; `balancing` says that a CPU
has dropped it to borrow while it keeps its `rq->lock`. The timer's callback visits
the CPUs of the root domain one at a time (`Visit`, `VisitBalanced`). A hotplug
operation is a sequence of notifiers, each of which locks one run queue after the
other: `plan` holds the steps it has still to take, so everything else interleaves
with them. `halted` records that `BUG_ON(want)` has fired or that `migrate_tasks`
cannot end.

`GroupBandwidth` has the tree of groups. A write of one half of a setting reads the
other half first (`sched_group_set_rt_runtime` and the like fill `request`), and takes
the mutex later (`tg_set_rt_bandwidth`, `tg_set_cfs_bandwidth`), when the whole tree
is checked. The sysctl handler stores the new limit (`sched_rt_handler`), then
checks it and may put the old one back (`sched_rt_handler_ends`). A period of 0 is stored
like any other and refused then; a group's setting that is checked in between divides by
it, and the quotient may be anything (`global_ratios`). Ratios keep the integer division
of `to_ratio`, with a small `SCALE`. `loose` marks that a setting was accepted against a
limit that was taken back; it ends when a new limit, checked against all groups, is
accepted.

### RtPushPull

A run queue has its tasks in the order they are picked, the pushable list, `next`
(`rt.highest_prio.next`) and the flags; the root domain has `rto_mask`, `rto_count` and
`cpupri`. Operators take a state and return one; an action applies what a CPU does
from the point where it has its locks to the point where `double_lock_balance` drops
one, and leaves the rest in `work`. So a push or pull that has picked a task and is
waiting for the second lock interleaves with everything the other CPUs do, and
`still_pushable` and `pull_locked` look again as the code does. `work.then` says what
follows the push or pull: the rest of `schedule`, of `switched_to_rt`, of
`prio_changed_rt`. Tasks of lower classes have priority `MAX_RT_PRIO`.

### Migration

A task's `state`, `on_rq`, `on_cpu`, CPU and mask; of each CPU the tasks queued, the
current one, the one it is switching away from, its `wake_list`, what
`sched_ttwu_pending` has taken off it, and whether an interrupt is under way. A step
is what one CPU does under a lock, or one access without one: `try_to_wake_up` is
split at the test of `on_rq`, the wait for `on_cpu`, the choice of a CPU and the
queueing. `pi_lock` and `rq->lock` are conditions (`pi_unlocked`, `rq_unlocked`) that no
operation under way holds them. `sched_setaffinity` and the writer of a cpuset set
masks and ask the stopper to move a task; the stopper finds the destination active,
then locks, looks again and moves. Hotplug goes through its notifiers one by one and
stops the machine to take a CPU down. Of the code outside the repository, `cpuset.c`,
`stop_one_cpu` and `stop_machine` are modelled from how this code calls them.
`select_task_rq_wrr` returns no value: what its caller gets is any CPU or none, and
`select_task_rq` must put it right.

## 3. Properties and runs

| Run | Instance | Checks |
|---|---|---|
| `turns` | 3 tasks, fairness; interruptible sleep; WRR and NORMAL; `UINT_MAX` 2 | `WrrTurn`, `ServesInTurn`, `PreemptsUnlessWrr` |
| `slices` | 2 tasks; 3 groups; slices 2 and 1; `UINT_MAX` 3; reset flags; uninterruptible sleep | `RunqueueAgrees`, `LoadAgrees`, `SliceStaysGood` |
| `policies` | 2 tasks; NORMAL, FIFO, WRR; boosts to 50, renicing, `sched_setparam`, throttling | `TypeOK`, `RunqueueAgrees`, `ClassAgrees`, `BoostHeld`, `SetparamKeepsPolicy`, `PicksBest`, `PreemptsUnlessWrr` |
| `completion` | 3 tasks, fairness; no, some and endless timeout; both kinds of signals; `UINT_MAX` 7 | `CompletionInv`, `NoLostWakeup`, `EventsConserved`, `WokenInOrder`, `EventTaken` |
| `loadavg` | 2 CPUs, 2 tasks, fairness; 4 changes; windows of 2 ticks, 1 of them open; jumps of 4 ticks | `LoadInv`, `SampleExact`, `NoResample`, `NoOvershoot`, `LoadSettles` |
| `rtbandwidth` | 2 CPUs, 2 tasks, fairness; runtime 2 of 3, set to 0 or 1; 2 hotplug operations or settings | `RuntimeInv`, `ThrottledOff`, `RunsAgain` |
| `groups` | 4 groups in a tree of depth 3; 2 writers, 3 writes | `RtInv`, `GlobalHolds`, `CfsQuotaHolds` |
| `pushpull` | 2 CPUs, 3 tasks, 2 real-time priorities and none; 1 outside context; 5 changes; fairness | `QueuesInv`, `RunsWhereQueued`, `LocalOrder`, `GlobalOrder`, `Settles` |
| `migration` | 3 CPUs, 1 task; 2 changes | `RunsAllowed`, `DeadEmpty`, `CpusetHeld` |
| `wakeups` | 2 CPUs, 2 tasks; 1 change; fairness | `PlacementInv`, `OneCpu`, `WakingEnds` |
| `doc_slice`, `doc_class_order` | the smallest instance that shows the disagreement | one property each, violated |

The scheduler of one CPU:

* `RunqueueAgrees`: the WRR list holds each runnable WRR task exactly once and the
  counters are right after any mix of wakeups, class changes, boosts, moves,
  forks and exits. `slices` has it for sleeps, wakeups and moves, among them a wakeup
  that finds the task still queued; `policies` for class changes and boosts.
* `ClassAgrees`: the class fits policy and effective priority.
* `PicksBest`: a switch goes to the highest class with a task that may run and to
  the highest real-time priority, although `pick_next_task` decides by counters.
* `PreemptsUnlessWrr`: a step that queues a task of a higher class sets
  `need_resched`. The exception is a current task with policy SCHED_WRR, for which
  `switched_to_wrr` asks for nothing; `doc_class_order` shows one such case. `turns` has it for wakeups, `policies` for changes
  of class and priority and for throttling.
* `LoadAgrees`: `nr_uninterruptible` is the number of tasks asleep in that state.
* `ServesInTurn`: `Sched` implements `RoundRobin`: no wakeup, policy change, group
  move or fork puts a task before a waiting one, and the front of the queue is picked.
* `WrrTurn`: a waiting WRR task gets its turn.
* `SliceStaysGood`: a slice within the quota of the task's group stays within it: ticks
  take it neither to 0 nor past the quota. A task that moves to another group keeps what
  is left of its slice, so one that moves to the background may have more than a
  background task gets; such a slice, like one that has wrapped, is only used up, and the
  next refill is that of the new group.
* `BoostHeld`: a lock owner keeps at least its real-time waiter's priority through
  renicing and policy changes. It is about `prio`; that the class follows it is
  `BoostTakesEffect`, which the code does not keep (below).
* `SetparamKeepsPolicy`: `sched_setparam` changes no policy although it read it
  without the lock.

Completions:

* `NoLostWakeup`: while a waiter of a completion sleeps, every posted event has an
  awake waiter on its way to it, although timers and signals wake waiters too and
  other callers take events in passing.
* `CompletionInv`: the inductive invariant around it: a waiter is queued once and
  only queued tasks sleep.
* `EventsConserved`: every event is reported to exactly one caller or still there; a
  call that takes one at the end of its time does not report a timeout.
* `WokenInOrder`: an event wakes waiters in the order in which they queued.
* `EventTaken`: a posted event is taken while there are waiters.

Load average:

* `LoadInv`: the types; the global sum and the idle deltas add up to what the CPUs
  reported (`LoadConserved`), the `nr_uninterruptible` of the CPUs that are up to the
  tasks asleep (`UninterruptibleSum`), and a CPU that is down counts for nothing
  (`OfflineCounts`).
* `SampleExact`: an average takes what each CPU reported last, where one that goes idle
  inside the window still counts as before. Excepted is a CPU that stops or starts its
  tick, or dies, in the middle of an update: that average may miss its delta.
* `NoResample`: a CPU that slept when the window opened is not sampled in it.
* `NoOvershoot`: the average never moves past the load, however many windows are caught
  up at once.
* `LoadSettles`: once the counts rest, the global sum becomes right.

Real-time bandwidth and group settings:

* `RuntimeInv`: the types; what the CPUs of a root domain lend and borrow adds up to
  nothing (`RuntimeConserved`), and `BUG_ON(want)` fires only after a share that was
  partly lent has been overwritten (`WantingIsLeak`).
* `ThrottledOff`: the entity of a throttled group is queued from the first boosted task
  that joins the group to the last one that leaves it, also while others are in it, come
  and go; an empty group's is not queued.
* `RunsAgain`: while the timer runs, a group with runtime and tasks that is not queued
  is queued again.
* `RtInv`: the types; the ratios of the children of a group sum up to no more than its
  own (`RtSumHolds`), whatever stale halves are written.
* `GlobalHolds`: no group has more than the global limit, but for a group whose setting
  was checked against a limit that the handler then took back, until a new limit is
  accepted.
* `CfsQuotaHolds`: no group has a larger quota than any group above it, although a
  group without a limit in between hides the one above.

Several CPUs:

* `QueuesInv`: the types; the pushable lists and `highest_prio.next` (`PushableExact`),
  the overload mask and count, and `cpupri` (`OverloadExact`) say what the queues hold.
* `RunsWhereQueued`: no push or pull moves a running task, leaves one on two queues or
  none, or puts one where its mask excludes it by then.
* `LocalOrder`: a CPU at rest runs the most important task of its queue, except after
  the two cases listed below.
* `GlobalOrder`: once all is quiet, no task waits that could run in the place of a less
  important one elsewhere. For two CPUs and changes after which somebody pushes or pulls.
* `Settles`: pushes, pulls and reschedules end.
* `RunsAllowed`: a task is queued where its mask does not allow it only while the call
  that changed the mask is at work, or if that call did not see it (below).
* `DeadEmpty`: nothing is left on a CPU that died or on its way there.
* `CpusetHeld`: masks end inside the cpuset, although `sched_setaffinity` reads the
  cpuset before and after it sets the mask and the cpuset's writer does not exclude it.
* `PlacementInv`: the types; a task is on one run queue exactly when `on_rq` is set, and
  while waking with one waker or on one wake list (`OnePlace`).
* `OneCpu`: a task runs on one CPU, and on none while another still uses its stack.
* `WakingEnds`: a waking task is queued; no interrupt is lost.

Deadlock is checked in every run but two. In `rtbandwidth` the machine
stops after `BUG_ON`, and in `pushpull` nothing happens any more once the changes are used up.

**Bounds.** Three tasks are enough for a current task, one in front of and one
behind another in the queue; two are enough for a caller and a target that race.
The smallest slices already show a full slice, the last tick and the wrap.
Priorities are compared only with each other and with `MAX_RT_PRIO`: one or two
real-time priorities, one boost above them and two nice values give every outcome of
the comparisons. `complete_all` adds `UINT_MAX/2` events, so `UINT_MAX` 7 gives one to
each of three waiters, as in the kernel, and lets repeated calls wrap the counter.

Two CPUs are enough for every pair of locks, three for a task that is moved while
its first destination goes away (`migration`). `GlobalOrder` fails with three CPUs
(below). `MaxChanges`, `MaxWrites` and the like bound what users and administrators do,
never what the kernel does about it. In `rtbandwidth` two tasks are a boosted one and another that
stays in the group when it leaves, and more tasks would change neither count's being
zero. In `loadavg` four changes let a task start, sleep on one CPU and wake on another around a CPU that dies; in `pushpull` five let three
tasks become runnable and two things happen to them.

**Symmetry** is used in `groups` only, over the writers.

**Fairness.** In `turns`, `WF(TickWrr)`: the timer keeps interrupting a running
task. `WF(Preempt)`: a preemptible kernel reschedules on the way out of the
interrupt once `need_resched` is set. Nothing is assumed of the tasks: they need
not yield, sleep or exit. `WrrTurn` assumes that no task with policy SCHED_WRR
runs in the fair class; `doc_class_order` shows what happens when one does, and
the instance has no real-time tasks, which may hold the CPU legitimately.

In `completion`, `WF(Loop(p))`: a woken task runs again and gets the lock. Timers and
signals need not happen.

In `loadavg`: timer interrupts come, the timekeeper ends what it started, and a CPU with
something to run leaves its idle loop. In `rtbandwidth`: the timer fires, its callback
and a holder of a lock go on, and a hotplug operation that was started ends; tasks need
not run or stop. In `pushpull`: a CPU that is asked to reschedule, or holds a lock, goes
on, and a CPU that went offline comes back. In both the formula says the same as weak
fairness of these actions, with the enabling condition and the change that tells their
steps from others written out. In `wakeups`: strong fairness of
a waker, of taking an interrupt and of the stopper, because ticket spinlocks are given
to their waiters in turn and a pending interrupt stays pending; weak fairness of what a
CPU does with interrupts disabled. Tasks need not call `schedule`.

**Mutants.** For every property of a passing run, `PROJECT.json` names a plausible
mistake in the code (a counter not decremented, a class kept over fork, a recheck
left out) that makes TLC find the property violated. They are defined next to what
they mutate.

### Where the code disagrees with what is written about it

Shown by a run:

* `doc_slice`: nothing sets `wrr.time_slice` when a task enters the class, so the
  first tick decrements 0 and the task runs for 2^32 ticks before its first refill.
* `doc_class_order`: `switched_to_wrr` looks at the policy of the current task and
  not at its class. A child of a WRR task has policy SCHED_WRR and is in the fair
  class; it is not preempted for a task that becomes WRR, and nothing else makes
  it leave.

Stated in the modules as properties that the specification violates (name one as
INVARIANT under `Spec` to get the behaviour):

* `RtPriorityValid` (`Sched`, with `<<"FIFO", 0>>` among `SchedParams`): the two
  validity tests of policy and priority are joined by `&&`, so SCHED_FIFO with priority
  0 is accepted (`core.c:4243`).
* `BoostTakesEffect` (`Sched`): `__setscheduler` puts a boosted task that asks for
  SCHED_WRR into the WRR class in spite of its real-time priority (`core.c:4179`).
* `NoRtInEmptyGroup` (`Sched`, with a second group and FIFO): a task that becomes
  real-time between `can_attach` and `attach` ends in a group without real-time
  runtime (`core.c:7757`).
* `NeverWanting` (`RtBandwidth`): `__enable_runtime` is called for a run queue that is
  already enabled, by the CPU notifier and again when its domain is rebuilt. If it has
  lent or borrowed in between, the share is overwritten, and disabling it later can
  end in `BUG_ON(want)`, of which the comment says "We cannot be left wanting".
* `AllTasksLeave` (`RtBandwidth`): `migrate_tasks` loops until the run queue has no
  task but the stopper, and picks tasks with `pick_next_task`. A task in a group that
  is throttled again after `set_rq_offline` is counted and never picked.
* `GlobalHoldsAlways` (`GroupBandwidth`): the sysctl handler stores the new limit before
  it checks it. A group's setting that is written meanwhile is checked against a
  limit that may be refused.
* `SwitchReschedules` (`RtPushPull`): `switched_from_rt` pulls only if the CPU has no
  other real-time task; a task that leaves the class while real-time tasks wait on
  its CPU is not rescheduled by it, although the comment says "If there are other RT
  tasks then we will reschedule". Reached where the new class's `switched_to` does not
  do so either, as `switched_to_wrr` for a running task.
* `PullReschedules` (`RtPushPull`): `prio_changed_rt` pulls with the lock dropped and
  reschedules only if the task still runs there; if it left meanwhile, nobody does for
  a task just pulled.
* `ScheduledAway` (`Migration`): `set_cpus_allowed_ptr` moves a task that is queued or
  running. One that is on a wake list at that moment is neither, and is queued where
  the list is; it runs there in spite of its mask until it sleeps. The comment says
  "Migrate the thread to a proper CPU and schedule it away if the CPU it's executing on
  is removed from the allowed bitmask" (`core.c:5138`). `missed` marks the case.

Met on the way: the comment on `completion_done` speaks of waiters while the function
tests for posted events; `sched_setparam` writes back a reset-on-fork flag it read
before it took the lock; a running real-time task that becomes WRR is not rescheduled
although another real-time task waits (the exception in `PreemptsUnlessWrr`); the
period timer of a group that is found idle stops although a task has been queued on a
CPU already visited, since `start_rt_bandwidth` sees the callback still active
(`RunsAgain` speaks of a running timer); `tg_has_rt_tasks` compares the group with that
of the CPU's root `rt_rq`, so it answers for the root group only; after a mask is widened,
a waiting task's priority changes or a CPU comes online, nobody pushes, so a waiting
task may stay behind an idle CPU until the next event; with three CPUs, a task at the
head of the pushable list that fits nowhere keeps the ones behind it from being pushed.

## 4. Proofs

Every theorem holds for all values of the constants that satisfy the assumption named
in the module; none bounds the number of tasks, CPUs, groups or waiters, but for
`GloballyOrdered`, which is about two CPUs. The bounds
that TLC needs (`MaxChanges`, `MaxWrites`, `MaxTime`, `MaxTasks`, `MaxLate`) are
constants too, and the theorems hold for each value of them.

| Theorem | Property | For every |
|---|---|---|
| `Invariance`, `TypeCorrect`, `RunqueueCorrect`, `NoLostTask`, `ClassCorrect` | `IInv`, `TypeOK`, `RunqueueAgrees`, `NoTaskLost` (proved only), `ClassAgrees` | tasks, slices, inputs of `Sched` |
| `BestPicked`, `Preempts`, `SetparamPolicy`, `SliceKept` | `PicksBest`, `PreemptsUnlessWrr`, `SetparamKeepsPolicy`, `SliceStaysGood` (action properties) | same |
| `LoadCorrect`, `BoostKept` | `LoadAgrees`, `BoostHeld` | same |
| `RoundRobinImplemented` | `ServesInTurn`: `Sched` implements `RoundRobin` | same |
| `CompletionCorrect`, `NoWakeupLost`, `EventsKept`, `InOrder` | `CompletionInv`, `NoLostWakeup`, `EventsConserved`, `WokenInOrder` | waiters, timeouts, `UINT_MAX` |
| `LoadHolds`, `Exact`, `NotResampled`, `Overshoot` | `LoadInv`, `SampleExact`, `NoResample`, `NoOvershoot` | CPUs, windows, decay factors, precision |
| `RuntimeHolds`, `ThrottledHolds` | `RuntimeInv`, `ThrottledOff` | CPUs, tasks, period, settings |
| `RtHolds`, `GlobalLimit`, `CfsQuota` | `RtInv`, `GlobalHolds`, `CfsQuotaHolds` | trees of groups, writers, settings |
| `QueuesExact`, `RunWhereQueued`, `LocallyOrdered` | `QueuesInv`, `RunsWhereQueued`, `LocalOrder` | CPUs, tasks, priorities, contexts |
| `GloballyOrdered` | `GlobalOrder` | same, with two CPUs |
| `Placement`, `OneCpuHolds`, `DeadCpuEmpty`, `Allowed`, `CpusetWins` | `PlacementInv`, `OneCpu`, `DeadEmpty`, `RunsAllowed`, `CpusetHeld` | CPUs, tasks, cache topologies |

TLC checked each inductive invariant as an invariant before it was proved.

**Assumptions.** Sets are finite and counters natural numbers. Those that say more:
`SliceAssumption`, the slices are positive and fit into an `unsigned int`;
`InputAssumption`, system calls get arguments that pass the range tests;
`GroupAssumption`, the groups form a tree (each parent has a smaller depth) and limits
are natural numbers or none; `LoadAssumption`, the window is shorter than the period
between two averages; `BandwidthAssumption`, `RUNTIME_INF` is larger than the periods of
all CPUs together and than any `rt_time`, as the largest `u64` is when time is counted
in nanoseconds, so that no sum of shares is taken for "no limit";
`MigrationAssumption`, there are two CPUs or more; `NoneAssumption`, what stands for no
CPU, no task and CPUPRI_INVALID is none of the CPUs, tasks and priorities.

**`DataProofs`.** What deleting, adding and moving do to a list without repetitions.
Sums over a finite set (`SumTake`, `SumAt`, `SumMoves`, `SumSameValue`), from the
definition of `SumFunctionOnSet` by a fold. The library's induction theorems take an
operator as a parameter, which the provers cannot instantiate; here induction is stated
for sets (`SetInduction` over `0 .. n`, `FiniteInduction` over the subsets of a finite
set), where the property is the set of things that have it. `TreeRecursion` and
`TreeInduction` say the same along a finite tree of groups. All recursion that is
proved about is a recursive function, so this covers the loops of the code.

**`Sched`.** `RunqueueAgrees` is not inductive alone: `deactivate_task` on the
current task is right only if that task is queued, which is `NoTaskLost`
(a runnable task is on the queue, and only live tasks are);
`wake_up_new_task` queues a child without looking, which is right only if the child
was never queued and no other fork is about to wake it, which is `ForkInFlight`;
and `sched_fork` gives a child the class of its priority only if the cached
`normal_prio` is up to date (`NormalPrioAgrees`). `IInv` is their conjunction.
The first part of `SchedProofs` says what each class's enqueue and dequeue do to a run
queue that agrees with three sets of tasks. The next lifts this to states: a task joins
(`EnqueueTask`), leaves (`DequeueTask`), is changed while queued (`ChangeAgrees`), is
woken or put to sleep. The `Good...` lemmas say that what each handler makes of one
`task_struct` is again well formed; `Inductive` has one step per action.

The other properties follow from `IInv` and one more argument each. `PicksBest`: the
shortcut in `pick_next_task` is right because the counters are. `PreemptsUnlessWrr`: a
task that outranks the current one after a step and not before has just been queued or
changed, and each such handler decides about preemption. `LoadAgrees` compares the
counter with the set of sleeping tasks, which changes by the task of the step at most;
`SliceStaysGood` and `BoostHeld` look at one task (`TaskFine`): only a tick changes a slice,
and it refills, by the task's group, what it would take to 0 (`SliceKept`). `ServesInTurn`: a step of `Sched` is
a join, a leave, a move to the end or nothing, in terms of the run queue (`JoinStep`
and its kin), and those are the actions of `RoundRobin` under the mapping, or a
`Handover` inside `__schedule`.

**`Completion`.** `NoLostWakeup` counts awake waiters, so the argument is about
cardinalities: `complete` adds at most one event and, if anybody sleeps, exactly one
awake waiter (`FirstAsleep`, from the well-foundedness of the list's positions); a
waiter leaves either with an event or when there is none; a task goes to sleep only
after it saw the counter at zero; timers and signals only add awake waiters. It needs
that nobody is queued twice and that only queued tasks sleep. `WokenInOrder` compares two
sleepers across the step that wakes the one behind (`OrderStep`).

**`LoadAvg`.** `LoadInv` is inductive: what a CPU adds to a delta it also adds to what it
has reported, and the dying CPU's counter is moved to the sum before the CPU counts for
nothing (`OfflineCounts`). `SampleExact` and `NoResample` need `SampleInv`: while nothing
raced, the idle delta that the next average leaves alone is what was reported since the
window opened (`KeptInv`), and a CPU whose report is not in the average yet has its next
report after the window (`ReportedInv`). `NoOvershoot`: `fixed_power_int` multiplies
factors between 0 and 1 and rounds (`LoopBody`, and an induction along its loop), so
the factor it returns is again one (`PowerFactor`), and an average weighted by it stays
between the old value and the load (`Average`), with the rounding down.

**`RtBandwidth`.** `BandwidthInv` is `TypeOK`, `PlanInv` and `ShareInv`. A turn of the loop
in `do_balance_runtime` moves runtime between two CPUs of a domain (`BalanceStep`), a
turn of that in `__disable_runtime` between a CPU and what is left wanting
(`ReclaimStep`); walks over the CPUs add these up. `__disable_runtime` ends with nothing
wanting because the others of the domain hold what the CPU is short of, which is
`RuntimeConserved` (`PoolInv`) itself; then the CPU may leave the pool. It may join with
its full share. That a CPU is detached from its domain only while it is online, and dies
only when it is inactive and nothing of its hotplug operation is left, is `PlanInv`, about
the steps in `plan`, and follows from what `partition_sched_domains` is given
(`DownPlan`, `UpPlan`). A CPU that has dropped the lock to borrow must still be enabled
when it goes on (`BorrowInv`), which its `rq->lock` ensures. `ThrottledOff` is inductive
together with the types and the plan: a join or leave makes it true of the CPU whatever it
was (`QueuedAgain`), a dying CPU does so for every CPU its tasks go to (`DieMoves`), and the
timer and the tick change entity and flag together (`QueuedByTimer`).

**`GroupBandwidth`.** `RtInv` is inductive: the walk over the tree compares the children's
sum with the parent for the one setting that changes. `GlobalHolds` needs a statement
about the limit that a refused write puts back (`LimitHolds`). The quota of a group is
checked against the effective quota of its parent, which a group without a limit
inherits; `TreeInduction` along the path to the root gives `CfsQuotaHolds`.

**`Migration`.** `Inv` has one part for each thing that a CPU relies on without holding its
lock: the stage of a hotplug operation (`HotplugInv`), what a CPU that is down is done
with (`OfflineInv`), where a queued task is (`QueueInv`), what a waker knows of a task
whose `pi_lock` it holds (`WakerInv`), who holds a waking task (`WakingInv`), the
current task and the one switched away from (`CurrInv`), where tasks may be put
(`AliveInv`), who is about to move a task off a CPU its mask excludes (`MaskInv`), and
who is about to bring a mask into the cpuset (`CpusetInv`).

**`RtPushPull`.** The invariant, `IInv`, has three parts. `Good`: the queue and the pushable
list of each CPU hold the tasks that `task` says, in order of priority (`Ordered`), and
what is counted, cached in `next` or told to the root domain is right (`Row`, `PriOk`,
`MaskOk`); a task runs where it is queued and its mask allows it (`Placed`). The operators
return states, so there is a lemma for each that a `Good` state becomes a `Good` one;
between, `Others` says that all but one CPU are right. `Base` adds what an agent that
dropped a lock may have still to do (`WorkOk`), for example that a task being woken is
neither queued nor run and keeps its CPU, and that what runs is queued, except while
`schedule` of that CPU is pulling. `Calls` is the invariant behind `LocalOrder`: where a
task waits though it is more important than what its CPU runs, and the CPU is not asked
to reschedule (`Urgent`), somebody still has to look at that CPU (`Excused`): `schedule` or
`prio_changed_rt`, whose pull goes on, or `switched_to_rt`, whose push does. `Calm` says that a
push or pull makes no task urgent; `PushStep` and `PullStep` turn this into the invariant
at the next point where a lock is dropped. That a push never moves a running task, or a
task where its mask excludes it, comes from `still_pushable` alone (`PushGoesOn`), nothing
is assumed of what happened while the lock was not held.

`GloballyOrdered` needs a second invariant, `Balanced`: while all CPUs are online and
`unseen` is empty, each CPU is `Settled`. A task that waits there and is more important than
what runs (`Urgent`), or that the other CPU could run in place of something less important
(`Loose`), has an agent that is still to see to it. `Summons` says this of one agent and an
urgent task, `Takes` of a loose one: a push from that CPU whose task is no less important, a
pull from the other CPU, a pull to it after which `schedule` goes on or what runs is
replaced, or `post_schedule` of that CPU. The lemmas follow the operators: for a loose task
`find_lowest_rq` returns the other CPU (`FindPeer`), and a push (`PushGoesOnNext`) or a pull
(`PullFinds`, `PulledPeer`) that ends leaves no loose task without an agent. On a CPU that
an action does not work on, tasks only leave (`Leaves`, `Eases`), so those that wait keep
their agents (`StaysSettled`); one lemma per action (`PushLockedSettles` and its kin) puts
this together. The argument uses that with two CPUs the first pushable task can go wherever
one behind it can; with three it need not, which is how `GlobalOrder` fails there.

**Only model-checked.** Liveness (`WrrTurn`, `EventTaken`, `LoadSettles`, `RunsAgain`,
`Settles`, `WakingEnds`), which is out of the prover's reach.

## 5. Not modelled

* `sleep_on` and the wait queues of other subsystems, whose conditions are elsewhere;
  `completion_done`, which changes nothing.
* The freezer and its flag in `task_contributes_to_load`; killable sleep; permission
  checks by capability and rlimit; `sched_setscheduler_nocheck`; `normalize_rt_tasks`;
  the RLIMIT_RTTIME watchdog; reuse of a `task_struct` after its owner died; the stop
  class as a class (the stopper is an actor of `Migration`).
* Execution-time statistics, `sched_clock`, cputime, schedstats, cpuacct, and `cpu_load`:
  numbers that are reported, or read by `fair.c`, which is not in the repository.
* The topology of scheduling domains: data for the balancer in `fair.c`. What rebuilding
  domains does to real-time runtime is in `RtBandwidth`.
* `cpu.shares`; the throttling of fair groups by their quotas, which is in `fair.c`.
* Of several CPUs: `wait_task_inactive`, `kick_process`, the placement of forked tasks;
  nested groups in the real-time queues; the round robin slice of SCHED_RR.
* The test and benchmark programs: callers of the modelled system calls.

## 6. Plan

Every safety and action property that the passing runs check is proved for all values of
the constants, `GlobalOrder` for two CPUs, beyond which it does not hold. What is left is
liveness, which stays with TLC, and the parts that section 5 names.
