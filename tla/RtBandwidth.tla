---------------------------- MODULE RtBandwidth ----------------------------
(***************************************************************************)
(* Real-time bandwidth of one task group (sched/rt.c): on every CPU its    *)
(* rt_rq may run for rt_runtime in each period, borrows runtime from the   *)
(* other CPUs of its root domain before it is throttled, and is            *)
(* replenished by the group's period timer.  CPU hotplug takes a CPU's     *)
(* share out of the pool and puts it back, one notifier and one run queue  *)
(* lock at a time.                                                         *)
(***************************************************************************)
EXTENDS Integers, FiniteSets, FiniteSetsExt, Functions, Sequences

CONSTANTS
  N,             \* number of CPUs, 1 .. N, visited in this order
  RUNTIME_INF,   \* no limit, the largest u64 in the code
  PERIOD,        \* rt_period
  RUNTIME,       \* the group's runtime at the start
  Runtimes,      \* what tg_set_rt_bandwidth may set
  MaxTasks,      \* bound: runnable real-time tasks of the group
  MaxTime,       \* bound on rt_time
  MaxChanges     \* bound: how often the runtime is set or a hotplug
                 \* operation is started

CPUs == 1 .. N

ASSUME BandwidthAssumption ==
  /\ N \in Nat \ {0}
  /\ PERIOD \in Nat \ {0}
  /\ RUNTIME_INF \in Nat /\ RUNTIME_INF > N * PERIOD /\ RUNTIME_INF > MaxTime
  /\ RUNTIME \in 1 .. PERIOD
  /\ Runtimes \subseteq (0 .. PERIOD) \cup {RUNTIME_INF}
  /\ MaxTasks \in Nat
  /\ MaxTime \in Nat
  /\ MaxChanges \in Nat

VARIABLES
  rt_b_runtime,  \* rt_bandwidth.rt_runtime
  rt_runtime,    \* of each rt_rq; RUNTIME_INF when disabled
  rt_time,
  rt_throttled,
  rt_nr_running, \* tasks of the group on the CPU,
  rt_nr_boosted, \* and how many of them are boosted
  queued,        \* the group's entity is on its parent's queue
  balancing,     \* "no", or who dropped rt_runtime_lock to borrow while it
                 \* holds the CPU's rq->lock: "tick", "timer"
  timer,         \* rt_period_timer: "off", "armed" or "callback"
  scan,          \* the CPUs the callback still has to visit
  idle,          \* what the callback has found so far
  throttled,
  rd,            \* the root domain of each CPU, "def" or "dom"
  online,        \* rq->online
  active,        \* cpu_active_mask
  up,            \* the CPUs that have not died
  plan,          \* the steps the hotplug operation under way still takes
  changes,       \* counts towards MaxChanges: not in the code
  leaked,        \* an enabling has overwritten a share that was partly
                 \* lent or borrowed: not in the code
  halted         \* "no"; "BUG" when BUG_ON(want) has fired; "loop" when
                 \* migrate_tasks does not end

share == <<rt_b_runtime, rt_runtime>>
state == <<rt_time, rt_throttled>>
tasks == <<rt_nr_running, rt_nr_boosted, queued>>
callback == <<timer, scan, idle, throttled>>
domains == <<rd, online, active, up, plan>>
vars == <<share, state, tasks, balancing, callback, domains, changes, leaked,
          halted>>

span(d) == {i \in CPUs : rd[i] = d}

Init ==
  /\ rt_b_runtime = RUNTIME
  /\ rt_runtime = [c \in CPUs |-> RUNTIME]
  /\ rt_time = [c \in CPUs |-> 0]
  /\ rt_throttled = [c \in CPUs |-> FALSE]
  /\ rt_nr_running = [c \in CPUs |-> 0]
  /\ rt_nr_boosted = [c \in CPUs |-> 0]
  /\ queued = [c \in CPUs |-> FALSE]
  /\ balancing = [c \in CPUs |-> "no"]
  /\ timer = "off"
  /\ scan = {}
  /\ idle = TRUE
  /\ throttled = FALSE
  /\ rd = [c \in CPUs |-> "dom"]
  /\ online = CPUs
  /\ active = CPUs
  /\ up = CPUs
  /\ plan = <<>>
  /\ changes = 0
  /\ leaked = FALSE
  /\ halted = "no"

(* c's rq->lock is free and the machine runs.                              *)
Unlocked(c) ==
  /\ halted = "no"
  /\ c \in up
  /\ balancing[c] = "no"

rt_rq_throttled(c) == rt_throttled[c] /\ rt_nr_boosted[c] = 0

-----------------------------------------------------------------------------
(* What c may take of i's spare time: 1/n, and no more than fills c up to  *)
(* the period.                                                             *)
borrow(rt, c, i) ==
  LET diff == (rt[i] - rt_time[i]) \div Cardinality(span(rd[c]))
  IN  IF rt[c] + diff > PERIOD THEN PERIOD - rt[c] ELSE diff

(* Mutant: a disabled run queue is not passed over.                        *)
lends_disabled(rt, c, i) == i \in span(rd[c]) \ {c} /\ rt[i] > rt_time[i]

lends(rt, c, i) ==
  /\ i \in span(rd[c]) \ {c}
  /\ rt[i] # RUNTIME_INF
  /\ rt[i] > rt_time[i]

(* One turn of its loop.  Once c has a full period it stops.               *)
balance_step(w, c, i) ==
  LET rt == [w.rt EXCEPT ![i] = @ - borrow(w.rt, c, i),
                         ![c] = @ + borrow(w.rt, c, i)]
  IN  IF w.stop \/ ~lends(w.rt, c, i) THEN w
      ELSE [rt |-> rt, stop |-> rt[c] = PERIOD]

(* do_balance_runtime: rt_runtime after c has visited the others.          *)
do_balance_runtime(c) ==
  LET walk[i \in 0 .. N] ==
        IF i = 0 THEN [rt |-> rt_runtime, stop |-> FALSE]
        ELSE balance_step(walk[i - 1], c, i)
  IN  walk[N].rt

(* What c takes back of i on its way out; negative when it gives back.     *)
reclaim(rt, want, i) == IF want > 0 THEN Min({rt[i], want}) ELSE want

(* What c has lent or borrowed.                                            *)
lent(c) ==
  IF rt_runtime[c] = RUNTIME_INF THEN 0 ELSE rt_b_runtime - rt_runtime[c]

(* Greedy reclaim, one turn of its loop.                                   *)
reclaim_step(w, c, i) ==
  LET diff == reclaim(w.rt, w.want, i)
  IN  IF w.want = 0 \/ i \notin span(rd[c]) \ {c} \/ w.rt[i] = RUNTIME_INF
      THEN w
      ELSE [rt |-> [w.rt EXCEPT ![i] = @ - diff], want |-> w.want - diff]

(* __disable_runtime: rt_runtime after it, and what is left wanting.       *)
__disable_runtime(c) ==
  LET walk[i \in 0 .. N] ==
        IF i = 0 THEN [rt |-> rt_runtime, want |-> lent(c)]
        ELSE reclaim_step(walk[i - 1], c, i)
  IN  [rt |-> [walk[N].rt EXCEPT ![c] = RUNTIME_INF], want |-> walk[N].want]

Disable(c) ==
  /\ rt_runtime' = __disable_runtime(c).rt
  /\ halted' = IF __disable_runtime(c).want = 0 THEN "no" ELSE "BUG"
  /\ UNCHANGED <<state, leaked>>

(* __enable_runtime: also unthrottles, and leaves it to the timer to put   *)
(* the group back on its queue.                                            *)
__enable_runtime(c) ==
  /\ rt_runtime' = [rt_runtime EXCEPT ![c] = rt_b_runtime]
  /\ rt_time' = [rt_time EXCEPT ![c] = 0]
  /\ rt_throttled' = [rt_throttled EXCEPT ![c] = FALSE]
  /\ leaked' = (leaked \/ rt_runtime[c] \notin {RUNTIME_INF, rt_b_runtime})
  /\ UNCHANGED halted

-----------------------------------------------------------------------------
(* start_rt_bandwidth with start_bandwidth_timer: a timer whose callback   *)
(* runs counts as active.                                                  *)
start_rt_bandwidth ==
  timer' = IF rt_b_runtime # RUNTIME_INF /\ timer = "off" THEN "armed"
           ELSE timer

(* Mutant: an entity that is on the queue stays there while tasks are left *)
(* in the group.                                                           *)
queues_stays(c, n, b) == n > 0 /\ (queued[c] \/ ~rt_throttled[c] \/ b > 0)

(* __enqueue_rt_entity: whether the entity of a group that has n tasks, b  *)
(* of them boosted, is queued.                                             *)
queues(c, n, b) == n > 0 /\ (~rt_throttled[c] \/ b > 0)

(* enqueue_rt_entity and dequeue_rt_entity of a task: dequeue_rt_stack     *)
(* takes the group's entity off first, and it is queued again, or for the  *)
(* first time, by what is in the group then.                               *)
Requeue(c, n, b) ==
  /\ rt_nr_running' = [rt_nr_running EXCEPT ![c] = n]
  /\ rt_nr_boosted' = [rt_nr_boosted EXCEPT ![c] = b]
  /\ queued' = [queued EXCEPT ![c] = queues(c, n, b)]

(* enqueue_task_rt: a task, b is 1 for a boosted one, joins the group on   *)
(* c: it wakes up, enters the class or the group, or rt_mutex_setprio has  *)
(* changed its priority.                                                   *)
enqueue_task_rt(c, b) ==
  /\ Unlocked(c)
  /\ SumFunctionOnSet(rt_nr_running, CPUs) < MaxTasks
  /\ Requeue(c, rt_nr_running[c] + 1, rt_nr_boosted[c] + b)
  /\ start_rt_bandwidth
  /\ UNCHANGED <<share, state, balancing, scan, idle, throttled, domains,
                 changes, leaked, halted>>

(* dequeue_task_rt: one leaves; the others stay.                           *)
dequeue_task_rt(c, b) ==
  /\ Unlocked(c)
  /\ IF b = 1 THEN rt_nr_boosted[c] > 0
     ELSE rt_nr_running[c] > rt_nr_boosted[c]
  /\ Requeue(c, rt_nr_running[c] - 1, rt_nr_boosted[c] - b)
  /\ UNCHANGED <<share, state, balancing, callback, domains, changes, leaked,
                 halted>>

(* update_curr_rt while a task of the group runs, up to balance_runtime,   *)
(* which drops rt_runtime_lock.                                            *)
update_curr_rt(c) ==
  /\ Unlocked(c)
  /\ queued[c]
  /\ rt_runtime[c] # RUNTIME_INF
  /\ rt_time[c] < MaxTime
  /\ rt_time' = [rt_time EXCEPT ![c] = @ + 1]
  /\ balancing' = [balancing EXCEPT ![c] =
                     IF /\ ~rt_throttled[c]
                        /\ rt_runtime[c] < PERIOD
                        /\ rt_time'[c] > rt_runtime[c]
                     THEN "tick" ELSE "no"]
  /\ UNCHANGED <<share, rt_throttled, tasks, callback, domains, changes, leaked,
                 halted>>

(* The rest of sched_rt_runtime_exceeded.  A group without runtime is not  *)
(* throttled, its time is forgotten.                                       *)
sched_rt_runtime_exceeded(c) ==
  LET over == rt_runtime'[c] # RUNTIME_INF /\ rt_time[c] > rt_runtime'[c]
      throttle == over /\ rt_b_runtime # 0
  IN  /\ halted = "no"
      /\ balancing[c] = "tick"
      /\ balancing' = [balancing EXCEPT ![c] = "no"]
      /\ rt_runtime' = do_balance_runtime(c)
      /\ rt_throttled' = [rt_throttled EXCEPT ![c] = @ \/ throttle]
      /\ rt_time' = [rt_time EXCEPT ![c] = IF over /\ ~throttle THEN 0 ELSE @]
      /\ queued' = [queued EXCEPT ![c] = @ /\ ~(throttle /\ rt_nr_boosted[c] = 0)]
      /\ UNCHANGED <<rt_b_runtime, rt_nr_running, rt_nr_boosted, callback,
                     domains, changes, leaked, halted>>

-----------------------------------------------------------------------------
(* sched_rt_period_timer on CPU c: only c's root domain is visited.        *)
sched_rt_period_timer(c) ==
  /\ halted = "no"
  /\ c \in up
  /\ timer = "armed"
  /\ timer' = "callback"
  /\ scan' = span(rd[c])
  /\ idle' = TRUE
  /\ throttled' = FALSE
  /\ UNCHANGED <<share, state, tasks, balancing, domains, changes, leaked,
                 halted>>

(* The end of a visit: throttled is what rt_throttled has become, enqueue  *)
(* is decided.                                                             *)
Visited(i, busy, enqueue) ==
  /\ scan' = scan \ {i}
  /\ idle' = (idle /\ ~busy)
  /\ throttled' = (throttled \/ rt_throttled'[i])
  /\ queued' = [queued EXCEPT ![i] = @ \/ (enqueue /\ rt_nr_running[i] > 0)]
  /\ UNCHANGED <<rt_b_runtime, rt_nr_running, rt_nr_boosted, timer, domains,
                 changes, leaked, halted>>

replenished(i, runtime) == rt_time[i] - Min({rt_time[i], runtime})

(* Mutant: a CPU that is unthrottled is not queued again.                  *)
Replenish_only(i, runtime) ==
  LET unthrottle == rt_throttled[i] /\ rt_time'[i] < runtime
  IN  /\ rt_time' = [rt_time EXCEPT ![i] = replenished(i, runtime)]
      /\ rt_throttled' = [rt_throttled EXCEPT ![i] = @ /\ ~unthrottle]
      /\ Visited(i, rt_time'[i] # 0, FALSE)

(* One period's runtime is taken off the time.                             *)
Replenish(i, runtime) ==
  LET unthrottle == rt_throttled[i] /\ rt_time'[i] < runtime
  IN  /\ rt_time' = [rt_time EXCEPT ![i] = replenished(i, runtime)]
      /\ rt_throttled' = [rt_throttled EXCEPT ![i] = @ /\ ~unthrottle]
      /\ Visited(i, rt_time'[i] # 0 \/ rt_nr_running[i] > 0, unthrottle)

(* do_sched_rt_period_timer visits CPU i ...                               *)
Visit(i) ==
  /\ halted = "no"
  /\ balancing[i] = "no"
  /\ timer = "callback"
  /\ i \in scan
  /\ \A j \in scan : i <= j
  /\ \/ /\ rt_time[i] = 0
        /\ UNCHANGED <<rt_runtime, state, balancing>>
        /\ Visited(i, rt_nr_running[i] > 0,
                   rt_nr_running[i] > 0 /\ ~rt_rq_throttled(i))
     \/ /\ rt_time[i] # 0
        /\ ~(rt_throttled[i] /\ rt_time[i] > rt_runtime[i])
        /\ Replenish(i, rt_runtime[i])
        /\ UNCHANGED <<rt_runtime, balancing>>
     \/ /\ rt_throttled[i] /\ rt_time[i] > rt_runtime[i]
        /\ balancing' = [balancing EXCEPT ![i] = "timer"]
        /\ UNCHANGED <<share, state, tasks, callback, domains, changes, leaked,
                       halted>>

(* ... and goes on after it has borrowed.                                  *)
VisitBalanced(i) ==
  /\ halted = "no"
  /\ balancing[i] = "timer"
  /\ balancing' = [balancing EXCEPT ![i] = "no"]
  /\ rt_runtime' = do_balance_runtime(i)
  /\ Replenish(i, rt_runtime'[i])

(* The timer stops when nothing is left to do.                             *)
stays == (throttled \/ rt_b_runtime # RUNTIME_INF) /\ ~idle

TimerReturns ==
  /\ halted = "no"
  /\ timer = "callback"
  /\ scan = {}
  /\ timer' = IF stays THEN "armed" ELSE "off"
  /\ UNCHANGED <<share, state, tasks, balancing, scan, idle, throttled,
                 domains, changes, leaked, halted>>

-----------------------------------------------------------------------------
(* tg_set_rt_bandwidth: every possible CPU, whatever it has lent and       *)
(* whether it is disabled.  GroupBandwidth has the test it must pass.      *)
tg_set_rt_bandwidth(r) ==
  /\ halted = "no"
  /\ changes < MaxChanges
  /\ rt_b_runtime' = r
  /\ rt_runtime' = [c \in CPUs |-> r]
  /\ changes' = changes + 1
  /\ leaked' = FALSE
  /\ UNCHANGED <<state, tasks, balancing, callback, domains, halted>>

-----------------------------------------------------------------------------
(* CPU hotplug: the steps of an operation.                                 *)
Ops == {"disable", "enable", "detach", "attach", "active", "inactive", "die"}

(* Steps(op, S) does op to the CPUs of S in ascending order.               *)
Steps(op, S) ==
  [k \in 1 .. Cardinality(S) |->
     <<op, CHOOSE c \in S : Cardinality({i \in S : i < c}) = k - 1>>]

(* partition_sched_domains: every CPU of the domain goes back to the       *)
(* default one, and those that are active into a new one.                  *)
Repartition(old, new) == Steps("detach", old) \o Steps("attach", new)

(* CPU_DOWN_PREPARE: update_runtime, sched_cpu_inactive and                *)
(* cpuset_cpu_inactive, in this order.                                     *)
CpuDownPrepare(c) ==
  /\ halted = "no"
  /\ plan = <<>> /\ changes < MaxChanges
  /\ c \in active /\ active # {c}
  /\ changes' = changes + 1
  /\ plan' = <<<<"disable", c>>, <<"inactive", c>>>>
               \o Repartition(active, active \ {c}) \o <<<<"die", c>>>>
  /\ UNCHANGED <<share, state, tasks, balancing, callback, rd, online, active,
                 up, leaked, halted>>

(* CPU_DOWN_FAILED: a callback refused; sched_cpu_active,                  *)
(* cpuset_cpu_active and update_runtime.                                   *)
CpuDownFailed(c) ==
  /\ halted = "no"
  /\ plan = <<<<"die", c>>>>
  /\ plan' = <<<<"active", c>>>> \o Repartition(active, active \cup {c})
               \o <<<<"enable", c>>>>
  /\ UNCHANGED <<share, state, tasks, balancing, callback, rd, online, active,
                 up, changes, leaked, halted>>

(* CPU_STARTING and CPU_ONLINE.                                            *)
CpuUp(c) ==
  /\ halted = "no"
  /\ plan = <<>> /\ changes < MaxChanges
  /\ c \notin up
  /\ changes' = changes + 1
  /\ up' = up \cup {c}
  /\ plan' = <<<<"active", c>>>> \o Repartition(active, active \cup {c})
               \o <<<<"enable", c>>>>
  /\ UNCHANGED <<share, state, tasks, balancing, callback, rd, online, active,
                 leaked, halted>>

(* rq_attach_root, with set_rq_offline and set_rq_online.                  *)
rq_attach_root(c, d) ==
  LET leaves == IF c \in online THEN __disable_runtime(c)
                ELSE [rt |-> rt_runtime, want |-> 0]
      enters == c \in active /\ leaves.want = 0
  IN  /\ rd' = [rd EXCEPT ![c] = d]
      /\ online' = IF enters THEN online \cup {c} ELSE online \ {c}
      /\ rt_runtime' = IF enters THEN [leaves.rt EXCEPT ![c] = rt_b_runtime]
                       ELSE leaves.rt
      /\ rt_time' = [rt_time EXCEPT ![c] = IF enters THEN 0 ELSE @]
      /\ rt_throttled' = [rt_throttled EXCEPT ![c] = @ /\ ~enters]
      /\ leaked' = (leaked \/ (enters /\ leaves.rt[c] \notin
                                           {RUNTIME_INF, rt_b_runtime}))
      /\ halted' = IF leaves.want = 0 THEN "no" ELSE "BUG"

(* How many tasks that are not boosted pick_next_task never finds on c:    *)
(* all if the group is not queued, and those still there when the last     *)
(* boosted one of a throttled group has left.                              *)
stranded(c) ==
  LET plain == rt_nr_running[c] - rt_nr_boosted[c]
  IN  IF ~queued[c] THEN {plain}
      ELSE IF rt_throttled[c] THEN 0 .. plain
      ELSE {0}

(* Where n tasks go: select_fallback_rq picks a CPU for each.              *)
Spread(n) == {to \in [active -> 0 .. n] : SumFunctionOnSet(to, active) = n}

(* migrate_tasks on c when left stay behind: it moves what pick_next_task  *)
(* returns, one task after the other, and does not end if some are left.   *)
migrate_tasks(c, left, boost, plain) ==
  LET joined == {i \in active \ {c} : plain[i] + boost[i] > 0}
      n == [i \in CPUs |->
              IF i = c THEN left
              ELSE IF i \in joined THEN rt_nr_running[i] + plain[i] + boost[i]
              ELSE rt_nr_running[i]]
      b == [i \in CPUs |->
              IF i = c THEN 0
              ELSE IF i \in joined THEN rt_nr_boosted[i] + boost[i]
              ELSE rt_nr_boosted[i]]
  IN  /\ rt_nr_running' = n
      /\ rt_nr_boosted' = b
      /\ queued' = [i \in CPUs |->
                      IF i = c THEN FALSE
                      ELSE IF i \in joined THEN queues(i, n[i], b[i])
                      ELSE queued[i]]
      /\ timer' = IF joined # {} /\ rt_b_runtime # RUNTIME_INF THEN "armed"
                  ELSE timer

(* CPU_DYING, in stop_machine: the run queue goes offline, its tasks leave.*)
Die(c) ==
  /\ \A i \in CPUs : balancing[i] = "no"
  /\ timer # "callback"
  /\ up' = up \ {c}
  /\ online' = online \ {c}
  /\ rt_runtime' = IF c \in online THEN __disable_runtime(c).rt
                   ELSE rt_runtime
  /\ \E left \in stranded(c) :
       /\ \E boost \in Spread(rt_nr_boosted[c]),
             plain \in Spread(rt_nr_running[c] - rt_nr_boosted[c] - left) :
            migrate_tasks(c, left, boost, plain)
       /\ halted' =
            IF c \in online /\ __disable_runtime(c).want # 0 THEN "BUG"
            ELSE IF left > 0 THEN "loop" ELSE "no"

(* The next step of the hotplug operation under way.                       *)
HotplugStep ==
  /\ halted = "no"
  /\ plan # <<>>
  /\ plan' = Tail(plan)
  /\ LET op == Head(plan)[1]
         c == Head(plan)[2]
     IN  /\ op # "die" => balancing[c] = "no"
         /\ \/ /\ op = "disable"
               /\ Disable(c)
               /\ UNCHANGED <<tasks, timer, rd, online, active, up>>
            \/ /\ op = "enable"
               /\ __enable_runtime(c)
               /\ UNCHANGED <<tasks, timer, rd, online, active, up>>
            \/ /\ op \in {"detach", "attach"}
               /\ rq_attach_root(c, IF op = "attach" THEN "dom" ELSE "def")
               /\ UNCHANGED <<tasks, timer, active, up>>
            \/ /\ op \in {"active", "inactive"}
               /\ active' = IF op = "active" THEN active \cup {c}
                            ELSE active \ {c}
               /\ UNCHANGED <<rt_runtime, state, tasks, timer, rd, online, up,
                              leaked, halted>>
            \/ /\ op = "die"
               /\ Die(c)
               /\ UNCHANGED <<state, rd, active, leaked>>
  /\ UNCHANGED <<rt_b_runtime, balancing, scan, idle, throttled, changes>>

Next ==
  \/ \E c \in CPUs :
       \/ \E b \in {0, 1} :
            \/ enqueue_task_rt(c, b)
            \/ dequeue_task_rt(c, b)
       \/ update_curr_rt(c)
       \/ sched_rt_runtime_exceeded(c)
       \/ sched_rt_period_timer(c)
       \/ Visit(c)
       \/ VisitBalanced(c)
       \/ CpuDownPrepare(c)
       \/ CpuDownFailed(c)
       \/ CpuUp(c)
  \/ TimerReturns
  \/ \E r \in Runtimes : tg_set_rt_bandwidth(r)
  \/ HotplugStep

Spec == Init /\ [][Next]_vars

(* What does not wait for a task: interrupts, holders of a run queue lock, *)
(* and a hotplug operation that was started.  These are the steps of       *)
(* sched_rt_period_timer, TimerReturns, Visit, VisitBalanced,              *)
(* sched_rt_runtime_exceeded and HotplugStep, told by what no other step   *)
(* changes.                                                                *)
Progress ==
  \/ timer' # timer /\ "callback" \in {timer, timer'}
  \/ scan' # scan
  \/ Len(plan') < Len(plan)
  \/ \E c \in CPUs : balancing'[c] # balancing[c] /\ balancing'[c] # "tick"

(* One of them can be taken.                                               *)
CanProgress ==
  /\ halted = "no"
  /\ timer # "off" \/ plan # <<>> \/ \E c \in CPUs : balancing[c] # "no"

(* Weak fairness of Progress.                                              *)
Fairness == []<>~CanProgress \/ []<><<Progress>>_vars

FairSpec == Spec /\ Fairness

-----------------------------------------------------------------------------
(* The types; no runtime and no count falls below zero, where it would     *)
(* wrap around, and no CPU has more boosted tasks than tasks.              *)
TypeOK ==
  /\ rt_b_runtime \in Nat
  /\ rt_runtime \in [CPUs -> Nat]
  /\ rt_time \in [CPUs -> 0 .. MaxTime]
  /\ rt_throttled \in [CPUs -> BOOLEAN]
  /\ rt_nr_running \in [CPUs -> Nat]
  /\ rt_nr_boosted \in [CPUs -> Nat]
  /\ \A c \in CPUs : rt_nr_boosted[c] <= rt_nr_running[c]
  /\ queued \in [CPUs -> BOOLEAN]
  /\ balancing \in [CPUs -> {"no", "tick", "timer"}]
  /\ timer \in {"off", "armed", "callback"}
  /\ scan \subseteq CPUs
  /\ idle \in BOOLEAN /\ throttled \in BOOLEAN
  /\ rd \in [CPUs -> {"def", "dom"}]
  /\ online \subseteq up /\ active \subseteq up /\ up \subseteq CPUs
  /\ plan \in Seq(Ops \X CPUs)
  /\ changes \in 0 .. MaxChanges
  /\ leaked \in BOOLEAN
  /\ halted \in {"no", "BUG", "loop"}

(* What the CPUs of a root domain lend and borrow adds up to nothing,      *)
(* through borrowing, hotplug and changes of the setting, unless a share   *)
(* that was partly lent or borrowed has been overwritten.                  *)
RuntimeConserved ==
  halted = "no" /\ ~leaked =>
    \A d \in {"def", "dom"} :
      LET S == {i \in span(d) : rt_runtime[i] # RUNTIME_INF}
      IN  SumFunctionOnSet(rt_runtime, S) = Cardinality(S) * rt_b_runtime

(* "We cannot be left wanting - that would mean some runtime leaked out of *)
(* the system": BUG_ON(want) fires only after such an overwriting.         *)
WantingIsLeak == halted = "BUG" => leaked

(* The types, and that no runtime is lost.                                 *)
RuntimeInv == TypeOK /\ RuntimeConserved /\ WantingIsLeak

(* A throttled group is on its parent's queue as long as a boosted task is *)
(* among its tasks and no longer, in whatever order boosted tasks and      *)
(* others join and leave it, its CPU dies or its runtime comes back; and   *)
(* an empty group is not.                                                  *)
ThrottledOff ==
  \A c \in CPUs :
    /\ queued[c] => rt_nr_running[c] > 0 /\ ~rt_rq_throttled(c)
    /\ rt_nr_boosted[c] > 0 => queued[c]

(* CPUs and settings rest.                                                 *)
Rest == changes = MaxChanges /\ plan = <<>>

(* While the timer runs, a group with runtime that is not queued though it *)
(* has tasks, because it was throttled, has lost its last boosted task or  *)
(* was unthrottled by a hotplug, is queued again.                          *)
HasTasks(c) == rt_nr_running[c] > 0 /\ c \in up /\ halted = "no"

RunsAgain ==
  \A c \in CPUs :
    Rest /\ timer = "armed" /\ HasTasks(c) /\ rt_b_runtime # 0
      ~> queued[c] \/ ~HasTasks(c)

-----------------------------------------------------------------------------
(* What two comments say and the code does not keep: Spec violates both.   *)

(* "We cannot be left wanting": BUG_ON(want) does not fire.                *)
NeverWanting == halted # "BUG"

(* "Migrate all tasks from the rq": migrate_tasks finds every task of the  *)
(* CPU that dies, and ends.                                                *)
AllTasksLeave == halted # "loop"
=============================================================================
