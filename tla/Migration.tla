----------------------------- MODULE Migration -----------------------------
(***************************************************************************)
(* Where a task is on a multiprocessor (sched/core.c under CONFIG_SMP):    *)
(* wakeups that place it on another CPU and hand it over on that CPU's     *)
(* wake_list, context switches, affinity changes that ask the stopper      *)
(* thread to move it, sched_exec, and CPUs that die and come back.         *)
(*                                                                         *)
(* A step is what one CPU does without giving up a lock, or one access     *)
(* that takes no lock.  p->pi_lock and rq->lock are not variables: a step  *)
(* that needs one is enabled when no operation under way holds it.         *)
(***************************************************************************)
EXTENDS Naturals, FiniteSets, FiniteSetsExt

CONSTANTS
  N,             \* number of CPUs, 1 .. N
  Tasks,
  LLC,           \* sd_llc_id: CPUs of equal number share a cache
  MaxChanges,    \* bound: affinity and cpuset changes, execs, hotplug
  NONE, IDLE, STOP

CPUs == 1 .. N

ASSUME MigrationAssumption ==
  /\ N \in Nat \ {0, 1}
  /\ LLC \in [CPUs -> Nat]
  /\ MaxChanges \in Nat
  /\ Cardinality({NONE, IDLE, STOP}) = 3
  /\ Tasks \cap {NONE, IDLE, STOP} = {}

VARIABLES
  state,         \* p->state: "RUNNING", "SLEEPING" or "WAKING"
  on_rq,         \* p->on_rq
  on_cpu,        \* p->on_cpu
  cpu,           \* task_cpu(p)
  cpus_allowed,
  queue,         \* the tasks on each run queue
  curr,          \* rq->curr
  switching,     \* the task each CPU is switching from, under rq->lock
  wake_list,     \* rq->wake_list
  pending,       \* what sched_ttwu_pending has taken off wake_list
  ipi,           \* the CPUs with a reschedule interrupt under way
  waker,         \* the try_to_wake_up each CPU is in
  works,         \* the stopper's works on each CPU
  moving,        \* the work whose dest_cpu the stopper has found active
  caller,        \* the set_cpus_allowed_ptr callers
  exec,          \* sched_exec: the dest_cpu it will ask the stopper for
  cpuset,        \* cpus_allowed of the tasks' cpuset
  online,        \* cpu_online_mask
  active,        \* cpu_active_mask
  hotplug,       \* [stage, cpu] of the hotplug operation under way
  changes,       \* counts towards MaxChanges: not in the code
  missed,        \* tasks nobody moved when their mask changed, and
  forced         \* tasks whose mask was set against the cpuset: not in the
                 \* code

task == <<state, on_rq, on_cpu, cpu, cpus_allowed>>
rqs == <<queue, curr, switching>>
lists == <<wake_list, pending, ipi>>
stopper == <<works, moving>>
callers == <<caller, exec, cpuset>>
masks == <<online, active, hotplug>>
ghosts == <<changes, missed, forced>>
vars == <<task, rqs, lists, waker, stopper, callers, masks, ghosts>>

Callers == {"setaffinity", "cpuset"}
Works == [task : Tasks, dest : CPUs, from : Callers \cup {"exec"}]
NoWaker == [pc |-> "no", task |-> NONE]
NoCaller == [pc |-> "no", task |-> NONE, mask |-> {}, left |-> {},
             src |-> NONE, dest |-> NONE]
NoHotplug == [stage |-> "no", cpu |-> NONE]

Init ==
  /\ state = [t \in Tasks |-> "SLEEPING"]
  /\ on_rq = [t \in Tasks |-> FALSE]
  /\ on_cpu = [t \in Tasks |-> FALSE]
  /\ cpu = [t \in Tasks |-> 1]
  /\ cpus_allowed = [t \in Tasks |-> CPUs]
  /\ queue = [c \in CPUs |-> {}]
  /\ curr = [c \in CPUs |-> IDLE]
  /\ switching = [c \in CPUs |-> NONE]
  /\ wake_list = [c \in CPUs |-> {}]
  /\ pending = [c \in CPUs |-> {}]
  /\ ipi = {}
  /\ waker = [c \in CPUs |-> NoWaker]
  /\ works = [c \in CPUs |-> {}]
  /\ moving = [c \in CPUs |-> NONE]
  /\ caller = [a \in Callers |-> NoCaller]
  /\ exec = [t \in Tasks |-> NONE]
  /\ cpuset = CPUs
  /\ online = CPUs
  /\ active = CPUs
  /\ hotplug = NoHotplug
  /\ changes = 0
  /\ missed = {}
  /\ forced = {}

(* Interrupts are enabled on c and no operation is under way there.        *)
IrqsOn(c) ==
  /\ c \in online
  /\ waker[c] = NoWaker
  /\ pending[c] = {}
  /\ moving[c] = NONE
  /\ switching[c] = NONE

(* The rq->lock of c is free: only a context switch holds it for more than *)
(* a step.                                                                 *)
rq_unlocked(c) == switching[c] = NONE

(* p->pi_lock is free: a wakeup holds it from start to end.                *)
pi_unlocked(t) == \A c \in CPUs : waker[c].task # t

Count == changes < MaxChanges /\ changes' = changes + 1

-----------------------------------------------------------------------------
(* select_fallback_rq: the first allowed CPU that is online and active;    *)
(* failing that the task gets its cpuset's mask, then every CPU.           *)
select_fallback_rq(t) ==
  LET usable == online \cap active
      mask == IF cpus_allowed[t] \cap usable # {} THEN cpus_allowed[t]
              ELSE IF cpuset \cap usable # {} THEN cpuset
              ELSE CPUs
  IN  [dest |-> Min(mask \cap usable), mask |-> mask]

(* select_task_rq: r is what the class chose.  The WRR class's function    *)
(* returns no value, so r is any number, a CPU or not (NONE).              *)
select_task_rq(t, r) ==
  IF r \in cpus_allowed[t] \cap online
  THEN [dest |-> r, mask |-> cpus_allowed[t]]
  ELSE select_fallback_rq(t)

(* Mutant: whoever adds to a list that was not empty sends the interrupt.  *)
ttwu_queue_remote_late(t, d) ==
  /\ wake_list' = [wake_list EXCEPT ![d] = @ \cup {t}]
  /\ ipi' = IF wake_list[d] # {} THEN ipi \cup {d} ELSE ipi

ttwu_queue_remote(t, d) ==
  /\ wake_list' = [wake_list EXCEPT ![d] = @ \cup {t}]
  /\ ipi' = IF wake_list[d] = {} THEN ipi \cup {d} ELSE ipi

(* ttwu_do_activate for the tasks of S on run queue d.                     *)
ttwu_do_activate(S, d) ==
  /\ queue' = [queue EXCEPT ![d] = @ \cup S]
  /\ on_rq' = [t \in Tasks |-> t \in S \/ on_rq[t]]
  /\ state' = [t \in Tasks |-> IF t \in S THEN "RUNNING" ELSE state[t]]

-----------------------------------------------------------------------------
(* try_to_wake_up, called on c: it takes pi_lock with interrupts disabled, *)
(* and ends at once unless p->state matches.                               *)
try_to_wake_up(c, t) ==
  /\ IrqsOn(c)
  /\ pi_unlocked(t)
  /\ state[t] = "SLEEPING"
  /\ waker' = [waker EXCEPT ![c] =
       [pc |-> IF on_rq[t] THEN "remote" ELSE "on_cpu", task |-> t]]
  /\ UNCHANGED <<task, rqs, lists, stopper, callers, masks, ghosts>>

(* ttwu_remote: under rq->lock a task still queued is only marked.         *)
ttwu_remote(c) ==
  LET t == waker[c].task IN
  /\ waker[c].pc = "remote"
  /\ rq_unlocked(cpu[t])
  /\ IF on_rq[t]
     THEN /\ state' = [state EXCEPT ![t] = "RUNNING"]
          /\ waker' = [waker EXCEPT ![c] = NoWaker]
     ELSE /\ waker' = [waker EXCEPT ![c].pc = "on_cpu"]
          /\ UNCHANGED state
  /\ UNCHANGED <<on_rq, on_cpu, cpu, cpus_allowed, rqs, lists, stopper,
                 callers, masks, ghosts>>

(* Mutant: the waker does not wait for the CPU the task ran on.            *)
descheduled_early(t) == TRUE

(* while (p->on_cpu): the CPU the task ran on is done with it.             *)
descheduled(t) == ~on_cpu[t]

(* The task is TASK_WAKING and gets its CPU.                               *)
ttwu_place(c, r) ==
  LET t == waker[c].task
      place == select_task_rq(t, r)
  IN
  /\ waker[c].pc = "on_cpu"
  /\ descheduled(t)
  /\ state' = [state EXCEPT ![t] = "WAKING"]
  /\ cpu' = [cpu EXCEPT ![t] = place.dest]
  /\ cpus_allowed' = [cpus_allowed EXCEPT ![t] = place.mask]
  /\ waker' = [waker EXCEPT ![c].pc = "queue"]
  /\ missed' = missed \ {t}
  /\ forced' = IF place.mask = cpus_allowed[t] THEN forced
               ELSE forced \cup {t}
  /\ UNCHANGED <<on_rq, on_cpu, rqs, lists, stopper, callers, masks, changes>>

(* ttwu_queue: over to the CPU's wake_list, or under its rq->lock when it  *)
(* shares our cache.                                                       *)
ttwu_queue(c) ==
  LET t == waker[c].task
      d == cpu[t]
  IN
  /\ waker[c].pc = "queue"
  /\ IF LLC[c] # LLC[d]
     THEN /\ ttwu_queue_remote(t, d)
          /\ UNCHANGED <<queue, on_rq, state>>
     ELSE /\ rq_unlocked(d)
          /\ ttwu_do_activate({t}, d)
          /\ UNCHANGED <<wake_list, ipi>>
  /\ waker' = [waker EXCEPT ![c] = NoWaker]
  /\ UNCHANGED <<on_cpu, cpu, cpus_allowed, curr, switching, pending,
                 stopper, callers, masks, ghosts>>

(* scheduler_ipi: nothing when the list is empty, else sched_ttwu_pending  *)
(* takes all of it ...                                                     *)
scheduler_ipi(c) ==
  /\ c \in ipi
  /\ IrqsOn(c)
  /\ ipi' = ipi \ {c}
  /\ pending' = [pending EXCEPT ![c] = wake_list[c]]
  /\ wake_list' = [wake_list EXCEPT ![c] = {}]
  /\ UNCHANGED <<task, rqs, waker, stopper, callers, masks, ghosts>>

(* ... and activates what it took, under rq->lock.                         *)
sched_ttwu_pending(c) ==
  /\ pending[c] # {}
  /\ rq_unlocked(c)
  /\ ttwu_do_activate(pending[c], c)
  /\ pending' = [pending EXCEPT ![c] = {}]
  /\ UNCHANGED <<on_cpu, cpu, cpus_allowed, curr, switching, wake_list, ipi,
                 waker, stopper, callers, masks, ghosts>>

-----------------------------------------------------------------------------
(* The running task sets its state on its way to sleep.                    *)
set_current_state(c) ==
  /\ IrqsOn(c)
  /\ curr[c] \in Tasks
  /\ state[curr[c]] = "RUNNING"
  /\ state' = [state EXCEPT ![curr[c]] = "SLEEPING"]
  /\ UNCHANGED <<on_rq, on_cpu, cpu, cpus_allowed, rqs, lists, waker,
                 stopper, callers, masks, ghosts>>

(* The stopper's class comes first; it stays while stop_machine runs.      *)
pick_next_task(c, runnable) ==
  IF works[c] # {} \/ hotplug.stage = "stop_machine" THEN {STOP}
  ELSE IF runnable = {} THEN {IDLE} ELSE runnable

(* __schedule up to the switch: a task that is not preempted and not       *)
(* runnable leaves the queue.  rq->lock is held until finish_task_switch.  *)
__schedule(c, preempted, next) ==
  LET prev == curr[c]
      leaves == prev \in Tasks /\ ~preempted /\ state[prev] = "SLEEPING"
      runnable == IF leaves THEN queue[c] \ {prev} ELSE queue[c]
  IN
  /\ IrqsOn(c)
  /\ next \in pick_next_task(c, runnable)
  /\ queue' = [queue EXCEPT ![c] = runnable]
  /\ on_rq' = [t \in Tasks |-> on_rq[t] /\ ~(leaves /\ t = prev)]
  /\ curr' = [curr EXCEPT ![c] = next]
  /\ on_cpu' = [t \in Tasks |-> on_cpu[t] \/ t = next]
  /\ switching' = [switching EXCEPT ![c] =
       IF prev \in Tasks /\ prev # next THEN prev ELSE NONE]
  /\ UNCHANGED <<state, cpu, cpus_allowed, lists, waker, stopper, callers,
                 masks, ghosts>>

(* finish_lock_switch: the last access to prev, then the lock.             *)
finish_task_switch(c) ==
  /\ switching[c] # NONE
  /\ on_cpu' = [on_cpu EXCEPT ![switching[c]] = FALSE]
  /\ switching' = [switching EXCEPT ![c] = NONE]
  /\ UNCHANGED <<state, on_rq, cpu, cpus_allowed, queue, curr, lists, waker,
                 stopper, callers, masks, ghosts>>

-----------------------------------------------------------------------------
(* What cpuset_cpus_allowed reads: the online part, or all that is online. *)
cpuset_cpus_allowed ==
  IF cpuset \cap online # {} THEN cpuset \cap online ELSE online

(* sched_setaffinity on t: no CPU comes or goes until it returns.          *)
sched_setaffinity(t, in_mask) ==
  /\ Count
  /\ caller["setaffinity"].pc = "no"
  /\ hotplug = NoHotplug
  /\ caller' = [caller EXCEPT !["setaffinity"] =
       [NoCaller EXCEPT !.pc = "set", !.task = t,
                        !.mask = in_mask \cap cpuset_cpus_allowed]]
  /\ UNCHANGED <<task, rqs, lists, waker, stopper, exec, cpuset, masks,
                 missed, forced>>

(* A cpuset's mask is written, then set on each of its tasks.              *)
update_cpumask(m) ==
  /\ Count
  /\ caller["cpuset"].pc = "no"
  /\ cpuset' = m
  /\ \E t \in Tasks :
       caller' = [caller EXCEPT !["cpuset"] =
         [NoCaller EXCEPT !.pc = "set", !.task = t, !.mask = m,
                          !.left = Tasks \ {t}]]
  /\ UNCHANGED <<task, rqs, lists, waker, stopper, exec, masks, missed,
                 forced>>

(* The call of a is over: sched_setaffinity reads the cpuset again when it *)
(* succeeded, the cpuset goes on to its next task.                         *)
returned(a, ok) ==
  IF a = "setaffinity"
  THEN IF ok THEN [caller[a] EXCEPT !.pc = "recheck"] ELSE NoCaller
  ELSE IF caller[a].left = {} THEN NoCaller
  ELSE LET t == CHOOSE u \in caller[a].left : TRUE
       IN  [caller[a] EXCEPT !.pc = "set", !.task = t, !.left = @ \ {t}]

usable_mask(mask) == mask \cap active # {}

(* A queued task cannot stay: the stopper has to move it.                  *)
must_move(t, mask) == cpu[t] \notin mask /\ on_rq[t]

(* set_cpus_allowed_ptr under pi_lock and rq->lock.                        *)
set_cpus_allowed_ptr(a) ==
  LET t == caller[a].task
      mask == caller[a].mask
  IN
  /\ caller[a].pc = "set"
  /\ pi_unlocked(t)
  /\ rq_unlocked(cpu[t])
  /\ IF cpus_allowed[t] = mask \/ ~usable_mask(mask)
     THEN /\ caller' = [caller EXCEPT ![a] =
                          returned(a, cpus_allowed[t] = mask)]
          /\ forced' = IF a = "cpuset" /\ cpus_allowed[t] # mask
                       THEN forced \cup {t} ELSE forced
          /\ UNCHANGED <<cpus_allowed, missed>>
     ELSE /\ cpus_allowed' = [cpus_allowed EXCEPT ![t] = mask]
          /\ caller' = [caller EXCEPT ![a] =
               IF must_move(t, mask)
               THEN [@ EXCEPT !.pc = "stop", !.src = cpu[t],
                              !.dest = Min(active \cap mask)]
               ELSE returned(a, TRUE)]
          /\ missed' = IF cpu[t] \notin mask /\ state[t] = "WAKING"
                       THEN missed \cup {t} ELSE missed
          /\ forced' = IF mask \subseteq cpuset THEN forced \ {t}
                       ELSE IF cpuset \cap online = {} THEN forced \cup {t}
                       ELSE forced
  /\ UNCHANGED <<state, on_rq, on_cpu, cpu, rqs, lists, waker, stopper, exec,
                 cpuset, masks, changes>>

(* stop_one_cpu: a work for the stopper of src; none runs on a CPU that is *)
(* offline.                                                                *)
stop_one_cpu(src, work) ==
  /\ works' = [works EXCEPT ![src] =
       IF src \in online THEN @ \cup {work} ELSE @]
  /\ missed' = IF src \in online THEN missed ELSE missed \cup {work.task}

(* set_cpus_allowed_ptr after it dropped the locks, and its wait.          *)
set_cpus_allowed_stop(a) ==
  /\ caller[a].pc = "stop"
  /\ stop_one_cpu(caller[a].src,
       [task |-> caller[a].task, dest |-> caller[a].dest, from |-> a])
  /\ caller' = [caller EXCEPT ![a].pc = "wait"]
  /\ UNCHANGED <<task, rqs, lists, waker, moving, exec, cpuset, masks,
                 changes, forced>>

set_cpus_allowed_wait(a) ==
  /\ caller[a].pc = "wait"
  /\ \A c \in CPUs : \A w \in works[c] : w.from # a
  /\ caller' = [caller EXCEPT ![a] = returned(a, TRUE)]
  /\ UNCHANGED <<task, rqs, lists, waker, stopper, exec, cpuset, masks,
                 ghosts>>

(* Mutant: sched_setaffinity does not read the cpuset a second time.       *)
recheck_trusts(mask) == TRUE

recheck(mask) == mask \subseteq cpuset_cpus_allowed

(* sched_setaffinity again: the cpuset may have changed meanwhile.         *)
sched_setaffinity_recheck ==
  LET a == "setaffinity" IN
  /\ caller[a].pc = "recheck"
  /\ caller' = [caller EXCEPT ![a] =
       IF recheck(caller[a].mask) THEN NoCaller
       ELSE [@ EXCEPT !.pc = "set", !.mask = cpuset_cpus_allowed]]
  /\ UNCHANGED <<task, rqs, lists, waker, stopper, exec, cpuset, masks,
                 ghosts>>

(* sched_exec by the task running on c: dest_cpu under pi_lock; the        *)
(* stopper is asked once the lock is dropped.                              *)
sched_exec(c, r) ==
  /\ Count
  /\ IrqsOn(c)
  /\ curr[c] \in Tasks
  /\ state[curr[c]] = "RUNNING"
  /\ exec[curr[c]] = NONE
  /\ pi_unlocked(curr[c])
  /\ r # c
  /\ r \in active
  /\ exec' = [exec EXCEPT ![curr[c]] = r]
  /\ UNCHANGED <<task, rqs, lists, waker, stopper, caller, cpuset, masks,
                 missed, forced>>

sched_exec_stop(c) ==
  /\ IrqsOn(c)
  /\ curr[c] \in Tasks
  /\ exec[curr[c]] # NONE
  /\ works' = [works EXCEPT ![cpu[curr[c]]] = @ \cup
       {[task |-> curr[c], dest |-> exec[curr[c]], from |-> "exec"]}]
  /\ exec' = [exec EXCEPT ![curr[c]] = NONE]
  /\ UNCHANGED <<task, rqs, lists, waker, moving, caller, cpuset, masks,
                 ghosts>>

-----------------------------------------------------------------------------
(* migration_cpu_stop on c: __migrate_task first sees, without a lock,     *)
(* whether dest_cpu is active.                                             *)
migration_cpu_stop(c, work) ==
  /\ IrqsOn(c)
  /\ curr[c] = STOP
  /\ work \in works[c]
  /\ IF work.dest \in active
     THEN /\ moving' = [moving EXCEPT ![c] = work]
          /\ UNCHANGED <<works, missed>>
     ELSE /\ works' = [works EXCEPT ![c] = @ \ {work}]
          /\ missed' = IF work.from = "exec" THEN missed
                       ELSE missed \cup {work.task}
          /\ UNCHANGED moving
  /\ UNCHANGED <<task, rqs, lists, waker, callers, masks, changes, forced>>

(* Mutants: a check made under the locks is dropped.                       *)
may_move_any(t, src, dest) == on_rq[t] /\ cpu[t] = src

may_move_asleep(t, src, dest) == cpu[t] = src /\ dest \in cpus_allowed[t]

(* Not already moved, the affinity not changed again, and not asleep.      *)
may_move(t, src, dest) ==
  /\ cpu[t] = src
  /\ dest \in cpus_allowed[t]
  /\ on_rq[t]

(* __migrate_task under pi_lock and both run queue locks.                  *)
__migrate_task(c) ==
  LET work == moving[c]
      t == work.task
  IN
  /\ work # NONE
  /\ pi_unlocked(t)
  /\ rq_unlocked(c)
  /\ rq_unlocked(work.dest)
  /\ IF may_move(t, c, work.dest)
     THEN /\ queue' = [queue EXCEPT ![c] = @ \ {t},
                                    ![work.dest] = @ \cup {t}]
          /\ cpu' = [cpu EXCEPT ![t] = work.dest]
          /\ missed' = missed \ {t}
     ELSE UNCHANGED <<queue, cpu, missed>>
  /\ works' = [works EXCEPT ![c] = @ \ {work}]
  /\ moving' = [moving EXCEPT ![c] = NONE]
  /\ UNCHANGED <<state, on_rq, on_cpu, cpus_allowed, curr, switching, lists,
                 waker, callers, masks, changes, forced>>

-----------------------------------------------------------------------------
(* CPU_DOWN_PREPARE: sched_cpu_inactive.                                   *)
cpu_down_prepare(c) ==
  /\ Count
  /\ hotplug = NoHotplug
  /\ caller["setaffinity"].pc = "no"
  /\ c \in online
  /\ active # {c}
  /\ active' = active \ {c}
  /\ hotplug' = [stage |-> "prepared", cpu |-> c]
  /\ UNCHANGED <<task, rqs, lists, waker, stopper, callers, online, missed,
                 forced>>

(* CPU_DOWN_FAILED: sched_cpu_active.                                      *)
cpu_down_failed ==
  /\ hotplug.stage = "prepared"
  /\ active' = active \cup {hotplug.cpu}
  /\ hotplug' = NoHotplug
  /\ UNCHANGED <<task, rqs, lists, waker, stopper, callers, online, ghosts>>

stop_machine ==
  /\ hotplug.stage = "prepared"
  /\ hotplug' = [hotplug EXCEPT !.stage = "stop_machine"]
  /\ UNCHANGED <<task, rqs, lists, waker, stopper, callers, online, active,
                 ghosts>>

(* Mutant: what is on the wake_list is not activated first.                *)
dying_tasks_queued(c) == queue[c]

(* CPU_DYING: sched_ttwu_pending, then every task on the queue.            *)
dying_tasks(c) == queue[c] \cup wake_list[c]

(* migration_call for CPU_DYING on the dead CPU, every other CPU in its    *)
(* stopper with interrupts disabled: migrate_tasks finds each task a CPU   *)
(* and moves it there.  The stopper's works on the dead CPU are dropped.   *)
cpu_dying ==
  LET c == hotplug.cpu
      dying == dying_tasks(c)
      place == [t \in dying |-> select_fallback_rq(t)]
  IN
  /\ hotplug.stage = "stop_machine"
  /\ \A x \in online : IrqsOn(x) /\ curr[x] = STOP
  /\ queue' = [d \in CPUs |->
       IF d = c THEN {} ELSE queue[d] \cup {t \in dying : place[t].dest = d}]
  /\ state' = [t \in Tasks |->
       IF t \in dying /\ state[t] = "WAKING" THEN "RUNNING" ELSE state[t]]
  /\ on_rq' = [t \in Tasks |-> t \in dying \/ on_rq[t]]
  /\ cpu' = [t \in Tasks |-> IF t \in dying THEN place[t].dest ELSE cpu[t]]
  /\ cpus_allowed' = [t \in Tasks |->
       IF t \in dying THEN place[t].mask ELSE cpus_allowed[t]]
  /\ wake_list' = [wake_list EXCEPT ![c] = @ \ dying]
  /\ ipi' = ipi \ {c}
  /\ works' = [works EXCEPT ![c] = {}]
  /\ curr' = [curr EXCEPT ![c] = IDLE]
  /\ online' = online \ {c}
  /\ hotplug' = NoHotplug
  /\ missed' = missed \ dying
  /\ forced' = forced \cup {t \in dying : place[t].mask # cpus_allowed[t]}
  /\ UNCHANGED <<on_cpu, switching, pending, waker, moving, callers, active,
                 changes>>

(* CPU_STARTING makes a CPU active before it is online.                    *)
cpu_starting(c) ==
  /\ Count
  /\ hotplug = NoHotplug
  /\ caller["setaffinity"].pc = "no"
  /\ c \notin online
  /\ active' = active \cup {c}
  /\ hotplug' = [stage |-> "starting", cpu |-> c]
  /\ UNCHANGED <<task, rqs, lists, waker, stopper, callers, online, missed,
                 forced>>

cpu_online ==
  /\ hotplug.stage = "starting"
  /\ online' = online \cup {hotplug.cpu}
  /\ hotplug' = NoHotplug
  /\ UNCHANGED <<task, rqs, lists, waker, stopper, callers, active, ghosts>>

-----------------------------------------------------------------------------
Masks == (SUBSET CPUs) \ {{}}

Waker(c) ==
  \/ ttwu_remote(c)
  \/ \E r \in CPUs \cup {NONE} : ttwu_place(c, r)
  \/ ttwu_queue(c)

Stopper(c) ==
  \/ \E work \in works[c] : migration_cpu_stop(c, work)
  \/ __migrate_task(c)

Schedule(c) ==
  \E preempted \in BOOLEAN, next \in Tasks \cup {IDLE, STOP} :
    __schedule(c, preempted, next)

CpuStep(c) ==
  \/ \E t \in Tasks : try_to_wake_up(c, t)
  \/ Waker(c)
  \/ scheduler_ipi(c)
  \/ sched_ttwu_pending(c)
  \/ set_current_state(c)
  \/ Schedule(c)
  \/ finish_task_switch(c)
  \/ \E r \in CPUs : sched_exec(c, r)
  \/ sched_exec_stop(c)
  \/ Stopper(c)

CallerStep(a) ==
  \/ set_cpus_allowed_ptr(a)
  \/ set_cpus_allowed_stop(a)
  \/ set_cpus_allowed_wait(a)

HotplugStep ==
  \/ cpu_down_failed
  \/ stop_machine
  \/ cpu_dying
  \/ cpu_online

Next ==
  \/ \E c \in CPUs : CpuStep(c)
  \/ \E t \in Tasks, m \in Masks : sched_setaffinity(t, m)
  \/ \E m \in Masks : update_cpumask(m)
  \/ \E a \in Callers : CallerStep(a)
  \/ sched_setaffinity_recheck
  \/ \E c \in CPUs : cpu_down_prepare(c) \/ cpu_starting(c)
  \/ HotplugStep

Spec == Init /\ [][Next]_vars

-----------------------------------------------------------------------------
(* The type of the state.                                                  *)
TypeOK ==
  /\ state \in [Tasks -> {"RUNNING", "SLEEPING", "WAKING"}]
  /\ on_rq \in [Tasks -> BOOLEAN]
  /\ on_cpu \in [Tasks -> BOOLEAN]
  /\ cpu \in [Tasks -> CPUs]
  /\ cpus_allowed \in [Tasks -> Masks]
  /\ queue \in [CPUs -> SUBSET Tasks]
  /\ curr \in [CPUs -> Tasks \cup {IDLE, STOP}]
  /\ switching \in [CPUs -> Tasks \cup {NONE}]
  /\ wake_list \in [CPUs -> SUBSET Tasks]
  /\ pending \in [CPUs -> SUBSET Tasks]
  /\ ipi \subseteq CPUs
  /\ waker \in [CPUs -> [pc : {"no", "remote", "on_cpu", "queue"},
                         task : Tasks \cup {NONE}]]
  /\ works \in [CPUs -> SUBSET Works]
  /\ moving \in [CPUs -> Works \cup {NONE}]
  /\ \A c \in CPUs : moving[c] \in works[c] \cup {NONE}
  /\ caller \in [Callers -> [pc : {"no", "set", "stop", "wait", "recheck"},
                             task : Tasks \cup {NONE}, mask : SUBSET CPUs,
                             left : SUBSET Tasks, src : CPUs \cup {NONE},
                             dest : CPUs \cup {NONE}]]
  /\ exec \in [Tasks -> CPUs \cup {NONE}]
  /\ cpuset \in Masks
  /\ online \in Masks
  /\ active \in Masks
  /\ hotplug \in [stage : {"no", "prepared", "stop_machine", "starting"},
                  cpu : CPUs \cup {NONE}]
  /\ changes \in 0 .. MaxChanges
  /\ missed \subseteq Tasks
  /\ forced \subseteq Tasks

(* A task has one place: on the run queue of its CPU exactly when on_rq is *)
(* set, and while it is TASK_WAKING in the hands of one waker, or on one   *)
(* wake_list, or taken off it, of that CPU.                                *)
Places(t) ==
  {<<"queue", c>> : c \in {x \in CPUs : t \in queue[x]}} \cup
  {<<"wake_list", c>> : c \in {x \in CPUs : t \in wake_list[x]}} \cup
  {<<"pending", c>> : c \in {x \in CPUs : t \in pending[x]}} \cup
  {<<"waker", c>> : c \in {x \in CPUs :
                             waker[x].task = t /\ waker[x].pc = "queue"}}

OnePlace ==
  \A t \in Tasks :
    /\ Cardinality(Places(t)) = (IF on_rq[t] \/ state[t] = "WAKING" THEN 1 ELSE 0)
    /\ \A x \in Places(t) :
         /\ (x[1] = "queue") = on_rq[t]
         /\ x[1] # "waker" => x[2] = cpu[t]

(* The types, and that every task has one place.                           *)
PlacementInv == TypeOK /\ OnePlace

(* A task runs on one CPU at a time, which is the one it is queued on, and *)
(* no CPU switches to it while the one it left still uses its stack.       *)
OneCpu ==
  \A t \in Tasks, c \in CPUs :
    /\ curr[c] = t => on_cpu[t] /\ on_rq[t] /\ cpu[t] = c
    /\ switching[c] = t => \A d \in CPUs : curr[d] # t

(* A task is queued on a CPU its mask excludes only until the call that    *)
(* changed the mask returns, or if the call did not see it (missed).       *)
RunsAllowed ==
  \A t \in Tasks :
    on_rq[t] /\ cpu[t] \notin cpus_allowed[t] =>
      \/ t \in missed
      \/ \E a \in Callers : caller[a].task = t /\ caller[a].pc \in {"stop", "wait"}

(* What the comment before set_cpus_allowed_ptr says: the task is moved    *)
(* off a CPU that is removed from its mask.  Spec violates it.             *)
ScheduledAway ==
  hotplug = NoHotplug /\ online = CPUs =>
  \A t \in Tasks :
    on_rq[t] /\ cpu[t] \notin cpus_allowed[t] =>
      \E a \in Callers : caller[a].task = t /\ caller[a].pc \in {"stop", "wait"}

(* Nothing is left behind on a CPU that has died: no task on its queue or  *)
(* its wake_list, or on its way there.                                     *)
DeadEmpty ==
  \A c \in CPUs \ (online \cup active) :
    /\ queue[c] = {}
    /\ wake_list[c] = {}
    /\ pending[c] = {}
    /\ \A x \in CPUs : ~(waker[x].pc = "queue" /\ cpu[waker[x].task] = c)

(* Once sched_setaffinity and the cpuset's update have returned, a task's  *)
(* mask lies in its cpuset, unless no CPU of the cpuset could be used.     *)
CpusetHeld ==
  (\A a \in Callers : caller[a].pc = "no") =>
    \A t \in Tasks \ forced : cpus_allowed[t] \subseteq cpuset

-----------------------------------------------------------------------------
(* A CPU ends what it does with interrupts disabled, and takes a pending   *)
(* interrupt when it has enabled them.  A spinlock goes to its waiters in  *)
(* turn (strong fairness).                                                 *)
Fairness ==
  /\ \A c \in CPUs : /\ SF_vars(Waker(c))
                     /\ SF_vars(scheduler_ipi(c))
                     /\ WF_vars(sched_ttwu_pending(c))
                     /\ WF_vars(finish_task_switch(c))
                     /\ SF_vars(__migrate_task(c))

FairSpec == Spec /\ Fairness

(* No wakeup is lost between CPUs: a task that is TASK_WAKING gets on a    *)
(* run queue.                                                              *)
WakingEnds == \A t \in Tasks : state[t] = "WAKING" ~> on_rq[t]
=============================================================================
