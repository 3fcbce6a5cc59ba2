------------------------------- MODULE Sched -------------------------------
(***************************************************************************)
(* The core scheduler (sched/core.c) of a preemptible uniprocessor kernel, *)
(* the build goldfish_armv7_defconfig selects, with the weighted round     *)
(* robin class (sched/wrr.c) in detail.  The real-time class appears as    *)
(* the core and the WRR class see it: which tasks it holds, their          *)
(* priorities, and whether it is throttled.  The fair class (fair.c, not   *)
(* in the repository) appears as a set of tasks, with its own preemption   *)
(* decisions left open.                                                    *)
(*                                                                         *)
(* Every handler that runs under rq->lock with interrupts off is one       *)
(* action.  A handler that drops the lock, or that can be preempted        *)
(* between two of its steps, is several actions; `call' records how far    *)
(* the task has come.                                                      *)
(***************************************************************************)
EXTENDS Runqueue

CONSTANTS
  InitTask,           \* the first process
  Idle,               \* the idle thread, runs when nothing else can
  UINT_MAX,           \* 2^32 - 1 in the kernel
  WRR_FORE_TIMESLICE, \* ticks of a foreground task (linux/sched.h)
  WRR_BACK_TIMESLICE, \* ticks of a background task
  Groups,             \* the cpu cgroups, by path
  SchedParams,        \* <<policy, sched_priority>>, as callers ask for them
  ResetFlags,         \* whether they ask for SCHED_RESET_ON_FORK
  ParamPrios,         \* the priorities sched_setparam is called with
  Nices,              \* the nice values callers pass
  PiPrios,            \* priorities of the top waiter on locks a task holds
  SleepStates         \* the states tasks sleep in

FOREGROUP == "/"
BACKGROUP == "/bg_non_interactive"

MAX_RT_PRIO == 100
MAX_PRIO == MAX_RT_PRIO + 40
DEFAULT_PRIO == MAX_RT_PRIO + 20

SchedPolicies == {"NORMAL", "BATCH", "IDLE", "FIFO", "RR", "WRR"}

ASSUME TasksAssumption ==
  /\ IsFiniteSet(Tasks)
  /\ InitTask \in Tasks
  /\ Idle \notin Tasks

ASSUME SliceAssumption ==
  /\ UINT_MAX \in Nat
  /\ WRR_BACK_TIMESLICE \in 1 .. WRR_FORE_TIMESLICE
  /\ WRR_FORE_TIMESLICE \in 1 .. UINT_MAX

ASSUME InputAssumption ==
  /\ FOREGROUP \in Groups
  /\ SchedParams \subseteq SchedPolicies \X (0 .. MAX_RT_PRIO - 1)
  /\ ParamPrios \subseteq 0 .. MAX_RT_PRIO - 1
  /\ ResetFlags \subseteq BOOLEAN
  /\ Nices \subseteq -20 .. 19
  /\ PiPrios \subseteq 0 .. MAX_PRIO
  /\ SleepStates \subseteq {"INTERRUPTIBLE", "UNINTERRUPTIBLE"}

VARIABLES
  rq,             \* struct rq
  curr,           \* rq->curr
  need_resched,   \* TIF_NEED_RESCHED of curr; no other task ever has it
  rt_throttled,   \* rq->rt.rt_throttled, the root group's real-time budget
  task,           \* the task_structs
  call            \* the preemptible system call each task is inside

vars == <<rq, curr, need_resched, rt_throttled, task, call>>

(***************************************************************************)
(* struct task_struct.  `alloc' says whether the structure is in use       *)
(* ("new": forked, not yet woken for the first time); `pi' is the priority *)
(* of the top waiter on the rt_mutexes the task owns, MAX_PRIO when there  *)
(* is none.                                                                *)
(***************************************************************************)
Prio == 0 .. MAX_PRIO

TaskRec ==
  [ alloc         : {"free", "new", "live"},
    state         : {"RUNNING", "INTERRUPTIBLE", "UNINTERRUPTIBLE", "DEAD"},
    on_rq         : BOOLEAN,
    policy        : SchedPolicies,
    rt_priority   : 0 .. MAX_RT_PRIO - 1,
    static_prio   : MAX_RT_PRIO .. MAX_PRIO - 1,
    normal_prio   : Prio,
    prio          : Prio,
    sched_class   : {"rt", "wrr", "fair"},
    time_slice    : 0 .. UINT_MAX,
    group         : Groups,
    reset_on_fork : BOOLEAN,
    pi            : Prio ]

CallRec ==
  [ op     : {"none", "setparam", "attach", "fork", "exit"},
    target : Tasks,
    policy : SchedPolicies,
    prio   : 0 .. MAX_RT_PRIO - 1,
    reset  : BOOLEAN,
    group  : Groups ]

NoCall == [ op |-> "none", target |-> InitTask, policy |-> "NORMAL",
            prio |-> 0, reset |-> FALSE, group |-> FOREGROUP ]

NewTask(alloc, on_rq) ==
  [ alloc |-> alloc, state |-> "RUNNING", on_rq |-> on_rq,
    policy |-> "NORMAL", rt_priority |-> 0, static_prio |-> DEFAULT_PRIO,
    normal_prio |-> DEFAULT_PRIO, prio |-> DEFAULT_PRIO,
    sched_class |-> "fair", time_slice |-> 0, group |-> FOREGROUP,
    reset_on_fork |-> FALSE, pi |-> MAX_PRIO ]

(* The first process runs; the idle thread is set up by init_idle.         *)
Init ==
  /\ task = [p \in Tasks |-> IF p = InitTask THEN NewTask("live", TRUE)
                                             ELSE NewTask("free", FALSE)]
  /\ rq = enqueue_task(EmptyRq, InitTask, "fair", FALSE)
  /\ curr = InitTask
  /\ need_resched = FALSE
  /\ rt_throttled = FALSE
  /\ call = [p \in Tasks |-> NoCall]

-----------------------------------------------------------------------------
(* Priorities and policies.                                                *)

rt_policy(pol) == pol \in {"FIFO", "RR"}

wrr_policy(pol) == pol = "WRR"

rt_prio(prio) == prio < MAX_RT_PRIO

NICE_TO_PRIO(nice) == MAX_RT_PRIO + nice + 20

normal_prio(t) ==
  IF rt_policy(t.policy) THEN MAX_RT_PRIO - 1 - t.rt_priority
                         ELSE t.static_prio

effective_prio(t) == IF rt_prio(t.prio) THEN t.prio ELSE normal_prio(t)

(* rtmutex.c: the task's own priority or its top waiter's, if higher.      *)
rt_mutex_getprio(t) == IF t.pi < t.normal_prio THEN t.pi ELSE t.normal_prio

(* The test __sched_setscheduler applies to a policy and a priority.       *)
valid_priority(policy, prio) ==
  \/ rt_policy(policy) = (prio # 0)
  \/ wrr_policy(policy) = (prio # 0)

(* Only the root group has real-time runtime unless it is configured.      *)
rt_runtime(group) == group = FOREGROUP

-----------------------------------------------------------------------------
(* The classes, as functions of the tasks T.                               *)

RtQueued(T) == {p \in Tasks : T[p].on_rq /\ T[p].sched_class = "rt"}

WrrQueued(T) == {p \in Tasks : T[p].on_rq /\ T[p].sched_class = "wrr"}

FairQueued(T) == {p \in Tasks : T[p].on_rq /\ T[p].sched_class = "fair"}

Queued(T) == {p \in Tasks : T[p].on_rq}

(* A throttled real-time queue still runs while it holds a boosted task.   *)
rt_rq_throttled(T, throttled) ==
  throttled /\ \A p \in RtQueued(T) : T[p].prio = T[p].normal_prio

ClassOf(T, p) == IF p = Idle THEN "idle" ELSE T[p].sched_class

PrioOf(T, p) == IF p = Idle THEN DEFAULT_PRIO ELSE T[p].prio

PolicyOf(T, p) == IF p = Idle THEN "NORMAL" ELSE T[p].policy

(* The order of for_each_class.                                            *)
ClassRank(class) ==
  CASE class = "rt" -> 1 [] class = "wrr" -> 2
    [] class = "fair" -> 3 [] class = "idle" -> 4

pick_next_task_rt(T, throttled) ==
  IF rt_rq_throttled(T, throttled) THEN {}
  ELSE {p \in RtQueued(T) : \A q \in RtQueued(T) : T[p].prio <= T[q].prio}

pick_next_task_wrr(r) == IF r.wrr_nr_running = 0 THEN {} ELSE {Head(r.queue)}

pick_next_task_fair(r, T) == IF r.h_nr_running = 0 THEN {} ELSE FairQueued(T)

(* Mutant: the shortcut forgets to ask whether every task is fair.         *)
pick_next_task_short(r, T, throttled) ==
  IF r.h_nr_running # 0 THEN pick_next_task_fair(r, T)
  ELSE LET rt == pick_next_task_rt(T, throttled) IN
       IF rt # {} THEN rt
       ELSE IF r.wrr_nr_running # 0 THEN pick_next_task_wrr(r) ELSE {Idle}

(* The tasks the scheduler may run next; the fair class and real-time      *)
(* tasks of equal priority leave a choice.                                 *)
pick_next_task(r, T, throttled) ==
  LET fair == pick_next_task_fair(r, T)
      rt   == pick_next_task_rt(T, throttled)
      wrr  == pick_next_task_wrr(r)
  IN  IF r.nr_running = r.h_nr_running /\ fair # {} THEN fair
      ELSE IF rt # {} THEN rt
      ELSE IF wrr # {} THEN wrr
      ELSE IF fair # {} THEN fair
      ELSE {Idle}

-----------------------------------------------------------------------------
(***************************************************************************)
(* Preemption decisions.  Each returns the values need_resched may have    *)
(* afterwards: {TRUE} when the handler calls resched_task, {need_resched}  *)
(* when it does not, both when the fair class decides.                     *)
(***************************************************************************)
Keep == {need_resched}
Resched == {TRUE}
FairDecides == {need_resched, TRUE}

ReschedIf(cond) == IF cond THEN Resched ELSE Keep

(* Mutant: a woken task never preempts one of a lower class.               *)
check_preempt_curr_same_class(T, p) ==
  IF T[p].sched_class = "rt" /\ ClassOf(T, curr) = "rt"
  THEN ReschedIf(T[p].prio < PrioOf(T, curr))
  ELSE IF ClassOf(T, curr) = T[p].sched_class /\ p # curr THEN FairDecides ELSE Keep

check_preempt_curr(T, p) ==
  LET class == T[p].sched_class IN
  IF class = ClassOf(T, curr)
  THEN CASE class = "rt"   -> ReschedIf(T[p].prio < PrioOf(T, curr))
         [] class = "wrr"  -> Keep
         [] class = "fair" -> IF p = curr THEN Keep ELSE FairDecides
  ELSE ReschedIf(ClassRank(class) < ClassRank(ClassOf(T, curr)))

(* Mutant: the priorities are compared the wrong way round.                *)
switched_to_rt_reversed(T, p) ==
  ReschedIf(T[p].on_rq /\ curr # p /\ T[p].prio > PrioOf(T, curr))

switched_to_rt(T, p) ==
  ReschedIf(T[p].on_rq /\ curr # p /\ T[p].prio < PrioOf(T, curr))

switched_to_wrr(T, p) ==
  ReschedIf(T[p].on_rq /\ curr # p /\ PolicyOf(T, curr) # "WRR")

(* fair.c                                                                  *)
switched_to_fair(T, p) ==
  IF ~T[p].on_rq THEN Keep
  ELSE IF curr = p THEN Resched ELSE check_preempt_curr(T, p)

prio_changed_rt(T, p, oldprio) ==
  IF ~T[p].on_rq THEN Keep
  ELSE IF curr = p THEN ReschedIf(oldprio < T[p].prio)
  ELSE ReschedIf(T[p].prio < PrioOf(T, curr))

(* fair.c                                                                  *)
prio_changed_fair(T, p, oldprio) ==
  IF ~T[p].on_rq THEN Keep
  ELSE IF curr = p THEN ReschedIf(T[p].prio > oldprio)
  ELSE check_preempt_curr(T, p)

check_class_changed(T, p, prev_class, oldprio) ==
  LET class == T[p].sched_class IN
  IF prev_class # class
  THEN CASE class = "rt"   -> switched_to_rt(T, p)
         [] class = "wrr"  -> switched_to_wrr(T, p)
         [] class = "fair" -> switched_to_fair(T, p)
  ELSE IF oldprio = T[p].prio THEN Keep
  ELSE CASE class = "rt"   -> prio_changed_rt(T, p, oldprio)
         [] class = "wrr"  -> Keep
         [] class = "fair" -> prio_changed_fair(T, p, oldprio)

-----------------------------------------------------------------------------
(* Helpers shared by the handlers.                                         *)

(* The caller of a system call: a task, running, not inside another call.  *)
InSyscall ==
  /\ curr # Idle
  /\ task[curr].state = "RUNNING"
  /\ call[curr].op = "none"

(* The caller goes on with the call it is inside.                          *)
Resumes(op) ==
  /\ curr # Idle
  /\ task[curr].state = "RUNNING"
  /\ call[curr].op = op

Return == call' = [call EXCEPT ![curr] = NoCall]

(* Dequeue a task if it is queued, change it, and queue it again.          *)
ChangeTask(p, new, head) ==
  /\ task' = [task EXCEPT ![p] = new]
  /\ rq' = IF task[p].on_rq
           THEN enqueue_task(dequeue_task(rq, p, task[p].sched_class),
                             p, new.sched_class, head)
           ELSE rq

task_contributes_to_load(t) == t.state = "UNINTERRUPTIBLE"

(* Mutant: the sleeper is not taken out of the count.                      *)
activate_task_uncounted(r, p, t) == enqueue_task(r, p, t.sched_class, FALSE)

activate_task(r, p, t) ==
  [enqueue_task(r, p, t.sched_class, FALSE) EXCEPT
     !.nr_uninterruptible = IF task_contributes_to_load(t) THEN @ - 1 ELSE @]

deactivate_task(r, p, t) ==
  [dequeue_task(r, p, t.sched_class) EXCEPT
     !.nr_uninterruptible = IF task_contributes_to_load(t) THEN @ + 1 ELSE @]

(* The tail of __schedule, once prev has been taken off the queue or not.  *)
SwitchTo(r, T) ==
  /\ rq' = r
  /\ task' = T
  /\ curr' \in pick_next_task(r, T, rt_throttled)
  /\ need_resched' = FALSE

-----------------------------------------------------------------------------
(* __schedule and its callers.                                             *)

(* set_current_state: a task announces that it is about to sleep, or       *)
(* finds that it need not.                                                 *)
SetCurrentState(s) ==
  /\ curr # Idle
  /\ task' = [task EXCEPT ![curr].state = s]
  /\ UNCHANGED <<rq, curr, need_resched, rt_throttled, call>>

(* preempt_schedule, and the idle loop: with PREEMPT_ACTIVE the task stays *)
(* queued whatever its state.                                              *)
Preempt ==
  /\ need_resched
  /\ SwitchTo(rq, task)
  /\ UNCHANGED <<rt_throttled, call>>

(* schedule() by a task that is still running, or that a signal woke.      *)
ScheduleRunnable ==
  /\ curr # Idle
  /\ task[curr].state \in {"RUNNING", "INTERRUPTIBLE"}
  /\ SwitchTo(rq, [task EXCEPT ![curr].state = "RUNNING"])
  /\ UNCHANGED <<rt_throttled, call>>

(* prev->on_rq = 0                                                         *)
put_to_sleep(t) == [t EXCEPT !.on_rq = FALSE]

(* schedule() by a task that goes to sleep.                                *)
ScheduleSleep ==
  /\ curr # Idle
  /\ task[curr].state \in {"INTERRUPTIBLE", "UNINTERRUPTIBLE"}
  /\ SwitchTo(deactivate_task(rq, curr, task[curr]),
              [task EXCEPT ![curr] = put_to_sleep(task[curr])])
  /\ UNCHANGED <<rt_throttled, call>>

(* Mutant: a woken task is queued although it has not slept yet.           *)
ttwu_twice(r, p) == activate_task(r, p, task[p])

(* What a wakeup does to the run queue: ttwu_remote leaves a task that is  *)
(* still on it where it is.                                                *)
ttwu(r, p) == IF task[p].on_rq THEN r ELSE activate_task(r, p, task[p])

(* The same for a workqueue worker: the workqueue names another worker w,  *)
(* which try_to_wake_up_local wakes before the next task is picked.  Its   *)
(* resched_task hits prev, whose flag __schedule clears.                   *)
ScheduleWorkerSleep(w) ==
  /\ curr # Idle
  /\ w # curr
  /\ task[curr].state \in {"INTERRUPTIBLE", "UNINTERRUPTIBLE"}
  /\ task[w].alloc = "live"
  /\ task[w].state \in {"INTERRUPTIBLE", "UNINTERRUPTIBLE"}
  /\ LET r == deactivate_task(rq, curr, task[curr]) IN
       SwitchTo(ttwu(r, w),
                [task EXCEPT ![curr] = put_to_sleep(task[curr]),
                             ![w].on_rq = TRUE, ![w].state = "RUNNING"])
  /\ UNCHANGED <<rt_throttled, call>>

(* sched_yield: a WRR task goes to the tail; interrupts stay off until the *)
(* next task is picked.                                                    *)
Yield ==
  /\ InSyscall
  /\ SwitchTo(IF task[curr].sched_class = "wrr"
                 THEN requeue_task_wrr(rq, curr) ELSE rq, task)
  /\ UNCHANGED <<rt_throttled, call>>

(* try_to_wake_up: a light wakeup of a task still on the queue, or a full  *)
(* one.                                                                    *)
Wake(p) ==
  /\ task[p].alloc = "live"
  /\ task[p].state \in {"INTERRUPTIBLE", "UNINTERRUPTIBLE"}
  /\ task' = [task EXCEPT ![p].state = "RUNNING", ![p].on_rq = TRUE]
  /\ rq' = ttwu(rq, p)
  /\ need_resched' \in check_preempt_curr(task', p)
  /\ UNCHANGED <<curr, rt_throttled, call>>

-----------------------------------------------------------------------------
(* fork and exit.                                                          *)

(* Mutant: the child keeps the parent's class.                             *)
sched_fork_keeps_class(t) ==
  [t EXCEPT !.alloc = "new", !.on_rq = FALSE, !.state = "RUNNING",
            !.prio = t.normal_prio, !.pi = MAX_PRIO]

(* What sched_fork makes of the copy of the parent's task_struct.          *)
sched_fork(t) ==
  LET copy == [t EXCEPT !.alloc = "new", !.on_rq = FALSE,
                        !.state = "RUNNING", !.prio = t.normal_prio,
                        !.pi = MAX_PRIO]
      base == IF rt_policy(t.policy)
              THEN [copy EXCEPT !.policy = "NORMAL", !.rt_priority = 0,
                                !.static_prio = DEFAULT_PRIO]
              ELSE IF t.static_prio < DEFAULT_PRIO
              THEN [copy EXCEPT !.static_prio = DEFAULT_PRIO]
              ELSE copy
      child == IF t.reset_on_fork
               THEN [base EXCEPT !.prio = base.static_prio,
                                 !.normal_prio = base.static_prio,
                                 !.reset_on_fork = FALSE]
               ELSE copy
  IN  IF rt_prio(child.prio) THEN child
      ELSE [child EXCEPT !.sched_class = "fair"]

SchedFork(c) ==
  /\ InSyscall
  /\ task[c].alloc = "free"
  /\ task' = [task EXCEPT ![c] = sched_fork(task[curr])]
  /\ call' = [call EXCEPT ![curr] = [NoCall EXCEPT !.op = "fork",
                                                  !.target = c]]
  /\ UNCHANGED <<rq, curr, need_resched, rt_throttled>>

WakeUpNewTask ==
  /\ Resumes("fork")
  /\ LET c == call[curr].target IN
       /\ task' = [task EXCEPT ![c].on_rq = TRUE, ![c].alloc = "live"]
       /\ rq' = activate_task(rq, c, task[c])
       /\ need_resched' \in check_preempt_curr(task', c)
  /\ Return
  /\ UNCHANGED <<curr, rt_throttled>>

(* do_exit leaves the cgroup (cpu_cgroup_exit), then dies in schedule().   *)
ExitCgroup ==
  /\ InSyscall
  /\ curr # InitTask
  /\ ChangeTask(curr, [task[curr] EXCEPT !.group = FOREGROUP], FALSE)
  /\ call' = [call EXCEPT ![curr] = [NoCall EXCEPT !.op = "exit"]]
  /\ UNCHANGED <<curr, need_resched, rt_throttled>>

ExitSchedule ==
  /\ Resumes("exit")
  /\ LET t == [task[curr] EXCEPT !.state = "DEAD"] IN
       SwitchTo(deactivate_task(rq, curr, t),
                [task EXCEPT ![curr] = put_to_sleep(t)])
  /\ Return
  /\ UNCHANGED rt_throttled

-----------------------------------------------------------------------------
(* sched_setscheduler and sched_setparam.                                  *)

(* Mutant: the new priority ignores the waiters on the task's locks.       *)
do_setscheduler_unboosted(t, policy, prio) ==
  LET set  == [t EXCEPT !.policy = policy, !.rt_priority = prio]
      eff  == normal_prio(set)
  IN  [set EXCEPT !.normal_prio = eff, !.prio = eff,
                  !.sched_class = IF policy = "WRR" THEN "wrr"
                                  ELSE IF rt_prio(eff) THEN "rt" ELSE "fair"]

(* __setscheduler                                                          *)
do_setscheduler(t, policy, prio) ==
  LET set    == [t EXCEPT !.policy = policy, !.rt_priority = prio]
      normal == [set EXCEPT !.normal_prio = normal_prio(set)]
      eff    == rt_mutex_getprio(normal)
  IN  [normal EXCEPT !.prio = eff,
                     !.sched_class = IF policy = "WRR" THEN "wrr"
                                     ELSE IF rt_prio(eff) THEN "rt"
                                     ELSE "fair"]

(* "If not changing anything there's no need to proceed further"           *)
changes_nothing(t, policy, prio) ==
  policy = t.policy /\ (rt_policy(policy) => prio = t.rt_priority)

(* "Do not allow realtime tasks into groups that have no runtime assigned" *)
rt_group_refuses(t, policy) == rt_policy(policy) /\ ~rt_runtime(t.group)

(* The part of __sched_setscheduler that changes the task.                 *)
ApplyScheduler(p, policy, prio, reset) ==
  LET old == task[p]
      new == do_setscheduler([old EXCEPT !.reset_on_fork = reset],
                             policy, prio)
  IN  /\ ChangeTask(p, new, FALSE)
      /\ need_resched' \in check_class_changed(task', p, old.sched_class,
                                               old.prio)

SetScheduler(p, policy, prio, reset) ==
  /\ InSyscall
  /\ task[p].alloc # "free"
  /\ valid_priority(policy, prio)
  /\ ~changes_nothing(task[p], policy, prio)
  /\ ~rt_group_refuses(task[p], policy)
  /\ ApplyScheduler(p, policy, prio, reset)
  /\ UNCHANGED <<curr, rt_throttled, call>>

(* sched_setparam (policy < 0) reads the policy and the reset flag without *)
(* the lock ...                                                            *)
setparam_call(p, prio) ==
  [ op |-> "setparam", target |-> p, policy |-> task[p].policy,
    prio |-> prio, reset |-> task[p].reset_on_fork, group |-> FOREGROUP ]

SetparamRead(p, prio) ==
  /\ InSyscall
  /\ task[p].alloc # "free"
  /\ valid_priority(task[p].policy, prio)
  /\ call' = [call EXCEPT ![curr] = setparam_call(p, prio)]
  /\ UNCHANGED <<rq, curr, need_resched, rt_throttled, task>>

(* Mutant: the policy is not looked at again under the lock.               *)
policy_changed_never(t, policy) == FALSE

policy_changed(t, policy) == policy # t.policy

(* ... takes the lock and returns if there is nothing to do or it may not, *)
SetparamReturn ==
  /\ Resumes("setparam")
  /\ LET c == call[curr] IN
       \/ changes_nothing(task[c.target], c.policy, c.prio)
       \/ rt_group_refuses(task[c.target], c.policy)
  /\ Return
  /\ UNCHANGED <<rq, curr, need_resched, rt_throttled, task>>

(* ... starts again if the policy changed meanwhile,                       *)
SetparamRecheck ==
  /\ Resumes("setparam")
  /\ LET c == call[curr] IN
       /\ ~changes_nothing(task[c.target], c.policy, c.prio)
       /\ ~rt_group_refuses(task[c.target], c.policy)
       /\ policy_changed(task[c.target], c.policy)
       /\ call' = [call EXCEPT ![curr] =
                     IF valid_priority(task[c.target].policy, c.prio)
                     THEN setparam_call(c.target, c.prio) ELSE NoCall]
  /\ UNCHANGED <<rq, curr, need_resched, rt_throttled, task>>

(* ... or applies the priority with what it read.                          *)
SetparamApply ==
  /\ Resumes("setparam")
  /\ LET c == call[curr] IN
       /\ ~changes_nothing(task[c.target], c.policy, c.prio)
       /\ ~rt_group_refuses(task[c.target], c.policy)
       /\ ~policy_changed(task[c.target], c.policy)
       /\ ApplyScheduler(c.target, c.policy, c.prio, c.reset)
  /\ Return
  /\ UNCHANGED <<curr, rt_throttled>>

-----------------------------------------------------------------------------
(* Other changes of priority and group.                                    *)

(* set_user_nice                                                           *)
SetUserNice(p, nice) ==
  /\ InSyscall
  /\ task[p].alloc # "free"
  /\ task[p].static_prio # NICE_TO_PRIO(nice)
  /\ LET old  == task[p]
         set  == [old EXCEPT !.static_prio = NICE_TO_PRIO(nice)]
         new  == [set EXCEPT !.normal_prio = normal_prio(set),
                             !.prio = effective_prio(set)]
     IN  IF rt_policy(old.policy)
         THEN /\ task' = [task EXCEPT ![p] = set]
              /\ UNCHANGED <<rq, need_resched>>
         ELSE /\ ChangeTask(p, new, FALSE)
              /\ need_resched' \in
                   ReschedIf(/\ old.on_rq
                             /\ \/ new.prio < old.prio
                                \/ new.prio > old.prio /\ p = curr)
  /\ UNCHANGED <<curr, rt_throttled, call>>

(* rt_mutex_setprio                                                        *)
setprio(t, prio) ==
  [t EXCEPT !.prio = prio,
            !.sched_class = IF rt_prio(prio) THEN "rt" ELSE "fair"]

(* rtmutex.c: the top waiter on p's locks changes, and p's priority with   *)
(* it when that makes a difference.                                        *)
RtMutexAdjustPrio(p, pi) ==
  /\ curr # Idle
  /\ task[p].alloc = "live"
  /\ task[p].state # "DEAD"
  /\ task[p].pi # pi
  /\ LET old  == task[p]
         set  == [old EXCEPT !.pi = pi]
         prio == rt_mutex_getprio(set)
     IN  IF prio = old.prio
         THEN /\ task' = [task EXCEPT ![p] = set]
              /\ UNCHANGED <<rq, need_resched>>
         ELSE /\ ChangeTask(p, setprio(set, prio), old.prio < prio)
              /\ need_resched' \in check_class_changed(task', p,
                                        old.sched_class, old.prio)
  /\ UNCHANGED <<curr, rt_throttled, call>>

(* cpu_cgroup_can_attach, without the run queue lock ...                   *)
CanAttach(p, g) ==
  /\ InSyscall
  /\ \A q \in Tasks : call[q].op # "attach"      \* cgroup_mutex
  /\ task[p].alloc # "free"
  /\ task[p].state # "DEAD"
  /\ call[p].op # "exit"
  /\ task[p].group # g
  /\ rt_prio(task[p].prio) => rt_runtime(g)
  /\ call' = [call EXCEPT ![curr] = [NoCall EXCEPT !.op = "attach",
                                        !.target = p, !.group = g]]
  /\ UNCHANGED <<rq, curr, need_resched, rt_throttled, task>>

(* ... then cpu_cgroup_attach: sched_move_task, or nothing when the task   *)
(* began to exit meanwhile.                                                *)
AttachMove ==
  /\ Resumes("attach")
  /\ LET p == call[curr].target IN
       IF call[p].op = "exit" \/ task[p].state = "DEAD"
       THEN UNCHANGED <<rq, task>>
       ELSE ChangeTask(p, [task[p] EXCEPT !.group = call[curr].group], FALSE)
  /\ Return
  /\ UNCHANGED <<curr, need_resched, rt_throttled>>

-----------------------------------------------------------------------------
(* The timer interrupt.                                                    *)

(* Mutant: the slice is a signed number.                                   *)
decrement_signed(slice) == slice - 1

(* Unsigned decrement.                                                     *)
decrement(slice) == IF slice = 0 THEN UINT_MAX ELSE slice - 1

(* Mutant: both groups are given the slice of the foreground.              *)
refill_same(t) ==
  IF t.group \in {FOREGROUP, BACKGROUP} THEN WRR_FORE_TIMESLICE ELSE 0

(* The slice a task gets when it has used its own up: by cgroup_path; a    *)
(* task of any other group keeps 0.                                        *)
refill(t) ==
  CASE t.group = FOREGROUP -> WRR_FORE_TIMESLICE
    [] t.group = BACKGROUP -> WRR_BACK_TIMESLICE
    [] OTHER -> 0

(* task_tick_wrr                                                           *)
TickWrr ==
  /\ ClassOf(task, curr) = "wrr"
  /\ LET slice == decrement(task[curr].time_slice) IN
       IF task[curr].policy # "WRR"
       THEN UNCHANGED <<rq, task, need_resched>>
       ELSE IF slice # 0
       THEN /\ task' = [task EXCEPT ![curr].time_slice = slice]
            /\ UNCHANGED <<rq, need_resched>>
       ELSE /\ task' = [task EXCEPT ![curr].time_slice = refill(task[curr])]
            /\ IF Len(rq.queue) > 1
               THEN /\ rq' = requeue_task_wrr(rq, curr)
                    /\ need_resched' = TRUE
               ELSE UNCHANGED <<rq, need_resched>>
  /\ UNCHANGED <<curr, rt_throttled, call>>

(* task_tick of the other classes: a throttled real-time task must go, a   *)
(* round robin one may have used up its slice, the fair class decides.     *)
TickOther ==
  /\ ClassOf(task, curr) \in {"rt", "fair"}
  /\ need_resched' \in
       CASE ClassOf(task, curr) = "fair" -> FairDecides
         [] rt_rq_throttled(task, rt_throttled) -> Resched
         [] task[curr].policy = "RR" -> FairDecides
         [] OTHER -> Keep
  /\ UNCHANGED <<rq, curr, rt_throttled, task, call>>

Tick == TickWrr \/ TickOther

(* update_curr_rt finds the budget of the period used up.  It runs at the  *)
(* start of every real-time handler, before the handler changes anything.  *)
RtRuntimeExceeded ==
  /\ ClassOf(task, curr) = "rt"
  /\ rt_throttled' = TRUE
  /\ need_resched' \in ReschedIf(rt_rq_throttled(task, TRUE))
  /\ UNCHANGED <<rq, curr, task, call>>

(* do_sched_rt_period_timer                                                *)
RtPeriodTimer ==
  /\ RtQueued(task) # {} \/ rt_throttled
  /\ rt_throttled' = FALSE
  /\ need_resched' \in
       ReschedIf(\E p \in RtQueued(task) : task[p].prio < PrioOf(task, curr))
  /\ UNCHANGED <<rq, curr, task, call>>

-----------------------------------------------------------------------------
Next ==
  \/ \E s \in SleepStates \cup {"RUNNING"} : SetCurrentState(s)
  \/ Preempt
  \/ ScheduleRunnable
  \/ ScheduleSleep
  \/ \E w \in Tasks : ScheduleWorkerSleep(w)
  \/ Yield
  \/ \E p \in Tasks : Wake(p)
  \/ \E c \in Tasks : SchedFork(c)
  \/ WakeUpNewTask
  \/ ExitCgroup
  \/ ExitSchedule
  \/ \E p \in Tasks, sp \in SchedParams, reset \in ResetFlags :
       SetScheduler(p, sp[1], sp[2], reset)
  \/ \E p \in Tasks, prio \in ParamPrios : SetparamRead(p, prio)
  \/ SetparamReturn
  \/ SetparamRecheck
  \/ SetparamApply
  \/ \E p \in Tasks, nice \in Nices : SetUserNice(p, nice)
  \/ \E p \in Tasks, pi \in PiPrios \cup {MAX_PRIO} : RtMutexAdjustPrio(p, pi)
  \/ \E p \in Tasks, g \in Groups : CanAttach(p, g)
  \/ AttachMove
  \/ Tick
  \/ RtRuntimeExceeded
  \/ RtPeriodTimer

Spec == Init /\ [][Next]_vars

(* The timer keeps interrupting a running task, and a preemptible kernel   *)
(* reschedules on the way out of an interrupt once need_resched is set.    *)
FairSpec == Spec /\ WF_vars(TickWrr) /\ WF_vars(Preempt)

-----------------------------------------------------------------------------
TypeOK ==
  /\ rq \in RqType
  /\ curr \in Tasks \cup {Idle}
  /\ need_resched \in BOOLEAN
  /\ rt_throttled \in BOOLEAN
  /\ task \in [Tasks -> TaskRec]
  /\ call \in [Tasks -> CallRec]

(***************************************************************************)
(* Safety.                                                                 *)
(***************************************************************************)

(* The run queue says of the tasks what the tasks say of themselves: the   *)
(* WRR list holds every runnable WRR task exactly once, and the counters   *)
(* the shortcut of pick_next_task and pick_next_task_wrr rely on are       *)
(* right, whatever sequence of wakeups, policy changes, boosts, group      *)
(* moves, forks and exits led here.                                        *)
RunqueueAgrees ==
  RqAgrees(rq, Queued(task), WrrQueued(task), FairQueued(task))

(* No task is lost: a live task that is running or ready is on the queue,  *)
(* the current task is, a dead or not yet started one is not.              *)
NoTaskLost ==
  /\ curr # Idle => task[curr].on_rq
  /\ \A p \in Tasks :
       /\ task[p].alloc = "live" /\ task[p].state = "RUNNING" => task[p].on_rq
       /\ task[p].on_rq => task[p].alloc = "live" /\ task[p].state # "DEAD"

(* rq->nr_uninterruptible, which the load average reads, is the number of  *)
(* tasks asleep in that state: every deactivate_task that counts one is    *)
(* matched by one activate_task that sees the same state.                  *)
Uninterruptible ==
  {p \in Tasks : /\ task[p].alloc = "live"
                 /\ ~task[p].on_rq
                 /\ task[p].state = "UNINTERRUPTIBLE"}

LoadAgrees == rq.nr_uninterruptible = Cardinality(Uninterruptible)

(* The class of a task fits its policy and its effective priority, through *)
(* forks, boosts and deboosts, renicing and policy changes: only a task    *)
(* with policy SCHED_WRR is in the WRR class (task_tick_wrr accounts no    *)
(* other), and the other two divide the rest by rt_prio.                   *)
ClassFits(t) ==
  /\ t.sched_class = "wrr"  => t.policy = "WRR"
  /\ t.sched_class = "rt"   => rt_prio(t.prio)
  /\ t.sched_class = "fair" => ~rt_prio(t.prio)
  /\ rt_policy(t.policy)    => t.sched_class = "rt"

ClassAgrees == \A p \in Tasks : ClassFits(task[p])

(* A fork in flight: the child is not runnable yet and only its parent is  *)
(* about to wake it, so wake_up_new_task queues it exactly once.           *)
ForkInFlight ==
  \A p \in Tasks : call[p].op = "fork" =>
    /\ task[call[p].target].alloc = "new"
    /\ task[call[p].target].state = "RUNNING"
    /\ \A q \in Tasks :
         call[q].op = "fork" /\ call[q].target = call[p].target => q = p

(* The cached normal_prio is what policy, rt_priority and nice value make. *)
NormalPrioAgrees == \A p \in Tasks : task[p].normal_prio = normal_prio(task[p])

(* The inductive invariant: the run queue agrees with the tasks only       *)
(* because the current task is on it and a child is woken once, and the    *)
(* class fits the priority only because normal_prio is up to date.         *)
IInv ==
  /\ TypeOK
  /\ RunqueueAgrees
  /\ NoTaskLost
  /\ ClassAgrees
  /\ ForkInFlight
  /\ NormalPrioAgrees

(* The owner of a lock a real-time task waits for has at least that        *)
(* task's priority, whatever is done meanwhile to its own policy and nice  *)
(* value.                                                                  *)
BoostHeld ==
  \A p \in Tasks : rt_prio(task[p].pi) => task[p].prio <= task[p].pi

(* The scheduler switches only to a task of the highest class that has one *)
(* to run, and among real-time tasks to one of the highest priority,       *)
(* although it decides by counters.                                        *)
Eligible(p) ==
  /\ p \in Queued(task)
  /\ ~(task[p].sched_class = "rt" /\ rt_rq_throttled(task, rt_throttled))

PicksBest ==
  [][curr' # curr =>
       \A p \in Tasks : Eligible(p)' =>
         \/ ClassRank(ClassOf(task', curr')) < ClassRank(task'[p].sched_class)
         \/ /\ ClassOf(task', curr') = task'[p].sched_class
            /\ task'[p].sched_class = "rt" =>
                 task'[curr'].prio <= task'[p].prio]_vars

(* A step after which a task of a higher class than the current one's is   *)
(* queued, where none was before, asks for a reschedule, unless the        *)
(* current task has policy SCHED_WRR: switched_to_wrr does nothing for a   *)
(* running task that leaves the real-time class, nor, by its policy, for   *)
(* one of the fair class (see WrrTurnAlways).                              *)
Outranked(T, c) ==
  \E p \in Queued(T) \ {c} : ClassRank(T[p].sched_class) < ClassRank(ClassOf(T, c))

PreemptsUnlessWrr ==
  [][/\ curr' = curr
     /\ ~Outranked(task, curr)
     /\ Outranked(task', curr)
     /\ PolicyOf(task', curr) # "WRR"
     => need_resched']_vars

(* What a task of each group may run for in one turn.                      *)
Quota(g) ==
  CASE g = FOREGROUP -> WRR_FORE_TIMESLICE
    [] g = BACKGROUP -> WRR_BACK_TIMESLICE
    [] OTHER -> 0

WithinQuota(t) == t.time_slice \in 1 .. Quota(t.group)

(* A task whose slice is within the quota of its group, and not used up,   *)
(* keeps such a slice: a step takes it neither to 0 nor past the quota,    *)
(* except that a move to another group keeps what was left of the old      *)
(* group's slice.  More than the quota, brought along by a move or by a    *)
(* wrap, is only used up: a step neither adds to it nor takes it to 0.     *)
SliceKeeps(t, u) ==
  /\ WithinQuota(t) =>
       \/ WithinQuota(u)
       \/ u.group # t.group /\ u.time_slice = t.time_slice
  /\ Quota(t.group) > 0 /\ t.time_slice > Quota(t.group) =>
       u.time_slice \in 1 .. t.time_slice

SliceStaysGood ==
  [][\A p \in Tasks :
       task[p].alloc # "free" => SliceKeeps(task[p], task'[p])]_vars

(* sched_setparam changes a priority and never a policy, although it reads *)
(* the policy before it takes the lock.                                    *)
SetparamKeepsPolicy ==
  [][\A c, p \in Tasks :
       call[c].op = "setparam" /\ call'[c].op = "none" /\ call[c].target = p
         => task'[p].policy = task[p].policy]_vars

(***************************************************************************)
(* Liveness.                                                               *)
(***************************************************************************)

(* A WRR task waits while it is queued and another task runs.              *)
Waiting(p) == p \in WrrQueued(task) /\ curr # p

(* The current task has policy SCHED_WRR and yet is in the fair class: a   *)
(* child of a WRR task, or one that was boosted and deboosted.             *)
FairWithWrrPolicy ==
  ClassOf(task, curr) = "fair" /\ PolicyOf(task, curr) = "WRR"

(* Round robin does not starve: a WRR task that waits gets its turn or     *)
(* leaves the class, whatever the others do (fork, sleep, wake, yield,     *)
(* exit, change policy), if there is no real-time task and no task with    *)
(* policy SCHED_WRR ever runs in the fair class.                           *)
WrrTurn ==
  []~FairWithWrrPolicy => \A p \in Tasks : Waiting(p) ~> ~Waiting(p)

-----------------------------------------------------------------------------
(***************************************************************************)
(* What the documentation and the comments say of the code, and the code   *)
(* does not do: Spec violates each of them.  Runs show it of the first     *)
(* two, which are about the WRR class.                                     *)
(***************************************************************************)

(* README.md 3.2.5: a WRR task runs for the slice of its group.            *)
SliceWithinQuota ==
  \A p \in Tasks :
    task[p].sched_class = "wrr" => task[p].time_slice <= WRR_FORE_TIMESLICE

(* README.md 3.5.1: all runnable tasks of a class run before the next      *)
(* class does, so a WRR task does not wait for one of the fair class.      *)
WrrTurnAlways == \A p \in Tasks : Waiting(p) ~> ~Waiting(p)

(* __sched_setscheduler: valid priorities for SCHED_FIFO and SCHED_RR are  *)
(* 1..MAX_USER_RT_PRIO-1.                                                  *)
RtPriorityValid ==
  \A p \in Tasks : rt_policy(task[p].policy) => task[p].rt_priority # 0

(* effective_prio: the priority taken into account by the scheduler is RT  *)
(* if the task got RT-boosted.                                             *)
BoostTakesEffect ==
  \A p \in Tasks : rt_prio(task[p].prio) => task[p].sched_class = "rt"

(* sched_rt_can_attach and __sched_setscheduler: no real-time task in a    *)
(* group that has no runtime assigned.                                     *)
NoRtInEmptyGroup ==
  \A p \in Tasks : rt_policy(task[p].policy) => rt_runtime(task[p].group)
=============================================================================
