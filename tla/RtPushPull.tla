----------------------------- MODULE RtPushPull -----------------------------
(***************************************************************************)
(* Balancing of real-time tasks between CPUs (sched/rt.c under             *)
(* CONFIG_SMP).  Every CPU has a run queue with its own lock.  A CPU with  *)
(* more than one real-time task pushes the waiting ones to CPUs that run   *)
(* less important work, and a CPU about to run less important work pulls   *)
(* tasks that wait elsewhere.  Both hold one run queue lock and need a     *)
(* second: double_lock_balance drops the first on the way, and that is     *)
(* where the steps of this module begin and end.  All of a step happens    *)
(* under the locks it starts by taking.                                    *)
(*                                                                         *)
(* Tasks of the lower classes have the priority MAX_RT_PRIO and wait       *)
(* behind the real-time tasks of their CPU.                                *)
(***************************************************************************)
EXTENDS Lists, FiniteSets, FiniteSetsExt, SequencesExt

CONSTANTS
  N,             \* number of CPUs, 1 .. N
  Tasks,
  Contexts,      \* what wakes tasks and changes their priority and mask
  Idle,          \* the idle task of a CPU
  None,
  MAX_RT_PRIO,
  Prios,         \* the priorities tasks get, smaller is more important
  RT_MAX_TRIES,
  MaxChanges     \* bound: wakeups, sleeps and changes of tasks and CPUs

CPUs == 1 .. N

ASSUME PushPullAssumption ==
  /\ N \in Nat \ {0}
  /\ IsFiniteSet(Tasks)
  /\ Idle \notin Tasks
  /\ MAX_RT_PRIO \in Nat \ {0}
  /\ Prios \subseteq 0 .. MAX_RT_PRIO
  /\ RT_MAX_TRIES \in Nat \ {0}
  /\ MaxChanges \in Nat
  /\ Contexts \cap CPUs = {}

(* None is -1 where a CPU is looked for, CPUPRI_INVALID in cpupri, and     *)
(* NULL for a task: none of them a CPU, a priority or a task.              *)
ASSUME NoneAssumption == None \notin Nat \cup Tasks

VARIABLES
  rq,            \* the run queue of each CPU
  task,          \* cpu, prio, cpus_allowed and on_rq of each task
  rd,            \* the root domain
  work,          \* what a CPU in schedule, or a context, has still to do
  changes,       \* counts towards MaxChanges: not in the code
  unseen         \* what nobody reschedules, pushes or pulls after: a change
                 \* ("demoted", "reach"), or a task that left the CPU while
                 \* prio_changed_rt pulled ("left"): not in the code

vars == <<rq, task, rd, work, changes, unseen>>

(* struct rq and its struct rt_rq: queue holds the tasks of the CPU in the *)
(* order they are picked, pushable the ones that may be pushed; next is    *)
(* rt.highest_prio.next.                                                   *)
RunQueues ==
  [curr : Tasks \cup {Idle}, need_resched : BOOLEAN,
   queue : Seq(Tasks), pushable : Seq(Tasks), next : 0 .. MAX_RT_PRIO,
   rt_nr_migratory : Nat, overloaded : BOOLEAN, online : BOOLEAN,
   post_schedule : BOOLEAN]

(* The part of struct root_domain; cpupri is None for CPUPRI_INVALID.      *)
RootDomains ==
  [rto_mask : SUBSET CPUs, rto_count : Nat,
   cpupri : [CPUs -> 0 .. MAX_RT_PRIO \cup {None}]]

Agents == CPUs \cup Contexts

(* What is left to do once the second lock is there: push p from rq to     *)
(* other, or pull from other to rq; then says what follows, subject is the *)
(* task a system call is about.                                            *)
Work(op, c, t, d, tries, then, subject) ==
  [op |-> op, rq |-> c, task |-> t, other |-> d, tries |-> tries,
   then |-> then, subject |-> subject]

NoWork == Work("none", 1, None, 1, 0, "end", None)

(* The state that the operators below take and return; work is the acting  *)
(* agent's.                                                                *)
Now == [rq |-> rq, task |-> task, rd |-> rd, work |-> NoWork]

Becomes(a, s) ==
  /\ rq' = s.rq
  /\ task' = s.task
  /\ rd' = s.rd
  /\ work' = [work EXCEPT ![a] = s.work]

Init ==
  /\ rq = [c \in CPUs |->
             [curr |-> Idle, need_resched |-> FALSE, queue |-> <<>>,
              pushable |-> <<>>, next |-> MAX_RT_PRIO, rt_nr_migratory |-> 0,
              overloaded |-> FALSE, online |-> TRUE, post_schedule |-> FALSE]]
  /\ task \in [Tasks -> [cpu : {1}, prio : Prios, allowed : {CPUs},
                         on_rq : {FALSE}]]
  /\ rd = [rto_mask |-> {}, rto_count |-> 0,
           cpupri |-> [c \in CPUs |-> MAX_RT_PRIO]]
  /\ work = [a \in Agents |-> NoWork]
  /\ changes = 0
  /\ unseen = {}

-----------------------------------------------------------------------------
prio(s, t) == IF t = Idle THEN MAX_RT_PRIO + 1 ELSE s.task[t].prio

rt_task(s, t) == prio(s, t) < MAX_RT_PRIO

nr_cpus_allowed(s, t) == Cardinality(s.task[t].allowed)

rt_tasks(s, c) == {t \in ToSet(s.rq[c].queue) : rt_task(s, t)}

rt_nr_running(s, c) == Cardinality(rt_tasks(s, c))

highest_prio(s, c) ==
  IF s.rq[c].queue = <<>> THEN MAX_RT_PRIO ELSE prio(s, Head(s.rq[c].queue))

resched_task(s, c) == [s EXCEPT !.rq[c].need_resched = TRUE]

(* A list ordered by priority with t added behind, or before, its equals.  *)
AddTail(s, list, t) ==
  LET before == {i \in DOMAIN list : prio(s, list[i]) <= prio(s, t)}
  IN  InsertAt(list, Cardinality(before) + 1, t)

AddHead(s, list, t) ==
  LET before == {i \in DOMAIN list : prio(s, list[i]) < prio(s, t)}
  IN  InsertAt(list, Cardinality(before) + 1, t)

enqueue_pushable_task(s, c, t) ==
  [s EXCEPT !.rq[c].pushable = AddTail(s, list_del(@, t), t),
            !.rq[c].next = Min({@, prio(s, t)})]

(* Mutant: the best of the others is not looked up.                        *)
dequeue_pushable_keeps(s, c, t) ==
  [s EXCEPT !.rq[c].pushable = list_del(@, t)]

dequeue_pushable_task(s, c, t) ==
  LET left == list_del(s.rq[c].pushable, t)
  IN  [s EXCEPT !.rq[c].pushable = left,
                !.rq[c].next = IF left = <<>> THEN MAX_RT_PRIO
                               ELSE prio(s, Head(left))]

-----------------------------------------------------------------------------
rt_set_overload(s, c) ==
  IF s.rq[c].online
  THEN [s EXCEPT !.rd.rto_mask = @ \cup {c}, !.rd.rto_count = @ + 1]
  ELSE s

rt_clear_overload(s, c) ==
  IF s.rq[c].online
  THEN [s EXCEPT !.rd.rto_mask = @ \ {c}, !.rd.rto_count = @ - 1]
  ELSE s

update_rt_migration(s, c) ==
  LET r == s.rq[c]
      over == r.rt_nr_migratory > 0 /\ rt_nr_running(s, c) > 1
      set == IF over /\ ~r.overloaded THEN rt_set_overload(s, c)
             ELSE IF ~over /\ r.overloaded THEN rt_clear_overload(s, c)
             ELSE s
  IN  [set EXCEPT !.rq[c].overloaded = over]

(* inc_rt_migration and dec_rt_migration, by = 1 and -1.                   *)
count_migration(s, c, t, by) ==
  LET more == IF nr_cpus_allowed(s, t) > 1 THEN by ELSE 0
  IN  update_rt_migration([s EXCEPT !.rq[c].rt_nr_migratory = @ + more], c)

(* inc_rt_prio and dec_rt_prio: the priority of c changed from prev.       *)
tell_cpupri(s, c, prev) ==
  IF s.rq[c].online /\ highest_prio(s, c) # prev
  THEN [s EXCEPT !.rd.cpupri[c] = highest_prio(s, c)]
  ELSE s

(* enqueue_task; the bookkeeping is that of the real-time class.           *)
enqueue_task(s, c, t, head) ==
  LET q == s.rq[c].queue
      queued == [s EXCEPT !.task[t].on_rq = TRUE,
                          !.rq[c].queue = IF head THEN AddHead(s, q, t)
                                          ELSE AddTail(s, q, t)]
      counted == count_migration(tell_cpupri(queued, c, highest_prio(s, c)),
                                 c, t, 1)
  IN  IF ~rt_task(s, t) THEN queued
      ELSE IF s.rq[c].curr # t /\ nr_cpus_allowed(s, t) > 1
      THEN enqueue_pushable_task(counted, c, t)
      ELSE counted

dequeue_task(s, c, t) ==
  LET gone == [s EXCEPT !.task[t].on_rq = FALSE,
                        !.rq[c].queue = list_del(@, t)]
      counted == count_migration(tell_cpupri(gone, c, highest_prio(s, c)),
                                 c, t, -1)
  IN  IF rt_task(s, t) THEN dequeue_pushable_task(counted, c, t) ELSE gone

(* deactivate_task, set_task_cpu and activate_task.                        *)
Move(s, t, c, d) ==
  enqueue_task([dequeue_task(s, c, t) EXCEPT !.task[t].cpu = d], d, t, FALSE)

-----------------------------------------------------------------------------
(* cpupri_find: the CPUs t may use that run the least important work, if   *)
(* that is less important than t.                                          *)
cpupri_find(s, t) ==
  LET usable == {c \in s.task[t].allowed : s.rd.cpupri[c] # None}
  IN  {c \in usable : /\ s.rd.cpupri[c] > prio(s, t)
                      /\ \A d \in usable : s.rd.cpupri[d] <= s.rd.cpupri[c]}

(* find_lowest_rq: the last CPU of t if it is one of them.  Else the       *)
(* topology decides, any choice stands for it.  None is -1.                *)
find_lowest_rq(s, t, choice) ==
  LET lowest_mask == cpupri_find(s, t)
  IN  IF nr_cpus_allowed(s, t) = 1 \/ lowest_mask = {} THEN None
      ELSE IF s.task[t].cpu \in lowest_mask THEN s.task[t].cpu
      ELSE IF choice \in lowest_mask THEN choice
      ELSE Min(lowest_mask)

(* Mutant: that another task was pushed is taken for t.                    *)
switched_to_rt_any(s, c, t, pushed) ==
  IF ~pushed /\ prio(s, t) < prio(s, s.rq[c].curr)
  THEN resched_task(s, c) ELSE s

(* switched_to_rt after its push.                                          *)
switched_to_rt_ends(s, c, t, pushed) ==
  IF ~(pushed /\ s.task[t].cpu # c) /\ prio(s, t) < prio(s, s.rq[c].curr)
  THEN resched_task(s, c) ELSE s

(* push_rt_task returns 0.                                                 *)
NotPushed(s, c, then, subject) ==
  IF then = "switched" THEN switched_to_rt_ends(s, c, subject, FALSE) ELSE s

(* push_rt_task from retry: to the lock of the CPU to push to.             *)
push_rt_task_retry(s, c, t, then, subject, choice) ==
  LET d == find_lowest_rq(s, t, choice)
  IN  IF prio(s, t) < prio(s, s.rq[c].curr)
      THEN NotPushed(resched_task(s, c), c, then, subject)
      ELSE IF d \in {None, c} THEN NotPushed(s, c, then, subject)
      ELSE [s EXCEPT !.work = Work("push", c, t, d, 0, then, subject)]

push_rt_task(s, c, then, subject, choice) ==
  IF ~s.rq[c].overloaded \/ s.rq[c].pushable = <<>>
  THEN NotPushed(s, c, then, subject)
  ELSE push_rt_task_retry(s, c, Head(s.rq[c].pushable), then, subject, choice)

(* find_lock_lowest_rq found nothing: another task, or the end.            *)
push_rt_task_other(s, c, t, then, subject, choice) ==
  LET list == s.rq[c].pushable
  IN  IF list = <<>> \/ (Head(list) = t /\ s.task[t].cpu = c)
      THEN NotPushed(s, c, then, subject)
      ELSE push_rt_task_retry(s, c, Head(list), then, subject, choice)

(* Mutant: the mask of t is not looked at again.                           *)
still_pushable_mask(s, c, t, d) ==
  /\ s.task[t].cpu = c
  /\ s.rq[c].curr # t
  /\ s.task[t].on_rq

(* The test of find_lock_lowest_rq after double_lock_balance has dropped   *)
(* the lock.                                                               *)
still_pushable(s, c, t, d) ==
  /\ s.task[t].cpu = c
  /\ d \in s.task[t].allowed
  /\ s.rq[c].curr # t
  /\ s.task[t].on_rq

(* The push goes on with both locks.  push_rt_tasks pushes another when it *)
(* has pushed one.                                                         *)
push_locked(s, w, choice) ==
  LET c == w.rq
      t == w.task
      d == w.other
      again == find_lowest_rq(s, t, choice)
      moved == resched_task(Move(s, t, c, d), d)
  IN  IF ~still_pushable(s, c, t, d)
      THEN push_rt_task_other(s, c, t, w.then, w.subject, choice)
      ELSE IF highest_prio(s, d) > prio(s, t)
      THEN IF w.then = "switched"
           THEN switched_to_rt_ends(moved, c, w.subject, TRUE)
           ELSE push_rt_task(moved, c, w.then, w.subject, choice)
      ELSE IF w.tries + 1 = RT_MAX_TRIES \/ again \in {None, c}
      THEN push_rt_task_other(s, c, t, w.then, w.subject, choice)
      ELSE [s EXCEPT !.work = Work("push", c, t, again, w.tries + 1,
                                   w.then, w.subject)]

-----------------------------------------------------------------------------
put_prev_task_rt(s, c) ==
  LET p == s.rq[c].curr
  IN  IF /\ p # Idle /\ rt_task(s, p)
         /\ s.task[p].on_rq /\ nr_cpus_allowed(s, p) > 1
      THEN enqueue_pushable_task(s, c, p) ELSE s

(* Mutant: the flag is not cleared.                                        *)
switch_to_again(s, c, next) == [s EXCEPT !.rq[c].curr = next]

switch_to(s, c, next) ==
  [s EXCEPT !.rq[c].curr = next, !.rq[c].need_resched = FALSE]

(* The rest of __schedule after pre_schedule: put_prev_task,               *)
(* pick_next_task and the switch.                                          *)
pick_next_task(s, c) ==
  LET put == put_prev_task_rt(s, c)
      q == put.rq[c].queue
      next == IF q = <<>> THEN Idle ELSE Head(q)
      picked == IF rt_task(s, next) THEN dequeue_pushable_task(put, c, next)
                ELSE put
      post == picked.rq[c].pushable # <<>>
  IN  [switch_to(picked, c, next) EXCEPT
         !.rq[c].post_schedule = post,
         !.work = IF post THEN Work("post", c, None, 1, 0, "loop", None)
                  ELSE NoWork]

(* What follows pull_rt_task: the rest of schedule, of prio_changed_rt, or *)
(* of switched_from_rt, after which switched_to_wrr is called.             *)
Pulled(s, c, then, t) ==
  CASE then = "pick" -> pick_next_task(s, c)
    [] then = "prio" ->
         IF prio(s, t) > highest_prio(s, c) /\ s.rq[c].curr = t
         THEN resched_task(s, c) ELSE s
    [] then = "switched" ->
         IF /\ s.task[t].on_rq /\ s.rq[c].curr # t /\ s.task[t].cpu = c
            /\ prio(s, s.rq[c].curr) # MAX_RT_PRIO
         THEN resched_task(s, c) ELSE s

(* pull_rt_task goes on after CPU i: the next overloaded CPU with a task   *)
(* that is more important than what c has.                                 *)
pull_scan(s, c, i, then, subject) ==
  LET src == {d \in s.rd.rto_mask \ {c} : d > i /\ s.rq[d].next < highest_prio(s, c)}
  IN  IF src = {} THEN Pulled(s, c, then, subject)
      ELSE [s EXCEPT !.work = Work("pull", c, None, Min(src), 0, then, subject)]

pull_rt_task(s, c, then, subject) ==
  IF s.rd.rto_count = 0 THEN Pulled(s, c, then, subject)
  ELSE pull_scan(s, c, 0, then, subject)

(* pick_rt_task                                                            *)
pullable(s, src, t, c) ==
  /\ s.rq[src].curr # t
  /\ c \in s.task[t].allowed
  /\ nr_cpus_allowed(s, t) > 1

(* pick_next_highest_task_rt                                               *)
pick_next_highest_task_rt(s, src, c) ==
  LET q == s.rq[src].queue
      found == {i \in DOMAIN q : rt_task(s, q[i]) /\ pullable(s, src, q[i], c)}
  IN  IF found = {} THEN None ELSE q[Min(found)]

(* p is to be pulled: it preempts what c would run, and does not preempt   *)
(* what its own CPU runs.                                                  *)
preempts(s, c, src, p) ==
  /\ p # None
  /\ prio(s, p) < highest_prio(s, c)
  /\ prio(s, p) >= prio(s, s.rq[src].curr)

(* The pull goes on with both locks.                                       *)
pull_locked(s, w) ==
  LET c == w.rq
      src == w.other
      p == pick_next_highest_task_rt(s, src, c)
      pulls == rt_nr_running(s, src) > 1 /\ preempts(s, c, src, p)
  IN  pull_scan(IF pulls THEN Move(s, p, src, c) ELSE s, c, src,
                w.then, w.subject)

-----------------------------------------------------------------------------
(* check_preempt_curr with check_preempt_curr_rt and                       *)
(* check_preempt_equal_prio.                                               *)
check_preempt_curr(s, c, t) ==
  LET k == s.rq[c].curr
  IN  IF prio(s, t) < prio(s, k) THEN resched_task(s, c)
      ELSE IF /\ rt_task(s, t) /\ prio(s, t) = prio(s, k)
              /\ ~s.rq[c].need_resched
              /\ nr_cpus_allowed(s, k) # 1
              /\ ~(nr_cpus_allowed(s, t) # 1 /\ cpupri_find(s, t) # {})
              /\ cpupri_find(s, k) # {}
      THEN resched_task([s EXCEPT !.rq[c].queue =
                                    AddHead(s, list_del(@, t), t)], c)
      ELSE s

(* Mutant: a task of equal priority is left to wait.                       *)
task_woken_less(s, c, t, choice) ==
  LET k == s.rq[c].curr
  IN  IF /\ rt_task(s, t)
         /\ ~s.rq[c].need_resched
         /\ s.rq[c].pushable # <<>>
         /\ nr_cpus_allowed(s, t) > 1
         /\ k # Idle /\ rt_task(s, k)
         /\ nr_cpus_allowed(s, k) < 2 \/ prio(s, k) < prio(s, t)
      THEN push_rt_task(s, c, "loop", None, choice)
      ELSE s

task_woken_rt(s, c, t, choice) ==
  LET k == s.rq[c].curr
  IN  IF /\ rt_task(s, t)
         /\ k # t
         /\ ~s.rq[c].need_resched
         /\ s.rq[c].pushable # <<>>
         /\ nr_cpus_allowed(s, t) > 1
         /\ k # Idle /\ rt_task(s, k)
         /\ nr_cpus_allowed(s, k) < 2 \/ prio(s, k) <= prio(s, t)
      THEN push_rt_task(s, c, "loop", None, choice)
      ELSE s

(* select_task_rq_rt; curr is read without its lock.  The other classes    *)
(* leave the task where it was.                                            *)
select_task_rq(s, t, choice) ==
  LET c == s.task[t].cpu
      k == s.rq[c].curr
      d == find_lowest_rq(s, t, choice)
  IN  IF /\ rt_task(s, t) /\ nr_cpus_allowed(s, t) > 1
         /\ k # Idle /\ rt_task(s, k)
         /\ nr_cpus_allowed(s, k) < 2 \/ prio(s, k) <= prio(s, t)
         /\ d # None
      THEN d ELSE c

-----------------------------------------------------------------------------
(* Actions.  A context holds the pi_lock of the task it works on.          *)
Change ==
  /\ changes < MaxChanges
  /\ changes' = changes + 1

Busy(t) == \E x \in Contexts : work[x] # NoWork /\ work[x].subject = t

(* __schedule of CPU c, to its end or to the first lock that pull_rt_task  *)
(* needs: the task sleeps ...                                              *)
Schedule(c, s) ==
  LET prev == s.rq[c].curr
  IN  IF prev # Idle /\ rt_task(s, prev) /\ highest_prio(s, c) > prio(s, prev)
      THEN pull_rt_task(s, c, "pick", None)
      ELSE pick_next_task(s, c)

schedule_sleep(c) ==
  /\ work[c] = NoWork
  /\ rq[c].curr # Idle
  /\ Change
  /\ UNCHANGED unseen
  /\ Becomes(c, Schedule(c, dequeue_task(Now, c, rq[c].curr)))

(* ... or is preempted.                                                    *)
schedule_preempt(c) ==
  /\ work[c] = NoWork
  /\ rq[c].need_resched
  /\ Becomes(c, Schedule(c, Now))
  /\ UNCHANGED <<changes, unseen>>

(* post_schedule, if it is still a real-time task that runs.  The CPU is   *)
(* here until the push is over, and the flag read by nobody else.          *)
post_schedule(c, choice) ==
  LET s == [Now EXCEPT !.rq[c].post_schedule = FALSE]
  IN  /\ work[c].op = "post"
      /\ Becomes(c, IF rq[c].curr # Idle /\ rt_task(s, rq[c].curr)
                    THEN push_rt_task(s, c, "loop", None, choice) ELSE s)
      /\ UNCHANGED <<changes, unseen>>

PushLocked(a, choice) ==
  /\ work[a].op = "push"
  /\ Becomes(a, push_locked(Now, work[a], choice))
  /\ UNCHANGED <<changes, unseen>>

PullLocked(a) ==
  /\ work[a].op = "pull"
  /\ Becomes(a, pull_locked(Now, work[a]))
  /\ unseen' = IF work[a].then = "prio" /\ rq[work[a].rq].curr # work[a].subject
               THEN unseen \cup {"left"} ELSE unseen
  /\ UNCHANGED changes

(* try_to_wake_up: once the task has left its CPU, one is selected ...     *)
try_to_wake_up(x, t, choice) ==
  LET c == select_task_rq(Now, t, choice)
  IN  /\ work[x] = NoWork
      /\ ~Busy(t)
      /\ ~task[t].on_rq
      /\ \A d \in CPUs : rq[d].curr # t
      /\ Change
      /\ UNCHANGED unseen
      /\ Becomes(x, [Now EXCEPT !.task[t].cpu = c,
                       !.work = Work("wake", c, None, 1, 0, "loop", t)])

(* ... and its run queue is locked (ttwu_queue, ttwu_do_activate).         *)
ttwu_queue(x, choice) ==
  LET c == work[x].rq
      t == work[x].subject
  IN  /\ work[x].op = "wake"
      /\ Becomes(x, task_woken_rt(
                      check_preempt_curr(enqueue_task(Now, c, t, FALSE), c, t),
                      c, t, choice))
      /\ UNCHANGED <<changes, unseen>>

(* set_cpus_allowed_ptr with set_cpus_allowed_rt, for masks that hold the  *)
(* CPU of the task: nothing needs to be moved.                             *)
set_cpus_allowed(x, t, mask) ==
  LET c == task[t].cpu
      s == [Now EXCEPT !.task[t].allowed = mask]
      was == nr_cpus_allowed(Now, t)
      weight == Cardinality(mask)
      off == IF rq[c].curr # t /\ was > 1
             THEN dequeue_pushable_task(s, c, t) ELSE s
      on == IF rq[c].curr # t /\ weight > 1
            THEN enqueue_pushable_task(off, c, t) ELSE off
      by == IF was <= 1 /\ weight > 1 THEN 1
            ELSE IF was > 1 /\ weight <= 1 THEN -1 ELSE 0
  IN  /\ work[x] = NoWork
      /\ ~Busy(t)
      /\ c \in mask /\ mask # task[t].allowed
      /\ Change
      /\ unseen' = IF task[t].on_rq /\ ~(mask \subseteq task[t].allowed)
                   THEN unseen \cup {"reach"} ELSE unseen
      /\ Becomes(x, IF rt_task(Now, t) /\ task[t].on_rq /\ weight # was
                    THEN update_rt_migration(
                           [on EXCEPT !.rq[c].rt_nr_migratory = @ + by], c)
                    ELSE s)

(* check_class_changed: t had the priority old, and has a new one.         *)
prio_changed_rt(s, c, t, old) ==
  LET k == s.rq[c].curr
  IN  IF k = t
      THEN IF old < prio(s, t) THEN pull_rt_task(s, c, "prio", t)
           ELSE Pulled(s, c, "prio", t)
      ELSE IF prio(s, t) < prio(s, k) THEN resched_task(s, c) ELSE s

check_class_changed(s, c, t, old, choice) ==
  IF rt_task(s, t)
  THEN IF old < MAX_RT_PRIO THEN prio_changed_rt(s, c, t, old)
       ELSE IF s.rq[c].curr = t THEN s
       ELSE IF s.rq[c].overloaded
       THEN push_rt_task(s, c, "switched", t, choice)
       ELSE switched_to_rt_ends(s, c, t, FALSE)
  ELSE IF rt_tasks(s, c) = {} THEN pull_rt_task(s, c, "switched", t)
  ELSE Pulled(s, c, "switched", t)

(* __sched_setscheduler and rt_mutex_setprio: a queued task is taken off   *)
(* and put back with its new priority.                                     *)
set_prio(x, t, new, choice) ==
  LET c == task[t].cpu
      with(s) == [s EXCEPT !.task[t].prio = new]
  IN  /\ work[x] = NoWork
      /\ ~Busy(t)
      /\ new # task[t].prio
      /\ Change
      /\ unseen' = IF ~(rt_task(Now, t) /\ task[t].on_rq) THEN unseen
                   ELSE IF new = MAX_RT_PRIO THEN unseen \cup {"demoted"}
                   ELSE IF rq[c].curr # t THEN unseen \cup {"reach"}
                   ELSE unseen
      /\ Becomes(x, IF task[t].on_rq
                    THEN check_class_changed(
                           enqueue_task(with(dequeue_task(Now, c, t)), c, t,
                                        FALSE),
                           c, t, task[t].prio, choice)
                    ELSE with(Now))

(* set_rq_offline and set_rq_online with rq_offline_rt and rq_online_rt.   *)
set_rq_offline(c) ==
  LET cleared == IF rq[c].overloaded THEN rt_clear_overload(Now, c) ELSE Now
  IN  /\ rq[c].online
      /\ Change
      /\ rd' = [cleared.rd EXCEPT !.cpupri[c] = None]
      /\ rq' = [rq EXCEPT ![c].online = FALSE]
      /\ UNCHANGED <<task, work, unseen>>

set_rq_online(c) ==
  LET on == [Now EXCEPT !.rq[c].online = TRUE]
      set == IF rq[c].overloaded THEN rt_set_overload(on, c) ELSE on
  IN  /\ ~rq[c].online
      /\ rd' = [set.rd EXCEPT !.cpupri[c] = highest_prio(Now, c)]
      /\ rq' = on.rq
      /\ unseen' = unseen \cup {"reach"}
      /\ UNCHANGED <<task, work, changes>>

Progress ==
  \/ \E c \in CPUs :
       \/ schedule_preempt(c)
       \/ \E d \in CPUs : post_schedule(c, d)
       \/ set_rq_online(c)
  \/ \E a \in Agents :
       \/ PullLocked(a)
       \/ \E d \in CPUs : PushLocked(a, d)
  \/ \E x \in Contexts, d \in CPUs : ttwu_queue(x, d)

Disturb ==
  \/ \E c \in CPUs :
       \/ schedule_sleep(c)
       \/ set_rq_offline(c)
  \/ \E x \in Contexts, t \in Tasks :
       \/ \E d \in CPUs : try_to_wake_up(x, t, d)
       \/ \E mask \in SUBSET CPUs : set_cpus_allowed(x, t, mask)
       \/ \E p \in Prios, d \in CPUs : set_prio(x, t, p, d)

Next == Progress \/ Disturb

Spec == Init /\ [][Next]_vars

AtRest(c) == ~rq[c].need_resched /\ work[c] = NoWork

Rest ==
  /\ \A c \in CPUs : AtRest(c) /\ rq[c].online
  /\ \A x \in Contexts : work[x] = NoWork

(* Weak fairness of Progress: its steps are the ones that leave changes    *)
(* alone, and one of them is enabled unless everything is at rest.         *)
FairSpec == Spec /\ ([]<>Rest \/ []<><<UNCHANGED changes>>_vars)

-----------------------------------------------------------------------------
TypeOK ==
  /\ rq \in [CPUs -> RunQueues]
  /\ task \in [Tasks -> [cpu : CPUs, prio : 0 .. MAX_RT_PRIO,
                         allowed : SUBSET CPUs, on_rq : BOOLEAN]]
  /\ rd \in RootDomains
  /\ changes \in 0 .. MaxChanges

(* What pick_next_pushable_task asserts whoever dropped the lock in        *)
(* between: the pushable tasks are the queued real-time tasks that do not  *)
(* run and may move; and the priority that pull_rt_task reads of another   *)
(* run queue without its lock is the best of theirs.                       *)
PushableExact ==
  \A c \in CPUs :
    /\ ToSet(rq[c].pushable) =
         {t \in rt_tasks(Now, c) : rq[c].curr # t /\ nr_cpus_allowed(Now, t) > 1}
    /\ rq[c].next = Min({prio(Now, t) : t \in ToSet(rq[c].pushable)}
                          \cup {MAX_RT_PRIO})

(* What the root domain says of a run queue is so: rto_mask and rto_count  *)
(* name the online CPUs with a real-time task to give away, and cpupri the *)
(* priority of each, through changes of masks and of rq->online.           *)
OverloadExact ==
  /\ \A c \in CPUs :
       /\ rq[c].rt_nr_migratory =
            Cardinality({t \in rt_tasks(Now, c) : nr_cpus_allowed(Now, t) > 1})
       /\ rd.cpupri[c] = IF rq[c].online THEN highest_prio(Now, c) ELSE None
  /\ rd.rto_mask = {c \in CPUs : /\ rq[c].online
                                 /\ rq[c].rt_nr_migratory > 0
                                 /\ rt_nr_running(Now, c) > 1}
  /\ rd.rto_count = Cardinality(rd.rto_mask)

(* The types, and that the summaries CPUs keep of their queues are right.  *)
QueuesInv == TypeOK /\ PushableExact /\ OverloadExact

(* No push or pull moves a task that runs, leaves a task on two queues or  *)
(* none, or puts it on a CPU that its mask excludes by then.               *)
RunsWhereQueued ==
  \A t \in Tasks :
    /\ \A c \in CPUs : rq[c].curr = t => task[t].cpu = c
    /\ task[t].on_rq =>
         /\ task[t].cpu \in task[t].allowed
         /\ \A c \in CPUs : t \in ToSet(rq[c].queue) <=> c = task[t].cpu

(* c is not at work and runs something less important than what waits.     *)
Waits(c) ==
  /\ AtRest(c)
  /\ \A x \in Contexts : work[x] = NoWork
  /\ rq[c].queue # <<>>
  /\ prio(Now, rq[c].curr) > prio(Now, Head(rq[c].queue))

(* A CPU runs the most important task of its queue or is about to          *)
(* reschedule, except after a task has left the real-time class, or has    *)
(* left the CPU while prio_changed_rt was pulling.                         *)
LocalOrder ==
  unseen \cap {"demoted", "left"} = {} => \A c \in CPUs : ~Waits(c)

(* "If there are other RT tasks then we will reschedule"                   *)
(* (switched_from_rt): also when the task left the real-time class.  Spec  *)
(* violates it.                                                            *)
SwitchReschedules ==
  unseen \cap {"left"} = {} => \A c \in CPUs : ~Waits(c)

(* "If there's a higher priority task waiting to run then reschedule"      *)
(* (prio_changed_rt): also when that task has just been pulled.  Spec      *)
(* violates it.                                                            *)
PullReschedules ==
  unseen \cap {"demoted"} = {} => \A c \in CPUs : ~Waits(c)

(* Once all is quiet no task waits that could run in the place of a less   *)
(* important one on another CPU, whatever raced: what the unlocked test of *)
(* pull_rt_task misses is pushed.  For two CPUs, and but for changes after *)
(* which nobody pushes: a wider mask or another priority of a waiting      *)
(* task, a CPU that came online.                                           *)
GlobalOrder ==
  Rest /\ unseen = {} =>
    \A c \in CPUs : \A t \in ToSet(rq[c].pushable) :
      \A d \in task[t].allowed : highest_prio(Now, d) <= prio(Now, t)

(* Pushes, pulls and reschedules come to an end: no two CPUs hand a task   *)
(* back and forth, and no retry goes on for ever.                          *)
Settles == <>[]Rest
=============================================================================
