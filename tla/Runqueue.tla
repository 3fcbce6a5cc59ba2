------------------------------ MODULE Runqueue ------------------------------
(***************************************************************************)
(* The run queue of the one CPU (struct rq, sched/sched.h) as the core     *)
(* scheduler and the classes' enqueue and dequeue methods change it.  The  *)
(* operators are pure: each takes a run queue and returns one, so a        *)
(* handler that dequeues and enqueues a task composes them in the order of *)
(* the C code.                                                             *)
(*                                                                         *)
(* The weighted round robin list is kept in order.  The real-time and the  *)
(* fair class keep their own structures; what the core and the WRR class   *)
(* see of them is which tasks they hold, and the counters.                 *)
(***************************************************************************)
EXTENDS Lists, FiniteSets

CONSTANT Tasks                          \* the task_structs there can be

(***************************************************************************)
(* struct rq: the WRR queue and its counter, the count of runnable tasks,  *)
(* the count the fair class keeps (cfs.h_nr_running), and the number of    *)
(* tasks sleeping uninterruptibly.                                         *)
(***************************************************************************)
RqType == [ queue              : Seq(Tasks),
            wrr_nr_running     : Int,
            nr_running         : Int,
            h_nr_running       : Int,
            nr_uninterruptible : Int ]

EmptyRq == [ queue |-> <<>>, wrr_nr_running |-> 0, nr_running |-> 0,
             h_nr_running |-> 0, nr_uninterruptible |-> 0 ]

(* Mutant: a task is always put in front.                                  *)
enqueue_task_wrr_front(r, p, head) ==
  [r EXCEPT !.queue = list_add(@, p), !.wrr_nr_running = @ + 1,
            !.nr_running = @ + 1]

enqueue_task_wrr(r, p, head) ==
  [r EXCEPT !.queue          = IF head THEN list_add(@, p)
                                       ELSE list_add_tail(@, p),
            !.wrr_nr_running = @ + 1,
            !.nr_running     = @ + 1]

(* Mutant: the counter of the class is not decremented.                    *)
dequeue_task_wrr_leak(r, p) ==
  [r EXCEPT !.queue = list_del(@, p), !.nr_running = @ - 1]

dequeue_task_wrr(r, p) ==
  [r EXCEPT !.queue          = list_del(@, p),
            !.wrr_nr_running = @ - 1,
            !.nr_running     = @ - 1]

(* Mutant: the task that used up its slice stays where it is.              *)
requeue_task_wrr_stays(r, p) == r

requeue_task_wrr(r, p) == [r EXCEPT !.queue = list_move_tail(@, p)]

enqueue_task_rt(r, p) == [r EXCEPT !.nr_running = @ + 1]

dequeue_task_rt(r, p) == [r EXCEPT !.nr_running = @ - 1]

(* fair.c is not part of the repository: only its counters matter here.    *)
enqueue_task_fair(r, p) ==
  [r EXCEPT !.nr_running = @ + 1, !.h_nr_running = @ + 1]

dequeue_task_fair(r, p) ==
  [r EXCEPT !.nr_running = @ - 1, !.h_nr_running = @ - 1]

(* The dispatch through p->sched_class of enqueue_task and dequeue_task.   *)
enqueue_task(r, p, class, head) ==
  CASE class = "wrr"  -> enqueue_task_wrr(r, p, head)
    [] class = "rt"   -> enqueue_task_rt(r, p)
    [] class = "fair" -> enqueue_task_fair(r, p)

dequeue_task(r, p, class) ==
  CASE class = "wrr"  -> dequeue_task_wrr(r, p)
    [] class = "rt"   -> dequeue_task_rt(r, p)
    [] class = "fair" -> dequeue_task_fair(r, p)

(***************************************************************************)
(* What a run queue must say of the tasks on it: S are the runnable tasks, *)
(* W those of them in the WRR class and F those in the fair class.         *)
(***************************************************************************)
RqAgrees(r, S, W, F) ==
  /\ QueueHolds(r.queue, W)
  /\ r.wrr_nr_running = Len(r.queue)
  /\ r.nr_running = Cardinality(S)
  /\ r.h_nr_running = Cardinality(F)
=============================================================================
