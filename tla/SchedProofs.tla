---------------------------- MODULE SchedProofs ----------------------------
(***************************************************************************)
(* The run queue agrees with the tasks, no task is lost and every task is  *)
(* in the class its priority calls for; the load agrees with the tasks, a  *)
(* boost and a slice are kept, the best class is picked and preempts; and  *)
(* the scheduler implements the ring of RoundRobin: for any number of      *)
(* tasks, any slices and any inputs.                                       *)
(***************************************************************************)
EXTENDS SchedRoundRobin, DataProofs

-----------------------------------------------------------------------------
(* What the operations on the run queue do to the agreement between the    *)
(* run queue and the sets of tasks it stands for, for any set of tasks.    *)

(* A run queue is the record of its fields; changing two of them keeps the *)
(* type.                                                                   *)
LEMMA RqFields ==
  ASSUME NEW r \in RqType
  PROVE  r = [ queue |-> r.queue, wrr_nr_running |-> r.wrr_nr_running,
               nr_running |-> r.nr_running, h_nr_running |-> r.h_nr_running,
               nr_uninterruptible |-> r.nr_uninterruptible ]
BY DEF RqType

(* Queueing a task that is not queued, in any class.                       *)
LEMMA EnqueueAgrees ==
  ASSUME NEW r \in RqType, NEW S \in SUBSET Tasks, IsFiniteSet(S),
         NEW W \in SUBSET S, NEW F \in SUBSET S, NEW p \in Tasks, p \notin S,
         NEW class \in {"rt", "wrr", "fair"}, NEW head \in BOOLEAN,
         RqAgrees(r, S, W, F)
  PROVE  /\ enqueue_task(r, p, class, head) \in RqType
         /\ enqueue_task(r, p, class, head).nr_uninterruptible
              = r.nr_uninterruptible
         /\ RqAgrees(enqueue_task(r, p, class, head), S \cup {p},
                     IF class = "wrr" THEN W \cup {p} ELSE W,
                     IF class = "fair" THEN F \cup {p} ELSE F)
<1> DEFINE e == enqueue_task(r, p, class, head)
<1>1. Cardinality(S \cup {p}) = Cardinality(S) + 1
  BY FS_AddElement
<1>2. IsFiniteSet(F) /\ Cardinality(F \cup {p}) = Cardinality(F) + 1
  BY FS_Subset, FS_AddElement
<1>3. /\ r.queue \in Seq(Tasks) /\ QueueHolds(r.queue, W)
      /\ r.wrr_nr_running = Len(r.queue) /\ r.nr_running = Cardinality(S)
      /\ r.h_nr_running = Cardinality(F)
      /\ r.wrr_nr_running \in Int /\ r.nr_running \in Int
      /\ r.h_nr_running \in Int /\ r.nr_uninterruptible \in Int
  BY DEF RqAgrees, RqType
<1>4. CASE class = "wrr"
  <2> DEFINE q == IF head THEN list_add(r.queue, p)
                          ELSE list_add_tail(r.queue, p)
  <2>1. q \in Seq(Tasks) /\ Len(q) = Len(r.queue) + 1 /\ QueueHolds(q, W \cup {p})
    BY <1>3, ListAdd
  <2> HIDE DEF q
  <2>2. e = [r EXCEPT !.queue = q, !.wrr_nr_running = @ + 1, !.nr_running = @ + 1]
    BY <1>4 DEF enqueue_task, enqueue_task_wrr, q
  <2>3. e = [ queue |-> q, wrr_nr_running |-> r.wrr_nr_running + 1,
              nr_running |-> r.nr_running + 1,
              h_nr_running |-> r.h_nr_running,
              nr_uninterruptible |-> r.nr_uninterruptible ]
    BY <2>2, RqFields
  <2>r. e \in RqType
    BY <2>1, <2>3, <1>3 DEF RqType
  <2> HIDE DEF e
  <2>4. RqAgrees(e, S \cup {p}, W \cup {p}, F)
    BY <2>1, <2>3, <1>1, <1>3 DEF RqAgrees
  <2> QED BY <2>r, <2>3, <2>4, <1>4 DEF e
<1>5. CASE class = "rt"
  <2>1. /\ e \in RqType
        /\ e.nr_uninterruptible = r.nr_uninterruptible
        /\ e.queue = r.queue /\ e.wrr_nr_running = r.wrr_nr_running
        /\ e.nr_running = r.nr_running + 1 /\ e.h_nr_running = r.h_nr_running
    BY <1>5, <1>3 DEF RqType, enqueue_task, enqueue_task_rt
  <2> HIDE DEF e
  <2>2. RqAgrees(e, S \cup {p}, W, F)
    BY <2>1, <1>1, <1>3 DEF RqAgrees
  <2> QED BY <2>1, <2>2, <1>5 DEF e
<1>6. CASE class = "fair"
  <2>0. e = [r EXCEPT !.nr_running = @ + 1, !.h_nr_running = @ + 1]
    BY <1>6 DEF enqueue_task, enqueue_task_fair
  <2>1. e = [ queue |-> r.queue, wrr_nr_running |-> r.wrr_nr_running,
              nr_running |-> r.nr_running + 1,
              h_nr_running |-> r.h_nr_running + 1,
              nr_uninterruptible |-> r.nr_uninterruptible ]
    BY <2>0, RqFields
  <2>r. e \in RqType
    BY <2>1, <1>3 DEF RqType
  <2> HIDE DEF e
  <2>2. RqAgrees(e, S \cup {p}, W, F \cup {p})
    BY <2>1, <1>1, <1>2, <1>3 DEF RqAgrees
  <2> QED BY <2>r, <2>1, <2>2, <1>6 DEF e
<1> QED BY <1>4, <1>5, <1>6

(* Taking a queued task off, in the class it is queued in.                 *)
LEMMA DequeueAgrees ==
  ASSUME NEW r \in RqType, NEW S \in SUBSET Tasks, IsFiniteSet(S),
         NEW W \in SUBSET S, NEW F \in SUBSET S, NEW p \in S,
         NEW class \in {"rt", "wrr", "fair"},
         class = "wrr" <=> p \in W, class = "fair" <=> p \in F,
         RqAgrees(r, S, W, F)
  PROVE  /\ dequeue_task(r, p, class) \in RqType
         /\ dequeue_task(r, p, class).nr_uninterruptible
              = r.nr_uninterruptible
         /\ RqAgrees(dequeue_task(r, p, class), S \ {p}, W \ {p}, F \ {p})
<1> DEFINE e == dequeue_task(r, p, class)
<1>1. Cardinality(S \ {p}) = Cardinality(S) - 1
  BY FS_RemoveElement
<1>2. IsFiniteSet(F) /\ (p \in F => Cardinality(F \ {p}) = Cardinality(F) - 1)
  BY FS_Subset, FS_RemoveElement
<1>3. /\ r.queue \in Seq(Tasks) /\ QueueHolds(r.queue, W)
      /\ r.wrr_nr_running = Len(r.queue) /\ r.nr_running = Cardinality(S)
      /\ r.h_nr_running = Cardinality(F)
      /\ r.wrr_nr_running \in Int /\ r.nr_running \in Int
      /\ r.h_nr_running \in Int /\ r.nr_uninterruptible \in Int
  BY DEF RqAgrees, RqType
<1>4. CASE class = "wrr"
  <2> DEFINE q == list_del(r.queue, p)
  <2>1. q \in Seq(Tasks) /\ Len(q) = Len(r.queue) - 1 /\ QueueHolds(q, W \ {p})
    BY <1>3, <1>4, ListDel
  <2> HIDE DEF q
  <2>2. e = [r EXCEPT !.queue = q, !.wrr_nr_running = @ - 1, !.nr_running = @ - 1]
    BY <1>4 DEF dequeue_task, dequeue_task_wrr, q
  <2>3. e = [ queue |-> q, wrr_nr_running |-> r.wrr_nr_running - 1,
              nr_running |-> r.nr_running - 1,
              h_nr_running |-> r.h_nr_running,
              nr_uninterruptible |-> r.nr_uninterruptible ]
    BY <2>2, RqFields
  <2>r. e \in RqType
    BY <2>1, <2>3, <1>3 DEF RqType
  <2> HIDE DEF e
  <2>4. F \ {p} = F
    BY <1>4
  <2>5. RqAgrees(e, S \ {p}, W \ {p}, F \ {p})
    BY <2>1, <2>3, <2>4, <1>1, <1>3 DEF RqAgrees
  <2> QED BY <2>r, <2>3, <2>5 DEF e
<1>5. CASE class = "rt"
  <2>1. /\ e \in RqType
        /\ e.nr_uninterruptible = r.nr_uninterruptible
        /\ e.queue = r.queue /\ e.wrr_nr_running = r.wrr_nr_running
        /\ e.nr_running = r.nr_running - 1 /\ e.h_nr_running = r.h_nr_running
    BY <1>5, <1>3 DEF RqType, dequeue_task, dequeue_task_rt
  <2> HIDE DEF e
  <2>2. W \ {p} = W /\ F \ {p} = F
    BY <1>5
  <2>3. RqAgrees(e, S \ {p}, W \ {p}, F \ {p})
    BY <2>1, <2>2, <1>1, <1>3 DEF RqAgrees
  <2> QED BY <2>1, <2>3 DEF e
<1>6. CASE class = "fair"
  <2>0. e = [r EXCEPT !.nr_running = @ - 1, !.h_nr_running = @ - 1]
    BY <1>6 DEF dequeue_task, dequeue_task_fair
  <2>1. e = [ queue |-> r.queue, wrr_nr_running |-> r.wrr_nr_running,
              nr_running |-> r.nr_running - 1,
              h_nr_running |-> r.h_nr_running - 1,
              nr_uninterruptible |-> r.nr_uninterruptible ]
    BY <2>0, RqFields
  <2>r. e \in RqType
    BY <2>1, <1>3 DEF RqType
  <2> HIDE DEF e
  <2>2. W \ {p} = W
    BY <1>6
  <2>3. RqAgrees(e, S \ {p}, W \ {p}, F \ {p})
    BY <2>1, <2>2, <1>1, <1>2, <1>3, <1>6 DEF RqAgrees
  <2> QED BY <2>r, <2>1, <2>3 DEF e
<1> QED BY <1>4, <1>5, <1>6

(* Moving a queued WRR task to the tail.                                   *)
LEMMA RequeueAgrees ==
  ASSUME NEW r \in RqType, NEW S, NEW W \in SUBSET Tasks, NEW F,
         NEW p \in W, RqAgrees(r, S, W, F)
  PROVE  /\ requeue_task_wrr(r, p) \in RqType
         /\ requeue_task_wrr(r, p).nr_uninterruptible = r.nr_uninterruptible
         /\ RqAgrees(requeue_task_wrr(r, p), S, W, F)
<1> DEFINE q == list_move_tail(r.queue, p)
           e == requeue_task_wrr(r, p)
<1>1. r.queue \in Seq(Tasks) /\ QueueHolds(r.queue, W)
  BY DEF RqAgrees, RqType
<1>2. q \in Seq(Tasks) /\ Len(q) = Len(r.queue) /\ QueueHolds(q, W)
  BY <1>1, ListMoveTail
<1> HIDE DEF q
<1>3. e = [r EXCEPT !.queue = q]
  BY DEF requeue_task_wrr, q
<1>4. /\ e \in RqType /\ e.queue = q
      /\ e.nr_uninterruptible = r.nr_uninterruptible
      /\ e.wrr_nr_running = r.wrr_nr_running
      /\ e.nr_running = r.nr_running /\ e.h_nr_running = r.h_nr_running
  BY <1>2, <1>3 DEF RqType
<1> HIDE DEF e
<1>5. RqAgrees(e, S, W, F)
  BY <1>2, <1>4 DEF RqAgrees
<1> QED BY <1>4, <1>5 DEF e

-----------------------------------------------------------------------------
(* The same three facts with their hypotheses under one name.              *)
RqInv(r, S, W, F) ==
  /\ r \in RqType
  /\ S \in SUBSET Tasks /\ IsFiniteSet(S)
  /\ W \in SUBSET S /\ F \in SUBSET S
  /\ RqAgrees(r, S, W, F)

Joins(X, p, class, c) == IF class = c THEN X \cup {p} ELSE X

IsClassOf(class, p, W, F) ==
  /\ class \in {"rt", "wrr", "fair"}
  /\ class = "wrr" <=> p \in W
  /\ class = "fair" <=> p \in F

(* enqueue_task keeps RqInv when the task joins its class.                 *)
LEMMA EnqueueInv ==
  ASSUME NEW r, NEW S, NEW W, NEW F, RqInv(r, S, W, F),
         NEW p \in Tasks, p \notin S, NEW class \in {"rt", "wrr", "fair"},
         NEW head \in BOOLEAN
  PROVE  RqInv(enqueue_task(r, p, class, head), S \cup {p},
               Joins(W, p, class, "wrr"), Joins(F, p, class, "fair"))
<1>1. /\ r \in RqType /\ S \in SUBSET Tasks /\ IsFiniteSet(S)
      /\ W \in SUBSET S /\ F \in SUBSET S /\ RqAgrees(r, S, W, F)
  BY DEF RqInv
<1>2. /\ enqueue_task(r, p, class, head) \in RqType
      /\ RqAgrees(enqueue_task(r, p, class, head), S \cup {p},
                  Joins(W, p, class, "wrr"), Joins(F, p, class, "fair"))
  BY <1>1, EnqueueAgrees DEF Joins
<1>3. IsFiniteSet(S \cup {p})
  BY <1>1, FS_AddElement
<1> QED BY <1>1, <1>2, <1>3 DEF RqInv, Joins

(* dequeue_task keeps RqInv when the task leaves its class.                *)
LEMMA DequeueInv ==
  ASSUME NEW r, NEW S, NEW W, NEW F, RqInv(r, S, W, F),
         NEW p \in S, NEW class, IsClassOf(class, p, W, F)
  PROVE  RqInv(dequeue_task(r, p, class), S \ {p}, W \ {p}, F \ {p})
<1>1. /\ r \in RqType /\ S \in SUBSET Tasks /\ IsFiniteSet(S)
      /\ W \in SUBSET S /\ F \in SUBSET S /\ RqAgrees(r, S, W, F)
  BY DEF RqInv
<1>2. /\ dequeue_task(r, p, class) \in RqType
      /\ RqAgrees(dequeue_task(r, p, class), S \ {p}, W \ {p}, F \ {p})
  <2>1. /\ class \in {"rt", "wrr", "fair"}
        /\ class = "wrr" <=> p \in W
        /\ class = "fair" <=> p \in F
    BY DEF IsClassOf
  <2> QED BY <1>1, <2>1, DequeueAgrees
<1>3. IsFiniteSet(S \ {p})
  BY <1>1, FS_RemoveElement
<1> QED BY <1>1, <1>2, <1>3 DEF RqInv

(* requeue_task_wrr keeps RqInv.                                           *)
LEMMA RequeueInv ==
  ASSUME NEW r, NEW S, NEW W, NEW F, RqInv(r, S, W, F), NEW p \in W
  PROVE  RqInv(requeue_task_wrr(r, p), S, W, F)
<1>1. /\ r \in RqType /\ W \in SUBSET Tasks /\ RqAgrees(r, S, W, F)
  BY DEF RqInv
<1>2. /\ requeue_task_wrr(r, p) \in RqType
      /\ RqAgrees(requeue_task_wrr(r, p), S, W, F)
  BY <1>1, RequeueAgrees
<1> QED BY <1>2 DEF RqInv

(* The queue plays no part in the count of uninterruptible sleepers.       *)
LEMMA CountInv ==
  ASSUME NEW r, NEW S, NEW W, NEW F, RqInv(r, S, W, F), NEW n \in Int
  PROVE  RqInv([r EXCEPT !.nr_uninterruptible = n], S, W, F)
<1> DEFINE e == [r EXCEPT !.nr_uninterruptible = n]
<1>1. r \in RqType /\ RqAgrees(r, S, W, F)
  BY DEF RqInv
<1>2. /\ e \in RqType /\ e.queue = r.queue
      /\ e.wrr_nr_running = r.wrr_nr_running
      /\ e.nr_running = r.nr_running /\ e.h_nr_running = r.h_nr_running
  BY <1>1 DEF RqType
<1> HIDE DEF e
<1>3. RqAgrees(e, S, W, F)
  BY <1>1, <1>2 DEF RqAgrees
<1> QED BY <1>2, <1>3 DEF RqInv, e

-----------------------------------------------------------------------------
(* A run queue of the right type that agrees with the tasks T.             *)
Agrees(r, T) == RqInv(r, Queued(T), WrrQueued(T), FairQueued(T))

-----------------------------------------------------------------------------
(* The sets are finite and nested, and a task's class says where it is.    *)
LEMMA SetsType ==
  ASSUME NEW T \in [Tasks -> TaskRec]
  PROVE  /\ Queued(T) \in SUBSET Tasks /\ IsFiniteSet(Queued(T))
         /\ WrrQueued(T) \in SUBSET Queued(T)
         /\ FairQueued(T) \in SUBSET Queued(T)
         /\ \A p \in Queued(T) :
              IsClassOf(T[p].sched_class, p, WrrQueued(T), FairQueued(T))
<1>1. IsFiniteSet(Queued(T))
  BY TasksAssumption, FS_Subset DEF Queued
<1>2. \A p \in Tasks : T[p].sched_class \in {"rt", "wrr", "fair"}
  BY DEF TaskRec
<1> QED BY <1>1, <1>2 DEF Queued, WrrQueued, FairQueued, IsClassOf

(* What IInv says of the run queue, and back.                              *)
LEMMA AgreesIff ==
  ASSUME NEW T \in [Tasks -> TaskRec], NEW r
  PROVE  Agrees(r, T) <=>
           /\ r \in RqType
           /\ RqAgrees(r, Queued(T), WrrQueued(T), FairQueued(T))
BY SetsType DEF Agrees, RqInv

(* U is T with t for task p.                                               *)
Changed(p, t, T, U) ==
  /\ U \in [Tasks -> TaskRec]
  /\ U[p] = t
  /\ \A q \in Tasks \ {p} : U[q] = T[q]

(* From T to U only task p may come, go or change its class.               *)
OnlyAt(p, T, U) ==
  /\ U \in [Tasks -> TaskRec]
  /\ \A q \in Tasks \ {p} : /\ U[q].on_rq = T[q].on_rq
                           /\ U[q].sched_class = T[q].sched_class

(* A task comes onto the queue.                                            *)
LEMMA EnqueueTask ==
  ASSUME NEW T \in [Tasks -> TaskRec], NEW r, Agrees(r, T),
         NEW p \in Tasks, ~T[p].on_rq, NEW head \in BOOLEAN,
         NEW U, OnlyAt(p, T, U), U[p].on_rq
  PROVE  Agrees(enqueue_task(r, p, U[p].sched_class, head), U)
<1> DEFINE S == Queued(T)
           W == WrrQueued(T)
           F == FairQueued(T)
           class == U[p].sched_class
<1>1. class \in {"rt", "wrr", "fair"}
  BY DEF TaskRec, OnlyAt
<1>2. p \notin S
  BY DEF Queued
<1>3. RqInv(r, S, W, F)
  BY DEF Agrees
<1>4. Queued(U) = S \cup {p}
  BY DEF Queued, OnlyAt
<1>5. WrrQueued(U) = Joins(W, p, class, "wrr")
  BY DEF WrrQueued, OnlyAt, Joins
<1>6. FairQueued(U) = Joins(F, p, class, "fair")
  BY DEF FairQueued, OnlyAt, Joins
<1> HIDE DEF S, W, F, class
<1>7. RqInv(enqueue_task(r, p, class, head), S \cup {p},
            Joins(W, p, class, "wrr"), Joins(F, p, class, "fair"))
  BY <1>1, <1>2, <1>3, EnqueueInv
<1> QED BY <1>4, <1>5, <1>6, <1>7 DEF Agrees, class

(* A task leaves the queue.                                                *)
LEMMA DequeueTask ==
  ASSUME NEW T \in [Tasks -> TaskRec], NEW r, Agrees(r, T),
         NEW p \in Tasks, T[p].on_rq,
         NEW U, OnlyAt(p, T, U), ~U[p].on_rq
  PROVE  Agrees(dequeue_task(r, p, T[p].sched_class), U)
<1> DEFINE S == Queued(T)
           W == WrrQueued(T)
           F == FairQueued(T)
           class == T[p].sched_class
<1>1. p \in S
  BY DEF Queued
<1>2. IsClassOf(class, p, W, F)
  BY <1>1, SetsType
<1>3. RqInv(r, S, W, F)
  BY DEF Agrees
<1>4. Queued(U) = S \ {p}
  BY DEF Queued, OnlyAt
<1>5. WrrQueued(U) = W \ {p}
  BY DEF WrrQueued, OnlyAt
<1>6. FairQueued(U) = F \ {p}
  BY DEF FairQueued, OnlyAt
<1> HIDE DEF S, W, F, class
<1>7. RqInv(dequeue_task(r, p, class), S \ {p}, W \ {p}, F \ {p})
  BY <1>1, <1>2, <1>3, DequeueInv
<1> QED BY <1>4, <1>5, <1>6, <1>7 DEF Agrees, class

(* A step that moves no task: the run queue stays as it is, or a WRR task  *)
(* goes to the tail.                                                       *)
LEMMA SameSets ==
  ASSUME NEW T \in [Tasks -> TaskRec], NEW r, Agrees(r, T),
         NEW U \in [Tasks -> TaskRec],
         \A q \in Tasks : /\ U[q].on_rq = T[q].on_rq
                          /\ U[q].sched_class = T[q].sched_class
  PROVE  Agrees(r, U)
<1>1. /\ Queued(U) = Queued(T) /\ WrrQueued(U) = WrrQueued(T)
      /\ FairQueued(U) = FairQueued(T)
  BY DEF Queued, WrrQueued, FairQueued
<1> QED BY <1>1 DEF Agrees

(* sched_yield and task_tick_wrr: a queued WRR task goes to the tail.      *)
LEMMA RequeueTask ==
  ASSUME NEW T \in [Tasks -> TaskRec], NEW r, Agrees(r, T),
         NEW p \in Tasks, T[p].on_rq, T[p].sched_class = "wrr"
  PROVE  Agrees(requeue_task_wrr(r, p), T)
<1>1. p \in WrrQueued(T)
  BY DEF WrrQueued
<1> QED BY <1>1, RequeueInv DEF Agrees

(* dequeue_task, a change that keeps on_rq, enqueue_task.                  *)
LEMMA ChangeAgrees ==
  ASSUME NEW T \in [Tasks -> TaskRec], NEW r, Agrees(r, T),
         NEW p \in Tasks, NEW t \in TaskRec, t.on_rq = T[p].on_rq,
         NEW head \in BOOLEAN, NEW U, Changed(p, t, T, U), NEW e,
         e = IF T[p].on_rq
             THEN enqueue_task(dequeue_task(r, p, T[p].sched_class),
                               p, t.sched_class, head)
             ELSE r
  PROVE  Agrees(e, U)
<1> DEFINE off == [T[p] EXCEPT !.on_rq = FALSE]
           M   == [T EXCEPT ![p] = off]
<1>1. off \in TaskRec /\ ~off.on_rq
  BY DEF TaskRec
<1> HIDE DEF off
<1>2. /\ M \in [Tasks -> TaskRec] /\ M[p] = off
      /\ \A q \in Tasks \ {p} : M[q] = T[q]
  BY <1>1
<1> HIDE DEF M
<1>3. /\ U \in [Tasks -> TaskRec] /\ U[p] = t
      /\ \A q \in Tasks \ {p} : U[q] = T[q]
  BY DEF Changed
<1>4. OnlyAt(p, T, M) /\ OnlyAt(p, M, U)
  BY <1>2, <1>3 DEF OnlyAt
<1>5. CASE T[p].on_rq
  <2> DEFINE d == dequeue_task(r, p, T[p].sched_class)
  <2>1. Agrees(d, M)
    <3>1. ~M[p].on_rq
      BY <1>1, <1>2
    <3> QED BY <3>1, <1>4, <1>5, DequeueTask
  <2> HIDE DEF d
  <2>2. Agrees(enqueue_task(d, p, U[p].sched_class, head), U)
    <3>1. ~M[p].on_rq /\ U[p].on_rq
      BY <1>1, <1>2, <1>3, <1>5
    <3> QED BY <3>1, <2>1, <1>2, <1>4, EnqueueTask
  <2>3. e = enqueue_task(d, p, U[p].sched_class, head)
    BY <1>3, <1>5 DEF d
  <2> QED BY <2>2, <2>3
<1>6. CASE ~T[p].on_rq
  <2>1. WrrQueued(U) = WrrQueued(T) /\ FairQueued(U) = FairQueued(T)
        /\ Queued(U) = Queued(T)
    BY <1>3, <1>6 DEF WrrQueued, FairQueued, Queued
  <2>2. e = r
    BY <1>6
  <2> QED BY <2>1, <2>2 DEF Agrees
<1> QED BY <1>5, <1>6

(* activate_task and deactivate_task.                                      *)
LEMMA ActivateAgrees ==
  ASSUME NEW T \in [Tasks -> TaskRec], NEW r, Agrees(r, T),
         NEW p \in Tasks, ~T[p].on_rq,
         NEW U, OnlyAt(p, T, U), U[p].on_rq, U[p].sched_class = T[p].sched_class
  PROVE  Agrees(activate_task(r, p, T[p]), U)
<1> DEFINE e == enqueue_task(r, p, U[p].sched_class, FALSE)
           n == IF task_contributes_to_load(T[p]) THEN e.nr_uninterruptible - 1
                ELSE e.nr_uninterruptible
<1>1. Agrees(e, U)
  BY EnqueueTask
<1>2. activate_task(r, p, T[p]) = [e EXCEPT !.nr_uninterruptible = n]
  BY DEF activate_task
<1> HIDE DEF e
<1>3. e.nr_uninterruptible \in Int
  BY <1>1 DEF Agrees, RqInv, RqType
<1>4. n \in Int
  BY <1>3
<1> HIDE DEF n
<1>5. Agrees([e EXCEPT !.nr_uninterruptible = n], U)
  BY <1>1, <1>4, CountInv DEF Agrees
<1> QED BY <1>2, <1>5

(* deactivate_task takes a queued task off and counts the sleeper.         *)
LEMMA DeactivateAgrees ==
  ASSUME NEW T \in [Tasks -> TaskRec], NEW r, Agrees(r, T),
         NEW p \in Tasks, T[p].on_rq, NEW t, t.sched_class = T[p].sched_class,
         NEW U, OnlyAt(p, T, U), ~U[p].on_rq
  PROVE  Agrees(deactivate_task(r, p, t), U)
<1> DEFINE e == dequeue_task(r, p, T[p].sched_class)
           n == IF task_contributes_to_load(t) THEN e.nr_uninterruptible + 1
                ELSE e.nr_uninterruptible
<1>1. Agrees(e, U)
  BY DequeueTask
<1>2. deactivate_task(r, p, t) = [e EXCEPT !.nr_uninterruptible = n]
  BY DEF deactivate_task
<1> HIDE DEF e
<1>3. e.nr_uninterruptible \in Int
  BY <1>1 DEF Agrees, RqInv, RqType
<1>4. n \in Int
  BY <1>3
<1> HIDE DEF n
<1>5. Agrees([e EXCEPT !.nr_uninterruptible = n], U)
  BY <1>1, <1>4, CountInv DEF Agrees
<1> QED BY <1>2, <1>5

(* The scheduler picks the idle thread or a task that is on the queue: the *)
(* counters it decides by do not mislead it.                               *)
LEMMA PickQueued ==
  ASSUME NEW T \in [Tasks -> TaskRec], NEW r, Agrees(r, T), NEW throttled,
         NEW c \in pick_next_task(r, T, throttled)
  PROVE  c = Idle \/ (c \in Tasks /\ T[c].on_rq)
<1>1. ASSUME c \in pick_next_task_fair(r, T)
      PROVE  c \in Tasks /\ T[c].on_rq
  BY <1>1 DEF pick_next_task_fair, FairQueued
<1>2. ASSUME c \in pick_next_task_rt(T, throttled)
      PROVE  c \in Tasks /\ T[c].on_rq
  BY <1>2 DEF pick_next_task_rt, RtQueued
<1>3. ASSUME c \in pick_next_task_wrr(r)
      PROVE  c \in Tasks /\ T[c].on_rq
  <2>1. /\ r.queue \in Seq(Tasks) /\ r.wrr_nr_running = Len(r.queue)
        /\ { r.queue[i] : i \in DOMAIN r.queue } = WrrQueued(T)
    BY DEF Agrees, RqInv, RqAgrees, QueueHolds, RqType
  <2>2. c = Head(r.queue) /\ Len(r.queue) # 0
    BY <1>3, <2>1 DEF pick_next_task_wrr
  <2>3. 1 \in DOMAIN r.queue /\ Head(r.queue) = r.queue[1]
    BY <2>1, <2>2
  <2>4. c \in WrrQueued(T)
    BY <2>1, <2>2, <2>3
  <2> QED BY <2>4 DEF WrrQueued
<1> QED BY <1>1, <1>2, <1>3 DEF pick_next_task

-----------------------------------------------------------------------------
(* The preemption decisions are truth values.                              *)
LEMMA DecisionType ==
  ASSUME need_resched \in BOOLEAN, NEW T \in [Tasks -> TaskRec],
         NEW p \in Tasks, NEW class, NEW oldprio
  PROVE  /\ check_preempt_curr(T, p) \in SUBSET BOOLEAN
         /\ check_class_changed(T, p, class, oldprio) \in SUBSET BOOLEAN
<1>1. T[p].sched_class \in {"rt", "wrr", "fair"}
  BY DEF TaskRec
<1>2. Keep \in SUBSET BOOLEAN /\ FairDecides \in SUBSET BOOLEAN
      /\ Resched \in SUBSET BOOLEAN
  BY DEF Keep, FairDecides, Resched
<1>3. \A x : ReschedIf(x) \in SUBSET BOOLEAN
  BY <1>2 DEF ReschedIf
<1>4. check_preempt_curr(T, p) \in SUBSET BOOLEAN
  BY <1>1, <1>2, <1>3 DEF check_preempt_curr
<1>5. /\ switched_to_rt(T, p) \in SUBSET BOOLEAN
      /\ switched_to_wrr(T, p) \in SUBSET BOOLEAN
      /\ switched_to_fair(T, p) \in SUBSET BOOLEAN
  BY <1>2, <1>3, <1>4 DEF switched_to_rt, switched_to_wrr, switched_to_fair
<1>6. /\ prio_changed_rt(T, p, oldprio) \in SUBSET BOOLEAN
      /\ prio_changed_fair(T, p, oldprio) \in SUBSET BOOLEAN
  BY <1>2, <1>3, <1>4 DEF prio_changed_rt, prio_changed_fair
<1>7. check_class_changed(T, p, class, oldprio) \in SUBSET BOOLEAN
  BY <1>1, <1>2, <1>5, <1>6 DEF check_class_changed
<1> QED BY <1>4, <1>7

(* What IInv says of one task.                                             *)
TaskGood(t) ==
  /\ t \in TaskRec
  /\ t.alloc = "live" /\ t.state = "RUNNING" => t.on_rq
  /\ t.on_rq => t.alloc = "live" /\ t.state # "DEAD"
  /\ ClassFits(t)
  /\ t.normal_prio = normal_prio(t)

AllGood(T) == T \in [Tasks -> TaskRec] /\ \A p \in Tasks : TaskGood(T[p])

(* A step that changes one task keeps all good if it keeps that one.       *)
LEMMA OneTask ==
  ASSUME NEW T, AllGood(T), NEW p \in Tasks, NEW t, TaskGood(t),
         NEW U, Changed(p, t, T, U)
  PROVE  AllGood(U)
BY DEF AllGood, Changed

(* IInv in the form the proof uses.                                        *)
QueueInv ==
  /\ Agrees(rq, task)
  /\ AllGood(task)
  /\ curr \in Tasks \cup {Idle}
  /\ curr # Idle => task[curr].on_rq

CoreInv ==
  /\ QueueInv
  /\ need_resched \in BOOLEAN
  /\ rt_throttled \in BOOLEAN
  /\ call \in [Tasks -> CallRec]
  /\ ForkInFlight

(* The invariant in the form the proofs use, with opaque parts.            *)
LEMMA CoreInvIff == IInv <=> CoreInv
<1>1. task \in [Tasks -> TaskRec] =>
        (Agrees(rq, task) <=> rq \in RqType /\ RunqueueAgrees)
  BY AgreesIff DEF RunqueueAgrees
<1>2. AllGood(task) => task \in [Tasks -> TaskRec]
  BY DEF AllGood
<1>3. IInv => CoreInv
  BY <1>1 DEF IInv, CoreInv, QueueInv, TypeOK, NoTaskLost, ClassAgrees, NormalPrioAgrees,
              AllGood, TaskGood
<1>4. CoreInv => IInv
  BY <1>1, <1>2 DEF IInv, CoreInv, QueueInv, TypeOK, NoTaskLost, ClassAgrees,
                    NormalPrioAgrees, AllGood, TaskGood
<1> QED BY <1>3, <1>4

-----------------------------------------------------------------------------
(* What the handlers make of one task is again a good task.                *)

(* A change of state by a queued task (set_current_state, wakeup).         *)
LEMMA GoodState ==
  ASSUME NEW t, TaskGood(t)
  PROVE  /\ t.on_rq => \A s \in {"RUNNING", "INTERRUPTIBLE", "UNINTERRUPTIBLE"} :
                        TaskGood([t EXCEPT !.state = s])
         /\ t.alloc = "live" =>
              TaskGood([t EXCEPT !.state = "RUNNING", !.on_rq = TRUE])
         /\ t.alloc = "new" /\ t.state = "RUNNING" =>
              TaskGood([t EXCEPT !.on_rq = TRUE, !.alloc = "live"])
BY DEF TaskGood, TaskRec, ClassFits, normal_prio

(* A task that goes to sleep in __schedule.                                *)
LEMMA GoodSleep ==
  ASSUME NEW t, TaskGood(t), t.state # "RUNNING"
  PROVE  /\ TaskGood(put_to_sleep(t))
         /\ ~put_to_sleep(t).on_rq
         /\ put_to_sleep(t).sched_class = t.sched_class
         /\ put_to_sleep(t).alloc = t.alloc
BY DEF TaskGood, TaskRec, ClassFits, normal_prio, put_to_sleep

(* A task that dies in its last __schedule.                                *)
LEMMA GoodDeath ==
  ASSUME NEW t, TaskGood(t),
         NEW u, u = put_to_sleep([t EXCEPT !.state = "DEAD"])
  PROVE  TaskGood(u) /\ ~u.on_rq /\ u.alloc = t.alloc
BY DEF TaskGood, TaskRec, ClassFits, normal_prio, put_to_sleep

(* Slice, group and top waiter matter to no part of TaskGood.              *)
LEMMA GoodFields ==
  ASSUME NEW t, TaskGood(t)
  PROVE  /\ \A g \in Groups : TaskGood([t EXCEPT !.group = g])
         /\ \A n \in 0 .. UINT_MAX : TaskGood([t EXCEPT !.time_slice = n])
         /\ \A pi \in Prio : TaskGood([t EXCEPT !.pi = pi])
         /\ \A b \in BOOLEAN : TaskGood([t EXCEPT !.reset_on_fork = b])
BY DEF TaskGood, TaskRec, ClassFits, normal_prio

(* sched_fork makes a well-formed child of a well-formed parent.           *)
LEMMA GoodFork ==
  ASSUME NEW t, TaskGood(t), NEW u, u = sched_fork(t)
  PROVE  TaskGood(u) /\ ~u.on_rq /\ u.alloc = "new" /\ u.state = "RUNNING"
<1> USE DEF rt_policy, rt_prio, Prio, SchedPolicies, MAX_RT_PRIO, MAX_PRIO,
            DEFAULT_PRIO
<1>1. t \in TaskRec /\ ClassFits(t) /\ t.normal_prio = normal_prio(t)
  BY DEF TaskGood
<1> DEFINE copy  == [t EXCEPT !.alloc = "new", !.on_rq = FALSE,
                              !.state = "RUNNING", !.prio = t.normal_prio,
                              !.pi = MAX_PRIO]
           base  == IF rt_policy(t.policy)
                    THEN [copy EXCEPT !.policy = "NORMAL", !.rt_priority = 0,
                                      !.static_prio = DEFAULT_PRIO]
                    ELSE IF t.static_prio < DEFAULT_PRIO
                    THEN [copy EXCEPT !.static_prio = DEFAULT_PRIO]
                    ELSE copy
           child == IF t.reset_on_fork
                    THEN [base EXCEPT !.prio = base.static_prio,
                                      !.normal_prio = base.static_prio,
                                      !.reset_on_fork = FALSE]
                    ELSE copy
           Starts(c) == /\ c \in TaskRec
                        /\ ~c.on_rq /\ c.alloc = "new" /\ c.state = "RUNNING"
<1>2. u = IF rt_prio(child.prio) THEN child
          ELSE [child EXCEPT !.sched_class = "fair"]
  BY DEF sched_fork
<1>3. /\ Starts(copy) /\ copy.policy = t.policy /\ copy.prio = t.normal_prio
      /\ copy.normal_prio = t.normal_prio /\ copy.sched_class = t.sched_class
      /\ copy.static_prio = t.static_prio /\ copy.rt_priority = t.rt_priority
  <2>1. t.normal_prio \in Prio /\ MAX_PRIO \in Prio
    BY <1>1 DEF TaskRec
  <2> HIDE DEF Prio, SchedPolicies, MAX_RT_PRIO, MAX_PRIO
  <2> QED BY <1>1, <2>1 DEF TaskRec
<1> HIDE DEF copy
<1>4. Starts(base) /\ ~rt_policy(base.policy)
  <2>1. CASE rt_policy(t.policy)
    <3>1. /\ "NORMAL" \in SchedPolicies /\ 0 \in 0 .. MAX_RT_PRIO - 1
          /\ DEFAULT_PRIO \in MAX_RT_PRIO .. MAX_PRIO - 1
      OBVIOUS
    <3>2. base = [copy EXCEPT !.policy = "NORMAL", !.rt_priority = 0,
                              !.static_prio = DEFAULT_PRIO]
      BY <2>1
    <3> HIDE DEF base, Prio, SchedPolicies, MAX_RT_PRIO, MAX_PRIO, DEFAULT_PRIO
    <3> QED BY <1>3, <3>1, <3>2 DEF TaskRec
  <2>2. CASE ~rt_policy(t.policy)
    BY <1>3, <2>2 DEF TaskRec
  <2> QED BY <2>1, <2>2
<1> HIDE DEF base
<1>5. /\ Starts(child) /\ child.normal_prio = normal_prio(child)
      /\ child.prio = child.normal_prio
      /\ rt_prio(child.prio) => rt_policy(child.policy) /\ child.sched_class = "rt"
  <2>1. CASE t.reset_on_fork
    <3> DEFINE sp == base.static_prio
    <3>1. sp \in Prio /\ ~rt_prio(sp)
      BY <1>4 DEF TaskRec
    <3>2. child = [base EXCEPT !.prio = sp, !.normal_prio = sp,
                               !.reset_on_fork = FALSE]
      BY <2>1
    <3> HIDE DEF sp, child, Prio, SchedPolicies, MAX_RT_PRIO, MAX_PRIO,
                 rt_prio, rt_policy
    <3>3. /\ Starts(child) /\ child.prio = sp /\ child.normal_prio = sp
          /\ child.policy = base.policy /\ child.static_prio = base.static_prio
      BY <1>4, <3>1, <3>2 DEF TaskRec
    <3> QED BY <1>4, <3>1, <3>3 DEF normal_prio, sp
  <2>2. CASE ~t.reset_on_fork
    BY <1>1, <1>3, <2>2 DEF TaskRec, normal_prio, ClassFits
  <2> QED BY <2>1, <2>2
<1> HIDE DEF child
<1>6. CASE rt_prio(child.prio)
  BY <1>2, <1>5, <1>6 DEF TaskGood, ClassFits
<1>7. CASE ~rt_prio(child.prio)
  <2>1. u = [child EXCEPT !.sched_class = "fair"]
    BY <1>2, <1>7
  <2>2. /\ Starts(u) /\ u.sched_class = "fair" /\ u.prio = child.prio
        /\ u.policy = child.policy /\ u.normal_prio = child.normal_prio
        /\ u.rt_priority = child.rt_priority /\ u.static_prio = child.static_prio
    BY <1>5, <2>1 DEF TaskRec
  <2>3. u.normal_prio = normal_prio(u) /\ ~rt_policy(u.policy)
    BY <1>5, <1>7, <2>2 DEF normal_prio, TaskRec
  <2> QED BY <1>7, <2>2, <2>3 DEF TaskGood, ClassFits
<1> QED BY <1>6, <1>7

(* __setscheduler leaves class, policy and priority consistent.            *)
LEMMA GoodSetscheduler ==
  ASSUME NEW t, TaskGood(t), NEW policy \in SchedPolicies,
         NEW prio \in 0 .. MAX_RT_PRIO - 1,
         NEW u, u = do_setscheduler(t, policy, prio)
  PROVE  TaskGood(u) /\ u.on_rq = t.on_rq /\ u.alloc = t.alloc /\ u.state = t.state
<1> USE DEF rt_policy, rt_prio, Prio, SchedPolicies, MAX_RT_PRIO, MAX_PRIO,
            rt_mutex_getprio, normal_prio
<1>1. t \in TaskRec
  BY DEF TaskGood
<1>2. u \in TaskRec
  <2> DEFINE set    == [t EXCEPT !.policy = policy, !.rt_priority = prio]
             normal == [set EXCEPT !.normal_prio = normal_prio(set)]
             eff    == rt_mutex_getprio(normal)
             class  == IF policy = "WRR" THEN "wrr"
                       ELSE IF rt_prio(eff) THEN "rt" ELSE "fair"
  <2>1. u = [normal EXCEPT !.prio = eff, !.sched_class = class]
    BY DEF do_setscheduler
  <2>2. set \in TaskRec
    BY <1>1 DEF TaskRec
  <2> HIDE DEF set
  <2>3. normal_prio(set) \in Prio
    BY <2>2 DEF TaskRec
  <2>4. normal \in TaskRec
    BY <2>2, <2>3 DEF TaskRec
  <2> HIDE DEF normal
  <2>5. eff \in Prio /\ class \in {"rt", "wrr", "fair"}
    BY <2>4 DEF TaskRec
  <2> HIDE DEF eff, class, Prio, SchedPolicies, MAX_RT_PRIO, MAX_PRIO
  <2> QED BY <2>1, <2>4, <2>5 DEF TaskRec
<1>3. u.on_rq = t.on_rq /\ u.alloc = t.alloc /\ u.state = t.state
  BY <1>1 DEF do_setscheduler, TaskRec
<1>4. u.normal_prio = normal_prio(u)
  BY <1>1 DEF do_setscheduler, TaskRec
<1>5. ClassFits(u)
  BY <1>1 DEF do_setscheduler, TaskRec, ClassFits
<1> QED BY <1>2, <1>3, <1>4, <1>5 DEF TaskGood

(* The two steps of set_user_nice.                                         *)
WithNice(t, nice) == [t EXCEPT !.static_prio = NICE_TO_PRIO(nice)]

WithPrio(t) ==
  [t EXCEPT !.normal_prio = normal_prio(t), !.prio = effective_prio(t)]

(* set_user_nice of a real-time task changes its nice value only.          *)
LEMMA GoodNiceRt ==
  ASSUME NEW t, TaskGood(t), rt_policy(t.policy), NEW nice \in -20 .. 19,
         NEW u, u = WithNice(t, nice)
  PROVE  TaskGood(u)
<1> USE DEF rt_policy, rt_prio, Prio, SchedPolicies, MAX_RT_PRIO, MAX_PRIO,
            NICE_TO_PRIO, normal_prio, WithNice
<1>1. t \in TaskRec
  BY DEF TaskGood
<1>2. u \in TaskRec
  BY <1>1 DEF TaskRec
<1>3. /\ u.on_rq = t.on_rq /\ u.alloc = t.alloc /\ u.state = t.state
      /\ u.policy = t.policy /\ u.rt_priority = t.rt_priority /\ u.prio = t.prio
      /\ u.sched_class = t.sched_class /\ u.normal_prio = t.normal_prio
  BY <1>1 DEF TaskRec
<1> QED BY <1>2, <1>3 DEF TaskGood, ClassFits

(* set_user_nice of any other task.                                        *)
LEMMA GoodNice ==
  ASSUME NEW t, TaskGood(t), ~rt_policy(t.policy), NEW nice \in -20 .. 19,
         NEW v, v = WithPrio(WithNice(t, nice))
  PROVE  TaskGood(v) /\ v.on_rq = t.on_rq /\ v.alloc = t.alloc /\ v.state = t.state
<1> USE DEF rt_policy, rt_prio, Prio, SchedPolicies, MAX_RT_PRIO, MAX_PRIO,
            NICE_TO_PRIO, normal_prio, WithNice, WithPrio
<1> DEFINE u == WithNice(t, nice)
<1>1. t \in TaskRec /\ ClassFits(t)
  BY DEF TaskGood
<1>2. u \in TaskRec
  BY <1>1 DEF TaskRec
<1>3. /\ u.on_rq = t.on_rq /\ u.alloc = t.alloc /\ u.state = t.state
      /\ u.policy = t.policy /\ u.prio = t.prio
      /\ u.sched_class = t.sched_class
  BY <1>1 DEF TaskRec
<1>4. normal_prio(u) \in Prio /\ effective_prio(u) \in Prio
  BY <1>2 DEF TaskRec, effective_prio
<1>5. v = [u EXCEPT !.normal_prio = normal_prio(u), !.prio = effective_prio(u)]
  OBVIOUS
<1> HIDE DEF u
<1>6. v \in TaskRec
  <2> DEFINE n == normal_prio(u)
             e == effective_prio(u)
  <2>1. n \in Prio /\ e \in Prio /\ v = [u EXCEPT !.normal_prio = n, !.prio = e]
    BY <1>4, <1>5
  <2> HIDE DEF n, e, Prio, SchedPolicies, MAX_RT_PRIO, MAX_PRIO
  <2> QED BY <1>2, <2>1 DEF TaskRec
<1>7. /\ v.on_rq = u.on_rq /\ v.alloc = u.alloc /\ v.state = u.state
      /\ v.policy = u.policy /\ v.rt_priority = u.rt_priority
      /\ v.sched_class = u.sched_class /\ v.static_prio = u.static_prio
      /\ v.normal_prio = normal_prio(u) /\ v.prio = effective_prio(u)
  BY <1>2, <1>5 DEF TaskRec
<1>8. ClassFits(v)
  BY <1>1, <1>2, <1>3, <1>7 DEF TaskRec, effective_prio, ClassFits
<1>9. v.normal_prio = normal_prio(v)
  BY <1>7
<1> QED BY <1>3, <1>6, <1>7, <1>8, <1>9 DEF TaskGood

(* rt_mutex_setprio: boosting and deboosting.                              *)
LEMMA GoodSetprio ==
  ASSUME NEW t, TaskGood(t), NEW prio, prio = rt_mutex_getprio(t),
         NEW u, u = setprio(t, prio)
  PROVE  TaskGood(u) /\ u.on_rq = t.on_rq /\ u.alloc = t.alloc /\ u.state = t.state
<1> USE DEF rt_policy, rt_prio, Prio, SchedPolicies, MAX_RT_PRIO, MAX_PRIO,
            rt_mutex_getprio, normal_prio
<1>1. t \in TaskRec /\ t.normal_prio = normal_prio(t)
  BY DEF TaskGood
<1>2. u \in TaskRec
  <2> DEFINE class == IF rt_prio(prio) THEN "rt" ELSE "fair"
  <2>1. prio \in Prio /\ class \in {"rt", "wrr", "fair"}
    BY <1>1 DEF TaskRec
  <2>2. u = [t EXCEPT !.prio = prio, !.sched_class = class]
    BY DEF setprio
  <2> HIDE DEF class
  <2> QED BY <1>1, <2>1, <2>2 DEF TaskRec
<1>3. u.on_rq = t.on_rq /\ u.alloc = t.alloc /\ u.state = t.state
  BY <1>1 DEF setprio, TaskRec
<1>4. u.normal_prio = normal_prio(u)
  BY <1>1 DEF setprio, TaskRec
<1>5. ClassFits(u)
  BY <1>1 DEF setprio, TaskRec, ClassFits
<1> QED BY <1>2, <1>3, <1>4, <1>5 DEF TaskGood

-----------------------------------------------------------------------------
(* Steps the actions share.                                                *)

(* A forked task that has not been woken stays as sched_fork left it.      *)
KeepsNew ==
  \A p \in Tasks : task[p].alloc = "new" =>
    task'[p].alloc = "new" /\ task'[p].state = task[p].state

(* A step that touches no child in flight keeps ForkInFlight.              *)
LEMMA ForkKept ==
  ASSUME ForkInFlight, call \in [Tasks -> CallRec], KeepsNew,
         \A p \in Tasks : call'[p].op = "fork" => call'[p] = call[p]
  PROVE  ForkInFlight'
<1>1. \A p \in Tasks : call[p].target \in Tasks
  BY DEF CallRec
<1> QED BY <1>1 DEF ForkInFlight, KeepsNew

(* A call of one task changes, and is not a fork.                          *)
LEMMA CallStep ==
  ASSUME call \in [Tasks -> CallRec], NEW p \in Tasks, NEW c \in CallRec,
         c.op # "fork", call' = [call EXCEPT ![p] = c]
  PROVE  /\ call' \in [Tasks -> CallRec]
         /\ \A q \in Tasks : call'[q].op = "fork" => call'[q] = call[q]
OBVIOUS

(* The record of a task that is inside no call.                            *)
LEMMA NoCallType == NoCall \in CallRec /\ NoCall.op = "none"
BY TasksAssumption, InputAssumption
   DEF NoCall, CallRec, SchedPolicies, MAX_RT_PRIO

(* One task changes where it is: on or off the queue as before.            *)
LEMMA ChangeStep ==
  ASSUME QueueInv, NEW p \in Tasks, NEW t, TaskGood(t),
         t.on_rq = task[p].on_rq, t.alloc = task[p].alloc,
         t.state = task[p].state, NEW head \in BOOLEAN,
         ChangeTask(p, t, head), curr' = curr
  PROVE  QueueInv' /\ KeepsNew
<1>1. task \in [Tasks -> TaskRec] /\ t \in TaskRec
  BY DEF QueueInv, AllGood, TaskGood
<1>2. Changed(p, t, task, task')
  BY <1>1 DEF Changed, ChangeTask
<1>3. AllGood(task')
  BY <1>2, OneTask DEF QueueInv
<1>4. Agrees(rq', task')
  <2> DEFINE e == IF task[p].on_rq
                  THEN enqueue_task(dequeue_task(rq, p, task[p].sched_class),
                                    p, t.sched_class, head)
                  ELSE rq
  <2>1. rq' = e
    BY DEF ChangeTask
  <2>2. Agrees(rq, task)
    BY DEF QueueInv
  <2>3. Agrees(e, task')
    BY <1>1, <1>2, <2>2, ChangeAgrees
  <2> QED BY <2>1, <2>3
<1>5. curr' \in Tasks \cup {Idle} /\ (curr' # Idle => task'[curr'].on_rq)
  BY <1>2 DEF QueueInv, Changed
<1>6. KeepsNew
  BY <1>2 DEF KeepsNew, Changed
<1> QED BY <1>3, <1>4, <1>5, <1>6 DEF QueueInv

(* One task changes what the queue does not depend on.                     *)
LEMMA FieldStep ==
  ASSUME QueueInv, NEW p \in Tasks, NEW t, TaskGood(t),
         t.on_rq = task[p].on_rq, t.sched_class = task[p].sched_class,
         task' = [task EXCEPT ![p] = t], rq' = rq, curr' = curr
  PROVE  /\ QueueInv'
         /\ t.alloc = task[p].alloc /\ (t.alloc = "new" => t.state = task[p].state)
              => KeepsNew
<1>1. task \in [Tasks -> TaskRec]
  BY DEF QueueInv, AllGood
<1>2. Changed(p, t, task, task')
  BY <1>1 DEF Changed, TaskGood
<1>3. /\ AllGood(task') /\ task'[p] = t
      /\ \A q \in Tasks \ {p} : task'[q] = task[q]
  BY <1>2, OneTask DEF QueueInv, Changed
<1>4. Agrees(rq', task')
  <2>1. task' \in [Tasks -> TaskRec]
    BY <1>3 DEF AllGood
  <2>2. \A q \in Tasks : /\ task'[q].on_rq = task[q].on_rq
                         /\ task'[q].sched_class = task[q].sched_class
    BY <1>3
  <2>3. Agrees(rq, task')
    BY <1>1, <2>1, <2>2, SameSets DEF QueueInv
  <2> QED BY <2>3
<1>5. curr' \in Tasks \cup {Idle} /\ (curr' # Idle => task'[curr'].on_rq)
  BY <1>3 DEF QueueInv
<1>6. t.alloc = task[p].alloc /\ (t.alloc = "new" => t.state = task[p].state)
        => KeepsNew
  BY <1>3 DEF KeepsNew
<1> QED BY <1>3, <1>4, <1>5, <1>6 DEF QueueInv

(* The tail of __schedule picks a task that is queued.                     *)
LEMMA SwitchStep ==
  ASSUME NEW r, NEW U, Agrees(r, U), AllGood(U), SwitchTo(r, U)
  PROVE  QueueInv' /\ need_resched' \in BOOLEAN
<1>1. /\ rq' = r /\ task' = U /\ need_resched' = FALSE
      /\ curr' \in pick_next_task(r, U, rt_throttled)
  BY DEF SwitchTo
<1>2. curr' = Idle \/ (curr' \in Tasks /\ U[curr'].on_rq)
  BY <1>1, PickQueued DEF AllGood
<1> QED BY <1>1, <1>2 DEF QueueInv

(* The part of __sched_setscheduler that changes the task.                 *)
LEMMA ApplyStep ==
  ASSUME QueueInv, need_resched \in BOOLEAN, NEW p \in Tasks,
         NEW policy \in SchedPolicies, NEW prio \in 0 .. MAX_RT_PRIO - 1,
         NEW reset \in BOOLEAN, ApplyScheduler(p, policy, prio, reset),
         curr' = curr
  PROVE  QueueInv' /\ KeepsNew /\ need_resched' \in BOOLEAN
<1> DEFINE old == [task[p] EXCEPT !.reset_on_fork = reset]
           new == do_setscheduler(old, policy, prio)
<1>1. task \in [Tasks -> TaskRec] /\ TaskGood(task[p])
  BY DEF QueueInv, AllGood
<1>2. TaskGood(old)
  BY <1>1, GoodFields
<1>3. /\ old.on_rq = task[p].on_rq /\ old.alloc = task[p].alloc
      /\ old.state = task[p].state
  BY <1>1 DEF TaskRec
<1>4. /\ ChangeTask(p, new, FALSE)
      /\ need_resched' \in check_class_changed(task', p, task[p].sched_class,
                                               task[p].prio)
  BY DEF ApplyScheduler
<1> HIDE DEF old
<1>5. /\ TaskGood(new) /\ new.on_rq = old.on_rq /\ new.alloc = old.alloc
      /\ new.state = old.state
  BY <1>2, GoodSetscheduler
<1> HIDE DEF new
<1>6. QueueInv' /\ KeepsNew
  BY <1>3, <1>4, <1>5, ChangeStep
<1>7. check_class_changed(task', p, task[p].sched_class, task[p].prio)
        \in SUBSET BOOLEAN
  BY <1>6, DecisionType DEF QueueInv, AllGood
<1> QED BY <1>4, <1>6, <1>7

-----------------------------------------------------------------------------
(* Every step keeps the invariant.                                         *)
LEMMA Inductive == CoreInv /\ [Next]_vars => CoreInv'
<1> SUFFICES ASSUME CoreInv, [Next]_vars PROVE CoreInv'
  OBVIOUS
<1>1. /\ QueueInv /\ need_resched \in BOOLEAN /\ rt_throttled \in BOOLEAN
      /\ call \in [Tasks -> CallRec] /\ ForkInFlight
  BY DEF CoreInv
<1>2. /\ Agrees(rq, task) /\ AllGood(task) /\ task \in [Tasks -> TaskRec]
      /\ curr \in Tasks \cup {Idle} /\ \A p \in Tasks : TaskGood(task[p])
      /\ curr # Idle => curr \in Tasks /\ task[curr].on_rq
  BY <1>1 DEF QueueInv, AllGood
<1>3. ASSUME QueueInv', KeepsNew, UNCHANGED <<rt_throttled, call>>,
             need_resched' \in BOOLEAN
      PROVE  CoreInv'
  BY <1>1, <1>3, ForkKept DEF CoreInv
<1>4. ASSUME NEW s \in SleepStates \cup {"RUNNING"}, SetCurrentState(s)
      PROVE  CoreInv'
  <2> DEFINE t == [task[curr] EXCEPT !.state = s]
  <2>1. curr \in Tasks /\ task[curr].on_rq /\ task[curr].alloc = "live"
    BY <1>2, <1>4 DEF SetCurrentState, TaskGood
  <2>2. s \in {"RUNNING", "INTERRUPTIBLE", "UNINTERRUPTIBLE"}
    BY InputAssumption
  <2>3. TaskGood(t)
    BY <1>2, <2>1, <2>2, GoodState
  <2>4. /\ t.on_rq = task[curr].on_rq /\ t.sched_class = task[curr].sched_class
        /\ t.alloc = task[curr].alloc
    BY <1>2, <2>1 DEF TaskRec
  <2>5. task' = [task EXCEPT ![curr] = t] /\ UNCHANGED <<rq, curr>>
    BY <1>4 DEF SetCurrentState
  <2> HIDE DEF t
  <2>6. QueueInv' /\ KeepsNew
    BY <1>1, <2>1, <2>3, <2>4, <2>5, FieldStep
  <2> QED BY <1>1, <1>3, <1>4, <2>6 DEF SetCurrentState
<1>5. ASSUME Preempt PROVE CoreInv'
  <2>1. SwitchTo(rq, task) /\ UNCHANGED <<rt_throttled, call>>
    BY <1>5 DEF Preempt
  <2>2. QueueInv' /\ need_resched' \in BOOLEAN
    BY <1>2, <2>1, SwitchStep
  <2>3. KeepsNew
    BY <2>1 DEF SwitchTo, KeepsNew
  <2> QED BY <1>3, <2>1, <2>2, <2>3
<1>6. ASSUME ScheduleRunnable PROVE CoreInv'
  <2> DEFINE t == [task[curr] EXCEPT !.state = "RUNNING"]
             U == [task EXCEPT ![curr] = t]
  <2>1. curr \in Tasks /\ task[curr].on_rq /\ task[curr].alloc = "live"
    BY <1>2, <1>6 DEF ScheduleRunnable, TaskGood
  <2>2. TaskGood(t)
    BY <1>2, <2>1, GoodState
  <2>3. /\ t.on_rq = task[curr].on_rq /\ t.sched_class = task[curr].sched_class
        /\ t.alloc = task[curr].alloc /\ t \in TaskRec
    BY <1>2, <2>1 DEF TaskRec
  <2>4. SwitchTo(rq, U) /\ UNCHANGED <<rt_throttled, call>>
    BY <1>6 DEF ScheduleRunnable
  <2> HIDE DEF t
  <2>5. Changed(curr, t, task, U)
    BY <1>2, <2>1, <2>3 DEF Changed
  <2> HIDE DEF U
  <2>6. AllGood(U)
    BY <1>2, <2>1, <2>2, <2>5, OneTask
  <2>7. Agrees(rq, U)
    BY <1>2, <2>3, <2>5, SameSets DEF Changed
  <2>8. QueueInv' /\ need_resched' \in BOOLEAN
    BY <2>4, <2>6, <2>7, SwitchStep
  <2>9. KeepsNew
    BY <2>1, <2>4, <2>5 DEF SwitchTo, KeepsNew, Changed
  <2> QED BY <1>3, <2>4, <2>8, <2>9
<1>7. ASSUME ScheduleSleep PROVE CoreInv'
  <2> DEFINE t == put_to_sleep(task[curr])
             U == [task EXCEPT ![curr] = t]
             r == deactivate_task(rq, curr, task[curr])
  <2>1. /\ curr \in Tasks /\ task[curr].on_rq /\ task[curr].alloc = "live"
        /\ task[curr].state # "RUNNING"
    BY <1>2, <1>7 DEF ScheduleSleep, TaskGood
  <2>2. TaskGood(t) /\ ~t.on_rq
    BY <1>2, <2>1, GoodSleep
  <2>3. SwitchTo(r, U) /\ UNCHANGED <<rt_throttled, call>>
    BY <1>7 DEF ScheduleSleep
  <2> HIDE DEF t
  <2>4. Changed(curr, t, task, U)
    BY <1>2, <2>1, <2>2 DEF Changed, TaskGood
  <2> HIDE DEF U
  <2>5. AllGood(U)
    BY <1>2, <2>1, <2>2, <2>4, OneTask
  <2>6. Agrees(r, U)
    <3>1. OnlyAt(curr, task, U) /\ ~U[curr].on_rq
      BY <2>2, <2>4 DEF OnlyAt, Changed
    <3> QED BY <1>2, <2>1, <3>1, DeactivateAgrees
  <2> HIDE DEF r
  <2>7. QueueInv' /\ need_resched' \in BOOLEAN
    BY <2>3, <2>5, <2>6, SwitchStep
  <2>8. KeepsNew
    BY <2>1, <2>3, <2>4 DEF SwitchTo, KeepsNew, Changed
  <2> QED BY <1>3, <2>3, <2>7, <2>8
<1>8. ASSUME QueueInv', KeepsNew, NEW c \in CallRec, c.op # "fork",
             curr \in Tasks, call' = [call EXCEPT ![curr] = c],
             UNCHANGED rt_throttled, need_resched' \in BOOLEAN
      PROVE  CoreInv'
  BY <1>1, <1>8, CallStep, ForkKept DEF CoreInv
<1>9. ASSUME NEW w \in Tasks, ScheduleWorkerSleep(w) PROVE CoreInv'
  <2> DEFINE t == put_to_sleep(task[curr])
             v == [task[w] EXCEPT !.state = "RUNNING", !.on_rq = TRUE]
             M == [task EXCEPT ![curr] = t]
             U == [M EXCEPT ![w] = v]
             d == deactivate_task(rq, curr, task[curr])
             r == IF task[w].on_rq THEN d ELSE activate_task(d, w, task[w])
  <2>1. /\ curr \in Tasks /\ task[curr].on_rq /\ task[curr].alloc = "live"
        /\ task[curr].state # "RUNNING" /\ w # curr /\ task[w].alloc = "live"
    BY <1>2, <1>9 DEF ScheduleWorkerSleep, TaskGood
  <2>2. TaskGood(t) /\ ~t.on_rq
    BY <1>2, <2>1, GoodSleep
  <2>3. /\ TaskGood(v) /\ v.on_rq /\ v.sched_class = task[w].sched_class
        /\ v.alloc = "live"
    <3>1. TaskGood(v)
      BY <1>2, <2>1, GoodState
    <3> QED BY <3>1, <1>2, <2>1 DEF TaskRec
  <2>4. SwitchTo(r, U) /\ UNCHANGED <<rt_throttled, call>>
    <3>1. U = [task EXCEPT ![curr] = put_to_sleep(task[curr]),
                           ![w].on_rq = TRUE, ![w].state = "RUNNING"]
      BY <1>2, <2>1 DEF TaskRec
    <3> QED BY <1>9, <3>1 DEF ScheduleWorkerSleep, ttwu
  <2> HIDE DEF t, v
  <2>5. Changed(curr, t, task, M)
    BY <1>2, <2>1, <2>2 DEF Changed, TaskGood
  <2>6. M[w] = task[w]
    BY <2>1, <2>5 DEF Changed
  <2>7. Changed(w, v, M, U)
    BY <2>3, <2>5 DEF Changed, TaskGood
  <2> HIDE DEF M, U
  <2>8. AllGood(M)
    BY <1>2, <2>1, <2>2, <2>5, OneTask
  <2>9. AllGood(U)
    BY <2>3, <2>7, <2>8, OneTask
  <2>10. Agrees(d, M)
    <3>1. OnlyAt(curr, task, M) /\ ~M[curr].on_rq
      BY <2>2, <2>5 DEF OnlyAt, Changed
    <3> QED BY <1>2, <2>1, <3>1, DeactivateAgrees
  <2> HIDE DEF d
  <2>11. Agrees(r, U)
    <3>1. M \in [Tasks -> TaskRec] /\ U \in [Tasks -> TaskRec]
      BY <2>5, <2>7 DEF Changed
    <3>2. CASE task[w].on_rq
      <4>1. r = d
        BY <3>2
      <4>2. \A q \in Tasks : /\ U[q].on_rq = M[q].on_rq
                             /\ U[q].sched_class = M[q].sched_class
        <5>1. v.on_rq = task[w].on_rq
          BY <1>2, <2>3, <3>2 DEF TaskGood, TaskRec
        <5> QED BY <2>3, <2>6, <2>7, <5>1 DEF Changed
      <4>3. Agrees(d, U)
        BY <2>10, <3>1, <4>2, SameSets
      <4> QED BY <4>1, <4>3
    <3>3. CASE ~task[w].on_rq
      <4>1. r = activate_task(d, w, M[w])
        BY <3>3, <2>6
      <4>2. /\ OnlyAt(w, M, U) /\ U[w].on_rq /\ ~M[w].on_rq
            /\ U[w].sched_class = M[w].sched_class
        BY <2>3, <2>6, <2>7, <3>3 DEF OnlyAt, Changed
      <4>3. Agrees(activate_task(d, w, M[w]), U)
        BY <2>10, <3>1, <4>2, ActivateAgrees
      <4> QED BY <4>1, <4>3
    <3> QED BY <3>2, <3>3
  <2> HIDE DEF r
  <2>12. QueueInv' /\ need_resched' \in BOOLEAN
    BY <2>4, <2>9, <2>11, SwitchStep
  <2>13. KeepsNew
    BY <2>1, <2>4, <2>5, <2>7 DEF SwitchTo, KeepsNew, Changed
  <2> QED BY <1>3, <2>4, <2>12, <2>13
<1>10. ASSUME Yield PROVE CoreInv'
  <2> DEFINE r == IF task[curr].sched_class = "wrr"
                  THEN requeue_task_wrr(rq, curr) ELSE rq
  <2>1. SwitchTo(r, task) /\ UNCHANGED <<rt_throttled, call>> /\ curr # Idle
    BY <1>10 DEF Yield, InSyscall
  <2>2. Agrees(r, task)
    <3>1. CASE task[curr].sched_class = "wrr"
      BY <1>2, <2>1, <3>1, RequeueTask
    <3>2. CASE task[curr].sched_class # "wrr"
      BY <1>2, <3>2
    <3> QED BY <3>1, <3>2
  <2> HIDE DEF r
  <2>3. QueueInv' /\ need_resched' \in BOOLEAN
    BY <1>2, <2>1, <2>2, SwitchStep
  <2>4. KeepsNew
    BY <2>1 DEF SwitchTo, KeepsNew
  <2> QED BY <1>3, <2>1, <2>3, <2>4
<1>11. ASSUME NEW p \in Tasks, Wake(p) PROVE CoreInv'
  <2> DEFINE v == [task[p] EXCEPT !.state = "RUNNING", !.on_rq = TRUE]
  <2>1. /\ task[p].alloc = "live" /\ curr' = curr
        /\ task' = [task EXCEPT ![p] = v]
        /\ rq' = IF task[p].on_rq THEN rq ELSE activate_task(rq, p, task[p])
    BY <1>2, <1>11 DEF Wake, ttwu, TaskRec
  <2>2. TaskGood(v)
    BY <1>2, <2>1, GoodState
  <2>3. /\ v.on_rq /\ v.sched_class = task[p].sched_class
        /\ v.alloc = task[p].alloc
    BY <1>2 DEF TaskRec
  <2> HIDE DEF v
  <2>4. Changed(p, v, task, task')
    BY <1>2, <2>1, <2>2 DEF Changed, TaskGood
  <2>5. AllGood(task')
    BY <1>2, <2>2, <2>4, OneTask
  <2>6. Agrees(rq', task')
    <3>1. CASE task[p].on_rq
      <4>1. task' \in [Tasks -> TaskRec] /\ rq' = rq
        BY <2>1, <2>4, <3>1 DEF Changed
      <4>2. \A q \in Tasks : /\ task'[q].on_rq = task[q].on_rq
                             /\ task'[q].sched_class = task[q].sched_class
        <5>1. v.on_rq = task[p].on_rq
          BY <1>2, <2>2, <2>3, <3>1 DEF TaskGood, TaskRec
        <5> QED BY <2>3, <2>4, <5>1 DEF Changed
      <4>3. Agrees(rq, task')
        BY <1>2, <4>1, <4>2, SameSets
      <4> QED BY <4>1, <4>3
    <3>2. CASE ~task[p].on_rq
      <4>1. /\ OnlyAt(p, task, task') /\ task'[p].on_rq
            /\ task'[p].sched_class = task[p].sched_class
        BY <2>3, <2>4 DEF OnlyAt, Changed
      <4>2. Agrees(activate_task(rq, p, task[p]), task')
        BY <1>2, <3>2, <4>1, ActivateAgrees
      <4> QED BY <2>1, <3>2, <4>2
    <3> QED BY <3>1, <3>2
  <2>7. QueueInv'
    BY <1>2, <2>1, <2>3, <2>4, <2>5, <2>6 DEF QueueInv, Changed
  <2>8. KeepsNew
    BY <2>1, <2>4 DEF KeepsNew, Changed
  <2>9. need_resched' \in BOOLEAN
    <3>1. need_resched' \in check_preempt_curr(task', p)
      BY <1>11 DEF Wake, ttwu
    <3>2. check_preempt_curr(task', p) \in SUBSET BOOLEAN
      BY <1>1, <2>5, DecisionType DEF AllGood
    <3> QED BY <3>1, <3>2
  <2> QED BY <1>3, <1>11, <2>7, <2>8, <2>9 DEF Wake
<1>12. ASSUME NEW c \in Tasks, SchedFork(c) PROVE CoreInv'
  <2> DEFINE u == sched_fork(task[curr])
             f == [NoCall EXCEPT !.op = "fork", !.target = c]
  <2>1. /\ curr \in Tasks /\ task[c].alloc = "free"
        /\ task' = [task EXCEPT ![c] = u] /\ call' = [call EXCEPT ![curr] = f]
        /\ UNCHANGED <<rq, curr, need_resched, rt_throttled>>
    BY <1>2, <1>12 DEF SchedFork, InSyscall
  <2>2. TaskGood(u) /\ ~u.on_rq /\ u.alloc = "new" /\ u.state = "RUNNING"
    BY <1>2, <2>1, GoodFork
  <2>3. f \in CallRec /\ f.op = "fork" /\ f.target = c
    BY NoCallType DEF CallRec
  <2> HIDE DEF u, f
  <2>4. Changed(c, u, task, task')
    BY <1>2, <2>1, <2>2 DEF Changed, TaskGood
  <2>5. AllGood(task')
    BY <1>2, <2>2, <2>4, OneTask
  <2>6. ~task[c].on_rq
    BY <1>2, <2>1 DEF TaskGood
  <2>7. Agrees(rq', task')
    <3>1. /\ Queued(task') = Queued(task) /\ WrrQueued(task') = WrrQueued(task)
          /\ FairQueued(task') = FairQueued(task)
      BY <2>2, <2>4, <2>6 DEF Queued, WrrQueued, FairQueued, Changed
    <3> QED BY <1>2, <2>1, <3>1 DEF Agrees
  <2>8. QueueInv'
    BY <1>2, <2>1, <2>4, <2>5, <2>6, <2>7 DEF QueueInv, Changed
  <2>9. call' \in [Tasks -> CallRec]
    BY <1>1, <2>1, <2>3
  <2>10. ForkInFlight'
    <3>1. /\ call'[curr] = f /\ \A q \in Tasks \ {curr} : call'[q] = call[q]
      BY <1>1, <2>1
    <3>2. /\ task'[c] = u /\ \A q \in Tasks \ {c} : task'[q] = task[q]
      BY <2>4 DEF Changed
    <3>3. \A q \in Tasks : call[q].op = "fork" =>
            call[q].target \in Tasks \ {c}
      BY <1>1, <2>1 DEF ForkInFlight, CallRec
    <3> QED BY <1>1, <2>1, <2>2, <2>3, <3>1, <3>2, <3>3 DEF ForkInFlight
  <2> QED BY <1>1, <2>1, <2>8, <2>9, <2>10 DEF CoreInv
<1>13. ASSUME WakeUpNewTask PROVE CoreInv'
  <2> DEFINE c == call[curr].target
             v == [task[c] EXCEPT !.on_rq = TRUE, !.alloc = "live"]
  <2>1. /\ curr \in Tasks /\ call[curr].op = "fork"
        /\ task' = [task EXCEPT ![c] = v] /\ call' = [call EXCEPT ![curr] = NoCall]
        /\ rq' = activate_task(rq, c, task[c])
        /\ need_resched' \in check_preempt_curr(task', c)
        /\ UNCHANGED <<curr, rt_throttled>>
    <3>1. c \in Tasks
      BY <1>1, <1>2, <1>13 DEF WakeUpNewTask, Resumes, CallRec
    <3> QED BY <1>2, <1>13, <3>1 DEF WakeUpNewTask, Resumes, Return, TaskRec
  <2>2. c \in Tasks
    BY <1>1, <2>1 DEF CallRec
  <2>3. /\ task[c].alloc = "new" /\ task[c].state = "RUNNING"
        /\ \A q \in Tasks : call[q].op = "fork" /\ call[q].target = c => q = curr
    BY <1>1, <2>1 DEF ForkInFlight
  <2> HIDE DEF c
  <2>4. ~task[c].on_rq
    BY <1>2, <2>2, <2>3 DEF TaskGood
  <2>5. TaskGood(v)
    BY <1>2, <2>2, <2>3, GoodState
  <2>6. v.on_rq /\ v.sched_class = task[c].sched_class
    BY <1>2, <2>2 DEF TaskRec
  <2> HIDE DEF v
  <2>7. Changed(c, v, task, task')
    BY <1>2, <2>1, <2>2, <2>5 DEF Changed, TaskGood
  <2>8. AllGood(task')
    BY <1>2, <2>2, <2>5, <2>7, OneTask
  <2>9. Agrees(rq', task')
    <3>1. /\ OnlyAt(c, task, task') /\ task'[c].on_rq
          /\ task'[c].sched_class = task[c].sched_class
      BY <2>6, <2>7 DEF OnlyAt, Changed
    <3>2. Agrees(activate_task(rq, c, task[c]), task')
      BY <1>2, <2>2, <2>4, <3>1, ActivateAgrees
    <3> QED BY <2>1, <3>2
  <2>10. QueueInv'
    BY <1>2, <2>1, <2>6, <2>7, <2>8, <2>9 DEF QueueInv, Changed
  <2>11. call' \in [Tasks -> CallRec] /\ call'[curr].op = "none"
         /\ \A q \in Tasks \ {curr} : call'[q] = call[q]
    BY <1>1, <2>1, NoCallType
  <2>12. ForkInFlight'
    <3>1. \A q \in Tasks : call[q].target \in Tasks
      BY <1>1 DEF CallRec
    <3> QED BY <1>1, <2>3, <2>7, <2>11, <3>1 DEF ForkInFlight, Changed
  <2>13. need_resched' \in BOOLEAN
    <3>1. check_preempt_curr(task', c) \in SUBSET BOOLEAN
      BY <1>1, <2>2, <2>8, DecisionType DEF AllGood
    <3> QED BY <2>1, <3>1
  <2> QED BY <1>1, <2>1, <2>10, <2>11, <2>12, <2>13 DEF CoreInv
<1>14. ASSUME ExitCgroup PROVE CoreInv'
  <2> DEFINE t == [task[curr] EXCEPT !.group = FOREGROUP]
             x == [NoCall EXCEPT !.op = "exit"]
  <2>1. /\ curr \in Tasks /\ ChangeTask(curr, t, FALSE)
        /\ call' = [call EXCEPT ![curr] = x]
        /\ UNCHANGED <<curr, need_resched, rt_throttled>>
    BY <1>2, <1>14 DEF ExitCgroup, InSyscall
  <2>2. TaskGood(t)
    BY <1>2, <2>1, GoodFields, InputAssumption
  <2>3. /\ t.on_rq = task[curr].on_rq /\ t.alloc = task[curr].alloc
        /\ t.state = task[curr].state
    BY <1>2, <2>1 DEF TaskRec
  <2>4. x \in CallRec /\ x.op # "fork"
    BY NoCallType DEF CallRec
  <2> HIDE DEF t, x
  <2>5. QueueInv' /\ KeepsNew
    BY <1>1, <2>1, <2>2, <2>3, ChangeStep
  <2> QED BY <1>1, <1>8, <2>1, <2>4, <2>5
<1>15. ASSUME ExitSchedule PROVE CoreInv'
  <2> DEFINE d == [task[curr] EXCEPT !.state = "DEAD"]
             t == put_to_sleep(d)
             U == [task EXCEPT ![curr] = t]
             r == deactivate_task(rq, curr, d)
  <2>1. /\ curr \in Tasks /\ task[curr].on_rq /\ SwitchTo(r, U)
        /\ call' = [call EXCEPT ![curr] = NoCall] /\ UNCHANGED rt_throttled
    BY <1>2, <1>15 DEF ExitSchedule, Resumes, Return
  <2>2. TaskGood(t) /\ ~t.on_rq /\ t.alloc = task[curr].alloc
    BY <1>2, <2>1, GoodDeath
  <2>3. d.sched_class = task[curr].sched_class /\ task[curr].alloc = "live"
    BY <1>2, <2>1 DEF TaskGood, TaskRec
  <2> HIDE DEF t, d
  <2>4. Changed(curr, t, task, U)
    BY <1>2, <2>1, <2>2 DEF Changed, TaskGood
  <2> HIDE DEF U
  <2>5. AllGood(U)
    BY <1>2, <2>1, <2>2, <2>4, OneTask
  <2>6. Agrees(r, U)
    <3>1. OnlyAt(curr, task, U) /\ ~U[curr].on_rq
      BY <2>2, <2>4 DEF OnlyAt, Changed
    <3> QED BY <1>2, <2>1, <2>3, <3>1, DeactivateAgrees
  <2> HIDE DEF r
  <2>7. QueueInv' /\ need_resched' \in BOOLEAN
    BY <2>1, <2>5, <2>6, SwitchStep
  <2>8. KeepsNew
    BY <2>1, <2>3, <2>4 DEF SwitchTo, KeepsNew, Changed
  <2>9. NoCall \in CallRec /\ NoCall.op # "fork"
    BY NoCallType
  <2> QED BY <1>8, <2>1, <2>7, <2>8, <2>9
<1>16. ASSUME NEW p \in Tasks, NEW sp \in SchedParams, NEW reset \in ResetFlags,
              SetScheduler(p, sp[1], sp[2], reset)
       PROVE  CoreInv'
  <2>1. /\ sp[1] \in SchedPolicies /\ sp[2] \in 0 .. MAX_RT_PRIO - 1
        /\ reset \in BOOLEAN
    BY InputAssumption
  <2>2. /\ ApplyScheduler(p, sp[1], sp[2], reset)
        /\ UNCHANGED <<curr, rt_throttled, call>>
    BY <1>16 DEF SetScheduler
  <2>3. QueueInv' /\ KeepsNew /\ need_resched' \in BOOLEAN
    BY <1>1, <2>1, <2>2, ApplyStep
  <2> QED BY <1>3, <2>2, <2>3
<1>17. \A p \in Tasks, prio \in 0 .. MAX_RT_PRIO - 1 :
         /\ setparam_call(p, prio) \in CallRec
         /\ setparam_call(p, prio).op = "setparam"
  BY <1>2, InputAssumption DEF setparam_call, CallRec, TaskRec
<1>18. ASSUME UNCHANGED <<rq, curr, need_resched, task>>
       PROVE  QueueInv' /\ KeepsNew /\ need_resched' \in BOOLEAN
  BY <1>1, <1>18 DEF QueueInv, KeepsNew
<1>19. ASSUME NEW p \in Tasks, NEW prio \in ParamPrios, SetparamRead(p, prio)
       PROVE  CoreInv'
  <2> DEFINE c == setparam_call(p, prio)
  <2>1. c \in CallRec /\ c.op # "fork"
    BY <1>17, InputAssumption
  <2>2. /\ curr \in Tasks /\ call' = [call EXCEPT ![curr] = c]
        /\ UNCHANGED <<rq, curr, need_resched, rt_throttled, task>>
    BY <1>2, <1>19 DEF SetparamRead, InSyscall
  <2> HIDE DEF c
  <2> QED BY <1>8, <1>18, <2>1, <2>2
<1>20. ASSUME SetparamReturn PROVE CoreInv'
  <2>1. /\ curr \in Tasks /\ call' = [call EXCEPT ![curr] = NoCall]
        /\ UNCHANGED <<rq, curr, need_resched, rt_throttled, task>>
    BY <1>2, <1>20 DEF SetparamReturn, Resumes, Return
  <2> QED BY <1>8, <1>18, <2>1, NoCallType
<1>21. ASSUME SetparamRecheck PROVE CoreInv'
  <2> DEFINE p == call[curr].target
             c == IF valid_priority(task[p].policy, call[curr].prio)
                  THEN setparam_call(p, call[curr].prio) ELSE NoCall
  <2>1. /\ curr \in Tasks /\ call' = [call EXCEPT ![curr] = c]
        /\ UNCHANGED <<rq, curr, need_resched, rt_throttled, task>>
    BY <1>2, <1>21 DEF SetparamRecheck, Resumes
  <2>2. p \in Tasks /\ call[curr].prio \in 0 .. MAX_RT_PRIO - 1
    BY <1>1, <2>1 DEF CallRec
  <2>3. c \in CallRec /\ c.op # "fork"
    BY <1>17, <2>2, NoCallType
  <2> HIDE DEF c
  <2> QED BY <1>8, <1>18, <2>1, <2>3
<1>22. ASSUME SetparamApply PROVE CoreInv'
  <2> DEFINE c == call[curr]
  <2>1. /\ curr \in Tasks /\ call' = [call EXCEPT ![curr] = NoCall]
        /\ ApplyScheduler(c.target, c.policy, c.prio, c.reset)
        /\ UNCHANGED <<curr, rt_throttled>>
    BY <1>2, <1>22 DEF SetparamApply, Resumes, Return
  <2>2. /\ c.target \in Tasks /\ c.policy \in SchedPolicies
        /\ c.prio \in 0 .. MAX_RT_PRIO - 1 /\ c.reset \in BOOLEAN
    BY <1>1, <2>1 DEF CallRec
  <2> HIDE DEF c
  <2>3. QueueInv' /\ KeepsNew /\ need_resched' \in BOOLEAN
    BY <1>1, <2>1, <2>2, ApplyStep
  <2> QED BY <1>8, <2>1, <2>3, NoCallType
<1>23. ASSUME NEW p \in Tasks, NEW nice \in Nices, SetUserNice(p, nice)
       PROVE  CoreInv'
  <2> DEFINE u == WithNice(task[p], nice)
             v == WithPrio(u)
  <2>1. TaskGood(task[p]) /\ nice \in -20 .. 19
    BY <1>2, InputAssumption
  <2>2. UNCHANGED <<curr, rt_throttled, call>>
    BY <1>23 DEF SetUserNice
  <2>3. CASE rt_policy(task[p].policy)
    <3>1. task' = [task EXCEPT ![p] = u] /\ UNCHANGED <<rq, need_resched>>
      BY <1>23, <2>3 DEF SetUserNice, WithNice
    <3>2. TaskGood(u)
      BY <2>1, <2>3, GoodNiceRt, Zenon
    <3>3. /\ u.on_rq = task[p].on_rq /\ u.alloc = task[p].alloc
          /\ u.state = task[p].state /\ u.sched_class = task[p].sched_class
      BY <1>2 DEF WithNice, TaskRec
    <3> HIDE DEF u
    <3>4. QueueInv' /\ KeepsNew
      BY <1>1, <2>2, <3>1, <3>2, <3>3, FieldStep
    <3> QED BY <1>1, <1>3, <2>2, <3>1, <3>4
  <2>4. CASE ~rt_policy(task[p].policy)
    <3>1. ChangeTask(p, v, FALSE) /\ need_resched' \in BOOLEAN
      BY <1>1, <1>23, <2>4 DEF SetUserNice, WithNice, WithPrio, ReschedIf,
                               Resched, Keep
    <3>2. /\ TaskGood(v) /\ v.on_rq = task[p].on_rq /\ v.alloc = task[p].alloc
          /\ v.state = task[p].state
      BY <2>1, <2>4, GoodNice
    <3> HIDE DEF v
    <3>3. QueueInv' /\ KeepsNew
      BY <1>1, <2>2, <3>1, <3>2, ChangeStep
    <3> QED BY <1>3, <2>2, <3>1, <3>3
  <2> QED BY <2>3, <2>4
<1>24. ASSUME NEW p \in Tasks, NEW pi \in PiPrios \cup {MAX_PRIO},
              RtMutexAdjustPrio(p, pi)
       PROVE  CoreInv'
  <2> DEFINE u == [task[p] EXCEPT !.pi = pi]
             prio == rt_mutex_getprio(u)
             v == setprio(u, prio)
  <2>1. pi \in Prio
    BY InputAssumption DEF Prio, MAX_PRIO, MAX_RT_PRIO
  <2>2. TaskGood(u)
    BY <1>2, <2>1, GoodFields
  <2>3. /\ u.on_rq = task[p].on_rq /\ u.alloc = task[p].alloc
        /\ u.state = task[p].state /\ u.sched_class = task[p].sched_class
    BY <1>2 DEF TaskRec
  <2>4. UNCHANGED <<curr, rt_throttled, call>>
    BY <1>24 DEF RtMutexAdjustPrio
  <2>5. CASE prio = task[p].prio
    <3>1. task' = [task EXCEPT ![p] = u] /\ UNCHANGED <<rq, need_resched>>
      BY <1>24, <2>5 DEF RtMutexAdjustPrio
    <3> HIDE DEF u, v, prio
    <3>2. QueueInv' /\ KeepsNew
      BY <1>1, <2>2, <2>3, <2>4, <3>1, FieldStep
    <3> QED BY <1>1, <1>3, <2>4, <3>1, <3>2
  <2>6. CASE prio # task[p].prio
    <3> DEFINE head == task[p].prio < prio
    <3>1. /\ ChangeTask(p, v, head) /\ head \in BOOLEAN
          /\ need_resched' \in check_class_changed(task', p,
                                    task[p].sched_class, task[p].prio)
      BY <1>24, <2>6 DEF RtMutexAdjustPrio
    <3> HIDE DEF head, u
    <3>2. /\ TaskGood(v) /\ v.on_rq = u.on_rq /\ v.alloc = u.alloc
          /\ v.state = u.state
      BY <2>2, GoodSetprio
    <3> HIDE DEF v, prio
    <3>3. QueueInv' /\ KeepsNew
      BY <1>1, <2>3, <2>4, <3>1, <3>2, ChangeStep
    <3>4. check_class_changed(task', p, task[p].sched_class, task[p].prio)
            \in SUBSET BOOLEAN
      BY <1>1, <3>3, DecisionType DEF QueueInv, AllGood
    <3> QED BY <1>3, <2>4, <3>1, <3>3, <3>4
  <2> QED BY <2>5, <2>6
<1>25. ASSUME NEW p \in Tasks, NEW g \in Groups, CanAttach(p, g) PROVE CoreInv'
  <2> DEFINE c == [NoCall EXCEPT !.op = "attach", !.target = p, !.group = g]
  <2>1. c \in CallRec /\ c.op # "fork"
    BY NoCallType DEF CallRec
  <2>2. /\ curr \in Tasks /\ call' = [call EXCEPT ![curr] = c]
        /\ UNCHANGED <<rq, curr, need_resched, rt_throttled, task>>
    BY <1>2, <1>25 DEF CanAttach, InSyscall
  <2> HIDE DEF c
  <2> QED BY <1>8, <1>18, <2>1, <2>2
<1>26. ASSUME AttachMove PROVE CoreInv'
  <2> DEFINE p == call[curr].target
             t == [task[p] EXCEPT !.group = call[curr].group]
  <2>1. /\ curr \in Tasks /\ call' = [call EXCEPT ![curr] = NoCall]
        /\ UNCHANGED <<curr, need_resched, rt_throttled>>
        /\ UNCHANGED <<rq, task>> \/ ChangeTask(p, t, FALSE)
    BY <1>2, <1>26 DEF AttachMove, Resumes, Return
  <2>2. p \in Tasks /\ call[curr].group \in Groups
    BY <1>1, <2>1 DEF CallRec
  <2>3. TaskGood(t)
    BY <1>2, <2>2, GoodFields
  <2>4. t.on_rq = task[p].on_rq /\ t.alloc = task[p].alloc /\ t.state = task[p].state
    BY <1>2, <2>2 DEF TaskRec
  <2> HIDE DEF p, t
  <2>5. QueueInv' /\ KeepsNew
    <3>1. CASE UNCHANGED <<rq, task>>
      BY <1>18, <2>1, <3>1
    <3>2. CASE ChangeTask(p, t, FALSE)
      BY <1>1, <2>1, <2>2, <2>3, <2>4, <3>2, ChangeStep
    <3> QED BY <2>1, <3>1, <3>2
  <2> QED BY <1>1, <1>8, <2>1, <2>5, NoCallType
<1>27. ASSUME TickWrr PROVE CoreInv'
  <2> DEFINE n == decrement(task[curr].time_slice)
             m == refill(task[curr])
             Sliced(k) == [task[curr] EXCEPT !.time_slice = k]
  <2>1. /\ curr \in Tasks /\ task[curr].on_rq /\ task[curr].sched_class = "wrr"
        /\ UNCHANGED <<curr, rt_throttled, call>>
    BY <1>2, <1>27 DEF TickWrr, ClassOf
  <2>2. n \in 0 .. UINT_MAX /\ m \in 0 .. UINT_MAX
    <3>1. task[curr].time_slice \in 0 .. UINT_MAX
      BY <1>2, <2>1 DEF TaskRec
    <3>2. n \in 0 .. UINT_MAX
      BY <3>1, SliceAssumption DEF decrement
    <3>3. m \in 0 .. UINT_MAX
      BY SliceAssumption DEF refill, FOREGROUP, BACKGROUP
    <3> QED BY <3>2, <3>3
  <2>3. \/ UNCHANGED <<rq, task, need_resched>>
        \/ /\ \E k \in {n, m} : task' = [task EXCEPT ![curr] = Sliced(k)]
           /\ \/ UNCHANGED <<rq, need_resched>>
              \/ rq' = requeue_task_wrr(rq, curr) /\ need_resched' = TRUE
    BY <1>27 DEF TickWrr
  <2> HIDE DEF n, m
  <2>4. CASE UNCHANGED <<rq, task, need_resched>>
    BY <1>3, <1>18, <2>1, <2>4
  <2>5. ASSUME NEW k \in 0 .. UINT_MAX, task' = [task EXCEPT ![curr] = Sliced(k)],
               \/ UNCHANGED <<rq, need_resched>>
               \/ rq' = requeue_task_wrr(rq, curr) /\ need_resched' = TRUE
        PROVE  CoreInv'
    <3>1. TaskGood(Sliced(k))
      BY <1>2, <2>1, GoodFields
    <3>2. /\ Sliced(k).on_rq = task[curr].on_rq
          /\ Sliced(k).sched_class = task[curr].sched_class
          /\ Sliced(k).alloc = task[curr].alloc
          /\ Sliced(k).state = task[curr].state
      BY <1>2, <2>1 DEF TaskRec
    <3> HIDE DEF Sliced
    <3>3. Changed(curr, Sliced(k), task, task')
      BY <1>2, <2>1, <2>5, <3>1 DEF Changed, TaskGood
    <3>4. AllGood(task') /\ task' \in [Tasks -> TaskRec]
      BY <1>2, <2>1, <3>1, <3>3, OneTask DEF AllGood
    <3>5. Agrees(rq, task')
      <4>1. \A q \in Tasks : /\ task'[q].on_rq = task[q].on_rq
                             /\ task'[q].sched_class = task[q].sched_class
        BY <3>2, <3>3 DEF Changed
      <4> QED BY <1>2, <3>4, <4>1, SameSets
    <3>6. task'[curr].on_rq /\ task'[curr].sched_class = "wrr"
      BY <2>1, <3>2, <3>3 DEF Changed
    <3>7. Agrees(rq', task') /\ need_resched' \in BOOLEAN
      <4>1. CASE UNCHANGED <<rq, need_resched>>
        BY <1>1, <3>5, <4>1
      <4>2. CASE rq' = requeue_task_wrr(rq, curr) /\ need_resched' = TRUE
        <5>1. Agrees(requeue_task_wrr(rq, curr), task')
          BY <2>1, <3>4, <3>5, <3>6, RequeueTask
        <5> QED BY <4>2, <5>1
      <4> QED BY <2>5, <4>1, <4>2
    <3>8. QueueInv' /\ KeepsNew
      BY <2>1, <3>2, <3>3, <3>4, <3>6, <3>7 DEF QueueInv, KeepsNew, Changed
    <3> QED BY <1>3, <2>1, <3>7, <3>8
  <2> QED BY <2>2, <2>3, <2>4, <2>5
<1>28. ASSUME TickOther PROVE CoreInv'
  <2>1. UNCHANGED <<rq, curr, rt_throttled, task, call>>
    BY <1>28 DEF TickOther
  <2>2. need_resched' \in BOOLEAN
    BY <1>1, <1>28 DEF TickOther, FairDecides, Resched, Keep
  <2>3. QueueInv' /\ KeepsNew
    BY <1>1, <2>1 DEF QueueInv, KeepsNew
  <2> QED BY <1>3, <2>1, <2>2, <2>3
<1>29. ASSUME RtRuntimeExceeded \/ RtPeriodTimer PROVE CoreInv'
  <2>1. UNCHANGED <<rq, curr, task, call>> /\ rt_throttled' \in BOOLEAN
    BY <1>29 DEF RtRuntimeExceeded, RtPeriodTimer
  <2>2. need_resched' \in BOOLEAN
    BY <1>1, <1>29 DEF RtRuntimeExceeded, RtPeriodTimer, ReschedIf, Resched, Keep
  <2>3. QueueInv' /\ ForkInFlight'
    BY <1>1, <2>1 DEF QueueInv, ForkInFlight
  <2> QED BY <1>1, <2>1, <2>2, <2>3 DEF CoreInv
<1>30. ASSUME UNCHANGED vars PROVE CoreInv'
  BY <1>1, <1>3, <1>18, <1>30 DEF vars
<1> QED
  BY <1>4, <1>5, <1>6, <1>7, <1>9, <1>10, <1>11, <1>12, <1>13, <1>14, <1>15,
     <1>16, <1>19, <1>20, <1>21, <1>22, <1>23, <1>24, <1>25, <1>26, <1>27,
     <1>28, <1>29, <1>30 DEF Next, Tick

-----------------------------------------------------------------------------
(* The state sched_init leaves behind satisfies the invariant.             *)
LEMMA InitInv == Init => CoreInv
<1> SUFFICES ASSUME Init PROVE CoreInv
  OBVIOUS
<1> USE DEF Prio, SchedPolicies, MAX_RT_PRIO, MAX_PRIO, DEFAULT_PRIO
<1>1. \A alloc \in {"free", "live"}, on \in BOOLEAN :
        (on <=> alloc = "live") => TaskGood(NewTask(alloc, on))
  BY SliceAssumption, InputAssumption
     DEF NewTask, TaskGood, TaskRec, ClassFits, normal_prio, rt_policy, rt_prio
<1>2. /\ task \in [Tasks -> TaskRec] /\ AllGood(task)
      /\ task = [p \in Tasks |-> IF p = InitTask THEN NewTask("live", TRUE)
                                                ELSE NewTask("free", FALSE)]
  BY <1>1 DEF Init, AllGood, TaskGood
<1>3. /\ task[InitTask].on_rq /\ task[InitTask].sched_class = "fair"
      /\ \A p \in Tasks \ {InitTask} : ~task[p].on_rq
  BY <1>2, TasksAssumption DEF NewTask
<1>4. Agrees(rq, task)
  <2>1. RqInv(EmptyRq, {}, {}, {})
    <3>1. EmptyRq \in RqType
      BY DEF EmptyRq, RqType
    <3>2. QueueHolds(<<>>, {})
      BY DEF QueueHolds
    <3>3. Len(<<>>) = 0 /\ Cardinality({}) = 0 /\ IsFiniteSet({})
      BY FS_EmptySet
    <3> QED BY <3>1, <3>2, <3>3 DEF RqInv, RqAgrees, EmptyRq
  <2>2. RqInv(enqueue_task(EmptyRq, InitTask, "fair", FALSE), {} \cup {InitTask},
              Joins({}, InitTask, "fair", "wrr"),
              Joins({}, InitTask, "fair", "fair"))
    BY <2>1, TasksAssumption, EnqueueInv
  <2>3. /\ Queued(task) = {} \cup {InitTask}
        /\ WrrQueued(task) = Joins({}, InitTask, "fair", "wrr")
        /\ FairQueued(task) = Joins({}, InitTask, "fair", "fair")
    BY <1>3, TasksAssumption DEF Queued, WrrQueued, FairQueued, Joins
  <2> QED BY <2>2, <2>3 DEF Agrees, Init
<1>5. QueueInv
  BY <1>2, <1>3, <1>4, TasksAssumption DEF QueueInv, Init
<1>6. call \in [Tasks -> CallRec] /\ ForkInFlight
  BY NoCallType DEF Init, ForkInFlight
<1> QED BY <1>5, <1>6 DEF CoreInv, Init

(* The inductive invariant holds in every reachable state, for any number  *)
(* of tasks, any slices and any inputs.                                    *)
THEOREM Invariance == Spec => []IInv
<1>1. Init => CoreInv
  BY InitInv
<1>2. CoreInv /\ [Next]_vars => CoreInv'
  BY Inductive
<1>3. CoreInv => IInv
  BY CoreInvIff
<1> QED BY <1>1, <1>2, <1>3, PTL DEF Spec

(* Every variable keeps its type: no counter, slice or priority leaves its *)
(* range, whatever the handlers do.                                        *)
THEOREM TypeCorrect == Spec => []TypeOK
<1>1. IInv => TypeOK
  BY DEF IInv
<1> QED BY <1>1, Invariance, PTL

(* The WRR list and the counters of the run queue always agree with the    *)
(* tasks: enqueue_task and dequeue_task stay paired in every handler.      *)
THEOREM RunqueueCorrect == Spec => []RunqueueAgrees
<1>1. IInv => RunqueueAgrees
  BY DEF IInv
<1> QED BY <1>1, Invariance, PTL

(* A runnable task is always on the run queue, and __schedule never picks  *)
(* a task that is asleep, dead or not yet started.                         *)
THEOREM NoLostTask == Spec => []NoTaskLost
<1>1. IInv => NoTaskLost
  BY DEF IInv
<1> QED BY <1>1, Invariance, PTL

(* A task's class always fits its policy and effective priority.           *)
THEOREM ClassCorrect == Spec => []ClassAgrees
<1>1. IInv => ClassAgrees
  BY DEF IInv
<1> QED BY <1>1, Invariance, PTL

-----------------------------------------------------------------------------
(* Which task the scheduler picks.                                         *)

(* A set of queued tasks has a task of the highest priority in it.         *)
LEMMA TopTask ==
  ASSUME NEW T \in [Tasks -> TaskRec], NEW S \in SUBSET Tasks, S # {}
  PROVE  \E p \in S : \A q \in S : T[p].prio <= T[q].prio
<1> DEFINE prios == {T[q].prio : q \in S}
<1>1. prios \in SUBSET Nat /\ prios # {}
  BY DEF TaskRec, Prio, MAX_PRIO, MAX_RT_PRIO
<1>2. PICK x \in prios : \A y \in prios : x <= y
  BY <1>1, LeastNatural
<1> QED BY <1>2

(* What the counters tell pick_next_task: which classes have a task.       *)
LEMMA CountersTell ==
  ASSUME NEW T \in [Tasks -> TaskRec], NEW r, Agrees(r, T)
  PROVE  /\ pick_next_task_fair(r, T) = FairQueued(T)
         /\ pick_next_task_wrr(r) \in SUBSET WrrQueued(T)
         /\ pick_next_task_wrr(r) = {} => WrrQueued(T) = {}
         /\ r.nr_running = r.h_nr_running => Queued(T) = FairQueued(T)
<1>1. /\ r.h_nr_running = Cardinality(FairQueued(T))
      /\ r.nr_running = Cardinality(Queued(T))
      /\ r.wrr_nr_running = Len(r.queue) /\ QueueHolds(r.queue, WrrQueued(T))
      /\ r.queue \in Seq(Tasks)
  BY DEF Agrees, RqInv, RqAgrees, RqType
<1>2. /\ IsFiniteSet(Queued(T)) /\ FairQueued(T) \in SUBSET Queued(T)
  BY SetsType
<1>3. IsFiniteSet(FairQueued(T))
  BY <1>2, FS_Subset
<1>4. pick_next_task_fair(r, T) = FairQueued(T)
  BY <1>1, <1>3, FS_EmptySet DEF pick_next_task_fair
<1>5. r.nr_running = r.h_nr_running => Queued(T) = FairQueued(T)
  BY <1>1, <1>2, FS_Subset
<1>6. {r.queue[i] : i \in DOMAIN r.queue} = WrrQueued(T)
  BY <1>1 DEF QueueHolds
<1>7. CASE r.wrr_nr_running = 0
  <2>0. DOMAIN r.queue = {}
    <3> DEFINE q == r.queue
    <3>1. q \in Seq(Tasks) /\ Len(q) = 0
      BY <1>1, <1>7
    <3> HIDE DEF q
    <3>2. DOMAIN q = 1 .. 0
      BY <3>1
    <3>3. DOMAIN q = {}
      BY <3>2
    <3> QED BY <3>3 DEF q
  <2>1. DOMAIN r.queue = {} /\ pick_next_task_wrr(r) = {}
    BY <1>7, <2>0 DEF pick_next_task_wrr
  <2> QED BY <1>4, <1>5, <1>6, <2>1
<1>8. CASE r.wrr_nr_running # 0
  <2>1. 1 \in DOMAIN r.queue /\ Head(r.queue) = r.queue[1]
    BY <1>1, <1>8
  <2>2. pick_next_task_wrr(r) = {Head(r.queue)}
    BY <1>8 DEF pick_next_task_wrr
  <2> QED BY <1>4, <1>5, <1>6, <2>1, <2>2
<1> QED BY <1>7, <1>8

(* pick_next_task decides by counters, and yet picks no task while one of  *)
(* a higher class, or a real-time task of higher priority, could run.      *)
LEMMA PickBest ==
  ASSUME NEW T \in [Tasks -> TaskRec], NEW r, Agrees(r, T), NEW throttled,
         NEW c \in pick_next_task(r, T, throttled), NEW p \in Queued(T),
         ~(T[p].sched_class = "rt" /\ rt_rq_throttled(T, throttled))
  PROVE  \/ ClassRank(ClassOf(T, c)) < ClassRank(T[p].sched_class)
         \/ /\ ClassOf(T, c) = T[p].sched_class
            /\ T[p].sched_class = "rt" => T[c].prio <= T[p].prio
<1> DEFINE fair == pick_next_task_fair(r, T)
           rt   == pick_next_task_rt(T, throttled)
           wrr  == pick_next_task_wrr(r)
           class == T[p].sched_class
<1>1. p \in Tasks /\ class \in {"rt", "wrr", "fair"} /\ Idle \notin Tasks
  BY TasksAssumption DEF Queued, TaskRec
<1>2. /\ fair = FairQueued(T) /\ wrr \in SUBSET WrrQueued(T)
      /\ wrr = {} => WrrQueued(T) = {}
      /\ r.nr_running = r.h_nr_running => Queued(T) = FairQueued(T)
  BY CountersTell
<1>3. /\ class = "fair" => p \in FairQueued(T)
      /\ class = "wrr" => p \in WrrQueued(T)
      /\ class = "rt" => p \in RtQueued(T) /\ rt # {}
  <2>1. class = "rt" => p \in RtQueued(T)
    BY <1>1 DEF RtQueued, Queued
  <2>2. ASSUME class = "rt" PROVE rt # {}
    <3>1. RtQueued(T) \in SUBSET Tasks /\ RtQueued(T) # {}
      BY <2>1, <2>2 DEF RtQueued
    <3>2. \E q \in RtQueued(T) : \A x \in RtQueued(T) : T[q].prio <= T[x].prio
      BY <3>1, TopTask
    <3>3. ~rt_rq_throttled(T, throttled)
      BY <2>2
    <3> QED BY <3>2, <3>3 DEF pick_next_task_rt
  <2> QED BY <1>1, <2>1, <2>2 DEF FairQueued, WrrQueued, Queued
<1>4. /\ \A x \in fair : ClassOf(T, x) = "fair"
      /\ \A x \in wrr : ClassOf(T, x) = "wrr"
      /\ \A x \in rt : ClassOf(T, x) = "rt" /\ \A y \in RtQueued(T) : T[x].prio <= T[y].prio
  BY <1>1, <1>2 DEF FairQueued, WrrQueued, RtQueued, ClassOf, pick_next_task_rt
<1>5. /\ ClassRank("rt") = 1 /\ ClassRank("wrr") = 2 /\ ClassRank("fair") = 3
      /\ ClassRank("idle") = 4
  BY DEF ClassRank
<1>6. \/ r.nr_running = r.h_nr_running /\ c \in fair
      \/ c \in rt
      \/ rt = {} /\ c \in wrr
      \/ rt = {} /\ wrr = {} /\ c \in fair
      \/ rt = {} /\ wrr = {} /\ fair = {} /\ c = Idle
  BY DEF pick_next_task
<1> HIDE DEF fair, rt, wrr, class
<1>7. CASE r.nr_running = r.h_nr_running /\ c \in fair
  <2>1. class = "fair"
    BY <1>2, <1>7 DEF FairQueued, class
  <2> QED BY <1>4, <1>7, <2>1 DEF class
<1>8. CASE c \in rt
  BY <1>1, <1>3, <1>4, <1>5, <1>8 DEF class
<1>9. CASE rt = {} /\ c \in wrr
  BY <1>1, <1>3, <1>4, <1>5, <1>9 DEF class
<1>10. CASE rt = {} /\ wrr = {} /\ c \in fair
  BY <1>1, <1>2, <1>3, <1>4, <1>5, <1>10 DEF class
<1>11. CASE rt = {} /\ wrr = {} /\ fair = {} /\ c = Idle
  BY <1>1, <1>2, <1>3, <1>11 DEF class
<1> QED BY <1>6, <1>7, <1>8, <1>9, <1>10, <1>11

(* The current task changes only where __schedule picks it.                *)
LEMMA PickedBySchedule ==
  ASSUME Next, curr' # curr
  PROVE  /\ curr' \in pick_next_task(rq', task', rt_throttled)
         /\ rt_throttled' = rt_throttled
BY DEF Next, SetCurrentState, Preempt, ScheduleRunnable, ScheduleSleep, ScheduleWorkerSleep,
       Yield, Wake, SchedFork, WakeUpNewTask, ExitCgroup, ExitSchedule, SetScheduler,
       SetparamRead, SetparamReturn, SetparamRecheck, SetparamApply, SetUserNice,
       RtMutexAdjustPrio, CanAttach, AttachMove, Tick, TickWrr, TickOther,
       RtRuntimeExceeded, RtPeriodTimer, SwitchTo

(* __schedule switches only to a task of the highest class that has one to *)
(* run, and of the highest priority in the real-time class, whatever has   *)
(* been done to the counters it decides by.                                *)
THEOREM BestPicked == Spec => PicksBest
<1>1. CoreInv /\ CoreInv' /\ [Next]_vars =>
        [curr' # curr =>
           \A p \in Tasks : Eligible(p)' =>
             \/ ClassRank(ClassOf(task', curr')) < ClassRank(task'[p].sched_class)
             \/ /\ ClassOf(task', curr') = task'[p].sched_class
                /\ task'[p].sched_class = "rt" =>
                     task'[curr'].prio <= task'[p].prio]_vars
  <2> SUFFICES ASSUME CoreInv', Next, curr' # curr, NEW p \in Tasks, Eligible(p)'
               PROVE  \/ ClassRank(ClassOf(task', curr')) < ClassRank(task'[p].sched_class)
                      \/ /\ ClassOf(task', curr') = task'[p].sched_class
                         /\ task'[p].sched_class = "rt" =>
                              task'[curr'].prio <= task'[p].prio
    BY DEF vars
  <2>1. Agrees(rq', task') /\ task' \in [Tasks -> TaskRec]
    BY DEF CoreInv, QueueInv, AllGood
  <2>2. /\ curr' \in pick_next_task(rq', task', rt_throttled)
        /\ rt_throttled' = rt_throttled
    BY PickedBySchedule
  <2>3. /\ p \in Queued(task')
        /\ ~(task'[p].sched_class = "rt" /\ rt_rq_throttled(task', rt_throttled))
    BY <2>2 DEF Eligible
  <2> QED BY <2>1, <2>2, <2>3, PickBest
<1> QED BY <1>1, InitInv, Inductive, PTL DEF Spec, PicksBest

-----------------------------------------------------------------------------
(* sched_setparam.                                                         *)

(* A call of sched_setparam ends without touching a policy.                *)
LEMMA SetparamEnds ==
  ASSUME CoreInv, Next, NEW c \in Tasks, NEW p \in Tasks,
         call[c].op = "setparam", call'[c].op = "none", call[c].target = p
  PROVE  task'[p].policy = task[p].policy
<1>1. /\ call \in [Tasks -> CallRec] /\ task \in [Tasks -> TaskRec]
      /\ TaskGood(task[p])
  BY DEF CoreInv, QueueInv, AllGood
<1>2. /\ c = curr
      /\ SetparamReturn \/ SetparamRecheck \/ SetparamApply
  BY <1>1 DEF Next, SetCurrentState, Preempt, ScheduleRunnable, ScheduleSleep,
       ScheduleWorkerSleep, Yield, Wake, SchedFork, WakeUpNewTask, ExitCgroup, ExitSchedule,
       SetScheduler, SetparamRead, SetparamReturn, SetparamRecheck, SetparamApply, SetUserNice,
       RtMutexAdjustPrio, CanAttach, AttachMove, Tick, TickWrr, TickOther,
       RtRuntimeExceeded, RtPeriodTimer, InSyscall, Resumes, Return
<1>3. CASE SetparamReturn \/ SetparamRecheck
  BY <1>3 DEF SetparamReturn, SetparamRecheck
<1>4. CASE SetparamApply
  <2> DEFINE old == [task[p] EXCEPT !.reset_on_fork = call[c].reset]
             new == do_setscheduler(old, call[c].policy, call[c].prio)
  <2>1. task' = [task EXCEPT ![p] = new] /\ call[c].policy = task[p].policy
    BY <1>2, <1>4 DEF SetparamApply, ApplyScheduler, ChangeTask, policy_changed
  <2>2. old \in TaskRec
    BY <1>1 DEF TaskRec, CallRec
  <2>3. new.policy = call[c].policy
    <3> HIDE DEF old
    <3> QED BY <2>2 DEF do_setscheduler, TaskRec
  <2> HIDE DEF new
  <2> QED BY <1>1, <2>1, <2>3
<1> QED BY <1>2, <1>3, <1>4

(* sched_setparam never changes a policy, although it reads the policy     *)
(* before it takes the lock: the recheck under the lock suffices.          *)
THEOREM SetparamPolicy == Spec => SetparamKeepsPolicy
<1>1. CoreInv /\ [Next]_vars =>
        [\A c, p \in Tasks :
           call[c].op = "setparam" /\ call'[c].op = "none" /\ call[c].target = p
             => task'[p].policy = task[p].policy]_vars
  BY SetparamEnds
<1> QED BY <1>1, InitInv, Inductive, PTL DEF Spec, SetparamKeepsPolicy

-----------------------------------------------------------------------------
(* Boosts and slices: what a step may do to one task.                      *)
BoostOk(t) == rt_prio(t.pi) => t.prio <= t.pi

TaskFine(t, u) ==
  /\ BoostOk(t) => BoostOk(u)
  /\ t.alloc # "free" => SliceKeeps(t, u)

(* What a group's quota can be.                                            *)
LEMMA QuotaIs ==
  ASSUME NEW g
  PROVE  Quota(g) \in Nat /\ Quota(g) \in 0 .. WRR_FORE_TIMESLICE
BY SliceAssumption DEF Quota, FOREGROUP, BACKGROUP

(* A slice that is left alone.                                             *)
LEMMA SliceSame ==
  ASSUME NEW t, NEW u, t.time_slice \in Nat, u.time_slice = t.time_slice
  PROVE  SliceKeeps(t, u)
<1>1. CASE u.group = t.group
  <2>1. WithinQuota(u) <=> WithinQuota(t)
    BY <1>1 DEF WithinQuota
  <2>2. Quota(t.group) \in Nat
    BY QuotaIs
  <2> QED BY <2>1, <2>2 DEF SliceKeeps
<1>2. CASE u.group # t.group
  <2>1. Quota(t.group) \in Nat
    BY QuotaIs
  <2> QED BY <1>2, <2>1 DEF SliceKeeps
<1> QED BY <1>1, <1>2

(* A step that leaves priority, top waiter and slice alone.                *)
LEMMA FineSame ==
  ASSUME NEW t, NEW u, t.time_slice \in Nat,
         u.prio = t.prio, u.pi = t.pi, u.time_slice = t.time_slice
  PROVE  TaskFine(t, u)
BY SliceSame DEF TaskFine, BoostOk

(* Slices are numbers.                                                     *)
LEMMA SliceNat ==
  ASSUME NEW t \in TaskRec
  PROVE  t.time_slice \in Nat
BY SliceAssumption DEF TaskRec

(* One task changes.                                                       *)
LEMMA FineOne ==
  ASSUME task \in [Tasks -> TaskRec], NEW x \in Tasks, NEW u,
         task' = [task EXCEPT ![x] = u], TaskFine(task[x], u)
  PROVE  \A p \in Tasks : TaskFine(task[p], task'[p])
<1> SUFFICES ASSUME NEW p \in Tasks PROVE TaskFine(task[p], task'[p])
  OBVIOUS
<1>1. CASE p = x
  BY <1>1
<1>2. CASE p # x
  BY <1>2, FineSame, SliceNat
<1> QED BY <1>1, <1>2

(* What rt_mutex_getprio returns is at least as high as the top waiter's.  *)
LEMMA GetprioBound ==
  ASSUME NEW t, t.pi \in Prio, t.normal_prio \in Prio
  PROVE  rt_mutex_getprio(t) <= t.pi /\ rt_mutex_getprio(t) \in Prio
<1> DEFINE a == t.pi
           b == t.normal_prio
<1>1. rt_mutex_getprio(t) = IF a < b THEN a ELSE b
  BY DEF rt_mutex_getprio
<1>2. a \in Int /\ b \in Int /\ a \in Prio /\ b \in Prio
  BY DEF Prio, MAX_PRIO, MAX_RT_PRIO
<1> HIDE DEF a, b
<1>3. rt_mutex_getprio(t) <= a /\ rt_mutex_getprio(t) \in Prio
  BY <1>1, <1>2
<1> QED BY <1>3 DEF a

(* __setscheduler keeps the boost and the slice.                           *)
LEMMA FineSetscheduler ==
  ASSUME NEW t \in TaskRec, NEW policy \in SchedPolicies,
         NEW prio \in 0 .. MAX_RT_PRIO - 1, NEW reset \in BOOLEAN,
         NEW u, u = do_setscheduler([t EXCEPT !.reset_on_fork = reset], policy, prio)
  PROVE  TaskFine(t, u)
<1> DEFINE old    == [t EXCEPT !.reset_on_fork = reset]
           set    == [old EXCEPT !.policy = policy, !.rt_priority = prio]
           normal == [set EXCEPT !.normal_prio = normal_prio(set)]
           eff    == rt_mutex_getprio(normal)
           class  == IF policy = "WRR" THEN "wrr"
                     ELSE IF rt_prio(eff) THEN "rt" ELSE "fair"
<1>1. u = [normal EXCEPT !.prio = eff, !.sched_class = class]
  BY DEF do_setscheduler
<1>2. set \in TaskRec /\ set.pi = t.pi /\ set.time_slice = t.time_slice
  BY DEF TaskRec
<1> HIDE DEF set
<1>3. normal_prio(set) \in Prio
  BY <1>2 DEF TaskRec, normal_prio, Prio, MAX_PRIO, MAX_RT_PRIO
<1>4. normal \in TaskRec /\ normal.pi = t.pi /\ normal.time_slice = t.time_slice
  BY <1>2, <1>3 DEF TaskRec
<1> HIDE DEF normal
<1>5. eff <= t.pi
  BY <1>4, GetprioBound DEF TaskRec
<1> HIDE DEF eff, class
<1>6. u.prio = eff /\ u.pi = t.pi /\ u.time_slice = t.time_slice
  BY <1>1, <1>4 DEF TaskRec
<1>7. SliceKeeps(t, u)
  BY <1>6, SliceSame, SliceNat
<1> QED BY <1>5, <1>6, <1>7 DEF TaskFine, BoostOk

(* set_user_nice lowers no boosted task, and rt_mutex_adjust_prio boosts.  *)
LEMMA FineNice ==
  ASSUME NEW t \in TaskRec, NEW nice \in -20 .. 19
  PROVE  TaskFine(t, WithNice(t, nice)) /\ TaskFine(t, WithPrio(WithNice(t, nice)))
<1> DEFINE u == WithNice(t, nice)
           v == WithPrio(u)
<1>1. /\ u \in TaskRec /\ u.prio = t.prio /\ u.pi = t.pi /\ u.time_slice = t.time_slice
  BY DEF WithNice, TaskRec, NICE_TO_PRIO, MAX_RT_PRIO, MAX_PRIO
<1> HIDE DEF u
<1>2. v.prio = effective_prio(u) /\ v.pi = u.pi /\ v.time_slice = u.time_slice
  BY <1>1 DEF WithPrio, TaskRec
<1> HIDE DEF v
<1>3. t.prio \in Prio /\ t.pi \in Prio
  BY DEF TaskRec
<1>4. BoostOk(t) => BoostOk(v)
  BY <1>1, <1>2, <1>3 DEF BoostOk, effective_prio, rt_prio, Prio, MAX_PRIO, MAX_RT_PRIO
<1>5. SliceKeeps(t, v) /\ TaskFine(t, u)
  BY <1>1, <1>2, SliceSame, SliceNat, FineSame
<1>6. TaskFine(t, v)
  BY <1>4, <1>5 DEF TaskFine
<1> QED BY <1>5, <1>6 DEF u, v

(* A new top waiter.                                                       *)
LEMMA FinePi ==
  ASSUME NEW t \in TaskRec, NEW pi \in Prio, NEW set, set = [t EXCEPT !.pi = pi],
         NEW prio, prio = rt_mutex_getprio(set),
         NEW u, (u = set /\ prio = t.prio) \/ u = setprio(set, prio)
  PROVE  TaskFine(t, u)
<1>1. set \in TaskRec /\ set.pi = pi /\ set.time_slice = t.time_slice /\ set.prio = t.prio
  BY DEF TaskRec
<1>2. prio <= pi
  BY <1>1, GetprioBound DEF TaskRec
<1>3. u.prio = prio /\ u.pi = pi /\ u.time_slice = t.time_slice
  BY <1>1 DEF setprio, TaskRec
<1>4. SliceKeeps(t, u)
  BY <1>3, SliceSame, SliceNat
<1> QED BY <1>2, <1>3, <1>4 DEF TaskFine, BoostOk

(* No step deprives a lock's owner of the priority of its top waiter, or   *)
(* does to a slice what SliceKeeps forbids.                                *)
LEMMA FineStep ==
  ASSUME CoreInv, Next
  PROVE  \A p \in Tasks : TaskFine(task[p], task'[p])
<1>0. /\ task \in [Tasks -> TaskRec] /\ call \in [Tasks -> CallRec]
      /\ curr # Idle => curr \in Tasks
  BY DEF CoreInv, QueueInv, AllGood
<1>nat. \A p \in Tasks : task[p].time_slice \in Nat
  BY <1>0, SliceNat
<1>1. ASSUME \A p \in Tasks : /\ task'[p].prio = task[p].prio /\ task'[p].pi = task[p].pi
                              /\ task'[p].time_slice = task[p].time_slice
      PROVE  \A p \in Tasks : TaskFine(task[p], task'[p])
  BY <1>1, <1>nat, FineSame
<1>2. ASSUME UNCHANGED task PROVE \A p \in Tasks : TaskFine(task[p], task'[p])
  BY <1>1, <1>2
<1>3. CASE \/ \E s \in SleepStates \cup {"RUNNING"} : SetCurrentState(s)
           \/ ScheduleRunnable \/ ScheduleSleep \/ ExitSchedule
  <2>1. curr \in Tasks
    BY <1>0, <1>3 DEF SetCurrentState, ScheduleRunnable, ScheduleSleep, ExitSchedule, Resumes
  <2>2. \/ \E s : task' = [task EXCEPT ![curr] = [task[curr] EXCEPT !.state = s]]
        \/ \E s : task' = [task EXCEPT ![curr] = [task[curr] EXCEPT !.state = s, !.on_rq = FALSE]]
        \/ task' = [task EXCEPT ![curr] = [task[curr] EXCEPT !.on_rq = FALSE]]
    <3>1. ASSUME NEW s, SetCurrentState(s)
          PROVE  task' = [task EXCEPT ![curr] = [task[curr] EXCEPT !.state = s]]
      BY <3>1 DEF SetCurrentState
    <3>2. ASSUME ScheduleRunnable
          PROVE  task' = [task EXCEPT ![curr] = [task[curr] EXCEPT !.state = "RUNNING"]]
      BY <3>2 DEF ScheduleRunnable, SwitchTo
    <3>3. ASSUME ScheduleSleep
          PROVE  task' = [task EXCEPT ![curr] = [task[curr] EXCEPT !.on_rq = FALSE]]
      BY <3>3 DEF ScheduleSleep, SwitchTo, put_to_sleep
    <3>4. ASSUME ExitSchedule
          PROVE  task' = [task EXCEPT ![curr] = [task[curr] EXCEPT !.state = "DEAD", !.on_rq = FALSE]]
      <4>1. task' = [task EXCEPT ![curr] = put_to_sleep([task[curr] EXCEPT !.state = "DEAD"])]
        BY <3>4 DEF ExitSchedule, SwitchTo
      <4>2. put_to_sleep([task[curr] EXCEPT !.state = "DEAD"])
              = [task[curr] EXCEPT !.state = "DEAD", !.on_rq = FALSE]
        BY <1>0, <2>1 DEF TaskRec, put_to_sleep
      <4> QED BY <4>1, <4>2
    <3> QED BY <1>3, <3>1, <3>2, <3>3, <3>4
  <2>3. PICK u : /\ task' = [task EXCEPT ![curr] = u]
                 /\ u.prio = task[curr].prio /\ u.pi = task[curr].pi
                 /\ u.time_slice = task[curr].time_slice
    BY <1>0, <2>1, <2>2 DEF TaskRec
  <2>4. TaskFine(task[curr], u)
    BY <2>1, <2>3, <1>nat, FineSame
  <2> QED BY <1>0, <2>1, <2>3, <2>4, FineOne
<1>4. CASE \/ \E w \in Tasks : ScheduleWorkerSleep(w)
           \/ \E w \in Tasks : Wake(w)
           \/ WakeUpNewTask
  <2>1. ASSUME NEW w \in Tasks, ScheduleWorkerSleep(w)
        PROVE  \A p \in Tasks : TaskFine(task[p], task'[p])
    <3>1. /\ curr \in Tasks /\ w # curr
          /\ task' = [task EXCEPT ![curr] = put_to_sleep(task[curr]),
                                  ![w].on_rq = TRUE, ![w].state = "RUNNING"]
      BY <1>0, <2>1 DEF ScheduleWorkerSleep, SwitchTo
    <3>2. /\ \A p \in Tasks \ {curr, w} : task'[p] = task[p]
          /\ task'[curr] = [task[curr] EXCEPT !.on_rq = FALSE]
          /\ task'[w] = [task[w] EXCEPT !.on_rq = TRUE, !.state = "RUNNING"]
      BY <1>0, <3>1 DEF put_to_sleep, TaskRec
    <3>3. \A p \in {curr, w} : /\ task'[p].prio = task[p].prio /\ task'[p].pi = task[p].pi
                               /\ task'[p].time_slice = task[p].time_slice
      BY <1>0, <3>1, <3>2 DEF TaskRec
    <3>4. \A p \in Tasks : /\ task'[p].prio = task[p].prio /\ task'[p].pi = task[p].pi
                           /\ task'[p].time_slice = task[p].time_slice
      BY <3>2, <3>3
    <3> QED BY <1>1, <3>4
  <2>2. ASSUME NEW w \in Tasks, Wake(w)
        PROVE  \A p \in Tasks : TaskFine(task[p], task'[p])
    <3> DEFINE u == [task[w] EXCEPT !.state = "RUNNING", !.on_rq = TRUE]
    <3>1. task' = [task EXCEPT ![w] = u]
      BY <1>0, <2>2 DEF Wake, TaskRec
    <3>2. u.prio = task[w].prio /\ u.pi = task[w].pi /\ u.time_slice = task[w].time_slice
      BY <1>0 DEF TaskRec
    <3> HIDE DEF u
    <3> QED BY <1>0, <3>1, <3>2, <1>nat, FineSame, FineOne
  <2>3. ASSUME WakeUpNewTask PROVE \A p \in Tasks : TaskFine(task[p], task'[p])
    <3> DEFINE w == call[curr].target
               u == [task[w] EXCEPT !.on_rq = TRUE, !.alloc = "live"]
    <3>0. w \in Tasks
      BY <1>0, <2>3 DEF WakeUpNewTask, Resumes, CallRec
    <3>1. task' = [task EXCEPT ![w] = u]
      BY <1>0, <2>3, <3>0 DEF WakeUpNewTask, TaskRec
    <3> HIDE DEF w
    <3>2. u.prio = task[w].prio /\ u.pi = task[w].pi /\ u.time_slice = task[w].time_slice
      BY <1>0, <3>0 DEF TaskRec
    <3> HIDE DEF u
    <3> QED BY <1>0, <3>0, <3>1, <3>2, <1>nat, FineSame, FineOne
  <2> QED BY <1>4, <2>1, <2>2, <2>3
<1>5. CASE ExitCgroup \/ AttachMove
  <2>1. \/ UNCHANGED task
        \/ \E p \in Tasks : \E g : task' = [task EXCEPT ![p] = [task[p] EXCEPT !.group = g]]
    BY <1>0, <1>5 DEF ExitCgroup, AttachMove, InSyscall, Resumes, ChangeTask, CallRec
  <2>2. ASSUME NEW p \in Tasks, NEW g, task' = [task EXCEPT ![p] = [task[p] EXCEPT !.group = g]]
        PROVE  \A q \in Tasks : TaskFine(task[q], task'[q])
    <3> DEFINE u == [task[p] EXCEPT !.group = g]
    <3>1. u.prio = task[p].prio /\ u.pi = task[p].pi /\ u.time_slice = task[p].time_slice
      BY <1>0 DEF TaskRec
    <3>2. TaskFine(task[p], u)
      <4> HIDE DEF u
      <4> QED BY <3>1, <1>nat, FineSame
    <3> QED BY <1>0, <2>2, <3>2, FineOne
  <2> QED BY <1>2, <2>1, <2>2
<1>6. ASSUME NEW c \in Tasks, SchedFork(c) PROVE \A p \in Tasks : TaskFine(task[p], task'[p])
  <2>1. /\ task[c].alloc = "free" /\ curr \in Tasks
        /\ task' = [task EXCEPT ![c] = sched_fork(task[curr])]
    BY <1>0, <1>6 DEF SchedFork, InSyscall
  <2>2. task[curr] \in TaskRec
    BY <1>0, <2>1
  <2>3. sched_fork(task[curr]).pi = MAX_PRIO
    BY <2>2 DEF sched_fork, TaskRec
  <2>4. ~rt_prio(MAX_PRIO)
    BY DEF rt_prio, MAX_PRIO, MAX_RT_PRIO
  <2>5. TaskFine(task[c], sched_fork(task[curr]))
    BY <2>1, <2>3, <2>4 DEF TaskFine, BoostOk
  <2> QED BY <1>0, <2>1, <2>5, FineOne
<1>7. ASSUME NEW p \in Tasks, NEW policy \in SchedPolicies, NEW prio \in 0 .. MAX_RT_PRIO - 1,
             NEW reset \in BOOLEAN, ApplyScheduler(p, policy, prio, reset)
      PROVE  \A q \in Tasks : TaskFine(task[q], task'[q])
  <2> DEFINE u == do_setscheduler([task[p] EXCEPT !.reset_on_fork = reset], policy, prio)
  <2>1. task' = [task EXCEPT ![p] = u]
    BY <1>7 DEF ApplyScheduler, ChangeTask
  <2>2. TaskFine(task[p], u)
    BY <1>0, FineSetscheduler
  <2> HIDE DEF u
  <2> QED BY <1>0, <2>1, <2>2, FineOne
<1>8. ASSUME NEW p \in Tasks, NEW sp \in SchedParams, NEW reset \in ResetFlags,
             SetScheduler(p, sp[1], sp[2], reset)
      PROVE  \A q \in Tasks : TaskFine(task[q], task'[q])
  <2>1. sp[1] \in SchedPolicies /\ sp[2] \in 0 .. MAX_RT_PRIO - 1 /\ reset \in BOOLEAN
    BY InputAssumption
  <2> QED BY <1>7, <1>8, <2>1 DEF SetScheduler
<1>9. CASE SetparamApply
  <2> DEFINE c == call[curr]
  <2>1. c \in CallRec /\ ApplyScheduler(c.target, c.policy, c.prio, c.reset)
    BY <1>0, <1>9 DEF SetparamApply, Resumes
  <2> HIDE DEF c
  <2>2. /\ c.target \in Tasks /\ c.policy \in SchedPolicies
        /\ c.prio \in 0 .. MAX_RT_PRIO - 1 /\ c.reset \in BOOLEAN
    BY <2>1 DEF CallRec
  <2> QED BY <1>7, <2>1, <2>2
<1>10. ASSUME NEW p \in Tasks, NEW nice \in Nices, SetUserNice(p, nice)
       PROVE  \A q \in Tasks : TaskFine(task[q], task'[q])
  <2>1. PICK u \in {WithNice(task[p], nice), WithPrio(WithNice(task[p], nice))} :
          task' = [task EXCEPT ![p] = u]
    BY <1>10 DEF SetUserNice, ChangeTask, WithNice, WithPrio
  <2>2. nice \in -20 .. 19
    BY InputAssumption
  <2>3. TaskFine(task[p], u)
    BY <1>0, <2>1, <2>2, FineNice
  <2> QED BY <1>0, <2>1, <2>3, FineOne
<1>11. ASSUME NEW p \in Tasks, NEW pi \in PiPrios \cup {MAX_PRIO}, RtMutexAdjustPrio(p, pi)
       PROVE  \A q \in Tasks : TaskFine(task[q], task'[q])
  <2> DEFINE set == [task[p] EXCEPT !.pi = pi]
             prio == rt_mutex_getprio(set)
  <2>1. PICK u : /\ task' = [task EXCEPT ![p] = u]
                 /\ (u = set /\ prio = task[p].prio) \/ u = setprio(set, prio)
    BY <1>11 DEF RtMutexAdjustPrio, ChangeTask
  <2>2. pi \in Prio
    BY InputAssumption DEF Prio, MAX_PRIO, MAX_RT_PRIO
  <2> HIDE DEF set, prio
  <2>3. TaskFine(task[p], u)
    BY <1>0, <2>1, <2>2, FinePi DEF set, prio
  <2> QED BY <1>0, <2>1, <2>3, FineOne
<1>12. CASE TickWrr
  <2> DEFINE t == task[curr]
             slice == decrement(t.time_slice)
  <2>1. CASE UNCHANGED task
    BY <1>2, <2>1
  <2>2. CASE ~UNCHANGED task
    <3>1. curr \in Tasks
      BY <1>0, <1>12 DEF TickWrr, ClassOf
    <3>2. PICK n : /\ task' = [task EXCEPT ![curr] = [t EXCEPT !.time_slice = n]]
                   /\ (n = slice /\ slice # 0) \/ (n = refill(t) /\ slice = 0)
      BY <1>12, <2>2 DEF TickWrr
    <3>3. t \in TaskRec
      BY <1>0, <3>1
    <3> HIDE DEF t
    <3> DEFINE u == [t EXCEPT !.time_slice = n]
    <3>4. u.prio = t.prio /\ u.pi = t.pi /\ u.time_slice = n /\ u.group = t.group
      BY <3>3 DEF TaskRec
    <3>5. SliceKeeps(t, u)
      <4> DEFINE quota == Quota(t.group)
      <4>1. t.time_slice \in Nat /\ quota \in Nat /\ Quota(u.group) = quota
        BY <3>3, <3>4, SliceNat, QuotaIs
      <4>2. t.time_slice > 0 => slice = t.time_slice - 1
        BY <4>1 DEF decrement
      <4>3. quota > 0 => refill(t) \in 1 .. quota
        BY SliceAssumption DEF refill, Quota, FOREGROUP, BACKGROUP
      <4>4. (n = slice /\ slice # 0) \/ (n = refill(t) /\ slice = 0)
        BY <3>2
      <4> HIDE DEF slice, u, quota
      <4>5. t.time_slice \in 1 .. quota => n \in 1 .. quota
        BY <4>1, <4>2, <4>3, <4>4
      <4>6. quota > 0 /\ t.time_slice > quota => n \in 1 .. t.time_slice
        BY <4>1, <4>2, <4>4
      <4> QED BY <3>4, <4>1, <4>5, <4>6 DEF SliceKeeps, WithinQuota, quota
    <3>6. TaskFine(t, u)
      <4> HIDE DEF u
      <4> QED BY <3>4, <3>5 DEF TaskFine, BoostOk
    <3> QED BY <1>0, <3>1, <3>2, <3>6, FineOne DEF t
  <2> QED BY <2>1, <2>2
<1>13. CASE \/ Preempt \/ Yield \/ SetparamReturn \/ SetparamRecheck
            \/ (\E p \in Tasks, prio \in ParamPrios : SetparamRead(p, prio))
            \/ (\E p \in Tasks, g \in Groups : CanAttach(p, g))
            \/ TickOther \/ RtRuntimeExceeded \/ RtPeriodTimer
  BY <1>2, <1>13 DEF Preempt, Yield, SetparamReturn, SetparamRecheck, SetparamRead, CanAttach,
       TickOther, RtRuntimeExceeded, RtPeriodTimer, SwitchTo
<1> QED BY <1>3, <1>4, <1>5, <1>6, <1>8, <1>9, <1>10, <1>11, <1>12, <1>13 DEF Next, Tick

(* Whatever is done to a lock owner's own policy and nice value, it keeps  *)
(* at least the priority of the real-time task that waits for it.          *)
THEOREM BoostKept == Spec => []BoostHeld
<1>1. Init => BoostHeld
  <2>1. ASSUME Init PROVE BoostHeld
    <3>1. \A p \in Tasks : task[p].pi = MAX_PRIO
      BY <2>1 DEF Init, NewTask
    <3> QED BY <3>1 DEF BoostHeld, rt_prio, MAX_PRIO, MAX_RT_PRIO
  <2> QED BY <2>1
<1>2. CoreInv /\ BoostHeld /\ [Next]_vars => BoostHeld'
  <2>1. CASE Next
    BY <2>1, FineStep DEF BoostHeld, TaskFine, BoostOk
  <2>2. CASE UNCHANGED vars
    BY <2>2 DEF vars, BoostHeld
  <2> QED BY <2>1, <2>2
<1> QED BY <1>1, <1>2, InitInv, Inductive, PTL DEF Spec

(* A slice within the quota of the task's group stays within it, unless    *)
(* the task moves to another group and keeps what is left; a slice past    *)
(* the quota is only used up: task_tick_wrr refills, by the task's group,  *)
(* before the unsigned decrement wraps.                                    *)
THEOREM SliceKept == Spec => SliceStaysGood
<1>1. CoreInv /\ [Next]_vars =>
        [\A p \in Tasks :
           task[p].alloc # "free" => SliceKeeps(task[p], task'[p])]_vars
  BY FineStep DEF TaskFine
<1> QED BY <1>1, InitInv, Inductive, PTL DEF Spec, SliceStaysGood

-----------------------------------------------------------------------------
(* The load.                                                               *)
Sleeping(T) ==
  {p \in Tasks : /\ T[p].alloc = "live"
                 /\ ~T[p].on_rq
                 /\ T[p].state = "UNINTERRUPTIBLE"}

LoadOk(r, T) == r.nr_uninterruptible = Cardinality(Sleeping(T))

(* Queueing, dequeueing and requeueing leave the count alone.              *)
LEMMA CountKept ==
  ASSUME NEW r \in RqType, NEW p, NEW class \in {"rt", "wrr", "fair"}
  PROVE  /\ \A head : enqueue_task(r, p, class, head).nr_uninterruptible = r.nr_uninterruptible
         /\ dequeue_task(r, p, class).nr_uninterruptible = r.nr_uninterruptible
         /\ requeue_task_wrr(r, p).nr_uninterruptible = r.nr_uninterruptible
         /\ \A to \in {"rt", "wrr", "fair"} : \A head :
              enqueue_task(dequeue_task(r, p, class), p, to, head).nr_uninterruptible
                = r.nr_uninterruptible
<1> DEFINE IsRq(x) == x = [ queue |-> x.queue, wrr_nr_running |-> x.wrr_nr_running,
               nr_running |-> x.nr_running, h_nr_running |-> x.h_nr_running,
               nr_uninterruptible |-> x.nr_uninterruptible ]
<1>1. IsRq(r)
  BY RqFields
<1>2. ASSUME NEW x, IsRq(x), NEW c \in {"rt", "wrr", "fair"}, NEW h
      PROVE  /\ IsRq(enqueue_task(x, p, c, h))
             /\ enqueue_task(x, p, c, h).nr_uninterruptible = x.nr_uninterruptible
  BY <1>2 DEF enqueue_task, enqueue_task_wrr, enqueue_task_rt, enqueue_task_fair
<1>3. ASSUME NEW x, IsRq(x), NEW c \in {"rt", "wrr", "fair"}
      PROVE  /\ IsRq(dequeue_task(x, p, c))
             /\ dequeue_task(x, p, c).nr_uninterruptible = x.nr_uninterruptible
  BY <1>3 DEF dequeue_task, dequeue_task_wrr, dequeue_task_rt, dequeue_task_fair
<1>4. requeue_task_wrr(r, p).nr_uninterruptible = r.nr_uninterruptible
  BY DEF requeue_task_wrr, RqType
<1> HIDE DEF IsRq
<1> QED BY <1>1, <1>2, <1>3, <1>4

(* activate_task counts out a sleeper it sees in the state it was counted  *)
(* in with.                                                                *)
LEMMA LoadActivate ==
  ASSUME NEW T \in [Tasks -> TaskRec], NEW r \in RqType, LoadOk(r, T),
         NEW p \in Tasks, ~T[p].on_rq, T[p].alloc = "live" \/ T[p].state = "RUNNING",
         NEW U, \A q \in Tasks \ {p} : U[q] = T[q], U[p].on_rq
  PROVE  LoadOk(activate_task(r, p, T[p]), U)
<1> DEFINE e == enqueue_task(r, p, T[p].sched_class, FALSE)
<1>1. T[p].sched_class \in {"rt", "wrr", "fair"}
  BY DEF TaskRec
<1>2. e.nr_uninterruptible = r.nr_uninterruptible
  <2> DEFINE class == T[p].sched_class
  <2>1. \A head : enqueue_task(r, p, class, head).nr_uninterruptible = r.nr_uninterruptible
    <3> HIDE DEF class
    <3> QED BY <1>1, CountKept DEF class
  <2> HIDE DEF class
  <2>2. enqueue_task(r, p, class, FALSE).nr_uninterruptible = r.nr_uninterruptible
    BY <2>1, Zenon
  <2> QED BY <2>2 DEF class
<1>3. "nr_uninterruptible" \in DOMAIN e
  BY <1>1 DEF enqueue_task, enqueue_task_wrr, enqueue_task_rt, enqueue_task_fair, RqType
<1>4. activate_task(r, p, T[p]).nr_uninterruptible =
        IF T[p].state = "UNINTERRUPTIBLE" THEN r.nr_uninterruptible - 1 ELSE r.nr_uninterruptible
  <2> HIDE DEF e
  <2> QED BY <1>2, <1>3 DEF activate_task, task_contributes_to_load, e
<1>5. IsFiniteSet(Sleeping(T))
  BY TasksAssumption, FS_Subset DEF Sleeping
<1>6. Sleeping(U) = Sleeping(T) \ {p}
  BY DEF Sleeping
<1>7. p \in Sleeping(T) <=> T[p].state = "UNINTERRUPTIBLE"
  BY DEF Sleeping
<1>8. p \in Sleeping(T) => Cardinality(Sleeping(T) \ {p}) = Cardinality(Sleeping(T)) - 1
  BY <1>5, FS_RemoveElement
<1>9. p \notin Sleeping(T) => Sleeping(T) \ {p} = Sleeping(T)
  OBVIOUS
<1> QED BY <1>4, <1>6, <1>7, <1>8, <1>9 DEF LoadOk

(* deactivate_task counts a task that goes to sleep uninterruptibly.       *)
LEMMA LoadDeactivate ==
  ASSUME NEW T \in [Tasks -> TaskRec], NEW r \in RqType, LoadOk(r, T),
         NEW p \in Tasks, T[p].on_rq, NEW t, t.sched_class = T[p].sched_class,
         NEW U, \A q \in Tasks \ {p} : U[q] = T[q],
         ~U[p].on_rq, U[p].alloc = "live", U[p].state = t.state
  PROVE  LoadOk(deactivate_task(r, p, t), U)
<1> DEFINE e == dequeue_task(r, p, t.sched_class)
<1>1. t.sched_class \in {"rt", "wrr", "fair"}
  BY DEF TaskRec
<1>2. e.nr_uninterruptible = r.nr_uninterruptible
  BY <1>1, CountKept
<1>3. "nr_uninterruptible" \in DOMAIN e
  BY <1>1 DEF dequeue_task, dequeue_task_wrr, dequeue_task_rt, dequeue_task_fair, RqType
<1>4. deactivate_task(r, p, t).nr_uninterruptible =
        IF t.state = "UNINTERRUPTIBLE" THEN r.nr_uninterruptible + 1 ELSE r.nr_uninterruptible
  <2> HIDE DEF e
  <2> QED BY <1>2, <1>3 DEF deactivate_task, task_contributes_to_load, e
<1>5. IsFiniteSet(Sleeping(T)) /\ p \notin Sleeping(T)
  BY TasksAssumption, FS_Subset DEF Sleeping
<1>6. Sleeping(U) = IF t.state = "UNINTERRUPTIBLE" THEN Sleeping(T) \cup {p} ELSE Sleeping(T)
  BY DEF Sleeping
<1>7. Cardinality(Sleeping(T) \cup {p}) = Cardinality(Sleeping(T)) + 1
  BY <1>5, FS_AddElement
<1> QED BY <1>4, <1>6, <1>7 DEF LoadOk

(* A step that puts nothing to sleep and wakes nothing.                    *)
LEMMA LoadSame ==
  ASSUME LoadOk(rq, task), rq'.nr_uninterruptible = rq.nr_uninterruptible,
         \A p \in Tasks : p \in Sleeping(task') <=> p \in Sleeping(task)
  PROVE  LoadOk(rq', task')
<1>1. Sleeping(task') = Sleeping(task)
  BY DEF Sleeping
<1> QED BY <1>1 DEF LoadOk

(* The same when one task is dequeued, changed and queued again.           *)
LEMMA LoadChange ==
  ASSUME QueueInv, LoadOk(rq, task), NEW p \in Tasks, NEW t \in TaskRec, NEW head,
         t.on_rq = task[p].on_rq, t.alloc = task[p].alloc, t.state = task[p].state,
         task' = [task EXCEPT ![p] = t], rq' = rq \/ ChangeTask(p, t, head)
  PROVE  LoadOk(rq', task')
<1>1. task \in [Tasks -> TaskRec] /\ rq \in RqType
  BY DEF QueueInv, AllGood, Agrees, RqInv
<1>2. /\ task[p].sched_class \in {"rt", "wrr", "fair"} /\ t.sched_class \in {"rt", "wrr", "fair"}
  BY <1>1 DEF TaskRec
<1>3. rq'.nr_uninterruptible = rq.nr_uninterruptible
  BY <1>1, <1>2, CountKept DEF ChangeTask
<1>4. \A q \in Tasks : q \in Sleeping(task') <=> q \in Sleeping(task)
  BY <1>1 DEF Sleeping
<1> QED BY <1>3, <1>4, LoadSame

(* Every deactivate_task that counts a sleeper is matched by the one       *)
(* activate_task that sees the same state.                                 *)
LEMMA LoadStep ==
  ASSUME CoreInv, LoadOk(rq, task), Next
  PROVE  LoadOk(rq', task')
<1>0. /\ QueueInv /\ AllGood(task) /\ task \in [Tasks -> TaskRec] /\ rq \in RqType
      /\ call \in [Tasks -> CallRec] /\ Agrees(rq, task) /\ \A p \in Tasks : TaskGood(task[p])
      /\ curr # Idle => curr \in Tasks /\ task[curr].on_rq
  BY DEF CoreInv, QueueInv, AllGood, Agrees, RqInv
<1>r. LoadOk(rq, task) /\ rq \in RqType /\ task \in [Tasks -> TaskRec]
  BY <1>0
<1>1. ASSUME UNCHANGED <<rq, task>> PROVE LoadOk(rq', task')
  BY <1>1
<1>2. ASSUME NEW s \in SleepStates \cup {"RUNNING"}, SetCurrentState(s)
      PROVE  LoadOk(rq', task')
  <2>1. /\ curr \in Tasks /\ task[curr].on_rq /\ rq' = rq
        /\ task' = [task EXCEPT ![curr] = [task[curr] EXCEPT !.state = s]]
    BY <1>0, <1>2 DEF SetCurrentState
  <2>2. [task[curr] EXCEPT !.state = s].on_rq
    BY <1>0, <2>1 DEF TaskRec
  <2>3. \A p \in Tasks : p \in Sleeping(task') <=> p \in Sleeping(task)
    BY <1>0, <2>1, <2>2 DEF Sleeping
  <2> QED BY <2>1, <2>3, LoadSame
<1>3. CASE Preempt \/ Yield
  <2>1. /\ task' = task
        /\ rq' = rq \/ rq' = requeue_task_wrr(rq, curr)
    BY <1>3 DEF Preempt, Yield, SwitchTo
  <2>2. requeue_task_wrr(rq, curr).nr_uninterruptible = rq.nr_uninterruptible
    BY <1>0, CountKept
  <2> QED BY <2>1, <2>2, LoadSame
<1>4. CASE ScheduleRunnable
  <2> DEFINE t == [task[curr] EXCEPT !.state = "RUNNING"]
  <2>1. curr \in Tasks /\ task[curr].on_rq /\ rq' = rq /\ task' = [task EXCEPT ![curr] = t]
    BY <1>0, <1>4 DEF ScheduleRunnable, SwitchTo
  <2>2. t.on_rq
    BY <1>0, <2>1 DEF TaskRec
  <2> HIDE DEF t
  <2>3. \A p \in Tasks : p \in Sleeping(task') <=> p \in Sleeping(task)
    BY <1>0, <2>1, <2>2 DEF Sleeping
  <2> QED BY <2>1, <2>3, LoadSame
<1>5. CASE ScheduleSleep \/ ExitSchedule
  <2>0. /\ curr \in Tasks /\ task[curr].on_rq /\ task[curr].alloc = "live"
        /\ task[curr] \in TaskRec
    BY <1>0, <1>5 DEF ScheduleSleep, ExitSchedule, Resumes, TaskGood
  <2>1. PICK t \in TaskRec :
          /\ t.sched_class = task[curr].sched_class /\ t.alloc = "live"
          /\ rq' = deactivate_task(rq, curr, t)
          /\ task' = [task EXCEPT ![curr] = put_to_sleep(t)]
    <3>1. CASE ScheduleSleep
      BY <2>0, <3>1 DEF ScheduleSleep, SwitchTo
    <3>2. CASE ExitSchedule
      <4>1. /\ rq' = deactivate_task(rq, curr, [task[curr] EXCEPT !.state = "DEAD"])
            /\ task' = [task EXCEPT ![curr] = put_to_sleep([task[curr] EXCEPT !.state = "DEAD"])]
        BY <3>2 DEF ExitSchedule, SwitchTo
      <4>2. /\ [task[curr] EXCEPT !.state = "DEAD"] \in TaskRec
            /\ [task[curr] EXCEPT !.state = "DEAD"].sched_class = task[curr].sched_class
            /\ [task[curr] EXCEPT !.state = "DEAD"].alloc = "live"
        BY <2>0 DEF TaskRec
      <4> QED BY <4>1, <4>2
    <3> QED BY <1>5, <3>1, <3>2
  <2>2. ~put_to_sleep(t).on_rq /\ put_to_sleep(t).alloc = "live" /\ put_to_sleep(t).state = t.state
    BY <2>1 DEF put_to_sleep, TaskRec
  <2>3. task'[curr] = put_to_sleep(t) /\ \A q \in Tasks \ {curr} : task'[q] = task[q]
    BY <1>0, <2>0, <2>1
  <2>4. task'[curr].alloc = "live" /\ task'[curr].state = t.state /\ ~task'[curr].on_rq
    BY <2>2, <2>3
  <2>5. LoadOk(deactivate_task(rq, curr, t), task')
    BY <1>r, <2>0, <2>1, <2>3, <2>4, LoadDeactivate
  <2> QED BY <2>1, <2>5
<1>6. ASSUME NEW w \in Tasks, ScheduleWorkerSleep(w) PROVE LoadOk(rq', task')
  <2> DEFINE t == put_to_sleep(task[curr])
             v == [task[w] EXCEPT !.state = "RUNNING", !.on_rq = TRUE]
             M == [task EXCEPT ![curr] = t]
             d == deactivate_task(rq, curr, task[curr])
  <2>1. /\ curr \in Tasks /\ task[curr].on_rq /\ task[curr].alloc = "live" /\ w # curr
        /\ task[w].alloc = "live" /\ task[curr].state # "RUNNING"
    BY <1>0, <1>6 DEF ScheduleWorkerSleep, TaskGood
  <2>2. TaskGood(t) /\ ~t.on_rq /\ t.alloc = "live" /\ t.state = task[curr].state
    BY <1>0, <2>1, GoodSleep DEF put_to_sleep, TaskRec
  <2>3. v.on_rq /\ v \in TaskRec
    <3>1. TaskGood(task[w]) BY <1>0
    <3>2. TaskGood(v) BY <2>1, <3>1, GoodState
    <3>3. task[w] \in TaskRec BY <3>1 DEF TaskGood
    <3>4. v.on_rq BY <3>3 DEF TaskRec
    <3> QED BY <3>2, <3>4 DEF TaskGood
  <2>4. /\ rq' = IF task[w].on_rq THEN d ELSE activate_task(d, w, task[w])
        /\ task' = [M EXCEPT ![w] = v]
    <3>1. [M EXCEPT ![w] = v] = [task EXCEPT ![curr] = put_to_sleep(task[curr]),
                                             ![w].on_rq = TRUE, ![w].state = "RUNNING"]
      BY <1>0, <2>1 DEF TaskRec
    <3> QED BY <1>6, <3>1 DEF ScheduleWorkerSleep, ttwu, SwitchTo
  <2> HIDE DEF t, v
  <2>5. Changed(curr, t, task, M)
    BY <1>0, <2>1, <2>2 DEF Changed, TaskGood
  <2>6. /\ M \in [Tasks -> TaskRec] /\ M[curr] = t /\ M[w] = task[w]
        /\ \A q \in Tasks \ {curr} : M[q] = task[q]
    BY <2>1, <2>5 DEF Changed
  <2>7. task'[w] = v /\ \A q \in Tasks \ {w} : task'[q] = M[q]
    BY <2>4, <2>6
  <2> HIDE DEF M
  <2>8. LoadOk(d, M)
    BY <1>0, <2>1, <2>2, <2>6, LoadDeactivate
  <2>9. d \in RqType
    <3>1. OnlyAt(curr, task, M) /\ ~M[curr].on_rq
      BY <2>2, <2>6 DEF OnlyAt
    <3>2. Agrees(d, M)
      BY <1>0, <2>1, <3>1, DeactivateAgrees
    <3> QED BY <3>2 DEF Agrees, RqInv
  <2> HIDE DEF d
  <2>10. CASE task[w].on_rq
    <3>1. \A p \in Tasks : p \in Sleeping(task') <=> p \in Sleeping(M)
      BY <2>3, <2>6, <2>7, <2>10 DEF Sleeping
    <3>2. Sleeping(task') = Sleeping(M)
      BY <3>1 DEF Sleeping
    <3> QED BY <2>4, <2>8, <2>10, <3>2 DEF LoadOk
  <2>11. CASE ~task[w].on_rq
    <3>1. LoadOk(activate_task(d, w, M[w]), task')
      BY <2>1, <2>3, <2>6, <2>7, <2>8, <2>9, <2>11, LoadActivate
    <3> QED BY <2>4, <2>6, <2>11, <3>1
  <2> QED BY <2>10, <2>11
<1>7. ASSUME NEW p \in Tasks, Wake(p) PROVE LoadOk(rq', task')
  <2> DEFINE v == [task[p] EXCEPT !.state = "RUNNING", !.on_rq = TRUE]
  <2>1. /\ task[p].alloc = "live" /\ task' = [task EXCEPT ![p] = v]
        /\ rq' = IF task[p].on_rq THEN rq ELSE activate_task(rq, p, task[p])
    BY <1>0, <1>7 DEF Wake, ttwu, TaskRec
  <2>2. v.on_rq
    BY <1>0 DEF TaskRec
  <2> HIDE DEF v
  <2>3. task'[p] = v /\ \A q \in Tasks \ {p} : task'[q] = task[q]
    BY <1>0, <2>1
  <2>4. CASE task[p].on_rq
    <3>1. \A q \in Tasks : q \in Sleeping(task') <=> q \in Sleeping(task)
      BY <2>2, <2>3, <2>4 DEF Sleeping
    <3> QED BY <2>1, <2>4, <3>1, LoadSame
  <2>5. CASE ~task[p].on_rq
    <3>1. LoadOk(activate_task(rq, p, task[p]), task')
      <4>1. task'[p].on_rq /\ \A q \in Tasks \ {p} : task'[q] = task[q]
        BY <2>2, <2>3
      <4> QED BY <1>r, <2>1, <2>5, <4>1, LoadActivate
    <3> QED BY <2>1, <2>5, <3>1
  <2> QED BY <2>4, <2>5
<1>8. ASSUME NEW c \in Tasks, SchedFork(c) PROVE LoadOk(rq', task')
  <2>1. /\ curr \in Tasks /\ task[c].alloc = "free" /\ rq' = rq
        /\ task' = [task EXCEPT ![c] = sched_fork(task[curr])]
    BY <1>0, <1>8 DEF SchedFork, InSyscall
  <2>2. sched_fork(task[curr]).alloc = "new"
    BY <1>0, <2>1, GoodFork
  <2>3. \A p \in Tasks : p \in Sleeping(task') <=> p \in Sleeping(task)
    BY <1>0, <2>1, <2>2 DEF Sleeping
  <2> QED BY <2>1, <2>3, LoadSame
<1>9. CASE WakeUpNewTask
  <2> DEFINE c == call[curr].target
             v == [task[c] EXCEPT !.on_rq = TRUE, !.alloc = "live"]
  <2>0. curr \in Tasks /\ c \in Tasks
    BY <1>0, <1>9 DEF WakeUpNewTask, Resumes, CallRec
  <2>1. task[c].alloc = "new" /\ task[c].state = "RUNNING" /\ ~task[c].on_rq
    BY <1>0, <1>9, <2>0 DEF WakeUpNewTask, Resumes, CoreInv, ForkInFlight, TaskGood, TaskRec
  <2>2. rq' = activate_task(rq, c, task[c]) /\ task' = [task EXCEPT ![c] = v]
    BY <1>0, <1>9, <2>0 DEF WakeUpNewTask, TaskRec
  <2> HIDE DEF c
  <2>3. v.on_rq
    BY <1>0, <2>0 DEF TaskRec
  <2> HIDE DEF v
  <2>4. task'[c] = v /\ \A q \in Tasks \ {c} : task'[q] = task[q]
    BY <1>0, <2>0, <2>2
  <2>5. task'[c].on_rq /\ \A q \in Tasks \ {c} : task'[q] = task[q]
    BY <2>3, <2>4
  <2>6. LoadOk(activate_task(rq, c, task[c]), task')
    BY <1>r, <2>0, <2>1, <2>5, LoadActivate
  <2> QED BY <2>2, <2>6
<1>10. ASSUME NEW p \in Tasks, NEW g \in Groups,
              ChangeTask(p, [task[p] EXCEPT !.group = g], FALSE)
       PROVE  LoadOk(rq', task')
  <2> DEFINE t == [task[p] EXCEPT !.group = g]
  <2>1. /\ t \in TaskRec /\ t.on_rq = task[p].on_rq /\ t.alloc = task[p].alloc
        /\ t.state = task[p].state
    BY <1>0 DEF TaskRec
  <2>2. ChangeTask(p, t, FALSE) /\ task' = [task EXCEPT ![p] = t]
    BY <1>10 DEF ChangeTask
  <2> HIDE DEF t
  <2> QED BY <1>0, <2>1, <2>2, LoadChange
<1>11. CASE ExitCgroup \/ AttachMove
  <2>1. \/ UNCHANGED <<rq, task>>
        \/ \E p \in Tasks, g \in Groups : ChangeTask(p, [task[p] EXCEPT !.group = g], FALSE)
    <3>1. ASSUME ExitCgroup
          PROVE  \E p \in Tasks, g \in Groups : ChangeTask(p, [task[p] EXCEPT !.group = g], FALSE)
      BY <1>0, <3>1, InputAssumption DEF ExitCgroup, InSyscall
    <3>2. ASSUME AttachMove
          PROVE  \/ UNCHANGED <<rq, task>>
                 \/ \E p \in Tasks, g \in Groups : ChangeTask(p, [task[p] EXCEPT !.group = g], FALSE)
      <4>1. call[curr] \in CallRec
        BY <1>0, <3>2 DEF AttachMove, Resumes
      <4>2. call[curr].target \in Tasks /\ call[curr].group \in Groups
        BY <4>1 DEF CallRec
      <4> QED BY <3>2, <4>2 DEF AttachMove
    <3> QED BY <1>11, <3>1, <3>2
  <2> QED BY <1>1, <1>10, <2>1
<1>12. ASSUME NEW p \in Tasks, NEW policy \in SchedPolicies, NEW prio \in 0 .. MAX_RT_PRIO - 1,
              NEW reset \in BOOLEAN, ApplyScheduler(p, policy, prio, reset)
       PROVE  LoadOk(rq', task')
  <2> DEFINE old == [task[p] EXCEPT !.reset_on_fork = reset]
             new == do_setscheduler(old, policy, prio)
  <2>1. TaskGood(old)
    BY <1>0, GoodFields
  <2>2. /\ old.on_rq = task[p].on_rq /\ old.alloc = task[p].alloc
        /\ old.state = task[p].state
    BY <1>0 DEF TaskRec
  <2>3. ChangeTask(p, new, FALSE)
    BY <1>12 DEF ApplyScheduler
  <2> HIDE DEF old
  <2>4. /\ TaskGood(new) /\ new.on_rq = old.on_rq /\ new.alloc = old.alloc
        /\ new.state = old.state
    BY <2>1, GoodSetscheduler
  <2> HIDE DEF new
  <2>5. new \in TaskRec /\ task' = [task EXCEPT ![p] = new]
    BY <2>3, <2>4 DEF TaskGood, ChangeTask
  <2> QED BY <1>0, <2>2, <2>3, <2>4, <2>5, LoadChange
<1>13. ASSUME NEW p \in Tasks, NEW sp \in SchedParams, NEW reset \in ResetFlags,
              SetScheduler(p, sp[1], sp[2], reset)
       PROVE  LoadOk(rq', task')
  <2>1. sp[1] \in SchedPolicies /\ sp[2] \in 0 .. MAX_RT_PRIO - 1 /\ reset \in BOOLEAN
    BY InputAssumption
  <2> QED BY <1>12, <1>13, <2>1 DEF SetScheduler
<1>14. CASE SetparamApply
  <2> DEFINE c == call[curr]
  <2>1. c \in CallRec /\ ApplyScheduler(c.target, c.policy, c.prio, c.reset)
    BY <1>0, <1>14 DEF SetparamApply, Resumes
  <2> HIDE DEF c
  <2>2. /\ c.target \in Tasks /\ c.policy \in SchedPolicies
        /\ c.prio \in 0 .. MAX_RT_PRIO - 1 /\ c.reset \in BOOLEAN
    BY <2>1 DEF CallRec
  <2> QED BY <1>12, <2>1, <2>2
<1>15. ASSUME NEW p \in Tasks, NEW nice \in Nices, SetUserNice(p, nice)
       PROVE  LoadOk(rq', task')
  <2>0. nice \in -20 .. 19
    BY InputAssumption
  <2>1. CASE rt_policy(task[p].policy)
    <3> DEFINE u == WithNice(task[p], nice)
    <3>1. TaskGood(u)
      BY <1>0, <2>0, <2>1, GoodNiceRt
    <3>2. task' = [task EXCEPT ![p] = u] /\ rq' = rq
      BY <1>15, <2>1 DEF SetUserNice, WithNice
    <3>3. u.on_rq = task[p].on_rq /\ u.alloc = task[p].alloc /\ u.state = task[p].state
      BY <1>0 DEF WithNice, TaskRec
    <3> HIDE DEF u
    <3>4. u \in TaskRec
      BY <3>1 DEF TaskGood
    <3> QED BY <1>0, <3>2, <3>3, <3>4, LoadChange
  <2>2. CASE ~rt_policy(task[p].policy)
    <3> DEFINE u == WithPrio(WithNice(task[p], nice))
    <3>1. /\ TaskGood(u) /\ u.on_rq = task[p].on_rq /\ u.alloc = task[p].alloc
          /\ u.state = task[p].state
      BY <1>0, <2>0, <2>2, GoodNice
    <3>2. ChangeTask(p, u, FALSE)
      BY <1>15, <2>2 DEF SetUserNice, WithNice, WithPrio
    <3> HIDE DEF u
    <3>3. u \in TaskRec /\ task' = [task EXCEPT ![p] = u]
      BY <3>1, <3>2 DEF TaskGood, ChangeTask
    <3> QED BY <1>0, <3>1, <3>2, <3>3, LoadChange
  <2> QED BY <2>1, <2>2
<1>16. ASSUME NEW p \in Tasks, NEW pi \in PiPrios \cup {MAX_PRIO}, RtMutexAdjustPrio(p, pi)
       PROVE  LoadOk(rq', task')
  <2> DEFINE set == [task[p] EXCEPT !.pi = pi]
             prio == rt_mutex_getprio(set)
  <2>0. pi \in Prio
    BY InputAssumption DEF Prio, MAX_PRIO, MAX_RT_PRIO
  <2>1. TaskGood(set)
    BY <1>0, <2>0, GoodFields
  <2>2. set.on_rq = task[p].on_rq /\ set.alloc = task[p].alloc /\ set.state = task[p].state
    BY <1>0 DEF TaskRec
  <2>3. /\ TaskGood(setprio(set, prio)) /\ setprio(set, prio).on_rq = set.on_rq
        /\ setprio(set, prio).alloc = set.alloc /\ setprio(set, prio).state = set.state
    <3> HIDE DEF set
    <3> QED BY <2>1, GoodSetprio
  <2>4. PICK u \in {set, setprio(set, prio)} :
          \E head : /\ task' = [task EXCEPT ![p] = u]
                    /\ rq' = rq \/ ChangeTask(p, u, head)
    BY <1>16 DEF RtMutexAdjustPrio, ChangeTask
  <2> HIDE DEF set, prio
  <2>5. /\ u \in TaskRec /\ u.on_rq = task[p].on_rq /\ u.alloc = task[p].alloc
        /\ u.state = task[p].state
    BY <2>1, <2>2, <2>3, <2>4 DEF TaskGood
  <2> QED BY <1>0, <2>4, <2>5, LoadChange
<1>17. CASE TickWrr
  <2>1. CASE UNCHANGED task
    <3>1. rq' = rq \/ rq' = requeue_task_wrr(rq, curr)
      BY <1>17 DEF TickWrr
    <3>2. requeue_task_wrr(rq, curr).nr_uninterruptible = rq.nr_uninterruptible
      BY <1>0, CountKept
    <3> QED BY <2>1, <3>1, <3>2, LoadSame
  <2>2. CASE ~UNCHANGED task
    <3>1. curr \in Tasks
      BY <1>0, <1>17 DEF TickWrr, ClassOf
    <3>2. PICK n : task' = [task EXCEPT ![curr] = [task[curr] EXCEPT !.time_slice = n]]
      BY <1>17, <2>2 DEF TickWrr
    <3>3. rq' = rq \/ rq' = requeue_task_wrr(rq, curr)
      BY <1>17 DEF TickWrr
    <3>4. requeue_task_wrr(rq, curr).nr_uninterruptible = rq.nr_uninterruptible
      BY <1>0, CountKept
    <3> DEFINE u == [task[curr] EXCEPT !.time_slice = n]
    <3>5. u.on_rq = task[curr].on_rq /\ u.alloc = task[curr].alloc /\ u.state = task[curr].state
      BY <1>0, <3>1 DEF TaskRec
    <3> HIDE DEF u
    <3>6. \A p \in Tasks : p \in Sleeping(task') <=> p \in Sleeping(task)
      BY <1>0, <3>1, <3>2, <3>5 DEF Sleeping, u
    <3> QED BY <3>3, <3>4, <3>6, LoadSame
  <2> QED BY <2>1, <2>2
<1>18. CASE \/ SetparamReturn \/ SetparamRecheck
            \/ (\E p \in Tasks, prio \in ParamPrios : SetparamRead(p, prio))
            \/ (\E p \in Tasks, g \in Groups : CanAttach(p, g))
            \/ TickOther \/ RtRuntimeExceeded \/ RtPeriodTimer
  BY <1>1, <1>18 DEF SetparamReturn, SetparamRecheck, SetparamRead, CanAttach,
       TickOther, RtRuntimeExceeded, RtPeriodTimer
<1> QED BY <1>2, <1>3, <1>4, <1>5, <1>6, <1>7, <1>8, <1>9, <1>11, <1>13, <1>14, <1>15, <1>16,
           <1>17, <1>18 DEF Next, Tick

(* rq->nr_uninterruptible, from which the load average is computed, is the *)
(* number of tasks asleep uninterruptibly, through every interleaving of   *)
(* sleeps, wakeups (also by a worker that goes to sleep), forks and exits. *)
THEOREM LoadCorrect == Spec => []LoadAgrees
<1>1. LoadAgrees <=> LoadOk(rq, task)
  BY DEF LoadAgrees, LoadOk, Uninterruptible, Sleeping
<1>2. Init => LoadOk(rq, task)
  <2> SUFFICES ASSUME Init PROVE LoadOk(rq, task)
    OBVIOUS
  <2>1. Sleeping(task) = {}
    BY DEF Init, Sleeping, NewTask
  <2>2. rq.nr_uninterruptible = 0
    BY DEF Init, enqueue_task, enqueue_task_fair, EmptyRq
  <2> QED BY <2>1, <2>2, FS_EmptySet DEF LoadOk
<1>3. CoreInv /\ LoadOk(rq, task) /\ [Next]_vars => LoadOk(rq, task)'
  <2>1. CASE Next
    BY <2>1, LoadStep
  <2>2. CASE UNCHANGED vars
    BY <2>2 DEF vars
  <2> QED BY <2>1, <2>2
<1> QED BY <1>1, <1>2, <1>3, InitInv, Inductive, PTL DEF Spec

-----------------------------------------------------------------------------
(* Preemption: who outranks the current task depends only on which tasks   *)
(* are queued and on their classes.                                        *)
LEMMA OutrankedSame ==
  ASSUME NEW T, NEW U, NEW c \in Tasks \cup {Idle}, c # Idle => T[c].on_rq,
         \A q \in Tasks : /\ U[q].on_rq = T[q].on_rq
                          /\ T[q].on_rq => U[q].sched_class = T[q].sched_class
  PROVE  Outranked(T, c) <=> Outranked(U, c)
<1>1. ClassOf(U, c) = ClassOf(T, c)
  BY DEF ClassOf
<1>2. Queued(T) = Queued(U) /\ Queued(T) \in SUBSET Tasks
  BY DEF Queued
<1>3. \A q \in Queued(T) : U[q].sched_class = T[q].sched_class
  BY DEF Queued
<1> QED BY <1>1, <1>2, <1>3 DEF Outranked

(* The order of the classes.                                               *)
LEMMA Ranks ==
  /\ ClassRank("rt") = 1 /\ ClassRank("wrr") = 2
  /\ ClassRank("fair") = 3 /\ ClassRank("idle") = 4
BY DEF ClassRank

(* check_preempt_curr asks for a reschedule if the task that came onto the *)
(* queue outranks the current one.                                         *)
LEMMA WakePreempts ==
  ASSUME NEW T \in [Tasks -> TaskRec], NEW U \in [Tasks -> TaskRec],
         NEW c \in Tasks \cup {Idle}, c = curr, c # Idle => T[c].on_rq,
         NEW p \in Tasks, ~T[p].on_rq, U[p].on_rq,
         \A q \in Tasks \ {p} : U[q] = T[q],
         ~Outranked(T, c), Outranked(U, c), NEW x \in check_preempt_curr(U, p)
  PROVE  x = TRUE
<1>1. p # c
  BY TasksAssumption
<1>2. ClassOf(U, c) = ClassOf(T, c)
  BY <1>1 DEF ClassOf
<1>3. ClassRank(U[p].sched_class) < ClassRank(ClassOf(U, c))
  <2>1. PICK q \in Queued(U) \ {c} : ClassRank(U[q].sched_class) < ClassRank(ClassOf(U, c))
    BY DEF Outranked
  <2>2. q # p => q \in Queued(T) \ {c} /\ U[q] = T[q]
    BY <2>1 DEF Queued
  <2> QED BY <1>2, <2>1, <2>2 DEF Outranked
<1>4. U[p].sched_class # ClassOf(U, c)
  <2>1. U[p].sched_class \in {"rt", "wrr", "fair"}
    BY DEF TaskRec
  <2> QED BY <1>3, <2>1, Ranks
<1> QED BY <1>3, <1>4 DEF check_preempt_curr, ReschedIf, Resched

(* check_class_changed asks for a reschedule if the change of a class lets *)
(* a task outrank the current one, unless that one has policy SCHED_WRR.   *)
LEMMA ChangePreempts ==
  ASSUME NEW T \in [Tasks -> TaskRec], NEW U, AllGood(U),
         NEW c \in Tasks \cup {Idle}, c = curr, c # Idle => T[c].on_rq,
         NEW p \in Tasks, U[p].on_rq = T[p].on_rq,
         \A q \in Tasks \ {p} : U[q] = T[q],
         ~Outranked(T, c), Outranked(U, c), PolicyOf(U, c) # "WRR",
         NEW oldprio, NEW x \in check_class_changed(U, p, T[p].sched_class, oldprio)
  PROVE  x = TRUE
<1>0. /\ U \in [Tasks -> TaskRec] /\ \A q \in Tasks : ClassFits(U[q])
      /\ U[p].sched_class \in {"rt", "wrr", "fair"} /\ Idle \notin Tasks
  BY TasksAssumption DEF AllGood, TaskGood, TaskRec
<1>1. T[p].on_rq /\ T[p].sched_class # U[p].sched_class
  <2>1. ASSUME ~T[p].on_rq \/ T[p].sched_class = U[p].sched_class PROVE FALSE
    <3>1. \A q \in Tasks : /\ U[q].on_rq = T[q].on_rq
                           /\ T[q].on_rq => U[q].sched_class = T[q].sched_class
      BY <2>1
    <3> QED BY <3>1, OutrankedSame
  <2> QED BY <2>1
<1>2. PICK q \in Queued(U) \ {c} : ClassRank(U[q].sched_class) < ClassRank(ClassOf(U, c))
  BY DEF Outranked
<1>3. q \in Tasks /\ U[q].sched_class \in {"rt", "wrr", "fair"}
  BY <1>0, <1>2 DEF Queued, TaskRec
<1>4. CASE p = c
  <2>1. ClassOf(U, c) = U[p].sched_class /\ PolicyOf(U, c) = U[p].policy
    BY <1>0, <1>4 DEF ClassOf, PolicyOf
  <2>2. U[p].sched_class = "fair"
    <3>1. U[p].sched_class # "wrr"
      BY <1>0, <2>1 DEF ClassFits
    <3>2. U[p].sched_class # "rt"
      BY <1>2, <1>3, <2>1, Ranks
    <3> QED BY <1>0, <3>1, <3>2
  <2>3. x \in switched_to_fair(U, p)
    BY <1>1, <2>2 DEF check_class_changed
  <2> QED BY <1>1, <1>4, <2>3 DEF switched_to_fair, Resched
<1>5. CASE p # c
  <2>1. ClassOf(U, c) = ClassOf(T, c)
    BY <1>5 DEF ClassOf
  <2>2. q = p
    <3>1. q # p => q \in Queued(T) \ {c} /\ U[q] = T[q]
      BY <1>2, <1>3 DEF Queued
    <3> QED BY <1>2, <2>1, <3>1 DEF Outranked
  <2>3. CASE U[p].sched_class = "rt"
    <3>1. U[p].prio < MAX_RT_PRIO
      BY <1>0, <2>3 DEF ClassFits, rt_prio
    <3>2. ~(PrioOf(U, c) < MAX_RT_PRIO) /\ PrioOf(U, c) \in Int
      <4>1. CASE c = Idle
        BY <4>1 DEF PrioOf, DEFAULT_PRIO, MAX_RT_PRIO
      <4>2. CASE c # Idle
        <5>1. ClassOf(U, c) = U[c].sched_class /\ PolicyOf(U, c) = U[c].policy
              /\ PrioOf(U, c) = U[c].prio /\ c \in Tasks
          BY <4>2 DEF ClassOf, PolicyOf, PrioOf
        <5>2. U[c].sched_class = "fair"
          <6>1. U[c].sched_class \in {"rt", "wrr", "fair"}
            BY <1>0, <5>1 DEF TaskRec
          <6>2. U[c].sched_class # "wrr"
            BY <1>0, <5>1 DEF ClassFits
          <6>3. U[c].sched_class # "rt"
            BY <1>2, <2>2, <2>3, <5>1, Ranks
          <6> QED BY <6>1, <6>2, <6>3
        <5>3. U[c].prio \in Prio /\ ~rt_prio(U[c].prio)
          BY <1>0, <5>1, <5>2 DEF ClassFits, TaskRec
        <5> QED BY <5>1, <5>3 DEF rt_prio, Prio, MAX_PRIO, MAX_RT_PRIO
      <4> QED BY <4>1, <4>2
    <3>3. U[p].prio < PrioOf(U, c)
      <4>1. U[p].prio \in Int
        BY <1>0 DEF TaskRec, Prio
      <4> QED BY <3>1, <3>2, <4>1 DEF MAX_RT_PRIO
    <3>4. x \in switched_to_rt(U, p)
      BY <1>1, <2>3 DEF check_class_changed
    <3> QED BY <1>1, <1>5, <3>3, <3>4 DEF switched_to_rt, ReschedIf, Resched
  <2>4. CASE U[p].sched_class = "wrr"
    <3>1. x \in switched_to_wrr(U, p)
      BY <1>1, <2>4 DEF check_class_changed
    <3> QED BY <1>1, <1>5, <3>1 DEF switched_to_wrr, ReschedIf, Resched
  <2>5. CASE U[p].sched_class = "fair"
    <3>1. x \in switched_to_fair(U, p)
      BY <1>1, <2>5 DEF check_class_changed
    <3>2. x \in check_preempt_curr(U, p)
      BY <1>1, <1>5, <3>1 DEF switched_to_fair
    <3>3. U[p].sched_class # ClassOf(U, c)
      BY <1>2, <2>2, <2>5, Ranks
    <3> QED BY <1>2, <2>2, <3>2, <3>3 DEF check_preempt_curr, ReschedIf, Resched
  <2> QED BY <1>0, <2>3, <2>4, <2>5
<1> QED BY <1>4, <1>5

(* A step after which the current task is newly outranked sets             *)
(* need_resched.                                                           *)
LEMMA PreemptStep ==
  ASSUME CoreInv, Next, curr' = curr, ~Outranked(task, curr), Outranked(task', curr),
         PolicyOf(task', curr) # "WRR"
  PROVE  need_resched' = TRUE
<1>0. /\ QueueInv /\ task \in [Tasks -> TaskRec]
      /\ call \in [Tasks -> CallRec] /\ \A p \in Tasks : TaskGood(task[p])
      /\ curr \in Tasks \cup {Idle} /\ Idle \notin Tasks
      /\ curr # Idle => curr \in Tasks /\ task[curr].on_rq
  BY TasksAssumption DEF CoreInv, QueueInv, AllGood
<1>1. /\ AllGood(task') /\ task' \in [Tasks -> TaskRec]
      /\ curr # Idle => task'[curr].on_rq
  BY Inductive DEF CoreInv, QueueInv, AllGood
<1>2. ASSUME \A q \in Tasks : /\ task'[q].on_rq = task[q].on_rq
                              /\ task[q].on_rq => task'[q].sched_class = task[q].sched_class
      PROVE  FALSE
  BY <1>0, <1>2, OutrankedSame
<1>3. ASSUME NEW p \in Tasks, NEW t, t.on_rq = task[p].on_rq, t.sched_class = task[p].sched_class,
             task' = [task EXCEPT ![p] = t]
      PROVE  FALSE
  BY <1>0, <1>2, <1>3
<1>4. ASSUME NEW p \in Tasks, NEW t, t.on_rq = task[p].on_rq,
             task' = [task EXCEPT ![p] = t],
             need_resched' \in check_class_changed(task', p, task[p].sched_class, task[p].prio)
      PROVE  need_resched' = TRUE
  <2>1. task'[p].on_rq = task[p].on_rq /\ \A q \in Tasks \ {p} : task'[q] = task[q]
    BY <1>0, <1>4
  <2> DEFINE k == task[p].prio
             U == task'
  <2>2. /\ AllGood(U) /\ U[p].on_rq = task[p].on_rq /\ \A q \in Tasks \ {p} : U[q] = task[q]
        /\ Outranked(U, curr) /\ PolicyOf(U, curr) # "WRR"
        /\ need_resched' \in check_class_changed(U, p, task[p].sched_class, k)
    BY <1>1, <1>4, <2>1
  <2> HIDE DEF k, U
  <2> QED BY <1>0, <2>2, ChangePreempts
<1>5. ASSUME NEW p \in Tasks, ~task[p].on_rq, task'[p].on_rq,
             \A q \in Tasks \ {p} : task'[q] = task[q],
             need_resched' \in check_preempt_curr(task', p)
      PROVE  need_resched' = TRUE
  BY <1>0, <1>1, <1>5, WakePreempts
<1>6. ASSUME task' = task PROVE FALSE
  BY <1>6
<1>7. ASSUME NEW s \in SleepStates \cup {"RUNNING"}, SetCurrentState(s) PROVE FALSE
  <2> DEFINE t == [task[curr] EXCEPT !.state = s]
  <2>1. curr \in Tasks /\ task' = [task EXCEPT ![curr] = t]
    BY <1>0, <1>7 DEF SetCurrentState
  <2>2. t.on_rq = task[curr].on_rq /\ t.sched_class = task[curr].sched_class
    BY <1>0, <2>1 DEF TaskRec
  <2> HIDE DEF t
  <2> QED BY <1>3, <2>1, <2>2
<1>8. ~Preempt /\ ~Yield
  BY <1>6 DEF Preempt, Yield, SwitchTo
<1>9. ~ScheduleRunnable
  <2> DEFINE t == [task[curr] EXCEPT !.state = "RUNNING"]
  <2>1. ASSUME ScheduleRunnable PROVE curr \in Tasks /\ task' = [task EXCEPT ![curr] = t]
    BY <1>0, <2>1 DEF ScheduleRunnable, SwitchTo
  <2>2. curr \in Tasks => t.on_rq = task[curr].on_rq /\ t.sched_class = task[curr].sched_class
    BY <1>0 DEF TaskRec
  <2> HIDE DEF t
  <2> QED BY <1>3, <2>1, <2>2
<1>10. ~ScheduleSleep
  <2>1. ASSUME ScheduleSleep PROVE curr \in Tasks /\ ~task'[curr].on_rq
    BY <1>0, <2>1 DEF ScheduleSleep, SwitchTo, put_to_sleep, TaskRec
  <2> QED BY <1>0, <1>1, <2>1
<1>11. ~ExitSchedule
  <2>1. ASSUME ExitSchedule PROVE curr \in Tasks /\ ~task'[curr].on_rq
    <3> DEFINE t == put_to_sleep([task[curr] EXCEPT !.state = "DEAD"])
    <3>1. curr \in Tasks /\ task' = [task EXCEPT ![curr] = t]
      BY <1>0, <2>1 DEF ExitSchedule, SwitchTo, Resumes
    <3>2. ~t.on_rq
      BY <1>0, <3>1, GoodDeath
    <3> HIDE DEF t
    <3> QED BY <1>0, <3>1, <3>2
  <2> QED BY <1>0, <1>1, <2>1
<1>12. ASSUME NEW w \in Tasks, ScheduleWorkerSleep(w) PROVE FALSE
  <2> DEFINE t == put_to_sleep(task[curr])
  <2>1. curr \in Tasks /\ w # curr
        /\ task' = [task EXCEPT ![curr] = t, ![w].on_rq = TRUE, ![w].state = "RUNNING"]
    BY <1>0, <1>12 DEF ScheduleWorkerSleep, SwitchTo
  <2>2. ~t.on_rq
    BY <1>0, <2>1 DEF put_to_sleep, TaskRec
  <2> HIDE DEF t
  <2>3. task'[curr] = t
    BY <1>0, <2>1
  <2> QED BY <1>0, <1>1, <2>1, <2>2, <2>3
<1>13. ASSUME NEW p \in Tasks, Wake(p) PROVE need_resched' = TRUE
  <2>1. /\ task' = [task EXCEPT ![p].state = "RUNNING", ![p].on_rq = TRUE]
        /\ need_resched' \in check_preempt_curr(task', p)
    BY <1>13 DEF Wake
  <2>2. /\ task'[p].on_rq /\ task'[p].sched_class = task[p].sched_class
        /\ \A q \in Tasks \ {p} : task'[q] = task[q]
    BY <1>0, <2>1 DEF TaskRec
  <2>3. CASE task[p].on_rq
    <3>1. task[p].on_rq = TRUE /\ task'[p].on_rq = TRUE
      BY <1>0, <1>1, <2>2, <2>3 DEF TaskRec
    <3> QED BY <1>2, <2>2, <3>1
  <2> QED BY <1>5, <2>1, <2>2, <2>3
<1>14. ASSUME NEW c \in Tasks, SchedFork(c) PROVE FALSE
  <2>1. /\ task[c].alloc = "free" /\ curr \in Tasks
        /\ task' = [task EXCEPT ![c] = sched_fork(task[curr])]
    BY <1>0, <1>14 DEF SchedFork, InSyscall
  <2>2. ~task[c].on_rq
    BY <1>0, <2>1 DEF TaskGood
  <2>3. ~sched_fork(task[curr]).on_rq /\ TaskGood(sched_fork(task[curr]))
    BY <1>0, <2>1, GoodFork DEF TaskGood
  <2>4. task'[c] = sched_fork(task[curr]) /\ \A q \in Tasks \ {c} : task'[q] = task[q]
    BY <1>0, <2>1
  <2>5. task'[c].on_rq = FALSE /\ task[c].on_rq = FALSE
    BY <1>0, <1>1, <2>2, <2>3, <2>4 DEF TaskRec
  <2> QED BY <1>2, <2>4, <2>5
<1>15. CASE WakeUpNewTask
  <2> DEFINE c == call[curr].target
  <2>1. /\ curr \in Tasks /\ c \in Tasks /\ call[curr].op = "fork"
    BY <1>0, <1>15 DEF WakeUpNewTask, Resumes, CallRec
  <2>2. ~task[c].on_rq
    BY <1>0, <2>1 DEF CoreInv, ForkInFlight, TaskGood
  <2>3. /\ need_resched' \in check_preempt_curr(task', c)
        /\ task' = [task EXCEPT ![c].on_rq = TRUE, ![c].alloc = "live"]
    BY <1>15 DEF WakeUpNewTask
  <2> HIDE DEF c
  <2>4. task'[c].on_rq /\ \A q \in Tasks \ {c} : task'[q] = task[q]
    BY <1>0, <2>1, <2>3 DEF TaskRec
  <2> QED BY <1>5, <2>1, <2>2, <2>3, <2>4
<1>16. ASSUME NEW p \in Tasks, NEW g \in Groups,
              ChangeTask(p, [task[p] EXCEPT !.group = g], FALSE)
       PROVE  FALSE
  <2> DEFINE t == [task[p] EXCEPT !.group = g]
  <2>1. t.on_rq = task[p].on_rq /\ t.sched_class = task[p].sched_class
    BY <1>0 DEF TaskRec
  <2>2. task' = [task EXCEPT ![p] = t]
    BY <1>16 DEF ChangeTask
  <2> HIDE DEF t
  <2> QED BY <1>3, <2>1, <2>2
<1>17. ~ExitCgroup
  BY <1>0, <1>16, InputAssumption DEF ExitCgroup, InSyscall
<1>18. ~AttachMove
  <2>1. ASSUME AttachMove
        PROVE  /\ curr \in Tasks /\ call[curr].target \in Tasks /\ call[curr].group \in Groups
    BY <1>0, <2>1 DEF AttachMove, Resumes, CallRec
  <2> QED BY <1>6, <1>16, <2>1 DEF AttachMove
<1>19. ASSUME NEW p \in Tasks, NEW policy \in SchedPolicies, NEW prio \in 0 .. MAX_RT_PRIO - 1,
              NEW reset \in BOOLEAN, ApplyScheduler(p, policy, prio, reset)
       PROVE  need_resched' = TRUE
  <2> DEFINE old == [task[p] EXCEPT !.reset_on_fork = reset]
             new == do_setscheduler(old, policy, prio)
  <2>1. TaskGood(old) /\ old.on_rq = task[p].on_rq
    BY <1>0, GoodFields DEF TaskRec
  <2>2. /\ task' = [task EXCEPT ![p] = new]
        /\ need_resched' \in check_class_changed(task', p, task[p].sched_class, task[p].prio)
    BY <1>19 DEF ApplyScheduler, ChangeTask
  <2> HIDE DEF old
  <2>3. new.on_rq = old.on_rq
    BY <2>1, GoodSetscheduler
  <2> HIDE DEF new
  <2> QED BY <1>4, <2>1, <2>2, <2>3
<1>20. ASSUME NEW p \in Tasks, NEW sp \in SchedParams, NEW reset \in ResetFlags,
              SetScheduler(p, sp[1], sp[2], reset)
       PROVE  need_resched' = TRUE
  <2>1. /\ sp[1] \in SchedPolicies /\ sp[2] \in 0 .. MAX_RT_PRIO - 1
        /\ reset \in BOOLEAN
    BY InputAssumption
  <2>2. ApplyScheduler(p, sp[1], sp[2], reset)
    BY <1>20 DEF SetScheduler
  <2> QED BY <1>19, <2>1, <2>2
<1>21. ASSUME SetparamApply PROVE need_resched' = TRUE
  <2> DEFINE c == call[curr]
  <2>1. curr \in Tasks /\ ApplyScheduler(c.target, c.policy, c.prio, c.reset)
    BY <1>0, <1>21 DEF SetparamApply, Resumes
  <2>2. /\ c.target \in Tasks /\ c.policy \in SchedPolicies
        /\ c.prio \in 0 .. MAX_RT_PRIO - 1 /\ c.reset \in BOOLEAN
    BY <1>0, <2>1 DEF CallRec
  <2> HIDE DEF c
  <2> QED BY <1>19, <2>1, <2>2
<1>22. ASSUME NEW p \in Tasks, NEW nice \in Nices, SetUserNice(p, nice) PROVE FALSE
  <2> DEFINE u == WithNice(task[p], nice)
             v == WithPrio(u)
  <2>1. task' = [task EXCEPT ![p] = u] \/ task' = [task EXCEPT ![p] = v]
    BY <1>22 DEF SetUserNice, WithNice, WithPrio, ChangeTask
  <2>2. /\ u.on_rq = task[p].on_rq /\ u.sched_class = task[p].sched_class
        /\ v.on_rq = task[p].on_rq /\ v.sched_class = task[p].sched_class
    BY <1>0 DEF WithNice, WithPrio, TaskRec
  <2> HIDE DEF u, v
  <2> QED BY <1>3, <2>1, <2>2
<1>23. ASSUME NEW p \in Tasks, NEW pi \in PiPrios \cup {MAX_PRIO}, RtMutexAdjustPrio(p, pi)
       PROVE  need_resched' = TRUE
  <2> DEFINE u == [task[p] EXCEPT !.pi = pi]
             prio == rt_mutex_getprio(u)
             v == setprio(u, prio)
  <2>1. pi \in Prio
    BY InputAssumption DEF Prio, MAX_PRIO, MAX_RT_PRIO
  <2>2. TaskGood(u) /\ u.on_rq = task[p].on_rq /\ u.sched_class = task[p].sched_class
    BY <1>0, <2>1, GoodFields DEF TaskRec
  <2>3. \/ task' = [task EXCEPT ![p] = u]
        \/ /\ task' = [task EXCEPT ![p] = v]
           /\ need_resched' \in check_class_changed(task', p, task[p].sched_class, task[p].prio)
    BY <1>23 DEF RtMutexAdjustPrio, ChangeTask
  <2> HIDE DEF u
  <2>4. v.on_rq = u.on_rq
    BY <2>2, GoodSetprio
  <2> HIDE DEF v, prio
  <2> QED BY <1>3, <1>4, <2>2, <2>3, <2>4
<1>24. ~TickWrr
  <2>1. ASSUME TickWrr
        PROVE  \A q \in Tasks : /\ task'[q].on_rq = task[q].on_rq
                                /\ task'[q].sched_class = task[q].sched_class
    <3>1. curr \in Tasks
      BY <1>0, <2>1 DEF TickWrr, ClassOf
    <3>2. task' = task \/ \E n \in {decrement(task[curr].time_slice), refill(task[curr])} :
                             task' = [task EXCEPT ![curr].time_slice = n]
      BY <2>1 DEF TickWrr
    <3> QED BY <1>0, <3>1, <3>2 DEF TaskRec
  <2> QED BY <1>2, <2>1
<1>25. /\ \A p \in Tasks, prio \in ParamPrios : ~SetparamRead(p, prio)
       /\ ~SetparamReturn /\ ~SetparamRecheck
       /\ \A p \in Tasks, g \in Groups : ~CanAttach(p, g)
       /\ ~TickOther /\ ~RtRuntimeExceeded /\ ~RtPeriodTimer
  BY <1>6 DEF SetparamRead, SetparamReturn, SetparamRecheck, CanAttach, TickOther,
              RtRuntimeExceeded, RtPeriodTimer
<1> QED
  BY <1>7, <1>8, <1>9, <1>10, <1>11, <1>12, <1>13, <1>14, <1>15, <1>17, <1>18, <1>20,
     <1>21, <1>22, <1>23, <1>24, <1>25 DEF Next, Tick

(* A step after which a task of a higher class is newly queued asks for a  *)
(* reschedule (check_preempt_curr, check_class_changed), unless the        *)
(* current task has policy SCHED_WRR.                                      *)
THEOREM Preempts == Spec => PreemptsUnlessWrr
<1>1. CoreInv /\ [Next]_vars =>
        [/\ curr' = curr
         /\ ~Outranked(task, curr)
         /\ Outranked(task', curr)
         /\ PolicyOf(task', curr) # "WRR"
         => need_resched']_vars
  BY PreemptStep
<1> QED BY <1>1, InitInv, Inductive, PTL DEF Spec, PreemptsUnlessWrr

-----------------------------------------------------------------------------
(* The scheduler implements the round robin class of RoundRobin: every     *)
(* step of Sched is one step of the ring of WRR tasks, or leaves it alone. *)

(* The member that is served, and whom the server may turn to.             *)
Turn(T, c) == IF ClassOf(T, c) = "wrr" THEN c ELSE Idle

Served == Turn(task, curr)

Front(q) == {Idle} \cup (IF q = <<>> THEN {} ELSE {Head(q)})

(* The four steps of the ring, in terms of the run queue.                  *)
JoinStep(p) ==
  /\ p \notin WrrQueued(task)
  /\ rq'.queue = list_add_tail(rq.queue, p)
  /\ Served' \in {Served} \cup (IF Served = Idle THEN {p} \cup Front(rq'.queue) ELSE {})

LeaveStep(p) ==
  /\ p \in WrrQueued(task)
  /\ rq'.queue = list_del(rq.queue, p)
  /\ IF Served = p THEN Served' \in Front(rq'.queue) ELSE Served' = Served

HandoverStep(p, w) ==
  /\ p \in WrrQueued(task)
  /\ w \notin WrrQueued(task)
  /\ Served = p
  /\ rq'.queue = list_add_tail(list_del(rq.queue, p), w)
  /\ Served' \in Front(rq'.queue)

ToEndStep(p) ==
  /\ p \in WrrQueued(task)
  /\ rq'.queue = list_move_tail(rq.queue, p)
  /\ Served' \in {Served} \cup Front(rq'.queue)

RestStep ==
  /\ rq'.queue = rq.queue
  /\ Served' \in {Served} \cup Front(rq.queue)

RingStep ==
  \/ \E p \in Tasks : JoinStep(p) \/ LeaveStep(p) \/ ToEndStep(p)
  \/ \E p, w \in Tasks : HandoverStep(p, w)
  \/ RestStep

(* The ring holds the queued WRR tasks.                                    *)
LEMMA RingMembers ==
  ASSUME NEW r, NEW T, Agrees(r, T)
  PROVE  /\ {r.queue[i] : i \in DOMAIN r.queue} = WrrQueued(T)
         /\ r \in RqType
BY DEF Agrees, RqInv, RqAgrees, QueueHolds

(* These steps are steps of the abstract specification.                    *)
LEMMA RingStepImplements ==
  ASSUME Agrees(rq, task), RingStep
  PROVE  RR!Next \/ UNCHANGED RR!vars
<1>1. {rq.queue[i] : i \in DOMAIN rq.queue} = WrrQueued(task)
  BY RingMembers
<1>2. /\ Served = IF ClassOf(task, curr) = "wrr" THEN curr ELSE Idle
      /\ Served' = IF ClassOf(task', curr') = "wrr" THEN curr' ELSE Idle
  BY DEF Served, Turn
<1>3. ASSUME NEW p \in Tasks, JoinStep(p) PROVE RR!Next
  <2>1. RR!Join(p)
    BY <1>1, <1>2, <1>3
       DEF RR!Join, RR!InRing, RR!Choice, RR!list_add_tail, JoinStep, Front, list_add_tail
  <2> QED BY <2>1 DEF RR!Next
<1>4. ASSUME NEW p \in Tasks, LeaveStep(p) PROVE RR!Next
  <2>1. RR!Leave(p)
    BY <1>1, <1>2, <1>4
       DEF RR!Leave, RR!InRing, RR!Choice, RR!list_del, LeaveStep, Front, list_del
  <2> QED BY <2>1 DEF RR!Next
<1>5. ASSUME NEW p \in Tasks, ToEndStep(p) PROVE RR!Next
  <2>1. RR!ToEnd(p)
    BY <1>1, <1>2, <1>5
       DEF RR!ToEnd, RR!InRing, RR!Choice, RR!list_del, RR!list_add_tail, RR!list_move_tail,
           ToEndStep, Front, list_del, list_add_tail, list_move_tail
  <2> QED BY <2>1 DEF RR!Next
<1>6. ASSUME NEW p \in Tasks, NEW w \in Tasks, HandoverStep(p, w) PROVE RR!Next
  <2>1. RR!Handover(p, w)
    BY <1>1, <1>2, <1>6
       DEF RR!Handover, RR!InRing, RR!Choice, RR!list_del, RR!list_add_tail,
           HandoverStep, Front, list_del, list_add_tail
  <2> QED BY <2>1 DEF RR!Next
<1>7. ASSUME RestStep PROVE RR!Next \/ UNCHANGED RR!vars
  <2>1. CASE Served' = Served
    BY <1>2, <1>7, <2>1 DEF RR!vars, RestStep
  <2>2. CASE Served' \in Front(rq.queue)
    <3>1. RR!Serve
      BY <1>2, <1>7, <2>2 DEF RR!Serve, RR!Choice, RestStep, Front
    <3> QED BY <3>1 DEF RR!Next
  <2> QED BY <1>7, <2>1, <2>2 DEF RestStep
<1> QED BY <1>3, <1>4, <1>5, <1>6, <1>7 DEF RingStep

-----------------------------------------------------------------------------
(* What the core's operations do to the ring.                              *)
LEMMA RingFields ==
  ASSUME NEW r \in RqType, NEW p, NEW head \in BOOLEAN,
         NEW class \in {"rt", "wrr", "fair"}
  PROVE  /\ head = FALSE \/ class # "wrr" =>
              enqueue_task(r, p, class, head).queue =
                IF class = "wrr" THEN list_add_tail(r.queue, p) ELSE r.queue
         /\ dequeue_task(r, p, class).queue =
              IF class = "wrr" THEN list_del(r.queue, p) ELSE r.queue
<1>1. CASE class = "wrr"
  <2>1. /\ enqueue_task(r, p, class, head) = enqueue_task_wrr(r, p, head)
        /\ dequeue_task(r, p, class) = dequeue_task_wrr(r, p)
    BY <1>1 DEF enqueue_task, dequeue_task
  <2>2. dequeue_task_wrr(r, p).queue = list_del(r.queue, p)
    BY DEF dequeue_task_wrr, RqType
  <2>3. ~head => enqueue_task_wrr(r, p, head).queue = list_add_tail(r.queue, p)
    BY DEF enqueue_task_wrr, RqType
  <2> QED BY <1>1, <2>1, <2>2, <2>3
<1>2. CASE class = "rt"
  <2>1. /\ enqueue_task(r, p, class, head) = enqueue_task_rt(r, p)
        /\ dequeue_task(r, p, class) = dequeue_task_rt(r, p)
    BY <1>2 DEF enqueue_task, dequeue_task
  <2> QED BY <1>2, <2>1 DEF RqType, enqueue_task_rt, dequeue_task_rt
<1>3. CASE class = "fair"
  <2>1. /\ enqueue_task(r, p, class, head) = enqueue_task_fair(r, p)
        /\ dequeue_task(r, p, class) = dequeue_task_fair(r, p)
    BY <1>3 DEF enqueue_task, dequeue_task
  <2> QED BY <1>3, <2>1 DEF RqType, enqueue_task_fair, dequeue_task_fair
<1> QED BY <1>1, <1>2, <1>3

(* activate_task and deactivate_task.                                      *)
LEMMA RingActivate ==
  ASSUME NEW T \in [Tasks -> TaskRec], NEW r, Agrees(r, T), NEW p \in Tasks,
         NEW t \in TaskRec
  PROVE  /\ activate_task(r, p, t).queue =
              IF t.sched_class = "wrr" THEN list_add_tail(r.queue, p) ELSE r.queue
         /\ deactivate_task(r, p, t).queue =
              IF t.sched_class = "wrr" THEN list_del(r.queue, p) ELSE r.queue
<1>1. r \in RqType /\ t.sched_class \in {"rt", "wrr", "fair"}
  BY RingMembers DEF TaskRec
<1>2. activate_task(r, p, t).queue = enqueue_task(r, p, t.sched_class, FALSE).queue
  <2> DEFINE e == enqueue_task(r, p, t.sched_class, FALSE)
             n == IF task_contributes_to_load(t) THEN e.nr_uninterruptible - 1
                  ELSE e.nr_uninterruptible
  <2>1. activate_task(r, p, t) = [e EXCEPT !.nr_uninterruptible = n]
    BY DEF activate_task
  <2> HIDE DEF e, n
  <2> QED BY <2>1 DEF e
<1>3. deactivate_task(r, p, t).queue = dequeue_task(r, p, t.sched_class).queue
  <2> DEFINE e == dequeue_task(r, p, t.sched_class)
             n == IF task_contributes_to_load(t) THEN e.nr_uninterruptible + 1
                  ELSE e.nr_uninterruptible
  <2>1. deactivate_task(r, p, t) = [e EXCEPT !.nr_uninterruptible = n]
    BY DEF deactivate_task
  <2> HIDE DEF e, n
  <2> QED BY <2>1 DEF e
<1> QED BY <1>1, <1>2, <1>3, RingFields

(* The task the scheduler picks is in front of the ring, or of another     *)
(* class.                                                                  *)
LEMMA PickTurn ==
  ASSUME NEW T \in [Tasks -> TaskRec], NEW r, Agrees(r, T), NEW throttled,
         NEW c \in pick_next_task(r, T, throttled)
  PROVE  Turn(T, c) \in Front(r.queue)
<1>1. ASSUME c \in pick_next_task_wrr(r) PROVE Turn(T, c) \in Front(r.queue)
  <2>1. r.queue \in Seq(Tasks) /\ r.wrr_nr_running = Len(r.queue)
    BY DEF Agrees, RqInv, RqAgrees, RqType
  <2>2. c = Head(r.queue) /\ r.queue # <<>>
    BY <1>1, <2>1 DEF pick_next_task_wrr
  <2> QED BY <2>2 DEF Front, Turn
<1>2. ASSUME c \in pick_next_task_fair(r, T) PROVE Turn(T, c) = Idle
  BY <1>2 DEF pick_next_task_fair, FairQueued, Turn, ClassOf
<1>3. ASSUME c \in pick_next_task_rt(T, throttled) PROVE Turn(T, c) = Idle
  BY <1>3 DEF pick_next_task_rt, RtQueued, Turn, ClassOf
<1>4. c = Idle => Turn(T, c) = Idle
  BY DEF Turn
<1>5. Idle \in Front(r.queue)
  BY DEF Front
<1> QED BY <1>1, <1>2, <1>3, <1>4, <1>5 DEF pick_next_task

(* The tail of __schedule turns to the front of the queue it leaves.       *)
LEMMA SwitchTurn ==
  ASSUME NEW r, NEW U \in [Tasks -> TaskRec], Agrees(r, U), SwitchTo(r, U)
  PROVE  rq' = r /\ Served' \in Front(r.queue)
<1>1. rq' = r /\ task' = U /\ curr' \in pick_next_task(r, U, rt_throttled)
  BY DEF SwitchTo
<1>2. Turn(U, curr') \in Front(r.queue)
  BY <1>1, PickTurn
<1> QED BY <1>1, <1>2 DEF Served

(* A step that leaves the queue, the current task and its class alone.     *)
LEMMA RestRing ==
  ASSUME rq' = rq, curr' = curr,
         curr # Idle => task'[curr].sched_class = task[curr].sched_class
  PROVE  RingStep
<1>1. Served' = Served
  BY DEF Served, Turn, ClassOf
<1> QED BY <1>1 DEF RingStep, RestStep

(* A task is dequeued, changed and queued again, never in front of the     *)
(* ring.                                                                   *)
LEMMA ChangeRing ==
  ASSUME QueueInv, NEW p \in Tasks, NEW t \in TaskRec,
         t.on_rq = task[p].on_rq, NEW head \in BOOLEAN,
         head = FALSE \/ t.sched_class # "wrr", ChangeTask(p, t, head), curr' = curr
  PROVE  RingStep
<1>0. /\ task \in [Tasks -> TaskRec] /\ Agrees(rq, task) /\ Idle \notin Tasks
      /\ rq \in RqType
      /\ curr \in Tasks \cup {Idle} /\ (curr # Idle => task[curr].on_rq)
  BY RingMembers, TasksAssumption DEF QueueInv, AllGood
<1>1. /\ task'[p] = t /\ \A q \in Tasks \ {p} : task'[q] = task[q]
  BY <1>0 DEF ChangeTask
<1>2. CASE ~task[p].on_rq
  <2>1. rq' = rq /\ (curr # Idle => task'[curr] = task[curr])
    BY <1>0, <1>1, <1>2 DEF ChangeTask
  <2> QED BY <2>1, RestRing
<1>3. CASE task[p].on_rq
  <2> DEFINE d == dequeue_task(rq, p, task[p].sched_class)
  <2>1. /\ task[p].sched_class \in {"rt", "wrr", "fair"}
        /\ t.sched_class \in {"rt", "wrr", "fair"}
    BY <1>0 DEF TaskRec
  <2>2. /\ d.queue = IF task[p].sched_class = "wrr" THEN list_del(rq.queue, p)
                     ELSE rq.queue
        /\ d \in RqType
    <3> DEFINE off == [task[p] EXCEPT !.on_rq = FALSE]
               M == [task EXCEPT ![p] = off]
    <3>1. off \in TaskRec /\ ~off.on_rq
      BY <1>0 DEF TaskRec
    <3>2. OnlyAt(p, task, M) /\ ~M[p].on_rq
      BY <1>0, <3>1 DEF OnlyAt
    <3>3. Agrees(d, M)
      BY <1>0, <1>3, <3>2, DequeueTask
    <3>4. d \in RqType
      <4> HIDE DEF d, M
      <4> QED BY <3>3, RingMembers
    <3>5. d.queue = IF task[p].sched_class = "wrr" THEN list_del(rq.queue, p)
                    ELSE rq.queue
      <4> DEFINE k == task[p].sched_class
      <4>1. k \in {"rt", "wrr", "fair"} /\ rq \in RqType /\ FALSE \in BOOLEAN
        BY <1>0, <2>1
      <4> HIDE DEF k
      <4>2. dequeue_task(rq, p, k).queue = IF k = "wrr" THEN list_del(rq.queue, p)
                                           ELSE rq.queue
        BY <4>1, RingFields
      <4> QED BY <4>2 DEF k
    <3> QED BY <3>4, <3>5
  <2>3. rq' = enqueue_task(d, p, t.sched_class, head)
    BY <1>3 DEF ChangeTask
  <2> HIDE DEF d
  <2>4. rq'.queue = IF t.sched_class = "wrr" THEN list_add_tail(d.queue, p) ELSE d.queue
    <3> DEFINE k == t.sched_class
    <3>1. /\ k \in {"rt", "wrr", "fair"} /\ d \in RqType /\ head \in BOOLEAN
          /\ head = FALSE \/ k # "wrr"
      BY <2>1, <2>2
    <3>2. rq' = enqueue_task(d, p, k, head)
      BY <2>3
    <3> HIDE DEF k
    <3>3. rq'.queue = IF k = "wrr" THEN list_add_tail(d.queue, p) ELSE d.queue
      BY <3>1, <3>2, RingFields
    <3> QED BY <3>3 DEF k
  <2>5. p \in WrrQueued(task) <=> task[p].sched_class = "wrr"
    BY <1>3 DEF WrrQueued
  <2>6. /\ p # curr => Served' = Served
        /\ p = curr => /\ Served = IF task[p].sched_class = "wrr" THEN p ELSE Idle
                       /\ Served' = IF t.sched_class = "wrr" THEN p ELSE Idle
        /\ Served = p => p = curr
    BY <1>0, <1>1 DEF Served, Turn, ClassOf
  <2>7. CASE task[p].sched_class = "wrr" /\ t.sched_class = "wrr"
    <3>1. ToEndStep(p)
      BY <2>2, <2>4, <2>5, <2>6, <2>7 DEF ToEndStep, list_move_tail
    <3> QED BY <3>1 DEF RingStep
  <2>8. CASE task[p].sched_class = "wrr" /\ t.sched_class # "wrr"
    <3>1. LeaveStep(p)
      BY <2>2, <2>4, <2>5, <2>6, <2>8 DEF LeaveStep, Front
    <3> QED BY <3>1 DEF RingStep
  <2>9. CASE task[p].sched_class # "wrr" /\ t.sched_class = "wrr"
    <3>1. JoinStep(p)
      BY <2>2, <2>4, <2>5, <2>6, <2>9 DEF JoinStep
    <3> QED BY <3>1 DEF RingStep
  <2>10. CASE task[p].sched_class # "wrr" /\ t.sched_class # "wrr"
    <3>1. RestStep
      BY <2>2, <2>4, <2>6, <2>10 DEF RestStep
    <3> QED BY <3>1 DEF RingStep
  <2> QED BY <2>7, <2>8, <2>9, <2>10
<1> QED BY <1>2, <1>3

(* __sched_setscheduler.                                                   *)
LEMMA ApplyRing ==
  ASSUME QueueInv, NEW p \in Tasks, NEW policy \in SchedPolicies,
         NEW prio \in 0 .. MAX_RT_PRIO - 1, NEW reset \in BOOLEAN,
         ApplyScheduler(p, policy, prio, reset), curr' = curr
  PROVE  RingStep
<1> DEFINE old == [task[p] EXCEPT !.reset_on_fork = reset]
           new == do_setscheduler(old, policy, prio)
<1>1. task \in [Tasks -> TaskRec] /\ TaskGood(task[p])
  BY DEF QueueInv, AllGood
<1>2. TaskGood(old)
  BY <1>1, GoodFields
<1>3. old.on_rq = task[p].on_rq
  BY <1>1 DEF TaskRec
<1>4. ChangeTask(p, new, FALSE)
  BY DEF ApplyScheduler
<1> HIDE DEF old
<1>5. TaskGood(new) /\ new.on_rq = old.on_rq
  BY <1>2, GoodSetscheduler
<1> HIDE DEF new
<1> QED BY <1>3, <1>4, <1>5, ChangeRing DEF TaskGood

(* A task that is not on the queue comes onto it; nothing else moves.      *)
LEMMA ActivateRing ==
  ASSUME QueueInv, NEW p \in Tasks, ~task[p].on_rq,
         rq' = activate_task(rq, p, task[p]), curr' = curr,
         \A q \in Tasks \ {p} : task'[q] = task[q]
  PROVE  RingStep
<1>1. /\ task \in [Tasks -> TaskRec] /\ Agrees(rq, task) /\ task[p] \in TaskRec
      /\ curr # Idle => task[curr].on_rq /\ curr \in Tasks
  BY DEF QueueInv, AllGood
<1>2. Served' = Served
  BY <1>1 DEF Served, Turn, ClassOf
<1>3. rq'.queue = IF task[p].sched_class = "wrr" THEN list_add_tail(rq.queue, p)
                  ELSE rq.queue
  BY <1>1, RingActivate
<1>4. CASE task[p].sched_class = "wrr"
  <2>1. JoinStep(p)
    BY <1>2, <1>3, <1>4 DEF JoinStep, WrrQueued
  <2> QED BY <2>1 DEF RingStep
<1>5. CASE task[p].sched_class # "wrr"
  BY <1>2, <1>3, <1>5 DEF RingStep, RestStep
<1> QED BY <1>4, <1>5

(* Every step of the scheduler is one of the ring.                         *)
LEMMA StepRing ==
  ASSUME CoreInv, Next
  PROVE  RingStep
<1>0. /\ QueueInv /\ task \in [Tasks -> TaskRec] /\ rq \in RqType
      /\ call \in [Tasks -> CallRec] /\ Agrees(rq, task) /\ \A p \in Tasks : TaskGood(task[p])
      /\ curr # Idle => curr \in Tasks /\ task[curr].on_rq
  BY DEF CoreInv, QueueInv, AllGood, Agrees, RqInv
<1>1. task' \in [Tasks -> TaskRec] /\ Agrees(rq', task')
  BY Inductive DEF CoreInv, QueueInv, AllGood
<1>2. ASSUME NEW r, NEW U, SwitchTo(r, U)
      PROVE  rq' = r /\ task' = U /\ Served' \in Front(rq'.queue)
  BY <1>1, <1>2, SwitchTurn DEF SwitchTo
<1>3. curr \in Tasks => (Served = IF task[curr].sched_class = "wrr" THEN curr ELSE Idle)
  BY TasksAssumption DEF Served, Turn, ClassOf
<1>4. ASSUME rq'.queue = rq.queue, Served' \in Front(rq'.queue) PROVE RingStep
  BY <1>4 DEF RingStep, RestStep
<1>5. ASSUME NEW s \in SleepStates \cup {"RUNNING"}, SetCurrentState(s) PROVE RingStep
  <2>1. /\ curr \in Tasks /\ rq' = rq /\ curr' = curr
        /\ task'[curr] = [task[curr] EXCEPT !.state = s]
    BY <1>0, <1>5 DEF SetCurrentState
  <2>2. task'[curr].sched_class = task[curr].sched_class
    BY <1>0, <2>1 DEF TaskRec
  <2> QED BY <2>1, <2>2, RestRing
<1>6. CASE Preempt \/ ScheduleRunnable
  <2>1. rq' = rq /\ Served' \in Front(rq'.queue)
    BY <1>2, <1>6 DEF Preempt, ScheduleRunnable
  <2> QED BY <2>1, <1>4
<1>7. CASE Yield
  <2>1. /\ curr \in Tasks /\ Served' \in Front(rq'.queue) /\ task[curr].on_rq
        /\ rq' = IF task[curr].sched_class = "wrr" THEN requeue_task_wrr(rq, curr) ELSE rq
    BY <1>0, <1>2, <1>7 DEF Yield, InSyscall
  <2>2. CASE task[curr].sched_class = "wrr"
    <3>1. rq'.queue = list_move_tail(rq.queue, curr)
      BY <1>0, <2>1, <2>2 DEF requeue_task_wrr, RqType
    <3>2. curr \in WrrQueued(task)
      BY <2>1, <2>2 DEF WrrQueued
    <3> QED BY <2>1, <3>1, <3>2 DEF RingStep, ToEndStep
  <2>3. CASE task[curr].sched_class # "wrr"
    BY <2>1, <2>3, <1>4
  <2> QED BY <2>2, <2>3
<1>8. CASE ScheduleSleep \/ ExitSchedule
  <2>1. /\ curr \in Tasks /\ task[curr].on_rq /\ Served' \in Front(rq'.queue)
        /\ \E t \in TaskRec : /\ t.sched_class = task[curr].sched_class
                              /\ rq' = deactivate_task(rq, curr, t)
    <3>1. CASE ScheduleSleep
      BY <1>0, <1>2, <3>1 DEF ScheduleSleep
    <3>2. CASE ExitSchedule
      <4> DEFINE t == [task[curr] EXCEPT !.state = "DEAD"]
      <4>1. /\ curr \in Tasks /\ task[curr].on_rq
            /\ SwitchTo(deactivate_task(rq, curr, t), [task EXCEPT ![curr] = put_to_sleep(t)])
        BY <1>0, <3>2 DEF ExitSchedule, Resumes
      <4>2. t \in TaskRec /\ t.sched_class = task[curr].sched_class
        BY <1>0, <4>1 DEF TaskRec
      <4> HIDE DEF t
      <4> QED BY <1>2, <4>1, <4>2
    <3> QED BY <1>8, <3>1, <3>2
  <2>2. rq'.queue = IF task[curr].sched_class = "wrr" THEN list_del(rq.queue, curr)
                    ELSE rq.queue
    BY <1>0, <2>1, RingActivate
  <2>3. CASE task[curr].sched_class = "wrr"
    <3>1. Served = curr /\ curr \in WrrQueued(task)
      BY <1>3, <2>1, <2>3 DEF WrrQueued
    <3> QED BY <2>1, <2>2, <2>3, <3>1 DEF RingStep, LeaveStep
  <2>4. CASE task[curr].sched_class # "wrr"
    BY <2>1, <2>2, <2>4, <1>4
  <2> QED BY <2>3, <2>4
<1>9. ASSUME NEW w \in Tasks, ScheduleWorkerSleep(w) PROVE RingStep
  <2> DEFINE d == deactivate_task(rq, curr, task[curr])
  <2>1. /\ curr \in Tasks /\ task[curr].on_rq /\ w # curr
        /\ task[curr] \in TaskRec /\ task[w] \in TaskRec
        /\ rq' = IF task[w].on_rq THEN d ELSE activate_task(d, w, task[w])
        /\ Served' \in Front(rq'.queue)
    BY <1>0, <1>2, <1>9 DEF ScheduleWorkerSleep, ttwu
  <2>2. d.queue = IF task[curr].sched_class = "wrr" THEN list_del(rq.queue, curr)
                  ELSE rq.queue
    BY <1>0, <2>1, RingActivate
  <2>3. \E M \in [Tasks -> TaskRec] : Agrees(d, M)
    <3> DEFINE off == [task[curr] EXCEPT !.on_rq = FALSE]
               M == [task EXCEPT ![curr] = off]
    <3>1. off \in TaskRec /\ ~off.on_rq
      BY <2>1 DEF TaskRec
    <3>2. M \in [Tasks -> TaskRec] /\ OnlyAt(curr, task, M) /\ ~M[curr].on_rq
      BY <1>0, <2>1, <3>1 DEF OnlyAt
    <3>3. Agrees(d, M)
      BY <1>0, <2>1, <3>2, DeactivateAgrees
    <3> QED BY <3>2, <3>3
  <2> HIDE DEF d
  <2>4. rq'.queue = IF ~task[w].on_rq /\ task[w].sched_class = "wrr"
                    THEN list_add_tail(d.queue, w) ELSE d.queue
    BY <2>1, <2>3, RingActivate
  <2>5. /\ curr \in WrrQueued(task) <=> task[curr].sched_class = "wrr"
        /\ ~task[w].on_rq => w \notin WrrQueued(task)
        /\ Served = IF task[curr].sched_class = "wrr" THEN curr ELSE Idle
    BY <1>3, <2>1 DEF WrrQueued
  <2>6. CASE task[curr].sched_class = "wrr"
    <3>1. CASE ~task[w].on_rq /\ task[w].sched_class = "wrr"
      <4>1. HandoverStep(curr, w)
        BY <2>1, <2>2, <2>4, <2>5, <2>6, <3>1 DEF HandoverStep
      <4> QED BY <2>1, <4>1 DEF RingStep
    <3>2. CASE ~(~task[w].on_rq /\ task[w].sched_class = "wrr")
      <4>1. LeaveStep(curr)
        BY <2>1, <2>2, <2>4, <2>5, <2>6, <3>2 DEF LeaveStep
      <4> QED BY <2>1, <4>1 DEF RingStep
    <3> QED BY <3>1, <3>2
  <2>7. CASE task[curr].sched_class # "wrr"
    <3>1. CASE ~task[w].on_rq /\ task[w].sched_class = "wrr"
      <4>1. JoinStep(w)
        BY <2>1, <2>2, <2>4, <2>5, <2>7, <3>1 DEF JoinStep
      <4> QED BY <4>1 DEF RingStep
    <3>2. CASE ~(~task[w].on_rq /\ task[w].sched_class = "wrr")
      BY <2>1, <2>2, <2>4, <2>7, <3>2, <1>4
    <3> QED BY <3>1, <3>2
  <2> QED BY <2>6, <2>7
<1>10. ASSUME NEW p \in Tasks, Wake(p) PROVE RingStep
  <2>1. /\ curr' = curr /\ \A q \in Tasks \ {p} : task'[q] = task[q]
        /\ rq' = IF task[p].on_rq THEN rq ELSE activate_task(rq, p, task[p])
        /\ task'[p].sched_class = task[p].sched_class
    BY <1>0, <1>10 DEF Wake, ttwu, TaskRec
  <2>2. CASE task[p].on_rq
    BY <1>0, <2>1, <2>2, RestRing
  <2>3. CASE ~task[p].on_rq
    BY <1>0, <2>1, <2>3, ActivateRing
  <2> QED BY <2>2, <2>3
<1>11. ASSUME NEW c \in Tasks, SchedFork(c) PROVE RingStep
  <2>1. curr \in Tasks /\ curr # c
    BY <1>0, <1>11 DEF SchedFork, InSyscall, TaskGood
  <2>2. rq' = rq /\ curr' = curr /\ task'[curr] = task[curr]
    BY <1>0, <1>11, <2>1 DEF SchedFork
  <2> QED BY <2>2, RestRing
<1>12. CASE WakeUpNewTask
  <2> DEFINE c == call[curr].target
  <2>1. /\ curr \in Tasks /\ c \in Tasks /\ call[curr].op = "fork"
    BY <1>0, <1>12 DEF WakeUpNewTask, Resumes, CallRec
  <2>2. ~task[c].on_rq
    BY <1>0, <2>1 DEF CoreInv, ForkInFlight, TaskGood
  <2>3. /\ rq' = activate_task(rq, c, task[c]) /\ curr' = curr
        /\ task' = [task EXCEPT ![c].on_rq = TRUE, ![c].alloc = "live"]
    BY <1>12 DEF WakeUpNewTask
  <2> HIDE DEF c
  <2>4. \A q \in Tasks \ {c} : task'[q] = task[q]
    BY <1>0, <2>1, <2>3
  <2> QED BY <1>0, <2>1, <2>2, <2>3, <2>4, ActivateRing
<1>13. ASSUME NEW p \in Tasks, NEW g \in Groups, curr' = curr,
              ChangeTask(p, [task[p] EXCEPT !.group = g], FALSE)
       PROVE  RingStep
  <2> DEFINE t == [task[p] EXCEPT !.group = g]
  <2>1. t \in TaskRec /\ t.on_rq = task[p].on_rq
    BY <1>0 DEF TaskRec
  <2>2. ChangeTask(p, t, FALSE)
    BY <1>13
  <2> HIDE DEF t
  <2> QED BY <1>0, <1>13, <2>1, <2>2, ChangeRing
<1>14. CASE ExitCgroup
  BY <1>0, <1>13, <1>14, InputAssumption DEF ExitCgroup, InSyscall
<1>15. CASE AttachMove
  <2>1. /\ curr \in Tasks /\ call[curr].target \in Tasks /\ call[curr].group \in Groups
        /\ curr' = curr
    BY <1>0, <1>15 DEF AttachMove, Resumes, CallRec
  <2>2. CASE UNCHANGED <<rq, task>>
    BY <2>1, <2>2, RestRing
  <2>3. CASE ~UNCHANGED <<rq, task>>
    BY <1>13, <1>15, <2>1, <2>3 DEF AttachMove
  <2> QED BY <2>2, <2>3
<1>16. ASSUME NEW p \in Tasks, NEW sp \in SchedParams, NEW reset \in ResetFlags,
              SetScheduler(p, sp[1], sp[2], reset)
       PROVE  RingStep
  <2>1. /\ sp[1] \in SchedPolicies /\ sp[2] \in 0 .. MAX_RT_PRIO - 1
        /\ reset \in BOOLEAN
    BY InputAssumption
  <2>2. ApplyScheduler(p, sp[1], sp[2], reset) /\ curr' = curr
    BY <1>16 DEF SetScheduler
  <2> QED BY <1>0, <2>1, <2>2, ApplyRing
<1>17. CASE SetparamApply
  <2> DEFINE c == call[curr]
  <2>1. /\ curr \in Tasks /\ curr' = curr
        /\ ApplyScheduler(c.target, c.policy, c.prio, c.reset)
    BY <1>0, <1>17 DEF SetparamApply, Resumes
  <2>2. /\ c.target \in Tasks /\ c.policy \in SchedPolicies
        /\ c.prio \in 0 .. MAX_RT_PRIO - 1 /\ c.reset \in BOOLEAN
    BY <1>0, <2>1 DEF CallRec
  <2> HIDE DEF c
  <2> QED BY <1>0, <2>1, <2>2, ApplyRing
<1>18. ASSUME UNCHANGED <<rq, curr, task>> PROVE RingStep
  BY <1>18, RestRing
<1>19. CASE \/ \E p \in Tasks, prio \in ParamPrios : SetparamRead(p, prio)
            \/ SetparamReturn \/ SetparamRecheck
            \/ \E p \in Tasks, g \in Groups : CanAttach(p, g)
            \/ TickOther \/ RtRuntimeExceeded \/ RtPeriodTimer
  BY <1>18, <1>19 DEF SetparamRead, SetparamReturn, SetparamRecheck, CanAttach, TickOther,
                      RtRuntimeExceeded, RtPeriodTimer
<1>20. ASSUME NEW p \in Tasks, NEW nice \in Nices, SetUserNice(p, nice) PROVE RingStep
  <2> DEFINE u == WithNice(task[p], nice)
             v == WithPrio(u)
  <2>1. TaskGood(task[p]) /\ nice \in -20 .. 19 /\ curr' = curr
    BY <1>0, <1>20, InputAssumption DEF SetUserNice
  <2>2. CASE rt_policy(task[p].policy)
    <3>1. task' = [task EXCEPT ![p] = u] /\ rq' = rq
      BY <1>20, <2>2 DEF SetUserNice, WithNice
    <3>2. u.sched_class = task[p].sched_class
      BY <1>0 DEF WithNice, TaskRec
    <3> HIDE DEF u
    <3>3. curr # Idle => task'[curr].sched_class = task[curr].sched_class
      BY <1>0, <3>1, <3>2
    <3> QED BY <2>1, <3>1, <3>3, RestRing
  <2>3. CASE ~rt_policy(task[p].policy)
    <3>1. ChangeTask(p, v, FALSE)
      BY <1>20, <2>3 DEF SetUserNice, WithNice, WithPrio
    <3>2. TaskGood(v) /\ v.on_rq = task[p].on_rq
      BY <2>1, <2>3, GoodNice
    <3> HIDE DEF v
    <3> QED BY <1>0, <2>1, <3>1, <3>2, ChangeRing DEF TaskGood
  <2> QED BY <2>2, <2>3
<1>21. ASSUME NEW p \in Tasks, NEW pi \in PiPrios \cup {MAX_PRIO}, RtMutexAdjustPrio(p, pi)
       PROVE  RingStep
  <2> DEFINE u == [task[p] EXCEPT !.pi = pi]
             prio == rt_mutex_getprio(u)
             v == setprio(u, prio)
  <2>1. pi \in Prio /\ curr' = curr
    BY <1>21, InputAssumption DEF Prio, MAX_PRIO, MAX_RT_PRIO, RtMutexAdjustPrio
  <2>2. TaskGood(u)
    BY <1>0, <2>1, GoodFields
  <2>3. u.on_rq = task[p].on_rq /\ u.sched_class = task[p].sched_class
    BY <1>0 DEF TaskRec
  <2>4. CASE prio = task[p].prio
    <3>1. task' = [task EXCEPT ![p] = u] /\ rq' = rq
      BY <1>21, <2>4 DEF RtMutexAdjustPrio
    <3> HIDE DEF u
    <3>2. curr # Idle => task'[curr].sched_class = task[curr].sched_class
      BY <1>0, <2>3, <3>1
    <3> QED BY <2>1, <3>1, <3>2, RestRing
  <2>5. CASE prio # task[p].prio
    <3> DEFINE head == task[p].prio < prio
    <3>1. ChangeTask(p, v, head) /\ head \in BOOLEAN
      BY <1>21, <2>5 DEF RtMutexAdjustPrio
    <3>2. TaskGood(v) /\ v.on_rq = u.on_rq
      BY <2>2, GoodSetprio
    <3>3. v.sched_class # "wrr"
      <4>1. u \in TaskRec
        BY <2>2 DEF TaskGood
      <4> HIDE DEF u, prio
      <4> QED BY <4>1 DEF setprio, TaskRec
    <3> HIDE DEF head, u, v, prio
    <3> QED BY <1>0, <2>1, <2>3, <3>1, <3>2, <3>3, ChangeRing DEF TaskGood
  <2> QED BY <2>4, <2>5
<1>22. CASE TickWrr
  <2>1. /\ curr \in Tasks /\ task[curr].on_rq /\ task[curr].sched_class = "wrr"
        /\ curr' = curr
    BY <1>0, <1>22 DEF TickWrr, ClassOf
  <2>2. task'[curr].sched_class = task[curr].sched_class
    BY <1>0, <1>22, <2>1 DEF TickWrr, TaskRec
  <2>3. rq' = rq \/ rq' = requeue_task_wrr(rq, curr)
    BY <1>22 DEF TickWrr
  <2>4. CASE rq' = rq
    BY <2>1, <2>2, <2>4, RestRing
  <2>5. CASE rq' = requeue_task_wrr(rq, curr)
    <3>1. rq'.queue = list_move_tail(rq.queue, curr)
      BY <1>0, <2>5 DEF requeue_task_wrr, RqType
    <3>2. curr \in WrrQueued(task) /\ Served' = Served
      BY <2>1, <2>2 DEF WrrQueued, Served, Turn, ClassOf
    <3> QED BY <2>1, <3>1, <3>2 DEF RingStep, ToEndStep
  <2> QED BY <2>3, <2>4, <2>5
<1> QED
  BY <1>5, <1>6, <1>7, <1>8, <1>9, <1>10, <1>11, <1>12, <1>14, <1>15, <1>16, <1>17,
     <1>19, <1>20, <1>21, <1>22 DEF Next, Tick

(* At the start the ring is empty and the first process, which is not of   *)
(* the WRR class, runs.                                                    *)
LEMMA RingInit == Init => RR!Init
<1> SUFFICES ASSUME Init PROVE RR!Init
  OBVIOUS
<1>1. rq.queue = <<>>
  BY DEF Init, enqueue_task, enqueue_task_fair, EmptyRq
<1>2. curr = InitTask /\ InitTask \in Tasks /\ InitTask # Idle
  BY TasksAssumption DEF Init
<1>3. task[InitTask].sched_class = "fair"
  BY <1>2 DEF Init, NewTask
<1> QED BY <1>1, <1>2, <1>3 DEF RR!Init, ClassOf

(* The scheduler serves WRR tasks in turn: wakeups, policy changes,        *)
(* renicing, group moves and forks put tasks at the end of the ring, and   *)
(* only the one in front is picked (enqueue_task_wrr, requeue_task_wrr and *)
(* pick_next_task_wrr, under every handler of core.c).                     *)
THEOREM RoundRobinImplemented == Spec => ServesInTurn
<1>1. CoreInv /\ [Next]_vars => [RR!Next]_(RR!vars)
  <2>1. ASSUME CoreInv, Next PROVE RR!Next \/ UNCHANGED RR!vars
    BY <2>1, StepRing, RingStepImplements DEF CoreInv, QueueInv
  <2>2. ASSUME UNCHANGED vars PROVE UNCHANGED RR!vars
    BY <2>2 DEF vars, RR!vars, ClassOf
  <2> QED BY <2>1, <2>2
<1> QED BY <1>1, RingInit, InitInv, Inductive, PTL DEF Spec, ServesInTurn, RR!Spec

=============================================================================
