-------------------------- MODULE MigrationProofs --------------------------
(***************************************************************************)
(* Where a task is, for any number of CPUs and tasks and any number of     *)
(* affinity changes and hotplug operations.                                *)
(***************************************************************************)
EXTENDS Migration, DataProofs

(* The inductive invariant, in parts.  What is online and active at each   *)
(* stage of a hotplug operation; sched_setaffinity excludes hotplug.       *)
HotplugInv ==
  /\ hotplug.stage = "no" => hotplug = NoHotplug /\ active = online
  /\ hotplug.stage \in {"prepared", "stop_machine"} =>
       hotplug.cpu \in online /\ active = online \ {hotplug.cpu}
  /\ hotplug.stage = "starting" =>
       /\ hotplug.cpu \in CPUs \ online
       /\ active = online \cup {hotplug.cpu}
  /\ caller["setaffinity"].pc # "no" => hotplug.stage = "no"

(* Nothing is under way on a CPU that is offline.                          *)
OfflineInv ==
  \A c \in CPUs \ online :
    /\ waker[c] = NoWaker /\ pending[c] = {} /\ moving[c] = NONE
    /\ switching[c] = NONE /\ curr[c] = IDLE

(* A queued task is on the queue of its CPU.                               *)
QueueInv == \A t \in Tasks, c \in CPUs : t \in queue[c] <=> on_rq[t] /\ cpu[t] = c

(* A wakeup that is under way holds pi_lock, and what it knows of the task *)
(* stays true.                                                             *)
WakerInv ==
  /\ \A c \in CPUs :
       /\ waker[c].pc = "no" => waker[c] = NoWaker
       /\ waker[c].pc # "no" => waker[c].task \in Tasks
       /\ waker[c].pc \in {"remote", "on_cpu"} => state[waker[c].task] = "SLEEPING"
       /\ waker[c].pc = "on_cpu" => ~on_rq[waker[c].task]
       /\ waker[c].pc = "queue" =>
            /\ state[waker[c].task] = "WAKING"
            /\ cpu[waker[c].task] \in online
  /\ \A c, d \in CPUs :
       waker[c].task = waker[d].task /\ waker[c].pc # "no" => c = d

(* A task that is TASK_WAKING is in one place.                             *)
WakingInv ==
  /\ \A t \in Tasks, c \in CPUs :
       /\ t \in wake_list[c] => state[t] = "WAKING" /\ cpu[t] = c /\ t \notin pending[c]
       /\ t \in pending[c] => state[t] = "WAKING" /\ cpu[t] = c
  /\ \A c, d \in CPUs :
       waker[c].pc = "queue" => waker[c].task \notin wake_list[d] \cup pending[d]
  /\ \A t \in Tasks :
       state[t] = "WAKING" =>
         /\ ~on_rq[t]
         /\ \/ t \in wake_list[cpu[t]] \cup pending[cpu[t]]
            \/ \E c \in CPUs : waker[c] = [pc |-> "queue", task |-> t]

(* A running task, and one that is being switched from, is where it was.   *)
CurrInv ==
  \A c \in CPUs :
    /\ curr[c] \in Tasks => /\ on_cpu[curr[c]] /\ on_rq[curr[c]]
                            /\ cpu[curr[c]] = c
    /\ switching[c] # NONE => /\ on_cpu[switching[c]] /\ cpu[switching[c]] = c
                              /\ curr[c] # switching[c]
    /\ moving[c] # NONE => curr[c] = STOP

(* Tasks are placed on CPUs that are online or about to be.                *)
AliveInv ==
  \A c \in CPUs :
    /\ queue[c] # {} => c \in online \cup active
    /\ wake_list[c] # {} => c \in online
    /\ moving[c] # NONE => moving[c].dest \in online \cup active

(* Who moves a task off a CPU its mask excludes: a call that is about to   *)
(* ask the stopper of that CPU, or a work it has there.                    *)
Moved(t) ==
  \E a \in Callers :
    /\ caller[a].task = t
    /\ caller[a].dest \in cpus_allowed[t]
    /\ \/ caller[a].pc = "stop" /\ caller[a].src = cpu[t]
       \/ /\ caller[a].pc = "wait"
          /\ [task |-> t, dest |-> caller[a].dest, from |-> a] \in works[cpu[t]]

Off(t) == (on_rq[t] \/ state[t] = "WAKING") /\ cpu[t] \notin cpus_allowed[t]

MaskInv == \A t \in Tasks : Off(t) => t \in missed \/ (on_rq[t] /\ Moved(t))

(* A call that is under way is about a task, and knows both CPUs when it   *)
(* asks the stopper.                                                       *)
CallerInv ==
  \A a \in Callers :
    /\ caller[a].pc = "no" => caller[a] = NoCaller
    /\ caller[a].pc # "no" => caller[a].task \in Tasks
    /\ caller[a].pc \in {"stop", "wait"} =>
         caller[a].src \in CPUs /\ caller[a].dest \in CPUs

(* Who brings a task's mask into its cpuset: the update of the cpuset that *)
(* is under way, or sched_setaffinity when it reads the cpuset again.      *)
Updated(t) ==
  /\ caller["cpuset"].pc # "no"
  /\ \/ t \in caller["cpuset"].left
     \/ caller["cpuset"].task = t /\ caller["cpuset"].pc = "set"

Rechecked(t) ==
  LET a == "setaffinity" IN
  /\ caller[a].task = t
  /\ cpuset \cap online # {}
  /\ \/ caller[a].pc = "set" /\ usable_mask(caller[a].mask)
     \/ /\ caller[a].pc \in {"stop", "wait", "recheck"}
        /\ caller[a].mask = cpus_allowed[t]

Covered(t) == \/ t \in forced
              \/ cpus_allowed[t] \subseteq cpuset
              \/ Updated(t)
              \/ Rechecked(t)

CpusetInv ==
  /\ caller["cpuset"].pc # "no" => caller["cpuset"].mask = cpuset
  /\ \A t \in Tasks : Covered(t)

-----------------------------------------------------------------------------
(* The stage of a hotplug operation.                                       *)
LEMMA HotplugInit == Init => HotplugInv
BY DEF Init, HotplugInv, NoHotplug, NoCaller, Callers

(* The stages of a hotplug operation keep the online and the active CPUs   *)
(* in step.                                                                *)
LEMMA HotplugStepInv == TypeOK /\ HotplugInv /\ [Next]_vars => HotplugInv'
<1> SUFFICES ASSUME TypeOK, HotplugInv, [Next]_vars PROVE HotplugInv'
  OBVIOUS
<1> USE DEF HotplugInv
<1>1. ASSUME UNCHANGED masks, caller'["setaffinity"].pc # "no" => caller["setaffinity"].pc # "no"
      PROVE  HotplugInv'
  BY <1>1 DEF masks
<1>2. ASSUME NEW c \in CPUs, CpuStep(c) PROVE HotplugInv'
  <2>1. UNCHANGED masks /\ UNCHANGED caller
    BY <1>2 DEF CpuStep, try_to_wake_up, Waker, ttwu_remote, ttwu_place, ttwu_queue,
          scheduler_ipi, sched_ttwu_pending, set_current_state, Schedule, __schedule,
          finish_task_switch, sched_exec, sched_exec_stop, Stopper,
          migration_cpu_stop, __migrate_task, callers
  <2> QED BY <1>1, <2>1
<1>3. ASSUME NEW t \in Tasks, NEW m \in Masks, sched_setaffinity(t, m) PROVE HotplugInv'
  BY <1>3 DEF sched_setaffinity, masks, NoHotplug
<1>4. ASSUME NEW m \in Masks, update_cpumask(m) PROVE HotplugInv'
  <2>1. UNCHANGED masks /\ caller'["setaffinity"] = caller["setaffinity"]
    BY <1>4 DEF update_cpumask, TypeOK, Callers
  <2> QED BY <1>1, <2>1
<1>5. ASSUME NEW a \in Callers, CallerStep(a) PROVE HotplugInv'
  <2>1. /\ UNCHANGED masks /\ caller[a].pc # "no"
        /\ \A b \in Callers \ {a} : caller'[b] = caller[b]
    BY <1>5 DEF CallerStep, set_cpus_allowed_ptr, set_cpus_allowed_stop,
                set_cpus_allowed_wait, TypeOK
  <2> QED BY <1>1, <2>1 DEF Callers
<1>6. ASSUME sched_setaffinity_recheck PROVE HotplugInv'
  <2>1. UNCHANGED masks /\ caller["setaffinity"].pc # "no"
    BY <1>6 DEF sched_setaffinity_recheck
  <2> QED BY <1>1, <2>1
<1>7. ASSUME NEW c \in CPUs, cpu_down_prepare(c) PROVE HotplugInv'
  BY <1>7 DEF cpu_down_prepare, NoHotplug, callers
<1>8. ASSUME NEW c \in CPUs, cpu_starting(c) PROVE HotplugInv'
  BY <1>8 DEF cpu_starting, NoHotplug, callers
<1>9. ASSUME HotplugStep PROVE HotplugInv'
  <2>0. UNCHANGED caller
    BY <1>9 DEF HotplugStep, cpu_down_failed, stop_machine, cpu_dying, cpu_online, callers
  <2>1. CASE cpu_down_failed
    BY <2>0, <2>1 DEF cpu_down_failed, NoHotplug
  <2>2. CASE stop_machine
    BY <2>0, <2>2 DEF stop_machine, TypeOK
  <2>3. CASE cpu_dying
    BY <2>0, <2>3 DEF cpu_dying, NoHotplug
  <2>4. CASE cpu_online
    BY <2>0, <2>4 DEF cpu_online, NoHotplug
  <2> QED BY <1>9, <2>1, <2>2, <2>3, <2>4 DEF HotplugStep
<1>10. CASE UNCHANGED vars
  BY <1>1, <1>10 DEF vars, callers
<1> QED BY <1>2, <1>3, <1>4, <1>5, <1>6, <1>7, <1>8, <1>9, <1>10 DEF Next

(* There is always a CPU that is online and active.                        *)
LEMMA SomeCpu ==
  ASSUME TypeOK, HotplugInv
  PROVE  online \cap active # {} /\ online \cap active \subseteq CPUs
<1>1. online # {} /\ active # {} /\ online \subseteq CPUs /\ active \subseteq CPUs
  BY DEF TypeOK, Masks
<1>2. hotplug.stage \in {"no", "prepared", "stop_machine", "starting"}
  BY DEF TypeOK
<1>3. active \subseteq online \/ online \subseteq active
  BY <1>2 DEF HotplugInv
<1> QED BY <1>1, <1>3

(* The smallest member of a set of CPUs is one of them.                    *)
LEMMA MinCpu ==
  ASSUME NEW S \in SUBSET CPUs, S # {}
  PROVE  Min(S) \in S
<1>1. S \in SUBSET Nat
  BY MigrationAssumption DEF CPUs
<1>2. \E x \in S : \A y \in S : x <= y
  BY <1>1, LeastNatural
<1> QED BY <1>2 DEF Min

(* A task is placed on a CPU that is online and that its mask, which may   *)
(* be a new one, allows.                                                   *)
LEMMA Fallback ==
  ASSUME TypeOK, HotplugInv, NEW t \in Tasks
  PROVE  LET p == select_fallback_rq(t)
         IN  /\ p.dest \in online \cap active /\ p.dest \in CPUs
             /\ p.dest \in p.mask /\ p.mask \in Masks
<1> DEFINE p == select_fallback_rq(t)
           usable == online \cap active
<1>1. usable # {} /\ usable \subseteq CPUs
  BY SomeCpu
<1>2. cpus_allowed[t] \in Masks /\ cpuset \in Masks
  BY DEF TypeOK
<1>3. p.dest = Min(p.mask \cap usable)
  BY DEF select_fallback_rq
<1>4. /\ p.mask \cap usable # {}
      /\ p.mask = cpus_allowed[t] \/ p.mask = cpuset \/ p.mask = CPUs
  BY <1>1 DEF select_fallback_rq
<1>5. p.mask \cap usable \in SUBSET CPUs
  BY <1>1
<1>6. p.mask \in Masks
  BY <1>1, <1>2, <1>4 DEF Masks
<1>7. Min(p.mask \cap usable) \in p.mask \cap usable
  BY <1>4, <1>5, MinCpu
<1> QED BY <1>1, <1>3, <1>6, <1>7

(* select_task_rq returns a CPU that is online and allowed, whatever the   *)
(* class suggested.                                                        *)
LEMMA Selected ==
  ASSUME TypeOK, HotplugInv, NEW t \in Tasks, NEW r
  PROVE  LET p == select_task_rq(t, r)
         IN  /\ p.dest \in online /\ p.dest \in CPUs
             /\ p.dest \in p.mask /\ p.mask \in Masks
<1>1. CASE r \in cpus_allowed[t] \cap online
  BY <1>1 DEF select_task_rq, TypeOK, Masks
<1>2. CASE r \notin cpus_allowed[t] \cap online
  BY <1>2, Fallback DEF select_task_rq
<1> QED BY <1>1, <1>2

-----------------------------------------------------------------------------
(* Types.                                                                  *)
LEMMA TypeInit == Init => TypeOK
<1> SUFFICES ASSUME Init PROVE TypeOK
  OBVIOUS
<1>1. 1 \in CPUs /\ CPUs \in Masks /\ MaxChanges \in Nat
  BY MigrationAssumption DEF CPUs, Masks
<1>2. on_rq \in [Tasks -> BOOLEAN] /\ on_cpu \in [Tasks -> BOOLEAN]
  BY DEF Init
<1>3. NoCaller \in [pc : {"no", "set", "stop", "wait", "recheck"},
                    task : Tasks \cup {NONE}, mask : SUBSET CPUs,
                    left : SUBSET Tasks, src : CPUs \cup {NONE},
                    dest : CPUs \cup {NONE}]
  BY DEF NoCaller
<1>4. NoWaker \in [pc : {"no", "remote", "on_cpu", "queue"}, task : Tasks \cup {NONE}]
  BY DEF NoWaker
<1>5. hotplug \in [stage : {"no", "prepared", "stop_machine", "starting"},
                   cpu : CPUs \cup {NONE}]
  BY DEF Init, NoHotplug
<1> QED BY <1>1, <1>2, <1>3, <1>4, <1>5 DEF Init, TypeOK

(* What the steps of the wakeup, of the switch and of the stopper leave of *)
(* the type.                                                               *)
LEMMA TypeWake ==
  ASSUME TypeOK, HotplugInv, WakerInv, NEW c \in CPUs,
         \/ \E t \in Tasks : try_to_wake_up(c, t)
         \/ Waker(c)
         \/ scheduler_ipi(c)
         \/ sched_ttwu_pending(c)
  PROVE  TypeOK'
<1> USE DEF TypeOK, task, rqs, lists, stopper, callers, masks, ghosts
<1> DEFINE WakerRec == [pc : {"no", "remote", "on_cpu", "queue"}, task : Tasks \cup {NONE}]
<1>0. /\ NoWaker \in WakerRec
      /\ [waker[c] EXCEPT !.pc = "on_cpu"] \in WakerRec
      /\ [waker[c] EXCEPT !.pc = "queue"] \in WakerRec
  BY DEF NoWaker
<1>1. ASSUME NEW t \in Tasks, try_to_wake_up(c, t) PROVE TypeOK'
  BY <1>1 DEF try_to_wake_up
<1>2. CASE ttwu_remote(c)
  <2>1. waker[c].task \in Tasks
    BY <1>2 DEF ttwu_remote, WakerInv
  <2>2. state' \in [Tasks -> {"RUNNING", "SLEEPING", "WAKING"}]
    BY <1>2, <2>1 DEF ttwu_remote
  <2>3. waker' \in [CPUs -> WakerRec]
    <3> HIDE DEF WakerRec
    <3>1. waker \in [CPUs -> WakerRec]
      BY DEF WakerRec
    <3> QED BY <1>0, <1>2, <3>1 DEF ttwu_remote
  <2> QED BY <1>2, <2>2, <2>3 DEF ttwu_remote
<1>3. ASSUME NEW r, ttwu_place(c, r) PROVE TypeOK'
  <2> DEFINE t == waker[c].task
             p == select_task_rq(t, r)
  <2>1. t \in Tasks
    BY <1>3 DEF ttwu_place, WakerInv
  <2>2. p.dest \in CPUs /\ p.mask \in Masks
    BY <2>1, Selected
  <2> HIDE DEF p
  <2>3. /\ state' \in [Tasks -> {"RUNNING", "SLEEPING", "WAKING"}]
        /\ cpu' \in [Tasks -> CPUs] /\ cpus_allowed' \in [Tasks -> Masks]
    BY <1>3, <2>1, <2>2 DEF ttwu_place, p
  <2>4. forced' \subseteq Tasks /\ missed' \subseteq Tasks
    BY <1>3, <2>1 DEF ttwu_place
  <2>5. waker' \in [CPUs -> WakerRec]
    <3> HIDE DEF WakerRec
    <3>1. waker \in [CPUs -> WakerRec]
      BY DEF WakerRec
    <3> QED BY <1>0, <1>3, <3>1 DEF ttwu_place
  <2> QED BY <1>3, <2>3, <2>4, <2>5 DEF ttwu_place
<1>4. CASE ttwu_queue(c)
  <2>1. waker[c].task \in Tasks
    BY <1>4 DEF ttwu_queue, WakerInv
  <2>2. waker' \in [CPUs -> WakerRec]
    <3> HIDE DEF WakerRec
    <3>1. waker \in [CPUs -> WakerRec]
      BY DEF WakerRec
    <3> QED BY <1>0, <1>4, <3>1 DEF ttwu_queue
  <2>3. CASE LLC[c] # LLC[cpu[waker[c].task]]
    <3>1. wake_list' \in [CPUs -> SUBSET Tasks] /\ ipi' \subseteq CPUs
      BY <1>4, <2>1, <2>3 DEF ttwu_queue, ttwu_queue_remote
    <3> QED BY <1>4, <2>2, <2>3, <3>1 DEF ttwu_queue
  <2>4. CASE LLC[c] = LLC[cpu[waker[c].task]]
    <3> DEFINE S == {waker[c].task}
               d == cpu[waker[c].task]
    <3>1. ttwu_do_activate(S, d) /\ S \subseteq Tasks /\ d \in CPUs
      BY <1>4, <2>1, <2>4 DEF ttwu_queue
    <3>2. /\ on_rq' \in [Tasks -> BOOLEAN]
          /\ state' \in [Tasks -> {"RUNNING", "SLEEPING", "WAKING"}]
          /\ queue' \in [CPUs -> SUBSET Tasks]
      <4> HIDE DEF S, d
      <4> QED BY <3>1 DEF ttwu_do_activate
    <3> QED BY <1>4, <2>2, <2>4, <3>2 DEF ttwu_queue
  <2> QED BY <2>3, <2>4
<1>5. CASE scheduler_ipi(c)
  BY <1>5 DEF scheduler_ipi
<1>6. CASE sched_ttwu_pending(c)
  <2>1. /\ state' \in [Tasks -> {"RUNNING", "SLEEPING", "WAKING"}]
        /\ on_rq' \in [Tasks -> BOOLEAN]
        /\ queue' \in [CPUs -> SUBSET Tasks] /\ pending' \in [CPUs -> SUBSET Tasks]
    BY <1>6 DEF sched_ttwu_pending, ttwu_do_activate
  <2> QED BY <1>6, <2>1 DEF sched_ttwu_pending
<1> QED BY <1>1, <1>2, <1>3, <1>4, <1>5, <1>6 DEF Waker

(* What a CPU does by itself keeps the types.                              *)
LEMMA TypeRun ==
  ASSUME TypeOK, NEW c \in CPUs,
         \/ set_current_state(c)
         \/ Schedule(c)
         \/ finish_task_switch(c)
         \/ \E r \in CPUs : sched_exec(c, r)
         \/ sched_exec_stop(c)
         \/ Stopper(c)
  PROVE  TypeOK'
<1> USE DEF TypeOK, task, rqs, lists, stopper, callers, masks, ghosts
<1>1. CASE set_current_state(c)
  BY <1>1 DEF set_current_state
<1>2. ASSUME NEW preempted \in BOOLEAN, NEW next \in Tasks \cup {IDLE, STOP},
             __schedule(c, preempted, next)
      PROVE  TypeOK'
  <2>1. /\ on_rq' \in [Tasks -> BOOLEAN] /\ on_cpu' \in [Tasks -> BOOLEAN]
    BY <1>2 DEF __schedule
  <2>2. /\ queue' \in [CPUs -> SUBSET Tasks]
        /\ curr' \in [CPUs -> Tasks \cup {IDLE, STOP}]
        /\ switching' \in [CPUs -> Tasks \cup {NONE}]
    BY <1>2 DEF __schedule
  <2> QED BY <1>2, <2>1, <2>2 DEF __schedule
<1>3. CASE finish_task_switch(c)
  <2>1. switching[c] \in Tasks
    BY <1>3 DEF finish_task_switch
  <2>2. on_cpu' \in [Tasks -> BOOLEAN] /\ switching' \in [CPUs -> Tasks \cup {NONE}]
    BY <1>3, <2>1 DEF finish_task_switch
  <2> QED BY <1>3, <2>2 DEF finish_task_switch
<1>4. ASSUME NEW r \in CPUs, sched_exec(c, r) PROVE TypeOK'
  <2>1. changes' \in 0 .. MaxChanges
    BY <1>4, MigrationAssumption DEF sched_exec, Count
  <2> QED BY <1>4, <2>1 DEF sched_exec
<1>5. CASE sched_exec_stop(c)
  <2> DEFINE w == [task |-> curr[c], dest |-> exec[curr[c]], from |-> "exec"]
  <2>1. w \in Works /\ cpu[curr[c]] \in CPUs
    BY <1>5 DEF sched_exec_stop, Works
  <2> HIDE DEF w
  <2>2. works' = [works EXCEPT ![cpu[curr[c]]] = @ \cup {w}]
    BY <1>5 DEF sched_exec_stop, w
  <2>3. /\ works' \in [CPUs -> SUBSET Works]
        /\ \A d \in CPUs : works[d] \subseteq works'[d]
    BY <2>1, <2>2
  <2>4. /\ \A d \in CPUs : moving'[d] \in works'[d] \cup {NONE}
        /\ exec' \in [Tasks -> CPUs \cup {NONE}]
    BY <1>5, <2>3 DEF sched_exec_stop
  <2> QED BY <1>5, <2>3, <2>4 DEF sched_exec_stop
<1>6. ASSUME NEW work \in works[c], migration_cpu_stop(c, work) PROVE TypeOK'
  <2>1. work \in Works /\ work.task \in Tasks
    BY DEF Works
  <2>2. moving[c] = NONE
    BY <1>6 DEF migration_cpu_stop, IrqsOn
  <2> HIDE DEF Works
  <2>3. /\ works' \in [CPUs -> SUBSET Works]
        /\ moving' \in [CPUs -> Works \cup {NONE}]
        /\ missed' \subseteq Tasks
    <3>1. CASE work.dest \in active
      BY <1>6, <2>1, <3>1 DEF migration_cpu_stop
    <3>2. CASE work.dest \notin active
      <4>1. works' \in [CPUs -> SUBSET Works] /\ moving' = moving
        <5>1. works' = [works EXCEPT ![c] = @ \ {work}] /\ moving' = moving
          BY <1>6, <3>2 DEF migration_cpu_stop
        <5>2. works \in [CPUs -> SUBSET Works]
          OBVIOUS
        <5> HIDE DEF TypeOK
        <5> QED BY <5>1, <5>2
      <4>2. missed' \subseteq Tasks
        BY <1>6, <2>1, <3>2 DEF migration_cpu_stop
      <4> QED BY <4>1, <4>2
    <3> QED BY <3>1, <3>2
  <2>4. \A d \in CPUs : moving'[d] \in works'[d] \cup {NONE}
    BY <1>6, <2>1, <2>2 DEF migration_cpu_stop
  <2> QED BY <1>6, <2>3, <2>4 DEF migration_cpu_stop
<1>7. CASE __migrate_task(c)
  <2> DEFINE w == moving[c]
  <2>1. w \in Works /\ w.task \in Tasks /\ w.dest \in CPUs
    BY <1>7 DEF __migrate_task, Works
  <2>2. /\ works' \in [CPUs -> SUBSET Works]
        /\ moving' \in [CPUs -> Works \cup {NONE}]
    BY <1>7 DEF __migrate_task
  <2>4. \A d \in CPUs : moving'[d] \in works'[d] \cup {NONE}
    BY <1>7 DEF __migrate_task
  <2>3. /\ queue' \in [CPUs -> SUBSET Tasks] /\ cpu' \in [Tasks -> CPUs]
        /\ missed' \subseteq Tasks
    <3>1. CASE may_move(w.task, c, w.dest)
      <4>1. queue' = [queue EXCEPT ![c] = @ \ {w.task}, ![w.dest] = @ \cup {w.task}]
        BY <1>7, <3>1 DEF __migrate_task
      <4>2. cpu' = [cpu EXCEPT ![w.task] = w.dest] /\ missed' = missed \ {w.task}
        BY <1>7, <3>1 DEF __migrate_task
      <4> HIDE DEF w
      <4>3. queue' \in [CPUs -> SUBSET Tasks]
        BY <2>1, <4>1
      <4> QED BY <2>1, <4>2, <4>3
    <3>2. CASE ~may_move(w.task, c, w.dest)
      BY <1>7, <3>2 DEF __migrate_task
    <3> QED BY <3>1, <3>2
  <2> QED BY <1>7, <2>2, <2>3, <2>4 DEF __migrate_task
<1> QED BY <1>1, <1>2, <1>3, <1>4, <1>5, <1>6, <1>7 DEF Schedule, Stopper

(* The callers that set masks keep the types.                              *)
LEMMA TypeCall ==
  ASSUME TypeOK, CallerInv,
         \/ \E t \in Tasks, m \in Masks : sched_setaffinity(t, m)
         \/ \E m \in Masks : update_cpumask(m)
         \/ \E a \in Callers : CallerStep(a)
         \/ sched_setaffinity_recheck
  PROVE  TypeOK'
<1> DEFINE CallerRec == [pc : {"no", "set", "stop", "wait", "recheck"},
                         task : Tasks \cup {NONE}, mask : SUBSET CPUs,
                         left : SUBSET Tasks, src : CPUs \cup {NONE},
                         dest : CPUs \cup {NONE}]
<1>0. /\ caller \in [Callers -> CallerRec] /\ NoCaller \in CallerRec
      /\ \A m \in Masks : m \subseteq CPUs
      /\ online \subseteq CPUs /\ cpuset \subseteq CPUs
      /\ MaxChanges \in Nat
  BY MigrationAssumption DEF TypeOK, NoCaller, Masks
<1>c. \A m \in SUBSET CPUs : m \cap cpuset_cpus_allowed \in SUBSET CPUs /\ cpuset_cpus_allowed \in SUBSET CPUs
  BY <1>0 DEF cpuset_cpus_allowed
<1>1. ASSUME NEW t \in Tasks, NEW m \in Masks, sched_setaffinity(t, m) PROVE TypeOK'
  <2> DEFINE new == [NoCaller EXCEPT !.pc = "set", !.task = t,
                                     !.mask = m \cap cpuset_cpus_allowed]
  <2>1. new \in CallerRec
    BY <1>0, <1>c DEF NoCaller
  <2>2. caller' = [caller EXCEPT !["setaffinity"] = new]
    BY <1>1 DEF sched_setaffinity
  <2>3. caller' \in [Callers -> CallerRec]
    <3> HIDE DEF new, CallerRec
    <3> QED BY <1>0, <2>1, <2>2 DEF Callers
  <2>4. changes' \in 0 .. MaxChanges
    <3>1. changes < MaxChanges /\ changes' = changes + 1
      BY <1>1 DEF sched_setaffinity, Count
    <3>2. changes \in 0 .. MaxChanges
      BY DEF TypeOK
    <3> QED BY <1>0, <3>1, <3>2
  <2> QED BY <1>1, <2>3, <2>4 DEF sched_setaffinity, TypeOK, task, rqs, lists, stopper, masks
<1>2. ASSUME NEW m \in Masks, update_cpumask(m) PROVE TypeOK'
  <2>1. PICK t \in Tasks : caller' = [caller EXCEPT !["cpuset"] =
               [NoCaller EXCEPT !.pc = "set", !.task = t, !.mask = m,
                                !.left = Tasks \ {t}]]
    BY <1>2 DEF update_cpumask
  <2> DEFINE new == [NoCaller EXCEPT !.pc = "set", !.task = t, !.mask = m, !.left = Tasks \ {t}]
  <2>2. new \in CallerRec
    BY <1>0 DEF NoCaller
  <2>3. caller' \in [Callers -> CallerRec]
    <3> HIDE DEF new, CallerRec
    <3>1. caller' = [caller EXCEPT !["cpuset"] = new]
      BY <2>1 DEF new
    <3> QED BY <1>0, <2>2, <3>1 DEF Callers
  <2>4. changes' \in 0 .. MaxChanges
    <3>1. changes < MaxChanges /\ changes' = changes + 1
      BY <1>2 DEF update_cpumask, Count
    <3>2. changes \in 0 .. MaxChanges
      BY DEF TypeOK
    <3> QED BY <1>0, <3>1, <3>2
  <2> QED BY <1>2, <2>3, <2>4 DEF update_cpumask, TypeOK, task, rqs, lists, stopper, masks
<1>3. ASSUME NEW a \in Callers, NEW ok PROVE returned(a, ok) \in CallerRec
  <2>1. caller[a] \in CallerRec
    BY <1>0
  <2>2. CASE a = "setaffinity"
    <3>1. [caller[a] EXCEPT !.pc = "recheck"] \in CallerRec
      BY <2>1
    <3> HIDE DEF CallerRec
    <3> QED BY <1>0, <2>2, <3>1 DEF returned
  <2>3. CASE a # "setaffinity" /\ caller[a].left = {}
    BY <1>0, <2>3 DEF returned
  <2>4. CASE a # "setaffinity" /\ caller[a].left # {}
    <3> DEFINE t == CHOOSE u \in caller[a].left : TRUE
    <3>1. t \in caller[a].left /\ t \in Tasks
      BY <2>1, <2>4
    <3>2. returned(a, ok) = [caller[a] EXCEPT !.pc = "set", !.task = t, !.left = @ \ {t}]
      BY <2>4 DEF returned
    <3> HIDE DEF t
    <3>3. [caller[a] EXCEPT !.pc = "set", !.task = t, !.left = @ \ {t}] \in CallerRec
      BY <2>1, <3>1
    <3> QED BY <3>2, <3>3
  <2> QED BY <2>2, <2>3, <2>4
<1>4. ASSUME NEW a \in Callers, set_cpus_allowed_ptr(a) PROVE TypeOK'
  <2> DEFINE t == caller[a].task
             mask == caller[a].mask
             asks == [caller[a] EXCEPT !.pc = "stop", !.src = cpu[t], !.dest = Min(active \cap mask)]
  <2>1. t \in Tasks /\ mask \in SUBSET CPUs /\ caller[a] \in CallerRec /\ cpu[t] \in CPUs
    <3>1. t \in Tasks
      BY <1>4 DEF set_cpus_allowed_ptr, CallerInv
    <3> QED BY <1>0, <3>1 DEF TypeOK
  <2>2. CASE cpus_allowed[t] = mask \/ ~usable_mask(mask)
    <3>1. caller' = [caller EXCEPT ![a] = returned(a, cpus_allowed[t] = mask)]
      BY <1>4, <2>2 DEF set_cpus_allowed_ptr
    <3>2. caller' \in [Callers -> CallerRec]
      <4> HIDE DEF CallerRec
      <4> QED BY <1>0, <1>3, <3>1
    <3>3. forced' \subseteq Tasks /\ cpus_allowed' = cpus_allowed /\ missed' = missed
      <4>1. /\ forced' = forced \/ forced' = forced \cup {t}
            /\ cpus_allowed' = cpus_allowed /\ missed' = missed
        BY <1>4, <2>2 DEF set_cpus_allowed_ptr
      <4>2. forced \subseteq Tasks
        BY DEF TypeOK
      <4> QED BY <2>1, <4>1, <4>2
    <3> QED BY <1>4, <3>2, <3>3 DEF set_cpus_allowed_ptr, TypeOK, rqs, lists, stopper, masks
  <2>3. CASE ~(cpus_allowed[t] = mask \/ ~usable_mask(mask))
    <3>1. mask \in Masks /\ active \cap mask # {} /\ active \cap mask \in SUBSET CPUs
      BY <2>1, <2>3 DEF usable_mask, Masks
    <3>2. Min(active \cap mask) \in CPUs
      BY <3>1, MinCpu
    <3>3. asks \in CallerRec
      BY <2>1, <3>2
    <3>4. caller' = [caller EXCEPT ![a] = IF must_move(t, mask) THEN asks ELSE returned(a, TRUE)]
      BY <1>4, <2>3 DEF set_cpus_allowed_ptr
    <3>5. caller' \in [Callers -> CallerRec]
      <4> HIDE DEF CallerRec, asks
      <4> QED BY <1>0, <1>3, <3>3, <3>4
    <3>6. cpus_allowed' = [cpus_allowed EXCEPT ![t] = mask]
      BY <1>4, <2>3 DEF set_cpus_allowed_ptr
    <3>7. cpus_allowed' \in [Tasks -> Masks]
      <4> HIDE DEF t, mask
      <4> QED BY <2>1, <3>1, <3>6 DEF TypeOK
    <3>8. forced' \subseteq Tasks /\ missed' \subseteq Tasks
      BY <1>4, <2>1, <2>3 DEF set_cpus_allowed_ptr, TypeOK
    <3> QED BY <1>4, <3>5, <3>7, <3>8 DEF set_cpus_allowed_ptr, TypeOK, rqs, lists, stopper, masks
  <2> QED BY <2>2, <2>3
<1>5. ASSUME NEW a \in Callers, set_cpus_allowed_stop(a) PROVE TypeOK'
  <2> DEFINE w == [task |-> caller[a].task, dest |-> caller[a].dest, from |-> a]
             src == caller[a].src
  <2>1. w \in Works /\ w.task \in Tasks /\ src \in CPUs
    BY <1>5 DEF set_cpus_allowed_stop, CallerInv, Works
  <2>2. stop_one_cpu(src, w)
    BY <1>5 DEF set_cpus_allowed_stop
  <2> HIDE DEF w, src
  <2>3. /\ works' \in [CPUs -> SUBSET Works] /\ missed' \subseteq Tasks
        /\ \A c \in CPUs : works[c] \subseteq works'[c]
    BY <2>1, <2>2 DEF stop_one_cpu, TypeOK
  <2>4. caller' \in [Callers -> CallerRec]
    <3>1. [caller[a] EXCEPT !.pc = "wait"] \in CallerRec
      BY <1>0
    <3> HIDE DEF CallerRec
    <3> QED BY <1>0, <1>5, <3>1 DEF set_cpus_allowed_stop
  <2>5. \A c \in CPUs : moving'[c] \in works'[c] \cup {NONE}
    BY <1>5, <2>3 DEF set_cpus_allowed_stop, TypeOK
  <2> QED BY <1>5, <2>3, <2>4, <2>5 DEF set_cpus_allowed_stop, TypeOK, task, rqs, lists, masks
<1>6. ASSUME NEW a \in Callers, set_cpus_allowed_wait(a) PROVE TypeOK'
  <2>1. caller' \in [Callers -> CallerRec]
    <3> HIDE DEF CallerRec
    <3> QED BY <1>0, <1>3, <1>6 DEF set_cpus_allowed_wait
  <2> QED BY <1>6, <2>1 DEF set_cpus_allowed_wait, TypeOK, task, rqs, lists, stopper, masks, ghosts
<1>7. CASE sched_setaffinity_recheck
  <2>1. [caller["setaffinity"] EXCEPT !.pc = "set", !.mask = cpuset_cpus_allowed] \in CallerRec
    BY <1>0, <1>c DEF Callers
  <2>2. caller' \in [Callers -> CallerRec]
    <3> HIDE DEF CallerRec
    <3> QED BY <1>0, <1>7, <2>1 DEF sched_setaffinity_recheck
  <2> QED BY <1>7, <2>2 DEF sched_setaffinity_recheck, TypeOK, task, rqs, lists, stopper, masks, ghosts
<1> QED BY <1>1, <1>2, <1>4, <1>5, <1>6, <1>7 DEF CallerStep

(* The notifiers of a hotplug operation keep the types.                    *)
LEMMA TypeHotplug ==
  ASSUME TypeOK, HotplugInv, WakingInv,
         (\E c \in CPUs : cpu_down_prepare(c) \/ cpu_starting(c)) \/ HotplugStep
  PROVE  TypeOK'
<1>0. /\ active \in Masks /\ online \in Masks /\ MaxChanges \in Nat
      /\ hotplug \in [stage : {"no", "prepared", "stop_machine", "starting"}, cpu : CPUs \cup {NONE}]
  BY MigrationAssumption DEF TypeOK
<1>1. ASSUME NEW c \in CPUs, cpu_down_prepare(c) PROVE TypeOK'
  <2>1. active' \in Masks
    BY <1>0, <1>1 DEF cpu_down_prepare, Masks
  <2>2. changes' \in 0 .. MaxChanges
    BY <1>0, <1>1 DEF cpu_down_prepare, Count, TypeOK
  <2> QED BY <1>1, <2>1, <2>2 DEF cpu_down_prepare, TypeOK, task, rqs, lists, stopper, callers
<1>2. ASSUME NEW c \in CPUs, cpu_starting(c) PROVE TypeOK'
  <2>1. active' \in Masks
    BY <1>0, <1>2 DEF cpu_starting, Masks
  <2>2. changes' \in 0 .. MaxChanges
    BY <1>0, <1>2 DEF cpu_starting, Count, TypeOK
  <2> QED BY <1>2, <2>1, <2>2 DEF cpu_starting, TypeOK, task, rqs, lists, stopper, callers
<1>3. CASE cpu_down_failed
  <2>1. active' \in Masks
    BY <1>0, <1>3 DEF cpu_down_failed, Masks, HotplugInv
  <2>2. hotplug' \in [stage : {"no", "prepared", "stop_machine", "starting"}, cpu : CPUs \cup {NONE}]
    BY <1>3 DEF cpu_down_failed, NoHotplug
  <2> QED BY <1>3, <2>1, <2>2 DEF cpu_down_failed, TypeOK, task, rqs, lists, stopper, callers, ghosts
<1>4. CASE stop_machine
  <2>1. hotplug' \in [stage : {"no", "prepared", "stop_machine", "starting"}, cpu : CPUs \cup {NONE}]
    BY <1>0, <1>4 DEF stop_machine
  <2> QED BY <1>4, <2>1 DEF stop_machine, TypeOK, task, rqs, lists, stopper, callers, ghosts
<1>5. CASE cpu_online
  <2>1. online' \in Masks
    BY <1>0, <1>5 DEF cpu_online, Masks, HotplugInv
  <2>2. hotplug' \in [stage : {"no", "prepared", "stop_machine", "starting"}, cpu : CPUs \cup {NONE}]
    BY <1>5 DEF cpu_online, NoHotplug
  <2> QED BY <1>5, <2>1, <2>2 DEF cpu_online, TypeOK, task, rqs, lists, stopper, callers, ghosts
<1>6. CASE cpu_dying
  <2> DEFINE c == hotplug.cpu
             dying == dying_tasks(c)
             place == [t \in dying |-> select_fallback_rq(t)]
  <2>1. c \in online /\ c \in CPUs /\ active = online \ {c}
    BY <1>0, <1>6 DEF cpu_dying, HotplugInv, Masks
  <2>2. dying \subseteq Tasks
    BY <2>1 DEF dying_tasks, TypeOK
  <2>3. \A t \in dying : place[t].dest \in CPUs /\ place[t].mask \in Masks
    BY <2>2, Fallback
  <2>4. /\ queue' = [d \in CPUs |->
               IF d = c THEN {} ELSE queue[d] \cup {t \in dying : place[t].dest = d}]
        /\ state' = [t \in Tasks |->
               IF t \in dying /\ state[t] = "WAKING" THEN "RUNNING" ELSE state[t]]
        /\ on_rq' = [t \in Tasks |-> t \in dying \/ on_rq[t]]
        /\ cpu' = [t \in Tasks |-> IF t \in dying THEN place[t].dest ELSE cpu[t]]
        /\ cpus_allowed' = [t \in Tasks |->
               IF t \in dying THEN place[t].mask ELSE cpus_allowed[t]]
        /\ wake_list' = [wake_list EXCEPT ![c] = @ \ dying]
        /\ works' = [works EXCEPT ![c] = {}]
        /\ missed' = missed \ dying
        /\ forced' = forced \cup {t \in dying : place[t].mask # cpus_allowed[t]}
        /\ curr' = [curr EXCEPT ![c] = IDLE]
        /\ moving[c] = NONE
    BY <1>6, <2>1 DEF cpu_dying, IrqsOn
  <2> HIDE DEF dying, place
  <2>5. on_rq' \in [Tasks -> BOOLEAN]
    BY <2>4
  <2>6. /\ queue' \in [CPUs -> SUBSET Tasks] /\ wake_list' \in [CPUs -> SUBSET Tasks]
        /\ state' \in [Tasks -> {"RUNNING", "SLEEPING", "WAKING"}]
    BY <2>2, <2>4 DEF TypeOK
  <2>7. cpu' \in [Tasks -> CPUs] /\ cpus_allowed' \in [Tasks -> Masks]
    BY <2>3, <2>4 DEF TypeOK
  <2>8. /\ missed' \subseteq Tasks /\ forced' \subseteq Tasks
        /\ curr' \in [CPUs -> Tasks \cup {IDLE, STOP}]
    BY <2>2, <2>4 DEF TypeOK
  <2>9. works' \in [CPUs -> SUBSET Works] /\ \A d \in CPUs : moving[d] \in works'[d] \cup {NONE}
    BY <2>4 DEF TypeOK
  <2>10. online' \in Masks
    BY <1>0, <1>6, <2>1 DEF cpu_dying, Masks
  <2>11. hotplug' \in [stage : {"no", "prepared", "stop_machine", "starting"}, cpu : CPUs \cup {NONE}]
    BY <1>6 DEF cpu_dying, NoHotplug
  <2>12. ipi' \subseteq CPUs
    BY <1>6 DEF cpu_dying, TypeOK
  <2> QED BY <1>6, <2>5, <2>6, <2>7, <2>8, <2>9, <2>10, <2>11, <2>12
          DEF cpu_dying, TypeOK, callers
<1> QED BY <1>1, <1>2, <1>3, <1>4, <1>5, <1>6 DEF HotplugStep

(* Every step keeps the types.                                             *)
LEMMA TypeStep ==
  TypeOK /\ HotplugInv /\ WakerInv /\ WakingInv /\ CallerInv /\ [Next]_vars => TypeOK'
<1>1. CASE UNCHANGED vars
  BY <1>1 DEF vars, TypeOK, task, rqs, lists, stopper, callers, masks, ghosts
<1> QED BY <1>1, TypeWake, TypeRun, TypeCall, TypeHotplug DEF Next, CpuStep

-----------------------------------------------------------------------------
(* A CPU takes steps only while it is online, and what it is doing is its  *)
(* own.                                                                    *)
LEMMA StepsOnline ==
  ASSUME TypeOK, OfflineInv, NEW c \in CPUs, CpuStep(c)
  PROVE  /\ c \in online /\ UNCHANGED masks
         /\ \A d \in CPUs \ {c} :
              /\ waker'[d] = waker[d] /\ pending'[d] = pending[d]
              /\ moving'[d] = moving[d] /\ switching'[d] = switching[d]
              /\ curr'[d] = curr[d]
<1>0. /\ waker[c].pc # "no" => c \in online
      /\ pending[c] # {} => c \in online
      /\ moving[c] # NONE => c \in online
      /\ switching[c] # NONE => c \in online
  BY DEF OfflineInv, NoWaker
<1> USE DEF TypeOK, task, rqs, lists, stopper
<1>1. ASSUME NEW t \in Tasks, try_to_wake_up(c, t) PROVE c \in online /\ UNCHANGED <<masks, pending, moving, switching, curr>>
        /\ \A d \in CPUs \ {c} : waker'[d] = waker[d]
  BY <1>1 DEF try_to_wake_up, IrqsOn
<1>2. CASE Waker(c)
  <2>1. c \in online
    BY <1>0, <1>2 DEF Waker, ttwu_remote, ttwu_place, ttwu_queue
  <2>2. UNCHANGED <<masks, pending, moving, switching, curr>>
    BY <1>2 DEF Waker, ttwu_remote, ttwu_place, ttwu_queue
  <2>3. \A d \in CPUs \ {c} : waker'[d] = waker[d]
    BY <1>2 DEF Waker, ttwu_remote, ttwu_place, ttwu_queue
  <2> QED BY <2>1, <2>2, <2>3
<1>3. CASE scheduler_ipi(c)
  BY <1>3 DEF scheduler_ipi, IrqsOn
<1>4. CASE sched_ttwu_pending(c)
  BY <1>0, <1>4 DEF sched_ttwu_pending
<1>5. CASE set_current_state(c)
  BY <1>5 DEF set_current_state, IrqsOn
<1>6. CASE Schedule(c)
  BY <1>6 DEF Schedule, __schedule, IrqsOn
<1>7. CASE finish_task_switch(c)
  BY <1>0, <1>7 DEF finish_task_switch
<1>8. CASE (\E r \in CPUs : sched_exec(c, r)) \/ sched_exec_stop(c)
  BY <1>8 DEF sched_exec, sched_exec_stop, IrqsOn
<1>9. CASE Stopper(c)
  <2>1. c \in online
    BY <1>0, <1>9 DEF Stopper, migration_cpu_stop, __migrate_task, IrqsOn
  <2>2. UNCHANGED <<masks, waker, pending, switching, curr>>
    BY <1>9 DEF Stopper, migration_cpu_stop, __migrate_task
  <2>3. \A d \in CPUs \ {c} : moving'[d] = moving[d]
    BY <1>9 DEF Stopper, migration_cpu_stop, __migrate_task
  <2> QED BY <2>1, <2>2, <2>3
<1> QED BY <1>1, <1>2, <1>3, <1>4, <1>5, <1>6, <1>7, <1>8, <1>9 DEF CpuStep

(* The steps that leave everything a CPU is doing as it is.                *)
LEMMA OthersLeave ==
  ASSUME [Next]_vars, ~\E c \in CPUs : CpuStep(c)
  PROVE  /\ UNCHANGED <<waker, pending, moving, switching, on_cpu>>
         /\ ~cpu_dying => UNCHANGED <<state, on_rq, cpu, queue, curr, wake_list, ipi>>
<1> USE DEF task, rqs, lists, stopper
<1>1. CASE \E t \in Tasks, m \in Masks : sched_setaffinity(t, m)
  BY <1>1 DEF sched_setaffinity
<1>2. CASE \E m \in Masks : update_cpumask(m)
  BY <1>2 DEF update_cpumask
<1>3. CASE \E a \in Callers : CallerStep(a)
  BY <1>3 DEF CallerStep, set_cpus_allowed_ptr, set_cpus_allowed_stop, set_cpus_allowed_wait
<1>4. CASE sched_setaffinity_recheck
  BY <1>4 DEF sched_setaffinity_recheck
<1>5. CASE \E c \in CPUs : cpu_down_prepare(c) \/ cpu_starting(c)
  BY <1>5 DEF cpu_down_prepare, cpu_starting
<1>6. CASE HotplugStep
  BY <1>6 DEF HotplugStep, cpu_down_failed, stop_machine, cpu_dying, cpu_online
<1>7. CASE UNCHANGED vars
  BY <1>7 DEF vars
<1> QED BY <1>1, <1>2, <1>3, <1>4, <1>5, <1>6, <1>7 DEF Next

(* What is online changes at the end of a hotplug operation only.          *)
LEMMA OnlineChanges ==
  ASSUME TypeOK, HotplugInv, [Next]_vars
  PROVE  /\ ~cpu_dying => online \subseteq online' /\ online \cup active \subseteq online' \cup active'
         /\ cpu_dying => online' = online \ {hotplug.cpu} /\ active' = active
         /\ ~HotplugStep => online' = online
<1> USE DEF masks
<1>1. CASE \E c \in CPUs : CpuStep(c)
  <2>1. UNCHANGED masks
    BY <1>1 DEF CpuStep, try_to_wake_up, Waker, ttwu_remote, ttwu_place, ttwu_queue,
          scheduler_ipi, sched_ttwu_pending, set_current_state, Schedule, __schedule,
          finish_task_switch, sched_exec, sched_exec_stop, Stopper,
          migration_cpu_stop, __migrate_task
  <2>2. ~cpu_dying
    <3>1. hotplug.stage = "stop_machine" => hotplug # NoHotplug
      BY DEF NoHotplug
    <3> QED BY <2>1, <3>1 DEF cpu_dying
  <2> QED BY <2>1, <2>2
<1>2. CASE \/ \E t \in Tasks, m \in Masks : sched_setaffinity(t, m)
           \/ \E m \in Masks : update_cpumask(m)
           \/ \E a \in Callers : CallerStep(a)
           \/ sched_setaffinity_recheck
           \/ UNCHANGED vars
  <2>1. UNCHANGED masks
    BY <1>2 DEF sched_setaffinity, update_cpumask, CallerStep, set_cpus_allowed_ptr,
          set_cpus_allowed_stop, set_cpus_allowed_wait, sched_setaffinity_recheck, vars
  <2>2. ~cpu_dying
    <3>1. hotplug.stage = "stop_machine" => hotplug # NoHotplug
      BY DEF NoHotplug
    <3> QED BY <2>1, <3>1 DEF cpu_dying
  <2> QED BY <2>1, <2>2
<1>3. ASSUME NEW c \in CPUs, cpu_down_prepare(c) \/ cpu_starting(c)
      PROVE  /\ ~cpu_dying /\ online' = online
             /\ online \cup active \subseteq online' \cup active'
  BY <1>3 DEF cpu_down_prepare, cpu_starting, cpu_dying, NoHotplug, HotplugInv
<1>4. CASE HotplugStep
  <2>1. CASE cpu_dying
    BY <1>4, <2>1 DEF cpu_dying
  <2>2. CASE ~cpu_dying
    BY <1>4, <2>2 DEF HotplugStep, cpu_down_failed, stop_machine, cpu_online
  <2> QED BY <2>1, <2>2
<1> QED BY <1>1, <1>2, <1>3, <1>4 DEF Next

(* Nothing starts on a CPU that is down.                                   *)
LEMMA OfflineStep ==
  ASSUME TypeOK, HotplugInv, OfflineInv, [Next]_vars
  PROVE  OfflineInv'
<1>1. ASSUME NEW c \in CPUs, CpuStep(c) PROVE OfflineInv'
  BY <1>1, StepsOnline DEF OfflineInv, masks
<1>2. CASE cpu_dying
  <2> DEFINE c == hotplug.cpu
  <2>1. /\ c \in CPUs /\ online' = online \ {c} /\ curr' = [curr EXCEPT ![c] = IDLE]
        /\ c \in online
        /\ IrqsOn(c)
        /\ UNCHANGED <<waker, pending, moving, switching>>
    BY <1>2 DEF cpu_dying, HotplugInv, TypeOK, Masks
  <2> HIDE DEF c
  <2> QED BY <2>1 DEF OfflineInv, IrqsOn, TypeOK
<1>3. CASE ~cpu_dying /\ ~\E c \in CPUs : CpuStep(c)
  <2>1. UNCHANGED <<waker, pending, moving, switching, curr>> /\ online \subseteq online'
    BY <1>3, OthersLeave, OnlineChanges
  <2> QED BY <2>1 DEF OfflineInv
<1> QED BY <1>1, <1>2, <1>3

-----------------------------------------------------------------------------
(* Where a task is: on its queue, or on its way there.                     *)
PlaceInv == QueueInv /\ WakerInv /\ WakingInv

(* At the start every task is in one place.                                *)
LEMMA PlaceInit == Init => PlaceInv
BY DEF Init, PlaceInv, QueueInv, WakerInv, WakingInv, NoWaker

(* What ttwu_do_activate changes, task by task.                            *)
LEMMA Activates ==
  ASSUME TypeOK, NEW S \in SUBSET Tasks, NEW d \in CPUs, ttwu_do_activate(S, d)
  PROVE  /\ \A t \in Tasks, c \in CPUs :
              t \in queue'[c] <=> t \in queue[c] \/ (t \in S /\ c = d)
         /\ \A t \in S : on_rq'[t] /\ state'[t] = "RUNNING"
         /\ \A t \in Tasks \ S : on_rq'[t] = on_rq[t] /\ state'[t] = state[t]
<1>1. \A t \in Tasks, c \in CPUs :
              t \in queue'[c] <=> t \in queue[c] \/ (t \in S /\ c = d)
  BY DEF ttwu_do_activate, TypeOK
<1>2. \A t \in S : on_rq'[t] /\ state'[t] = "RUNNING"
  BY DEF ttwu_do_activate
<1>3. \A t \in Tasks \ S : on_rq'[t] = on_rq[t] /\ state'[t] = state[t]
  BY DEF ttwu_do_activate, TypeOK
<1> QED BY <1>1, <1>2, <1>3

(* A waker that starts, or finds the task still queued, moves nothing.     *)
LEMMA PlaceWake ==
  ASSUME TypeOK, HotplugInv, OfflineInv, PlaceInv, NEW c \in CPUs,
         (\E t \in Tasks : try_to_wake_up(c, t)) \/ ttwu_remote(c)
  PROVE  PlaceInv'
<1>0. UNCHANGED <<on_rq, cpu, queue, wake_list, pending, online>>
  BY DEF try_to_wake_up, ttwu_remote, task, rqs, lists, masks
<1> USE DEF PlaceInv
<1>1. QueueInv'
  BY <1>0 DEF QueueInv
<1>2. ASSUME NEW t \in Tasks, try_to_wake_up(c, t) PROVE WakerInv' /\ WakingInv'
  <2>1. /\ waker'[c].task = t /\ waker'[c].pc = IF on_rq[t] THEN "remote" ELSE "on_cpu"
        /\ \A d \in CPUs \ {c} : waker'[d] = waker[d]
        /\ waker[c] = NoWaker /\ state[t] = "SLEEPING" /\ state' = state
        /\ \A d \in CPUs : waker[d].task # t
    BY <1>2 DEF try_to_wake_up, IrqsOn, pi_unlocked, task, TypeOK
  <2>2. WakerInv'
    BY <1>0, <2>1 DEF WakerInv
  <2>3. WakingInv'
    <3>1. \A d \in CPUs : waker'[d].pc = "queue" => d # c
      BY <2>1
    <3>2. \A u \in Tasks, d \in CPUs :
            waker[d] = [pc |-> "queue", task |-> u] => waker'[d] = waker[d]
      BY <2>1 DEF NoWaker
    <3> QED BY <1>0, <2>1, <3>1, <3>2 DEF WakingInv
  <2> QED BY <2>2, <2>3
<1>3. CASE ttwu_remote(c)
  <2> DEFINE t == waker[c].task
  <2>1. /\ t \in Tasks /\ state[t] = "SLEEPING" /\ waker[c].pc = "remote"
        /\ \A d \in CPUs \ {c} : waker[d].task # t
    BY <1>3 DEF ttwu_remote, WakerInv
  <2>2. \A d \in CPUs \ {c} : waker'[d] = waker[d]
    BY <1>3 DEF ttwu_remote, TypeOK
  <2>3. CASE on_rq[t]
    <3>1. /\ state'[t] = "RUNNING" /\ \A u \in Tasks \ {t} : state'[u] = state[u]
          /\ waker'[c] = NoWaker
      BY <1>3, <2>1, <2>3 DEF ttwu_remote, TypeOK
    <3>2. WakerInv'
      <4>1. \A d \in CPUs \ {c} : waker[d].pc # "no" => waker[d].task \in Tasks \ {t}
        BY <2>1 DEF WakerInv
      <4>2. NoWaker.pc = "no" /\ NoWaker.task = NONE /\ NONE \notin Tasks
        BY MigrationAssumption DEF NoWaker
      <4> QED BY <1>0, <2>2, <3>1, <4>1, <4>2 DEF WakerInv
    <3>3. WakingInv'
      <4>1. \A d \in CPUs : waker'[d].pc = "queue" => d # c
        BY <3>1 DEF NoWaker
      <4>2. \A u \in Tasks, d \in CPUs :
              waker[d] = [pc |-> "queue", task |-> u] => waker'[d] = waker[d]
        BY <2>1, <2>2
      <4> QED BY <1>0, <2>1, <2>2, <3>1, <4>1, <4>2 DEF WakingInv
    <3> QED BY <1>1, <3>2, <3>3
  <2>4. CASE ~on_rq[t]
    <3>1. state' = state /\ waker'[c].pc = "on_cpu" /\ waker'[c].task = t
      BY <1>3, <2>1, <2>4 DEF ttwu_remote, TypeOK
    <3>2. WakerInv'
      BY <1>0, <2>1, <2>2, <2>4, <3>1 DEF WakerInv
    <3>3. WakingInv'
      <4>1. \A d \in CPUs : waker'[d].pc = "queue" => d # c
        BY <3>1
      <4>2. \A u \in Tasks, d \in CPUs :
              waker[d] = [pc |-> "queue", task |-> u] => waker'[d] = waker[d]
        BY <2>1, <2>2
      <4> QED BY <1>0, <2>1, <2>2, <3>1, <4>1, <4>2 DEF WakingInv
    <3> QED BY <1>1, <3>2, <3>3
  <2> QED BY <2>3, <2>4
<1> QED BY <1>1, <1>2, <1>3

(* The waker chooses a CPU: the task is in its hands alone.                *)
LEMMA PlacePlace ==
  ASSUME TypeOK, HotplugInv, OfflineInv, PlaceInv, NEW c \in CPUs, NEW r, ttwu_place(c, r)
  PROVE  PlaceInv'
<1> USE DEF PlaceInv
<1> DEFINE t == waker[c].task
           dest == select_task_rq(t, r).dest
<1>1. /\ t \in Tasks /\ state[t] = "SLEEPING" /\ waker[c].pc = "on_cpu" /\ ~on_rq[t]
      /\ \A d \in CPUs \ {c} : waker[d].task # t
  BY DEF ttwu_place, WakerInv
<1>2. dest \in CPUs /\ dest \in online
  BY <1>1, Selected
<1> HIDE DEF dest
<1>3. /\ UNCHANGED <<on_rq, queue, wake_list, pending, online>>
      /\ state'[t] = "WAKING" /\ cpu'[t] = dest
      /\ \A u \in Tasks \ {t} : state'[u] = state[u] /\ cpu'[u] = cpu[u]
  BY <1>1 DEF ttwu_place, dest, rqs, lists, masks, TypeOK
<1>4. /\ waker'[c] = [pc |-> "queue", task |-> t]
      /\ \A d \in CPUs \ {c} : waker'[d] = waker[d]
  BY <1>1 DEF ttwu_place, TypeOK
<1>5. QueueInv'
  BY <1>1, <1>3 DEF QueueInv
<1>6. WakerInv'
  <2>1. \A d \in CPUs \ {c} : waker[d].pc # "no" => waker[d].task \in Tasks \ {t}
    BY <1>1 DEF WakerInv
  <2> QED BY <1>1, <1>2, <1>3, <1>4, <2>1 DEF WakerInv
<1>7. WakingInv'
  <2>1. \A d \in CPUs : t \notin wake_list[d] \cup pending[d]
    BY <1>1 DEF WakingInv
  <2>2. \A u \in Tasks, d \in CPUs :
          waker[d] = [pc |-> "queue", task |-> u] => waker'[d] = waker[d]
    BY <1>1, <1>4
  <2> QED BY <1>1, <1>3, <1>4, <2>1, <2>2 DEF WakingInv
<1> QED BY <1>5, <1>6, <1>7

(* The waker queues the task, or puts it on the wake list of another CPU.  *)
LEMMA PlaceQueue ==
  ASSUME TypeOK, HotplugInv, OfflineInv, PlaceInv, NEW c \in CPUs, ttwu_queue(c)
  PROVE  PlaceInv'
<1> USE DEF PlaceInv
<1> DEFINE t == waker[c].task
           e == cpu[t]
<1>1. /\ t \in Tasks /\ state[t] = "WAKING" /\ waker[c].pc = "queue" /\ e \in CPUs
      /\ \A d \in CPUs \ {c} : waker[d].task # t
      /\ \A d \in CPUs : t \notin wake_list[d] \cup pending[d]
      /\ ~on_rq[t]
  BY DEF ttwu_queue, WakerInv, WakingInv, TypeOK
<1>2. /\ waker'[c] = NoWaker /\ UNCHANGED <<cpu, pending, online>>
      /\ \A d \in CPUs \ {c} : waker'[d] = waker[d]
  BY DEF ttwu_queue, masks, TypeOK
<1>3. /\ NoWaker.pc = "no" /\ NoWaker.task = NONE /\ NONE \notin Tasks
      /\ \A u \in Tasks \ {t}, d \in CPUs :
           waker[d] = [pc |-> "queue", task |-> u] => waker'[d] = waker[d]
      /\ \A d \in CPUs \ {c} : waker[d].pc # "no" => waker[d].task \in Tasks \ {t}
  BY <1>1, <1>2, MigrationAssumption DEF NoWaker, WakerInv
<1>4. CASE LLC[c] # LLC[e]
  <2>1. /\ UNCHANGED <<queue, on_rq, state>>
        /\ wake_list'[e] = wake_list[e] \cup {t}
        /\ \A d \in CPUs \ {e} : wake_list'[d] = wake_list[d]
    BY <1>1, <1>4 DEF ttwu_queue, ttwu_queue_remote, TypeOK
  <2> HIDE DEF t, e
  <2>2. QueueInv'
    BY <1>2, <2>1 DEF QueueInv
  <2>3. WakerInv'
    BY <1>2, <1>3, <2>1 DEF WakerInv
  <2>4. WakingInv'
    <3>1. \A u \in Tasks, d \in CPUs : u \in wake_list'[d] <=> u \in wake_list[d] \/ (u = t /\ d = e)
      BY <2>1, <1>1
    <3>2. e = cpu[t]
      BY DEF e
    <3>3. /\ \A u \in Tasks, d \in CPUs :
             /\ u \in wake_list'[d] => state'[u] = "WAKING" /\ cpu'[u] = d /\ u \notin pending'[d]
             /\ u \in pending'[d] => state'[u] = "WAKING" /\ cpu'[u] = d
      BY <1>1, <1>2, <2>1, <3>1, <3>2 DEF WakingInv
    <3>4. \A f, d \in CPUs :
            waker'[f].pc = "queue" => waker'[f].task \notin wake_list'[d] \cup pending'[d]
      <4> SUFFICES ASSUME NEW f \in CPUs, NEW d \in CPUs, waker'[f].pc = "queue"
                   PROVE  waker'[f].task \notin wake_list'[d] \cup pending'[d]
        OBVIOUS
      <4>1. f # c /\ waker'[f] = waker[f] /\ waker[f].task \in Tasks \ {t}
        BY <1>2, <1>3
      <4>2. waker[f].task \notin wake_list[d] \cup pending[d]
        BY <4>1 DEF WakingInv
      <4> QED BY <1>2, <3>1, <4>1, <4>2
    <3>5. ASSUME NEW u \in Tasks, state'[u] = "WAKING"
          PROVE  /\ ~on_rq'[u]
                 /\ \/ u \in wake_list'[cpu'[u]] \cup pending'[cpu'[u]]
                    \/ \E d \in CPUs : waker'[d] = [pc |-> "queue", task |-> u]
      <4>1. CASE u = t
        BY <4>1, <1>1, <1>2, <2>1, <3>1, <3>2
      <4>2. CASE u # t
        <5>1. /\ ~on_rq[u] /\ cpu[u] \in CPUs
              /\ \/ u \in wake_list[cpu[u]] \cup pending[cpu[u]]
                 \/ \E d \in CPUs : waker[d] = [pc |-> "queue", task |-> u]
          BY <2>1, <3>5 DEF WakingInv, TypeOK
        <5> QED BY <5>1, <4>2, <1>2, <1>3, <2>1, <3>1
      <4> QED BY <4>1, <4>2
    <3> QED BY <3>3, <3>4, <3>5 DEF WakingInv
  <2> QED BY <2>2, <2>3, <2>4
<1>5. CASE LLC[c] = LLC[e]
  <2>1. ttwu_do_activate({t}, e) /\ UNCHANGED wake_list
    BY <1>5 DEF ttwu_queue
  <2>2. /\ \A u \in Tasks, d \in CPUs : u \in queue'[d] <=> u \in queue[d] \/ (u = t /\ d = e)
        /\ on_rq'[t] /\ state'[t] = "RUNNING"
        /\ \A u \in Tasks \ {t} : on_rq'[u] = on_rq[u] /\ state'[u] = state[u]
    <3> DEFINE S == {t}
    <3>1. S \in SUBSET Tasks /\ ttwu_do_activate(S, e) /\ \A u : u \in S <=> u = t
      BY <1>1, <2>1
    <3>2. t \in Tasks /\ e \in CPUs
      BY <1>1
    <3> HIDE DEF t, e, S
    <3>3. /\ \A u \in Tasks, d \in CPUs :
              u \in queue'[d] <=> u \in queue[d] \/ (u \in S /\ d = e)
          /\ \A u \in S : on_rq'[u] /\ state'[u] = "RUNNING"
          /\ \A u \in Tasks \ S : on_rq'[u] = on_rq[u] /\ state'[u] = state[u]
      BY <3>1, <3>2, Activates
    <3> QED BY <3>1, <3>2, <3>3
  <2>3. e = cpu[t]
    OBVIOUS
  <2> HIDE DEF t, e
  <2>4. QueueInv'
    BY <1>2, <2>2, <2>3 DEF QueueInv
  <2>5. WakerInv'
    BY <1>2, <1>3, <2>2 DEF WakerInv
  <2>6. WakingInv'
    <3>1. \A u \in Tasks, d \in CPUs :
             /\ u \in wake_list'[d] => state'[u] = "WAKING" /\ cpu'[u] = d /\ u \notin pending'[d]
             /\ u \in pending'[d] => state'[u] = "WAKING" /\ cpu'[u] = d
      BY <1>1, <1>2, <2>1, <2>2 DEF WakingInv
    <3>2. \A f, d \in CPUs :
            waker'[f].pc = "queue" => waker'[f].task \notin wake_list'[d] \cup pending'[d]
      BY <1>2, <1>3, <2>1 DEF WakingInv
    <3>3. \A u \in Tasks : state'[u] = "WAKING" =>
            /\ ~on_rq'[u]
            /\ \/ u \in wake_list'[cpu'[u]] \cup pending'[cpu'[u]]
               \/ \E d \in CPUs : waker'[d] = [pc |-> "queue", task |-> u]
      <4> SUFFICES ASSUME NEW u \in Tasks, state'[u] = "WAKING"
                   PROVE  /\ ~on_rq'[u]
                          /\ \/ u \in wake_list'[cpu'[u]] \cup pending'[cpu'[u]]
                             \/ \E d \in CPUs : waker'[d] = [pc |-> "queue", task |-> u]
        OBVIOUS
      <4>1. u # t /\ state[u] = "WAKING" /\ on_rq'[u] = on_rq[u]
        BY <2>2
      <4>2. /\ ~on_rq[u]
            /\ \/ u \in wake_list[cpu[u]] \cup pending[cpu[u]]
               \/ \E d \in CPUs : waker[d] = [pc |-> "queue", task |-> u]
        BY <4>1 DEF WakingInv
      <4>3. (\E d \in CPUs : waker[d] = [pc |-> "queue", task |-> u])
              => \E d \in CPUs : waker'[d] = [pc |-> "queue", task |-> u]
        BY <1>3, <4>1
      <4> QED BY <1>2, <2>1, <4>1, <4>2, <4>3
    <3> QED BY <3>1, <3>2, <3>3 DEF WakingInv
  <2> QED BY <2>4, <2>5, <2>6
<1> QED BY <1>4, <1>5

(* The interrupt takes the wake list over, then queues what was on it.     *)
LEMMA PlaceIpi ==
  ASSUME TypeOK, HotplugInv, OfflineInv, PlaceInv, NEW c \in CPUs,
         scheduler_ipi(c) \/ sched_ttwu_pending(c)
  PROVE  PlaceInv'
<1> USE DEF PlaceInv
<1>0. UNCHANGED <<cpu, waker, online>>
  BY DEF scheduler_ipi, sched_ttwu_pending, task, masks
<1>1. CASE scheduler_ipi(c)
  <2>1. /\ UNCHANGED <<state, on_rq, queue>> /\ pending[c] = {}
        /\ pending'[c] = wake_list[c] /\ wake_list'[c] = {}
        /\ \A d \in CPUs \ {c} : pending'[d] = pending[d] /\ wake_list'[d] = wake_list[d]
    BY <1>1 DEF scheduler_ipi, IrqsOn, task, rqs, TypeOK
  <2>2. QueueInv' /\ WakerInv'
    BY <1>0, <2>1 DEF QueueInv, WakerInv
  <2>3. WakingInv'
    <3>1. \A d \in CPUs : wake_list'[d] \cup pending'[d] = wake_list[d] \cup pending[d]
      BY <2>1
    <3>2. \A u \in Tasks : cpu[u] \in CPUs
      BY DEF TypeOK
    <3> QED BY <1>0, <2>1, <3>1, <3>2 DEF WakingInv
  <2> QED BY <2>2, <2>3
<1>2. CASE sched_ttwu_pending(c)
  <2> DEFINE S == pending[c]
  <2>1. /\ ttwu_do_activate(S, c) /\ UNCHANGED wake_list /\ S \in SUBSET Tasks
        /\ pending'[c] = {} /\ \A d \in CPUs \ {c} : pending'[d] = pending[d]
    BY <1>2 DEF sched_ttwu_pending, TypeOK
  <2>2. \A t \in S : /\ state[t] = "WAKING" /\ cpu[t] = c /\ ~on_rq[t]
                     /\ \A d \in CPUs : t \notin wake_list[d] /\ (t \in pending[d] => d = c)
                     /\ \A d \in CPUs : waker[d].pc # "no" => waker[d].task # t
    <3> SUFFICES ASSUME NEW t \in S
                 PROVE  /\ state[t] = "WAKING" /\ cpu[t] = c /\ ~on_rq[t]
                        /\ \A d \in CPUs : t \notin wake_list[d] /\ (t \in pending[d] => d = c)
                        /\ \A d \in CPUs : waker[d].pc # "no" => waker[d].task # t
      OBVIOUS
    <3>1. t \in Tasks /\ state[t] = "WAKING" /\ cpu[t] = c /\ ~on_rq[t]
      BY <2>1 DEF WakingInv
    <3>2. \A d \in CPUs : t \notin wake_list[d] /\ (t \in pending[d] => d = c)
      BY <3>1 DEF WakingInv
    <3>3. ASSUME NEW d \in CPUs, waker[d].pc # "no" PROVE waker[d].task # t
      <4>1. waker[d].pc \in {"remote", "on_cpu", "queue"}
        BY <3>3 DEF TypeOK
      <4>2. waker[d].pc = "queue" => waker[d].task # t
        BY DEF WakingInv
      <4>3. waker[d].pc \in {"remote", "on_cpu"} => waker[d].task # t
        BY <3>1 DEF WakerInv
      <4> QED BY <4>1, <4>2, <4>3
    <3> QED BY <3>1, <3>2, <3>3
  <2>3. \A u \in Tasks, d \in CPUs : u \in pending'[d] <=> u \in pending[d] /\ u \notin S
    BY <2>1, <2>2
  <2> HIDE DEF S
  <2>4. /\ \A t \in Tasks, d \in CPUs :
              t \in queue'[d] <=> t \in queue[d] \/ (t \in S /\ d = c)
        /\ \A t \in S : on_rq'[t] /\ state'[t] = "RUNNING"
        /\ \A t \in Tasks \ S : on_rq'[t] = on_rq[t] /\ state'[t] = state[t]
    BY <2>1, Activates
  <2>5. QueueInv'
    BY <1>0, <2>1, <2>2, <2>4 DEF QueueInv
  <2>6. WakerInv'
    <3>1. \A d \in CPUs : waker[d].pc # "no" => waker[d].task \in Tasks \ S
      BY <2>2 DEF WakerInv
    <3> QED BY <1>0, <2>4, <3>1 DEF WakerInv
  <2>7. WakingInv'
    <3>1. \A u \in Tasks, d \in CPUs :
             /\ u \in wake_list'[d] => state'[u] = "WAKING" /\ cpu'[u] = d /\ u \notin pending'[d]
             /\ u \in pending'[d] => state'[u] = "WAKING" /\ cpu'[u] = d
      BY <1>0, <2>1, <2>2, <2>3, <2>4 DEF WakingInv
    <3>2. \A f, d \in CPUs :
            waker'[f].pc = "queue" => waker'[f].task \notin wake_list'[d] \cup pending'[d]
      BY <1>0, <2>1 DEF WakingInv
    <3>3. ASSUME NEW u \in Tasks, state'[u] = "WAKING"
          PROVE  /\ ~on_rq'[u]
                 /\ \/ u \in wake_list'[cpu'[u]] \cup pending'[cpu'[u]]
                    \/ \E d \in CPUs : waker'[d] = [pc |-> "queue", task |-> u]
      <4>1. u \notin S /\ state[u] = "WAKING" /\ on_rq'[u] = on_rq[u] /\ cpu[u] \in CPUs
        BY <2>4, <3>3 DEF TypeOK
      <4>2. /\ ~on_rq[u]
            /\ \/ u \in wake_list[cpu[u]] \cup pending[cpu[u]]
               \/ \E d \in CPUs : waker[d] = [pc |-> "queue", task |-> u]
        BY <4>1 DEF WakingInv
      <4> QED BY <1>0, <2>1, <2>3, <4>1, <4>2
    <3> QED BY <3>1, <3>2, <3>3 DEF WakingInv
  <2> QED BY <2>5, <2>6, <2>7
<1> QED BY <1>1, <1>2

(* A switch takes a sleeping task off its queue and moves nobody else.     *)
LEMMA PlaceRun ==
  ASSUME TypeOK, HotplugInv, OfflineInv, PlaceInv, CurrInv, NEW c \in CPUs,
         set_current_state(c) \/ Schedule(c)
  PROVE  PlaceInv'
<1> USE DEF PlaceInv
<1>0. UNCHANGED <<cpu, waker, online, wake_list, pending>>
  BY DEF set_current_state, Schedule, __schedule, lists, masks
<1>1. CASE set_current_state(c)
  <2> DEFINE t == curr[c]
  <2>1. /\ t \in Tasks /\ state[t] = "RUNNING" /\ state'[t] = "SLEEPING"
        /\ \A u \in Tasks \ {t} : state'[u] = state[u]
        /\ UNCHANGED <<on_rq, queue>>
    BY <1>1 DEF set_current_state, rqs, TypeOK
  <2> HIDE DEF t
  <2>2. QueueInv'
    BY <1>0, <2>1 DEF QueueInv
  <2>3. WakerInv'
    BY <1>0, <2>1 DEF WakerInv
  <2>4. WakingInv'
    BY <1>0, <2>1 DEF WakingInv
  <2> QED BY <2>2, <2>3, <2>4
<1>2. ASSUME NEW preempted \in BOOLEAN, NEW next \in Tasks \cup {IDLE, STOP},
             __schedule(c, preempted, next)
      PROVE  PlaceInv'
  <2> DEFINE prev == curr[c]
             leaves == prev \in Tasks /\ ~preempted /\ state[prev] = "SLEEPING"
  <2>1. /\ state' = state
        /\ \A t \in Tasks : on_rq'[t] <=> on_rq[t] /\ ~(leaves /\ t = prev)
        /\ queue' = [queue EXCEPT ![c] = IF leaves THEN queue[c] \ {prev} ELSE queue[c]]
    BY <1>2 DEF __schedule
  <2>2. \A t \in Tasks, d \in CPUs :
          t \in queue'[d] <=> t \in queue[d] /\ ~(leaves /\ t = prev /\ d = c)
    <3> HIDE DEF leaves, prev
    <3> QED BY <2>1 DEF TypeOK
  <2>3. leaves => prev \in Tasks /\ cpu[prev] = c /\ state[prev] = "SLEEPING"
    BY DEF CurrInv
  <2> HIDE DEF leaves, prev
  <2>4. QueueInv'
    BY <1>0, <2>1, <2>2, <2>3 DEF QueueInv
  <2>5. WakerInv'
    BY <1>0, <2>1 DEF WakerInv
  <2>6. WakingInv'
    BY <1>0, <2>1 DEF WakingInv
  <2> QED BY <2>4, <2>5, <2>6
<1> QED BY <1>1, <1>2 DEF Schedule

(* The stopper moves a task that is still where it was found, or none.     *)
LEMMA PlaceMigrate ==
  ASSUME TypeOK, HotplugInv, OfflineInv, PlaceInv, CurrInv, NEW c \in CPUs, __migrate_task(c)
  PROVE  PlaceInv'
<1> USE DEF PlaceInv
<1> DEFINE w == moving[c]
           t == w.task
           dest == w.dest
<1>0. UNCHANGED <<state, on_rq, waker, online, wake_list, pending>>
  BY DEF __migrate_task, lists, masks
<1>1. t \in Tasks /\ dest \in CPUs /\ \A d \in CPUs : waker[d].task # t
  BY DEF __migrate_task, TypeOK, Works, pi_unlocked
<1>2. CASE ~may_move(t, c, dest)
  <2>1. UNCHANGED <<queue, cpu>>
    BY <1>2 DEF __migrate_task
  <2> QED BY <1>0, <2>1 DEF QueueInv, WakerInv, WakingInv
<1>3. CASE may_move(t, c, dest)
  <2>1. /\ queue' = [queue EXCEPT ![c] = @ \ {t}, ![dest] = @ \cup {t}]
        /\ cpu' = [cpu EXCEPT ![t] = dest]
    BY <1>3 DEF __migrate_task
  <2>2. on_rq[t] /\ cpu[t] = c
    BY <1>3 DEF may_move
  <2> HIDE DEF t, dest
  <2>3. /\ \A u \in Tasks \ {t} : cpu'[u] = cpu[u]
        /\ cpu'[t] = dest
        /\ \A u \in Tasks \ {t}, d \in CPUs : u \in queue'[d] <=> u \in queue[d]
        /\ \A d \in CPUs : t \in queue'[d] <=> d = dest \/ (d # c /\ t \in queue[d])
    BY <1>1, <2>1 DEF TypeOK
  <2>4. QueueInv'
    BY <1>0, <1>1, <2>2, <2>3 DEF QueueInv
  <2>5. WakerInv'
    BY <1>0, <1>1, <2>3 DEF WakerInv
  <2>6. WakingInv'
    <3>1. state[t] # "WAKING" /\ \A d \in CPUs : t \notin wake_list[d] \cup pending[d]
      BY <1>1, <2>2 DEF WakingInv
    <3> QED BY <1>0, <1>1, <2>3, <3>1 DEF WakingInv
  <2> QED BY <2>4, <2>5, <2>6
<1> QED BY <1>2, <1>3

(* At CPU_DYING no CPU is in the middle of anything.                       *)
LEMMA Quiet ==
  ASSUME TypeOK, HotplugInv, OfflineInv, cpu_dying
  PROVE  \A d \in CPUs : /\ waker[d] = NoWaker /\ pending[d] = {} /\ moving[d] = NONE
                         /\ switching[d] = NONE /\ curr[d] \notin Tasks
<1>1. \A d \in online : IrqsOn(d) /\ curr[d] = STOP
  BY DEF cpu_dying
<1>2. IDLE \notin Tasks /\ STOP \notin Tasks
  BY MigrationAssumption
<1> QED BY <1>1, <1>2 DEF IrqsOn, OfflineInv

(* What CPU_DYING changes, task by task.                                   *)
LEMMA Dying ==
  ASSUME TypeOK, HotplugInv, OfflineInv, PlaceInv, cpu_dying
  PROVE  LET c == hotplug.cpu
             dying == queue[c] \cup wake_list[c]
         IN  /\ c \in CPUs /\ c \in online /\ dying \in SUBSET Tasks
             /\ \A t \in dying :
                  /\ cpu[t] = c /\ on_rq'[t] /\ state'[t] # "WAKING"
                  /\ cpu'[t] \in CPUs /\ cpu'[t] # c /\ cpu'[t] \in online \cap active
                  /\ cpu'[t] \in cpus_allowed'[t]
             /\ \A t \in Tasks \ dying :
                  /\ cpu'[t] = cpu[t] /\ on_rq'[t] = on_rq[t] /\ state'[t] = state[t]
                  /\ cpus_allowed'[t] = cpus_allowed[t]
             /\ \A t \in Tasks, d \in CPUs :
                  /\ t \in queue'[d] <=> IF t \in dying THEN d = cpu'[t] \/ (d # c /\ t \in queue[d])
                                         ELSE t \in queue[d]
                  /\ t \in wake_list'[d] <=> t \in wake_list[d] /\ (d = c => t \notin dying)
<1> DEFINE c == hotplug.cpu
           dying == dying_tasks(c)
           place == [t \in dying |-> select_fallback_rq(t)]
<1>1. c \in online /\ c \in CPUs /\ active = online \ {c}
  BY DEF cpu_dying, HotplugInv, TypeOK, Masks
<1>2. dying \subseteq Tasks /\ dying = queue[c] \cup wake_list[c]
  BY <1>1 DEF dying_tasks, TypeOK
<1>3. \A t \in dying : /\ place[t].dest \in CPUs /\ place[t].dest \in online \cap active
                        /\ place[t].dest \in place[t].mask /\ place[t].dest # c
  BY <1>1, <1>2, Fallback
<1>4. /\ queue' = [d \in CPUs |->
             IF d = c THEN {} ELSE queue[d] \cup {t \in dying : place[t].dest = d}]
      /\ state' = [t \in Tasks |->
             IF t \in dying /\ state[t] = "WAKING" THEN "RUNNING" ELSE state[t]]
      /\ on_rq' = [t \in Tasks |-> t \in dying \/ on_rq[t]]
      /\ cpu' = [t \in Tasks |-> IF t \in dying THEN place[t].dest ELSE cpu[t]]
      /\ cpus_allowed' = [t \in Tasks |->
             IF t \in dying THEN place[t].mask ELSE cpus_allowed[t]]
      /\ wake_list' = [wake_list EXCEPT ![c] = @ \ dying]
  BY DEF cpu_dying
<1> HIDE DEF place, dying
<1>5. \A t \in dying : /\ on_rq'[t] /\ state'[t] # "WAKING" /\ cpu'[t] = place[t].dest
                        /\ cpus_allowed'[t] = place[t].mask
  BY <1>2, <1>4
<1>6. \A t \in dying : cpu[t] = c
  BY <1>1, <1>2 DEF PlaceInv, QueueInv, WakingInv
<1>7. \A t \in Tasks \ dying :
        /\ cpu'[t] = cpu[t] /\ on_rq'[t] = on_rq[t] /\ state'[t] = state[t]
        /\ cpus_allowed'[t] = cpus_allowed[t]
  BY <1>4 DEF TypeOK
<1>8. ASSUME NEW t \in Tasks, NEW d \in CPUs
      PROVE  t \in queue'[d] <=> IF t \in dying THEN d = cpu'[t] \/ (d # c /\ t \in queue[d])
                                 ELSE t \in queue[d]
  <2>1. CASE d = c
    BY <1>2, <1>3, <1>4, <1>5, <2>1
  <2>2. CASE d # c
    BY <1>2, <1>3, <1>4, <1>5, <2>2
  <2> QED BY <2>1, <2>2
<1>9. \A t \in Tasks, d \in CPUs :
        t \in wake_list'[d] <=> t \in wake_list[d] /\ (d = c => t \notin dying)
  BY <1>1, <1>4 DEF TypeOK
<1> QED BY <1>1, <1>2, <1>3, <1>5, <1>6, <1>7, <1>8, <1>9

(* A CPU that dies gives up everything queued on it and everything on its  *)
(* wake list.                                                              *)
LEMMA PlaceDying ==
  ASSUME TypeOK, HotplugInv, OfflineInv, PlaceInv, cpu_dying
  PROVE  PlaceInv'
<1> USE DEF PlaceInv
<1> DEFINE c == hotplug.cpu
           dying == queue[c] \cup wake_list[c]
<1>1. /\ c \in CPUs /\ dying \in SUBSET Tasks
      /\ \A t \in dying : /\ cpu[t] = c /\ on_rq'[t] /\ state'[t] # "WAKING"
                           /\ cpu'[t] \in CPUs /\ cpu'[t] # c
      /\ \A t \in Tasks \ dying :
           cpu'[t] = cpu[t] /\ on_rq'[t] = on_rq[t] /\ state'[t] = state[t]
      /\ \A t \in Tasks, d \in CPUs :
           /\ t \in queue'[d] <=> IF t \in dying THEN d = cpu'[t] \/ (d # c /\ t \in queue[d])
                                  ELSE t \in queue[d]
           /\ t \in wake_list'[d] <=> t \in wake_list[d] /\ (d = c => t \notin dying)
  BY Dying
<1> HIDE DEF dying, c
<1>2. \A d \in CPUs : waker[d] = NoWaker /\ pending[d] = {} /\ waker'[d] = NoWaker /\ pending'[d] = {}
  BY Quiet DEF cpu_dying
<1>3. NoWaker.pc = "no"
  BY DEF NoWaker
<1>4. \A t \in dying, d \in CPUs : /\ t \in queue[d] => d = c
                                   /\ t \in wake_list[d] => d = c
  BY <1>1 DEF QueueInv, WakingInv
<1>5. QueueInv'
  BY <1>1, <1>4 DEF QueueInv
<1>6. WakerInv'
  BY <1>2, <1>3 DEF WakerInv
<1>7. WakingInv'
  <2>1. \A t \in Tasks, d \in CPUs : t \in wake_list'[d] <=> t \in wake_list[d] /\ t \notin dying
    BY <1>1, <1>4
  <2>2. \A t \in Tasks, d \in CPUs :
          t \in wake_list'[d] => state'[t] = "WAKING" /\ cpu'[t] = d
    BY <1>1, <2>1 DEF WakingInv
  <2>3. ASSUME NEW t \in Tasks, state'[t] = "WAKING"
        PROVE  ~on_rq'[t] /\ t \in wake_list'[cpu'[t]]
    <3>1. t \notin dying /\ state[t] = "WAKING" /\ cpu[t] \in CPUs
      BY <1>1, <2>3 DEF TypeOK
    <3>2. ~on_rq[t] /\ t \in wake_list[cpu[t]]
      <4>1. \A d \in CPUs : waker[d] # [pc |-> "queue", task |-> t]
        BY <1>2, <1>3
      <4> QED BY <1>2, <3>1, <4>1 DEF WakingInv
    <3> QED BY <1>1, <2>1, <3>1, <3>2
  <2> QED BY <1>2, <1>3, <2>2, <2>3 DEF WakingInv
<1> QED BY <1>5, <1>6, <1>7

(* Every step keeps a task in its place.                                   *)
LEMMA PlaceStep ==
  ASSUME TypeOK, HotplugInv, OfflineInv, PlaceInv, CurrInv, [Next]_vars
  PROVE  PlaceInv'
<1>1. ASSUME UNCHANGED <<state, on_rq, cpu, queue, wake_list, pending, waker>>, online \subseteq online'
      PROVE  PlaceInv'
  BY <1>1 DEF PlaceInv, QueueInv, WakerInv, WakingInv
<1>2. ASSUME NEW c \in CPUs, CpuStep(c) PROVE PlaceInv'
  <2>1. CASE finish_task_switch(c)
    BY <1>1, <2>1 DEF finish_task_switch, lists, masks
  <2>2. CASE (\E r \in CPUs : sched_exec(c, r)) \/ sched_exec_stop(c)
    BY <1>1, <2>2 DEF sched_exec, sched_exec_stop, task, rqs, lists, masks
  <2>3. CASE \E work \in works[c] : migration_cpu_stop(c, work)
    BY <1>1, <2>3 DEF migration_cpu_stop, task, rqs, lists, masks
  <2> QED BY <1>2, <2>1, <2>2, <2>3, PlaceWake, PlacePlace, PlaceQueue, PlaceIpi, PlaceRun,
             PlaceMigrate DEF CpuStep, Waker, Stopper
<1>3. CASE cpu_dying
  BY <1>3, PlaceDying
<1>4. CASE ~cpu_dying /\ ~\E c \in CPUs : CpuStep(c)
  BY <1>1, <1>4, OthersLeave, OnlineChanges
<1> QED BY <1>2, <1>3, <1>4

-----------------------------------------------------------------------------
(* Every step keeps a running task on its CPU.                             *)
LEMMA CurrInit == Init => CurrInv
<1>1. IDLE \notin Tasks
  BY MigrationAssumption
<1> QED BY <1>1 DEF Init, CurrInv

(* A switch makes a queued task of this CPU the current one.               *)
LEMMA CurrSwitch ==
  ASSUME TypeOK, PlaceInv, CurrInv, NEW c \in CPUs, NEW preempted \in BOOLEAN,
         NEW next \in Tasks \cup {IDLE, STOP}, __schedule(c, preempted, next)
  PROVE  CurrInv'
<1> DEFINE prev == curr[c]
           leaves == prev \in Tasks /\ ~preempted /\ state[prev] = "SLEEPING"
           runnable == IF leaves THEN queue[c] \ {prev} ELSE queue[c]
<1>1. /\ \A t \in Tasks : on_rq'[t] <=> on_rq[t] /\ ~(leaves /\ t = prev)
      /\ \A t \in Tasks : on_cpu'[t] <=> on_cpu[t] \/ t = next
      /\ curr'[c] = next /\ \A d \in CPUs \ {c} : curr'[d] = curr[d]
      /\ switching'[c] = (IF prev \in Tasks /\ prev # next THEN prev ELSE NONE)
      /\ \A d \in CPUs \ {c} : switching'[d] = switching[d]
      /\ UNCHANGED <<cpu, moving>> /\ moving[c] = NONE
  BY DEF __schedule, stopper, IrqsOn, TypeOK
<1>2. next \in Tasks => next \in runnable
  <2>1. next \in pick_next_task(c, runnable) /\ IDLE \notin Tasks /\ STOP \notin Tasks
    BY MigrationAssumption DEF __schedule
  <2> HIDE DEF runnable
  <2> QED BY <2>1 DEF pick_next_task
<1>3. next \in Tasks => on_rq'[next] /\ on_cpu'[next] /\ cpu'[next] = c
  <2>1. ASSUME next \in Tasks PROVE next \in queue[c] /\ ~(leaves /\ next = prev)
    BY <1>2, <2>1
  <2>2. next \in Tasks => on_rq[next] /\ cpu[next] = c
    BY <2>1 DEF PlaceInv, QueueInv
  <2> HIDE DEF leaves
  <2> QED BY <1>1, <2>1, <2>2
<1>4. prev \in Tasks => cpu[prev] = c /\ on_cpu[prev]
  BY DEF CurrInv
<1> HIDE DEF leaves, runnable
<1>5. NONE \notin Tasks
  BY MigrationAssumption
<1>6. ASSUME NEW d \in CPUs \ {c}
      PROVE  /\ curr'[d] \in Tasks => /\ on_cpu'[curr'[d]] /\ on_rq'[curr'[d]]
                                       /\ cpu'[curr'[d]] = d
             /\ switching'[d] # NONE => /\ on_cpu'[switching'[d]] /\ cpu'[switching'[d]] = d
                                        /\ curr'[d] # switching'[d]
             /\ moving'[d] # NONE => curr'[d] = STOP
  <2>1. curr[d] \in Tasks => curr[d] # prev
    BY <1>4 DEF CurrInv
  <2>2. switching[d] \in Tasks \cup {NONE}
    BY DEF TypeOK
  <2> HIDE DEF prev
  <2> QED BY <1>1, <2>1, <2>2 DEF CurrInv
<1>7. /\ curr'[c] \in Tasks => /\ on_cpu'[curr'[c]] /\ on_rq'[curr'[c]]
                                /\ cpu'[curr'[c]] = c
      /\ switching'[c] # NONE => /\ on_cpu'[switching'[c]] /\ cpu'[switching'[c]] = c
                                 /\ curr'[c] # switching'[c]
      /\ moving'[c] # NONE => curr'[c] = STOP
  <2> HIDE DEF prev
  <2> QED BY <1>1, <1>3, <1>4
<1> QED BY <1>6, <1>7 DEF CurrInv

(* The current task of a CPU is on it, and the CPU that switches away      *)
(* keeps on_cpu until it has finished.                                     *)
LEMMA CurrStep ==
  ASSUME TypeOK, HotplugInv, OfflineInv, PlaceInv, CurrInv, [Next]_vars
  PROVE  CurrInv'
<1>0. NONE \notin Tasks /\ STOP \notin Tasks /\ IDLE \notin Tasks
  BY MigrationAssumption
<1>1. ASSUME UNCHANGED <<curr, on_cpu, switching, moving, cpu>>, \A t \in Tasks : on_rq[t] => on_rq'[t]
      PROVE  CurrInv'
  BY <1>1 DEF CurrInv
<1>2. ASSUME NEW c \in CPUs, CpuStep(c) PROVE CurrInv'
  <2>1. CASE \/ \E t \in Tasks : try_to_wake_up(c, t)
             \/ ttwu_remote(c) \/ scheduler_ipi(c) \/ set_current_state(c)
             \/ (\E r \in CPUs : sched_exec(c, r)) \/ sched_exec_stop(c)
    BY <1>1, <2>1 DEF try_to_wake_up, ttwu_remote, scheduler_ipi, set_current_state,
          sched_exec, sched_exec_stop, task, rqs, stopper
  <2>2. ASSUME NEW r, ttwu_place(c, r) PROVE CurrInv'
    <3> DEFINE t == waker[c].task
    <3>1. t \in Tasks /\ ~on_cpu[t]
      BY <2>2 DEF ttwu_place, descheduled, PlaceInv, WakerInv
    <3>2. /\ UNCHANGED <<curr, on_cpu, switching, moving, on_rq>>
          /\ \A u \in Tasks \ {t} : cpu'[u] = cpu[u]
      BY <2>2, <3>1 DEF ttwu_place, rqs, stopper, TypeOK
    <3>3. \A d \in CPUs : switching[d] \in Tasks \cup {NONE}
      BY DEF TypeOK
    <3> HIDE DEF t
    <3> QED BY <3>1, <3>2, <3>3 DEF CurrInv
  <2>3. CASE ttwu_queue(c) \/ sched_ttwu_pending(c)
    <3>1. \A t \in Tasks : on_rq[t] => on_rq'[t]
      BY <2>3 DEF ttwu_queue, sched_ttwu_pending, ttwu_do_activate
    <3> QED BY <1>1, <2>3, <3>1 DEF ttwu_queue, sched_ttwu_pending, stopper
  <2>4. CASE Schedule(c)
    BY <2>4, CurrSwitch DEF Schedule
  <2>5. CASE finish_task_switch(c)
    <3> DEFINE t == switching[c]
    <3>1. /\ t \in Tasks /\ UNCHANGED <<on_rq, cpu, curr, moving>>
          /\ \A u \in Tasks \ {t} : on_cpu'[u] = on_cpu[u]
          /\ switching'[c] = NONE /\ \A d \in CPUs \ {c} : switching'[d] = switching[d]
      BY <2>5 DEF finish_task_switch, stopper, TypeOK
    <3>2. \A d \in CPUs : curr[d] # t /\ (d # c => switching[d] # t)
      BY <1>0, <3>1 DEF CurrInv
    <3>3. \A d \in CPUs : switching[d] \in Tasks \cup {NONE}
      BY DEF TypeOK
    <3> HIDE DEF t
    <3> QED BY <3>1, <3>2, <3>3 DEF CurrInv
  <2>6. ASSUME NEW work \in works[c], migration_cpu_stop(c, work) PROVE CurrInv'
    <3>1. /\ UNCHANGED <<curr, on_cpu, switching, cpu, on_rq>> /\ curr[c] = STOP
          /\ \A d \in CPUs \ {c} : moving'[d] = moving[d]
      BY <2>6 DEF migration_cpu_stop, task, rqs, TypeOK
    <3> QED BY <3>1 DEF CurrInv
  <2>7. CASE __migrate_task(c)
    <3> DEFINE t == moving[c].task
    <3>1. /\ t \in Tasks /\ UNCHANGED <<on_rq, curr, switching, on_cpu>>
          /\ \A d \in CPUs \ {c} : moving'[d] = moving[d]
          /\ moving'[c] = NONE /\ moving[c] # NONE /\ switching[c] = NONE
          /\ \A u \in Tasks \ {t} : cpu'[u] = cpu[u]
          /\ cpu'[t] = cpu[t] \/ cpu[t] = c
      BY <2>7 DEF __migrate_task, may_move, rq_unlocked, Works, TypeOK
    <3>2. curr[c] = STOP
      BY <3>1 DEF CurrInv
    <3>3. \A d \in CPUs : switching[d] \in Tasks \cup {NONE}
      BY DEF TypeOK
    <3> HIDE DEF t
    <3> QED BY <1>0, <3>1, <3>2, <3>3 DEF CurrInv
  <2> QED BY <1>2, <2>1, <2>2, <2>3, <2>4, <2>5, <2>6, <2>7 DEF CpuStep, Waker, Stopper
<1>3. CASE cpu_dying
  <2>1. /\ UNCHANGED <<switching, moving>>
        /\ \A d \in CPUs : curr'[d] = curr[d] \/ curr'[d] = IDLE
    BY <1>3 DEF cpu_dying, TypeOK
  <2> QED BY <1>0, <1>3, <2>1, Quiet DEF CurrInv
<1>4. CASE ~cpu_dying /\ ~\E c \in CPUs : CpuStep(c)
  BY <1>1, <1>4, OthersLeave
<1> QED BY <1>2, <1>3, <1>4

-----------------------------------------------------------------------------
(* Every step leaves tasks on CPUs that are alive only.                    *)
LEMMA AliveStep ==
  ASSUME TypeOK, HotplugInv, OfflineInv, PlaceInv, AliveInv, [Next]_vars
  PROVE  AliveInv'
<1>1. ASSUME \A d \in CPUs : /\ queue'[d] \subseteq queue[d] /\ wake_list'[d] \subseteq wake_list[d]
                             /\ moving'[d] = moving[d] \/ moving'[d] = NONE,
             ~cpu_dying
      PROVE  AliveInv'
  BY <1>1, OnlineChanges DEF AliveInv
<1>2. ASSUME NEW c \in CPUs, CpuStep(c) PROVE AliveInv'
  <2>0. c \in online /\ UNCHANGED <<online, active, hotplug>>
    BY <1>2, StepsOnline DEF masks
  <2>d. ~cpu_dying
    BY <2>0 DEF cpu_dying, NoHotplug
  <2>1. CASE \/ \E t \in Tasks : try_to_wake_up(c, t)
             \/ ttwu_remote(c) \/ (\E r \in CPUs \cup {NONE} : ttwu_place(c, r)) \/ set_current_state(c)
             \/ finish_task_switch(c)
             \/ (\E r \in CPUs : sched_exec(c, r)) \/ sched_exec_stop(c)
    <3>1. UNCHANGED <<queue, wake_list, moving>>
      BY <2>1 DEF try_to_wake_up, ttwu_remote, ttwu_place, set_current_state,
          finish_task_switch, sched_exec, sched_exec_stop, rqs, lists, stopper
    <3> QED BY <1>1, <2>d, <3>1
  <2>2. CASE scheduler_ipi(c)
    BY <1>1, <2>d, <2>2 DEF scheduler_ipi, rqs, stopper, TypeOK
  <2>3. CASE Schedule(c)
    BY <1>1, <2>d, <2>3 DEF Schedule, __schedule, lists, stopper, TypeOK
  <2>4. CASE ttwu_queue(c)
    <3> DEFINE e == cpu[waker[c].task]
    <3>1. e \in online /\ e \in CPUs
      BY <2>4 DEF ttwu_queue, PlaceInv, WakerInv, TypeOK, Masks
    <3>2. /\ \A d \in CPUs \ {e} : queue'[d] = queue[d] /\ wake_list'[d] = wake_list[d]
          /\ moving' = moving
      BY <2>4 DEF ttwu_queue, ttwu_queue_remote, ttwu_do_activate, stopper, TypeOK
    <3> HIDE DEF e
    <3> QED BY <2>0, <3>1, <3>2 DEF AliveInv
  <2>5. CASE sched_ttwu_pending(c)
    <3>1. /\ \A d \in CPUs \ {c} : queue'[d] = queue[d]
          /\ UNCHANGED <<wake_list, moving>>
      BY <2>5 DEF sched_ttwu_pending, ttwu_do_activate, stopper, TypeOK
    <3> QED BY <2>0, <3>1 DEF AliveInv
  <2>6. ASSUME NEW work \in works[c], migration_cpu_stop(c, work) PROVE AliveInv'
    <3>1. /\ UNCHANGED <<queue, wake_list>>
          /\ \A d \in CPUs \ {c} : moving'[d] = moving[d]
          /\ moving'[c] = moving[c] \/ (moving'[c] = work /\ work.dest \in active)
      BY <2>6 DEF migration_cpu_stop, rqs, lists, TypeOK
    <3> QED BY <2>0, <3>1 DEF AliveInv
  <2>7. CASE __migrate_task(c)
    <3> DEFINE e == moving[c].dest
    <3>1. e \in online \cup active
      BY <2>7 DEF __migrate_task, AliveInv
    <3>2. /\ wake_list' = wake_list
          /\ \A d \in CPUs : moving'[d] = moving[d] \/ moving'[d] = NONE
      BY <2>7 DEF __migrate_task, lists, TypeOK
    <3>3. \A d \in CPUs \ {e} : queue'[d] \subseteq queue[d]
      <4> DEFINE t == moving[c].task
      <4>1. \/ queue' = queue
            \/ queue' = [queue EXCEPT ![c] = @ \ {t}, ![e] = @ \cup {t}]
        BY <2>7 DEF __migrate_task
      <4>2. queue \in [CPUs -> SUBSET Tasks]
        BY DEF TypeOK
      <4> HIDE DEF t, e
      <4> SUFFICES ASSUME NEW d \in CPUs \ {e} PROVE queue'[d] \subseteq queue[d]
        OBVIOUS
      <4>3. CASE d = c
        BY <4>1, <4>2, <4>3
      <4>4. CASE d # c
        BY <4>1, <4>2, <4>4
      <4> QED BY <4>3, <4>4
    <3> HIDE DEF e
    <3> QED BY <2>0, <3>1, <3>2, <3>3 DEF AliveInv
  <2> QED BY <1>2, <2>1, <2>2, <2>3, <2>4, <2>5, <2>6, <2>7 DEF CpuStep, Waker, Stopper
<1>3. CASE cpu_dying
  <2> DEFINE c == hotplug.cpu
             dying == queue[c] \cup wake_list[c]
  <2>1. /\ c \in CPUs /\ c \in online /\ dying \in SUBSET Tasks
        /\ \A t \in dying : cpu'[t] # c /\ cpu'[t] \in online \cap active
        /\ \A t \in Tasks, d \in CPUs :
             /\ t \in queue'[d] <=> IF t \in dying THEN d = cpu'[t] \/ (d # c /\ t \in queue[d])
                                    ELSE t \in queue[d]
             /\ t \in wake_list'[d] <=> t \in wake_list[d] /\ (d = c => t \notin dying)
    BY <1>3, Dying
  <2>2. /\ online' = online \ {c} /\ active' = active
        /\ \A d \in CPUs : moving'[d] = NONE
        /\ queue' \in [CPUs -> SUBSET Tasks] /\ wake_list' \in [CPUs -> SUBSET Tasks]
    BY <1>3, OnlineChanges, Quiet, TypeHotplug DEF cpu_dying, TypeOK, PlaceInv, HotplugStep
  <2>3. ASSUME NEW d \in CPUs, NEW t \in queue'[d] PROVE d \in online' \cup active'
    <3>1. t \in Tasks /\ (t \in queue[d] => d # c \/ t \in dying)
      BY <2>2, <2>3
    <3>2. d # c /\ (d = cpu'[t] \/ t \in queue[d])
      BY <2>1, <2>3, <3>1
    <3>3. d \in online \cup active
      BY <2>1, <2>3, <3>1, <3>2 DEF AliveInv
    <3> QED BY <2>2, <3>2, <3>3
  <2>4. ASSUME NEW d \in CPUs, NEW t \in wake_list'[d] PROVE d \in online'
    BY <2>1, <2>2, <2>4 DEF AliveInv
  <2> QED BY <2>2, <2>3, <2>4 DEF AliveInv
<1>4. CASE ~cpu_dying /\ ~\E c \in CPUs : CpuStep(c)
  BY <1>1, <1>4, OthersLeave
<1> QED BY <1>2, <1>3, <1>4

-----------------------------------------------------------------------------
(* The calls.                                                              *)
LEMMA CallerInit == Init => CallerInv
BY DEF Init, CallerInv, NoCaller

(* What a call that is over leaves.                                        *)
LEMMA Returns ==
  ASSUME TypeOK, CallerInv, NEW a \in Callers, NEW ok \in BOOLEAN, caller[a].pc # "no"
  PROVE  LET r == returned(a, ok)
         IN  /\ r = NoCaller \/ (r.pc \in {"set", "recheck"} /\ r.task \in Tasks)
             /\ a = "setaffinity" => (r = NoCaller <=> ~ok) /\ (ok => r.task = caller[a].task /\ r.mask = caller[a].mask /\ r.pc = "recheck")
             /\ a = "cpuset" =>
                  \/ caller[a].left = {} /\ r = NoCaller
                  \/ /\ r.pc = "set" /\ r.mask = caller[a].mask
                     /\ r.task \in caller[a].left /\ r.left = caller[a].left \ {r.task}
<1>0. /\ caller[a] \in [pc : {"no", "set", "stop", "wait", "recheck"},
                         task : Tasks \cup {NONE}, mask : SUBSET CPUs,
                         left : SUBSET Tasks, src : CPUs \cup {NONE},
                         dest : CPUs \cup {NONE}]
      /\ caller[a].task \in Tasks /\ NoCaller.pc = "no"
      /\ a \in {"setaffinity", "cpuset"}
  BY DEF TypeOK, CallerInv, NoCaller, Callers
<1>1. CASE a = "setaffinity"
  <2>1. /\ ~ok => returned(a, ok) = NoCaller
        /\ ok => returned(a, ok) = [caller[a] EXCEPT !.pc = "recheck"]
    BY <1>1 DEF returned
  <2> HIDE DEF NoCaller
  <2> QED BY <1>0, <1>1, <2>1
<1>2. CASE a = "cpuset" /\ caller[a].left = {}
  BY <1>0, <1>2 DEF returned
<1>3. CASE a = "cpuset" /\ caller[a].left # {}
  <2> DEFINE t == CHOOSE u \in caller[a].left : TRUE
  <2>1. t \in caller[a].left /\ t \in Tasks
    BY <1>0, <1>3
  <2>2. returned(a, ok) = [caller[a] EXCEPT !.pc = "set", !.task = t, !.left = @ \ {t}]
    BY <1>3 DEF returned
  <2> HIDE DEF t
  <2>3. /\ returned(a, ok).pc = "set" /\ returned(a, ok).task = t
        /\ returned(a, ok).mask = caller[a].mask
        /\ returned(a, ok).left = caller[a].left \ {t}
    BY <1>0, <2>2
  <2> QED BY <1>3, <2>1, <2>3
<1> QED BY <1>0, <1>1, <1>2, <1>3

(* What set_cpus_allowed_ptr does to its caller and to the task.           *)
LEMMA SetEffect ==
  ASSUME TypeOK, CallerInv, NEW a \in Callers, set_cpus_allowed_ptr(a)
  PROVE  LET t == caller[a].task
             mask == caller[a].mask
         IN  /\ t \in Tasks /\ caller[a].pc = "set"
             /\ \A b \in Callers \ {a} : caller'[b] = caller[b]
             /\ \A u \in Tasks \ {t} : cpus_allowed'[u] = cpus_allowed[u]
             /\ \/ /\ cpus_allowed[t] = mask \/ ~usable_mask(mask)
                   /\ caller'[a] = returned(a, cpus_allowed[t] = mask)
                   /\ UNCHANGED <<cpus_allowed, missed>>
                \/ /\ usable_mask(mask) /\ cpus_allowed'[t] = mask
                   /\ must_move(t, mask)
                   /\ caller'[a].pc = "stop" /\ caller'[a].task = t /\ caller'[a].mask = mask
                   /\ caller'[a].left = caller[a].left
                   /\ caller'[a].src = cpu[t] /\ caller'[a].src \in CPUs
                   /\ caller'[a].dest \in mask /\ caller'[a].dest \in CPUs
                \/ /\ usable_mask(mask) /\ cpus_allowed'[t] = mask
                   /\ ~must_move(t, mask)
                   /\ caller'[a] = returned(a, TRUE)
<1> DEFINE t == caller[a].task
           mask == caller[a].mask
           asks == [caller[a] EXCEPT !.pc = "stop", !.src = cpu[t], !.dest = Min(active \cap mask)]
<1>1. /\ t \in Tasks /\ caller[a].pc = "set" /\ mask \in SUBSET CPUs /\ cpu[t] \in CPUs
      /\ caller[a] \in [pc : {"no", "set", "stop", "wait", "recheck"},
                         task : Tasks \cup {NONE}, mask : SUBSET CPUs,
                         left : SUBSET Tasks, src : CPUs \cup {NONE},
                         dest : CPUs \cup {NONE}]
  <2>1. t \in Tasks /\ caller[a].pc = "set"
    BY DEF set_cpus_allowed_ptr, CallerInv
  <2> QED BY <2>1 DEF TypeOK
<1>2. CASE cpus_allowed[t] = mask \/ ~usable_mask(mask)
  <2>1. /\ caller' = [caller EXCEPT ![a] = returned(a, cpus_allowed[t] = mask)]
        /\ UNCHANGED <<cpus_allowed, missed>>
    BY <1>2 DEF set_cpus_allowed_ptr
  <2>2. /\ caller'[a] = returned(a, cpus_allowed[t] = mask)
        /\ \A b \in Callers \ {a} : caller'[b] = caller[b]
    BY <2>1 DEF TypeOK
  <2> HIDE DEF t, mask
  <2>3. \A u \in Tasks \ {t} : cpus_allowed'[u] = cpus_allowed[u]
    BY <2>1
  <2> QED BY <1>1, <1>2, <2>1, <2>2, <2>3 DEF t, mask
<1>3. CASE ~(cpus_allowed[t] = mask \/ ~usable_mask(mask))
  <2>1. /\ cpus_allowed' = [cpus_allowed EXCEPT ![t] = mask]
        /\ caller' = [caller EXCEPT ![a] = IF must_move(t, mask) THEN asks ELSE returned(a, TRUE)]
    BY <1>3 DEF set_cpus_allowed_ptr
  <2>2. active \cap mask # {} /\ active \cap mask \in SUBSET CPUs
    BY <1>1, <1>3 DEF usable_mask
  <2>3. Min(active \cap mask) \in mask /\ Min(active \cap mask) \in CPUs
    BY <2>2, MinCpu
  <2>4. /\ asks.pc = "stop" /\ asks.task = t /\ asks.mask = mask /\ asks.left = caller[a].left
        /\ asks.src = cpu[t] /\ asks.dest = Min(active \cap mask)
    BY <1>1
  <2> HIDE DEF asks
  <2>5. /\ caller'[a] = (IF must_move(t, mask) THEN asks ELSE returned(a, TRUE))
        /\ \A b \in Callers \ {a} : caller'[b] = caller[b]
    BY <2>1 DEF TypeOK
  <2>6. /\ cpus_allowed'[t] = mask
        /\ \A u \in Tasks \ {t} : cpus_allowed'[u] = cpus_allowed[u]
    BY <1>1, <2>1 DEF TypeOK
  <2> QED BY <1>1, <1>3, <2>3, <2>4, <2>5, <2>6
<1> QED BY <1>2, <1>3

(* What callers under way remember stays a task, a mask and a place to go  *)
(* on.                                                                     *)
LEMMA CallerStepInv == TypeOK /\ CallerInv /\ [Next]_vars => CallerInv'
<1> SUFFICES ASSUME TypeOK, CallerInv, [Next]_vars PROVE CallerInv'
  OBVIOUS
<1>0. NoCaller.pc = "no"
  BY DEF NoCaller
<1>1. ASSUME UNCHANGED caller PROVE CallerInv'
  BY <1>1 DEF CallerInv
<1>2. ASSUME NEW a \in Callers, \A b \in Callers \ {a} : caller'[b] = caller[b],
             \/ caller'[a] = NoCaller
             \/ caller'[a].pc \in {"set", "recheck"} /\ caller'[a].task \in Tasks
             \/ /\ caller'[a].pc \in {"stop", "wait"} /\ caller'[a].task \in Tasks
                /\ caller'[a].src \in CPUs /\ caller'[a].dest \in CPUs
      PROVE  CallerInv'
  <2> HIDE DEF NoCaller
  <2> QED BY <1>0, <1>2 DEF CallerInv
<1>3. ASSUME NEW t \in Tasks, NEW m \in Masks, sched_setaffinity(t, m) PROVE CallerInv'
  <2> DEFINE a == "setaffinity"
  <2>1. /\ a \in Callers /\ caller'[a].pc = "set" /\ caller'[a].task = t
        /\ \A b \in Callers \ {a} : caller'[b] = caller[b]
    BY <1>3 DEF sched_setaffinity, Callers, NoCaller, TypeOK
  <2> HIDE DEF a
  <2> QED BY <1>2, <2>1
<1>4. ASSUME NEW m \in Masks, update_cpumask(m) PROVE CallerInv'
  <2> DEFINE a == "cpuset"
  <2>1. PICK t \in Tasks : caller' = [caller EXCEPT ![a] =
               [NoCaller EXCEPT !.pc = "set", !.task = t, !.mask = m,
                                !.left = Tasks \ {t}]]
    BY <1>4 DEF update_cpumask
  <2>2. /\ a \in Callers /\ caller'[a].pc = "set" /\ caller'[a].task = t
        /\ \A b \in Callers \ {a} : caller'[b] = caller[b]
    BY <2>1 DEF Callers, NoCaller, TypeOK
  <2> HIDE DEF a
  <2> QED BY <1>2, <2>2
<1>5. ASSUME NEW a \in Callers, set_cpus_allowed_ptr(a) PROVE CallerInv'
  <2> DEFINE same == (cpus_allowed[caller[a].task] = caller[a].mask)
  <2>0. caller[a].pc # "no" /\ TRUE \in BOOLEAN /\ same \in BOOLEAN
    BY <1>5 DEF set_cpus_allowed_ptr
  <2>1. /\ returned(a, same) = NoCaller
           \/ (returned(a, same).pc \in {"set", "recheck"} /\ returned(a, same).task \in Tasks)
        /\ returned(a, TRUE) = NoCaller
           \/ (returned(a, TRUE).pc \in {"set", "recheck"} /\ returned(a, TRUE).task \in Tasks)
    <3> HIDE DEF same
    <3> QED BY <2>0, Returns
  <2> QED BY <1>2, <1>5, <2>1, SetEffect
<1>6. ASSUME NEW a \in Callers, set_cpus_allowed_stop(a) PROVE CallerInv'
  <2>1. /\ caller[a].pc = "stop" /\ \A b \in Callers \ {a} : caller'[b] = caller[b]
        /\ caller'[a].pc = "wait" /\ caller'[a].task = caller[a].task
        /\ caller'[a].src = caller[a].src /\ caller'[a].dest = caller[a].dest
    BY <1>6 DEF set_cpus_allowed_stop, TypeOK
  <2>2. caller[a].task \in Tasks /\ caller[a].src \in CPUs /\ caller[a].dest \in CPUs
    BY <2>1 DEF CallerInv
  <2> QED BY <1>2, <2>1, <2>2
<1>7. ASSUME NEW a \in Callers, set_cpus_allowed_wait(a) PROVE CallerInv'
  <2>1. /\ caller[a].pc # "no" /\ caller'[a] = returned(a, TRUE) /\ TRUE \in BOOLEAN
        /\ \A b \in Callers \ {a} : caller'[b] = caller[b]
    BY <1>7 DEF set_cpus_allowed_wait, TypeOK
  <2>2. \/ caller'[a] = NoCaller
        \/ caller'[a].pc \in {"set", "recheck"} /\ caller'[a].task \in Tasks
    BY <2>1, Returns
  <2> QED BY <1>2, <2>1, <2>2
<1>8. CASE sched_setaffinity_recheck
  <2> DEFINE a == "setaffinity"
  <2>1. /\ a \in Callers /\ caller[a].pc = "recheck" /\ \A b \in Callers \ {a} : caller'[b] = caller[b]
        /\ caller'[a] = NoCaller \/ (caller'[a].pc = "set" /\ caller'[a].task = caller[a].task)
    BY <1>8 DEF sched_setaffinity_recheck, Callers, TypeOK
  <2> HIDE DEF a
  <2>2. caller[a].task \in Tasks
    BY <2>1 DEF CallerInv
  <2> QED BY <1>2, <2>1, <2>2
<1>9. ASSUME NEW c \in CPUs, CpuStep(c) PROVE CallerInv'
  BY <1>1, <1>9 DEF CpuStep, try_to_wake_up, Waker, ttwu_remote, ttwu_place, ttwu_queue,
          scheduler_ipi, sched_ttwu_pending, set_current_state, Schedule, __schedule,
          finish_task_switch, sched_exec, sched_exec_stop, Stopper,
          migration_cpu_stop, __migrate_task, callers
<1>10. CASE (\E c \in CPUs : cpu_down_prepare(c) \/ cpu_starting(c)) \/ HotplugStep \/ UNCHANGED vars
  BY <1>1, <1>10 DEF HotplugStep, cpu_down_prepare, cpu_starting, cpu_down_failed, stop_machine,
          cpu_dying, cpu_online, callers, vars
<1> QED BY <1>3, <1>4, <1>5, <1>6, <1>7, <1>8, <1>9, <1>10 DEF Next, CallerStep

-----------------------------------------------------------------------------
(* A task that has not left its CPU and whose mask is the same stays       *)
(* accounted for, when the one who moves it is still there.                *)
LEMMA MaskKept ==
  ASSUME MaskInv, NEW t \in Tasks,
         cpu'[t] = cpu[t], cpus_allowed'[t] = cpus_allowed[t],
         on_rq'[t] \/ state'[t] = "WAKING" => on_rq[t] \/ state[t] = "WAKING",
         on_rq[t] => on_rq'[t] \/ state'[t] # "WAKING",
         t \in missed => t \in missed',
         on_rq[t] /\ Moved(t) => t \in missed' \/ Moved(t)'
  PROVE  Off(t)' => t \in missed' \/ (on_rq'[t] /\ Moved(t)')
<1>1. ASSUME Off(t)' PROVE t \in missed' \/ (on_rq'[t] /\ Moved(t)')
  <2>1. Off(t)
    BY <1>1 DEF Off
  <2>2. t \in missed \/ (on_rq[t] /\ Moved(t))
    BY <2>1 DEF MaskInv
  <2>3. on_rq[t] => on_rq'[t]
    BY <1>1 DEF Off
  <2> QED BY <2>2, <2>3
<1> QED BY <1>1

(* The one who moves a task stays while no call about it goes on and no    *)
(* work that will move it goes.                                            *)
LEMMA MovedKept ==
  ASSUME NEW t \in Tasks, cpu'[t] = cpu[t], cpus_allowed'[t] = cpus_allowed[t],
         \A a \in Callers : caller[a].task = t /\ caller[a].pc \in {"stop", "wait"}
                              => caller'[a] = caller[a],
         \A w \in works[cpu[t]] :
           w.task = t /\ w.from \in Callers /\ w.dest \in cpus_allowed[t]
             => w \in works'[cpu[t]],
         Moved(t)
  PROVE  Moved(t)'
<1>1. PICK a \in Callers :
        /\ caller[a].task = t
        /\ caller[a].dest \in cpus_allowed[t]
        /\ \/ caller[a].pc = "stop" /\ caller[a].src = cpu[t]
           \/ /\ caller[a].pc = "wait"
              /\ [task |-> t, dest |-> caller[a].dest, from |-> a] \in works[cpu[t]]
  BY DEF Moved
<1>2. caller'[a] = caller[a]
  BY <1>1
<1>3. caller[a].pc = "wait" =>
        [task |-> t, dest |-> caller[a].dest, from |-> a] \in works'[cpu'[t]]
  BY <1>1
<1> QED BY <1>1, <1>2, <1>3 DEF Moved

(* The steps of a CPU keep every task on a CPU its mask allows, or         *)
(* accounted for.                                                          *)
LEMMA MaskCpu ==
  ASSUME TypeOK, TypeOK', HotplugInv, PlaceInv, MaskInv, NEW c \in CPUs, CpuStep(c)
  PROVE  MaskInv'
<1> SUFFICES ASSUME NEW t \in Tasks
             PROVE  Off(t)' => t \in missed' \/ (on_rq'[t] /\ Moved(t)')
  BY DEF MaskInv
<1>0. caller' = caller
  BY DEF CpuStep, try_to_wake_up, Waker, ttwu_remote, ttwu_place, ttwu_queue,
          scheduler_ipi, sched_ttwu_pending, set_current_state, Schedule, __schedule,
          finish_task_switch, sched_exec, sched_exec_stop, Stopper,
          migration_cpu_stop, __migrate_task, callers
<1>1. CASE \/ \E u \in Tasks : try_to_wake_up(c, u)
           \/ ttwu_remote(c) \/ scheduler_ipi(c) \/ set_current_state(c)
           \/ finish_task_switch(c) \/ (\E r \in CPUs : sched_exec(c, r))
  <2>1. /\ UNCHANGED <<cpu, cpus_allowed, on_rq, works, missed>>
        /\ state'[t] = "WAKING" => state[t] = "WAKING"
    BY <1>1 DEF try_to_wake_up, ttwu_remote, scheduler_ipi, set_current_state,
          finish_task_switch, sched_exec, task, stopper, ghosts, TypeOK
  <2>2. state[t] = "WAKING" => ~on_rq[t]
    BY DEF PlaceInv, WakingInv
  <2>3. Moved(t) => Moved(t)'
    BY <1>0, <2>1, MovedKept
  <2> QED BY <2>1, <2>2, <2>3, MaskKept
<1>2. CASE sched_exec_stop(c)
  <2>1. UNCHANGED <<cpu, cpus_allowed, on_rq, state, missed>>
    BY <1>2 DEF sched_exec_stop, task, ghosts
  <2>2. \A d \in CPUs : works[d] \subseteq works'[d]
    BY <1>2 DEF sched_exec_stop, TypeOK
  <2>3. cpu[t] \in CPUs
    BY DEF TypeOK
  <2>4. Moved(t) => Moved(t)'
    BY <1>0, <2>1, <2>2, <2>3, MovedKept
  <2> QED BY <2>1, <2>4, MaskKept
<1>3. CASE Schedule(c)
  <2>1. /\ UNCHANGED <<cpu, cpus_allowed, state, works, missed>>
        /\ on_rq'[t] => on_rq[t]
    BY <1>3 DEF Schedule, __schedule, stopper, ghosts
  <2>2. state[t] = "WAKING" => ~on_rq[t]
    BY DEF PlaceInv, WakingInv
  <2>3. Moved(t) => Moved(t)'
    BY <1>0, <2>1, MovedKept
  <2> QED BY <2>1, <2>2, <2>3, MaskKept
<1>4. CASE ttwu_queue(c) \/ sched_ttwu_pending(c)
  <2>1. /\ UNCHANGED <<cpu, cpus_allowed, works, missed>>
        /\ \/ UNCHANGED <<on_rq, state>>
           \/ \E S \in SUBSET Tasks, d \in CPUs :
                (\A u \in S : state[u] = "WAKING") /\ ttwu_do_activate(S, d)
    <3>1. CASE ttwu_queue(c)
      <4> DEFINE u == waker[c].task
      <4>1. u \in Tasks /\ state[u] = "WAKING"
        BY <3>1 DEF ttwu_queue, PlaceInv, WakerInv
      <4>2. cpu[u] \in CPUs
        BY <4>1 DEF TypeOK
      <4>3. /\ UNCHANGED <<cpu, cpus_allowed, works, missed>>
            /\ UNCHANGED <<on_rq, state>> \/ ttwu_do_activate({u}, cpu[u])
        BY <3>1 DEF ttwu_queue, stopper, ghosts
      <4> HIDE DEF u
      <4>4. {u} \in SUBSET Tasks /\ \A x \in {u} : state[x] = "WAKING"
        BY <4>1
      <4> QED BY <4>2, <4>3, <4>4
    <3>2. CASE sched_ttwu_pending(c)
      <4>1. pending[c] \in SUBSET Tasks /\ \A u \in pending[c] : state[u] = "WAKING"
        BY DEF TypeOK, PlaceInv, WakingInv
      <4>2. /\ UNCHANGED <<cpu, cpus_allowed, works, missed>>
            /\ ttwu_do_activate(pending[c], c)
        BY <3>2 DEF sched_ttwu_pending, stopper, ghosts
      <4> QED BY <4>1, <4>2
    <3> QED BY <1>4, <3>1, <3>2
  <2>2. /\ on_rq'[t] \/ state'[t] = "WAKING" => on_rq[t] \/ state[t] = "WAKING"
        /\ on_rq[t] => on_rq'[t]
    BY <2>1 DEF ttwu_do_activate
  <2>3. Moved(t) => Moved(t)'
    BY <1>0, <2>1, MovedKept
  <2> QED BY <2>1, <2>2, <2>3, MaskKept
<1>5. ASSUME NEW r \in CPUs \cup {NONE}, ttwu_place(c, r)
      PROVE  Off(t)' => t \in missed' \/ (on_rq'[t] /\ Moved(t)')
  <2> DEFINE u == waker[c].task
             place == select_task_rq(u, r)
  <2>1. u \in Tasks
    BY <1>5 DEF ttwu_place, PlaceInv, WakerInv
  <2>2. /\ UNCHANGED <<on_rq, works>>
        /\ state' = [state EXCEPT ![u] = "WAKING"]
        /\ cpu' = [cpu EXCEPT ![u] = place.dest]
        /\ cpus_allowed' = [cpus_allowed EXCEPT ![u] = place.mask]
        /\ missed' = missed \ {u}
    BY <1>5 DEF ttwu_place, stopper
  <2>3. place.dest \in place.mask
    BY <2>1, Selected
  <2> HIDE DEF u, place
  <2>4. CASE t = u
    <3>1. cpu'[t] \in cpus_allowed'[t]
      BY <2>2, <2>3, <2>4 DEF TypeOK
    <3> QED BY <3>1 DEF Off
  <2>5. CASE t # u
    <3>1. /\ cpu'[t] = cpu[t] /\ cpus_allowed'[t] = cpus_allowed[t] /\ state'[t] = state[t]
          /\ t \in missed => t \in missed'
      BY <2>2, <2>5 DEF TypeOK
    <3>2. Moved(t) => Moved(t)'
      BY <1>0, <2>2, <3>1, MovedKept
    <3> QED BY <2>2, <3>1, <3>2, MaskKept
  <2> QED BY <2>4, <2>5
<1>6. ASSUME NEW work \in works[c], migration_cpu_stop(c, work)
      PROVE  Off(t)' => t \in missed' \/ (on_rq'[t] /\ Moved(t)')
  <2>0. cpu[t] \in CPUs /\ works \in [CPUs -> SUBSET Works]
    BY DEF TypeOK
  <2>1. /\ UNCHANGED <<cpu, cpus_allowed, on_rq, state>>
        /\ \/ UNCHANGED <<works, missed>>
           \/ /\ works' = [works EXCEPT ![c] = @ \ {work}]
              /\ missed' = IF work.from = "exec" THEN missed ELSE missed \cup {work.task}
    BY <1>6 DEF migration_cpu_stop, task
  <2>2. CASE work.task = t /\ work.from # "exec" /\ ~UNCHANGED works
    BY <2>1, <2>2
  <2>3. CASE ~(work.task = t /\ work.from # "exec") \/ UNCHANGED works
    <3>1. \A w \in works[cpu[t]] : w.task = t /\ w.from \in Callers => w \in works'[cpu[t]]
      BY <2>0, <2>1, <2>3 DEF Callers
    <3>2. Moved(t) => Moved(t)'
      BY <1>0, <2>1, <3>1, MovedKept
    <3> QED BY <2>1, <3>2, MaskKept
  <2> QED BY <2>2, <2>3
<1>7. CASE __migrate_task(c)
  <2> DEFINE work == moving[c]
             u == work.task
  <2>0. /\ cpu[t] \in CPUs /\ works \in [CPUs -> SUBSET Works] /\ cpu \in [Tasks -> CPUs]
    BY DEF TypeOK
  <2>1. /\ UNCHANGED <<cpus_allowed, on_rq, state>>
        /\ works' = [works EXCEPT ![c] = @ \ {work}]
        /\ \/ /\ may_move(u, c, work.dest)
              /\ cpu' = [cpu EXCEPT ![u] = work.dest]
              /\ missed' = missed \ {u}
           \/ ~may_move(u, c, work.dest) /\ UNCHANGED <<cpu, missed>>
    BY <1>7 DEF __migrate_task
  <2> HIDE DEF work
  <2>2. CASE may_move(u, c, work.dest) /\ t = u
    <3>1. cpu'[t] \in cpus_allowed'[t]
      BY <2>0, <2>1, <2>2 DEF may_move
    <3> QED BY <3>1 DEF Off
  <2>3. CASE ~(may_move(u, c, work.dest) /\ t = u)
    <3>1. cpu'[t] = cpu[t] /\ (t \in missed => t \in missed')
      BY <2>0, <2>1, <2>3
    <3>2. ASSUME on_rq[t] PROVE \A w \in works[cpu[t]] :
            w.task = t /\ w.from \in Callers /\ w.dest \in cpus_allowed[t]
              => w \in works'[cpu[t]]
      <4>1. SUFFICES ASSUME NEW w \in works[cpu[t]], w.task = t, w.dest \in cpus_allowed[t]
                     PROVE  w \in works'[cpu[t]]
        OBVIOUS
      <4>2. CASE cpu[t] # c
        BY <2>0, <2>1, <4>2
      <4>3. CASE cpu[t] = c
        <5>1. w # work
          BY <2>3, <3>2, <4>1, <4>3 DEF may_move
        <5> QED BY <2>0, <2>1, <4>3, <5>1
      <4> QED BY <4>2, <4>3
    <3>3. on_rq[t] /\ Moved(t) => Moved(t)'
      BY <1>0, <2>1, <3>1, <3>2, MovedKept
    <3> QED BY <2>1, <3>1, <3>3, MaskKept
  <2> QED BY <2>2, <2>3
<1> QED BY <1>1, <1>2, <1>3, <1>4, <1>5, <1>6, <1>7 DEF CpuStep, Waker, Stopper

(* So do the calls that change masks.                                      *)
LEMMA MaskCall ==
  ASSUME TypeOK, PlaceInv, CallerInv, MaskInv,
         \/ \E u \in Tasks, m \in Masks : sched_setaffinity(u, m)
         \/ \E m \in Masks : update_cpumask(m)
         \/ \E a \in Callers : CallerStep(a)
         \/ sched_setaffinity_recheck
  PROVE  MaskInv'
<1> SUFFICES ASSUME NEW t \in Tasks
             PROVE  Off(t)' => t \in missed' \/ (on_rq'[t] /\ Moved(t)')
  BY DEF MaskInv
<1>t. cpu[t] \in CPUs
  BY DEF TypeOK
<1>1. CASE \/ \E u \in Tasks, m \in Masks : sched_setaffinity(u, m)
           \/ \E m \in Masks : update_cpumask(m)
           \/ sched_setaffinity_recheck
  <2>1. UNCHANGED <<cpu, cpus_allowed, on_rq, state, works, missed>>
    BY <1>1 DEF sched_setaffinity, update_cpumask, sched_setaffinity_recheck, task, stopper, ghosts
  <2>2. \A a \in Callers : caller[a].pc \in {"stop", "wait"} => caller'[a] = caller[a]
    BY <1>1 DEF sched_setaffinity, update_cpumask, sched_setaffinity_recheck, Callers, TypeOK
  <2>3. Moved(t) => Moved(t)'
    BY <2>1, <2>2, MovedKept
  <2> QED BY <2>1, <2>3, MaskKept
<1>2. ASSUME NEW a \in Callers, set_cpus_allowed_wait(a)
      PROVE  Off(t)' => t \in missed' \/ (on_rq'[t] /\ Moved(t)')
  <2>1. UNCHANGED <<cpu, cpus_allowed, on_rq, state, works, missed>>
    BY <1>2 DEF set_cpus_allowed_wait, task, stopper, ghosts
  <2>2. /\ caller[a].pc = "wait"
        /\ \A c \in CPUs : \A w \in works[c] : w.from # a
        /\ \A b \in Callers \ {a} : caller'[b] = caller[b]
    BY <1>2 DEF set_cpus_allowed_wait, TypeOK
  <2>3. ASSUME Moved(t) PROVE Moved(t)'
    <3>1. PICK b \in Callers :
            /\ caller[b].task = t
            /\ caller[b].dest \in cpus_allowed[t]
            /\ \/ caller[b].pc = "stop" /\ caller[b].src = cpu[t]
               \/ /\ caller[b].pc = "wait"
                  /\ [task |-> t, dest |-> caller[b].dest, from |-> b] \in works[cpu[t]]
      BY <2>3 DEF Moved
    <3>2. b # a
      <4>1. [task |-> t, dest |-> caller[b].dest, from |-> b].from = b
        OBVIOUS
      <4> QED BY <1>t, <2>2, <3>1, <4>1
    <3> QED BY <2>1, <2>2, <3>1, <3>2 DEF Moved
  <2> QED BY <2>1, <2>3, MaskKept
<1>3. ASSUME NEW a \in Callers, set_cpus_allowed_stop(a)
      PROVE  Off(t)' => t \in missed' \/ (on_rq'[t] /\ Moved(t)')
  <2> DEFINE src == caller[a].src
             work == [task |-> caller[a].task, dest |-> caller[a].dest, from |-> a]
  <2>1. UNCHANGED <<cpu, cpus_allowed, on_rq, state>>
    BY <1>3 DEF set_cpus_allowed_stop, task
  <2>2. /\ caller[a].pc = "stop" /\ caller'[a].pc = "wait"
        /\ caller'[a].task = caller[a].task /\ caller'[a].dest = caller[a].dest
        /\ \A b \in Callers \ {a} : caller'[b] = caller[b]
    BY <1>3 DEF set_cpus_allowed_stop, TypeOK
  <2>3. /\ works' = [works EXCEPT ![src] = IF src \in online THEN @ \cup {work} ELSE @]
        /\ missed' = IF src \in online THEN missed ELSE missed \cup {work.task}
    BY <1>3 DEF set_cpus_allowed_stop, stop_one_cpu
  <2>4. work.task = caller[a].task
    OBVIOUS
  <2>5. src \in CPUs /\ works \in [CPUs -> SUBSET Works]
    BY <2>2 DEF CallerInv, TypeOK
  <2>6. /\ \A c \in CPUs : works[c] \subseteq works'[c]
        /\ src \in online => work \in works'[src]
        /\ src \notin online => caller[a].task \in missed'
        /\ missed \subseteq missed'
    <3> HIDE DEF work, src
    <3> QED BY <2>3, <2>4, <2>5
  <2>7. ASSUME Moved(t) PROVE t \in missed' \/ Moved(t)'
    <3>1. PICK b \in Callers :
            /\ caller[b].task = t
            /\ caller[b].dest \in cpus_allowed[t]
            /\ \/ caller[b].pc = "stop" /\ caller[b].src = cpu[t]
               \/ /\ caller[b].pc = "wait"
                  /\ [task |-> t, dest |-> caller[b].dest, from |-> b] \in works[cpu[t]]
      BY <2>7 DEF Moved
    <3>2. CASE b # a
      BY <1>t, <2>1, <2>2, <2>6, <3>1, <3>2 DEF Moved
    <3>3. CASE b = a
      BY <2>1, <2>2, <2>6, <3>1, <3>3 DEF Moved
    <3> QED BY <3>2, <3>3
  <2> QED BY <2>1, <2>6, <2>7, MaskKept
<1>4. ASSUME NEW a \in Callers, set_cpus_allowed_ptr(a)
      PROVE  Off(t)' => t \in missed' \/ (on_rq'[t] /\ Moved(t)')
  <2> DEFINE u == caller[a].task
             mask == caller[a].mask
  <2>1. UNCHANGED <<cpu, on_rq, state, works>>
    BY <1>4 DEF set_cpus_allowed_ptr, stopper
  <2>2. /\ u \in Tasks /\ caller[a].pc = "set"
        /\ \A b \in Callers \ {a} : caller'[b] = caller[b]
        /\ \A x \in Tasks \ {u} : cpus_allowed'[x] = cpus_allowed[x]
    BY <1>4, SetEffect
  <2>3. missed \subseteq missed'
    BY <1>4 DEF set_cpus_allowed_ptr
  <2>4. ASSUME cpus_allowed'[t] = cpus_allowed[t]
        PROVE  Off(t)' => t \in missed' \/ (on_rq'[t] /\ Moved(t)')
    <3>1. Moved(t) => Moved(t)'
      BY <2>1, <2>2, <2>4, MovedKept
    <3> QED BY <2>1, <2>3, <2>4, <3>1, MaskKept
  <2>5. CASE t = u /\ cpus_allowed'[t] # cpus_allowed[t]
    <3>1. /\ cpus_allowed'[t] = mask
          /\ \/ /\ must_move(t, mask)
                /\ caller'[a].pc = "stop" /\ caller'[a].task = t
                /\ caller'[a].src = cpu[t] /\ caller'[a].dest \in mask
             \/ ~must_move(t, mask)
      BY <1>4, <2>5, SetEffect
    <3>2. cpu[t] \notin mask /\ state[t] = "WAKING" => t \in missed'
      BY <1>4, <2>5 DEF set_cpus_allowed_ptr
    <3>3. CASE must_move(t, mask)
      <4>1. Moved(t)' /\ on_rq'[t]
        BY <2>1, <3>1, <3>3 DEF Moved, must_move
      <4> QED BY <4>1
    <3>4. CASE ~must_move(t, mask)
      <4>1. Off(t)' => cpu[t] \notin mask /\ (on_rq[t] \/ state[t] = "WAKING")
        BY <2>1, <3>1 DEF Off
      <4> QED BY <3>2, <3>4, <4>1 DEF must_move
    <3> QED BY <3>3, <3>4
  <2> QED BY <2>2, <2>4, <2>5
<1> QED BY <1>1, <1>2, <1>3, <1>4 DEF CallerStep

(* So does hotplug: a task that leaves a dying CPU goes to one it may use. *)
LEMMA MaskHotplug ==
  ASSUME TypeOK, HotplugInv, OfflineInv, PlaceInv, MaskInv,
         \/ \E c \in CPUs : cpu_down_prepare(c) \/ cpu_starting(c)
         \/ HotplugStep
         \/ UNCHANGED vars
  PROVE  MaskInv'
<1> SUFFICES ASSUME NEW t \in Tasks
             PROVE  Off(t)' => t \in missed' \/ (on_rq'[t] /\ Moved(t)')
  BY DEF MaskInv
<1>1. CASE ~cpu_dying
  <2>1. UNCHANGED <<cpu, cpus_allowed, on_rq, state, works, missed, caller>>
    BY <1>1 DEF cpu_down_prepare, cpu_starting, HotplugStep, cpu_down_failed, stop_machine,
          cpu_online, vars, task, stopper, callers, ghosts
  <2>2. Moved(t) => Moved(t)'
    BY <2>1, MovedKept
  <2> QED BY <2>1, <2>2, MaskKept
<1>2. CASE cpu_dying
  <2> DEFINE c == hotplug.cpu
             dying == queue[c] \cup wake_list[c]
  <2>1. c \in CPUs /\ dying \in SUBSET Tasks /\ \A u \in dying : cpu'[u] \in cpus_allowed'[u]
    BY <1>2, Dying
  <2>2. \A u \in Tasks \ dying : /\ cpu'[u] = cpu[u] /\ on_rq'[u] = on_rq[u]
                                 /\ state'[u] = state[u] /\ cpus_allowed'[u] = cpus_allowed[u]
    BY <1>2, Dying
  <2>3. /\ caller' = caller /\ works' = [works EXCEPT ![c] = {}] /\ missed' = missed \ dying
    BY <1>2 DEF cpu_dying, callers, dying_tasks
  <2>4. CASE t \in dying
    BY <2>1, <2>4 DEF Off
  <2>5. CASE t \notin dying
    <3>1. on_rq[t] => cpu[t] # c
      BY <2>1, <2>5 DEF PlaceInv, QueueInv
    <3>2. on_rq[t] => works'[cpu[t]] = works[cpu[t]]
      BY <2>3, <3>1 DEF TypeOK
    <3> HIDE DEF c, dying
    <3>3. on_rq[t] /\ Moved(t) => Moved(t)'
      BY <2>2, <2>3, <2>5, <3>2, MovedKept
    <3> QED BY <2>2, <2>3, <2>5, <3>3, MaskKept
  <2> QED BY <2>4, <2>5
<1> QED BY <1>1, <1>2

(* No step leaves a task on a CPU its mask excludes without anyone to move *)
(* it, except where the code misses it.                                    *)
LEMMA MaskStep ==
  ASSUME TypeOK, TypeOK', HotplugInv, OfflineInv, PlaceInv, CallerInv, MaskInv, [Next]_vars
  PROVE  MaskInv'
BY MaskCpu, MaskCall, MaskHotplug DEF Next

-----------------------------------------------------------------------------
(* The cpuset's mask: steps that neither change a mask nor go on with a    *)
(* call.                                                                   *)
LEMMA CpusetQuiet ==
  ASSUME CpusetInv, caller' = caller, cpuset' = cpuset,
         \A t \in Tasks : \/ t \in forced'
                          \/ cpus_allowed'[t] = cpus_allowed[t] /\ t \notin forced,
         \/ UNCHANGED <<online, active>>
         \/ caller["setaffinity"].pc = "no"
  PROVE  CpusetInv'
<1>1. ASSUME NEW t \in Tasks PROVE Covered(t)'
  <2>1. CASE t \in forced'
    BY <2>1 DEF Covered
  <2>2. CASE t \notin forced'
    <3>1. cpus_allowed'[t] = cpus_allowed[t] /\ t \notin forced
      BY <2>2
    <3>2. cpus_allowed[t] \subseteq cpuset \/ Updated(t) \/ Rechecked(t)
      BY <3>1 DEF CpusetInv, Covered
    <3>3. Updated(t) => Updated(t)'
      BY DEF Updated
    <3>4. Rechecked(t) => Rechecked(t)'
      BY <3>1 DEF Rechecked, usable_mask
    <3> QED BY <3>1, <3>2, <3>3, <3>4 DEF Covered
  <2> QED BY <2>1, <2>2
<1> QED BY <1>1 DEF CpusetInv

(* A CPU's step: only select_fallback_rq gives a task another mask.        *)
LEMMA CpusetCpu ==
  ASSUME TypeOK, PlaceInv, CpusetInv, NEW c \in CPUs, CpuStep(c)
  PROVE  CpusetInv'
<1>1. UNCHANGED <<caller, cpuset, online, active>>
  BY DEF CpuStep, try_to_wake_up, Waker, ttwu_remote, ttwu_place, ttwu_queue,
          scheduler_ipi, sched_ttwu_pending, set_current_state, Schedule, __schedule,
          finish_task_switch, sched_exec, sched_exec_stop, Stopper,
          migration_cpu_stop, __migrate_task, callers, masks
<1>2. CASE \E r \in CPUs \cup {NONE} : ttwu_place(c, r)
  <2>1. PICK r : ttwu_place(c, r)
    BY <1>2
  <2> DEFINE u == waker[c].task
             place == select_task_rq(u, r)
  <2>2. /\ cpus_allowed' = [cpus_allowed EXCEPT ![u] = place.mask]
        /\ forced' = IF place.mask = cpus_allowed[u] THEN forced ELSE forced \cup {u}
    BY <2>1 DEF ttwu_place
  <2>3. u \in Tasks
    BY <2>1 DEF ttwu_place, PlaceInv, WakerInv
  <2> HIDE DEF u, place
  <2>4. \A t \in Tasks : t \in forced' \/ (cpus_allowed'[t] = cpus_allowed[t] /\ t \notin forced)
    BY <2>2, <2>3 DEF TypeOK
  <2> QED BY <1>1, <2>4, CpusetQuiet
<1>3. CASE ~ \E r \in CPUs \cup {NONE} : ttwu_place(c, r)
  <2>1. UNCHANGED <<cpus_allowed, forced>>
    BY <1>3 DEF CpuStep, try_to_wake_up, Waker, ttwu_remote, ttwu_queue,
          scheduler_ipi, sched_ttwu_pending, set_current_state, Schedule, __schedule,
          finish_task_switch, sched_exec, sched_exec_stop, Stopper,
          migration_cpu_stop, __migrate_task, task, ghosts
  <2> QED BY <1>1, <2>1, CpusetQuiet
<1> QED BY <1>2, <1>3

(* Hotplug: the masks it changes are those of tasks that are forced, and   *)
(* no sched_setaffinity is under way.                                      *)
LEMMA CpusetHotplug ==
  ASSUME TypeOK, HotplugInv, CpusetInv,
         \/ \E c \in CPUs : cpu_down_prepare(c) \/ cpu_starting(c)
         \/ HotplugStep
         \/ UNCHANGED vars
  PROVE  CpusetInv'
<1>1. CASE UNCHANGED vars
  BY <1>1, CpusetQuiet DEF vars, task, callers, masks, ghosts
<1>2. CASE (\E c \in CPUs : cpu_down_prepare(c) \/ cpu_starting(c)) \/ HotplugStep
  <2>1. caller["setaffinity"].pc = "no"
    BY <1>2 DEF HotplugInv, cpu_down_prepare, cpu_starting, HotplugStep, cpu_down_failed,
          stop_machine, cpu_dying, cpu_online
  <2>2. UNCHANGED <<caller, cpuset>>
    BY <1>2 DEF cpu_down_prepare, cpu_starting, HotplugStep, cpu_down_failed, stop_machine,
          cpu_dying, cpu_online, callers
  <2>3. CASE ~cpu_dying
    <3>1. UNCHANGED <<cpus_allowed, forced>>
      BY <1>2, <2>3 DEF cpu_down_prepare, cpu_starting, HotplugStep, cpu_down_failed, stop_machine,
            cpu_online, task, ghosts
    <3> QED BY <2>1, <2>2, <3>1, CpusetQuiet
  <2>4. CASE cpu_dying
    <3> DEFINE dying == dying_tasks(hotplug.cpu)
               place == [t \in dying |-> select_fallback_rq(t)]
    <3>1. /\ cpus_allowed' = [t \in Tasks |->
               IF t \in dying THEN place[t].mask ELSE cpus_allowed[t]]
          /\ forced' = forced \cup {t \in dying : place[t].mask # cpus_allowed[t]}
      BY <2>4 DEF cpu_dying
    <3> HIDE DEF dying, place
    <3>2. \A t \in Tasks : t \in forced' \/ (cpus_allowed'[t] = cpus_allowed[t] /\ t \notin forced)
      BY <3>1
    <3> QED BY <2>1, <2>2, <3>2, CpusetQuiet
  <2> QED BY <2>3, <2>4
<1> QED BY <1>1, <1>2

(* What is left for the cpuset's update to do when one of its calls is     *)
(* over: all the tasks but the one it was about.                           *)
LEMMA UpdateGoesOn ==
  ASSUME TypeOK, CallerInv, NEW ok \in BOOLEAN, caller["cpuset"].pc # "no",
         caller'["cpuset"] = returned("cpuset", ok),
         NEW t \in Tasks, Updated(t), t # caller["cpuset"].task \/ caller["cpuset"].pc # "set"
  PROVE  Updated(t)'
<1> DEFINE a == "cpuset"
<1>0. a \in Callers
  BY DEF Callers
<1>1. t \in caller[a].left
  BY DEF Updated
<1>2. /\ caller'[a].pc = "set" /\ caller'[a].task \in caller[a].left
      /\ caller'[a].left = caller[a].left \ {caller'[a].task}
  BY <1>0, <1>1, Returns
<1> QED BY <1>1, <1>2 DEF Updated

(* sched_setaffinity and the cpuset's update.                              *)
LEMMA CpusetCall ==
  ASSUME TypeOK, HotplugInv, CallerInv, CpusetInv,
         \/ \E u \in Tasks, m \in Masks : sched_setaffinity(u, m)
         \/ \E m \in Masks : update_cpumask(m)
         \/ \E a \in Callers : CallerStep(a)
         \/ sched_setaffinity_recheck
  PROVE  CpusetInv'
<1> DEFINE A == "setaffinity"
           B == "cpuset"
<1>0. /\ A \in Callers /\ B \in Callers /\ A # B /\ TRUE \in BOOLEAN
      /\ NoCaller.pc = "no" /\ \A a \in Callers : a = A \/ a = B
  BY DEF Callers, NoCaller
<1>1. ASSUME NEW u \in Tasks, NEW m \in Masks, sched_setaffinity(u, m) PROVE CpusetInv'
  <2>1. UNCHANGED <<cpus_allowed, forced, cpuset>>
    BY <1>1 DEF sched_setaffinity, task
  <2>2. caller[A].pc = "no" /\ caller'[B] = caller[B]
    BY <1>1 DEF sched_setaffinity, TypeOK, Callers
  <2>3. ASSUME NEW t \in Tasks PROVE Covered(t)'
    <3>1. ~Rechecked(t) /\ (Updated(t) => Updated(t)')
      BY <2>2 DEF Rechecked, Updated
    <3> QED BY <2>1, <3>1 DEF CpusetInv, Covered
  <2> QED BY <2>1, <2>2, <2>3 DEF CpusetInv
<1>2. ASSUME NEW m \in Masks, update_cpumask(m) PROVE CpusetInv'
  <2>1. PICK u \in Tasks : caller' = [caller EXCEPT ![B] =
               [NoCaller EXCEPT !.pc = "set", !.task = u, !.mask = m,
                                !.left = Tasks \ {u}]]
    BY <1>2 DEF update_cpumask
  <2>2. /\ caller'[B].pc = "set" /\ caller'[B].task = u /\ caller'[B].mask = m
        /\ caller'[B].left = Tasks \ {u}
    BY <2>1 DEF NoCaller, TypeOK, Callers
  <2>3. cpuset' = m
    BY <1>2 DEF update_cpumask
  <2>4. \A t \in Tasks : Updated(t)'
    BY <2>2 DEF Updated
  <2> QED BY <2>2, <2>3, <2>4 DEF CpusetInv, Covered
<1>3. CASE sched_setaffinity_recheck
  <2>1. UNCHANGED <<cpus_allowed, forced, cpuset, online, active>>
    BY <1>3 DEF sched_setaffinity_recheck, task, masks, ghosts
  <2>2. /\ caller[A].pc = "recheck" /\ caller'[B] = caller[B]
        /\ \/ recheck(caller[A].mask)
           \/ /\ caller'[A].pc = "set" /\ caller'[A].mask = cpuset_cpus_allowed
              /\ caller'[A].task = caller[A].task
    BY <1>3 DEF sched_setaffinity_recheck, TypeOK, Callers
  <2>3. active = online
    BY <2>2 DEF HotplugInv
  <2>4. ASSUME NEW t \in Tasks PROVE Covered(t)'
    <3>1. Updated(t) => Updated(t)'
      BY <2>2 DEF Updated
    <3>2. ASSUME Rechecked(t) PROVE cpus_allowed[t] \subseteq cpuset \/ Rechecked(t)'
      <4>1. /\ caller[A].task = t /\ cpuset \cap online # {}
            /\ caller[A].mask = cpus_allowed[t]
        BY <2>2, <3>2 DEF Rechecked
      <4>2. cpuset_cpus_allowed = cpuset \cap online
        BY <4>1 DEF cpuset_cpus_allowed
      <4>3. CASE recheck(caller[A].mask)
        BY <4>1, <4>2, <4>3 DEF recheck
      <4>4. CASE ~recheck(caller[A].mask)
        BY <2>1, <2>2, <2>3, <4>1, <4>2, <4>4 DEF Rechecked, usable_mask
      <4> QED BY <4>3, <4>4
    <3> QED BY <2>1, <3>1, <3>2 DEF CpusetInv, Covered
  <2> QED BY <2>1, <2>2, <2>4 DEF CpusetInv
<1>4. ASSUME NEW a \in Callers, set_cpus_allowed_stop(a) PROVE CpusetInv'
  <2>1. UNCHANGED <<cpus_allowed, forced, cpuset, online, active>>
    BY <1>4 DEF set_cpus_allowed_stop, task, masks
  <2>2. /\ caller[a].pc = "stop" /\ caller'[a].pc = "wait"
        /\ caller'[a].task = caller[a].task /\ caller'[a].mask = caller[a].mask
        /\ caller'[a].left = caller[a].left
        /\ \A b \in Callers \ {a} : caller'[b] = caller[b]
    BY <1>4 DEF set_cpus_allowed_stop, TypeOK
  <2>3. ASSUME NEW t \in Tasks PROVE Covered(t)'
    <3>1. Updated(t) => Updated(t)'
      BY <1>0, <2>2 DEF Updated
    <3>2. Rechecked(t) => Rechecked(t)'
      BY <1>0, <2>1, <2>2 DEF Rechecked, usable_mask
    <3> QED BY <2>1, <3>1, <3>2 DEF CpusetInv, Covered
  <2> QED BY <1>0, <2>1, <2>2, <2>3 DEF CpusetInv
<1>5. ASSUME NEW a \in Callers, set_cpus_allowed_wait(a) PROVE CpusetInv'
  <2>1. UNCHANGED <<cpus_allowed, forced, cpuset, online, active>>
    BY <1>5 DEF set_cpus_allowed_wait, task, masks, ghosts
  <2>2. /\ caller[a].pc = "wait" /\ caller'[a] = returned(a, TRUE)
        /\ \A b \in Callers \ {a} : caller'[b] = caller[b]
    BY <1>5 DEF set_cpus_allowed_wait, TypeOK
  <2>3. CASE a = A
    <3>1. /\ caller'[A].task = caller[A].task /\ caller'[A].mask = caller[A].mask
          /\ caller'[A].pc = "recheck" /\ caller'[B] = caller[B]
      BY <1>0, <2>2, <2>3, Returns
    <3>2. ASSUME NEW t \in Tasks PROVE Covered(t)'
      <4>1. Updated(t) => Updated(t)'
        BY <3>1 DEF Updated
      <4>2. Rechecked(t) => Rechecked(t)'
        BY <2>1, <2>2, <2>3, <3>1 DEF Rechecked
      <4> QED BY <2>1, <4>1, <4>2 DEF CpusetInv, Covered
    <3> QED BY <2>1, <3>1, <3>2 DEF CpusetInv
  <2>4. CASE a = B
    <3>1. /\ caller'[B] = NoCaller \/ caller'[B].mask = caller[B].mask
          /\ caller'[A] = caller[A]
      <4> HIDE DEF NoCaller
      <4> QED BY <1>0, <2>2, <2>4, Returns
    <3>2. ASSUME NEW t \in Tasks PROVE Covered(t)'
      <4>1. Updated(t) => Updated(t)'
        BY <1>0, <2>2, <2>4, UpdateGoesOn
      <4>2. Rechecked(t) => Rechecked(t)'
        BY <2>1, <3>1 DEF Rechecked, usable_mask
      <4> QED BY <2>1, <4>1, <4>2 DEF CpusetInv, Covered
    <3> HIDE DEF NoCaller
    <3> QED BY <1>0, <2>1, <2>2, <2>4, <3>1, <3>2 DEF CpusetInv
  <2> QED BY <1>0, <2>3, <2>4
<1>6. ASSUME NEW a \in Callers, set_cpus_allowed_ptr(a) PROVE CpusetInv'
  <2> DEFINE u == caller[a].task
             mask == caller[a].mask
             same == (cpus_allowed[u] = mask)
  <2>1. UNCHANGED <<cpuset, online, active>>
    BY <1>6 DEF set_cpus_allowed_ptr, masks
  <2>2. /\ u \in Tasks /\ caller[a].pc = "set" /\ same \in BOOLEAN
        /\ \A b \in Callers \ {a} : caller'[b] = caller[b]
        /\ \A t \in Tasks \ {u} : cpus_allowed'[t] = cpus_allowed[t]
    BY <1>6, SetEffect
  <2>3. \A t \in Tasks \ {u} : t \in forced => t \in forced'
    BY <1>6 DEF set_cpus_allowed_ptr
  <2>4. \/ /\ same \/ ~usable_mask(mask)
           /\ caller'[a] = returned(a, same)
           /\ cpus_allowed' = cpus_allowed
           /\ forced \subseteq forced' /\ (a = B /\ ~same => u \in forced')
        \/ /\ usable_mask(mask) /\ cpus_allowed'[u] = mask
           /\ \/ /\ caller'[a].pc = "stop" /\ caller'[a].task = u /\ caller'[a].mask = mask
                 /\ caller'[a].left = caller[a].left
              \/ caller'[a] = returned(a, TRUE)
           /\ \/ mask \subseteq cpuset \/ u \in forced' \/ cpuset \cap online # {}
    <3>1. CASE same \/ ~usable_mask(mask)
      <4>1. /\ caller'[a] = returned(a, same) /\ cpus_allowed' = cpus_allowed
            /\ forced \subseteq forced' /\ (a = B /\ ~same => u \in forced')
        BY <1>6, <3>1 DEF set_cpus_allowed_ptr, TypeOK
      <4> QED BY <3>1, <4>1
    <3>2. CASE ~(same \/ ~usable_mask(mask))
      <4>1. mask \subseteq cpuset \/ u \in forced' \/ cpuset \cap online # {}
        BY <1>6, <3>2 DEF set_cpus_allowed_ptr
      <4>2. /\ usable_mask(mask) /\ cpus_allowed'[u] = mask
            /\ \/ /\ caller'[a].pc = "stop" /\ caller'[a].task = u /\ caller'[a].mask = mask
                  /\ caller'[a].left = caller[a].left
               \/ caller'[a] = returned(a, TRUE)
        BY <1>6, <3>2, SetEffect
      <4> QED BY <4>1, <4>2
    <3> QED BY <3>1, <3>2
  <2> HIDE DEF u, mask, same
  <2>5. CASE a = A
    <3>0. caller'[B] = caller[B]
      BY <1>0, <2>2, <2>5
    <3>1. ASSUME NEW t \in Tasks PROVE Covered(t)'
      <4>1. Updated(t) => Updated(t)'
        BY <3>0 DEF Updated
      <4>2. CASE t # u
        <5>1. ~Rechecked(t)
          BY <2>5, <4>2 DEF Rechecked, u
        <5> QED BY <2>1, <2>2, <2>3, <4>1, <4>2, <5>1 DEF CpusetInv, Covered
      <4>3. CASE t = u
        <5>1. CASE /\ same \/ ~usable_mask(mask)
                   /\ caller'[a] = returned(a, same)
                   /\ cpus_allowed' = cpus_allowed
                   /\ forced \subseteq forced'
          <6>1. CASE same
            <7>1. /\ caller'[A].pc = "recheck" /\ caller'[A].task = u /\ caller'[A].mask = mask
              BY <1>0, <2>2, <2>5, <5>1, <6>1, Returns DEF u, mask
            <7>2. Rechecked(t) => Rechecked(t)'
              BY <2>1, <4>3, <5>1, <6>1, <7>1 DEF Rechecked, same
            <7> QED BY <2>1, <4>1, <5>1, <7>2 DEF CpusetInv, Covered
          <6>2. CASE ~same
            <7>1. ~Rechecked(t)
              BY <2>2, <2>5, <5>1, <6>2 DEF Rechecked, mask
            <7> QED BY <2>1, <4>1, <5>1, <7>1 DEF CpusetInv, Covered
          <6> QED BY <6>1, <6>2
        <5>2. CASE /\ cpus_allowed'[u] = mask
                   /\ \/ /\ caller'[a].pc = "stop" /\ caller'[a].task = u /\ caller'[a].mask = mask
                      \/ caller'[a] = returned(a, TRUE)
                   /\ \/ mask \subseteq cpuset \/ u \in forced' \/ cpuset \cap online # {}
          <6>1. /\ caller'[A].pc \in {"stop", "recheck"} /\ caller'[A].task = u
                /\ caller'[A].mask = mask
            <7>1. CASE caller'[a] = returned(a, TRUE)
              BY <1>0, <2>2, <2>5, <7>1, Returns DEF u, mask
            <7>2. CASE caller'[a] # returned(a, TRUE)
              BY <2>5, <5>2, <7>2
            <7> QED BY <7>1, <7>2
          <6> QED BY <2>1, <4>3, <5>2, <6>1 DEF Covered, Rechecked
        <5> QED BY <2>4, <5>1, <5>2
      <4> QED BY <4>2, <4>3
    <3> QED BY <2>1, <3>0, <3>1 DEF CpusetInv
  <2>6. CASE a = B
    <3>0. caller'[A] = caller[A] /\ mask = cpuset
      BY <1>0, <2>2, <2>6 DEF CpusetInv, mask
    <3>1. /\ caller'[B] = NoCaller \/ caller'[B].mask = mask
          /\ \A t \in Tasks \ {u} : Updated(t) => Updated(t)'
      <4>1. CASE \E ok \in BOOLEAN : caller'[a] = returned(a, ok)
        <5>1. PICK ok \in BOOLEAN : caller'[a] = returned(a, ok)
          BY <4>1
        <5>2. caller'[B] = NoCaller \/ caller'[B].mask = mask
          <6> HIDE DEF NoCaller
          <6> QED BY <1>0, <2>2, <2>6, <5>1, Returns DEF mask
        <5>3. \A t \in Tasks \ {u} : Updated(t) => Updated(t)'
          BY <1>0, <2>2, <2>6, <5>1, UpdateGoesOn DEF u
        <5> QED BY <5>2, <5>3
      <4>2. CASE ~ \E ok \in BOOLEAN : caller'[a] = returned(a, ok)
        <5>1. /\ caller'[a].pc = "stop" /\ caller'[a].mask = mask
              /\ caller'[a].left = caller[a].left
          BY <1>0, <2>2, <2>4, <4>2
        <5>2. \A t \in Tasks \ {u} : Updated(t) => Updated(t)'
          BY <2>6, <5>1 DEF Updated, u
        <5> QED BY <2>6, <5>1, <5>2
      <4> QED BY <4>1, <4>2
    <3>2. ASSUME NEW t \in Tasks PROVE Covered(t)'
      <4>1. CASE t = u
        <5>1. t \in forced' \/ cpus_allowed'[t] = cpuset
          BY <2>4, <2>6, <3>0, <4>1 DEF same
        <5> QED BY <2>1, <5>1 DEF Covered
      <4>2. CASE t # u
        <5>1. Rechecked(t) => Rechecked(t)'
          BY <2>1, <2>2, <3>0, <4>2 DEF Rechecked, usable_mask
        <5> QED BY <2>1, <2>2, <2>3, <3>1, <4>2, <5>1 DEF CpusetInv, Covered
      <4> QED BY <4>1, <4>2
    <3>3. caller'[B].pc # "no" => caller'[B].mask = cpuset'
      <4> HIDE DEF NoCaller
      <4> QED BY <1>0, <2>1, <3>0, <3>1
    <3> QED BY <3>2, <3>3 DEF CpusetInv
  <2> QED BY <1>0, <2>5, <2>6
<1> QED BY <1>1, <1>2, <1>3, <1>4, <1>5, <1>6 DEF CallerStep

(* No step takes a task's mask out of its cpuset without anyone to bring   *)
(* it back.                                                                *)
LEMMA CpusetStep ==
  ASSUME TypeOK, HotplugInv, PlaceInv, CallerInv, CpusetInv, [Next]_vars
  PROVE  CpusetInv'
BY CpusetCpu, CpusetCall, CpusetHotplug DEF Next

-----------------------------------------------------------------------------
(* The inductive invariant.                                                *)
Inv ==
  /\ TypeOK
  /\ HotplugInv
  /\ OfflineInv
  /\ PlaceInv
  /\ CurrInv
  /\ AliveInv
  /\ CallerInv
  /\ MaskInv
  /\ CpusetInv

(* It holds when no task has run yet and every CPU is online.              *)
LEMMA InvInit == Init => Inv
<1> SUFFICES ASSUME Init PROVE Inv
  OBVIOUS
<1>1. OfflineInv /\ AliveInv
  BY DEF Init, OfflineInv, AliveInv
<1>2. MaskInv
  BY DEF Init, MaskInv, Off
<1>3. CpusetInv
  <2>1. caller["cpuset"].pc = "no"
    BY DEF Init, NoCaller, Callers
  <2>2. \A t \in Tasks : cpus_allowed[t] \subseteq cpuset
    BY DEF Init
  <2> QED BY <2>1, <2>2 DEF CpusetInv, Covered
<1> QED BY <1>1, <1>2, <1>3, TypeInit, HotplugInit, PlaceInit, CurrInit, CallerInit DEF Inv

(* Every step keeps it.                                                    *)
LEMMA InvStep == Inv /\ [Next]_vars => Inv'
<1> SUFFICES ASSUME Inv, [Next]_vars PROVE Inv'
  OBVIOUS
<1>1. TypeOK'
  BY TypeStep DEF Inv, PlaceInv
<1>2. HotplugInv' /\ OfflineInv' /\ CallerInv'
  BY HotplugStepInv, OfflineStep, CallerStepInv DEF Inv
<1>3. PlaceInv' /\ CurrInv' /\ AliveInv'
  BY PlaceStep, CurrStep, AliveStep DEF Inv
<1>4. MaskInv' /\ CpusetInv'
  BY <1>1, MaskStep, CpusetStep DEF Inv
<1> QED BY <1>1, <1>2, <1>3, <1>4 DEF Inv

(* The inductive invariant holds in every behaviour.                       *)
LEMMA InvHolds == Spec => []Inv
BY InvInit, InvStep, PTL DEF Spec

(* What a place of a task is.                                              *)
LEMMA PlaceIs ==
  ASSUME NEW t \in Tasks, NEW x
  PROVE  x \in Places(t) <=>
           \E c \in CPUs :
             \/ x = <<"queue", c>> /\ t \in queue[c]
             \/ x = <<"wake_list", c>> /\ t \in wake_list[c]
             \/ x = <<"pending", c>> /\ t \in pending[c]
             \/ x = <<"waker", c>> /\ waker[c].task = t /\ waker[c].pc = "queue"
BY DEF Places

(* A task has one place when it is queued or waking, and none otherwise.   *)
LEMMA OnePlaceHolds == TypeOK /\ PlaceInv => OnePlace
<1> SUFFICES ASSUME TypeOK, PlaceInv, NEW t \in Tasks
             PROVE  /\ Cardinality(Places(t)) = (IF on_rq[t] \/ state[t] = "WAKING" THEN 1 ELSE 0)
                    /\ \A x \in Places(t) :
                         /\ (x[1] = "queue") = on_rq[t]
                         /\ x[1] # "waker" => x[2] = cpu[t]
  BY DEF OnePlace
<1> USE DEF PlaceInv
<1>0. cpu[t] \in CPUs /\ on_rq[t] \in BOOLEAN
  BY DEF TypeOK
<1>1. /\ \A c \in CPUs : t \in queue[c] <=> on_rq[t] /\ cpu[t] = c
      /\ \A c \in CPUs : t \in wake_list[c] => state[t] = "WAKING" /\ cpu[t] = c /\ t \notin pending[c]
      /\ \A c \in CPUs : t \in pending[c] => state[t] = "WAKING" /\ cpu[t] = c
      /\ \A c \in CPUs : waker[c].task = t /\ waker[c].pc = "queue" =>
           /\ state[t] = "WAKING"
           /\ \A d \in CPUs : t \notin wake_list[d] /\ t \notin pending[d]
           /\ \A d \in CPUs : waker[d].task = t => d = c
  BY DEF QueueInv, WakerInv, WakingInv
<1>2. state[t] = "WAKING" =>
        /\ ~on_rq[t]
        /\ \/ t \in wake_list[cpu[t]]
           \/ t \in pending[cpu[t]]
           \/ \E c \in CPUs : waker[c].task = t /\ waker[c].pc = "queue"
  <2>1. \A c \in CPUs : waker[c] = [pc |-> "queue", task |-> t]
                          => waker[c].task = t /\ waker[c].pc = "queue"
    OBVIOUS
  <2> QED BY <2>1 DEF WakingInv
<1>3. \A x : Cardinality({x}) = 1
  BY FS_Singleton
<1>4. CASE on_rq[t]
  <2>1. Places(t) = {<<"queue", cpu[t]>>}
    <3>1. ASSUME NEW x PROVE x \in Places(t) <=> x = <<"queue", cpu[t]>>
      BY <1>0, <1>1, <1>2, <1>4, PlaceIs
    <3> QED BY <3>1
  <2>2. Cardinality(Places(t)) = 1
    BY <1>3, <2>1
  <2>3. \A x \in Places(t) : x[1] = "queue" /\ x[2] = cpu[t]
    BY <2>1
  <2> QED BY <1>4, <2>2, <2>3
<1>5. CASE state[t] = "WAKING"
  <2>1. PICK k \in {"wake_list", "pending", "waker"}, e \in CPUs :
          /\ k # "waker" => e = cpu[t]
          /\ \A x : x \in Places(t) <=> x = <<k, e>>
    <3>1. CASE t \in wake_list[cpu[t]]
      <4>1. \A x : x \in Places(t) <=> x = <<"wake_list", cpu[t]>>
        BY <1>0, <1>1, <1>2, <1>5, <3>1, PlaceIs
      <4> QED BY <1>0, <4>1
    <3>2. CASE t \in pending[cpu[t]]
      <4>1. \A x : x \in Places(t) <=> x = <<"pending", cpu[t]>>
        BY <1>0, <1>1, <1>2, <1>5, <3>2, PlaceIs
      <4> QED BY <1>0, <4>1
    <3>3. CASE \E c \in CPUs : waker[c].task = t /\ waker[c].pc = "queue"
      <4>1. PICK c \in CPUs : waker[c].task = t /\ waker[c].pc = "queue"
        BY <3>3
      <4>2. \A x : x \in Places(t) <=> x = <<"waker", c>>
        BY <1>1, <1>2, <1>5, <4>1, PlaceIs
      <4> QED BY <4>2
    <3> QED BY <1>2, <1>5, <3>1, <3>2, <3>3
  <2>2. Places(t) = {<<k, e>>}
    BY <2>1
  <2>3. ~on_rq[t] /\ k # "queue"
    BY <1>2, <1>5
  <2>4. Cardinality(Places(t)) = 1
    BY <1>3, <2>2
  <2>5. \A x \in Places(t) : x[1] = k /\ x[2] = e
    BY <2>2
  <2>6. \A x \in Places(t) : x[1] # "queue" /\ (x[1] # "waker" => x[2] = cpu[t])
    BY <2>1, <2>3, <2>5
  <2>7. \A x \in Places(t) : (x[1] = "queue") = on_rq[t]
    BY <1>0, <2>3, <2>6
  <2> QED BY <1>5, <2>4, <2>6, <2>7
<1>6. CASE ~on_rq[t] /\ state[t] # "WAKING"
  <2>1. Places(t) = {}
    <3>1. \A x : x \notin Places(t)
      BY <1>1, <1>6, PlaceIs
    <3> QED BY <3>1
  <2> QED BY <1>6, <2>1, FS_EmptySet
<1> QED BY <1>4, <1>5, <1>6

(* No wakeup, migration, affinity change, exec or hotplug operation, in    *)
(* any order, makes a task get lost or be in two places: try_to_wake_up,   *)
(* sched_ttwu_pending, __schedule, __migrate_task and migrate_tasks keep   *)
(* every task that is on a run queue or waking in one place.               *)
THEOREM Placement == Spec => []PlacementInv
<1>1. Inv => PlacementInv
  BY OnePlaceHolds DEF Inv, PlacementInv
<1> QED BY <1>1, InvHolds, PTL

(* No task runs on two CPUs, or on one while the CPU it left is still in   *)
(* its context switch: while (p->on_cpu) in try_to_wake_up suffices.       *)
THEOREM OneCpuHolds == Spec => []OneCpu
<1>1. Inv => OneCpu
  <2>1. NONE \notin Tasks
    BY MigrationAssumption
  <2> QED BY <2>1 DEF Inv, CurrInv, OneCpu
<1> QED BY <1>1, InvHolds, PTL

(* CPU_DYING leaves nothing behind: every task that was on the queue or    *)
(* the wake_list of a dead CPU has been moved and none goes there again.   *)
THEOREM DeadCpuEmpty == Spec => []DeadEmpty
<1>1. Inv => DeadEmpty
  BY DEF Inv, AliveInv, OfflineInv, PlaceInv, WakerInv, DeadEmpty
<1> QED BY <1>1, InvHolds, PTL

(* A task is on a CPU its cpus_allowed excludes only while a call of       *)
(* set_cpus_allowed_ptr about it goes on, or when that call did not see it.*)
THEOREM Allowed == Spec => []RunsAllowed
<1>1. Inv => RunsAllowed
  BY DEF Inv, MaskInv, Off, Moved, RunsAllowed
<1> QED BY <1>1, InvHolds, PTL

(* sched_setaffinity and a change of the cpuset, interleaved in any way,   *)
(* leave a task's mask within its cpuset: the second reading of the cpuset *)
(* in sched_setaffinity suffices.                                          *)
THEOREM CpusetWins == Spec => []CpusetHeld
<1>1. Inv => CpusetHeld
  BY DEF Inv, CpusetInv, Covered, Updated, Rechecked, Callers, CpusetHeld
<1> QED BY <1>1, InvHolds, PTL
=============================================================================
