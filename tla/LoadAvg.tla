------------------------------ MODULE LoadAvg ------------------------------
(***************************************************************************)
(* The global load average (sched/core.c): every CPU folds the change of   *)
(* its active count into a global sum once per LOAD_FREQ, a CPU that stops *)
(* its tick folds it into one of two idle deltas, and WINDOW ticks after   *)
(* the window opened the timekeeper averages what was folded.              *)
(*                                                                         *)
(* Times are relative to calc_load_update, the opening of the window: the  *)
(* code only compares them.                                                *)
(***************************************************************************)
EXTENDS Integers, FiniteSets, FiniteSetsExt

CONSTANTS
  CPUs,
  LOAD_FREQ,    \* ticks between two windows
  WINDOW,       \* ticks a window is open, 10 in the code
  FIXED_1,      \* 1.0 in fixed point, 2^FSHIFT in the code
  EXP,          \* the decay factors EXP_1, EXP_5 and EXP_15
  MaxTasks,     \* bound: tasks in the system
  MaxChanges,   \* bound: how often tasks start, stop, sleep or wake, and
                \* CPUs go down or come up
  MaxLate,      \* bound: ticks by which a CPU's own tick is late
  Jumps         \* how many ticks pass at once when all CPUs idle

ASSUME LoadAssumption ==
  /\ IsFiniteSet(CPUs)
  /\ WINDOW \in Nat \ {0}
  /\ LOAD_FREQ \in Nat /\ LOAD_FREQ > WINDOW
  /\ FIXED_1 \in Nat \ {0} /\ FIXED_1 % 2 = 0
  /\ EXP \subseteq 0 .. FIXED_1
  /\ MaxTasks \in Nat
  /\ MaxChanges \in Nat
  /\ MaxLate \in Nat \ {0}
  /\ Jumps \subseteq Nat \ {0} /\ 1 \in Jumps

VARIABLES
  nr_running,          \* rq->nr_running
  nr_uninterruptible,  \* rq->nr_uninterruptible, right only in the sum
  blocked,             \* the tasks asleep uninterruptibly
  calc_load_active,    \* rq->calc_load_active
  rq_update,           \* rq->calc_load_update - calc_load_update
  idle,                \* the CPUs that stopped their tick
  online,              \* the CPUs that are up
  jiffies,             \* jiffies - calc_load_update
  calc_load_tasks,
  calc_load_idle,      \* the two idle deltas
  calc_load_idx,       \* modulo 2
  avenrun,
  flip,                \* calc_global_load has moved the window, not the index
  sample,              \* what each CPU counts for in the next average: not
                       \* in the code
  raced,               \* a CPU went idle, woke or died while an average
                       \* was under way: not in the code
  slept,               \* the CPUs that slept when the window opened: not
                       \* in the code
  changes              \* counts towards MaxChanges: not in the code

counts == <<nr_running, nr_uninterruptible, blocked>>
global == <<calc_load_tasks, calc_load_idx, avenrun, flip, jiffies>>
ghosts == <<sample, raced, slept>>
vars == <<counts, calc_load_active, rq_update, idle, online, global,
          calc_load_idle, ghosts, changes>>

Init ==
  /\ nr_running = [c \in CPUs |-> 0]
  /\ nr_uninterruptible = [c \in CPUs |-> 0]
  /\ blocked = 0
  /\ calc_load_active = [c \in CPUs |-> 0]
  /\ rq_update = [c \in CPUs |-> 0]
  /\ idle = {}
  /\ online = CPUs
  /\ jiffies = -LOAD_FREQ
  /\ calc_load_tasks = 0
  /\ calc_load_idle = [i \in 0 .. 1 |-> 0]
  /\ calc_load_idx = 0
  /\ avenrun = [e \in EXP |-> 0]
  /\ flip = FALSE
  /\ sample = [c \in CPUs |-> 0]
  /\ raced = FALSE
  /\ slept = {}
  /\ changes = 0

-----------------------------------------------------------------------------
SumOf(f) == SumFunctionOnSet(f, DOMAIN f)

nr_active(c) == nr_running[c] + nr_uninterruptible[c]

(* calc_load_fold_active: the change since the last fold.                  *)
fold_delta(c) == nr_active(c) - calc_load_active[c]

(* Mutant: the delta is returned and not remembered.                       *)
fold_active_forgets(c) == UNCHANGED calc_load_active

calc_load_fold_active(c) ==
  calc_load_active' = [calc_load_active EXCEPT ![c] = nr_active(c)]

window_open == jiffies >= 0

(* Mutant: the idle delta of an open window goes into the same window.     *)
write_idx_same == calc_load_idx

(* calc_load_write_idx: once the window is open, into the next delta.      *)
calc_load_write_idx == IF window_open THEN 1 - calc_load_idx ELSE calc_load_idx

calc_load_read_idx == calc_load_idx

(* Mutant: no rounding, and a factor too large by one.                     *)
calc_load_overshoots(load, exp, active) ==
  (load * exp + active * (FIXED_1 - exp + 1)) \div FIXED_1

(* load * exp + active * (1 - exp), rounded to the nearest.                *)
calc_load(load, exp, active) ==
  (load * exp + active * (FIXED_1 - exp) + FIXED_1 \div 2) \div FIXED_1

fixed_mul(x, y) == (x * y + FIXED_1 \div 2) \div FIXED_1

(* fixed_power_int: x^n by squaring.  The loop shifts n to the right, and  *)
(* squares x between two of its bits; s is <<n, x, result>>.               *)
fixed_power_int(x, n) ==
  LET loop[s \in (0 .. n) \X (0 .. FIXED_1) \X (0 .. FIXED_1)] ==
        LET r == IF s[1] % 2 = 1 THEN fixed_mul(s[3], s[2]) ELSE s[3]
        IN  IF s[1] <= 1 THEN r
            ELSE loop[<<s[1] \div 2, fixed_mul(s[2], s[2]), r>>]
  IN  loop[<<n, x, FIXED_1>>]

calc_load_n(load, exp, active, n) ==
  calc_load(load, fixed_power_int(exp, n), active)

-----------------------------------------------------------------------------
(* What the counts are made of: tasks become runnable and stop, and sleep  *)
(* uninterruptibly on one CPU and wake on another (activate_task,          *)
(* deactivate_task).                                                       *)
Activate(c) ==
  /\ SumOf(nr_running) + blocked < MaxTasks
  /\ nr_running' = [nr_running EXCEPT ![c] = @ + 1]
  /\ UNCHANGED <<nr_uninterruptible, blocked>>

Deactivate(c) ==
  /\ c \notin idle
  /\ nr_running[c] > 0
  /\ nr_running' = [nr_running EXCEPT ![c] = @ - 1]
  /\ UNCHANGED <<nr_uninterruptible, blocked>>

DeactivateBlocked(c) ==
  /\ c \notin idle
  /\ nr_running[c] > 0
  /\ nr_running' = [nr_running EXCEPT ![c] = @ - 1]
  /\ nr_uninterruptible' = [nr_uninterruptible EXCEPT ![c] = @ + 1]
  /\ blocked' = blocked + 1

ActivateBlocked(c) ==
  /\ blocked > 0
  /\ nr_running' = [nr_running EXCEPT ![c] = @ + 1]
  /\ nr_uninterruptible' = [nr_uninterruptible EXCEPT ![c] = @ - 1]
  /\ blocked' = blocked - 1

(* The bound on what happens to tasks and CPUs.                            *)
Change ==
  /\ changes < MaxChanges
  /\ changes' = changes + 1

Tasks(c) ==
  /\ Change
  /\ c \in online
  /\ \/ Activate(c)
     \/ Deactivate(c)
     \/ DeactivateBlocked(c)
     \/ ActivateBlocked(c)
  /\ UNCHANGED <<calc_load_active, rq_update, idle, online, global,
                 calc_load_idle, ghosts>>

-----------------------------------------------------------------------------
(* calc_load_account_active, from the tick of a CPU.                       *)
calc_load_account_active(c) ==
  /\ c \in online \ idle
  /\ jiffies >= rq_update[c]
  /\ calc_load_tasks' = calc_load_tasks + fold_delta(c)
  /\ calc_load_fold_active(c)
  /\ rq_update' = [rq_update EXCEPT ![c] = @ + LOAD_FREQ]
  /\ sample' = [sample EXCEPT ![c] = nr_active(c)]
  /\ UNCHANGED <<counts, idle, online, calc_load_idx, avenrun, flip, jiffies,
                 calc_load_idle, raced, slept, changes>>

(* A CPU with nothing to run stops its tick.                               *)
calc_load_enter_idle(c) ==
  /\ c \in online \ idle
  /\ nr_running[c] = 0
  /\ calc_load_fold_active(c)
  /\ calc_load_idle' = [calc_load_idle EXCEPT ![calc_load_write_idx] =
                          @ + fold_delta(c)]
  /\ idle' = idle \cup {c}
  /\ sample' = IF window_open THEN sample
               ELSE [sample EXCEPT ![c] = nr_active(c)]
  /\ raced' = (raced \/ (flip /\ fold_delta(c) # 0))
  /\ UNCHANGED <<counts, rq_update, online, global, slept, changes>>

(* Mutant: a CPU that wakes inside the window is sampled again in it.      *)
exit_idle_resamples(c) == IF jiffies < rq_update[c] THEN rq_update[c] ELSE 0

(* The next sample of a CPU that starts its tick again: one that missed    *)
(* the opening of the window skips it.                                     *)
exit_idle_update(c) ==
  IF jiffies < rq_update[c] THEN rq_update[c]
  ELSE IF jiffies < WINDOW THEN LOAD_FREQ ELSE 0

calc_load_exit_idle(c) ==
  /\ c \in idle
  /\ jiffies < WINDOW + LOAD_FREQ  \* bound: the timekeeper is not later
  /\ idle' = idle \ {c}
  /\ rq_update' = [rq_update EXCEPT ![c] = exit_idle_update(c)]
  /\ raced' = (raced \/ jiffies >= WINDOW)
  /\ UNCHANGED <<counts, calc_load_active, online, global, calc_load_idle,
                 sample, slept, changes>>

-----------------------------------------------------------------------------
(* do_timer: time passes, by many ticks at once only if every CPU slept    *)
(* with nothing to run.  The previous call of calc_global_load is over,    *)
(* and no CPU's tick is later than its bound.                              *)
DoTimer(n) ==
  /\ jiffies < WINDOW
  /\ ~flip
  /\ n = 1 \/ (online \subseteq idle /\ \A c \in online : nr_running[c] = 0)
  /\ \A c \in online \ idle : jiffies < rq_update[c] + MaxLate
  /\ jiffies' = jiffies + n
  /\ slept' = IF jiffies < 0 /\ jiffies' >= 0 THEN idle ELSE slept
  /\ UNCHANGED <<counts, calc_load_active, rq_update, idle, online,
                 calc_load_tasks, calc_load_idx, avenrun, flip,
                 calc_load_idle, sample, raced, changes>>

(* calc_global_nohz: the windows that were missed.                         *)
missed == IF jiffies - LOAD_FREQ < WINDOW THEN 0
          ELSE 1 + (jiffies - LOAD_FREQ - WINDOW) \div LOAD_FREQ

(* calc_load_fold_idle: the delta it takes.                                *)
fold_idle == calc_load_read_idx

active_load == IF calc_load_tasks' > 0 THEN calc_load_tasks' * FIXED_1 ELSE 0

(* The average after the window and those that were missed.                *)
new_avenrun(e) ==
  LET load == calc_load(avenrun[e], e, active_load)
  IN  IF missed = 0 THEN load ELSE calc_load_n(load, e, active_load, missed)

(* Times are relative to the new window.  When the next sample of a CPU    *)
(* without a tick was due is of no account once it is long past.           *)
moved(t, c) ==
  IF c \in online \ idle THEN t ELSE Max({t, -LOAD_FREQ})

(* calc_global_load with calc_global_nohz, up to the write barrier ...     *)
calc_global_load ==
  LET shift == (1 + missed) * LOAD_FREQ
  IN  /\ jiffies >= WINDOW
      /\ ~flip
      /\ calc_load_tasks' = calc_load_tasks + calc_load_idle[fold_idle]
      /\ calc_load_idle' = [calc_load_idle EXCEPT ![fold_idle] = 0]
      /\ avenrun' = [e \in EXP |-> new_avenrun(e)]
      /\ jiffies' = jiffies - shift
      /\ rq_update' = [c \in CPUs |-> moved(rq_update[c] - shift, c)]
      /\ flip' = TRUE
      /\ sample' = calc_load_active
      /\ raced' = FALSE
      /\ slept' = IF jiffies' >= 0 THEN idle ELSE {}
      /\ UNCHANGED <<counts, calc_load_active, idle, online, calc_load_idx,
                     changes>>

(* ... and after it: the index is flipped.                                 *)
flip_idx ==
  /\ flip
  /\ flip' = FALSE
  /\ calc_load_idx' = 1 - calc_load_idx
  /\ UNCHANGED <<counts, calc_load_active, rq_update, idle, online,
                 calc_load_tasks, avenrun, jiffies, calc_load_idle,
                 ghosts, changes>>

-----------------------------------------------------------------------------
(* Mutant: the count of the dead CPU stays behind.                         *)
migrate_nr_uninterruptible_not(src, dest) == nr_uninterruptible

migrate_nr_uninterruptible(src, dest) ==
  [nr_uninterruptible EXCEPT ![dest] = @ + nr_uninterruptible[src], ![src] = 0]

(* migration_call, CPU_DYING, in stop_machine: every CPU has left its idle *)
(* loop.  The tasks go to an active CPU.                                   *)
CpuDying(c, dest) ==
  /\ Change
  /\ idle = {}
  /\ c \in online /\ dest \in online \ {c}
  /\ online' = online \ {c}
  /\ nr_running' = [nr_running EXCEPT ![dest] = @ + nr_running[c], ![c] = 0]
  /\ nr_uninterruptible' = migrate_nr_uninterruptible(c, dest)
  /\ calc_load_tasks' = calc_load_tasks - calc_load_active[c]
  /\ calc_load_active' = [calc_load_active EXCEPT ![c] = 0]
  /\ sample' = [sample EXCEPT ![c] = 0]
  /\ raced' = (raced \/ sample[c] # calc_load_active[c])
  /\ slept' = slept \ {c}
  /\ UNCHANGED <<blocked, rq_update, idle, calc_load_idx, avenrun, flip,
                 jiffies, calc_load_idle>>

(* migration_call, CPU_UP_PREPARE.                                         *)
CpuUpPrepare(c) ==
  /\ Change
  /\ c \in CPUs \ online
  /\ online' = online \cup {c}
  /\ rq_update' = [rq_update EXCEPT ![c] = 0]
  /\ UNCHANGED <<counts, calc_load_active, idle, global, calc_load_idle,
                 ghosts>>

Next ==
  \/ \E n \in Jumps : DoTimer(n)
  \/ calc_global_load
  \/ flip_idx
  \/ \E c \in CPUs :
       \/ Tasks(c)
       \/ calc_load_account_active(c)
       \/ calc_load_enter_idle(c)
       \/ calc_load_exit_idle(c)
       \/ \E dest \in CPUs : CpuDying(c, dest)
       \/ CpuUpPrepare(c)

Spec == Init /\ [][Next]_vars

(* The timer interrupt comes back, and a CPU with something to run leaves  *)
(* its idle loop.                                                          *)
Fairness ==
  /\ WF_vars(DoTimer(1))
  /\ WF_vars(calc_global_load)
  /\ WF_vars(flip_idx)
  /\ \A c \in CPUs :
       /\ WF_vars(calc_load_account_active(c))
       /\ WF_vars(nr_running[c] > 0 /\ calc_load_exit_idle(c))

FairSpec == Spec /\ Fairness

-----------------------------------------------------------------------------
TypeOK ==
  /\ nr_running \in [CPUs -> Nat]
  /\ nr_uninterruptible \in [CPUs -> Int]
  /\ blocked \in Nat
  /\ calc_load_active \in [CPUs -> Int]
  /\ rq_update \in [CPUs -> Int]
  /\ idle \subseteq online /\ online \subseteq CPUs
  /\ jiffies \in Int /\ jiffies >= -LOAD_FREQ
  /\ calc_load_tasks \in Int
  /\ calc_load_idle \in [0 .. 1 -> Int]
  /\ calc_load_idx \in 0 .. 1
  /\ avenrun \in [EXP -> Nat]
  /\ flip \in BOOLEAN
  /\ sample \in [CPUs -> Int]
  /\ raced \in BOOLEAN
  /\ slept \subseteq CPUs
  /\ changes \in 0 .. MaxChanges

(* No delta is lost or folded twice, whichever of the two idle deltas it   *)
(* went into and however CPUs go down and come up: the global sum and the  *)
(* deltas under way add up to what the CPUs reported.                      *)
LoadConserved ==
  calc_load_tasks + SumOf(calc_load_idle) = SumOf(calc_load_active)

(* "only the sum of nr_uninterruptible over all cpus yields the correct    *)
(* result", and only CPUs that are up are sampled: a CPU that goes down    *)
(* leaves its share of the count behind on another.                        *)
UninterruptibleSum ==
  SumFunctionOnSet(nr_uninterruptible, online) = blocked

(* A CPU that is down counts nothing: its tasks, its share of the sleepers *)
(* and what it reported are gone.                                          *)
OfflineCounts ==
  \A c \in CPUs \ online :
    nr_running[c] = 0 /\ nr_uninterruptible[c] = 0 /\ calc_load_active[c] = 0

(* The types, and that neither of the two counts is ever lost.             *)
LoadInv == TypeOK /\ LoadConserved /\ UninterruptibleSum /\ OfflineCounts

(* An average takes what each CPU reported last, except that a CPU that    *)
(* goes idle inside the window still counts as it did before: the flipped  *)
(* index keeps it from negating its sample.  The one inaccuracy: when a    *)
(* CPU stops or starts its tick in the middle of an update, or goes down   *)
(* with an idle delta under way, one average may miss that delta.          *)
SampleExact ==
  [][calc_global_load /\ ~raced => calc_load_tasks' = SumOf(sample)]_vars

(* A CPU that slept when the window opened is not sampled in it: it would  *)
(* move its sample to a moment at which it is known to be busy.            *)
NoResample ==
  [][\A c \in CPUs :
       calc_load_account_active(c) /\ jiffies \in 0 .. WINDOW - 1
         => c \notin slept]_vars

(* The average moves towards the load and never past it, even when several *)
(* windows are caught up at once.                                          *)
NoOvershoot ==
  [][\A e \in EXP :
       LET load == IF calc_load_tasks' > 0 THEN calc_load_tasks' * FIXED_1 ELSE 0
       IN  avenrun'[e] # avenrun[e] =>
             /\ avenrun'[e] >= Min({avenrun[e], load})
             /\ avenrun'[e] <= Max({avenrun[e], load})]_vars

(* Being late does not lose the delta: once the counts rest, the global    *)
(* sum becomes right.                                                      *)
LoadSettles ==
  <>[](calc_load_tasks = SumOf(nr_running) + blocked)
=============================================================================
